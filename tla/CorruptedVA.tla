----------------------------- MODULE CorruptedVA -----------------------------
(***************************************************************************)
(* scripts/corrupted_va.py: what Nova says of a server's volumes is        *)
(* compared with Cinder, then with libvirt, by reads that come one after   *)
(* another while volumes are attached and detached.                        *)
(*                                                                         *)
(* Abstracted: one server, since each is looked at by itself, but for an   *)
(* exception, which ends the script; attachments of other servers.         *)
(***************************************************************************)
EXTENDS Naturals, Sequences

CONSTANTS Volume, Device

VARIABLES
    cloud, \* view: [service -> [Volume -> the device it knows]], "none", or
           \* "missing" where Cinder lacks the volume; aim, todo: the device of
           \* an operation and the services still to learn of it; touched: volumes
           \* with an operation since the start; mosk, active, server: here?
    local  \* pc; listed: attachments to compare; disks: disk_info; said: errors

vars == <<cloud, local>>

Known == Device \cup {"none"}
Attach == <<"nova", "libvirt", "cinder">>
Detach == <<"libvirt", "cinder", "nova">>
Suffixes(s) == {SubSeq(s, i, Len(s)) : i \in 1 .. Len(s) + 1}
Verdict == {"nonexistent", "not in Cinder", "device"} \X Volume
Attached(service) == {<<v, cloud.view[service][v]>> : v \in {u \in Volume : cloud.view[service][u] # "none"}}

TypeOK ==
    /\ cloud \in [view : [nova : [Volume -> Known], libvirt : [Volume -> Known],
                          cinder : [Volume -> Known \cup {"missing"}]],
                  aim : [Volume -> Known], todo : [Volume -> Suffixes(Attach) \cup Suffixes(Detach)],
                  touched : SUBSET Volume,
                  mosk : BOOLEAN, active : BOOLEAN, server : {"here", "moved", "deleted"}]
    /\ local \in [pc : {"list", "attachments", "cinder", "libvirt", "nova", "end", "raised"},
                  listed : SUBSET (Volume \X Known), disks : SUBSET (Volume \X Known),
                  said : SUBSET (Verdict \cup {<<"libvirt">>})]

Init ==
    /\ cloud \in [view : [nova : [Volume -> Known], libvirt : [Volume -> Known],
                          cinder : [Volume -> Known \cup {"missing"}]],
                  aim : {[v \in Volume |-> "none"]}, todo : {[v \in Volume |-> <<>>]}, touched : {{}},
                  mosk : BOOLEAN, active : BOOLEAN, server : {"here"}]
    /\ local = [pc |-> "list", listed |-> {}, disks |-> {}, said |-> {}]

-----------------------------------------------------------------------------
(* A slip the script could have made: only the volumes' ids are compared. *)

NovaIds ==
    /\ local.pc = "nova"
    /\ local' = [local EXCEPT !.pc = "end",
          !.said = @ \cup {e \in {<<"libvirt">>} : {d[1] : d \in local.disks} # {a[1] : a \in Attached("nova")}}]
    /\ UNCHANGED cloud

-----------------------------------------------------------------------------
(* The script. *)

\* Servers without volumes are passed over.
List ==
    /\ local.pc = "list"
    /\ local' = [local EXCEPT !.pc = IF Attached("nova") = {} THEN "end" ELSE "attachments"]
    /\ UNCHANGED cloud

Attachments ==
    /\ local.pc = "attachments"
    /\ cloud.server # "deleted"
    /\ local' = [local EXCEPT !.pc = "cinder", !.listed = Attached("nova")]
    /\ UNCHANGED cloud

\* The for loop over the volume's attachments and its else.
CompareCinder ==
    /\ local.pc = "cinder"
    /\ \E a \in local.listed :
        LET there == cloud.view.cinder[a[1]]
            error == CASE there = "missing" -> {<<"nonexistent", a[1]>>}
                       [] there = "none" -> {<<"not in Cinder", a[1]>>}
                       [] OTHER -> IF there # a[2] THEN {<<"device", a[1]>>} ELSE {}
        IN local' = [local EXCEPT !.listed = @ \ {a}, !.said = @ \cup error]
    /\ UNCHANGED cloud

\* The status is the one of the listing; only MOSK tells libvirt's view.
CinderDone ==
    /\ local.pc = "cinder" /\ local.listed = {}
    /\ local' = [local EXCEPT !.pc = IF cloud.active /\ cloud.mosk THEN "libvirt" ELSE "end"]
    /\ UNCHANGED cloud

\* virsh dumpxml on the host of the listing.
DumpXML ==
    /\ local.pc = "libvirt"
    /\ cloud.server = "here"
    /\ local' = [local EXCEPT !.pc = "nova", !.disks = Attached("libvirt")]
    /\ UNCHANGED cloud

CompareNova ==
    /\ local.pc = "nova"
    /\ cloud.server # "deleted"
    /\ local' = [local EXCEPT !.pc = "end",
                     !.said = @ \cup {e \in {<<"libvirt">>} : local.disks # Attached("nova")}]
    /\ UNCHANGED cloud

\* Any call to an API or to kubectl may raise, and one about a server that is gone
\* does: the script ends, without a look at the servers behind this one.
Raise ==
    /\ \/ local.pc \in {"list", "attachments", "libvirt", "nova"}
       \/ local.pc = "cinder" /\ (local.listed # {} \/ cloud.active)
    /\ local' = [local EXCEPT !.pc = "raised"]
    /\ UNCHANGED cloud

-----------------------------------------------------------------------------
(* The cloud: a sound volume is attached or detached, service by service. *)

Begin(v) ==
    /\ v \notin cloud.touched
    /\ \A service \in {"libvirt", "cinder"} : cloud.view[service][v] = cloud.view.nova[v]
    /\ \E d \in Known :
        /\ (d = "none") # (cloud.view.nova[v] = "none")
        /\ cloud' = [cloud EXCEPT !.touched = @ \cup {v}, !.aim[v] = d,
                                  !.todo[v] = IF d = "none" THEN Detach ELSE Attach]
    /\ UNCHANGED local

Learn(v) ==
    /\ cloud.todo[v] # <<>>
    /\ cloud' = [cloud EXCEPT !.view[Head(cloud.todo[v])][v] = cloud.aim[v], !.todo[v] = Tail(@)]
    /\ UNCHANGED local

Leave ==
    /\ cloud.server = "here"
    /\ \E s \in {"moved", "deleted"} : cloud' = [cloud EXCEPT !.server = s]
    /\ UNCHANGED local

Next ==
    \/ List \/ Attachments \/ CompareCinder \/ CinderDone \/ DumpXML \/ CompareNova \/ Raise
    \/ \E v \in Volume : Begin(v) \/ Learn(v)
    \/ Leave

Spec == Init /\ [][Next]_vars

-----------------------------------------------------------------------------
(* Properties. *)

\* An error about Cinder names the volume.
Reported(v) == \E e \in local.said : e[1] # "libvirt" /\ e[2] = v

\* Of the volumes on which nobody worked, whatever went on with others: none is
\* reported that Cinder has as Nova lists it, wherever the script was ended; when
\* it ends by itself, all that Nova lists and Cinder has otherwise are.  Where
\* nobody worked on any, the disks of an active server in MOSK for which Nova
\* lists some are reported if and only if Nova and libvirt disagree on them.
AlarmsExact ==
    /\ \A v \in Volume \ cloud.touched :
        /\ Reported(v) => cloud.view.nova[v] \notin {"none", cloud.view.cinder[v]}
        /\ local.pc = "end" /\ cloud.view.nova[v] \notin {"none", cloud.view.cinder[v]} => Reported(v)
    /\ local.pc = "end" /\ cloud.touched = {} =>
        (<<"libvirt">> \in local.said
            <=> cloud.active /\ cloud.mosk /\ Attached("nova") # {} /\ cloud.view.nova # cloud.view.libvirt)
=============================================================================
