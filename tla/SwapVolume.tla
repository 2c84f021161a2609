----------------------------- MODULE SwapVolume ------------------------------
(***************************************************************************)
(* scripts/nova/repro-swap-volume.py: makes two volumes and a server, swaps *)
(* the volumes of the server there and back, and cleans up whatever        *)
(* happened.  Every call may raise, before or after it was carried out;    *)
(* the swap itself goes on in Nova and Cinder after its call.              *)
(*                                                                         *)
(* Abstracted: a timeout may come at any poll; a volume has the three      *)
(* states that matter to the script.                                       *)
(***************************************************************************)
EXTENDS Naturals, FiniteSets

Volume == {"vol1", "vol2"}
Resource == Volume \cup {"server"}

VARIABLES
    pc,       \* what the script does next
    turn,     \* 1: swapping there, 2: swapping back
    known,    \* self.vol1, self.vol2 and self.server that are set
    raised,   \* what has raised: the "body" of main's try, its "finally"
    exists,   \* resources the cloud has
    status,   \* [Volume -> its status in Cinder]
    attached, \* the server's volumes in Nova
    swap,     \* how far Nova is with a swap
    swaps     \* history: swaps that Cinder has completed

vars == <<pc, turn, known, raised, exists, status, attached, swap, swaps>>
cloud == <<exists, status, attached, swap, swaps>>

Label == Resource \cup {"attach", "check", "put", "wait vol1", "wait vol2",
                        "delete server", "delete vol1", "delete vol2", "ended"}
After == [vol1 |-> "vol2", vol2 |-> "server", server |-> "attach"]
Wait == [vol1 |-> "wait vol1", vol2 |-> "wait vol2"]
Delete == [vol1 |-> "delete vol1", vol2 |-> "delete vol2"]

TypeOK ==
    /\ pc \in Label
    /\ turn \in 1 .. 2
    /\ known \subseteq Resource /\ exists \subseteq Resource
    /\ raised \subseteq {"body", "finally"}
    /\ status \in [Volume -> {"available", "reserved", "in-use"}]
    /\ attached \subseteq Volume
    /\ swap \in {"none", "copying", "attached", "detached"}
    /\ swaps \in 0 .. 2

Init ==
    /\ pc = "vol1"
    /\ turn = 1
    /\ known = {} /\ raised = {}
    /\ exists = {}
    /\ status = [v \in Volume |-> "available"]
    /\ attached = {}
    /\ swap = "none" /\ swaps = 0

Old == IF turn = 1 THEN "vol1" ELSE "vol2"
New == IF turn = 1 THEN "vol2" ELSE "vol1"

\* An exception in the try: on to the finally clause.
Raise == raised' = raised \cup {"body"} /\ pc' = "delete server"

\* An exception in the finally clause: the rest of it is skipped.
RaiseInFinally == raised' = raised \cup {"finally"} /\ pc' = "ended"

-----------------------------------------------------------------------------
(* Slips the script could have made; the actions below are what it does. *)

\* test_swap_volume waits for the first of the volumes only.
WaitDoneForOne(v) ==
    /\ pc = Wait[v]
    /\ status[v] = IF v = New THEN "in-use" ELSE "available"
    /\ IF turn = 1 THEN turn' = 2 /\ pc' = "check"
       ELSE pc' = "delete server" /\ UNCHANGED turn
    /\ UNCHANGED <<known, raised, cloud>>

\* The volumes are deleted although the server could not be.
DeleteServerGoesOn ==
    /\ pc = "delete server"
    /\ "server" \in known
    /\ pc' = "delete vol1"
    /\ UNCHANGED <<turn, known, raised, cloud>>

\* The second volume is kept in a local variable of setup.
CreateForgets(r) ==
    /\ pc = r
    /\ exists' = exists \cup {r}
    /\ known' = IF r = "vol2" THEN known ELSE known \cup {r}
    /\ pc' = After[r]
    /\ UNCHANGED <<turn, raised, status, attached, swap, swaps>>

-----------------------------------------------------------------------------
(* setup. *)

\* create_volume and create_server return when the resource is ready.
Create(r) ==
    /\ pc = r
    /\ exists' = exists \cup {r}
    /\ known' = known \cup {r}
    /\ pc' = After[r]
    /\ UNCHANGED <<turn, raised, status, attached, swap, swaps>>

CreateRaises(r) ==
    /\ pc = r
    /\ exists' \in {exists, exists \cup {r}}
    /\ Raise
    /\ UNCHANGED <<turn, known, status, attached, swap, swaps>>

Attach ==
    /\ pc = "attach"
    /\ attached' = {"vol1"}
    /\ status' = [status EXCEPT !["vol1"] = "in-use"]
    /\ pc' = "check"
    /\ UNCHANGED <<turn, known, raised, exists, swap, swaps>>

AttachRaises ==
    /\ pc = "attach"
    /\ \/ UNCHANGED <<attached, status>>
       \/ status' = [status EXCEPT !["vol1"] = "reserved"] /\ UNCHANGED attached
       \/ status' = [status EXCEPT !["vol1"] = "in-use"] /\ attached' = {"vol1"}
    /\ Raise
    /\ UNCHANGED <<turn, known, exists, swap, swaps>>

-----------------------------------------------------------------------------
(* test_swap_volume. *)

\* get_server and the assertions of swap_volume, which may meet a Nova that has
\* not taken down the swap there when Cinder has.
Check ==
    /\ pc = "check"
    /\ IF Old \in attached /\ New \notin attached
       THEN pc' = "put" /\ UNCHANGED raised
       ELSE Raise
    /\ UNCHANGED <<turn, known, cloud>>

Put ==
    /\ pc = "put"
    /\ swap' = "copying"
    /\ status' = [status EXCEPT ![New] = "reserved"]
    /\ pc' = "wait vol1"
    /\ UNCHANGED <<turn, known, raised, exists, attached, swaps>>

\* get_server raises, or the PUT does, carried out or not.
SwapRaises ==
    /\ pc \in {"check", "put"}
    /\ \/ UNCHANGED <<swap, status>>
       \/ /\ pc = "put"
          /\ swap' = "copying"
          /\ status' = [status EXCEPT ![New] = "reserved"]
    /\ Raise
    /\ UNCHANGED <<turn, known, exists, attached, swaps>>

\* A poll of wait_for_volume finds the status: vol1 is waited for first.
WaitDone(v) ==
    /\ pc = Wait[v]
    /\ status[v] = IF v = New THEN "in-use" ELSE "available"
    /\ IF v = "vol1" THEN pc' = "wait vol2" /\ UNCHANGED turn
       ELSE IF turn = 1 THEN turn' = 2 /\ pc' = "check"
       ELSE pc' = "delete server" /\ UNCHANGED turn
    /\ UNCHANGED <<known, raised, cloud>>

WaitRaises(v) ==
    /\ pc = Wait[v]
    /\ Raise
    /\ UNCHANGED <<turn, known, cloud>>

-----------------------------------------------------------------------------
(* cleanup. *)

\* Deleting the server detaches its volumes, and ends a swap wherever it is.
ServerGone ==
    /\ exists' = exists \ {"server"}
    /\ attached' = {}
    /\ swap' = "none"
    /\ \E stuck \in SUBSET {v \in Volume : status[v] = "reserved"} :
          status' = [v \in Volume |-> IF v \in stuck THEN "reserved" ELSE "available"]
    /\ UNCHANGED swaps

DeleteServer ==
    /\ pc = "delete server"
    /\ IF "server" \in known THEN ServerGone ELSE UNCHANGED cloud
    /\ pc' = "delete vol1"
    /\ UNCHANGED <<turn, known, raised>>

DeleteServerRaises ==
    /\ pc = "delete server"
    /\ "server" \in known
    /\ ServerGone \/ UNCHANGED cloud
    /\ RaiseInFinally
    /\ UNCHANGED <<turn, known>>

\* Cinder deletes available volumes only.
DeleteVolume(v) ==
    /\ pc = Delete[v]
    /\ v \in known => status[v] = "available"
    /\ exists' = exists \ (known \cap {v})
    /\ pc' = IF v = "vol1" THEN "delete vol2" ELSE "ended"
    /\ UNCHANGED <<turn, known, raised, status, attached, swap, swaps>>

DeleteVolumeRaises(v) ==
    /\ pc = Delete[v]
    /\ v \in known
    /\ exists' \in {exists} \cup (IF status[v] = "available" THEN {exists \ {v}} ELSE {})
    /\ RaiseInFinally
    /\ UNCHANGED <<turn, known, status, attached, swap, swaps>>

-----------------------------------------------------------------------------
(* Nova's swap: Cinder learns of the new volume first, then of the old one,  *)
(* and Nova itself last.                                                     *)

NewInUse ==
    /\ swap = "copying"
    /\ status' = [status EXCEPT ![New] = "in-use"]
    /\ swap' = "attached"
    /\ UNCHANGED <<pc, turn, known, raised, exists, attached, swaps>>

SwapFails ==
    /\ swap = "copying"
    /\ status' = [status EXCEPT ![New] = "available"]
    /\ swap' = "none"
    /\ UNCHANGED <<pc, turn, known, raised, exists, attached, swaps>>

OldAvailable ==
    /\ swap = "attached"
    /\ status' = [status EXCEPT ![Old] = "available"]
    /\ swap' = "detached"
    /\ swaps' = swaps + 1
    /\ UNCHANGED <<pc, turn, known, raised, exists, attached>>

\* The script may have turned already: Nova swaps what it was asked to.
NovaSwapped ==
    /\ swap = "detached"
    /\ attached' = Volume \ attached
    /\ swap' = "none"
    /\ UNCHANGED <<pc, turn, known, raised, exists, status, swaps>>

Next ==
    \/ \E r \in Resource : Create(r) \/ CreateRaises(r)
    \/ Attach \/ AttachRaises \/ Check \/ Put \/ SwapRaises
    \/ \E v \in Volume : WaitDone(v) \/ WaitRaises(v) \/ DeleteVolume(v) \/ DeleteVolumeRaises(v)
    \/ DeleteServer \/ DeleteServerRaises
    \/ NewInUse \/ SwapFails \/ OldAvailable \/ NovaSwapped

Spec == Init /\ [][Next]_vars

-----------------------------------------------------------------------------
(* Properties. *)

\* test_swap_volume returns only when both swaps are through: a status is never
\* taken from before the swap, though each wait looks at one volume.
BothSwapsDone == pc = "delete server" /\ raised = {} => swaps = 2

\* cleanup deletes no volume that is still attached: it gets to the volumes only
\* behind the server.
DetachedFirst ==
    \A v \in Volume : pc = Delete[v] /\ v \in known => attached = {} /\ swap = "none"

\* When the finally clause ran to its end, at most one resource is left: the
\* one whose creation raised, and then nothing is attached to it.
LeftIsLone ==
    pc = "ended" /\ "finally" \notin raised =>
        /\ Cardinality(exists) <= 1 /\ attached = {}
        /\ exists # {} => "body" \in raised
=============================================================================
