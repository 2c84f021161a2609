------------------------- MODULE ServersVsConsumers --------------------------
(***************************************************************************)
(* scripts/placement/servers_vs_consumers.py: the server as Nova listed it *)
(* is compared with its allocations as Placement has them now.             *)
(*                                                                         *)
(* Abstracted: one server, since each is looked at by itself; VCPU stands  *)
(* for MEMORY_MB too.  The digits of a minor version are a sequence.       *)
(***************************************************************************)
EXTENDS Naturals, Sequences

CONSTANTS Host,
          Minor,  \* minor versions of Nova's API, as digits
          Swap,   \* sizes of a flavor's swap disk, in MiB
          MaxDisk \* bound: GiB of an allocation

VARIABLES
    cloud, \* minor; bfv: boot from volume; swap: the flavor's; host, or "none";
           \* known: does Nova know the server?; held: [Host -> what it has there];
           \* phase: what is done to it
    local  \* pc; host: as listed; held: allocations; phase: when they were read; fails

vars == <<cloud, local>>

\* An allocation is <<VCPU, DISK_GB>>; a baremetal one has neither.
Nothing == <<>>
Baremetal == <<0, 0>>
Allocation == {Nothing, Baremetal} \cup ((1 .. 2) \X (1 .. MaxDisk))
\* The flavor: VCPU, and root and ephemeral disk in GiB.
Cpus == 1
Root == 1
Ephemeral == 1
Kind == {"no host", "other host", "VCPU", "DISK_GB"}

\* Strings are compared digit by digit: "100" is before "60".
AtMost60(m) == m[1] < 6 \/ m = <<6>> \/ m = <<6, 0>>
Queens(m) == Len(m) < 2 \/ (Len(m) = 2 /\ 10 * m[1] + m[2] <= 60)
\* What Nova allocates: swap in GiB, rounded up, and the root disk of a volume
\* only up to Queens.
Gigabytes(mb) == (mb + 1023) \div 1024
Disk == Gigabytes(cloud.swap) + Ephemeral + IF cloud.bfv /\ ~Queens(cloud.minor) THEN 0 ELSE Root
On(h) == [g \in Host |-> IF g = h THEN <<Cpus, Disk>> ELSE Nothing]

TypeOK ==
    /\ cloud \in [minor : Minor, bfv : BOOLEAN, swap : Swap, host : Host \cup {"none"},
                  known : BOOLEAN, held : [Host -> Allocation],
                  phase : {"quiet", "booting", "moving", "deleted", "freed"}]
    /\ local.pc \in {"list", "allocations", "find", "compare", "end"}
    /\ local.host \in Host \cup {"none"} /\ local.held \in [Host -> Allocation]
    /\ local.fails \subseteq {<<"no allocations">>} \cup (Kind \X Host)

Init ==
    /\ cloud \in [minor : Minor, bfv : BOOLEAN, swap : Swap, host : Host \cup {"none"},
                  known : {TRUE}, held : [Host -> Allocation], phase : {"quiet"}]
    /\ local = [pc |-> "list", host |-> "none", held |-> [h \in Host |-> Nothing], phase |-> "quiet", fails |-> {}]

-----------------------------------------------------------------------------
(* Slips the script could have made. *)

\* The server is not looked for again.
FindNot ==
    /\ local.pc = "find"
    /\ local' = [local EXCEPT !.pc = "end",
                    !.fails = {f \in {<<"no allocations">>} : local.host # "none"}]
    /\ UNCHANGED cloud

-----------------------------------------------------------------------------
(* The script. *)

List ==
    /\ local.pc = "list" /\ cloud.known
    /\ local' = [local EXCEPT !.pc = "allocations", !.host = cloud.host]
    /\ UNCHANGED cloud

Allocations ==
    /\ local.pc = "allocations"
    /\ local' = [local EXCEPT !.held = cloud.held, !.phase = cloud.phase,
                    !.pc = IF \A h \in Host : cloud.held[h] = Nothing THEN "find" ELSE "compare"]
    /\ UNCHANGED cloud

\* A server that is gone, or without a host, needs no allocations.
Find ==
    /\ local.pc = "find"
    /\ local' = [local EXCEPT !.pc = "end",
                    !.fails = {f \in {<<"no allocations">>} : cloud.known /\ cloud.host # "none"}]
    /\ UNCHANGED cloud

\* flavor.swap is in MiB, and is added to the others as it is.
Expected == cloud.swap + Ephemeral + IF ~cloud.bfv \/ AtMost60(cloud.minor) THEN Root ELSE 0
Wrong(h) ==
    {f \in Kind \X {h} :
        CASE f[1] = "no host" -> local.host = "none"
          [] f[1] = "other host" -> local.host \notin {"none", h}
          [] f[1] = "VCPU" -> local.held[h][1] # Cpus
          [] f[1] = "DISK_GB" -> local.held[h][2] # Expected}

Compare ==
    /\ local.pc = "compare"
    /\ local' = [local EXCEPT !.pc = "end",
          !.fails = UNION {Wrong(h) : h \in {g \in Host : local.held[g] \notin {Nothing, Baremetal}}}]
    /\ UNCHANGED cloud

-----------------------------------------------------------------------------
(* The cloud: Placement learns of a server first, and of its end last. *)

Boot ==
    \/ /\ cloud.phase = "quiet" /\ cloud.host = "none" /\ \A h \in Host : cloud.held[h] = Nothing
       /\ \E h \in Host : cloud' = [cloud EXCEPT !.held = On(h), !.phase = "booting"]
    \/ /\ cloud.phase = "booting" /\ cloud.host = "none"
       /\ \E h \in Host : cloud.held[h] # Nothing /\ cloud' = [cloud EXCEPT !.host = h]

\* The allocations move ahead of the server.
Move ==
    \/ /\ cloud.phase = "quiet" /\ cloud.host # "none"
       /\ \E h \in Host \ {cloud.host} : cloud' = [cloud EXCEPT !.held = On(h), !.phase = "moving"]
    \/ /\ cloud.phase = "moving"
       /\ \E h \in Host : cloud.held[h] # Nothing /\ cloud' = [cloud EXCEPT !.host = h]

Delete ==
    \/ /\ cloud.phase = "quiet"
       /\ cloud' = [cloud EXCEPT !.known = FALSE, !.phase = "deleted"]
    \/ /\ cloud.phase = "deleted"
       /\ cloud' = [cloud EXCEPT !.held = [h \in Host |-> Nothing], !.phase = "freed"]

Next ==
    \/ List \/ Allocations \/ Find \/ Compare
    \/ (Boot \/ Move \/ Delete) /\ UNCHANGED local

Spec == Init /\ [][Next]_vars

-----------------------------------------------------------------------------
(* Properties. *)

Compared == {h \in Host : cloud.held[h] \notin {Nothing, Baremetal}}
ReportedDisk(h) == <<"DISK_GB", h>> \in local.fails
\* Versions behind 2.60 that the script takes for older ones: 2.100 to 2.599; and
\* the older ones it does not: 2.7 to 2.9.
Misread(m) == (Len(m) > 2 /\ m[1] < 6) \/ (Len(m) = 1 /\ m[1] > 6)
SwapMisread == cloud.swap > 1
RootMisread == cloud.bfv /\ Misread(cloud.minor)

\* What is reported of a server that was left alone is what is wrong with it, with
\* two exceptions: MiB of swap are added to GiB, and the root disk of a server that
\* boots from a volume is counted where it should not be, or not where it should,
\* by a version that is misread.  Where exactly one of them is the case, the disk
\* that Nova allocates is reported.  A server whose allocations are gone because it
\* was deleted is not reported.
FailsExact ==
    local.pc = "end" =>
        /\ cloud.phase = "quiet" =>
            /\ <<"no allocations">> \in local.fails
                <=> cloud.host # "none" /\ \A h \in Host : cloud.held[h] = Nothing
            /\ \A h \in Compared :
                /\ {k \in {"no host", "other host"} : <<k, h>> \in local.fails} # {} <=> cloud.host # h
                /\ <<"VCPU", h>> \in local.fails <=> cloud.held[h][1] # Cpus
                /\ ~SwapMisread /\ ~RootMisread => (ReportedDisk(h) <=> cloud.held[h][2] # Disk)
                /\ (SwapMisread # RootMisread) /\ cloud.held[h][2] = Disk => ReportedDisk(h)
        /\ local.phase = "freed" => local.fails = {}
=============================================================================
