------------------------ MODULE OverallocationServers ------------------------
(***************************************************************************)
(* scripts/placement/repro-overallocation-servers.py: servers are created  *)
(* in parallel, the usage of the providers is read, and all the servers of *)
(* the project are deleted, in rounds, by commands that may fail.          *)
(*                                                                         *)
(* Abstracted: one provider, which has room for one server; "96" is the    *)
(* usage of two.                                                           *)
(***************************************************************************)
EXTENDS Naturals, FiniteSets, Sequences

CONSTANTS Rounds, Instances

VARIABLES
    cloud, \* servers: <<round, number>>, or <<0, 0>> for one of somebody else;
           \* placed: those with an allocation; deleting
    local  \* mode: how the script was called; pc; round; todo: servers to create;
           \* listed: servers(); failed: rounds whose
           \* clean-up failed, for some servers at least

vars == <<cloud, local>>

Server == {<<0, 0>>} \cup ((1 .. Rounds) \X (1 .. Instances + 1))
Batch(round, n) == {round} \X (1 .. n)

TypeOK ==
    /\ cloud \in [servers : SUBSET Server, placed : SUBSET Server, deleting : SUBSET Server]
    /\ local \in [mode : {"rounds", "create", "delete"}, round : 1 .. Rounds,
                  todo : SUBSET Server, listed : SUBSET Server, failed : SUBSET (1 .. Rounds),
                  pc : {"create", "check", "servers", "delete", "reproduced", "raised", "ended"}]

Init ==
    /\ cloud \in [servers : SUBSET {<<0, 0>>}, placed : {{}}, deleting : {{}}]
    /\ local \in [mode : {"rounds", "create", "delete"}, pc : {"create", "servers"}, round : {1}, failed : {{}},
                  todo : {{}, Batch(1, Instances), Batch(1, Instances + 1)}, listed : {{}}]
    /\ local.pc = IF local.mode = "delete" THEN "servers" ELSE "create"
    /\ Cardinality(local.todo) = CASE local.mode = "rounds" -> Instances
                                   [] local.mode = "create" -> Instances + 1
                                   [] OTHER -> 0

-----------------------------------------------------------------------------
(* A slip the script could have made: only the servers that are active. *)

ServersActive ==
    /\ local.pc = "servers"
    /\ local' = [local EXCEPT !.pc = "delete", !.listed = cloud.placed]
    /\ UNCHANGED cloud

-----------------------------------------------------------------------------
(* The script. *)

\* A worker of the Pool, or the loop without one: the server may find no room, and
\* the room of one server may be given to many at once.
Create(x) ==
    /\ local.pc = "create" /\ x \in local.todo
    /\ local' = [local EXCEPT !.todo = @ \ {x}]
    /\ cloud' \in {cloud, [cloud EXCEPT !.servers = @ \cup {x}],
                          [cloud EXCEPT !.servers = @ \cup {x}, !.placed = @ \cup {x}]}

\* pool.map returns when all have.
Join ==
    /\ local.pc = "create" /\ local.todo = {}
    /\ local' = [local EXCEPT !.pc = IF local.mode = "rounds" THEN "check" ELSE "ended"]
    /\ UNCHANGED cloud

\* check_nodes: the usage must be that of two servers; a command that fails shows
\* none, and the script goes on.  The exception ends it.
Check ==
    /\ local.pc = "check"
    /\ \/ local' = [local EXCEPT !.pc = IF Cardinality(cloud.placed) = 2 THEN "reproduced" ELSE "servers"]
       \/ local' = [local EXCEPT !.pc = "servers"]
    /\ UNCHANGED cloud

\* servers(): everything the project has; nothing if the command fails, and an
\* exception if it cannot be run.
Servers ==
    /\ local.pc = "servers"
    /\ \/ local' = [local EXCEPT !.pc = "delete", !.listed = cloud.servers]
       \/ local' = [local EXCEPT !.pc = "delete", !.listed = {}, !.failed = @ \cup {local.round}]
       \/ local' = [local EXCEPT !.pc = "raised"]
    /\ UNCHANGED cloud

\* Nova deletes in its own time; the command may fail for some or all of them.
Delete ==
    /\ local.pc = "delete"
    /\ \E asked \in SUBSET local.listed :
        /\ cloud' = [cloud EXCEPT !.deleting = @ \cup (asked \cap cloud.servers)]
        /\ local' = [local EXCEPT !.failed = IF asked = local.listed THEN @ ELSE @ \cup {local.round},
              !.listed = {},
              !.pc = IF local.mode = "rounds" /\ local.round < Rounds THEN "create" ELSE "ended",
              !.round = IF local.mode = "rounds" /\ local.round < Rounds THEN @ + 1 ELSE @,
              !.todo = IF local.mode = "rounds" /\ local.round < Rounds
                       THEN Batch(local.round + 1, Instances) ELSE {}]

-----------------------------------------------------------------------------
(* Nova. *)

Gone(x) ==
    /\ x \in cloud.deleting
    /\ cloud' = [cloud EXCEPT !.servers = @ \ {x}, !.placed = @ \ {x}, !.deleting = @ \ {x}]
    /\ UNCHANGED local

Next ==
    \/ \E x \in Server : Create(x) \/ Gone(x)
    \/ Join \/ Check \/ Servers \/ Delete

Spec == Init /\ [][Next]_vars

-----------------------------------------------------------------------------
(* Properties. *)

\* What is left of the servers of an earlier round, or of somebody else's, and that
\* Nova is not deleting, outlived the clean-ups of all rounds since, which failed;
\* and the servers that reproduced the bug are left to be looked at.
LeftoversExplained ==
    /\ local.pc \in {"create", "check"} =>
        \A x \in cloud.servers \ cloud.deleting, r \in 1 .. local.round - 1 : x[1] <= r => r \in local.failed
    /\ local.pc = "reproduced" => \A x \in cloud.deleting : x[1] # local.round
=============================================================================
