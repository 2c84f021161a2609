-------------------------- MODULE OrphanAllocations --------------------------
(***************************************************************************)
(* scripts/placement/orphan_allocations.py: reads the allocations of one   *)
(* resource provider after another, asks Nova for each consumer, and       *)
(* deletes those Nova does not know, while servers are created, moved and  *)
(* deleted.                                                                *)
(***************************************************************************)
EXTENDS Naturals, Sequences, SequencesExt, Functions

CONSTANTS Server, Provider, \* Provider: 1 .. N, in the order of their names
          Migration         \* [Server -> the consumer its migration has]

VARIABLES
    cloud, \* servers: known to Nova; gone: deleted from it; held: <<provider,
           \* consumer, "std" or "custom">>; moved: servers that were moved
    local  \* delete: --delete; pc; rp; consumers: to be looked at; consumer: the
           \* one to delete; orphans

vars == <<cloud, local>>

Consumer == Server \cup {Migration[s] : s \in Server}
Class == {"std", "custom"}

TypeOK ==
    /\ cloud \in [servers : SUBSET Server, gone : SUBSET Server, moved : SUBSET Server,
                  held : SUBSET (Provider \X Consumer \X Class)]
    /\ local.pc \in {"read", "find", "delete", "end"} /\ local.delete \in BOOLEAN
    /\ local.rp \in Nat /\ local.consumers \subseteq Consumer /\ local.consumer \subseteq Consumer
    /\ local.orphans \in Seq(Consumer)

\* Allocations without a server are what the script is for.
Init ==
    /\ cloud \in [servers : SUBSET Server, gone : SUBSET Server, moved : {{}},
                  held : SUBSET (Provider \X Server \X Class)]
    /\ cloud.servers \cap cloud.gone = {}
    /\ \A a \in cloud.held : a[2] \in cloud.servers \cup cloud.gone
    /\ local \in [delete : BOOLEAN, pc : {"read"}, rp : {1}, consumers : {{}}, consumer : {{}},
                  orphans : {<<>>}]

-----------------------------------------------------------------------------
(* A slip the script could have made: find_server without all_projects. *)

FindOwn ==
    /\ local.pc = "find"
    /\ \E c \in local.consumers, own \in SUBSET cloud.servers :
          local' = IF c \in own THEN [local EXCEPT !.consumers = @ \ {c}]
                   ELSE [local EXCEPT !.consumers = @ \ {c}, !.consumer = {c}, !.orphans = Append(@, c),
                                      !.pc = IF local.delete THEN "delete" ELSE "find"]
    /\ UNCHANGED cloud

-----------------------------------------------------------------------------
(* The script. *)

\* The allocations of a provider, but for those of other resources.
Read ==
    /\ local.pc = "read"
    /\ local' = IF local.rp \notin Provider THEN [local EXCEPT !.pc = "end"]
                ELSE [local EXCEPT !.pc = "find",
                         !.consumers = {c \in Consumer : <<local.rp, c, "std">> \in cloud.held
                                                         /\ <<local.rp, c, "custom">> \notin cloud.held}]
    /\ UNCHANGED cloud

Find ==
    /\ local.pc = "find"
    /\ \E c \in local.consumers :
          local' = IF c \in cloud.servers THEN [local EXCEPT !.consumers = @ \ {c}]
                   ELSE [local EXCEPT !.consumers = @ \ {c}, !.consumer = {c}, !.orphans = Append(@, c),
                                      !.pc = IF local.delete THEN "delete" ELSE "find"]
    /\ UNCHANGED cloud

\* DELETE takes away what the consumer has on any provider; 204 and 404 count as
\* deleted, for another status the orphan is taken off the list.
Delete ==
    /\ local.pc = "delete"
    /\ \/ /\ cloud' = [cloud EXCEPT !.held = {a \in @ : a[2] \notin local.consumer}]
          /\ local' = [local EXCEPT !.pc = "find", !.consumer = {}]
       \/ /\ local' = [local EXCEPT !.pc = "find", !.consumer = {}, !.orphans = Front(@)]
          /\ UNCHANGED cloud

NextProvider ==
    /\ local.pc = "find" /\ local.consumers = {}
    /\ local' = [local EXCEPT !.pc = "read", !.rp = @ + 1]
    /\ UNCHANGED cloud

-----------------------------------------------------------------------------
(* The cloud: Nova knows a server before Placement does, and for longer. *)

Boot(s) ==
    /\ s \notin cloud.servers \cup cloud.gone
    /\ cloud' = [cloud EXCEPT !.servers = @ \cup {s}]

Claim(s) ==
    /\ s \in cloud.servers /\ \A a \in cloud.held : a[2] # s
    /\ \E p \in Provider : cloud' = [cloud EXCEPT !.held = @ \cup {<<p, s, "std">>}]

\* The source is kept under the migration's name, until it is over.
Move(s) ==
    /\ s \in cloud.servers \ cloud.moved
    /\ \E p, q \in Provider :
        /\ <<p, s, "std">> \in cloud.held /\ p # q
        /\ cloud' = [cloud EXCEPT !.moved = @ \cup {s},
              !.held = (@ \ {<<p, s, "std">>}) \cup {<<p, Migration[s], "std">>, <<q, s, "std">>}]

Moved(s) == cloud' = [cloud EXCEPT !.held = {a \in @ : a[2] # Migration[s]}]

Vanish(s) ==
    /\ s \in cloud.servers
    /\ cloud' = [cloud EXCEPT !.servers = @ \ {s}, !.gone = @ \cup {s}]

Free(s) ==
    /\ s \in cloud.gone
    /\ cloud' = [cloud EXCEPT !.held = {a \in @ : a[2] # s}]

Cloud(s) == Boot(s) \/ Claim(s) \/ Move(s) \/ Moved(s) \/ Vanish(s) \/ Free(s)

Next ==
    \/ Read \/ Find \/ Delete \/ NextProvider
    \/ (\E s \in Server : Cloud(s)) /\ UNCHANGED local

Spec == Init /\ [][Next]_vars

-----------------------------------------------------------------------------
(* Property. *)

\* The allocations of a server are never deleted and it is never reported, whatever
\* happens to it meanwhile, because Nova is asked behind Placement: an orphan is a
\* server that is gone, or a migration under way, which Nova does not know as a
\* server.  With --delete nobody is reported twice.
ServersKeepAllocations ==
    /\ local.consumer \cap cloud.servers = {}
    /\ \A i \in DOMAIN local.orphans : local.orphans[i] \notin cloud.servers
    /\ local.delete => IsInjective(local.orphans)
=============================================================================
