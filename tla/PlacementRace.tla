---------------------------- MODULE PlacementRace ----------------------------
(***************************************************************************)
(* scripts/placement/repro-overallocation-sdk.py: threads that race for    *)
(* the last unit of an inventory of the Placement service, and the main    *)
(* program that counts who got it and cleans up.                           *)
(*                                                                         *)
(* Placement is external: a POST of an allocation first reads what is left *)
(* and then writes, and only a Serialised service looks again when it      *)
(* writes.  A consumer is the thread that made its uuid.                   *)
(***************************************************************************)
EXTENDS Naturals, FiniteSets

CONSTANTS Thread,     \* the count concurrent requests of a round
          Rounds,     \* repeats
          Serialised, \* is the race of the bug report fixed?
          Faults      \* may calls fail for reasons of their own?

ASSUME ThreadAssumption == IsFiniteSet(Thread)
ASSUME RoundsAssumption == Rounds \in Nat \ {0}
ASSUME SwitchAssumption == Serialised \in BOOLEAN /\ Faults \in BOOLEAN

VARIABLES
    pc,      \* what the main thread does next
    round,   \* rounds begun
    post,    \* [Thread -> how far its POST is]
    pending, \* consumers delete_allocation is still to be called for
    caught,  \* was the "Caught it!" prompt shown in this round?
    raising, \* is an exception on its way through the finally clause?
    rp,      \* number of resource providers of the test's name
    class,   \* number of resource classes of the test's name
    allocs   \* consumers with an allocation

vars == <<pc, round, post, pending, caught, raising, rp, class, allocs>>
service == <<rp, class, allocs>>

Answered == {"204", "refused", "raised"}
PostState == {"idle", "sent", "admitted"} \cup Answered
Label == {"setup", "post", "check", "prompt", "delete", "delete rp", "delete class", "end",
          "done", "aborted"}

TypeOK ==
    /\ pc \in Label
    /\ round \in 0 .. Rounds
    /\ post \in [Thread -> PostState]
    /\ pending \subseteq Thread
    /\ caught \in {"no", "yes"}
    /\ raising \in {"no", "yes"}
    /\ rp \in {0, 1} /\ class \in {0, 1}
    /\ allocs \subseteq Thread

Init ==
    /\ pc = "setup"
    /\ round = 0
    /\ post = [t \in Thread |-> "idle"]
    /\ pending = {}
    /\ caught = "no"
    /\ raising = "no"
    /\ rp = 0 /\ class = 0
    /\ allocs = {}

Winners == {t \in Thread : post[t] = "204"}

-----------------------------------------------------------------------------
(* Slips the script could have made; the actions below are what it does. *)

\* The inventory is created a second time by each round that finds the class.
SetupTwice ==
    /\ pc = "setup"
    /\ round < Rounds
    /\ rp = 0
    /\ rp' = 1 /\ class' = class + 2
    /\ round' = round + 1
    /\ post' = [t \in Thread |-> "sent"]
    /\ caught' = "no"
    /\ pc' = "post"
    /\ UNCHANGED <<pending, raising, allocs>>

\* Any winner at all is taken for the race.
CheckAny ==
    /\ pc = "check"
    /\ IF \E t \in Thread : post[t] = "raised"
       THEN /\ raising' = "yes" /\ pc' = "delete rp"
            /\ UNCHANGED <<pending, caught>>
       ELSE /\ caught' = IF Winners # {} THEN "yes" ELSE "no"
            /\ pc' = IF Winners # {} THEN "prompt" ELSE "delete"
            /\ pending' = Thread
            /\ UNCHANGED raising
    /\ UNCHANGED <<round, post, service>>

\* A resource provider that is in use is logged and left.
DeleteProviderLogged ==
    /\ pc = "delete rp"
    /\ rp' = IF allocs = {} THEN 0 ELSE rp
    /\ pc' = "delete class"
    /\ UNCHANGED <<round, post, pending, caught, raising, class, allocs>>

-----------------------------------------------------------------------------
(* setup and make_allocation. *)

\* The resource class unless it is there, the provider, its inventory, the
\* candidates; then the threads start.
Setup ==
    /\ pc = "setup"
    /\ round < Rounds
    /\ rp = 0
    /\ rp' = 1 /\ class' = 1
    /\ round' = round + 1
    /\ post' = [t \in Thread |-> "sent"]
    /\ caught' = "no"
    /\ pc' = "post"
    /\ UNCHANGED <<pending, raising, allocs>>

\* A call of setup raises, before the try: what it created stays.
SetupFails ==
    /\ pc = "setup"
    /\ round < Rounds
    /\ Faults
    /\ class' \in {class, 1}
    /\ rp' \in IF class' = 1 THEN {rp, 1} ELSE {rp}
    /\ round' = round + 1
    /\ pc' = "aborted"
    /\ UNCHANGED <<post, pending, caught, raising, allocs>>

Free == Cardinality(allocs) < 1

\* Placement looks at the inventory for a request.
Admit(t) ==
    /\ post[t] = "sent"
    /\ post' = [post EXCEPT ![t] = IF Free THEN "admitted" ELSE "refused"]
    /\ UNCHANGED <<pc, round, pending, caught, raising, service>>

\* Placement writes the allocation, or refuses the request after all.
Write(t) ==
    /\ post[t] = "admitted"
    /\ IF Serialised /\ ~Free
       THEN post' = [post EXCEPT ![t] = "refused"] /\ UNCHANGED allocs
       ELSE post' = [post EXCEPT ![t] = "204"] /\ allocs' = allocs \cup {t}
    /\ UNCHANGED <<pc, round, pending, caught, raising, rp, class>>

\* A request fails with another status or with an exception, before or after
\* its allocation was written.
PostFails(t) ==
    /\ Faults
    /\ post[t] \in {"sent", "admitted"}
    /\ \E answer \in {"refused", "raised"} : post' = [post EXCEPT ![t] = answer]
    /\ allocs' \in IF post[t] = "admitted" THEN {allocs, allocs \cup {t}} ELSE {allocs}
    /\ UNCHANGED <<pc, round, pending, caught, raising, rp, class>>

Join ==
    /\ pc = "post"
    /\ \A t \in Thread : post[t] \in Answered
    /\ pc' = "check"
    /\ UNCHANGED <<round, post, pending, caught, raising, service>>

-----------------------------------------------------------------------------
(* The rest of main. *)

\* list(executor.map(...)) raises what a thread raised; otherwise anything but
\* one answer 204 is announced.
Check ==
    /\ pc = "check"
    /\ IF \E t \in Thread : post[t] = "raised"
       THEN /\ raising' = "yes" /\ pc' = "delete rp"
            /\ UNCHANGED <<pending, caught>>
       ELSE /\ caught' = IF Cardinality(Winners) # 1 THEN "yes" ELSE "no"
            /\ pc' = IF Cardinality(Winners) # 1 THEN "prompt" ELSE "delete"
            /\ pending' = Thread
            /\ UNCHANGED raising
    /\ UNCHANGED <<round, post, service>>

\* input(...) returns, or is interrupted.
Prompt ==
    /\ pc = "prompt"
    /\ \/ pc' = "delete" /\ UNCHANGED raising
       \/ pc' = "delete rp" /\ raising' = "yes"
    /\ UNCHANGED <<round, post, pending, caught, service>>

\* delete_allocation, whose result nobody looks at; it is called with None for
\* every request that was not answered 204, which deletes nothing.
DeleteAllocation(t) ==
    /\ pc = "delete"
    /\ t \in pending
    /\ pending' = pending \ {t}
    /\ allocs' \in {IF t \in Winners THEN allocs \ {t} ELSE allocs}
                   \cup (IF Faults THEN {allocs} ELSE {})
    /\ UNCHANGED <<pc, round, post, caught, raising, rp, class>>

DeleteRaises ==
    /\ pc = "delete"
    /\ Faults
    /\ raising' = "yes"
    /\ pc' = "delete rp"
    /\ UNCHANGED <<round, post, pending, caught, service>>

DeleteDone ==
    /\ pc = "delete"
    /\ pending = {}
    /\ pc' = "delete rp"
    /\ UNCHANGED <<round, post, pending, caught, raising, service>>

\* cleanup: Placement deletes no provider that is in use.
DeleteProvider ==
    /\ pc = "delete rp"
    /\ allocs = {}
    /\ rp' = 0
    /\ pc' = "delete class"
    /\ UNCHANGED <<round, post, pending, caught, raising, class, allocs>>

DeleteClass ==
    /\ pc = "delete class"
    /\ class' = 0
    /\ pc' = "end"
    /\ UNCHANGED <<round, post, pending, caught, raising, rp, allocs>>

\* A call of cleanup raises, and the rest of it is skipped.
CleanupFails ==
    /\ \/ pc = "delete rp" /\ (allocs # {} \/ Faults)
       \/ pc = "delete class" /\ Faults
    /\ pc' = "aborted"
    /\ UNCHANGED <<round, post, pending, caught, raising, service>>

EndRound ==
    /\ pc = "end"
    /\ pc' = IF raising = "yes" THEN "aborted"
             ELSE IF round < Rounds THEN "setup" ELSE "done"
    /\ UNCHANGED <<round, post, pending, caught, raising, service>>

Next ==
    \/ Setup \/ SetupFails \/ Join \/ Check \/ Prompt
    \/ DeleteRaises \/ DeleteDone \/ DeleteProvider \/ DeleteClass \/ CleanupFails \/ EndRound
    \/ \E t \in Thread : Admit(t) \/ Write(t) \/ PostFails(t) \/ DeleteAllocation(t)

Spec == Init /\ [][Next]_vars

-----------------------------------------------------------------------------
(* Properties. *)

Overallocated == Cardinality(allocs) > 1

\* "Caught it!" is shown when Placement lost the race for the last inventory
\* piece, or when no request succeeded at all; and the race is missed only if
\* an allocation was written for a request that was answered with a failure.
CaughtExplained ==
    /\ pc = "prompt" => Overallocated \/ Winners = {}
    /\ pc = "delete" /\ caught = "no" /\ Overallocated => ~(allocs \subseteq Winners)

\* A round begins, and the script ends well, with nothing of the rounds before
\* left in Placement: whatever goes wrong ends the script, also a deletion
\* whose result delete_allocation drops.
RoundStartsClean == pc \in {"setup", "done"} => rp = 0 /\ class = 0 /\ allocs = {}

\* What the last property rests on.  Nothing is written behind the back of the
\* main thread:
ThreadsJoined ==
    /\ pc \notin {"setup", "post", "aborted"} => \A t \in Thread : post[t] \in Answered
    /\ pc = "setup" => \A t \in Thread : post[t] \notin {"sent", "admitted"}

\* and cleanup gets to its next step only when the one before has succeeded.
CleanupInOrder ==
    /\ pc = "delete class" => rp = 0 /\ allocs = {}
    /\ pc = "end" => rp = 0 /\ class = 0 /\ allocs = {}

\* What CaughtExplained rests on: an answer 204 has its allocation until the
\* deletions begin, and main counts the answers.
WinnersCounted ==
    /\ pc \in {"post", "check", "prompt"} => Winners \subseteq allocs
    /\ pc = "prompt" => Cardinality(Winners) # 1 /\ caught = "yes"
    /\ pc = "delete" /\ caught = "no" => Cardinality(Winners) = 1
=============================================================================
