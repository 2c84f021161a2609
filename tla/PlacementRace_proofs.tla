------------------------ MODULE PlacementRace_proofs ------------------------
(***************************************************************************)
(* Proofs about PlacementRace, for any number of threads and rounds, with  *)
(* and without the race and the faults.                                    *)
(***************************************************************************)
EXTENDS PlacementRace, FiniteSetTheorems, TLAPS

\* Every variable keeps its type.
THEOREM TypeCorrect == Spec => []TypeOK
<1> USE RoundsAssumption
<1>1. Init => TypeOK
  BY DEF Init, TypeOK, Label, PostState
<1>2. TypeOK /\ [Next]_vars => TypeOK'
  <2> SUFFICES ASSUME TypeOK, [Next]_vars PROVE TypeOK'
    OBVIOUS
  <2> USE DEF TypeOK, Label, PostState, Answered, service
  <2>1. CASE Setup
    <3>1. round' \in 0 .. Rounds
      BY <2>1 DEF Setup
    <3> QED
      BY <2>1, <3>1 DEF Setup
  <2>2. CASE SetupFails
    <3>1. round' \in 0 .. Rounds
      BY <2>2 DEF SetupFails
    <3>2. rp' \in {0, 1} /\ class' \in {0, 1}
      BY <2>2 DEF SetupFails
    <3> QED
      BY <2>2, <3>1, <3>2 DEF SetupFails
  <2>3. CASE Join \/ Check
    BY <2>3 DEF Join, Check
  <2>4. CASE Prompt \/ DeleteRaises \/ DeleteDone
    BY <2>4 DEF Prompt, DeleteRaises, DeleteDone
  <2>5. CASE DeleteProvider \/ DeleteClass \/ CleanupFails \/ EndRound
    BY <2>5 DEF DeleteProvider, DeleteClass, CleanupFails, EndRound
  <2>6. ASSUME NEW t \in Thread, Admit(t) PROVE TypeOK'
    BY <2>6 DEF Admit
  <2>7. ASSUME NEW t \in Thread, Write(t) PROVE TypeOK'
    BY <2>7 DEF Write
  <2>8. ASSUME NEW t \in Thread, PostFails(t) PROVE TypeOK'
    BY <2>8 DEF PostFails
  <2>9. ASSUME NEW t \in Thread, DeleteAllocation(t) PROVE TypeOK'
    BY <2>9 DEF DeleteAllocation
  <2>10. CASE UNCHANGED vars
    BY <2>10 DEF vars
  <2> QED
    BY <2>1, <2>2, <2>3, <2>4, <2>5, <2>6, <2>7, <2>8, <2>9, <2>10 DEF Next
<1> QED
  BY <1>1, <1>2, PTL DEF Spec

CleanInv == ThreadsJoined /\ CleanupInOrder /\ RoundStartsClean

LEMMA CleanInvStep ==
    ASSUME TypeOK, CleanInv, [Next]_vars
    PROVE  CleanInv'
<1> USE DEF CleanInv, TypeOK, ThreadsJoined, CleanupInOrder, RoundStartsClean, Answered, service
<1>1. CASE Setup \/ SetupFails
  BY <1>1 DEF Setup, SetupFails
<1>2. CASE Join \/ Check
  BY <1>2 DEF Join, Check
<1>3. CASE Prompt \/ DeleteRaises \/ DeleteDone
  BY <1>3 DEF Prompt, DeleteRaises, DeleteDone
<1>4. CASE DeleteProvider \/ DeleteClass \/ CleanupFails
  BY <1>4 DEF DeleteProvider, DeleteClass, CleanupFails
<1>5. CASE EndRound
  BY <1>5 DEF EndRound
<1>6. ASSUME NEW t \in Thread, Admit(t) \/ Write(t) \/ PostFails(t) PROVE CleanInv'
  <2>1. pc \in {"post", "aborted"} /\ pc' = pc
    BY <1>6, RoundsAssumption DEF Admit, Write, PostFails, Label
  <2> QED
    BY <2>1
<1>7. ASSUME NEW t \in Thread, DeleteAllocation(t) PROVE CleanInv'
  BY <1>7 DEF DeleteAllocation
<1>8. CASE UNCHANGED vars
  BY <1>8 DEF vars
<1> QED
  BY <1>1, <1>2, <1>3, <1>4, <1>5, <1>6, <1>7, <1>8 DEF Next

\* No round begins, and the script does not end well, over leftovers.
THEOREM RoundsStartClean == Spec => []RoundStartsClean
<1>1. Init => CleanInv
  BY DEF Init, CleanInv, ThreadsJoined, CleanupInOrder, RoundStartsClean
<1>2. TypeOK /\ CleanInv /\ [Next]_vars => CleanInv'
  BY CleanInvStep
<1>3. CleanInv => RoundStartsClean
  BY DEF CleanInv
<1> QED
  BY <1>1, <1>2, <1>3, TypeCorrect, PTL DEF Spec

\* The lemmas below speak of the winners through what a step does to post.
LEMMA SameWinners == ASSUME post' = post PROVE Winners' = Winners
  BY DEF Winners

LEMMA WinnersCountedStep ==
    ASSUME TypeOK, CleanInv, WinnersCounted, [Next]_vars
    PROVE  WinnersCounted'
<1> USE DEF WinnersCounted, TypeOK, service
<1>1. CASE Setup
  <2>1. Winners' = {} /\ pc' = "post"
    BY <1>1 DEF Setup, Winners
  <2> QED
    BY <2>1
<1>2. CASE SetupFails \/ DeleteRaises \/ CleanupFails
  <2>1. pc' \in {"aborted", "delete rp"}
    BY <1>2 DEF SetupFails, DeleteRaises, CleanupFails
  <2> QED
    BY <2>1
<1>3. CASE Join
  BY <1>3, SameWinners DEF Join
<1>4. CASE Check
  BY <1>4, SameWinners DEF Check
<1>5. CASE Prompt
  BY <1>5, SameWinners DEF Prompt
<1>6. CASE DeleteDone \/ DeleteProvider \/ DeleteClass \/ EndRound
  <2>1. pc' \in {"delete rp", "delete class", "end", "aborted", "setup", "done"}
    BY <1>6 DEF DeleteDone, DeleteProvider, DeleteClass, EndRound
  <2> QED
    BY <2>1
<1>7. ASSUME NEW t \in Thread, DeleteAllocation(t) PROVE WinnersCounted'
  BY <1>7, SameWinners DEF DeleteAllocation
<1>8. ASSUME NEW t \in Thread, Admit(t) \/ PostFails(t) PROVE WinnersCounted'
  <2>1. Winners' = Winners /\ pc' = pc /\ caught' = caught /\ allocs \subseteq allocs'
    BY <1>8 DEF Admit, PostFails, Winners
  <2> QED
    BY <2>1
<1>9. ASSUME NEW t \in Thread, Write(t) PROVE WinnersCounted'
  <2>1. pc \in {"post", "aborted", "setup"}
    BY <1>9 DEF Write, CleanInv, ThreadsJoined, Answered
  <2>2. Winners' \subseteq Winners \cup allocs' /\ pc' = pc /\ allocs \subseteq allocs'
    BY <1>9 DEF Write, Winners
  <2> QED
    BY <2>1, <2>2
<1>10. CASE UNCHANGED vars
  BY <1>10, SameWinners DEF vars
<1> QED
  BY <1>1, <1>2, <1>3, <1>4, <1>5, <1>6, <1>7, <1>8, <1>9, <1>10 DEF Next

\* "Caught it!" means that Placement allocated the inventory twice or that no
\* request succeeded, and the race is missed only behind a failing answer.
THEOREM CaughtAlwaysExplained == Spec => []CaughtExplained
<1>1. Init => CleanInv /\ WinnersCounted
  BY DEF Init, CleanInv, ThreadsJoined, CleanupInOrder, RoundStartsClean, WinnersCounted
<1>2. TypeOK /\ CleanInv /\ WinnersCounted /\ [Next]_vars => CleanInv' /\ WinnersCounted'
  BY CleanInvStep, WinnersCountedStep
<1>3. TypeOK /\ WinnersCounted => CaughtExplained
  <2> SUFFICES ASSUME TypeOK, WinnersCounted PROVE CaughtExplained
    OBVIOUS
  <2>1. IsFiniteSet(allocs) /\ IsFiniteSet(Winners)
    BY ThreadAssumption, FS_Subset DEF TypeOK, Winners
  <2>2. Cardinality(allocs) \in Nat /\ Cardinality(Winners) \in Nat
    BY <2>1, FS_CardinalityType
  <2>3. Winners \subseteq allocs => Cardinality(Winners) <= Cardinality(allocs)
    BY <2>1, FS_Subset
  <2>4. allocs \subseteq Winners => Cardinality(allocs) <= Cardinality(Winners)
    BY <2>1, FS_Subset
  <2>5. Cardinality(Winners) = 0 => Winners = {}
    BY <2>1, FS_EmptySet
  <2> QED
    BY <2>2, <2>3, <2>4, <2>5 DEF WinnersCounted, CaughtExplained, Overallocated
<1> QED
  BY <1>1, <1>2, <1>3, TypeCorrect, PTL DEF Spec

=============================================================================
