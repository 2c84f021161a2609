------------------------ MODULE OsdplApplyWait_proofs ------------------------
(***************************************************************************)
(* Proofs about OsdplApplyWait, for any number of edits by others.         *)
(***************************************************************************)
EXTENDS OsdplApplyWait, TLAPS

\* Every variable keeps its type.
THEOREM TypeCorrect == Spec => []TypeOK
<1> USE EditsAssumption
<1>1. Init => TypeOK
  <2> SUFFICES ASSUME Init PROVE TypeOK
    OBVIOUS
  <2>1. opts \subseteq Option /\ pc \in Label
    BY DEF Init, Label, Ended
  <2>2. edits \in 0 .. MaxEdits
    BY DEF Init
  <2> QED
    BY <2>1, <2>2 DEF Init, TypeOK
<1>2. TypeOK /\ [Next]_vars => TypeOK'
  <2> SUFFICES ASSUME TypeOK, [Next]_vars PROVE TypeOK'
    OBVIOUS
  <2> USE DEF TypeOK, cluster
  <2>1. CASE Diff \/ Confirm \/ Slept
    <3>1. pc' \in Label
      BY <2>1 DEF Label, Ended, Diff, Confirm, Slept
    <3>2. late' \in BOOLEAN /\ UNCHANGED <<tool, opts, submitted, change, spec, seen, state, applied, health, edits>>
      BY <2>1 DEF Label, Ended, Diff, Confirm, Slept
    <3> QED
      BY <3>1, <3>2
  <2>2. CASE Apply \/ ApplyRefused \/ PatchChangesNothing
    <3>1. pc' \in Label
      BY <2>2 DEF Label, Ended, Apply, ApplyRefused, PatchChangesNothing
    <3>2. /\ change' \in {"made", "refused"}
          /\ submitted' \in Nat /\ spec' \in Nat
          /\ UNCHANGED <<tool, opts, late, seen, state, applied, health, edits>>
      BY <2>2 DEF Apply, ApplyRefused, PatchChangesNothing
    <3> QED
      BY <3>1, <3>2
  <2>3. CASE ReadApplying \/ ReadApplied \/ ReadReady
    <3>1. pc' \in Label
      BY <2>3 DEF Label, Ended, ReadApplying, ReadApplied, ReadReady
    <3>2. UNCHANGED <<tool, opts, submitted, change, late, spec, seen, state, applied, health, edits>>
      BY <2>3 DEF Label, Ended, ReadApplying, ReadApplied, ReadReady
    <3> QED
      BY <3>1, <3>2
  <2>4. CASE Notice \/ Finish \/ Degrade \/ Recover \/ OtherEdit
    BY <2>4 DEF Notice, Finish, Degrade, Recover, OtherEdit
  <2>5. CASE UNCHANGED vars
    BY <2>5 DEF vars
  <2> QED
    BY <2>1, <2>2, <2>3, <2>4, <2>5 DEF Next, Script
<1> QED
  BY <1>1, <1>2, PTL DEF Spec

LEMMA StatusInvStep ==
    ASSUME TypeOK, StatusInv, [Next]_vars
    PROVE  StatusInv'
<1> USE DEF TypeOK, StatusInv, cluster
<1>1. CASE Diff \/ Confirm \/ Slept
  BY <1>1 DEF Diff, Confirm, Slept
<1>2. CASE Apply \/ ApplyRefused \/ PatchChangesNothing
  BY <1>2 DEF Apply, ApplyRefused, PatchChangesNothing
<1>3. CASE ReadApplying \/ ReadApplied \/ ReadReady
  BY <1>3 DEF ReadApplying, ReadApplied, ReadReady
<1>4. CASE Notice \/ Finish
  BY <1>4 DEF Notice, Finish
<1>5. CASE Degrade \/ Recover \/ OtherEdit
  BY <1>5 DEF Degrade, Recover, OtherEdit
<1>6. CASE UNCHANGED vars
  BY <1>6 DEF vars
<1> QED
  BY <1>1, <1>2, <1>3, <1>4, <1>5, <1>6 DEF Next, Script

LEMMA ToolInvStep ==
    ASSUME TypeOK, StatusInv, ToolInv, [Next]_vars
    PROVE  ToolInv'
<1> USE DEF TypeOK, StatusInv, ToolInv, cluster
<1>1. CASE Diff \/ Confirm
  BY <1>1 DEF Diff, Confirm
<1>2. CASE Apply \/ ApplyRefused \/ PatchChangesNothing
  BY <1>2 DEF Apply, ApplyRefused, PatchChangesNothing
<1>3. CASE Slept
  BY <1>3 DEF Slept
<1>4. CASE ReadApplying \/ ReadApplied \/ ReadReady
  BY <1>4 DEF ReadApplying, ReadApplied, ReadReady
<1>5. CASE Notice \/ Finish
  BY <1>5 DEF Notice, Finish
<1>6. CASE Degrade \/ Recover \/ OtherEdit
  BY <1>6 DEF Degrade, Recover, OtherEdit
<1>7. CASE UNCHANGED vars
  BY <1>7 DEF vars
<1> QED
  BY <1>1, <1>2, <1>3, <1>4, <1>5, <1>6, <1>7 DEF Next, Script

LEMMA DemoInvStep ==
    ASSUME TypeOK, StatusInv, DemoInv, [Next]_vars
    PROVE  DemoInv'
<1> USE DEF TypeOK, StatusInv, DemoInv, cluster
<1>1. CASE Diff \/ Confirm \/ Slept
  BY <1>1 DEF Diff, Confirm, Slept
<1>2. CASE Apply \/ ApplyRefused \/ PatchChangesNothing
  BY <1>2 DEF Apply, ApplyRefused, PatchChangesNothing
<1>3. CASE ReadApplying \/ ReadApplied \/ ReadReady
  BY <1>3 DEF ReadApplying, ReadApplied, ReadReady
<1>4. CASE Notice
  BY <1>4 DEF Notice
<1>5. CASE Finish
  BY <1>5 DEF Finish
<1>6. CASE Degrade \/ Recover
  BY <1>6 DEF Degrade, Recover
<1>7. CASE OtherEdit
  BY <1>7, EditsAssumption DEF OtherEdit
<1>8. CASE UNCHANGED vars
  BY <1>8 DEF vars
<1> QED
  BY <1>1, <1>2, <1>3, <1>4, <1>5, <1>6, <1>7, <1>8 DEF Next, Script

\* However many changes others make and whether or not kubectl may fail,
\* osdpl-apply-wait returns with its change applied, or the sleep was too short.
THEOREM NeverStaleUnlessLate == Spec => []StaleOnlyIfLate
<1>1. Init => StatusInv /\ ToolInv
  BY DEF Init, StatusInv, ToolInv
<1>2. TypeOK /\ StatusInv /\ ToolInv /\ [Next]_vars => StatusInv' /\ ToolInv'
  BY StatusInvStep, ToolInvStep
<1>3. StatusInv /\ ToolInv /\ TypeOK => StaleOnlyIfLate
  BY DEF StatusInv, ToolInv, TypeOK, StaleOnlyIfLate
<1> QED
  BY <1>1, <1>2, <1>3, TypeCorrect, PTL DEF Spec

\* A demo returns only with its change applied, however slow the controller
\* is, if nobody else makes changes: the wait for APPLYING is what the sleep of
\* osdpl-apply-wait only hopes for.
THEOREM DemosWait == Spec => []DemoWaits
<1>1. Init => StatusInv /\ DemoInv
  BY DEF Init, StatusInv, DemoInv
<1>2. TypeOK /\ StatusInv /\ DemoInv /\ [Next]_vars => StatusInv' /\ DemoInv'
  BY StatusInvStep, DemoInvStep
<1>3. StatusInv /\ DemoInv /\ TypeOK => DemoWaits
  BY DEF StatusInv, DemoInv, TypeOK, DemoWaits
<1> QED
  BY <1>1, <1>2, <1>3, TypeCorrect, PTL DEF Spec
=============================================================================
