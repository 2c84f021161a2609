-------------------------- MODULE IfaceChurn_proofs --------------------------
(***************************************************************************)
(* Proofs about IfaceChurn, for any set of workers, any number of cycles   *)
(* and any deadline.  OneTapPerWorker and NothingLeft follow from          *)
(* CurrentTapOnly; that one is inductive only together with what each      *)
(* worker knows of its own tap (Progress): what one read of a poll found   *)
(* absent is still absent after the other read, and when the tap is        *)
(* deleted, because no other worker plugs a tap that is not its own and a  *)
(* domain that is shut off in between holds no live device.                *)
(***************************************************************************)
EXTENDS IfaceChurn, TLAPS

Inv == TypeOK /\ CurrentTapOnly /\ Progress /\ DeviceHasTap /\ OffIsEmpty

LEMMA InitInv == Init => Inv
BY RepeatsAssumption, MaxPollsAssumption
   DEF Init, Inv, TypeOK, Busy, Polling, CurrentTapOnly, Traces, Progress, DeviceHasTap, OffIsEmpty

LEMMA CreateStep ==
    ASSUME Inv, NEW w \in Worker,
           AddTap(w) \/ AddTapFails(w) \/ LinkUp(w) \/ LinkUpFails(w)
    PROVE  Inv'
<1> USE RepeatsAssumption, MaxPollsAssumption
<1> USE DEF Inv, TypeOK, Ended, Busy, Polling, Tap, TapOf, CurrentTapOnly, Traces, Progress,
            DeviceHasTap, OffIsEmpty, Goto, domain
<1>1. CASE AddTap(w)
  <2>1. TypeOK'
    <3>1. cycle[w] + 1 \in 1 .. Repeats
      <4>1. cycle[w] \in 0 .. Repeats
        OBVIOUS
      <4>2. cycle[w] < Repeats
        BY <1>1 DEF AddTap
      <4> QED
        BY <4>1, <4>2
    <3>2. <<w, cycle[w] + 1>> \in Tap
      BY <3>1
    <3>3. cycle' \in [Worker -> 0 .. Repeats]
      BY <1>1, <3>1 DEF AddTap
    <3>4. taps' \subseteq Tap
      BY <1>1, <3>2 DEF AddTap
    <3> QED
      BY <1>1, <3>3, <3>4 DEF AddTap
  <2>2. CurrentTapOnly'
    <3> SUFFICES ASSUME NEW t \in Traces' PROVE t = TapOf(t[1])' /\ pc'[t[1]] \notin {"create", "done"}
      OBVIOUS
    <3>1. CASE t \in Traces
      <4>1. t[1] # w /\ t[1] \in Worker
        BY <1>1, <3>1 DEF AddTap
      <4> QED
        BY <1>1, <3>1, <4>1 DEF AddTap
    <3>2. CASE t = <<w, cycle[w] + 1>>
      BY <1>1, <3>2 DEF AddTap
    <3> QED
      BY <1>1, <3>1, <3>2 DEF AddTap
  <2>3. Progress'
    BY <1>1 DEF AddTap
  <2>4. DeviceHasTap'
    BY <1>1 DEF AddTap
  <2> QED
    BY <1>1, <2>1, <2>2, <2>3, <2>4 DEF AddTap
<1>2. CASE AddTapFails(w) \/ LinkUp(w) \/ LinkUpFails(w)
  BY <1>2 DEF AddTapFails, LinkUp, LinkUpFails
<1> QED
  BY <1>1, <1>2

LEMMA AttachStep ==
    ASSUME Inv, NEW w \in Worker, Attach(w) \/ AttachFails(w) \/ Abandon(w)
    PROVE  Inv'
<1> USE DEF Inv, TypeOK, Ended, Busy, Polling, Tap, TapOf, CurrentTapOnly, Traces, Progress,
            DeviceHasTap, OffIsEmpty, Goto, domain
<1>1. CASE Attach(w)
  <2>1. TapOf(w) \in taps
    BY <1>1 DEF Attach
  <2>2. TypeOK'
    BY <1>1, <2>1 DEF Attach
  <2>3. CurrentTapOnly'
    BY <1>1, <2>1 DEF Attach
  <2>4. Progress' /\ DeviceHasTap' /\ OffIsEmpty'
    BY <1>1, <2>1 DEF Attach
  <2> QED
    BY <2>2, <2>3, <2>4
<1>2. CASE AttachFails(w)
  BY <1>2 DEF AttachFails
<1>3. CASE Abandon(w)
  BY <1>3 DEF Abandon
<1> QED
  BY <1>1, <1>2, <1>3

LEMMA DetachStep ==
    ASSUME Inv, NEW w \in Worker,
           Lookup(w) \/ LookupFails(w) \/ Detach(w) \/ DetachFails(w)
    PROVE  Inv'
<1> USE RepeatsAssumption, MaxPollsAssumption
<1> USE DEF Inv, TypeOK, Ended, Busy, Polling, Tap, TapOf, CurrentTapOnly, Traces, Progress,
            DeviceHasTap, OffIsEmpty, Goto, domain
<1>1. CASE Lookup(w) \/ LookupFails(w) \/ DetachFails(w)
  BY <1>1 DEF Lookup, LookupFails, DetachFails
<1>2. CASE Detach(w)
  <2>1. live' \subseteq live /\ config' \subseteq config
    BY <1>2 DEF Detach
  <2>2. TypeOK'
    <3>1. polls' \in [Worker -> 0 .. MaxPolls]
      BY <1>2 DEF Detach
    <3>2. unplugging' \subseteq Tap
      <4>1. CASE unplugging' = unplugging
        BY <4>1
      <4>2. CASE unplugging' = unplugging \cup {TapOf(w)}
        <5>1. cycle[w] \in 0 .. Repeats /\ cycle[w] # 0
          BY <1>2 DEF Detach
        <5> QED
          BY <4>2, <5>1
      <4> QED
        BY <1>2, <4>1, <4>2 DEF Detach
    <3> QED
      BY <1>2, <2>1, <3>1, <3>2 DEF Detach
  <2>3. CurrentTapOnly'
    BY <1>2, <2>1 DEF Detach
  <2>4. Progress' /\ DeviceHasTap' /\ OffIsEmpty'
    BY <1>2, <2>1 DEF Detach
  <2> QED
    BY <2>2, <2>3, <2>4
<1> QED
  BY <1>1, <1>2

LEMMA PollStep ==
    ASSUME Inv, NEW w \in Worker,
           ReadLive(w) \/ ReadConfig(w) \/ Deadline(w) \/ PollFails(w)
    PROVE  Inv'
<1> USE MaxPollsAssumption
<1> USE DEF Inv, TypeOK, Ended, Busy, Polling, Tap, TapOf, CurrentTapOnly, Traces, Progress,
            DeviceHasTap, OffIsEmpty, Goto, domain
<1>1. CASE Deadline(w) \/ PollFails(w)
  BY <1>1 DEF Deadline, PollFails
<1>2. CASE ReadLive(w)
  <2>1. TapOf(w) \notin LiveXML => TapOf(w) \notin live
    BY DEF LiveXML
  <2>2. Progress'
    BY <1>2, <2>1 DEF ReadLive
  <2> QED
    BY <1>2, <2>2 DEF ReadLive
<1>3. CASE ReadConfig(w) /\ pc[w] = "gone" /\ TapOf(w) \notin config
  <2>1. Progress'
    BY <1>3 DEF ReadConfig
  <2> QED
    BY <1>3, <2>1 DEF ReadConfig
<1>4. CASE ReadConfig(w) /\ ~(pc[w] = "gone" /\ TapOf(w) \notin config)
  <2>1. polls'[w] \in 0 .. MaxPolls
    BY <1>4 DEF ReadConfig, Again
  <2>2. TypeOK'
    BY <1>4, <2>1 DEF ReadConfig, Again
  <2>3. Progress'
    BY <1>4 DEF ReadConfig, Again
  <2> QED
    BY <1>4, <2>2, <2>3 DEF ReadConfig, Again
<1> QED
  BY <1>1, <1>2, <1>3, <1>4

LEMMA DeleteStep ==
    ASSUME Inv, NEW w \in Worker, DeleteTap(w) \/ DeleteTapFails(w)
    PROVE  Inv'
<1> USE DEF Inv, TypeOK, Ended, Busy, Polling, Tap, TapOf, CurrentTapOnly, Traces, Progress,
            DeviceHasTap, OffIsEmpty, Goto, domain
<1>1. CASE DeleteTapFails(w)
  BY <1>1 DEF DeleteTapFails
<1>2. CASE DeleteTap(w) /\ pc[w] = "raise"
  BY <1>2 DEF DeleteTap
<1>3. CASE DeleteTap(w) /\ pc[w] = "delete"
  <2>1. TapOf(w) \notin live \cup config
    BY <1>3
  <2>2. \A t \in Traces' : t \in Traces /\ t[1] # w
    BY <1>3, <2>1 DEF DeleteTap
  <2>3. TypeOK'
    BY <1>3 DEF DeleteTap
  <2>4. CurrentTapOnly' /\ DeviceHasTap' /\ OffIsEmpty'
    BY <1>3, <2>2 DEF DeleteTap
  <2>5. Progress'
    BY <1>3, RepeatsAssumption DEF DeleteTap
  <2> QED
    BY <2>3, <2>4, <2>5
<1> QED
  BY <1>1, <1>2, <1>3 DEF DeleteTap

LEMMA DomainStep ==
    ASSUME Inv, Exit \/ DomainStops \/ \E t \in Tap : GuestUnplugs(t)
    PROVE  Inv'
<1> USE DEF Inv, TypeOK, TapOf, CurrentTapOnly, Traces, Progress, DeviceHasTap, OffIsEmpty, domain
<1>1. CASE Exit
  BY <1>1 DEF Exit
<1>2. CASE DomainStops
  BY <1>2 DEF DomainStops
<1>3. ASSUME NEW t \in Tap, GuestUnplugs(t) PROVE Inv'
  BY <1>3 DEF GuestUnplugs
<1> QED
  BY <1>1, <1>2, <1>3

LEMMA InvStep == Inv /\ [Next]_vars => Inv'
<1>1. Inv /\ UNCHANGED vars => Inv'
  BY DEF vars, Inv, TypeOK, TapOf, CurrentTapOnly, Traces, Progress, DeviceHasTap, OffIsEmpty
<1> QED
  BY <1>1, CreateStep, AttachStep, DetachStep, PollStep, DeleteStep, DomainStep DEF Next, Step

LEMMA Invariance == Spec => []Inv
BY InitInv, InvStep, PTL DEF Spec

\* Every variable keeps its type.
THEOREM TypeCorrect == Spec => []TypeOK
<1>1. Inv => TypeOK
  BY DEF Inv
<1> QED
  BY <1>1, Invariance, PTL

\* No worker ever has two taps on the host or in the domain.
THEOREM AlwaysOneTap == Spec => []OneTapPerWorker
<1>1. Inv => OneTapPerWorker
  BY DEF Inv, CurrentTapOnly, OneTapPerWorker
<1> QED
  BY <1>1, Invariance, PTL

\* A worker that returned left neither a tap nor a device behind.
THEOREM AlwaysNothingLeft == Spec => []NothingLeft
<1>1. Inv => NothingLeft
  BY DEF Inv, CurrentTapOnly, NothingLeft
<1> QED
  BY <1>1, Invariance, PTL

\* No device loses its tap, except to a worker that raised.
THEOREM AlwaysDeviceHasTap == Spec => []DeviceHasTap
<1>1. Inv => DeviceHasTap
  BY DEF Inv
<1> QED
  BY <1>1, Invariance, PTL
=============================================================================
