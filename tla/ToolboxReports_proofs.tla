----------------------- MODULE ToolboxReports_proofs ------------------------
(***************************************************************************)
(* Proofs about the scripts of Toolbox that read and compare: what they    *)
(* report, or do about it, is right, whatever the constants.  A run is of  *)
(* one script (ScriptStep), so that a property of it rests on an invariant *)
(* of its module alone: what the script remembers is still so, unless the  *)
(* rest of the state tells that it was changed since.                      *)
(***************************************************************************)
EXTENDS Toolbox, SequenceTheorems, WellFoundedInduction, TLAPS

\* No step changes the script, and only that of the script is taken.
LEMMA ScriptStep ==
    ASSUME [Next]_vars
    PROVE  /\ script' = script
           /\ script = "aggregates" => [Aggregates!Next]_(Aggregates!vars)
           /\ script = "cpuload" => [Load!Next]_(Load!vars)
           /\ script = "swap" => [Volumes!Next]_(Volumes!vars)
           /\ script = "va" => [VA!Next]_(VA!vars)
           /\ script = "inventory" => [Inventory!Next]_(Inventory!vars)
           /\ script = "notispy" => [Spy!Next]_(Spy!vars)
           /\ script = "orphans" => [Orphans!Next]_(Orphans!vars)
           /\ script = "consumers" => [Consumers!Next]_(Consumers!vars)
           /\ script = "dependents" => [Dependents!Next]_(Dependents!vars)
           /\ script = "overallocation" => [Overallocation!Next]_(Overallocation!vars)
<1>1. CASE UNCHANGED vars
  BY <1>1 DEF vars, aggVars, cpuVars, swapVars, twoVars, Aggregates!vars, Aggregates!history, Load!vars, Volumes!vars, VA!vars,
     Inventory!vars, Spy!vars, Orphans!vars, Consumers!vars, Dependents!vars, Overallocation!vars
<1>2. CASE Next
  BY <1>2 DEF Next, others
<1> QED
  BY <1>1, <1>2

\* A set of natural numbers has a least one.
LEMMA LeastExists ==
    ASSUME NEW S, S \subseteq Nat, S # {}
    PROVE  \E i \in S : \A j \in S : i <= j
<1> DEFINE less == OpToRel(<, Nat)
<1>1. PICK i \in S : \A j \in S : ~ (<<j, i>> \in less)
  BY NatLessThanWellFounded, WFMin, Zenon
<1>2. \A x, y \in Nat : y < x => <<y, x>> \in less
  BY DEF OpToRel
<1> HIDE DEF less
<1>3. \A j \in S : i <= j
  <2> SUFFICES ASSUME NEW j \in S PROVE i <= j
    OBVIOUS
  <2>1. j < i => <<j, i>> \in less
    BY <1>2
  <2>2. ~ (j < i)
    BY <1>1, <2>1
  <2> QED
    BY <2>2
<1> QED
  BY <1>3

-----------------------------------------------------------------------------
(* nova-vs-placement-aggs.py.  The aggregates of a provider are those others gave  *)
(* it and, with --fix, some it should have; what is about to be put is still what  *)
(* Placement has, but for edits since the GET; and what was compared is there.     *)

\* The pairs that are done.
Compared == (listed \ todo) \ (IF pc = "put" THEN {pair} ELSE {})

Putting ==
    pc = "put" =>
        /\ fix /\ pair \in listed \ todo /\ Aggregates!Matches(pair[2]) # {}
        /\ \A a \in Agg : <<a, Aggregates!HostRP(pair[2])>> \notin raced =>
              (a \in rpAggs <=> a \in placement[Aggregates!HostRP(pair[2])])

Fixed ==
    \A rp \in Aggregates!Provider, a \in Agg :
        <<a, rp>> \notin raced =>
            /\ a \in given[rp] => a \in placement[rp]
            /\ a \in placement[rp] => a \in given[rp] \/ (fix /\ Aggregates!Wanted(a, rp))

Done ==
    fix /\ pc # "raised" =>
        \A p \in Compared : Aggregates!Matches(p[2]) # {} =>
            \/ p[1] \in placement[Aggregates!HostRP(p[2])]
            \/ <<p[1], Aggregates!HostRP(p[2])>> \in refused \cup edited

AggregatesInv ==
    /\ Aggregates!TypeOK
    /\ pc = "list" => listed = {} /\ given = placement
    /\ pc = "end" => todo = {}
    /\ Putting
    /\ Fixed
    /\ Done

\* The provider taken for a host is one of those listed.
LEMMA HostHasProvider ==
    ASSUME NEW h, Aggregates!Matches(h) # {}
    PROVE  Aggregates!HostRP(h) \in Aggregates!Provider
<1> DEFINE M == Aggregates!Matches(h)
           least == CHOOSE i \in M : \A j \in M : i <= j
<1>1. M \subseteq DOMAIN Listing /\ DOMAIN Listing \subseteq Nat
  BY ListingAssumption DEF Aggregates!Matches
<1>2. \E i \in M : \A j \in M : i <= j
  BY <1>1, LeastExists
<1>3. least \in M
  BY <1>2
<1>4. Aggregates!HostRP(h) = Listing[least]
  BY DEF Aggregates!HostRP
<1> HIDE DEF M, least
<1> QED
  BY <1>1, <1>3, <1>4 DEF Aggregates!Provider, Aggregates!ToSet

LEMMA AggregatesInit == Aggregates!Init => AggregatesInv
<1> SUFFICES ASSUME Aggregates!Init PROVE AggregatesInv
  OBVIOUS
<1>1. Aggregates!TypeOK /\ listed = {} /\ pc = "list" /\ given = placement
  BY DEF Aggregates!Init, Aggregates!TypeOK
<1>2. Compared = {}
  BY <1>1 DEF Compared
<1> QED
  BY <1>1, <1>2 DEF AggregatesInv, Putting, Fixed, Done

\* A step that only ends the script early, or changes nothing.
LEMMA AggregatesStill ==
    ASSUME AggregatesInv,
           UNCHANGED <<fix, hosts, listed, todo, pair, rpAggs, placement, added, given, edited, raced, refused>>,
           pc' \in {pc, "raised"}
    PROVE  AggregatesInv'
<1>1. pc' = pc => Compared' = Compared
  BY DEF Compared
<1>2. \A a, rp : Aggregates!Wanted(a, rp)' <=> Aggregates!Wanted(a, rp)
  BY DEF Aggregates!Wanted
<1>3. Fixed'
  BY <1>2 DEF AggregatesInv, Fixed
<1>4. Aggregates!TypeOK'
  BY DEF AggregatesInv, Aggregates!TypeOK
<1>5. Putting'
  BY DEF AggregatesInv, Putting
<1>6. Done'
  <2>1. CASE pc' = "raised"
    BY <2>1 DEF Done
  <2>2. CASE pc' = pc
    BY <1>1, <2>2 DEF AggregatesInv, Done
  <2> QED
    BY <2>1, <2>2
<1> QED
  BY <1>3, <1>4, <1>5, <1>6 DEF AggregatesInv

\* The body of a PUT is written: it takes away no aggregate but those of edits
\* since the GET, and adds the one at hand.
LEMMA AggregatesWritten ==
    ASSUME AggregatesInv, pc = "put", Aggregates!Write(rpAggs \cup {pair[1]}),
           UNCHANGED <<fix, hosts, listed, todo, pair, rpAggs, given, edited, raced>>
    PROVE  /\ pair[1] \in Agg /\ Aggregates!HostRP(pair[2]) \in Aggregates!Provider
           /\ placement' \in [Aggregates!Provider -> SUBSET Agg]
           /\ pair[1] \in placement'[Aggregates!HostRP(pair[2])]
           /\ \A rp \in Aggregates!Provider, a \in Agg :
                 <<a, rp>> \notin raced /\ a \in placement[rp] => a \in placement'[rp]
           /\ Fixed'
<1> DEFINE own == Aggregates!HostRP(pair[2])
<1>1. /\ fix /\ pair \in listed /\ pair[1] \in Agg /\ pair[2] \in AggHost
      /\ pair = <<pair[1], pair[2]>> /\ Aggregates!Matches(pair[2]) # {}
  BY DEF AggregatesInv, Putting, Aggregates!TypeOK
<1>2. own \in Aggregates!Provider
  BY <1>1, HostHasProvider
<1>3. placement' = [placement EXCEPT ![own] = rpAggs \cup {pair[1]}]
  BY DEF Aggregates!Write
<1>4. placement \in [Aggregates!Provider -> SUBSET Agg] /\ rpAggs \subseteq Agg
  BY DEF AggregatesInv, Aggregates!TypeOK
<1>5. \A rp, a : Aggregates!Wanted(a, rp)' <=> Aggregates!Wanted(a, rp)
  BY DEF Aggregates!Wanted
<1>6. Aggregates!Wanted(pair[1], own)
  BY <1>1 DEF Aggregates!Wanted
<1>7. \A a \in Agg : <<a, own>> \notin raced => (a \in rpAggs <=> a \in placement[own])
  BY DEF AggregatesInv, Putting
<1> HIDE DEF own
<1>8. /\ placement' \in [Aggregates!Provider -> SUBSET Agg]
      /\ placement'[own] = rpAggs \cup {pair[1]}
      /\ \A rp \in Aggregates!Provider : rp # own => placement'[rp] = placement[rp]
  BY <1>1, <1>2, <1>3, <1>4
<1>9. \A rp \in Aggregates!Provider, a \in Agg :
         <<a, rp>> \notin raced /\ a \in placement[rp] => a \in placement'[rp]
  BY <1>7, <1>8
<1>10. ASSUME NEW rp \in Aggregates!Provider, NEW a \in Agg, <<a, rp>> \notin raced,
              a \in placement'[rp], a \notin given[rp]
       PROVE  fix /\ Aggregates!Wanted(a, rp)
  <2>1. CASE a \in placement[rp]
    BY <1>10, <2>1 DEF AggregatesInv, Fixed
  <2>2. CASE a \notin placement[rp]
    <3>1. rp = own /\ a = pair[1]
      BY <1>7, <1>8, <1>10, <2>2
    <3> QED
      BY <1>1, <1>6, <3>1
  <2> QED
    BY <2>1, <2>2
<1>11. \A rp \in Aggregates!Provider, a \in Agg :
          <<a, rp>> \notin raced /\ a \in given[rp] => a \in placement[rp]
  BY DEF AggregatesInv, Fixed
<1>12. Fixed'
  BY <1>5, <1>9, <1>10, <1>11 DEF Fixed
<1> QED
  BY <1>1, <1>2, <1>8, <1>9, <1>12 DEF own

LEMMA AggregatesStep == AggregatesInv /\ [Aggregates!Next]_(Aggregates!vars) => AggregatesInv'
<1> SUFFICES ASSUME AggregatesInv, [Aggregates!Next]_(Aggregates!vars) PROVE AggregatesInv'
  OBVIOUS
<1>t. Aggregates!TypeOK /\ Putting /\ Fixed /\ Done
  BY DEF AggregatesInv
<1>1. CASE Aggregates!List
  <2>1. /\ pc = "list" /\ listed' = hosts /\ todo' = hosts /\ pc' = "loop"
        /\ UNCHANGED <<fix, hosts, pair, rpAggs, placement, added, given, edited, raced, refused>>
    BY <1>1 DEF Aggregates!List, Aggregates!history
  <2>2. listed = {} /\ given = placement
    BY <2>1 DEF AggregatesInv
  <2>3. Aggregates!TypeOK'
    BY <1>t, <2>1, <2>2 DEF Aggregates!TypeOK
  <2>4. Compared' = {}
    BY <2>1 DEF Compared
  <2> QED
    BY <2>1, <2>2, <2>3, <2>4 DEF AggregatesInv, Fixed, Putting, Done
<1>2. CASE Aggregates!Compare
  <2>1. PICK p \in todo :
           /\ pc = "loop" /\ todo' = todo \ {p} /\ pair' = p
           /\ IF Aggregates!Matches(p[2]) = {} THEN UNCHANGED <<pc, rpAggs>>
              ELSE /\ rpAggs' = placement[Aggregates!HostRP(p[2])]
                   /\ pc' = IF p[1] \notin rpAggs' /\ fix THEN "put" ELSE "loop"
           /\ UNCHANGED <<fix, hosts, listed, placement, added, given, edited, raced, refused>>
    BY <1>2 DEF Aggregates!Compare, Aggregates!history
  <2>2. p \in listed /\ p \notin Compared
    BY <1>t, <2>1 DEF Aggregates!TypeOK, Compared
  <2>3. Fixed'
    <3>1. \A a, rp : Aggregates!Wanted(a, rp)' <=> Aggregates!Wanted(a, rp)
      BY <2>1 DEF Aggregates!Wanted
    <3> QED
      BY <1>t, <2>1, <3>1 DEF Fixed
  <2>4. CASE Aggregates!Matches(p[2]) = {}
    <3>1. Compared' = Compared \cup {p} /\ pc' = "loop" /\ rpAggs' = rpAggs
      BY <2>1, <2>2, <2>4 DEF Compared
    <3>2. Done'
      BY <1>t, <2>1, <2>4, <3>1 DEF Done
    <3>3. Aggregates!TypeOK'
      BY <1>t, <2>1, <2>2, <3>1 DEF Aggregates!TypeOK
    <3> QED
      BY <2>3, <3>1, <3>2, <3>3 DEF AggregatesInv, Putting
  <2>5. CASE Aggregates!Matches(p[2]) # {}
    <3>1. /\ rpAggs' = placement[Aggregates!HostRP(p[2])] /\ rpAggs' \subseteq Agg
          /\ pc' = IF p[1] \notin rpAggs' /\ fix THEN "put" ELSE "loop"
      BY <1>t, <2>1, <2>5, HostHasProvider DEF Aggregates!TypeOK
    <3>2. Aggregates!TypeOK'
      BY <1>t, <2>1, <2>2, <3>1 DEF Aggregates!TypeOK
    <3>3. CASE pc' = "put"
      <4>1. Compared' = Compared /\ fix
        BY <2>1, <2>2, <3>1, <3>3 DEF Compared
      <4>2. Done'
        BY <1>t, <2>1, <4>1 DEF Done
      <4>3. Putting'
        BY <2>1, <2>2, <2>5, <3>1, <4>1 DEF Putting
      <4> QED
        BY <2>3, <3>2, <3>3, <4>2, <4>3 DEF AggregatesInv
    <3>4. CASE pc' = "loop"
      <4>1. Compared' = Compared \cup {p}
        BY <2>1, <2>2, <3>4 DEF Compared
      <4>2. fix => p[1] \in placement[Aggregates!HostRP(p[2])]
        BY <3>1, <3>4
      <4>3. Done'
        BY <1>t, <2>1, <4>1, <4>2 DEF Done
      <4> QED
        BY <2>3, <3>2, <3>4, <4>3 DEF AggregatesInv, Putting
    <3> QED
      BY <3>1, <3>3, <3>4
  <2> QED
    BY <2>4, <2>5
<1>3. CASE Aggregates!ReadRaises
  BY <1>3, AggregatesStill DEF Aggregates!ReadRaises, Aggregates!history
<1>4. CASE Aggregates!Put
  <2> DEFINE own == Aggregates!HostRP(pair[2])
  <2>1. /\ pc = "put" /\ pc' = "loop"
        /\ UNCHANGED <<fix, hosts, listed, todo, pair, rpAggs, given, edited, raced>>
        /\ added' = added \cup {<<pair[1], own>>}
        /\ \/ Aggregates!Write(rpAggs \cup {pair[1]}) /\ refused' = refused
           \/ placement' = placement /\ refused' = refused \cup {<<pair[1], own>>}
    BY <1>4 DEF Aggregates!Put, Aggregates!history
  <2>2. /\ fix /\ pair \in listed \ todo /\ pair[1] \in Agg /\ Aggregates!Matches(pair[2]) # {}
        /\ own \in Aggregates!Provider
    BY <1>t, <2>1, HostHasProvider DEF Putting, Aggregates!TypeOK
  <2>3. Compared' = Compared \cup {pair}
    BY <2>1, <2>2 DEF Compared
  <2>4. \A p \in Compared : p[1] \in Agg /\ p[2] \in AggHost
    BY <1>t DEF Compared, Aggregates!TypeOK
  <2>5. Putting'
    BY <2>1 DEF Putting
  <2>6. raced \subseteq edited
    BY <1>t DEF Aggregates!TypeOK
  <2>7. CASE Aggregates!Write(rpAggs \cup {pair[1]}) /\ refused' = refused
    <3>1. /\ placement' \in [Aggregates!Provider -> SUBSET Agg] /\ Fixed'
          /\ pair[1] \in placement'[own]
          /\ \A rp \in Aggregates!Provider, a \in Agg :
                <<a, rp>> \notin raced /\ a \in placement[rp] => a \in placement'[rp]
      BY <2>1, <2>7, AggregatesWritten
    <3>2. Aggregates!TypeOK'
      BY <1>t, <2>1, <2>2, <2>7, <3>1 DEF Aggregates!TypeOK
    <3> HIDE DEF own
    <3>3. ASSUME NEW p \in Compared', Aggregates!Matches(p[2]) # {}
          PROVE  \/ p[1] \in placement'[Aggregates!HostRP(p[2])]
                 \/ <<p[1], Aggregates!HostRP(p[2])>> \in refused \cup edited
      <4>1. CASE p = pair
        BY <3>1, <4>1 DEF own
      <4>2. CASE p \in Compared
        <5>1. \/ p[1] \in placement[Aggregates!HostRP(p[2])]
              \/ <<p[1], Aggregates!HostRP(p[2])>> \in refused \cup edited
          BY <1>t, <2>1, <2>2, <3>3, <4>2 DEF Done
        <5>2. Aggregates!HostRP(p[2]) \in Aggregates!Provider /\ p[1] \in Agg
          BY <2>4, <3>3, <4>2, HostHasProvider
        <5> QED
          BY <2>6, <3>1, <5>1, <5>2
      <4> QED
        BY <2>3, <4>1, <4>2
    <3>4. Done'
      BY <2>1, <2>7, <3>3 DEF Done
    <3> QED
      BY <2>1, <2>5, <3>1, <3>2, <3>4 DEF AggregatesInv
  <2>8. CASE placement' = placement /\ refused' = refused \cup {<<pair[1], own>>}
    <3>1. Aggregates!TypeOK'
      BY <1>t, <2>1, <2>2, <2>8 DEF Aggregates!TypeOK
    <3>2. \A a, rp : Aggregates!Wanted(a, rp)' <=> Aggregates!Wanted(a, rp)
      BY <2>1 DEF Aggregates!Wanted
    <3>3. Fixed'
      BY <1>t, <2>1, <2>8, <3>2 DEF Fixed
    <3>4. Done'
      BY <1>t, <2>1, <2>3, <2>8 DEF Done
    <3> QED
      BY <2>1, <2>5, <3>1, <3>3, <3>4 DEF AggregatesInv
  <2> QED
    BY <2>1, <2>7, <2>8
<1>5. CASE Aggregates!PutRaises
  <2>1. /\ pc = "put" /\ pc' = "raised"
        /\ UNCHANGED <<fix, hosts, listed, todo, pair, rpAggs, added, given, edited, raced, refused>>
        /\ Aggregates!Write(rpAggs \cup {pair[1]}) \/ placement' = placement
    BY <1>5 DEF Aggregates!PutRaises, Aggregates!history
  <2>2. CASE placement' = placement
    BY <2>1, <2>2, AggregatesStill
  <2>3. CASE Aggregates!Write(rpAggs \cup {pair[1]})
    <3>1. placement' \in [Aggregates!Provider -> SUBSET Agg] /\ Fixed'
      BY <2>1, <2>3, AggregatesWritten
    <3>2. Aggregates!TypeOK'
      BY <1>t, <2>1, <3>1 DEF Aggregates!TypeOK
    <3> QED
      BY <2>1, <3>1, <3>2 DEF AggregatesInv, Putting, Done
  <2> QED
    BY <2>1, <2>2, <2>3
<1>6. CASE Aggregates!End
  <2>1. /\ pc = "loop" /\ pc' = "end" /\ todo = {}
        /\ UNCHANGED <<fix, hosts, listed, todo, pair, rpAggs, placement, added, given, edited, raced, refused>>
    BY <1>6 DEF Aggregates!End, Aggregates!history
  <2>2. Compared' = Compared
    BY <2>1 DEF Compared
  <2>3. \A a, rp : Aggregates!Wanted(a, rp)' <=> Aggregates!Wanted(a, rp)
    BY <2>1 DEF Aggregates!Wanted
  <2>4. Fixed' /\ Done' /\ Putting' /\ Aggregates!TypeOK'
    BY <1>t, <2>1, <2>2, <2>3 DEF Aggregates!TypeOK, Fixed, Putting, Done
  <2> QED
    BY <2>1, <2>4 DEF AggregatesInv
<1>7. ASSUME NEW rp \in Aggregates!Provider, NEW a \in Agg, Aggregates!Edit(rp, a) PROVE AggregatesInv'
  <2>1. /\ pc \in {"loop", "put"} /\ edited' = edited \cup {<<a, rp>>}
        /\ raced' = IF pc = "put" /\ rp = Aggregates!HostRP(pair[2]) THEN raced \cup {<<a, rp>>} ELSE raced
        /\ UNCHANGED <<pc, fix, hosts, listed, todo, pair, rpAggs, added, refused>>
    BY <1>7 DEF Aggregates!Edit
  <2>2. placement \in [Aggregates!Provider -> SUBSET Agg] /\ given \in [Aggregates!Provider -> SUBSET Agg]
    BY <1>t DEF Aggregates!TypeOK
  <2>3. /\ placement' \in [Aggregates!Provider -> SUBSET Agg] /\ given' \in [Aggregates!Provider -> SUBSET Agg]
        /\ a \in placement'[rp] <=> a \in given'[rp]
        /\ \A r \in Aggregates!Provider, b \in Agg : r # rp \/ b # a =>
              (b \in placement'[r] <=> b \in placement[r]) /\ (b \in given'[r] <=> b \in given[r])
    <3>1. CASE a \in placement[rp]
      <4>1. placement' = [placement EXCEPT ![rp] = @ \ {a}] /\ given' = [given EXCEPT ![rp] = @ \ {a}]
        BY <1>7, <3>1 DEF Aggregates!Edit
      <4> QED
        BY <2>2, <4>1
    <3>2. CASE a \notin placement[rp]
      <4>1. placement' = [placement EXCEPT ![rp] = @ \cup {a}] /\ given' = [given EXCEPT ![rp] = @ \cup {a}]
        BY <1>7, <3>2 DEF Aggregates!Edit
      <4> QED
        BY <2>2, <4>1
    <3> QED
      BY <3>1, <3>2
  <2>4. Aggregates!TypeOK'
    <3>1. edited' \subseteq Agg \X Aggregates!Provider /\ raced' \subseteq edited'
      BY <1>t, <2>1 DEF Aggregates!TypeOK
    <3> QED
      BY <1>t, <2>1, <2>3, <3>1 DEF Aggregates!TypeOK
  <2>5. \A b, r : Aggregates!Wanted(b, r)' <=> Aggregates!Wanted(b, r)
    BY <2>1 DEF Aggregates!Wanted
  <2>6. raced \subseteq raced'
    BY <2>1
  <2>7. ASSUME NEW r \in Aggregates!Provider, NEW b \in Agg, <<b, r>> \notin raced'
        PROVE  /\ b \in given'[r] => b \in placement'[r]
               /\ b \in placement'[r] => b \in given'[r] \/ (fix /\ Aggregates!Wanted(b, r))
    <3>1. CASE r = rp /\ b = a
      BY <2>3, <3>1
    <3>2. CASE r # rp \/ b # a
      BY <1>t, <2>3, <2>6, <2>7, <3>2 DEF Fixed
    <3> QED
      BY <3>1, <3>2
  <2>8. Fixed'
    BY <2>1, <2>5, <2>7 DEF Fixed
  <2>9. Putting'
    <3> SUFFICES ASSUME pc = "put" PROVE Putting'
      BY <2>1 DEF Putting
    <3> DEFINE own == Aggregates!HostRP(pair[2])
    <3>1. /\ fix /\ pair \in listed \ todo /\ Aggregates!Matches(pair[2]) # {}
          /\ \A b \in Agg : <<b, own>> \notin raced => (b \in rpAggs <=> b \in placement[own])
      BY <1>t DEF Putting
    <3>2. own \in Aggregates!Provider
      BY <3>1, HostHasProvider
    <3>3. own = rp => <<a, rp>> \in raced'
      BY <2>1
    <3> HIDE DEF own
    <3>4. \A b \in Agg : <<b, own>> \notin raced' => (b \in rpAggs <=> b \in placement'[own])
      BY <2>3, <2>6, <3>1, <3>2, <3>3
    <3> QED
      BY <2>1, <3>1, <3>4 DEF Putting, own
  <2>10. Done'
    <3>1. Compared' = Compared
      BY <2>1 DEF Compared
    <3>2. \A p \in Compared : p[1] \in Agg
      BY <1>t DEF Compared, Aggregates!TypeOK
    <3>3. ASSUME fix, pc # "raised", NEW p \in Compared, Aggregates!Matches(p[2]) # {}
          PROVE  \/ p[1] \in placement'[Aggregates!HostRP(p[2])]
                 \/ <<p[1], Aggregates!HostRP(p[2])>> \in refused \cup edited'
      <4> DEFINE own == Aggregates!HostRP(p[2])
      <4>1. own \in Aggregates!Provider
        BY <3>3, HostHasProvider
      <4>2. p[1] \in placement[own] \/ <<p[1], own>> \in refused \cup edited
        BY <1>t, <3>3 DEF Done
      <4> HIDE DEF own
      <4>3. p[1] \in placement'[own] \/ <<p[1], own>> \in refused \cup edited'
        <5>1. CASE own = rp /\ p[1] = a
          BY <2>1, <5>1
        <5>2. CASE own # rp \/ p[1] # a
          BY <2>1, <2>3, <3>2, <3>3, <4>1, <4>2, <5>2
        <5> QED
          BY <5>1, <5>2
      <4> QED
        BY <4>3 DEF own
    <3> QED
      BY <2>1, <3>1, <3>3 DEF Done
  <2> QED
    BY <2>1, <2>4, <2>8, <2>9, <2>10 DEF AggregatesInv
<1>8. CASE UNCHANGED Aggregates!vars
  BY <1>8, AggregatesStill DEF Aggregates!vars, Aggregates!history
<1> QED
  BY <1>1, <1>2, <1>3, <1>4, <1>5, <1>6, <1>7, <1>8 DEF Aggregates!Next

\* --fix adds the aggregates that providers lack, but for PUTs that are refused, and
\* loses of the edits of others only those between its GET and its PUT: for any
\* hosts, aggregates and providers, in whatever order the pairs come and wherever
\* the script is ended.
THEOREM AlwaysFixConverges == Spec => []FixConverges
<1> DEFINE Inv == script = "aggregates" => AggregatesInv
<1>1. Init => Inv
  BY AggregatesInit DEF Init
<1>2. Inv /\ [Next]_vars => Inv'
  BY AggregatesStep, ScriptStep
<1>3. ASSUME AggregatesInv PROVE Aggregates!FixConverges
  <2>1. pc = "end" => Compared = listed
    BY <1>3 DEF AggregatesInv, Compared
  <2>2. ASSUME NEW rp \in Aggregates!Provider, NEW a \in Agg, pc = "end", fix, Aggregates!Wanted(a, rp)
        PROVE  a \in placement[rp] \/ <<a, rp>> \in refused \cup edited
    <3>1. PICK h \in AggHost : <<a, h>> \in listed /\ Aggregates!Matches(h) # {} /\ Aggregates!HostRP(h) = rp
      BY <2>2 DEF Aggregates!Wanted
    <3>2. <<a, h>>[1] = a /\ <<a, h>>[2] = h
      OBVIOUS
    <3> QED
      BY <1>3, <2>1, <2>2, <3>1, <3>2 DEF AggregatesInv, Done
  <2> QED
    BY <1>3, <2>2 DEF AggregatesInv, Fixed, Aggregates!FixConverges
<1>4. Inv => FixConverges
  BY <1>3 DEF FixConverges
<1> QED
  BY <1>1, <1>2, <1>4, PTL DEF Spec

-----------------------------------------------------------------------------
(* corrupted_va.py.  A volume on which nobody worked is as it was listed, reported *)
(* if Cinder has it otherwise or still to be compared; where nobody worked on any, *)
(* the disks are those libvirt has.                                                *)

\* The attached volumes with their devices, in one service's view.
Pairs(view) == {<<v, view[v]>> : v \in {u \in NovaVolume : view[u] # "none"}}
\* An error names the volume.
Reported(said, v) == \E e \in said : e[1] # "libvirt" /\ e[2] = v
\* Nova has the volume attached, and Cinder not so.
Disagree(v) == cloud.view.nova[v] \notin {"none", cloud.view.cinder[v]}

VAView(view) ==
    /\ view = [nova |-> view.nova, libvirt |-> view.libvirt, cinder |-> view.cinder]
    /\ view.nova \in [NovaVolume -> VA!Known] /\ view.libvirt \in [NovaVolume -> VA!Known]
    /\ view.cinder \in [NovaVolume -> VA!Known \cup {"missing"}]

VACloud ==
    /\ cloud = [view |-> cloud.view, aim |-> cloud.aim, todo |-> cloud.todo, touched |-> cloud.touched,
                mosk |-> cloud.mosk, active |-> cloud.active, server |-> cloud.server]
    /\ VAView(cloud.view) /\ cloud.aim \in [NovaVolume -> VA!Known]
    /\ cloud.todo \in [NovaVolume -> VA!Suffixes(VA!Attach) \cup VA!Suffixes(VA!Detach)]
    /\ cloud.touched \subseteq NovaVolume /\ cloud.mosk \in BOOLEAN /\ cloud.active \in BOOLEAN
    /\ cloud.server \in {"here", "moved", "deleted"}

VALocal ==
    /\ local = [pc |-> local.pc, listed |-> local.listed, disks |-> local.disks, said |-> local.said]
    /\ local.pc \in {"list", "attachments", "cinder", "libvirt", "nova", "end", "raised"}
    /\ local.listed \subseteq NovaVolume \X VA!Known /\ local.disks \subseteq NovaVolume \X VA!Known
    /\ local.said \subseteq VA!Verdict \cup {<<"libvirt">>}

\* Nothing is left to learn of a volume on which nobody works.
Untouched == \A v \in NovaVolume \ cloud.touched : cloud.todo[v] = <<>>

\* A listed attachment is as Nova has it, and is reported once it was compared.
Judged ==
    /\ local.pc \in {"list", "attachments"} => local.said = {}
    /\ local.pc \notin {"cinder", "raised"} => local.listed = {}
    /\ \A v \in NovaVolume \ cloud.touched :
        /\ Reported(local.said, v) => Disagree(v)
        /\ local.pc \in {"cinder", "libvirt", "nova", "end"} =>
            /\ \A d : <<v, d>> \in local.listed => d = cloud.view.nova[v] /\ d # "none"
            /\ Disagree(v) => Reported(local.said, v) \/ <<v, cloud.view.nova[v]>> \in local.listed

\* The disks of libvirt are compared on the condition of MOSK and of the status.
Sides ==
    /\ local.pc # "end" => <<"libvirt">> \notin local.said
    /\ local.pc \in {"libvirt", "nova"} => cloud.active /\ cloud.mosk
    /\ cloud.touched = {} =>
        /\ local.pc \in {"attachments", "cinder", "libvirt", "nova"} => Pairs(cloud.view.nova) # {}
        /\ local.pc = "nova" => local.disks = Pairs(cloud.view.libvirt)
        /\ local.pc = "end" =>
            (<<"libvirt">> \in local.said
                <=> /\ cloud.active /\ cloud.mosk /\ Pairs(cloud.view.nova) # {}
                    /\ cloud.view.nova # cloud.view.libvirt)

VAInv == VACloud /\ VALocal /\ Untouched /\ Judged /\ Sides

\* What is left of an operation after one service has learned of it.
LEMMA SuffixTail ==
    ASSUME NEW S, NEW s \in Seq(S), NEW t \in VA!Suffixes(s), t # <<>>
    PROVE  Head(t) \in S /\ Tail(t) \in VA!Suffixes(s)
<1>1. PICK i \in 1 .. Len(s) + 1 : t = SubSeq(s, i, Len(s))
  BY DEF VA!Suffixes
<1>2. Len(s) \in Nat
  OBVIOUS
<1>3. i <= Len(s)
  <2>1. CASE i > Len(s)
    BY <1>1, <1>2, <2>1, SubSeqEmpty
  <2> QED
    BY <1>2, <2>1
<1>4. i \in 1 .. Len(s) /\ Len(s) \in i .. Len(s)
  BY <1>2, <1>3
<1>5. Head(t) = s[i] /\ Tail(t) = SubSeq(s, i + 1, Len(s))
  BY <1>1, <1>4, HeadTailOfSubSeq
<1>6. i + 1 \in 1 .. Len(s) + 1
  BY <1>2, <1>4
<1>7. s[i] \in S
  BY <1>4
<1> QED
  BY <1>5, <1>6, <1>7 DEF VA!Suffixes

\* Views with the same pairs are the same.
LEMMA SamePairs ==
    ASSUME NEW f \in [NovaVolume -> VA!Known], NEW g \in [NovaVolume -> VA!Known], Pairs(f) = Pairs(g)
    PROVE  f = g
<1>1. SUFFICES ASSUME NEW v \in NovaVolume PROVE f[v] = g[v]
  OBVIOUS
<1>2. \A h \in [NovaVolume -> VA!Known] : \A d : <<v, d>> \in Pairs(h) <=> d = h[v] /\ d # "none"
  BY DEF Pairs
<1> QED
  BY <1>2

\* What Nova and libvirt are asked for are the pairs of their views.
LEMMA AttachedPairs ==
    /\ VA!Attached("nova") = Pairs(cloud.view.nova)
    /\ VA!Attached("libvirt") = Pairs(cloud.view.libvirt)
  BY DEF VA!Attached, Pairs

LEMMA PairsTyped ==
    ASSUME NEW f \in [NovaVolume -> VA!Known]
    PROVE  Pairs(f) \subseteq NovaVolume \X VA!Known
  BY DEF Pairs

\* An error more is about its volume alone.
LEMMA ReportedOne ==
    ASSUME NEW said, NEW v, NEW k, k # "libvirt", NEW u
    PROVE  /\ Reported(said \cup {<<k, u>>}, v) <=> Reported(said, v) \/ v = u
           /\ <<"libvirt">> \in said \cup {<<k, u>>} <=> <<"libvirt">> \in said
<1>1. <<k, u>>[1] = k /\ <<k, u>>[2] = u
  OBVIOUS
<1>2. \A x : <<x>> # <<k, u>>
  OBVIOUS
<1> QED
  BY <1>1, <1>2 DEF Reported

\* That Nova and libvirt disagree is about no volume.
LEMMA ReportedSides ==
    ASSUME NEW said, NEW v, NEW more \in SUBSET {<<"libvirt">>}
    PROVE  Reported(said \cup more, v) <=> Reported(said, v)
<1>1. \A e \in more : e[1] = "libvirt"
  OBVIOUS
<1> QED
  BY <1>1 DEF Reported

LEMMA ReportedNone == \A v : ~Reported({}, v)
  BY DEF Reported

\* What one service learns of one volume.
LEMMA VALearned ==
    ASSUME NEW view, VAView(view), NEW service \in {"nova", "libvirt", "cinder"},
           NEW v \in NovaVolume, NEW d \in VA!Known
    PROVE  /\ VAView([view EXCEPT ![service][v] = d])
           /\ \A u \in NovaVolume \ {v} :
                /\ [view EXCEPT ![service][v] = d].nova[u] = view.nova[u]
                /\ [view EXCEPT ![service][v] = d].cinder[u] = view.cinder[u]
<1>1. PICK n, l, c : view = [nova |-> n, libvirt |-> l, cinder |-> c]
  BY DEF VAView
<1>2. n \in [NovaVolume -> VA!Known] /\ l \in [NovaVolume -> VA!Known] /\ c \in [NovaVolume -> VA!Known \cup {"missing"}]
  BY <1>1 DEF VAView
<1>3. CASE service = "nova"
  <2>1. [view EXCEPT ![service][v] = d] = [nova |-> [n EXCEPT ![v] = d], libvirt |-> l, cinder |-> c]
    BY <1>1, <1>3
  <2> QED
    BY <1>1, <1>2, <2>1 DEF VAView
<1>4. CASE service = "libvirt"
  <2>1. [view EXCEPT ![service][v] = d] = [nova |-> n, libvirt |-> [l EXCEPT ![v] = d], cinder |-> c]
    BY <1>1, <1>4
  <2> QED
    BY <1>1, <1>2, <2>1 DEF VAView
<1>5. CASE service = "cinder"
  <2>1. [view EXCEPT ![service][v] = d] = [nova |-> n, libvirt |-> l, cinder |-> [c EXCEPT ![v] = d]]
    BY <1>1, <1>5
  <2> QED
    BY <1>1, <1>2, <2>1 DEF VAView
<1> QED
  BY <1>3, <1>4, <1>5

\* What a step of the cloud leaves of the volumes on which nobody worked, and of the rest.
VAKept ==
    /\ VACloud' /\ Untouched' /\ local' = local
    /\ cloud.touched \subseteq cloud'.touched
    /\ \A v \in NovaVolume \ cloud'.touched :
        cloud'.view.nova[v] = cloud.view.nova[v] /\ cloud'.view.cinder[v] = cloud.view.cinder[v]
    /\ cloud'.touched = {} => cloud'.view = cloud.view
    /\ cloud'.mosk = cloud.mosk /\ cloud'.active = cloud.active

\* An operation begins on a volume.
LEMMA VABegin ==
    ASSUME VAInv, NEW v \in NovaVolume, VA!Begin(v)
    PROVE  VAKept
<1>1. PICK d \in VA!Known :
        /\ v \notin cloud.touched /\ local' = local
        /\ cloud' = [cloud EXCEPT !.touched = cloud.touched \cup {v}, !.aim[v] = d,
                                  !.todo[v] = IF d = "none" THEN VA!Detach ELSE VA!Attach]
  BY DEF VA!Begin
<1>2. PICK steps \in {VA!Detach, VA!Attach} :
        cloud' = [view |-> cloud.view, aim |-> [cloud.aim EXCEPT ![v] = d],
                  todo |-> [cloud.todo EXCEPT ![v] = steps], touched |-> cloud.touched \cup {v},
                  mosk |-> cloud.mosk, active |-> cloud.active, server |-> cloud.server]
  BY <1>1 DEF VAInv, VACloud
<1>3. steps \in VA!Suffixes(VA!Attach) \cup VA!Suffixes(VA!Detach)
  <2>1. SubSeq(VA!Attach, 1, Len(VA!Attach)) = VA!Attach /\ SubSeq(VA!Detach, 1, Len(VA!Detach)) = VA!Detach
    <3>1. VA!Attach \in Seq({"nova", "libvirt", "cinder"}) /\ VA!Detach \in Seq({"nova", "libvirt", "cinder"})
      BY DEF VA!Attach, VA!Detach
    <3> QED
      BY <3>1, SubSeqFull
  <2>2. Len(VA!Attach) = 3 /\ Len(VA!Detach) = 3
    BY DEF VA!Attach, VA!Detach
  <2>3. VA!Attach \in VA!Suffixes(VA!Attach) /\ VA!Detach \in VA!Suffixes(VA!Detach)
    BY <2>1, <2>2 DEF VA!Suffixes
  <2> QED
    BY <2>3
<1>4. VACloud'
  BY <1>2, <1>3 DEF VAInv, VACloud
<1>5. Untouched'
  BY <1>2 DEF VAInv, VACloud, Untouched
<1> QED
  BY <1>1, <1>2, <1>4, <1>5 DEF VAKept

\* A service learns of an operation.
LEMMA VALearn ==
    ASSUME VAInv, NEW v \in NovaVolume, VA!Learn(v)
    PROVE  VAKept
<1> DEFINE steps == cloud.todo[v]
<1>1. /\ steps # <<>> /\ local' = local
      /\ cloud' = [cloud EXCEPT !.view[Head(steps)][v] = cloud.aim[v], !.todo[v] = Tail(steps)]
  BY DEF VA!Learn
<1>2. Head(steps) \in {"nova", "libvirt", "cinder"}
      /\ Tail(steps) \in VA!Suffixes(VA!Attach) \cup VA!Suffixes(VA!Detach)
  <2>1. steps \in VA!Suffixes(VA!Attach) \cup VA!Suffixes(VA!Detach)
    BY DEF VAInv, VACloud
  <2>2. VA!Attach \in Seq({"nova", "libvirt", "cinder"}) /\ VA!Detach \in Seq({"nova", "libvirt", "cinder"})
    BY DEF VA!Attach, VA!Detach
  <2> QED
    BY <1>1, <2>1, <2>2, SuffixTail
<1> HIDE DEF steps
<1>3. PICK service \in {"nova", "libvirt", "cinder"} : service = Head(steps)
  BY <1>2
<1>4. cloud' = [view |-> [cloud.view EXCEPT ![service][v] = cloud.aim[v]], aim |-> cloud.aim,
                todo |-> [cloud.todo EXCEPT ![v] = Tail(steps)], touched |-> cloud.touched,
                mosk |-> cloud.mosk, active |-> cloud.active, server |-> cloud.server]
  BY <1>1, <1>3 DEF VAInv, VACloud
<1>5. cloud.aim[v] \in VA!Known /\ VAView(cloud.view)
  BY DEF VAInv, VACloud
<1>6. /\ VAView(cloud'.view)
      /\ \A u \in NovaVolume \ {v} : /\ cloud'.view.nova[u] = cloud.view.nova[u]
                                 /\ cloud'.view.cinder[u] = cloud.view.cinder[u]
  BY <1>4, <1>5, VALearned
<1>7. v \in cloud.touched
  BY <1>1 DEF VAInv, Untouched, steps
<1>8. VACloud'
  BY <1>2, <1>4, <1>6 DEF VAInv, VACloud
<1>9. Untouched'
  BY <1>4, <1>7 DEF VAInv, VACloud, Untouched
<1> QED
  BY <1>1, <1>4, <1>6, <1>7, <1>8, <1>9 DEF VAKept

\* The server moves or is deleted.
LEMMA VALeave ==
    ASSUME VAInv, VA!Leave
    PROVE  VAKept
<1>1. PICK s \in {"moved", "deleted"} :
        /\ cloud' = [view |-> cloud.view, aim |-> cloud.aim, todo |-> cloud.todo, touched |-> cloud.touched,
                     mosk |-> cloud.mosk, active |-> cloud.active, server |-> s]
        /\ local' = local
  BY DEF VA!Leave, VAInv, VACloud
<1>2. VACloud'
  BY <1>1 DEF VAInv, VACloud
<1>3. Untouched'
  BY <1>1 DEF VAInv, Untouched
<1> QED
  BY <1>1, <1>2, <1>3 DEF VAKept

\* What is kept is enough for the invariant.
LEMMA VACloudStep ==
    ASSUME VAInv, VAKept
    PROVE  VAInv'
<1>1. VALocal'
  BY DEF VAKept, VAInv, VALocal
<1>2. Judged'
  <2>1. \A v \in NovaVolume \ cloud'.touched : v \notin cloud.touched /\ (Disagree(v)' <=> Disagree(v))
    BY DEF VAKept, Disagree
  <2>2. local' = local
    BY DEF VAKept
  <2>3. \A v : Reported(local.said, v)' <=> Reported(local.said, v)
    BY <2>2 DEF Reported
  <2>4. \A v \in NovaVolume \ cloud'.touched : cloud'.view.nova[v] = cloud.view.nova[v]
    BY DEF VAKept
  <2> QED
    BY <2>1, <2>2, <2>3, <2>4 DEF VAInv, Judged
<1>3. Sides'
  <2>1. cloud'.touched = {} => cloud.touched = {} /\ cloud'.view = cloud.view
    BY DEF VAKept
  <2>2. local' = local /\ cloud'.mosk = cloud.mosk /\ cloud'.active = cloud.active
    BY DEF VAKept
  <2> QED
    BY <2>1, <2>2 DEF VAInv, Sides, Pairs
<1> QED
  BY <1>1, <1>2, <1>3 DEF VAKept, VAInv

LEMMA VAInit == VA!Init => VAInv
<1> SUFFICES ASSUME VA!Init PROVE VAInv
  OBVIOUS
<1>1. VALocal /\ local.pc = "list" /\ local.listed = {} /\ local.said = {}
  <2>1. local = [pc |-> "list", listed |-> {}, disks |-> {}, said |-> {}]
    BY DEF VA!Init
  <2> QED
    BY <2>1 DEF VALocal
<1>2. /\ VAView(cloud.view)
      /\ cloud = [view |-> cloud.view, aim |-> cloud.aim, todo |-> cloud.todo, touched |-> cloud.touched,
                  mosk |-> cloud.mosk, active |-> cloud.active, server |-> cloud.server]
      /\ cloud.aim = [v \in NovaVolume |-> "none"] /\ cloud.todo = [v \in NovaVolume |-> <<>>]
      /\ cloud.touched = {} /\ cloud.mosk \in BOOLEAN /\ cloud.active \in BOOLEAN /\ cloud.server = "here"
  BY DEF VA!Init, VAView
<1>3. <<>> \in VA!Suffixes(VA!Attach)
  <2>1. Len(VA!Attach) = 3 /\ SubSeq(VA!Attach, 4, 3) = <<>>
    BY SubSeqEmpty DEF VA!Attach
  <2>2. Len(VA!Attach) + 1 = 4 /\ 4 \in 1 .. 4
    BY <2>1
  <2> QED
    BY <2>1, <2>2 DEF VA!Suffixes
<1>4. VACloud
  BY <1>2, <1>3 DEF VACloud, VA!Known
<1>5. Untouched /\ Sides
  BY <1>1, <1>2 DEF Untouched, Sides
<1>6. Judged
  BY <1>1, ReportedNone DEF Judged
<1> QED
  BY <1>1, <1>4, <1>5, <1>6 DEF VAInv

\* A volume whose attachment was listed is reported if and only if Cinder does not
\* know it at the device of the attachment.
LEMMA VACompared ==
    ASSUME VAInv, VA!CompareCinder
    PROVE  \E v \in NovaVolume, d \in VA!Known :
            /\ local.pc = "cinder" /\ cloud' = cloud /\ <<v, d>> \in local.listed
            /\ local'.pc = "cinder" /\ local'.disks = local.disks /\ local'.listed = local.listed \ {<<v, d>>}
            /\ \/ cloud.view.cinder[v] = d /\ local'.said = local.said
               \/ /\ cloud.view.cinder[v] # d \/ d = "none"
                  /\ \E k : k # "libvirt" /\ local'.said = local.said \cup {<<k, v>>}
            /\ VALocal'
<1> DEFINE there(a) == cloud.view.cinder[a[1]]
           error(a) == CASE there(a) = "missing" -> {<<"nonexistent", a[1]>>}
                         [] there(a) = "none" -> {<<"not in Cinder", a[1]>>}
                         [] OTHER -> IF there(a) # a[2] THEN {<<"device", a[1]>>} ELSE {}
<1>1. PICK a \in local.listed :
        /\ local.pc = "cinder" /\ cloud' = cloud
        /\ local' = [pc |-> local.pc, listed |-> local.listed \ {a}, disks |-> local.disks,
                     said |-> local.said \cup error(a)]
  <2>1. local = [pc |-> local.pc, listed |-> local.listed, disks |-> local.disks, said |-> local.said]
    BY DEF VAInv, VALocal
  <2> QED
    BY <2>1 DEF VA!CompareCinder
<1>2. PICK v \in NovaVolume, d \in VA!Known : a = <<v, d>>
  BY DEF VAInv, VALocal
<1>3. d # "missing"
  BY DevicesAssumption DEF VA!Known
<1>4. \/ error(a) = {} /\ cloud.view.cinder[v] = d
      \/ \E k \in {"nonexistent", "not in Cinder", "device"} :
            error(a) = {<<k, v>>} /\ (cloud.view.cinder[v] # d \/ d = "none")
  <2>1. a[1] = v /\ a[2] = d
    BY <1>2
  <2>2. there(a) = cloud.view.cinder[v]
    BY <2>1
  <2>3. CASE cloud.view.cinder[v] = "missing"
    <3>1. error(a) = {<<"nonexistent", v>>}
      BY <2>1, <2>2, <2>3
    <3> QED
      BY <1>3, <2>3, <3>1
  <2>4. CASE cloud.view.cinder[v] = "none"
    <3>1. error(a) = {<<"not in Cinder", v>>}
      BY <2>1, <2>2, <2>4
    <3> QED
      BY <2>4, <3>1
  <2>5. CASE cloud.view.cinder[v] \notin {"missing", "none"}
    <3>1. error(a) = IF cloud.view.cinder[v] # d THEN {<<"device", v>>} ELSE {}
      BY <2>1, <2>2, <2>5
    <3> QED
      BY <3>1
  <2> QED
    BY <2>3, <2>4, <2>5
<1> HIDE DEF error
<1>5. \/ error(a) = {} /\ cloud.view.cinder[v] = d
      \/ \E k : k # "libvirt" /\ error(a) = {<<k, v>>} /\ (cloud.view.cinder[v] # d \/ d = "none")
  BY <1>4
<1>6. error(a) \subseteq VA!Verdict
  <2>1. \A K : \A k \in K : <<k, v>> \in K \X NovaVolume
    OBVIOUS
  <2>2. \A k \in {"nonexistent", "not in Cinder", "device"} : <<k, v>> \in VA!Verdict
    BY <2>1, Zenon DEF VA!Verdict
  <2> QED
    BY <1>4, <2>2
<1>7. VALocal'
  BY <1>1, <1>6 DEF VAInv, VALocal
<1>8. local.said \cup {} = local.said
  OBVIOUS
<1> QED
  BY <1>1, <1>2, <1>5, <1>7, <1>8

\* The comparison of one attachment keeps the invariant.
LEMMA VACompareStep ==
    ASSUME VAInv, VA!CompareCinder
    PROVE  VAInv'
<1>1. PICK v \in NovaVolume, d \in VA!Known :
            /\ local.pc = "cinder" /\ cloud' = cloud /\ <<v, d>> \in local.listed
            /\ local'.pc = "cinder" /\ local'.disks = local.disks /\ local'.listed = local.listed \ {<<v, d>>}
            /\ \/ cloud.view.cinder[v] = d /\ local'.said = local.said
               \/ /\ cloud.view.cinder[v] # d \/ d = "none"
                  /\ \E k : k # "libvirt" /\ local'.said = local.said \cup {<<k, v>>}
            /\ VALocal'
  BY VACompared
<1>2. <<"libvirt">> \in local'.said <=> <<"libvirt">> \in local.said
  <2>1. ASSUME NEW k, k # "libvirt"
        PROVE  <<"libvirt">> \in local.said \cup {<<k, v>>} <=> <<"libvirt">> \in local.said
    BY <2>1, ReportedOne
  <2> QED
    BY <1>1, <2>1
<1>3. VACloud' /\ Untouched'
  BY <1>1 DEF VAInv, VACloud, Untouched
<1>4. Sides'
  BY <1>1, <1>2 DEF VAInv, Sides
<1>5. ASSUME NEW u \in NovaVolume \ cloud.touched
      PROVE  /\ \A e : <<u, e>> \in local'.listed => e = cloud.view.nova[u] /\ e # "none"
             /\ Reported(local'.said, u) => Disagree(u)
             /\ Disagree(u) => Reported(local'.said, u) \/ <<u, cloud.view.nova[u]>> \in local'.listed
  <2>1. /\ \A e : <<u, e>> \in local.listed => e = cloud.view.nova[u] /\ e # "none"
        /\ Reported(local.said, u) => Disagree(u)
        /\ Disagree(u) => Reported(local.said, u) \/ <<u, cloud.view.nova[u]>> \in local.listed
    BY <1>1, <1>5 DEF VAInv, Judged
  <2>2. \A e : <<u, e>> \in local'.listed <=> <<u, e>> \in local.listed /\ ~(u = v /\ e = d)
    BY <1>1
  <2>3. CASE u = v
    <3>1. d = cloud.view.nova[u] /\ d # "none"
      BY <1>1, <2>1, <2>3
    <3>2. Disagree(u) <=> cloud.view.cinder[v] # d
      BY <2>3, <3>1 DEF Disagree
    <3>3. CASE cloud.view.cinder[v] = d /\ local'.said = local.said
      BY <2>1, <2>2, <3>2, <3>3
    <3>4. CASE /\ cloud.view.cinder[v] # d \/ d = "none"
               /\ \E k : k # "libvirt" /\ local'.said = local.said \cup {<<k, v>>}
      <4>1. Reported(local'.said, u)
        <5>1. PICK k : k # "libvirt" /\ local'.said = local.said \cup {<<k, v>>}
          BY <3>4
        <5>2. Reported(local.said \cup {<<k, v>>}, v)
          BY <5>1, ReportedOne
        <5> QED
          BY <2>3, <5>1, <5>2
      <4>2. Disagree(u)
        BY <3>1, <3>2, <3>4
      <4> QED
        BY <2>1, <2>2, <4>1, <4>2
    <3> QED
      BY <1>1, <3>3, <3>4
  <2>4. CASE u # v
    <3>1. Reported(local'.said, u) <=> Reported(local.said, u)
      <4>1. ASSUME NEW k, k # "libvirt"
            PROVE  Reported(local.said \cup {<<k, v>>}, u) <=> Reported(local.said, u)
        BY <2>4, <4>1, ReportedOne
      <4> QED
        BY <1>1, <4>1
    <3> QED
      BY <2>1, <2>2, <2>4, <3>1
  <2> QED
    BY <2>3, <2>4
<1>6. \A u \in NovaVolume : Disagree(u)' <=> Disagree(u)
  BY <1>1 DEF Disagree
<1>7. Judged'
  <2>1. \A u : Reported(local.said, u)' <=> Reported(local'.said, u)
    BY DEF Reported
  <2> QED
    BY <1>1, <1>5, <1>6, <2>1 DEF Judged
<1> QED
  BY <1>1, <1>3, <1>4, <1>7 DEF VAInv

LEMMA VAStep == VAInv /\ [VA!Next]_(VA!vars) => VAInv'
<1> SUFFICES ASSUME VAInv, [VA!Next]_(VA!vars) PROVE VAInv'
  OBVIOUS
<1>0. /\ local = [pc |-> local.pc, listed |-> local.listed, disks |-> local.disks, said |-> local.said]
      /\ VAView(cloud.view) /\ cloud.touched \subseteq NovaVolume
  BY DEF VAInv, VALocal, VACloud
<1>1. ASSUME UNCHANGED cloud
      PROVE  VACloud' /\ Untouched' /\ \A v \in NovaVolume : Disagree(v)' <=> Disagree(v)
  BY <1>1 DEF VAInv, VACloud, Untouched, Disagree
<1>2. \A v : Reported(local.said, v)' <=> Reported(local'.said, v)
  BY DEF Reported
<1>3. CASE VA!Raise
  <2>1. /\ cloud' = cloud
        /\ local' = [pc |-> "raised", listed |-> local.listed, disks |-> local.disks, said |-> local.said]
        /\ local.pc # "end"
    BY <1>0, <1>3 DEF VA!Raise
  <2>2. VALocal' /\ Sides'
    BY <2>1 DEF VAInv, VALocal, Sides
  <2>3. Judged'
    BY <1>1, <1>2, <2>1 DEF VAInv, Judged
  <2> QED
    BY <1>1, <2>1, <2>2, <2>3 DEF VAInv
<1>4. CASE VA!List
  <2>1. PICK label \in {"end", "attachments"} :
            /\ local.pc = "list" /\ cloud' = cloud
            /\ label = "end" <=> Pairs(cloud.view.nova) = {}
            /\ local' = [pc |-> label, listed |-> local.listed, disks |-> local.disks, said |-> local.said]
    BY <1>0, <1>4, AttachedPairs DEF VA!List
  <2>2. local.said = {} /\ local.listed = {}
    BY <2>1 DEF VAInv, Judged
  <2>3. VALocal' /\ Sides'
    BY <2>1, <2>2 DEF VAInv, VALocal, Sides
  <2>4. Pairs(cloud.view.nova) = {} => \A v \in NovaVolume : cloud.view.nova[v] = "none"
    BY DEF Pairs
  <2>5. Judged'
    BY <1>1, <1>2, <2>1, <2>2, <2>4, ReportedNone DEF Judged, Disagree
  <2> QED
    BY <1>1, <2>1, <2>3, <2>5 DEF VAInv
<1>5. CASE VA!Attachments
  <2>1. local.pc = "attachments" /\ cloud' = cloud
    BY <1>5 DEF VA!Attachments
  <2>2. local' = [pc |-> "cinder", listed |-> Pairs(cloud.view.nova), disks |-> local.disks, said |-> local.said]
    BY <1>0, <1>5, AttachedPairs DEF VA!Attachments
  <2>3. local.said = {}
    BY <2>1 DEF VAInv, Judged
  <2>4. Pairs(cloud.view.nova) \subseteq NovaVolume \X VA!Known
    BY <1>0, PairsTyped DEF VAView
  <2>5. VALocal' /\ Sides'
    BY <2>1, <2>2, <2>4 DEF VAInv, VALocal, Sides
  <2>6. \A v \in NovaVolume : \A d : <<v, d>> \in Pairs(cloud.view.nova) <=> d = cloud.view.nova[v] /\ d # "none"
    BY DEF Pairs
  <2>7. Judged'
    BY <1>1, <1>2, <2>1, <2>2, <2>3, <2>6, ReportedNone DEF Judged, Disagree
  <2> QED
    BY <1>1, <2>1, <2>5, <2>7 DEF VAInv
<1>6. CASE VA!CompareCinder
  BY <1>6, VACompareStep
<1>7. CASE VA!CinderDone
  <2>1. PICK label \in {"libvirt", "end"} :
            /\ local.pc = "cinder" /\ local.listed = {} /\ cloud' = cloud
            /\ label = "libvirt" <=> cloud.active /\ cloud.mosk
            /\ local' = [pc |-> label, listed |-> local.listed, disks |-> local.disks, said |-> local.said]
    BY <1>0, <1>7 DEF VA!CinderDone
  <2>2. VALocal' /\ Sides'
    BY <2>1 DEF VAInv, VALocal, Sides
  <2>3. Judged'
    BY <1>1, <1>2, <2>1 DEF VAInv, Judged
  <2> QED
    BY <1>1, <2>1, <2>2, <2>3 DEF VAInv
<1>8. CASE VA!DumpXML
  <2>1. local.pc = "libvirt" /\ cloud' = cloud
    BY <1>8 DEF VA!DumpXML
  <2>2. local' = [pc |-> "nova", listed |-> local.listed, disks |-> Pairs(cloud.view.libvirt), said |-> local.said]
    BY <1>0, <1>8, AttachedPairs DEF VA!DumpXML
  <2>3. Pairs(cloud.view.libvirt) \subseteq NovaVolume \X VA!Known
    BY <1>0, PairsTyped DEF VAView
  <2>4. VALocal' /\ Sides'
    BY <2>1, <2>2, <2>3 DEF VAInv, VALocal, Sides
  <2>5. Judged'
    BY <1>1, <1>2, <2>1, <2>2 DEF VAInv, Judged
  <2> QED
    BY <1>1, <2>1, <2>4, <2>5 DEF VAInv
<1>9. CASE VA!CompareNova
  <2>1. local.pc = "nova" /\ cloud' = cloud
    BY <1>9 DEF VA!CompareNova
  <2>2. PICK more \in SUBSET {<<"libvirt">>} :
            /\ <<"libvirt">> \in more <=> local.disks # Pairs(cloud.view.nova)
            /\ local' = [pc |-> "end", listed |-> local.listed, disks |-> local.disks, said |-> local.said \cup more]
    <3>1. <<"libvirt">> \in {e \in {<<"libvirt">>} : local.disks # VA!Attached("nova")}
              <=> local.disks # Pairs(cloud.view.nova)
      BY AttachedPairs
    <3> QED
      BY <1>0, <1>9, <3>1 DEF VA!CompareNova
  <2>3. VALocal'
    BY <2>1, <2>2 DEF VAInv, VALocal
  <2>4. Sides'
    <3>1. <<"libvirt">> \in local'.said <=> local.disks # Pairs(cloud.view.nova)
      BY <2>1, <2>2 DEF VAInv, Sides
    <3>2. ASSUME cloud.touched = {}
          PROVE  /\ cloud.active /\ cloud.mosk /\ Pairs(cloud.view.nova) # {}
                 /\ local.disks = Pairs(cloud.view.libvirt)
      BY <2>1, <3>2 DEF VAInv, Sides
    <3>3. Pairs(cloud.view.libvirt) = Pairs(cloud.view.nova) => cloud.view.nova = cloud.view.libvirt
      BY <1>0, SamePairs DEF VAView
    <3> QED
      BY <2>1, <2>2, <3>1, <3>2, <3>3 DEF Sides
  <2>5. Judged'
    <3>1. \A v : Reported(local'.said, v) <=> Reported(local.said, v)
      BY <2>2, ReportedSides
    <3> QED
      BY <1>1, <1>2, <2>1, <2>2, <3>1 DEF VAInv, Judged
  <2> QED
    BY <1>1, <2>1, <2>3, <2>4, <2>5 DEF VAInv
<1>10. ASSUME NEW v \in NovaVolume, VA!Begin(v) \/ VA!Learn(v) PROVE VAInv'
  BY <1>10, VABegin, VALearn, VACloudStep
<1>11. CASE VA!Leave
  BY <1>11, VALeave, VACloudStep
<1>12. CASE UNCHANGED VA!vars
  <2>1. VAKept
    BY <1>12 DEF VA!vars, VAKept, VAInv, VACloud, Untouched
  <2> QED
    BY <2>1, VACloudStep
<1> QED
  BY <1>3, <1>4, <1>5, <1>6, <1>7, <1>8, <1>9, <1>10, <1>11, <1>12 DEF VA!Next

LEMMA VATyped == VAInv => VA!TypeOK
<1> SUFFICES ASSUME VAInv PROVE VA!TypeOK
  OBVIOUS
<1>1. cloud.view \in [nova : [NovaVolume -> VA!Known], libvirt : [NovaVolume -> VA!Known],
                      cinder : [NovaVolume -> VA!Known \cup {"missing"}]]
  BY DEF VAInv, VACloud, VAView
<1>2. cloud \in [view : [nova : [NovaVolume -> VA!Known], libvirt : [NovaVolume -> VA!Known],
                         cinder : [NovaVolume -> VA!Known \cup {"missing"}]],
                 aim : [NovaVolume -> VA!Known],
                 todo : [NovaVolume -> VA!Suffixes(VA!Attach) \cup VA!Suffixes(VA!Detach)],
                 touched : SUBSET NovaVolume,
                 mosk : BOOLEAN, active : BOOLEAN, server : {"here", "moved", "deleted"}]
  BY <1>1 DEF VAInv, VACloud
<1>3. local \in [pc : {"list", "attachments", "cinder", "libvirt", "nova", "end", "raised"},
                 listed : SUBSET (NovaVolume \X VA!Known), disks : SUBSET (NovaVolume \X VA!Known),
                 said : SUBSET (VA!Verdict \cup {<<"libvirt">>})]
  BY DEF VAInv, VALocal
<1> QED
  BY <1>2, <1>3 DEF VA!TypeOK

\* Of the volumes on which nobody worked, corrupted_va.py reports none that Cinder
\* has as Nova lists it, and when it ends by itself all others that Nova lists; the
\* disks that libvirt has otherwise too, where nobody worked on any.
THEOREM AlarmsAlwaysExact == Spec => []AlarmsExact
<1> DEFINE Inv == script = "va" => VAInv
<1>1. Init => Inv
  BY VAInit DEF Init
<1>2. Inv /\ [Next]_vars => Inv'
  BY VAStep, ScriptStep
<1>3. VAInv => VA!AlarmsExact
  BY AttachedPairs DEF VAInv, VACloud, Judged, Sides, Reported, Disagree, VA!Reported, VA!AlarmsExact
<1>4. Inv => AlarmsExact
  BY <1>3 DEF AlarmsExact
<1> QED
  BY <1>1, <1>2, <1>4, PTL DEF Spec

-----------------------------------------------------------------------------
(* heat-stack-inventory.py.  The servers before the next are accounted for, and  *)
(* an entry is of such a server, under its name, with an address that it has or  *)
(* has lost.                                                                     *)

\* Apart, so that the steps about numbers need not look into these labels.
InventoryExit == {"exit 1"}
InventoryLabel == {"find", "look", "format", "printed"} \cup InventoryExit

InventoryCloud ==
    /\ cloud = [stack |-> cloud.stack, name |-> cloud.name, addresses |-> cloud.addresses, lost |-> cloud.lost]
    /\ cloud.stack \in BOOLEAN /\ cloud.name \in [1 .. StackSize -> Hostname] /\ cloud.lost \subseteq 1 .. StackSize
    /\ cloud.addresses \in [1 .. StackSize -> Addresses \cup {<<>>}]

InventoryLocal ==
    /\ local = [pc |-> local.pc, version |-> local.version, format |-> local.format, strict |-> local.strict,
                next |-> local.next, servers |-> local.servers, warned |-> local.warned,
                hosts |-> local.hosts, checkKeys |-> local.checkKeys]
    /\ local.pc \in InventoryLabel
    /\ local.version \in {4, 6} /\ local.format \in {"ansible", "sitests"}
    /\ local.strict \in BOOLEAN /\ local.checkKeys \in BOOLEAN
    /\ local.next \in 1 .. StackSize + 1 /\ local.warned \subseteq 1 .. StackSize
    /\ DOMAIN local.servers \subseteq Hostname /\ DOMAIN local.hosts \subseteq Hostname

InventoryType == InventoryCloud /\ InventoryLocal

\* A warned server had no address of the version, or has lost one since.
Looked ==
    /\ \A s \in 1 .. StackSize : s < local.next =>
          s \in local.warned \/ (/\ cloud.name[s] \in DOMAIN local.servers
                                 /\ local.servers[cloud.name[s]][1] >= s)
    /\ \A s \in local.warned : s \in cloud.lost \/ Inventory!Fips(s, local.version) = {}

\* An entry is the server's with its name, and tells an address of it.
Entries ==
    \A h \in DOMAIN local.servers :
        LET s == local.servers[h][1]
        IN  /\ s \in 1 .. StackSize /\ s < local.next /\ cloud.name[s] = h
            /\ s \in cloud.lost \/ local.servers[h][2] \in Inventory!Fips(s, local.version)

\* All servers were looked at, and what is printed is what was found.
Printed ==
    /\ local.pc \in {"format", "printed"} => local.next = StackSize + 1
    /\ local.pc = "printed" => local.hosts = local.servers

InventoryInv == InventoryType /\ Looked /\ Entries /\ Printed

LEMMA InventoryTyped == InventoryInv => Inventory!TypeOK
<1>1. InventoryLabel = {"find", "look", "format", "printed", "exit 1"}
  BY DEF InventoryLabel, InventoryExit
<1>2. InventoryType /\ local.next \in Nat => Inventory!TypeOK
  BY <1>1 DEF InventoryType, InventoryCloud, InventoryLocal, Inventory!TypeOK
<1>3. InventoryType => local.next \in Nat
  BY DEF InventoryType, InventoryCloud, InventoryLocal
<1> QED
  BY <1>2, <1>3 DEF InventoryInv

LEMMA InventoryLabels ==
    /\ {"find", "look", "format", "printed"} \subseteq InventoryLabel
    /\ {"find", "look", "format", "printed"} \cap InventoryExit = {}
    /\ InventoryExit \subseteq InventoryLabel
  BY DEF InventoryLabel, InventoryExit

\* The address looked for is the first of those there are.
LEMMA FipThere ==
    ASSUME InventoryType, NEW s \in 1 .. StackSize, Inventory!Fips(s, local.version) # {}
    PROVE  Inventory!Fip(s)[1] = s /\ Inventory!Fip(s)[2] \in Inventory!Fips(s, local.version)
<1>1. cloud.addresses[s] \in Seq({"fixed4", "fixed6", "floating4", "floating6"})
  <2> DEFINE Sequences == Seq({"fixed4", "fixed6", "floating4", "floating6"})
  <2>1. cloud.addresses[s] \in Addresses \cup {<<>>}
    BY DEF InventoryType, InventoryCloud, InventoryLocal
  <2>2. <<>> \in Sequences /\ Addresses \subseteq Sequences
    BY AddressesAssumption
  <2> QED
    BY <2>1, <2>2
<1>2. Inventory!Fips(s, local.version) \in SUBSET Nat
  BY <1>1 DEF Inventory!Fips
<1> DEFINE least == CHOOSE i \in Inventory!Fips(s, local.version) :
                        \A j \in Inventory!Fips(s, local.version) : i <= j
<1>3. least \in Inventory!Fips(s, local.version)
  BY <1>2, LeastExists
<1>4. Inventory!Fip(s) = <<s, least>>
  BY DEF Inventory!Fip
<1> HIDE DEF least
<1> QED
  BY <1>3, <1>4

LEMMA InventoryInit == Inventory!Init => InventoryInv
<1> SUFFICES ASSUME Inventory!Init PROVE InventoryInv
  OBVIOUS
<1>1. cloud \in [stack : BOOLEAN, name : [1 .. StackSize -> Hostname],
                 addresses : [1 .. StackSize -> Addresses], lost : {{}}]
  BY DEF Inventory!Init
<1>2. local \in [pc : {"find"}, version : {4, 6}, format : {"ansible", "sitests"}, strict : BOOLEAN,
                 next : {1}, servers : {Inventory!Empty}, warned : {{}}, hosts : {Inventory!Empty},
                 checkKeys : {TRUE}]
  BY DEF Inventory!Init
<1>3. DOMAIN Inventory!Empty = {}
  BY DEF Inventory!Empty
<1>4. /\ local.pc = "find" /\ local.next = 1 /\ local.servers = Inventory!Empty /\ local.hosts = Inventory!Empty
      /\ local.warned = {}
  BY <1>2
<1>5. /\ cloud = [stack |-> cloud.stack, name |-> cloud.name, addresses |-> cloud.addresses, lost |-> cloud.lost]
      /\ cloud.stack \in BOOLEAN /\ cloud.name \in [1 .. StackSize -> Hostname] /\ cloud.lost \subseteq 1 .. StackSize
      /\ cloud.addresses \in [1 .. StackSize -> Addresses]
  BY <1>1
<1>6. cloud.addresses \in [1 .. StackSize -> Addresses \cup {<<>>}]
  BY <1>5
<1>7. local = [pc |-> local.pc, version |-> local.version, format |-> local.format, strict |-> local.strict,
                next |-> local.next, servers |-> local.servers, warned |-> local.warned,
                hosts |-> local.hosts, checkKeys |-> local.checkKeys]
  BY <1>2
<1>8. /\ local.version \in {4, 6} /\ local.format \in {"ansible", "sitests"}
      /\ local.strict \in BOOLEAN /\ local.checkKeys \in BOOLEAN
  BY <1>2
<1>9. local.next \in 1 .. StackSize + 1 /\ \A s \in 1 .. StackSize : ~(s < local.next)
  BY <1>4, StackSizeAssumption
<1>10. InventoryType
  BY <1>3, <1>4, <1>5, <1>6, <1>7, <1>8, <1>9, InventoryLabels DEF InventoryType, InventoryCloud, InventoryLocal
<1>11. Looked /\ Entries /\ Printed
  BY <1>3, <1>4, <1>9 DEF Looked, Entries, Printed
<1> QED
  BY <1>10, <1>11 DEF InventoryInv

LEMMA InventoryStep == InventoryInv /\ [Inventory!Next]_(Inventory!vars) => InventoryInv'
<1> SUFFICES ASSUME InventoryInv, [Inventory!Next]_(Inventory!vars) PROVE InventoryInv'
  OBVIOUS
<1>t. InventoryType /\ Looked /\ Entries /\ Printed
  BY DEF InventoryInv
<1>r. /\ local = [pc |-> local.pc, version |-> local.version, format |-> local.format, strict |-> local.strict,
                next |-> local.next, servers |-> local.servers, warned |-> local.warned,
                hosts |-> local.hosts, checkKeys |-> local.checkKeys]
      /\ cloud = [stack |-> cloud.stack, name |-> cloud.name, addresses |-> cloud.addresses, lost |-> cloud.lost]
  BY <1>t DEF InventoryType, InventoryCloud, InventoryLocal
\* A step that leaves the servers and what is in their inventory alone.
<1>1. ASSUME cloud' = cloud, local'.next = local.next, local'.servers = local.servers,
             local'.warned = local.warned, local'.version = local.version, InventoryType', Printed'
      PROVE  InventoryInv'
  <2>1. \A s : Inventory!Fips(s, local.version)' = Inventory!Fips(s, local.version)
    BY <1>1 DEF Inventory!Fips
  <2>2. Looked'
    BY <1>t, <1>1, <2>1 DEF Looked
  <2>3. Entries'
    BY <1>t, <1>1, <2>1 DEF Entries
  <2> QED
    BY <1>1, <2>2, <2>3 DEF InventoryInv
<1>2. CASE Inventory!Find \/ Inventory!LookDone
  <2>1. PICK label \in {"look", "format"} \cup InventoryExit :
           /\ local' = [local EXCEPT !.pc = label] /\ cloud' = cloud
           /\ label = "format" => local.next \notin 1 .. StackSize
    BY <1>2 DEF Inventory!Find, Inventory!LookDone, InventoryExit
  <2>2. label \in InventoryLabel /\ label # "printed"
    BY InventoryLabels
  <2>3. local' = [pc |-> label, version |-> local.version, format |-> local.format, strict |-> local.strict,
                  next |-> local.next, servers |-> local.servers, warned |-> local.warned,
                  hosts |-> local.hosts, checkKeys |-> local.checkKeys]
    BY <1>r, <2>1
  <2>4. InventoryType'
    BY <1>t, <2>1, <2>2, <2>3 DEF InventoryType, InventoryCloud, InventoryLocal
  <2>5. local.next \in 1 .. StackSize + 1
    BY <1>t DEF InventoryType, InventoryCloud, InventoryLocal
  <2>6. Printed'
    BY <2>1, <2>2, <2>3, <2>5, StackSizeAssumption DEF Printed
  <2> QED
    BY <1>1, <2>1, <2>3, <2>4, <2>6
<1>3. CASE Inventory!FormatAnsible \/ Inventory!FormatSitests
  <2>1. PICK check \in {local.checkKeys, local.strict} :
           /\ local' = [local EXCEPT !.pc = "printed", !.hosts = local.servers, !.checkKeys = check]
           /\ local.pc = "format" /\ cloud' = cloud
    BY <1>3, <1>r DEF Inventory!FormatAnsible, Inventory!FormatSitests
  <2>2. check \in BOOLEAN /\ "printed" \in InventoryLabel
    BY <1>t, InventoryLabels DEF InventoryType, InventoryCloud, InventoryLocal
  <2>3. local' = [pc |-> "printed", version |-> local.version, format |-> local.format, strict |-> local.strict,
                  next |-> local.next, servers |-> local.servers, warned |-> local.warned,
                  hosts |-> local.servers, checkKeys |-> check]
    BY <1>r, <2>1
  <2>4. InventoryType'
    BY <1>t, <2>1, <2>2, <2>3 DEF InventoryType, InventoryCloud, InventoryLocal
  <2>5. Printed'
    BY <1>t, <2>1, <2>3 DEF Printed
  <2> QED
    BY <1>1, <2>1, <2>3, <2>4, <2>5
<1>4. CASE Inventory!Look
  <2> DEFINE s == local.next
  <2>1. s \in 1 .. StackSize /\ cloud' = cloud /\ local.pc = "look"
    BY <1>4 DEF Inventory!Look
  <2>2. \A v : Inventory!Fips(v, local.version)' = Inventory!Fips(v, local'.version)
    BY <2>1 DEF Inventory!Fips
  <2>3. s + 1 \in 1 .. StackSize + 1 /\ \A t \in 1 .. StackSize : t < s + 1 <=> t < s \/ t = s
    BY <2>1, StackSizeAssumption
  <2>4. /\ cloud.name[s] \in Hostname /\ DOMAIN local.servers \subseteq Hostname /\ local.warned \subseteq 1 .. StackSize
    BY <1>t, <2>1 DEF InventoryType, InventoryCloud, InventoryLocal
  <2>5. CASE Inventory!Fips(s, local.version) = {}
    <3>1. local' = [local EXCEPT !.next = @ + 1, !.warned = @ \cup {s}]
      BY <1>4, <2>5 DEF Inventory!Look
    <3>2. local' = [pc |-> local.pc, version |-> local.version, format |-> local.format, strict |-> local.strict,
                    next |-> s + 1, servers |-> local.servers, warned |-> local.warned \cup {s},
                    hosts |-> local.hosts, checkKeys |-> local.checkKeys]
      BY <1>r, <3>1
    <3>3. InventoryType'
      BY <1>t, <2>1, <2>3, <3>2 DEF InventoryType, InventoryCloud, InventoryLocal
    <3>4. Looked'
      BY <1>t, <2>1, <2>2, <2>3, <2>5, <3>2 DEF Looked
    <3>5. Entries'
      BY <1>t, <2>1, <2>2, <2>3, <3>2 DEF Entries
    <3>6. Printed'
      BY <1>t, <2>1, <3>2 DEF Printed
    <3> QED
      BY <3>3, <3>4, <3>5, <3>6 DEF InventoryInv
  <2>6. CASE Inventory!Fips(s, local.version) # {}
    <3> DEFINE f == Inventory!With(local.servers, cloud.name[s], Inventory!Fip(s))
    <3>1. local' = [local EXCEPT !.next = @ + 1, !.servers = f]
      BY <1>4, <2>6 DEF Inventory!Look
    <3>2. /\ DOMAIN f = DOMAIN local.servers \cup {cloud.name[s]} /\ f[cloud.name[s]] = Inventory!Fip(s)
          /\ \A h \in DOMAIN local.servers \ {cloud.name[s]} : f[h] = local.servers[h]
      BY DEF Inventory!With
    <3> HIDE DEF f
    <3>3. local' = [pc |-> local.pc, version |-> local.version, format |-> local.format, strict |-> local.strict,
                    next |-> s + 1, servers |-> f, warned |-> local.warned,
                    hosts |-> local.hosts, checkKeys |-> local.checkKeys]
      BY <1>r, <3>1
    <3>4. InventoryType'
      BY <1>t, <2>1, <2>3, <2>4, <3>2, <3>3 DEF InventoryType, InventoryCloud, InventoryLocal
    <3>5. Inventory!Fip(s)[1] = s /\ Inventory!Fip(s)[2] \in Inventory!Fips(s, local.version)
      BY <1>t, <2>1, <2>6, FipThere
    <3>6. \A t \in 1 .. StackSize : t < s + 1 =>
             t \in local.warned \/ (cloud.name[t] \in DOMAIN f /\ f[cloud.name[t]][1] >= t)
      BY <1>t, <2>1, <2>3, <3>2, <3>5 DEF Looked
    <3>7. Looked'
      BY <1>t, <2>1, <2>2, <3>3, <3>6 DEF Looked
    <3>8. \A h \in DOMAIN f :
             /\ f[h][1] \in 1 .. StackSize /\ f[h][1] < s + 1 /\ cloud.name[f[h][1]] = h
             /\ f[h][1] \in cloud.lost \/ f[h][2] \in Inventory!Fips(f[h][1], local.version)
      BY <1>t, <2>1, <2>3, <3>2, <3>5 DEF Entries
    <3>9. Entries'
      BY <2>1, <2>2, <3>3, <3>8 DEF Entries
    <3>10. Printed'
      BY <1>t, <2>1, <3>3 DEF Printed
    <3> QED
      BY <3>4, <3>7, <3>9, <3>10 DEF InventoryInv
  <2> QED
    BY <2>5, <2>6
<1>5. ASSUME NEW x \in 1 .. StackSize, Inventory!Lose(x) PROVE InventoryInv'
  <2>1. local' = local /\ cloud' = [cloud EXCEPT !.lost = @ \cup {x}, !.addresses[x] = <<>>]
    BY <1>5 DEF Inventory!Lose
  <2>2. cloud' = [stack |-> cloud.stack, name |-> cloud.name, lost |-> cloud.lost \cup {x},
                  addresses |-> [cloud.addresses EXCEPT ![x] = <<>>]]
    BY <1>r, <2>1
  <2>3. InventoryType'
    <3>1. [cloud.addresses EXCEPT ![x] = <<>>] \in [1 .. StackSize -> Addresses \cup {<<>>}]
      BY <1>t DEF InventoryType, InventoryCloud, InventoryLocal
    <3>2. InventoryCloud'
      BY <1>t, <2>2, <3>1 DEF InventoryType, InventoryCloud
    <3> QED
      BY <1>t, <2>1, <3>2 DEF InventoryType, InventoryLocal
  <2>4. \A s \in 1 .. StackSize :
           s \notin cloud'.lost =>
              s \notin cloud.lost /\ Inventory!Fips(s, local.version)' = Inventory!Fips(s, local.version)
    <3>1. cloud.addresses \in [1 .. StackSize -> Addresses \cup {<<>>}]
      BY <1>t DEF InventoryType, InventoryCloud, InventoryLocal
    <3> SUFFICES ASSUME NEW s \in 1 .. StackSize, s \notin cloud'.lost
                 PROVE s \notin cloud.lost /\ Inventory!Fips(s, local.version)' = Inventory!Fips(s, local.version)
      OBVIOUS
    <3>2. s \notin cloud.lost /\ cloud'.addresses[s] = cloud.addresses[s]
      BY <2>2, <3>1
    <3> QED
      BY <2>1, <3>2 DEF Inventory!Fips
  <2>5. local.warned \subseteq 1 .. StackSize
    BY <1>t DEF InventoryType, InventoryCloud, InventoryLocal
  <2>6. Looked'
    BY <1>t, <2>1, <2>2, <2>4, <2>5 DEF Looked
  <2>7. Entries'
    BY <1>t, <2>1, <2>2, <2>4 DEF Entries
  <2>8. Printed'
    BY <1>t, <2>1 DEF Printed
  <2> QED
    BY <2>3, <2>6, <2>7, <2>8 DEF InventoryInv
<1>6. CASE UNCHANGED Inventory!vars
  <2>1. local' = local /\ cloud' = cloud
    BY <1>6 DEF Inventory!vars
  <2>2. InventoryType' /\ Printed'
    BY <1>t, <2>1 DEF InventoryType, InventoryCloud, InventoryLocal, Printed
  <2> QED
    BY <1>1, <2>1, <2>2
<1> QED
  BY <1>2, <1>3, <1>4, <1>5, <1>6 DEF Inventory!Next

\* Every server of a stack of any size is in the inventory, warned of, or hidden by
\* a later one of its name.
THEOREM AlwaysEveryServerAccounted == Spec => []EveryServerAccounted
<1> DEFINE Inv == script = "inventory" => InventoryInv
<1>1. Init => Inv
  BY InventoryInit DEF Init
<1>2. Inv /\ [Next]_vars => Inv'
  BY InventoryStep, ScriptStep
<1>3. ASSUME InventoryInv PROVE Inventory!EveryServerAccounted
  <2> SUFFICES ASSUME local.pc = "printed", NEW s \in 1 .. StackSize
               PROVE  /\ s \in local.warned \/ (/\ cloud.name[s] \in DOMAIN local.hosts
                                                 /\ local.hosts[cloud.name[s]][1] >= s)
                      /\ s \in local.warned => s \in cloud.lost \/ Inventory!Fips(s, local.version) = {}
                      /\ \A h \in DOMAIN local.hosts :
                            local.hosts[h][1] = s =>
                                /\ cloud.name[s] = h
                                /\ s \in cloud.lost \/ local.hosts[h][2] \in Inventory!Fips(s, local.version)
    BY DEF Inventory!EveryServerAccounted
  <2>1. s < local.next /\ local.hosts = local.servers
    BY <1>3, StackSizeAssumption DEF InventoryInv, Printed
  <2> QED
    BY <1>3, <2>1 DEF InventoryInv, Looked, Entries
<1>4. Inv => EveryServerAccounted
  BY <1>3 DEF EveryServerAccounted
<1> QED
  BY <1>1, <1>2, <1>4, PTL DEF Spec

-----------------------------------------------------------------------------
(* orphan_allocations.py.  Whom it takes for an orphan is nobody that Nova knows, *)
(* nor will be, and it looks again at nobody whom it deleted.                    *)

\* Whoever has or had allocations.
Past == cloud.servers \cup cloud.gone \cup {Migration[s] : s \in cloud.moved}

\* Nobody but those who have been here has allocations.
ConsumersKnown ==
    /\ cloud = [servers |-> cloud.servers, gone |-> cloud.gone, moved |-> cloud.moved,
                held |-> cloud.held]
    /\ cloud.servers \subseteq NovaServer /\ cloud.gone \subseteq NovaServer
    /\ cloud.servers \cap cloud.gone = {}
    /\ cloud.moved \subseteq cloud.servers \cup cloud.gone
    /\ \A a \in cloud.held : a[2] \in Past

\* No server that Nova knows is taken for an orphan.
OrphansListed ==
    /\ local = [delete |-> local.delete, pc |-> local.pc, rp |-> local.rp, consumers |-> local.consumers,
                consumer |-> local.consumer, orphans |-> local.orphans]
    /\ local.delete \in BOOLEAN
    /\ local.consumers \subseteq Past /\ local.consumer \subseteq Past \ cloud.servers
    /\ local.orphans \in Seq(Past \ cloud.servers)

\* With --delete, an orphan has no allocations and will not be looked at again,
\* but for the one that is about to be deleted.
NobodyTwice ==
    local.delete =>
        /\ Orphans!IsInjective(local.orphans)
        /\ \A i \in DOMAIN local.orphans :
              /\ local.orphans[i] \notin local.consumers
              /\ local.orphans[i] \in local.consumer \/ \A a \in cloud.held : a[2] # local.orphans[i]
        /\ local.pc # "delete" => local.consumer = {}

\* The one to delete is the last on the list.
LastIsDeleted ==
    local.pc = "delete" =>
        /\ local.delete /\ local.orphans # <<>>
        /\ local.consumer = {Orphans!Last(local.orphans)}

\* The types that the rest does not speak of.
OrphansTypes ==
    /\ cloud.held \subseteq (1 .. Providers) \X Orphans!Consumer \X Orphans!Class
    /\ local.pc \in {"read", "find", "delete", "end"} /\ local.rp \in Nat

OrphansCore == ConsumersKnown /\ OrphansListed /\ NobodyTwice /\ LastIsDeleted

OrphansInv == OrphansCore /\ OrphansTypes

LEMMA OrphansInit == Orphans!Init => OrphansInv
<1> SUFFICES ASSUME Orphans!Init PROVE OrphansInv
  OBVIOUS
<1>1. ConsumersKnown
  BY DEF Orphans!Init, ConsumersKnown, Past
<1>2. local.pc = "read" /\ local.consumers = {} /\ local.consumer = {} /\ local.orphans = <<>>
  BY DEF Orphans!Init
<1>3. OrphansListed
  BY <1>2 DEF Orphans!Init, OrphansListed
<1>4. NobodyTwice /\ LastIsDeleted
  BY <1>2 DEF NobodyTwice, LastIsDeleted, Orphans!IsInjective
<1>5. OrphansTypes
  BY DEF Orphans!Init, OrphansTypes, Orphans!Consumer, Orphans!Class
<1> QED
  BY <1>1, <1>3, <1>4, <1>5 DEF OrphansInv, OrphansCore

-----------------------------------------------------------------------------
(* Steps of the cloud. *)

\* The cloud names to nobody what an orphan is: no server comes back, and no
\* consumer that is not a server is given anything.
OrphansStay ==
    /\ Past \ cloud.servers \subseteq Past' \ cloud.servers' /\ Past \subseteq Past'
    /\ \A a \in cloud.held' : a \in cloud.held \/ a[2] \notin Past \ cloud.servers

LEMMA CloudStep ==
    ASSUME ConsumersKnown, NEW s \in NovaServer, Orphans!Cloud(s) PROVE ConsumersKnown' /\ OrphansStay
<1> USE DEF ConsumersKnown, Past, OrphansStay
<1>1. CASE Orphans!Boot(s)
  BY <1>1, UniqueIds DEF Orphans!Boot
<1>2. CASE Orphans!Claim(s)
  <2>1. PICK p \in 1 .. Providers : cloud' = [cloud EXCEPT !.held = @ \cup {<<p, s, "std">>}]
    BY <1>2 DEF Orphans!Claim
  <2>2. s \in cloud.servers /\ <<p, s, "std">>[2] = s
    BY <1>2 DEF Orphans!Claim
  <2>3. /\ cloud'.servers = cloud.servers /\ cloud'.gone = cloud.gone
        /\ cloud'.moved = cloud.moved
        /\ \A a \in cloud'.held : a \in cloud.held \/ a[2] = s
        /\ cloud' = [servers |-> cloud'.servers, gone |-> cloud'.gone, moved |-> cloud'.moved,
                     held |-> cloud'.held]
    BY <2>1, <2>2
  <2> QED
    BY <2>2, <2>3
<1>3. CASE Orphans!Move(s)
  <2>1. PICK p \in 1 .. Providers, q \in 1 .. Providers :
          cloud' = [cloud EXCEPT !.moved = @ \cup {s},
                !.held = (@ \ {<<p, s, "std">>}) \cup {<<p, Migration[s], "std">>, <<q, s, "std">>}]
    BY <1>3 DEF Orphans!Move
  <2>2. s \in cloud.servers /\ s \notin cloud.moved
    BY <1>3 DEF Orphans!Move
  <2>3. /\ cloud'.servers = cloud.servers /\ cloud'.gone = cloud.gone
        /\ cloud'.moved = cloud.moved \cup {s}
        /\ \A a \in cloud'.held : a \in cloud.held \/ a[2] \in {s, Migration[s]}
        /\ cloud' = [servers |-> cloud'.servers, gone |-> cloud'.gone, moved |-> cloud'.moved,
                     held |-> cloud'.held]
    <3>1. <<p, Migration[s], "std">>[2] = Migration[s] /\ <<q, s, "std">>[2] = s
      OBVIOUS
    <3> QED
      BY <2>1, <3>1
  <2>4. Migration[s] \notin Past
    BY <2>2, UniqueIds
  <2> QED
    BY <2>2, <2>3, <2>4
<1>4. CASE Orphans!Moved(s)
  BY <1>4 DEF Orphans!Moved
<1>5. CASE Orphans!Vanish(s)
  BY <1>5 DEF Orphans!Vanish
<1>6. CASE Orphans!Free(s)
  BY <1>6 DEF Orphans!Free
<1> QED
  BY <1>1, <1>2, <1>3, <1>4, <1>5, <1>6 DEF Orphans!Cloud

LEMMA OrphansTypesStep == ASSUME OrphansInv, Orphans!Next PROVE OrphansTypes'
<1> DEFINE Triples == (1 .. Providers) \X Orphans!Consumer \X Orphans!Class
<1>1. /\ cloud.held \subseteq Triples /\ local.rp \in Nat
      /\ local.pc \in {"read", "find", "delete", "end"}
  BY DEF OrphansInv, OrphansTypes
<1>2. CASE Orphans!Read \/ Orphans!Find \/ Orphans!Delete \/ Orphans!NextProvider
  <2>1. local'.pc \in {"read", "find", "delete", "end"} /\ local'.rp \in {local.rp, local.rp + 1}
    BY <1>1, <1>2 DEF OrphansInv, OrphansCore, OrphansListed, Orphans!Read, Orphans!Find, Orphans!Delete,
                      Orphans!NextProvider
  <2>2. cloud'.held \subseteq cloud.held
    BY <1>2 DEF OrphansInv, OrphansCore, ConsumersKnown, Orphans!Read, Orphans!Find, Orphans!Delete,
                Orphans!NextProvider
  <2> QED
    BY <1>1, <2>1, <2>2 DEF OrphansTypes
<1>3. CASE (\E s \in NovaServer : Orphans!Cloud(s)) /\ UNCHANGED local
  <2>1. PICK s \in NovaServer : Orphans!Cloud(s)
    BY <1>3
  <2>2. s \in Orphans!Consumer /\ Migration[s] \in Orphans!Consumer /\ "std" \in Orphans!Class
    BY DEF Orphans!Consumer, Orphans!Class
  <2>3. \A p \in 1 .. Providers : <<p, s, "std">> \in Triples /\ <<p, Migration[s], "std">> \in Triples
    BY <2>2
  <2>4. cloud'.held \subseteq Triples
    <3> HIDE DEF Triples
    <3>1. CASE Orphans!Boot(s) \/ Orphans!Vanish(s) \/ Orphans!Moved(s) \/ Orphans!Free(s)
      BY <1>1, <3>1 DEF OrphansInv, OrphansCore, ConsumersKnown, Orphans!Boot, Orphans!Vanish, Orphans!Moved, Orphans!Free
    <3>2. CASE Orphans!Claim(s)
      <4>1. PICK p \in 1 .. Providers : cloud' = [cloud EXCEPT !.held = @ \cup {<<p, s, "std">>}]
        BY <3>2 DEF Orphans!Claim
      <4>2. cloud'.held = cloud.held \cup {<<p, s, "std">>}
        BY <4>1 DEF OrphansInv, OrphansCore, ConsumersKnown
      <4> QED
        BY <1>1, <2>3, <4>2
    <3>3. CASE Orphans!Move(s)
      <4>1. PICK p, q \in 1 .. Providers :
              cloud' = [cloud EXCEPT !.moved = @ \cup {s},
                          !.held = (@ \ {<<p, s, "std">>})
                                   \cup {<<p, Migration[s], "std">>, <<q, s, "std">>}]
        BY <3>3 DEF Orphans!Move
      <4>2. cloud'.held \subseteq cloud.held \cup {<<p, Migration[s], "std">>, <<q, s, "std">>}
        BY <4>1 DEF OrphansInv, OrphansCore, ConsumersKnown
      <4> QED
        BY <1>1, <2>3, <4>2
    <3> QED
      BY <2>1, <3>1, <3>2, <3>3 DEF Orphans!Cloud
  <2> QED
    BY <1>1, <1>3, <2>4 DEF OrphansTypes
<1> QED
  BY <1>2, <1>3 DEF Orphans!Next

\* A step of the cloud leaves the script's lists as they are.
LEMMA OrphansCloudStep ==
    ASSUME OrphansCore, NEW s \in NovaServer, Orphans!Cloud(s), UNCHANGED local PROVE OrphansCore'
<1>1. ConsumersKnown' /\ OrphansStay
  BY CloudStep DEF OrphansCore
<1>2. OrphansListed'
  <2>1. local.orphans \in Seq(Past' \ cloud.servers')
    BY <1>1 DEF OrphansCore, OrphansListed, OrphansStay
  <2> QED
    BY <1>1, <2>1 DEF OrphansCore, OrphansListed, OrphansStay
<1>3. NobodyTwice'
  <2>1. \A i \in DOMAIN local.orphans : local.orphans[i] \in Past \ cloud.servers
    BY DEF OrphansCore, OrphansListed
  <2> QED
    BY <1>1, <2>1 DEF OrphansCore, NobodyTwice, OrphansStay
<1>4. LastIsDeleted'
  BY DEF OrphansCore, LastIsDeleted
<1> QED
  BY <1>1, <1>2, <1>3, <1>4 DEF OrphansCore

-----------------------------------------------------------------------------
(* Steps of the script. *)

LEMMA OrphansRead == ASSUME OrphansCore, Orphans!Read PROVE OrphansCore'
<1> USE DEF OrphansCore, Orphans!Read
<1> DEFINE found == {c \in Orphans!Consumer : <<local.rp, c, "std">> \in cloud.held
                                    /\ <<local.rp, c, "custom">> \notin cloud.held}
<1>1. local.pc = "read" /\ UNCHANGED cloud
  OBVIOUS
<1>2. /\ local'.delete = local.delete /\ local'.consumer = local.consumer
      /\ local'.orphans = local.orphans /\ local'.pc \in {"find", "end"}
      /\ local'.consumers \in {local.consumers, found}
      /\ local' = [delete |-> local'.delete, pc |-> local'.pc, rp |-> local'.rp,
                   consumers |-> local'.consumers, consumer |-> local'.consumer,
                   orphans |-> local'.orphans]
  BY DEF OrphansListed
<1>3. \A c \in found : \E a \in cloud.held : a[2] = c
  OBVIOUS
<1> HIDE DEF found
<1>4. found \subseteq Past
  BY <1>3 DEF ConsumersKnown
<1>5. ConsumersKnown' /\ Past' = Past
  BY <1>1 DEF ConsumersKnown, Past
<1>6. OrphansListed'
  BY <1>1, <1>2, <1>4, <1>5 DEF OrphansListed
<1>7. NobodyTwice'
  <2> SUFFICES ASSUME local.delete
               PROVE  \A i \in DOMAIN local.orphans : local.orphans[i] \notin local'.consumers
    BY <1>1, <1>2 DEF NobodyTwice
  <2>1. \A i \in DOMAIN local.orphans :
           /\ local.orphans[i] \notin local.consumers
           /\ \A a \in cloud.held : a[2] # local.orphans[i]
    BY <1>1 DEF NobodyTwice
  <2>2. \A i \in DOMAIN local.orphans : local.orphans[i] \notin found
    BY <1>3, <2>1
  <2>3. local'.consumers = local.consumers \/ local'.consumers = found
    BY <1>2
  <2> QED
    BY <2>1, <2>2, <2>3
<1>8. LastIsDeleted'
  BY <1>2 DEF LastIsDeleted
<1> QED
  BY <1>5, <1>6, <1>7, <1>8

\* What the list of orphans is with one more.
LEMMA Orphaned ==
    ASSUME NEW S, NEW l \in Seq(S), NEW c \in S
    PROVE  /\ Append(l, c) \in Seq(S) /\ Append(l, c) # <<>> /\ Orphans!Last(Append(l, c)) = c
           /\ DOMAIN Append(l, c) = DOMAIN l \cup {Len(l) + 1} /\ Len(l) + 1 \notin DOMAIN l
           /\ Append(l, c)[Len(l) + 1] = c
           /\ \A i \in DOMAIN l : Append(l, c)[i] = l[i]
<1>1. Len(l) \in Nat /\ DOMAIN l = 1 .. Len(l)
  OBVIOUS
<1>2. /\ Append(l, c) \in Seq(S) /\ Append(l, c) # <<>> /\ Len(Append(l, c)) = Len(l) + 1
      /\ Append(l, c)[Len(l) + 1] = c
      /\ \A i \in 1 .. Len(l) : Append(l, c)[i] = l[i]
  BY AppendProperties
<1>3. DOMAIN Append(l, c) = 1 .. Len(l) + 1
  BY <1>1, <1>2
<1> QED
  BY <1>1, <1>2, <1>3 DEF Orphans!Last

LEMMA OrphansFind == ASSUME OrphansCore, Orphans!Find PROVE OrphansCore'
<1> USE DEF OrphansCore
<1>1. PICK c \in local.consumers :
        local' = IF c \in cloud.servers THEN [local EXCEPT !.consumers = @ \ {c}]
                 ELSE [local EXCEPT !.consumers = @ \ {c}, !.consumer = {c},
                                    !.orphans = Append(@, c),
                                    !.pc = IF local.delete THEN "delete" ELSE "find"]
  BY DEF Orphans!Find
<1>2. local.pc = "find" /\ UNCHANGED cloud
  BY DEF Orphans!Find
<1>3. ConsumersKnown' /\ Past' = Past
  BY <1>2 DEF ConsumersKnown, Past
<1>4. CASE c \in cloud.servers
  <2>1. /\ local' = [local EXCEPT !.consumers = @ \ {c}]
        /\ local'.consumers \subseteq local.consumers /\ local'.delete = local.delete
        /\ local'.consumer = local.consumer /\ local'.orphans = local.orphans
        /\ local'.pc = local.pc
    BY <1>1, <1>4 DEF OrphansListed
  <2>2. OrphansListed'
    BY <1>2, <1>3, <2>1 DEF OrphansListed
  <2> QED
    BY <1>2, <1>3, <2>1, <2>2 DEF NobodyTwice, LastIsDeleted
<1>5. CASE c \notin cloud.servers
  <2>1. /\ local'.consumers = local.consumers \ {c} /\ local'.delete = local.delete
        /\ local'.consumer = {c} /\ local'.orphans = Append(local.orphans, c)
        /\ local'.pc = IF local.delete THEN "delete" ELSE "find"
        /\ local' = [delete |-> local'.delete, pc |-> local'.pc, rp |-> local'.rp,
                     consumers |-> local'.consumers, consumer |-> local'.consumer,
                     orphans |-> local'.orphans]
    BY <1>1, <1>5 DEF OrphansListed
  <2>2. c \in Past \ cloud.servers /\ local.orphans \in Seq(Past \ cloud.servers)
    BY <1>5 DEF OrphansListed
  <2>3. OrphansListed'
    BY <1>2, <1>3, <2>1, <2>2, Orphaned DEF OrphansListed
  <2>4. NobodyTwice'
    <3> SUFFICES ASSUME local.delete
                 PROVE  /\ Orphans!IsInjective(local'.orphans)
                        /\ \A i \in DOMAIN local'.orphans :
                              /\ local'.orphans[i] \notin local'.consumers
                              /\ \/ local'.orphans[i] \in local'.consumer
                                 \/ \A a \in cloud.held : a[2] # local'.orphans[i]
      BY <1>2, <2>1 DEF NobodyTwice
    <3>1. \A i \in DOMAIN local.orphans :
             /\ local.orphans[i] # c /\ local.orphans[i] \notin local.consumers
             /\ \A a \in cloud.held : a[2] # local.orphans[i]
      BY <1>2 DEF NobodyTwice
    <3>2. /\ DOMAIN local'.orphans = DOMAIN local.orphans \cup {Len(local.orphans) + 1}
          /\ local'.orphans[Len(local.orphans) + 1] = c
          /\ \A i \in DOMAIN local.orphans : local'.orphans[i] = local.orphans[i]
      BY <2>1, <2>2, Orphaned
    <3>3. Orphans!IsInjective(local'.orphans)
      BY <3>1, <3>2 DEF NobodyTwice, Orphans!IsInjective
    <3> QED
      BY <2>1, <3>1, <3>2, <3>3
  <2>5. LastIsDeleted'
    BY <2>1, <2>2, Orphaned DEF LastIsDeleted
  <2> QED
    BY <1>3, <2>3, <2>4, <2>5
<1> QED
  BY <1>4, <1>5

LEMMA OrphansDelete == ASSUME OrphansCore, Orphans!Delete PROVE OrphansCore'
<1> USE DEF OrphansCore
<1> DEFINE l == local.orphans
<1>1. /\ local.pc = "delete" /\ local.delete /\ l # <<>> /\ local.consumer = {Orphans!Last(l)}
      /\ l \in Seq(Past \ cloud.servers) /\ Orphans!IsInjective(l)
      /\ \A i \in DOMAIN l : /\ l[i] \notin local.consumers
                             /\ l[i] = Orphans!Last(l) \/ \A a \in cloud.held : a[2] # l[i]
  BY DEF Orphans!Delete, LastIsDeleted, OrphansListed, NobodyTwice
<1>2. CASE /\ cloud' = [cloud EXCEPT !.held = {a \in @ : a[2] \notin local.consumer}]
           /\ local' = [local EXCEPT !.pc = "find", !.consumer = {}]
  <2>1. ConsumersKnown' /\ Past' = Past /\ cloud'.servers = cloud.servers
    BY <1>2 DEF ConsumersKnown, Past
  <2>2. \A a \in cloud'.held : a \in cloud.held /\ a[2] # Orphans!Last(l)
    BY <1>1, <1>2 DEF ConsumersKnown
  <2>3. /\ local'.pc = "find" /\ local'.consumer = {} /\ local'.orphans = l
        /\ local'.consumers = local.consumers /\ local'.delete = local.delete
    BY <1>2 DEF OrphansListed
  <2>4. OrphansListed'
    BY <1>2, <2>1, <2>3 DEF OrphansListed
  <2> QED
    BY <1>1, <2>1, <2>2, <2>3, <2>4 DEF NobodyTwice, LastIsDeleted
<1>3. CASE /\ local' = [local EXCEPT !.pc = "find", !.consumer = {}, !.orphans = Orphans!Front(@)]
           /\ UNCHANGED cloud
  <2>1. ConsumersKnown' /\ Past' = Past
    BY <1>3 DEF ConsumersKnown, Past
  <2>2. /\ Orphans!Front(l) \in Seq(Past \ cloud.servers)
        /\ \A i \in DOMAIN Orphans!Front(l) : i \in DOMAIN l /\ Orphans!Front(l)[i] = l[i] /\ l[i] # Orphans!Last(l)
    <3>1. Len(l) \in Nat \ {0} /\ DOMAIN l = 1 .. Len(l)
      BY <1>1
    <3>2. /\ Orphans!Front(l) \in Seq(Past \ cloud.servers) /\ Len(Orphans!Front(l)) = Len(l) - 1
          /\ \A i \in 1 .. Len(l) - 1 : Orphans!Front(l)[i] = l[i]
      BY <1>1, <3>1 DEF Orphans!Front
    <3>3. \A i \in 1 .. Len(l) - 1 : l[i] # l[Len(l)]
      BY <1>1, <3>1 DEF Orphans!IsInjective
    <3> QED
      BY <3>1, <3>2, <3>3 DEF Orphans!Last
  <2>3. /\ local'.pc = "find" /\ local'.consumer = {} /\ local'.orphans = Orphans!Front(l)
        /\ local'.consumers = local.consumers /\ local'.delete = local.delete
    BY <1>3 DEF OrphansListed
  <2>4. OrphansListed'
    BY <1>3, <2>1, <2>2, <2>3 DEF OrphansListed
  <2>5. Orphans!IsInjective(Orphans!Front(l))
    BY <1>1, <2>2 DEF Orphans!IsInjective
  <2> QED
    BY <1>1, <1>3, <2>1, <2>2, <2>3, <2>4, <2>5 DEF NobodyTwice, LastIsDeleted
<1> QED
  BY <1>2, <1>3 DEF Orphans!Delete

LEMMA OrphansNextProvider == ASSUME OrphansCore, Orphans!NextProvider PROVE OrphansCore'
<1> USE DEF OrphansCore, Orphans!NextProvider
<1>1. ConsumersKnown' /\ Past' = Past
  BY DEF ConsumersKnown, Past
<1>2. /\ local.pc = "find" /\ local'.pc = "read" /\ local'.consumer = local.consumer
      /\ local'.orphans = local.orphans /\ local'.consumers = local.consumers
      /\ local'.delete = local.delete /\ UNCHANGED cloud
  BY DEF OrphansListed
<1>3. OrphansListed'
  BY <1>1, <1>2 DEF OrphansListed
<1> QED
  BY <1>1, <1>2, <1>3 DEF NobodyTwice, LastIsDeleted

LEMMA OrphansStep == OrphansInv /\ [Orphans!Next]_(Orphans!vars) => OrphansInv'
<1> SUFFICES ASSUME OrphansInv, [Orphans!Next]_(Orphans!vars) PROVE OrphansInv'
  OBVIOUS
<1>1. CASE UNCHANGED Orphans!vars
  BY <1>1 DEF Orphans!vars, OrphansInv, OrphansCore, OrphansTypes, ConsumersKnown, OrphansListed, NobodyTwice, LastIsDeleted, Past
<1> QED
  BY <1>1, OrphansTypesStep, OrphansCloudStep, OrphansRead, OrphansFind, OrphansDelete, OrphansNextProvider
     DEF OrphansInv, Orphans!Next

\* Past the types of its record, what the invariant says of the orphans and of the
\* allocations is more than their types.
LEMMA OrphansTyped == OrphansInv => Orphans!TypeOK
<1> SUFFICES ASSUME OrphansInv PROVE Orphans!TypeOK
  OBVIOUS
<1>1. Past \subseteq Orphans!Consumer
  BY DEF OrphansInv, OrphansCore, OrphansTypes, ConsumersKnown, Past, Orphans!Consumer
<1>2. Seq(Past \ cloud.servers) \subseteq Seq(Orphans!Consumer)
  BY <1>1
<1>3. cloud \in [servers : SUBSET NovaServer, gone : SUBSET NovaServer, moved : SUBSET NovaServer,
                 held : SUBSET ((1 .. Providers) \X Orphans!Consumer \X Orphans!Class)]
  BY DEF OrphansInv, OrphansCore, OrphansTypes, ConsumersKnown
<1> QED
  BY <1>1, <1>2, <1>3 DEF OrphansInv, OrphansCore, OrphansTypes, OrphansListed, Orphans!TypeOK

\* orphan_allocations.py never reports a server that Nova knows nor deletes its
\* allocations, and reports nobody twice when it deletes, for any servers,
\* providers and moves.
THEOREM ServersAlwaysKeepAllocations == Spec => []ServersKeepAllocations
<1> DEFINE Inv == script = "orphans" => OrphansInv
<1>1. Init => Inv
  BY OrphansInit DEF Init
<1>2. Inv /\ [Next]_vars => Inv'
  BY OrphansStep, ScriptStep
<1>3. Inv => ServersKeepAllocations
  BY DEF OrphansInv, OrphansCore, OrphansTypes, OrphansListed, NobodyTwice, ServersKeepAllocations, Orphans!ServersKeepAllocations
<1> QED
  BY <1>1, <1>2, <1>3, PTL DEF Spec

-----------------------------------------------------------------------------
(* servers_vs_consumers.py.  A server that is left alone is as it was listed, and *)
(* has the allocations that were read; one whose allocations were gone when they  *)
(* were read was deleted before.                                                  *)

ConsumersCloud ==
    cloud \in [minor : Minor, bfv : BOOLEAN, swap : Swap, host : Host \cup {"none"},
               known : BOOLEAN, held : [Host -> Consumers!Allocation],
               phase : {"quiet", "booting", "moving", "deleted", "freed"}]

ConsumersLocal ==
    /\ local = [pc |-> local.pc, host |-> local.host, held |-> local.held, phase |-> local.phase,
                fails |-> local.fails]
    /\ local.pc \in {"list", "allocations", "find", "compare", "end"}
    /\ local.host \in Host \cup {"none"} /\ local.held \in [Host -> Consumers!Allocation]

ConsumersFails == local.fails \subseteq {<<"no allocations">>} \cup (Consumers!Kind \X Host)

\* There are no allocations.
NoneHeld(held) == \A h \in Host : held[h] = Consumers!Nothing

\* A server that is left alone is as it was listed.
Alone ==
    cloud.phase = "quiet" =>
        /\ cloud.known
        /\ local.pc # "list" => local.host = cloud.host
        /\ local.pc \in {"find", "compare", "end"} => local.held = cloud.held

\* Nova knows no server that was deleted.
Ended == cloud.phase \in {"deleted", "freed"} => ~cloud.known

\* Allocations that were gone when they were read are gone for good.
Freed ==
    /\ cloud.phase = "freed" => NoneHeld(cloud.held)
    /\ local.phase = "freed" => cloud.phase = "freed" /\ local.pc \in {"find", "end"}

\* The script compares allocations if there are any.
Branch ==
    /\ local.pc = "find" => NoneHeld(local.held)
    /\ local.pc = "compare" => ~NoneHeld(local.held)

ConsumersInv ==
    /\ ConsumersCloud /\ ConsumersLocal /\ ConsumersFails
    /\ Alone /\ Ended /\ Freed /\ Branch
    /\ Consumers!FailsExact

\* Digit by digit a minor version is taken to be up to 60 when it is, but for those
\* that are misread.
LEMMA SameVersions ==
    ASSUME NEW m \in Minor
    PROVE  Consumers!Misread(m) <=> ~(Consumers!AtMost60(m) <=> Consumers!Queens(m))
<1>1. m \in Seq(0 .. 9) /\ Len(m) > 0
  BY MinorAssumption
<1>2. /\ Len(m) = 1 \/ Len(m) = 2 \/ Len(m) > 2
      /\ m[1] \in 0 .. 9 /\ (Len(m) = 2 => m[2] \in 0 .. 9)
  <2>1. Len(m) \in Nat /\ Len(m) > 0
    BY <1>1
  <2>2. \A i \in 1 .. Len(m) : m[i] \in 0 .. 9
    BY <1>1
  <2>3. \A n \in Nat : n > 0 => 1 \in 1 .. n /\ (n = 1 \/ n = 2 \/ n > 2) /\ (n = 2 => 2 \in 1 .. n)
    OBVIOUS
  <2>4. Len(m) = 1 \/ Len(m) = 2 \/ Len(m) > 2
    BY <2>1, <2>3, Zenon
  <2> QED
    BY <2>1, <2>2, <2>3, <2>4
<1>3. CASE Len(m) = 1
  <2>1. m = <<m[1]>>
    BY <1>1, <1>3
  <2>2. (m = <<6>> <=> m[1] = 6) /\ m # <<6, 0>>
    BY <1>3, <2>1
  <2> QED
    BY <1>2, <1>3, <2>2 DEF Consumers!AtMost60, Consumers!Queens, Consumers!Misread
<1>4. CASE Len(m) = 2
  <2>1. m = <<m[1], m[2]>>
    BY <1>1, <1>4
  <2>2. m = <<6, 0>> <=> m[1] = 6 /\ m[2] = 0
    BY <2>1
  <2>3. m # <<6>>
    BY <1>4
  <2> QED
    BY <1>2, <1>4, <2>2, <2>3 DEF Consumers!AtMost60, Consumers!Queens, Consumers!Misread
<1>5. CASE Len(m) > 2
  <2>1. Len(m) \in Nat
    BY <1>1
  <2>2. Len(<<6>>) = 1 /\ Len(<<6, 0>>) = 2
    OBVIOUS
  <2>3. ~(Len(m) < 2) /\ Len(m) # 1 /\ Len(m) # 2
    <3>1. \A n \in Nat : n > 2 => ~(n < 2) /\ n # 1 /\ n # 2
      OBVIOUS
    <3> QED
      BY <1>5, <2>1, <3>1, Zenon
  <2>4. m # <<6>> /\ m # <<6, 0>>
    BY <2>2, <2>3, Zenon
  <2>5. Consumers!AtMost60(m) <=> m[1] < 6
    BY <2>4 DEF Consumers!AtMost60
  <2>6. ~Consumers!Queens(m)
    BY <2>3, Zenon DEF Consumers!Queens
  <2>7. Consumers!Misread(m) <=> m[1] < 6
    BY <1>5, <2>3, Zenon DEF Consumers!Misread
  <2> QED
    BY <2>5, <2>6, <2>7, Zenon
<1> QED
  BY <1>2, <1>3, <1>4, <1>5

\* Up to 1 MiB of swap are as many GiB, and any more are fewer.
LEMMA GigabytesBounded ==
    ASSUME NEW mb \in Nat
    PROVE  /\ Consumers!Gigabytes(mb) \in Nat
           /\ Consumers!Gigabytes(mb) = mb <=> mb <= 1
<1>1. (mb + 1023) \div 1024 \in Nat /\ ((mb + 1023) \div 1024 = mb <=> mb <= 1)
  BY SMT
<1> QED
  BY <1>1 DEF Consumers!Gigabytes

LEMMA DiskBounded ==
    ASSUME ConsumersCloud
    PROVE  Consumers!Disk \in 1 .. MaxDisk
<1>1. cloud.swap \in Nat /\ MaxDisk \in Nat /\ Consumers!Gigabytes(cloud.swap) + 2 <= MaxDisk
  BY SwapAssumption DEF ConsumersCloud, Consumers!Gigabytes
<1>2. Consumers!Gigabytes(cloud.swap) \in Nat
  BY <1>1, GigabytesBounded
<1> QED
  BY <1>1, <1>2 DEF Consumers!Disk, Consumers!Ephemeral, Consumers!Root

\* The script expects what Nova allocates where it misreads neither the swap nor the
\* version, and something else where it misreads one of them.
LEMMA SameDisk ==
    ASSUME ConsumersCloud
    PROVE  /\ ~Consumers!SwapMisread /\ ~Consumers!RootMisread => Consumers!Expected = Consumers!Disk
           /\ Consumers!SwapMisread # Consumers!RootMisread => Consumers!Expected # Consumers!Disk
<1> DEFINE counted == IF ~cloud.bfv \/ Consumers!AtMost60(cloud.minor) THEN 1 ELSE 0
           allocated == IF cloud.bfv /\ ~Consumers!Queens(cloud.minor) THEN 0 ELSE 1
           gb == Consumers!Gigabytes(cloud.swap)
<1>1. cloud.minor \in Minor /\ cloud.bfv \in BOOLEAN /\ cloud.swap \in Nat
  BY SwapAssumption DEF ConsumersCloud
<1>2. counted = allocated <=> ~Consumers!RootMisread
  BY <1>1, SameVersions DEF Consumers!RootMisread
<1>3. gb \in Nat /\ (gb = cloud.swap <=> ~Consumers!SwapMisread)
  BY <1>1, GigabytesBounded DEF Consumers!SwapMisread
<1>4. Consumers!Expected = cloud.swap + 1 + counted /\ Consumers!Disk = gb + 1 + allocated
  BY DEF Consumers!Expected, Consumers!Disk, Consumers!Ephemeral, Consumers!Root
<1>5. counted \in Nat /\ allocated \in Nat
  OBVIOUS
<1>6. Consumers!SwapMisread \in BOOLEAN /\ Consumers!RootMisread \in BOOLEAN
  BY <1>1 DEF Consumers!SwapMisread, Consumers!RootMisread, Consumers!Misread
<1> HIDE DEF counted, allocated, gb
<1>7. counted = allocated /\ gb = cloud.swap => Consumers!Expected = Consumers!Disk
  BY <1>4
<1>8. /\ counted = allocated /\ gb # cloud.swap => Consumers!Expected # Consumers!Disk
      /\ counted # allocated /\ gb = cloud.swap => Consumers!Expected # Consumers!Disk
  BY <1>1, <1>3, <1>4, <1>5
<1> QED
  BY <1>2, <1>3, <1>6, <1>7, <1>8, Zenon

\* What a comparison finds is what it says.
LEMMA WrongExactly ==
    ASSUME NEW h
    PROVE  /\ <<"no host", h>> \in Consumers!Wrong(h) <=> local.host = "none"
           /\ <<"other host", h>> \in Consumers!Wrong(h) <=> local.host \notin {"none", h}
           /\ <<"VCPU", h>> \in Consumers!Wrong(h) <=> local.held[h][1] # Consumers!Cpus
           /\ <<"DISK_GB", h>> \in Consumers!Wrong(h) <=> local.held[h][2] # Consumers!Expected
           /\ Consumers!Wrong(h) \subseteq Consumers!Kind \X {h}
<1>1. <<"no host", h>> \in Consumers!Wrong(h) <=> local.host = "none"
  BY DEF Consumers!Wrong, Consumers!Kind
<1>2. <<"other host", h>> \in Consumers!Wrong(h) <=> local.host \notin {"none", h}
  BY DEF Consumers!Wrong, Consumers!Kind
<1>3. <<"VCPU", h>> \in Consumers!Wrong(h) <=> local.held[h][1] # Consumers!Cpus
  BY DEF Consumers!Wrong, Consumers!Kind
<1>4. <<"DISK_GB", h>> \in Consumers!Wrong(h) <=> local.held[h][2] # Consumers!Expected
  BY DEF Consumers!Wrong, Consumers!Kind
<1>5. Consumers!Wrong(h) \subseteq Consumers!Kind \X {h}
  BY DEF Consumers!Wrong
<1> QED
  BY <1>1, <1>2, <1>3, <1>4, <1>5

\* What is done in the cloud leaves the script's variable alone.
LEMMA ConsumersCloudStep ==
    ASSUME ConsumersInv, Consumers!Boot \/ Consumers!Move \/ Consumers!Delete, UNCHANGED local
    PROVE  ConsumersInv'
<1>1. /\ ConsumersCloud'
      /\ cloud'.phase # "quiet" /\ cloud.phase # "freed"
      /\ cloud'.phase = "freed" => cloud.phase = "deleted" /\ NoneHeld(cloud'.held)
      /\ cloud'.phase = "deleted" => ~cloud'.known
      /\ cloud'.known \in {cloud.known, FALSE}
  <2>1. \A h \in Host : Consumers!On(h) \in [Host -> Consumers!Allocation]
    <3>1. <<Consumers!Cpus, Consumers!Disk>> \in Consumers!Allocation
      BY DiskBounded DEF ConsumersInv, Consumers!Cpus, Consumers!Allocation
    <3>2. Consumers!Nothing \in Consumers!Allocation
      BY DEF Consumers!Allocation
    <3> QED
      BY <3>1, <3>2 DEF Consumers!On
  <2>2. [h \in Host |-> Consumers!Nothing] \in [Host -> Consumers!Allocation]
    BY DEF Consumers!Allocation
  <2>3. CASE Consumers!Boot
    BY <2>1, <2>3 DEF Consumers!Boot, ConsumersInv, ConsumersCloud
  <2>4. CASE Consumers!Move
    <3>1. PICK h \in Host :
              \/ /\ cloud.phase = "quiet"
                 /\ cloud' = [cloud EXCEPT !.held = Consumers!On(h), !.phase = "moving"]
              \/ cloud.phase = "moving" /\ cloud' = [cloud EXCEPT !.host = h]
      BY <2>4 DEF Consumers!Move
    <3> QED
      BY <2>1, <3>1 DEF ConsumersInv, ConsumersCloud
  <2>5. CASE Consumers!Delete
    <3>1. CASE /\ cloud.phase = "quiet"
               /\ cloud' = [cloud EXCEPT !.known = FALSE, !.phase = "deleted"]
      BY <3>1 DEF ConsumersInv, ConsumersCloud
    <3>2. CASE /\ cloud.phase = "deleted"
               /\ cloud' = [cloud EXCEPT !.held = [h \in Host |-> Consumers!Nothing], !.phase = "freed"]
      <4>1. NoneHeld([h \in Host |-> Consumers!Nothing])
        BY DEF NoneHeld
      <4> QED
        BY <2>2, <3>2, <4>1 DEF ConsumersInv, ConsumersCloud
    <3> QED
      BY <2>5, <3>1, <3>2 DEF Consumers!Delete
  <2> QED
    BY <2>3, <2>4, <2>5
<1>2. ConsumersLocal' /\ ConsumersFails' /\ Branch'
  BY DEF ConsumersInv, ConsumersLocal, ConsumersFails, Branch, NoneHeld
<1>3. Alone' /\ Ended' /\ Freed'
  BY <1>1 DEF ConsumersInv, Alone, Ended, Freed
<1>4. Consumers!FailsExact'
  BY <1>1 DEF ConsumersInv, Freed, Consumers!FailsExact
<1> QED
  BY <1>1, <1>2, <1>3, <1>4 DEF ConsumersInv

LEMMA ConsumersStep == ConsumersInv /\ [Consumers!Next]_(Consumers!vars) => ConsumersInv'
<1> SUFFICES ASSUME ConsumersInv, [Consumers!Next]_(Consumers!vars) PROVE ConsumersInv'
  OBVIOUS
<1>0. local = [pc |-> local.pc, host |-> local.host, held |-> local.held, phase |-> local.phase,
               fails |-> local.fails]
  BY DEF ConsumersInv, ConsumersLocal
<1>1. CASE Consumers!List
  <2>1. /\ local.pc = "list" /\ cloud' = cloud
        /\ local' = [pc |-> "allocations", host |-> cloud.host, held |-> local.held,
                     phase |-> local.phase, fails |-> local.fails]
    BY <1>0, <1>1 DEF Consumers!List
  <2>2. ConsumersCloud' /\ ConsumersLocal' /\ ConsumersFails'
    BY <2>1 DEF ConsumersInv, ConsumersCloud, ConsumersLocal, ConsumersFails
  <2>3. Alone' /\ Ended' /\ Freed' /\ Branch'
    BY <2>1 DEF ConsumersInv, Alone, Ended, Freed, Branch, NoneHeld
  <2> QED
    BY <2>1, <2>2, <2>3 DEF ConsumersInv, Consumers!FailsExact
<1>2. CASE Consumers!Allocations
  <2>1. PICK label \in {"find", "compare"} :
            /\ local.pc = "allocations" /\ cloud' = cloud
            /\ label = "find" <=> NoneHeld(cloud.held)
            /\ local' = [pc |-> label, host |-> local.host, held |-> cloud.held,
                         phase |-> cloud.phase, fails |-> local.fails]
    BY <1>0, <1>2 DEF Consumers!Allocations, NoneHeld
  <2>2. ConsumersCloud' /\ ConsumersLocal' /\ ConsumersFails'
    BY <2>1 DEF ConsumersInv, ConsumersCloud, ConsumersLocal, ConsumersFails
  <2>3. Alone' /\ Ended' /\ Freed' /\ Branch'
    BY <2>1 DEF ConsumersInv, Alone, Ended, Freed, Branch
  <2> QED
    BY <2>1, <2>2, <2>3 DEF ConsumersInv, Consumers!FailsExact
<1>3. CASE Consumers!Find
  <2>1. PICK fails \in SUBSET {<<"no allocations">>} :
            /\ local.pc = "find" /\ cloud' = cloud
            /\ <<"no allocations">> \in fails <=> cloud.known /\ cloud.host # "none"
            /\ local' = [pc |-> "end", host |-> local.host, held |-> local.held,
                         phase |-> local.phase, fails |-> fails]
    <3>1. <<"no allocations">> \in {f \in {<<"no allocations">>} : cloud.known /\ cloud.host # "none"}
              <=> cloud.known /\ cloud.host # "none"
      OBVIOUS
    <3> QED
      BY <1>0, <1>3, <3>1 DEF Consumers!Find
  <2>2. ConsumersCloud' /\ ConsumersLocal' /\ ConsumersFails'
    BY <2>1 DEF ConsumersInv, ConsumersCloud, ConsumersLocal, ConsumersFails
  <2>3. Alone' /\ Ended' /\ Freed' /\ Branch'
    BY <2>1 DEF ConsumersInv, Alone, Ended, Freed, Branch
  <2>4. /\ cloud'.phase = "quiet" => NoneHeld(cloud.held) /\ cloud.known
        /\ local'.phase = "freed" => ~cloud.known
    BY <2>1 DEF ConsumersInv, Alone, Ended, Freed, Branch
  <2>5. Consumers!FailsExact'
    BY <2>1, <2>4 DEF NoneHeld, Consumers!Compared, Consumers!FailsExact
  <2> QED
    BY <2>2, <2>3, <2>5 DEF ConsumersInv
<1>4. CASE Consumers!Compare
  <2> DEFINE Held == {g \in Host : local.held[g] \notin {Consumers!Nothing, Consumers!Baremetal}}
             fails == UNION {Consumers!Wrong(h) : h \in Held}
  <2>1. /\ local.pc = "compare" /\ cloud' = cloud
        /\ local' = [pc |-> "end", host |-> local.host, held |-> local.held,
                     phase |-> local.phase, fails |-> fails]
    BY <1>0, <1>4 DEF Consumers!Compare
  <2> HIDE DEF fails
  <2>2. \A h \in Held, k \in Consumers!Kind : <<k, h>> \in fails <=> <<k, h>> \in Consumers!Wrong(h)
    <3>1. SUFFICES ASSUME NEW h \in Held, NEW k \in Consumers!Kind, NEW g \in Held,
                          <<k, h>> \in Consumers!Wrong(g)
                   PROVE  <<k, h>> \in Consumers!Wrong(h)
      BY DEF fails
    <3>2. <<k, h>> \in Consumers!Kind \X {g}
      BY <3>1, WrongExactly
    <3>3. h = g
      BY <3>2
    <3> QED
      BY <3>1, <3>3
  <2>3. fails \subseteq Consumers!Kind \X Host
    <3>1. \A h \in Held : Consumers!Wrong(h) \subseteq Consumers!Kind \X Host
      <4>1. SUFFICES ASSUME NEW h \in Held PROVE Consumers!Wrong(h) \subseteq Consumers!Kind \X Host
        OBVIOUS
      <4>2. Consumers!Wrong(h) \subseteq Consumers!Kind \X {h} /\ h \in Host
        BY WrongExactly
      <4> QED
        BY <4>2
    <3> QED
      BY <3>1 DEF fails
  <2>4. ConsumersCloud' /\ ConsumersLocal' /\ ConsumersFails'
    BY <2>1, <2>3 DEF ConsumersInv, ConsumersCloud, ConsumersLocal, ConsumersFails
  <2>5. Alone' /\ Ended' /\ Freed' /\ Branch'
    BY <2>1 DEF ConsumersInv, Alone, Ended, Freed, Branch
  <2>6. local.phase # "freed"
    BY <2>1 DEF ConsumersInv, Freed
  <2>7. ASSUME cloud.phase = "quiet"
        PROVE  /\ <<"no allocations">> \notin fails /\ ~NoneHeld(cloud.held)
               /\ local.held = cloud.held /\ local.host = cloud.host
    <3>1. <<"no allocations">> \notin Consumers!Kind \X Host
      <4>1. \A x, K, H : <<x>> \notin K \X H
        OBVIOUS
      <4> QED
        BY <4>1
    <3>2. ~NoneHeld(local.held) /\ local.held = cloud.held /\ local.host = cloud.host
      BY <2>1, <2>7 DEF ConsumersInv, Alone, Branch
    <3> QED
      BY <2>3, <3>1, <3>2
  <2>8. ASSUME cloud.phase = "quiet", NEW h \in Held
        PROVE  /\ {k \in {"no host", "other host"} : <<k, h>> \in fails} # {} <=> cloud.host # h
               /\ <<"VCPU", h>> \in fails <=> cloud.held[h][1] # Consumers!Cpus
               /\ <<"DISK_GB", h>> \in fails <=> cloud.held[h][2] # Consumers!Expected
    <3>1. h # "none"
      BY HostAssumption
    <3>2. {"no host", "other host", "VCPU", "DISK_GB"} \subseteq Consumers!Kind
      BY DEF Consumers!Kind
    <3>3. /\ <<"no host", h>> \in fails <=> cloud.host = "none"
          /\ <<"other host", h>> \in fails <=> cloud.host \notin {"none", h}
          /\ <<"VCPU", h>> \in fails <=> cloud.held[h][1] # Consumers!Cpus
          /\ <<"DISK_GB", h>> \in fails <=> cloud.held[h][2] # Consumers!Expected
      <4>1. local.held = cloud.held /\ local.host = cloud.host
        BY <2>7, <2>8
      <4>2. \A k \in {"no host", "other host", "VCPU", "DISK_GB"} :
                <<k, h>> \in fails <=> <<k, h>> \in Consumers!Wrong(h)
        BY <2>2, <3>2
      <4> QED
        BY <4>1, <4>2, WrongExactly
    <3>4. {k \in {"no host", "other host"} : <<k, h>> \in fails} # {}
              <=> <<"no host", h>> \in fails \/ <<"other host", h>> \in fails
      OBVIOUS
    <3> QED
      BY <3>1, <3>3, <3>4
  <2>9. /\ ~Consumers!SwapMisread /\ ~Consumers!RootMisread => Consumers!Expected = Consumers!Disk
        /\ Consumers!SwapMisread # Consumers!RootMisread => Consumers!Expected # Consumers!Disk
    BY SameDisk DEF ConsumersInv
  <2>10. /\ Consumers!Disk' = Consumers!Disk
         /\ Consumers!SwapMisread' = Consumers!SwapMisread
         /\ Consumers!RootMisread' = Consumers!RootMisread
    BY <2>1 DEF Consumers!Disk, Consumers!SwapMisread, Consumers!RootMisread
  <2>11. Consumers!FailsExact'
    <3>1. cloud.phase = "quiet" => Consumers!Compared' = Held
      BY <2>1, <2>7 DEF Consumers!Compared
    <3> QED
      BY <2>1, <2>6, <2>7, <2>8, <2>9, <2>10, <3>1
         DEF Consumers!FailsExact, Consumers!ReportedDisk, NoneHeld
  <2> QED
    BY <2>4, <2>5, <2>11 DEF ConsumersInv
<1>5. CASE (Consumers!Boot \/ Consumers!Move \/ Consumers!Delete) /\ UNCHANGED local
  BY <1>5, ConsumersCloudStep
<1>6. CASE UNCHANGED Consumers!vars
  <2>1. cloud' = cloud /\ local' = local
    BY <1>6 DEF Consumers!vars
  <2>2. /\ Consumers!Disk' = Consumers!Disk
        /\ Consumers!SwapMisread' = Consumers!SwapMisread
        /\ Consumers!RootMisread' = Consumers!RootMisread
    BY <2>1 DEF Consumers!Disk, Consumers!SwapMisread, Consumers!RootMisread
  <2> QED
    BY <2>1, <2>2 DEF ConsumersInv, ConsumersCloud, ConsumersLocal, ConsumersFails, Alone, Ended, Freed,
       Branch, NoneHeld, Consumers!FailsExact, Consumers!Compared, Consumers!ReportedDisk
<1> QED
  BY <1>1, <1>2, <1>3, <1>4, <1>5, <1>6 DEF Consumers!Next

LEMMA ConsumersInit == Consumers!Init => ConsumersInv
<1> SUFFICES ASSUME Consumers!Init PROVE ConsumersInv
  OBVIOUS
<1>1. local = [pc |-> "list", host |-> "none", held |-> [h \in Host |-> Consumers!Nothing],
               phase |-> "quiet", fails |-> {}]
  BY DEF Consumers!Init
<1>2. ConsumersCloud /\ cloud.phase = "quiet" /\ cloud.known
  BY DEF Consumers!Init, ConsumersCloud
<1>3. ConsumersLocal /\ ConsumersFails
  BY <1>1 DEF ConsumersLocal, ConsumersFails, Consumers!Allocation
<1> QED
  BY <1>1, <1>2, <1>3 DEF ConsumersInv, Alone, Ended, Freed, Branch, Consumers!FailsExact

LEMMA ConsumersTyped == ConsumersInv => Consumers!TypeOK
  BY DEF ConsumersInv, ConsumersCloud, ConsumersLocal, ConsumersFails, Consumers!TypeOK

\* What servers_vs_consumers.py reports of a server left alone is what is wrong with
\* it, and the disk that Nova allocates where it misreads either the swap or the
\* version; it reports nothing of one whose allocations went with it.
THEOREM AlwaysFailsExact == Spec => []FailsExact
<1> DEFINE Inv == script = "consumers" => ConsumersInv
<1>1. Init => Inv
  BY ConsumersInit DEF Init
<1>2. Inv /\ [Next]_vars => Inv'
  BY ConsumersStep, ScriptStep
<1>3. Inv => FailsExact
  BY DEF ConsumersInv, FailsExact
<1> QED
  BY <1>1, <1>2, <1>3, PTL DEF Spec
=============================================================================
