---------------------------- MODULE OvnLock_proofs ----------------------------
(***************************************************************************)
(* Proofs about OvnLock, for any clients, looks and lost connections.  The *)
(* argument is one of bookkeeping across the wire: what a client has asked *)
(* for and not yet been answered (Requests) tells whether it stands in the *)
(* queue of the server, and an answer that grants the lock is on its way,  *)
(* or was received, only as long as the client is the owner (Granted).     *)
(***************************************************************************)
EXTENDS OvnLock, TLAPS

\* A client wants the lock from its __enter__ to its __exit__.
Wanting == \A c \in Client : wants[c] <=> pc[c] \in {"check", "block", "raised"}

\* Who does not want the lock has been told nothing about it: the assertions
\* of __exit__ rest on this.
Idle == \A c \in Client : ~wants[c] => ~hasLock[c] /\ ~contended[c]

\* No client waits twice.
OneWaiter == \A i, j \in DOMAIN queue : queue[i] = queue[j] => i = j

\* What is on the wire, and whether the client waits at the server.
Silent(c) == req[c] = <<>> /\ rsp[c] = <<>> /\ ~Waits(c)
Asking(c) == req[c] = <<"lock">> /\ rsp[c] = <<>> /\ ~Waits(c) /\ ~hasLock[c]
Leaving(c) == \/ req[c] = <<"lock", "unlock">> /\ ~Waits(c)
              \/ req[c] = <<"unlock">> /\ Waits(c)
              \/ req[c] = <<>> /\ ~Waits(c)
Requests ==
    \A c \in Client :
        /\ link[c] # "up" \/ pc[c] = "start" => Silent(c)
        /\ link[c] = "up" /\ wants[c] => Asking(c) \/ (req[c] = <<>> /\ Waits(c))
        /\ link[c] = "up" /\ ~wants[c] => Leaving(c)

Told(c) == hasLock[c] \/ \E i \in DOMAIN rsp[c] : rsp[c][i] # "contended"
Granted == \A c \in Client : link[c] = "up" /\ wants[c] /\ Told(c) => Owner(c)

\* Only a client that has been in its block is counted as one that lost it.
Fresh == \A c \in Client : pc[c] \in {"start", "check"} => c \notin lost

Inv == /\ TypeOK /\ Wanting /\ Idle /\ OneWaiter /\ Requests
       /\ Granted /\ Fresh /\ OwnerUnlessLost

-----------------------------------------------------------------------------
(* The queue of the server. *)

LEMMA PlaceIs ==
    ASSUME TypeOK, OneWaiter, NEW c \in Client, NEW i \in DOMAIN queue, queue[i] = c
    PROVE  Place(c) = i
BY DEF Place, OneWaiter

\* Without(c) takes c out and keeps the others in their order.
LEMMA WithoutIs ==
    ASSUME TypeOK, OneWaiter, NEW c \in Client
    PROVE  /\ Without(c) \in Seq(Client)
           /\ \A d : (\E i \in DOMAIN Without(c) : Without(c)[i] = d) <=> d # c /\ Waits(d)
           /\ \A i, j \in DOMAIN Without(c) : Without(c)[i] = Without(c)[j] => i = j
           /\ \A d : d # c /\ Owner(d) => Without(c) # <<>> /\ Head(Without(c)) = d
<1>0. queue \in Seq(Client) /\ DOMAIN queue = 1 .. Len(queue) /\ Len(queue) \in Nat
  BY DEF TypeOK
<1>1. CASE ~Waits(c)
  BY <1>0, <1>1 DEF Without, Waits, OneWaiter, Owner
<1>2. CASE Waits(c)
  <2>1. PICK k \in 1 .. Len(queue) : queue[k] = c
    BY <1>0, <1>2 DEF Waits
  <2>2. Place(c) = k
    BY <1>0, <2>1, PlaceIs
  <2>3. Without(c) = [i \in 1 .. Len(queue) - 1 |-> queue[IF i < k THEN i ELSE i + 1]]
    BY <1>2, <2>2 DEF Without
  <2>4. /\ \A i \in 1 .. Len(queue) - 1 : (IF i < k THEN i ELSE i + 1) \in 1 .. Len(queue)
        /\ Len(queue) - 1 \in Nat
    BY <1>0, <2>1
  <2>5. Without(c) \in Seq(Client) /\ Len(Without(c)) = Len(queue) - 1
    <3>1. Without(c) \in [1 .. Len(queue) - 1 -> Client]
      BY <1>0, <2>3, <2>4
    <3> QED
      BY <2>4, <3>1
  <2>6. \A d : (\E i \in DOMAIN Without(c) : Without(c)[i] = d) <=> d # c /\ Waits(d)
    <3>1. ASSUME NEW i \in DOMAIN Without(c)
          PROVE  Without(c)[i] # c /\ Waits(Without(c)[i])
      BY <1>0, <2>1, <2>3, <2>4, <3>1 DEF OneWaiter, Waits
    <3>2. ASSUME NEW d, d # c, Waits(d)
          PROVE  \E i \in DOMAIN Without(c) : Without(c)[i] = d
      <4>1. PICK j \in 1 .. Len(queue) : queue[j] = d
        BY <1>0, <3>2 DEF Waits
      <4>2. j < k \/ j > k
        BY <1>0, <2>1, <3>2, <4>1
      <4>3. CASE j < k
        <5>1. j \in 1 .. Len(queue) - 1
          BY <1>0, <2>1, <4>1, <4>3
        <5> QED
          BY <2>3, <4>1, <4>3, <5>1
      <4>4. CASE j > k
        <5>1. j - 1 \in 1 .. Len(queue) - 1 /\ ~(j - 1 < k) /\ (j - 1) + 1 = j
          BY <1>0, <2>1, <4>1, <4>4
        <5> QED
          BY <2>3, <4>1, <5>1
      <4> QED
        BY <4>2, <4>3, <4>4
    <3> QED
      BY <3>1, <3>2
  <2>7. \A i, j \in DOMAIN Without(c) : Without(c)[i] = Without(c)[j] => i = j
    <3> SUFFICES ASSUME NEW i \in 1 .. Len(queue) - 1, NEW j \in 1 .. Len(queue) - 1,
                        Without(c)[i] = Without(c)[j]
                 PROVE  i = j
      BY <2>3
    <3>1. (IF i < k THEN i ELSE i + 1) = (IF j < k THEN j ELSE j + 1)
      BY <1>0, <2>3, <2>4 DEF OneWaiter
    <3> QED
      BY <1>0, <2>1, <3>1
  <2>8. ASSUME NEW d, d # c, Owner(d)
        PROVE  Without(c) # <<>> /\ Head(Without(c)) = d
    <3>1. queue[1] = d /\ Len(queue) > 0
      BY <1>0, <2>8 DEF Owner
    <3>2. 1 < k
      BY <1>0, <2>1, <2>8, <3>1
    <3>3. Len(Without(c)) > 0 /\ Without(c)[1] = d
      BY <1>0, <2>1, <2>3, <2>5, <3>1, <3>2
    <3> QED
      BY <2>5, <3>3
  <2> QED
    BY <2>5, <2>6, <2>7, <2>8
<1> QED
  BY <1>1, <1>2

\* Who is told that it has the lock is the next owner.
LEMMA NotifiedIs ==
    ASSUME TypeOK, OneWaiter, NEW c \in Client
    PROVE  /\ Notified(c, rsp) \in [Client -> Seq({"locked", "contended", "notify"})]
           /\ \A d \in Client :
                 \/ Notified(c, rsp)[d] = rsp[d]
                 \/ /\ Without(c) # <<>> /\ d = Head(Without(c))
                    /\ Notified(c, rsp)[d] = Append(rsp[d], "notify")
<1>1. CASE ~(Owner(c) /\ Without(c) # <<>>)
  BY <1>1 DEF Notified, TypeOK
<1>2. CASE Owner(c) /\ Without(c) # <<>>
  <2>1. Head(Without(c)) \in Client
    BY <1>2, WithoutIs
  <2> QED
    BY <1>2, <2>1 DEF Notified, TypeOK
<1> QED
  BY <1>1, <1>2

-----------------------------------------------------------------------------
(* The wire. *)

Op == {"lock", "unlock"}
Answer == {"locked", "contended", "notify"}

LEMMA Wire ==
    /\ Append(<<>>, "lock") = <<"lock">>
    /\ Append(<<>>, "unlock") = <<"unlock">>
    /\ Append(<<"lock">>, "unlock") = <<"lock", "unlock">>
    /\ Tail(<<"lock">>) = <<>> /\ Head(<<"lock">>) = "lock"
    /\ Tail(<<"unlock">>) = <<>> /\ Head(<<"unlock">>) = "unlock"
    /\ Tail(<<"lock", "unlock">>) = <<"unlock">> /\ Head(<<"lock", "unlock">>) = "lock"
    /\ <<"lock">> # <<>> /\ <<"unlock">> # <<>> /\ <<"lock", "unlock">> # <<>>
    /\ <<"lock">> # <<"unlock">> /\ "lock" # "unlock"
<1>1. Append(<<"lock">>, "unlock") = <<"lock", "unlock">>
  <2> DEFINE s == Append(<<"lock">>, "unlock")
  <2>1. <<"lock">> \in Seq(Op)
    BY DEF Op
  <2>2. Len(<<"lock">>) = 1
    OBVIOUS
  <2>3. <<"lock">>[1] = "lock"
    OBVIOUS
  <2>4. s \in Seq(Op) /\ Len(s) = 2 /\ s[1] = "lock" /\ s[2] = "unlock"
    BY <2>1, <2>2, <2>3 DEF Op
  <2>5. <<"lock", "unlock">> \in Seq(Op)
    BY DEF Op
  <2>6. Len(<<"lock", "unlock">>) = 2
    OBVIOUS
  <2>7. <<"lock", "unlock">>[1] = "lock" /\ <<"lock", "unlock">>[2] = "unlock"
    OBVIOUS
  <2> HIDE DEF s
  <2>8. \A i \in 1 .. 2 : s[i] = <<"lock", "unlock">>[i]
    BY <2>4, <2>7
  <2>9. s = <<"lock", "unlock">>
    BY <2>4, <2>5, <2>6, <2>8
  <2> QED
    BY <2>9 DEF s
<1>2. Append(<<>>, "lock") = <<"lock">> /\ Append(<<>>, "unlock") = <<"unlock">>
  OBVIOUS
<1>3. Tail(<<"lock">>) = <<>> /\ Tail(<<"unlock">>) = <<>>
  OBVIOUS
<1>4. Tail(<<"lock", "unlock">>) = <<"unlock">>
  OBVIOUS
<1>5. /\ Head(<<"lock">>) = "lock" /\ Head(<<"unlock">>) = "unlock"
      /\ Head(<<"lock", "unlock">>) = "lock"
  OBVIOUS
<1>6. /\ <<"lock">> # <<>> /\ <<"unlock">> # <<>> /\ <<"lock", "unlock">> # <<>>
      /\ <<"lock">> # <<"unlock">> /\ "lock" # "unlock"
  OBVIOUS
<1> QED
  BY <1>1, <1>2, <1>3, <1>4, <1>5, <1>6

LEMMA SendIs ==
    ASSUME TypeOK, NEW c \in Client, NEW op \in Op, Send(c, op)
    PROVE  /\ req' \in [Client -> Seq(Op)]
           /\ \A d \in Client :
                 req'[d] = IF d = c /\ link[c] = "up" THEN Append(req[c], op) ELSE req[d]
<1>1. Append(req[c], op) \in Seq(Op)
  BY DEF TypeOK, Op
<1> QED
  BY <1>1 DEF TypeOK, Op, Send

LEMMA TailIs ==
    ASSUME NEW S, NEW s \in Seq(S), s # <<>>
    PROVE  /\ Tail(s) \in Seq(S) /\ Head(s) \in S /\ Head(s) = s[1] /\ 1 \in DOMAIN s
           /\ \A i \in DOMAIN Tail(s) : i + 1 \in DOMAIN s /\ Tail(s)[i] = s[i + 1]
OBVIOUS

LEMMA AppendIs ==
    ASSUME NEW S, NEW s \in Seq(S), NEW e \in S
    PROVE  /\ Append(s, e) \in Seq(S) /\ Append(s, e) # <<>>
           /\ \A i \in DOMAIN Append(s, e) :
                 (i \in DOMAIN s /\ Append(s, e)[i] = s[i]) \/ Append(s, e)[i] = e
           /\ \A d : (\E i \in DOMAIN Append(s, e) : Append(s, e)[i] = d)
                    <=> d = e \/ \E i \in DOMAIN s : s[i] = d
           /\ s = <<>> => Head(Append(s, e)) = e
           /\ s # <<>> => Head(Append(s, e)) = Head(s)
<1> DEFINE t == Append(s, e)
<1>1. t \in Seq(S) /\ t # <<>> /\ Len(t) = Len(s) + 1 /\ Len(s) \in Nat
  OBVIOUS
<1>2. t[Len(s) + 1] = e /\ \A i \in 1 .. Len(s) : t[i] = s[i]
  OBVIOUS
<1>3. DOMAIN t = 1 .. Len(s) + 1 /\ DOMAIN s = 1 .. Len(s)
  OBVIOUS
<1>4. (s = <<>> => Head(t) = e) /\ (s # <<>> => Head(t) = Head(s))
  OBVIOUS
<1> HIDE DEF t
<1>5. \A i \in DOMAIN t : i \in DOMAIN s \/ i = Len(s) + 1
  BY <1>1, <1>3
<1>6. Len(s) + 1 \in DOMAIN t /\ \A i \in DOMAIN s : i \in DOMAIN t
  BY <1>1, <1>3
<1> QED
  BY <1>1, <1>2, <1>3, <1>4, <1>5, <1>6 DEF t

-----------------------------------------------------------------------------
(* Steps of the script and of the IDL, which leave the queue alone. *)

\* The parts of the invariant for one client.
WireOf(c) ==
    /\ link[c] # "up" \/ pc[c] = "start" => Silent(c)
    /\ link[c] = "up" /\ wants[c] => Asking(c) \/ (req[c] = <<>> /\ Waits(c))
    /\ link[c] = "up" /\ ~wants[c] => Leaving(c)

GrantOf(c) == link[c] = "up" /\ wants[c] /\ Told(c) => Owner(c)

LEMMA InitInv == Init => Inv
BY ChecksAssumption, DropsAssumption
   DEF Init, Inv, TypeOK, Label, Ended, Wanting, Idle, OneWaiter, Requests, Silent, Asking,
       Leaving, Waits, Granted, Told, Fresh, OwnerUnlessLost, InBlock

LEMMA EnterInv == ASSUME Inv, NEW c \in Client, Enter(c) PROVE Inv'
<1> USE DEF Inv, Enter
<1>0. "lock" \in Op
  BY DEF Op
<1>1. TypeOK'
  BY <1>0, SendIs DEF TypeOK, Op, Label, Goto
<1>2. Wanting' /\ Idle' /\ Fresh'
  BY DEF TypeOK, Wanting, Idle, Fresh, Goto
<1>3. OneWaiter'
  BY DEF OneWaiter
<1>4. Requests'
  <2>1. WireOf(c)'
    <3>1. req[c] = <<>> /\ rsp[c] = <<>> /\ ~Waits(c)
      BY DEF Requests, Silent
    <3>2. rsp'[c] = <<>> /\ ~Waits(c)' /\ hasLock'[c] = FALSE /\ wants'[c] /\ pc'[c] = "check"
      BY <3>1 DEF TypeOK, Waits, Goto
    <3>3. req'[c] = IF link[c] = "up" THEN <<"lock">> ELSE <<>>
      BY <1>0, <3>1, SendIs, Wire
    <3> QED
      BY <3>2, <3>3 DEF WireOf, Silent, Asking
  <2>2. ASSUME NEW d \in Client, d # c
        PROVE  WireOf(d)'
    <3>1. /\ req'[d] = req[d] /\ pc'[d] = pc[d] /\ wants'[d] = wants[d]
          /\ hasLock'[d] = hasLock[d]
      BY <1>0, <2>2, SendIs DEF TypeOK, Goto
    <3> QED
      BY <3>1 DEF Requests, WireOf, Silent, Asking, Leaving, Waits
  <2> QED
    BY <2>1, <2>2 DEF Requests, WireOf
<1>5. Granted'
  <2>1. ~Told(c)'
    BY DEF TypeOK, Requests, Silent, Told
  <2> QED
    BY <2>1 DEF TypeOK, Granted, Told, Owner
<1>6. OwnerUnlessLost'
  BY DEF TypeOK, OwnerUnlessLost, InBlock, Owner, Goto
<1> QED
  BY <1>1, <1>2, <1>3, <1>4, <1>5, <1>6

LEMMA CheckInv == ASSUME Inv, NEW c \in Client, Check(c) PROVE Inv'
<1> USE DEF Inv, Check
<1>1. TypeOK'
  <2>1. checks[c] + 1 \in 0 .. MaxChecks
    BY ChecksAssumption DEF TypeOK
  <2>2. checks' \in [Client -> 0 .. MaxChecks]
    BY <2>1 DEF TypeOK
  <2>3. pc' \in [Client -> Label] /\ lost' \subseteq Client
    BY DEF TypeOK, Label, Goto
  <2> QED
    BY <2>2, <2>3 DEF TypeOK
<1>2. Wanting' /\ Idle' /\ Fresh'
  BY DEF TypeOK, Wanting, Idle, Fresh, Goto
<1>3. OneWaiter'
  BY DEF OneWaiter
<1>4. Requests'
  BY DEF TypeOK, Wanting, Requests, Silent, Asking, Leaving, Waits, Goto
<1>5. Granted'
  BY DEF Granted, Told, Owner
<1>6. OwnerUnlessLost'
  BY DEF TypeOK, Wanting, Granted, Told, OwnerUnlessLost, InBlock, Owner, Goto
<1> QED
  BY <1>1, <1>2, <1>3, <1>4, <1>5, <1>6

LEMMA GiveUpInv == ASSUME Inv, NEW c \in Client, GiveUp(c) PROVE Inv'
<1> USE DEF Inv, GiveUp
<1>1. TypeOK'
  BY DEF TypeOK, Label, Ended, Goto
<1>2. Wanting' /\ Idle' /\ Fresh'
  BY DEF TypeOK, Wanting, Idle, Fresh, Goto
<1>3. OneWaiter'
  BY DEF OneWaiter
<1>4. Requests'
  BY DEF TypeOK, Requests, Silent, Asking, Leaving, Waits, Goto
<1>5. Granted' /\ OwnerUnlessLost'
  BY DEF TypeOK, Granted, Told, OwnerUnlessLost, InBlock, Owner, Goto
<1> QED
  BY <1>1, <1>2, <1>3, <1>4, <1>5

LEMMA LeaveInv == ASSUME Inv, NEW c \in Client, Leave(c) PROVE Inv'
<1> USE DEF Inv, Leave
<1>0. "unlock" \in Op
  BY DEF Op
<1>1. TypeOK'
  BY <1>0, SendIs DEF TypeOK, Op, Label, Goto
<1>2. Wanting' /\ Idle' /\ Fresh'
  BY DEF TypeOK, Wanting, Idle, Fresh, Goto
<1>3. OneWaiter'
  BY DEF OneWaiter
<1>4. Requests'
  <2>1. WireOf(c)'
    <3>1. wants[c] /\ ~wants'[c] /\ pc'[c] = "assert"
      BY DEF TypeOK, Wanting, Goto
    <3>2. CASE link[c] = "up"
      <4>1. \/ req[c] = <<"lock">> /\ ~Waits(c)
            \/ req[c] = <<>> /\ Waits(c)
        BY <3>1, <3>2 DEF Requests, Asking
      <4>2. \/ req'[c] = <<"lock", "unlock">> /\ ~Waits(c)'
            \/ req'[c] = <<"unlock">> /\ Waits(c)'
        BY <1>0, <3>2, <4>1, SendIs, Wire DEF Waits
      <4> QED
        BY <3>1, <3>2, <4>2 DEF WireOf, Leaving
    <3>3. CASE link[c] # "up"
      <4>1. Silent(c)'
        BY <1>0, <3>3, SendIs DEF Requests, Silent, Waits
      <4> QED
        BY <3>3, <4>1 DEF WireOf
    <3> QED
      BY <3>2, <3>3
  <2>2. ASSUME NEW d \in Client, d # c
        PROVE  WireOf(d)'
    <3>1. /\ req'[d] = req[d] /\ pc'[d] = pc[d] /\ wants'[d] = wants[d]
          /\ hasLock'[d] = hasLock[d]
      BY <1>0, <2>2, SendIs DEF TypeOK, Goto
    <3> QED
      BY <3>1 DEF Requests, WireOf, Silent, Asking, Leaving, Waits
  <2> QED
    BY <2>1, <2>2 DEF Requests, WireOf
<1>5. Granted' /\ OwnerUnlessLost'
  BY DEF TypeOK, Granted, Told, OwnerUnlessLost, InBlock, Owner, Goto
<1> QED
  BY <1>1, <1>2, <1>3, <1>4, <1>5

LEMMA ExitAssertsInv == ASSUME Inv, NEW c \in Client, ExitAsserts(c) PROVE Inv'
<1> USE DEF Inv, ExitAsserts
<1>1. TypeOK'
  BY DEF TypeOK, Label, Ended, Goto
<1>2. Wanting' /\ Idle' /\ Fresh'
  BY DEF TypeOK, Wanting, Idle, Fresh, Goto
<1>3. OneWaiter'
  BY DEF OneWaiter
<1>4. Requests'
  BY DEF TypeOK, Wanting, Requests, Silent, Asking, Leaving, Waits, Goto
<1>5. Granted' /\ OwnerUnlessLost'
  BY DEF TypeOK, Granted, Told, OwnerUnlessLost, InBlock, Owner, Goto
<1> QED
  BY <1>1, <1>2, <1>3, <1>4, <1>5

LEMMA ReceiveInv == ASSUME Inv, NEW c \in Client, Receive(c) PROVE Inv'
<1> USE DEF Inv, Receive
<1>0. /\ rsp[c] \in Seq(Answer) /\ Tail(rsp[c]) \in Seq(Answer) /\ Head(rsp[c]) = rsp[c][1]
      /\ rsp[c][1] \in Answer /\ 1 \in DOMAIN rsp[c]
      /\ \A i \in DOMAIN Tail(rsp[c]) : i + 1 \in DOMAIN rsp[c] /\ Tail(rsp[c])[i] = rsp[c][i + 1]
  <2>1. rsp[c] \in Seq(Answer)
    BY DEF TypeOK, Answer
  <2> QED
    BY <2>1, TailIs
<1>1. TypeOK'
  <2>1. rsp' \in [Client -> Seq(Answer)]
    BY <1>0 DEF TypeOK, Answer
  <2>2. hasLock' \in [Client -> BOOLEAN]
    <3> DEFINE b == Head(rsp[c]) \in {"locked", "notify"}
    <3>1. b \in BOOLEAN
      OBVIOUS
    <3>2. hasLock' = IF wants[c] THEN [hasLock EXCEPT ![c] = b] ELSE hasLock
      OBVIOUS
    <3> HIDE DEF b
    <3> QED
      BY <3>1, <3>2 DEF TypeOK
  <2>3. contended' \in [Client -> BOOLEAN]
    <3> DEFINE b == Head(rsp[c]) = "contended"
    <3>1. b \in BOOLEAN
      OBVIOUS
    <3>2. contended' = IF wants[c] THEN [contended EXCEPT ![c] = b] ELSE contended
      OBVIOUS
    <3> HIDE DEF b
    <3> QED
      BY <3>1, <3>2 DEF TypeOK
  <2> QED
    BY <2>1, <2>2, <2>3 DEF TypeOK, Answer
<1>2. Wanting' /\ Idle' /\ Fresh'
  BY DEF TypeOK, Wanting, Idle, Fresh
<1>3. OneWaiter'
  BY DEF OneWaiter
<1>4. Requests'
  <2> SUFFICES ASSUME NEW d \in Client
               PROVE  WireOf(d)'
    BY DEF Requests, WireOf
  <2>1. CASE d = c
    <3>1. link[c] = "up" /\ pc[c] # "start" /\ rsp[c] # <<>>
      BY DEF Requests, Silent
    <3> QED
      BY <2>1, <3>1 DEF Requests, WireOf, Asking, Leaving, Waits
  <2>2. CASE d # c
    <3>1. rsp'[d] = rsp[d] /\ hasLock'[d] = hasLock[d]
      BY <2>2 DEF TypeOK
    <3> QED
      BY <3>1 DEF Requests, WireOf, Silent, Asking, Leaving, Waits
  <2> QED
    BY <2>1, <2>2
<1>5. Granted'
  <2>1. ASSUME Told(c)', wants[c]
        PROVE  Told(c)
    BY <1>0, <2>1 DEF TypeOK, Told, Answer
  <2>2. ASSUME NEW d \in Client, d # c, Told(d)'
        PROVE  Told(d)
    BY <2>2 DEF TypeOK, Told
  <2> QED
    BY <2>1, <2>2 DEF Granted, Owner
<1>6. OwnerUnlessLost'
  BY DEF OwnerUnlessLost, InBlock, Owner
<1> QED
  BY <1>1, <1>2, <1>3, <1>4, <1>5, <1>6

LEMMA ReconnectInv == ASSUME Inv, NEW c \in Client, Reconnect(c) PROVE Inv'
<1> USE DEF Inv, Reconnect
<1>0. /\ req[c] = <<>> /\ rsp[c] = <<>> /\ ~Waits(c) /\ ~Waits(c)'
      /\ req'[c] = IF wants[c] THEN <<"lock">> ELSE <<>>
      /\ \A d \in Client : d # c => req'[d] = req[d]
  BY Wire DEF TypeOK, Requests, Silent, Waits
<1>1. TypeOK'
  <2>1. Append(req[c], "lock") \in Seq({"lock", "unlock"})
    BY DEF TypeOK
  <2> QED
    BY <2>1 DEF TypeOK
<1>2. Wanting' /\ Idle' /\ Fresh'
  BY DEF TypeOK, Wanting, Idle, Fresh
<1>3. OneWaiter'
  BY DEF OneWaiter
<1>4. Requests'
  <2> SUFFICES ASSUME NEW d \in Client
               PROVE  WireOf(d)'
    BY DEF Requests, WireOf
  <2>1. CASE d = c
    <3>1. link'[c] = "up" /\ ~hasLock'[c]
      BY DEF TypeOK
    <3>2. pc[c] = "start" => ~wants[c]
      BY DEF Wanting
    <3> QED
      BY <1>0, <2>1, <3>1, <3>2 DEF WireOf, Silent, Asking, Leaving
  <2>2. CASE d # c
    <3>1. link'[d] = link[d] /\ hasLock'[d] = hasLock[d]
      BY <2>2 DEF TypeOK
    <3> QED
      BY <1>0, <2>2, <3>1 DEF Requests, WireOf, Silent, Asking, Leaving, Waits
  <2> QED
    BY <2>1, <2>2
<1>5. Granted'
  <2>1. ~Told(c)'
    BY <1>0 DEF TypeOK, Told
  <2> QED
    BY <2>1 DEF TypeOK, Granted, Told, Owner
<1>6. OwnerUnlessLost'
  BY DEF OwnerUnlessLost, InBlock, Owner
<1> QED
  BY <1>1, <1>2, <1>3, <1>4, <1>5, <1>6

-----------------------------------------------------------------------------
(* Steps of the server and of the connections. *)

\* A request that reached the server was sent on a connection that is up.
LEMMA RequestIs ==
    ASSUME Inv, NEW c \in Client, req[c] # <<>>
    PROVE  /\ link[c] = "up" /\ pc[c] # "start"
           /\ \/ req[c] = <<"lock">> /\ ~Waits(c) /\ wants[c] /\ rsp[c] = <<>> /\ ~hasLock[c]
              \/ req[c] = <<"lock", "unlock">> /\ ~Waits(c) /\ ~wants[c]
              \/ req[c] = <<"unlock">> /\ Waits(c) /\ ~wants[c]
BY DEF Inv, TypeOK, Requests, Silent, Asking, Leaving

LEMMA ServerLocksInv == ASSUME Inv, NEW c \in Client, ServerLocks(c) PROVE Inv'
<1> USE DEF Inv, ServerLocks
<1> DEFINE answer == IF queue = <<>> THEN "locked" ELSE "contended"
<1>0. /\ link[c] = "up" /\ pc[c] # "start" /\ ~Waits(c)
      /\ \/ req'[c] = <<>> /\ wants[c] /\ rsp[c] = <<>> /\ ~hasLock[c]
         \/ req'[c] = <<"unlock">> /\ ~wants[c]
      /\ \A d \in Client : d # c => req'[d] = req[d] /\ rsp'[d] = rsp[d]
      /\ rsp'[c] = Append(rsp[c], answer)
  BY RequestIs, Wire DEF TypeOK
<1>1. /\ queue' \in Seq(Client) /\ queue' # <<>>
      /\ \A d : Waits(d)' <=> d = c \/ Waits(d)
      /\ queue = <<>> => Owner(c)'
      /\ \A d : Owner(d) => Owner(d)'
  <2>1. queue \in Seq(Client) /\ queue' = Append(queue, c)
    BY DEF TypeOK
  <2> QED
    BY <2>1, AppendIs DEF Waits, Owner
<1>2. TypeOK'
  <2>1. answer \in Answer /\ rsp[c] \in Seq(Answer)
    BY DEF TypeOK, Answer
  <2>2. rsp' \in [Client -> Seq(Answer)]
    <3>1. Append(rsp[c], answer) \in Seq(Answer)
      BY <2>1
    <3> QED
      BY <3>1 DEF TypeOK, Answer
  <2>3. req' \in [Client -> Seq(Op)]
    <3>1. req[c] \in Seq(Op)
      BY DEF TypeOK, Op
    <3>2. Tail(req[c]) \in Seq(Op)
      BY <3>1, TailIs
    <3> QED
      BY <3>2 DEF TypeOK, Op
  <2> QED
    BY <1>1, <2>2, <2>3 DEF TypeOK, Answer, Op
<1>3. Wanting' /\ Idle' /\ Fresh'
  BY DEF TypeOK, Wanting, Idle, Fresh
<1>4. OneWaiter'
  <2>1. queue \in Seq(Client) /\ queue' = Append(queue, c) /\ Len(queue) \in Nat
    BY DEF TypeOK
  <2>2. /\ DOMAIN queue' = 1 .. Len(queue) + 1 /\ DOMAIN queue = 1 .. Len(queue)
        /\ queue'[Len(queue) + 1] = c
        /\ \A i \in 1 .. Len(queue) : queue'[i] = queue[i]
    BY <2>1
  <2> SUFFICES ASSUME NEW i \in 1 .. Len(queue) + 1, NEW j \in 1 .. Len(queue) + 1,
                      queue'[i] = queue'[j]
               PROVE  i = j
    BY <2>2 DEF OneWaiter
  <2>3. CASE i \in 1 .. Len(queue) /\ j \in 1 .. Len(queue)
    BY <2>2, <2>3 DEF OneWaiter
  <2>4. CASE i \in 1 .. Len(queue) /\ j = Len(queue) + 1
    BY <1>0, <2>2, <2>4 DEF Waits
  <2>5. CASE i = Len(queue) + 1 /\ j \in 1 .. Len(queue)
    BY <1>0, <2>2, <2>5 DEF Waits
  <2> QED
    BY <2>1, <2>3, <2>4, <2>5
<1>5. Requests'
  <2> SUFFICES ASSUME NEW d \in Client
               PROVE  WireOf(d)'
    BY DEF Requests, WireOf
  <2>1. CASE d = c
    BY <1>0, <1>1, <2>1 DEF WireOf, Asking, Leaving
  <2>2. CASE d # c
    BY <1>0, <1>1, <2>2 DEF Requests, WireOf, Silent, Asking, Leaving
  <2> QED
    BY <2>1, <2>2
<1>6. Granted'
  <2>1. ASSUME wants[c], Told(c)'
        PROVE  Owner(c)'
    <3>1. \E i \in DOMAIN rsp'[c] : rsp'[c][i] # "contended"
      BY <1>0, <2>1 DEF Told
    <3>2. rsp'[c] = Append(<<>>, answer) /\ <<>> \in Seq(Answer) /\ answer \in Answer
      <4>1. <<>> \in Seq(Answer) /\ answer \in Answer
        BY DEF Answer
      <4>2. rsp[c] = <<>>
        BY <1>0, <2>1
      <4> QED
        BY <1>0, <4>1, <4>2
    <3>3. answer # "contended"
      <4> HIDE DEF answer
      <4>1. \A i \in DOMAIN Append(<<>>, answer) : Append(<<>>, answer)[i] = answer
        OBVIOUS
      <4> QED
        BY <3>1, <3>2, <4>1
    <3> QED
      BY <1>1, <3>3
  <2>2. ASSUME NEW d \in Client, d # c, Told(d)'
        PROVE  Told(d)
    BY <1>0, <2>2 DEF Told
  <2> QED
    BY <1>1, <2>1, <2>2 DEF Granted
<1>7. OwnerUnlessLost'
  BY <1>1 DEF OwnerUnlessLost, InBlock
<1> QED
  BY <1>2, <1>3, <1>4, <1>5, <1>6, <1>7

\* When c leaves the queue, what holds of every other client goes on holding:
\* who was the owner still is, and whoever becomes the owner is told of it.
LEMMA OthersKept ==
    ASSUME Inv, NEW c \in Client, NEW d \in Client, d # c,
           queue' = Without(c), rsp'[d] = Notified(c, rsp)[d],
           req'[d] = req[d], link'[d] = link[d], pc'[d] = pc[d],
           wants'[d] = wants[d], hasLock'[d] = hasLock[d]
    PROVE  WireOf(d)' /\ GrantOf(d)' /\ (Owner(d) => Owner(d)')
<1> USE DEF Inv
<1>1. Waits(d)' <=> Waits(d)
  <2>1. (\E i \in DOMAIN Without(c) : Without(c)[i] = d) <=> Waits(d)
    BY WithoutIs
  <2> QED
    BY <2>1 DEF Waits
<1>2. Owner(d) => Owner(d)'
  BY WithoutIs DEF Owner
<1>3. CASE rsp'[d] = rsp[d]
  BY <1>1, <1>2, <1>3
     DEF Requests, Granted, WireOf, GrantOf, Silent, Asking, Leaving, Told
<1>4. CASE rsp'[d] # rsp[d]
  <2>1. Without(c) # <<>> /\ d = Head(Without(c))
    BY <1>4, NotifiedIs
  <2>2. Owner(d)'
    BY <2>1 DEF Owner
  <2>3. Waits(d)'
    <3>1. Without(c) \in Seq(Client)
      BY WithoutIs
    <3>2. 1 \in DOMAIN queue' /\ queue'[1] = d
      BY <2>1, <3>1
    <3> QED
      BY <3>2 DEF Waits
  <2> QED
    BY <1>1, <2>2, <2>3 DEF Requests, WireOf, GrantOf, Silent, Asking, Leaving
<1> QED
  BY <1>3, <1>4

\* When a client leaves the queue, the queue and the rest of the state stay in
\* their types.
LEMMA RemovalType ==
    ASSUME Inv, NEW c \in Client, queue' = Without(c)
    PROVE  /\ queue' \in Seq(Client) /\ OneWaiter' /\ ~Waits(c)'
           /\ Notified(c, rsp) \in [Client -> Seq(Answer)]
           /\ [Notified(c, rsp) EXCEPT ![c] = <<>>] \in [Client -> Seq(Answer)]
           /\ [req EXCEPT ![c] = <<>>] \in [Client -> Seq(Op)]
           /\ \A d \in Client : d # c =>
                 [Notified(c, rsp) EXCEPT ![c] = <<>>][d] = Notified(c, rsp)[d]
<1> USE DEF Inv
<1>1. queue' \in Seq(Client) /\ OneWaiter' /\ ~Waits(c)'
  BY WithoutIs DEF OneWaiter, Waits
<1>2. Notified(c, rsp) \in [Client -> Seq(Answer)]
  BY NotifiedIs DEF Answer
<1>3. <<>> \in Seq(Answer) /\ <<>> \in Seq(Op)
  OBVIOUS
<1>4. [req EXCEPT ![c] = <<>>] \in [Client -> Seq(Op)]
  BY <1>3 DEF TypeOK, Op
<1> QED
  BY <1>1, <1>2, <1>3, <1>4

LEMMA ServerUnlocksInv == ASSUME Inv, NEW c \in Client, ServerUnlocks(c) PROVE Inv'
<1> USE DEF ServerUnlocks
<1>0. /\ link[c] = "up" /\ pc[c] # "start" /\ ~wants[c] /\ req'[c] = <<>>
      /\ \A d \in Client : d # c => req'[d] = req[d]
  BY RequestIs, Wire DEF Inv, TypeOK
<1>1. TypeOK' /\ OneWaiter'
  <2>1. req' \in [Client -> Seq(Op)]
    <3>1. Tail(req[c]) = <<>>
      BY <1>0 DEF Inv, TypeOK
    <3> QED
      BY <3>1, RemovalType
  <2> QED
    BY <2>1, RemovalType DEF Inv, TypeOK, Op, Answer
<1>2. Wanting' /\ Idle' /\ Fresh'
  BY DEF Inv, TypeOK, Wanting, Idle, Fresh
<1>3. \A d \in Client : d # c => WireOf(d)' /\ GrantOf(d)' /\ (Owner(d) => Owner(d)')
  BY <1>0, OthersKept
<1>4. WireOf(c)' /\ GrantOf(c)'
  BY <1>0, RemovalType DEF WireOf, GrantOf, Leaving
<1>5. pc[c] # "block"
  BY <1>0 DEF Inv, Wanting
<1>6. OwnerUnlessLost'
  BY <1>3, <1>5 DEF Inv, OwnerUnlessLost, InBlock
<1>7. Requests' /\ Granted'
  BY <1>3, <1>4 DEF Requests, Granted, WireOf, GrantOf
<1> QED
  BY <1>1, <1>2, <1>6, <1>7 DEF Inv

LEMMA QuitInv == ASSUME Inv, NEW c \in Client, Quit(c) PROVE Inv'
<1> USE DEF Quit
<1>1. TypeOK' /\ OneWaiter'
  BY RemovalType DEF Inv, TypeOK, Op, Answer
<1>2. Wanting' /\ Idle' /\ Fresh'
  BY DEF Inv, TypeOK, Wanting, Idle, Fresh
<1>3. \A d \in Client : d # c => WireOf(d)' /\ GrantOf(d)' /\ (Owner(d) => Owner(d)')
  BY RemovalType, OthersKept DEF Inv, TypeOK
<1>4. WireOf(c)' /\ GrantOf(c)'
  <2>1. link'[c] = "closed" /\ req'[c] = <<>> /\ rsp'[c] = <<>>
    BY RemovalType DEF Inv, TypeOK
  <2> QED
    BY <2>1, RemovalType DEF WireOf, GrantOf, Silent
<1>5. OwnerUnlessLost'
  BY <1>3 DEF Inv, OwnerUnlessLost, InBlock, Ended
<1>6. Requests' /\ Granted'
  BY <1>3, <1>4 DEF Requests, Granted, WireOf, GrantOf
<1> QED
  BY <1>1, <1>2, <1>5, <1>6 DEF Inv

LEMMA DropInv == ASSUME Inv, NEW c \in Client, Drop(c) PROVE Inv'
<1> USE DEF Drop
<1>1. TypeOK' /\ OneWaiter'
  <2>1. drops' \in 0 .. MaxDrops
    BY DropsAssumption DEF Inv, TypeOK
  <2> QED
    BY <2>1, RemovalType DEF Inv, TypeOK, Op, Answer
<1>2. Wanting' /\ Idle' /\ Fresh'
  BY DEF Inv, TypeOK, Wanting, Idle, Fresh
<1>3. \A d \in Client : d # c => WireOf(d)' /\ GrantOf(d)' /\ (Owner(d) => Owner(d)')
  BY RemovalType, OthersKept DEF Inv, TypeOK
<1>4. WireOf(c)' /\ GrantOf(c)'
  <2>1. link'[c] = "down" /\ req'[c] = <<>> /\ rsp'[c] = <<>>
    BY RemovalType DEF Inv, TypeOK
  <2> QED
    BY <2>1, RemovalType DEF WireOf, GrantOf, Silent
<1>5. OwnerUnlessLost'
  BY <1>3 DEF Inv, OwnerUnlessLost, InBlock
<1>6. Requests' /\ Granted'
  BY <1>3, <1>4 DEF Requests, Granted, WireOf, GrantOf
<1> QED
  BY <1>1, <1>2, <1>5, <1>6 DEF Inv

LEMMA NextInv == Inv /\ [Next]_vars => Inv'
<1> SUFFICES ASSUME Inv, [Next]_vars PROVE Inv'
  OBVIOUS
<1>1. CASE Next
  BY <1>1, EnterInv, CheckInv, GiveUpInv, LeaveInv, ExitAssertsInv, QuitInv, ReceiveInv,
     ReconnectInv, ServerLocksInv, ServerUnlocksInv, DropInv DEF Next
<1>2. CASE UNCHANGED vars
  BY <1>2 DEF vars, Inv, TypeOK, Wanting, Idle, OneWaiter, Requests, Silent, Asking, Leaving,
     Waits, Granted, Told, Owner, Fresh, OwnerUnlessLost, InBlock
<1> QED
  BY <1>1, <1>2

LEMMA InvAlways == Spec => []Inv
<1>1. Init => Inv
  BY InitInv
<1>2. Inv /\ [Next]_vars => Inv'
  BY NextInv
<1> QED
  BY <1>1, <1>2, PTL DEF Spec

-----------------------------------------------------------------------------
(* Theorems. *)

\* Types: looks and lost connections stay within their bounds, and the queue
\* and the wire carry what the code puts on them.
THEOREM TypeCorrect == Spec => []TypeOK
<1>1. Inv => TypeOK
  BY DEF Inv
<1> QED
  BY <1>1, InvAlways, PTL

\* A client in its block owns the lock at the server unless it lost its
\* connection since it looked (test_locking), for any number of clients.
THEOREM OwnsInBlock == Spec => []OwnerUnlessLost
<1>1. Inv => OwnerUnlessLost
  BY DEF Inv
<1> QED
  BY <1>1, InvAlways, PTL

\* has_lock of a client whose connection is up is never out of date: no reply
\* or notice of an earlier request is taken for one of the lock at hand.
THEOREM GrantsAreCurrent == Spec => []GrantIsCurrent
<1>1. Inv => GrantIsCurrent
  <2> SUFFICES ASSUME Inv, NEW c \in Client, hasLock[c], link[c] = "up"
               PROVE  Owner(c)
    BY DEF GrantIsCurrent
  <2>1. wants[c]
    BY DEF Inv, TypeOK, Idle
  <2> QED
    BY <2>1 DEF Inv, Granted, Told
<1> QED
  BY <1>1, InvAlways, PTL

\* The assertions of __exit__ hold in every order of messages and failures: no
\* answer reaches the state of the IDL once set_lock(None) was called.
THEOREM AssertionsNeverFail == Spec => []AssertionsHold
<1>1. Init => AssertionsHold
  BY DEF Init, AssertionsHold
<1>2. AssertionsHold /\ Inv /\ [Next]_vars => AssertionsHold'
  <2> SUFFICES ASSUME AssertionsHold, Inv, [Next]_vars
               PROVE  AssertionsHold'
    OBVIOUS
  <2>1. CASE UNCHANGED vars
    BY <2>1 DEF vars, AssertionsHold
  <2>2. ASSUME NEW c \in Client, ExitAsserts(c)
        PROVE  AssertionsHold'
    <3>1. ~hasLock[c] /\ ~contended[c]
      BY <2>2 DEF ExitAsserts, Inv, Wanting, Idle
    <3> QED
      BY <2>2, <3>1 DEF ExitAsserts, Goto, Inv, TypeOK, AssertionsHold
  <2>3. ASSUME NEW c \in Client, Enter(c) \/ Check(c) \/ GiveUp(c) \/ Leave(c)
        PROVE  AssertionsHold'
    BY <2>3 DEF Enter, Check, GiveUp, Leave, Goto, Inv, TypeOK, AssertionsHold
  <2>4. ASSUME NEW c \in Client,
               \/ Quit(c) \/ Receive(c) \/ Reconnect(c) \/ ServerLocks(c)
               \/ ServerUnlocks(c) \/ Drop(c)
        PROVE  AssertionsHold'
    BY <2>4 DEF Quit, Receive, Reconnect, ServerLocks, ServerUnlocks, Drop, AssertionsHold
  <2> QED
    BY <2>1, <2>2, <2>3, <2>4 DEF Next
<1> QED
  BY <1>1, <1>2, InvAlways, PTL DEF Spec

\* Two clients that kept their connections are never both in their blocks.
LEMMA OneHolder ==
    ASSUME Inv, NEW c \in Client, NEW d \in Client, Owner(c), d \in Holders
    PROVE  d = c
BY DEF Inv, OwnerUnlessLost, Owner, Holders, InBlock

\* A step of the script is a step of the abstract lock or leaves it as it is.
LEMMA StepImplements ==
    ASSUME Inv, [Next]_vars PROVE [Lock!Next]_Holders
<1>1. CASE UNCHANGED vars
  BY <1>1 DEF vars, Holders, InBlock
<1>2. ASSUME NEW c \in Client, Check(c)
      PROVE  [Lock!Next]_Holders
  <2> USE <1>2 DEF Check, Goto
  <2>1. pc[c] = "check" /\ c \notin lost /\ c \notin Holders
    BY DEF Inv, Fresh, Holders, InBlock
  <2>2. CASE hasLock[c] /\ link[c] = "up"
    <3>1. Owner(c)
      BY <2>1, <2>2 DEF Inv, Wanting, Granted, Told
    <3>2. Holders = {}
      BY <2>1, <3>1, OneHolder DEF Holders, InBlock
    <3>3. Holders' = {c}
      BY <2>1, <2>2, <3>2 DEF Inv, TypeOK, Holders, InBlock
    <3> QED
      BY <3>2, <3>3 DEF Lock!Next, Lock!Acquire
  <2>3. CASE hasLock[c] /\ link[c] # "up"
    BY <2>1, <2>3 DEF Inv, TypeOK, Holders, InBlock
  <2>4. CASE ~hasLock[c]
    BY <2>4 DEF Holders, InBlock
  <2> QED
    BY <2>2, <2>3, <2>4
<1>3. ASSUME NEW c \in Client, Leave(c) \/ Drop(c)
      PROVE  [Lock!Next]_Holders
  <2>1. Holders' = Holders \ {c}
    BY <1>3 DEF Leave, Drop, Goto, Inv, TypeOK, Holders, InBlock
  <2>2. CASE c \in Holders
    BY <2>1, <2>2 DEF Lock!Next, Lock!Release
  <2>3. CASE c \notin Holders
    BY <2>1, <2>3
  <2> QED
    BY <2>2, <2>3
<1>4. ASSUME NEW c \in Client, Enter(c) \/ GiveUp(c) \/ ExitAsserts(c)
      PROVE  UNCHANGED Holders
  BY <1>4 DEF Enter, GiveUp, ExitAsserts, Goto, Inv, TypeOK, Holders, InBlock
<1>5. ASSUME NEW c \in Client,
             Quit(c) \/ Receive(c) \/ Reconnect(c) \/ ServerLocks(c) \/ ServerUnlocks(c)
      PROVE  UNCHANGED Holders
  BY <1>5 DEF Quit, Receive, Reconnect, ServerLocks, ServerUnlocks, Holders, InBlock
<1> QED
  BY <1>1, <1>2, <1>3, <1>4, <1>5 DEF Next

\* The script implements the abstract lock: at most one client that has kept its
\* connection acts as the owner, for any clients and any lost connections.
THEOREM LockImplementsMutex == Spec => ImplementsMutex
<1>1. Init => Lock!Init
  BY DEF Init, Lock!Init, Holders, InBlock
<1>2. Inv /\ [Next]_vars => [Lock!Next]_Holders
  BY StepImplements
<1> QED
  BY <1>1, <1>2, InvAlways, PTL DEF Spec, ImplementsMutex, Lock!Spec
=============================================================================
