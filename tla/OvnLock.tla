------------------------------- MODULE OvnLock -------------------------------
(***************************************************************************)
(* scripts/ovs/ovn_nb_locks.py: clients of the OVN Northbound database     *)
(* that run a block of work under a named OVSDB lock (OvsLock,             *)
(* test_locking), the python IDL whose background thread answers for them, *)
(* and the lock queue of the server.  A connection may be lost at any      *)
(* moment: the server then releases the lock of the client at once, the    *)
(* client learns of it only when its IDL connects again, and test_locking  *)
(* does not look again before it leaves the block.                         *)
(*                                                                         *)
(* External, modelled from the calls of the script: set_lock, has_lock and *)
(* the reconnection of the IDL, and the lock operations of OVSDB.          *)
(***************************************************************************)
EXTENDS Naturals, Sequences

CONSTANTS Client,     \* processes that run the script with --test
          MaxChecks,  \* looks at has_lock before __enter__ gives up
          MaxDrops    \* lost connections (a bound of the model)

ASSUME ChecksAssumption == MaxChecks \in Nat \ {0}
ASSUME DropsAssumption == MaxDrops \in Nat

VARIABLES
    pc,        \* [Client -> where its with statement is]
    checks,    \* [Client -> looks at has_lock so far]
    wants,     \* [Client -> is lock_name of its IDL set?]
    hasLock,   \* [Client -> has_lock of its IDL]
    contended, \* [Client -> is_lock_contended of its IDL]
    link,      \* [Client -> state of its connection]
    req,       \* [Client -> its requests on their way to the server]
    rsp,       \* [Client -> what the server sent it]
    queue,     \* the lock queue of the server; its head owns the lock
    lost,      \* history: clients whose connection fell while in the block
    drops      \* lost connections so far

vars == <<pc, checks, wants, hasLock, contended, link, req, rsp, queue, lost, drops>>

Ended == {"done", "raised", "assert failed"}
Label == {"start", "check", "block", "assert"} \cup Ended

TypeOK ==
    /\ pc \in [Client -> Label]
    /\ checks \in [Client -> 0 .. MaxChecks]
    /\ wants \in [Client -> BOOLEAN]
    /\ hasLock \in [Client -> BOOLEAN]
    /\ contended \in [Client -> BOOLEAN]
    /\ link \in [Client -> {"up", "down", "closed"}]
    /\ req \in [Client -> Seq({"lock", "unlock"})]
    /\ rsp \in [Client -> Seq({"locked", "contended", "notify"})]
    /\ queue \in Seq(Client)
    /\ lost \subseteq Client
    /\ drops \in 0 .. MaxDrops

Init ==
    /\ pc = [c \in Client |-> "start"]
    /\ checks = [c \in Client |-> 0]
    /\ wants = [c \in Client |-> FALSE]
    /\ hasLock = [c \in Client |-> FALSE]
    /\ contended = [c \in Client |-> FALSE]
    /\ link = [c \in Client |-> "up"]
    /\ req = [c \in Client |-> <<>>]
    /\ rsp = [c \in Client |-> <<>>]
    /\ queue = <<>>
    /\ lost = {}
    /\ drops = 0

Goto(c, label) == pc' = [pc EXCEPT ![c] = label]

\* A request goes out on a connection that is up and is dropped otherwise.
Send(c, op) == req' = IF link[c] = "up" THEN [req EXCEPT ![c] = Append(@, op)] ELSE req

\* The queue without c, and what its new head is told if c was the old one.
Waits(c) == \E i \in DOMAIN queue : queue[i] = c
Place(c) == CHOOSE i \in DOMAIN queue : queue[i] = c
Without(c) ==
    IF Waits(c)
    THEN [i \in 1 .. Len(queue) - 1 |-> queue[IF i < Place(c) THEN i ELSE i + 1]]
    ELSE queue
Owner(c) == queue # <<>> /\ Head(queue) = c
Notified(c, out) ==
    IF Owner(c) /\ Without(c) # <<>>
    THEN [out EXCEPT ![Head(Without(c))] = Append(@, "notify")]
    ELSE out

-----------------------------------------------------------------------------
(* Slips the script could have made; the actions below are what it does. *)

\* __enter__ takes a lock that is not contended for one it has.
CheckContended(c) ==
    /\ pc[c] = "check"
    /\ checks[c] < MaxChecks
    /\ IF ~contended[c]
       THEN Goto(c, "block") /\ UNCHANGED checks
       ELSE checks' = [checks EXCEPT ![c] = @ + 1] /\ UNCHANGED pc
    /\ UNCHANGED <<wants, hasLock, contended, link, req, rsp, queue, lost, drops>>

\* __enter__ warns after the last look and goes on.
GiveUpWarns(c) ==
    /\ pc[c] = "check"
    /\ checks[c] = MaxChecks
    /\ Goto(c, "block")
    /\ UNCHANGED <<checks, wants, hasLock, contended, link, req, rsp, queue, lost, drops>>

\* One look too many.
CheckTooOften(c) ==
    /\ pc[c] = "check"
    /\ IF hasLock[c]
       THEN Goto(c, "block") /\ UNCHANGED checks
       ELSE checks' = [checks EXCEPT ![c] = @ + 1] /\ UNCHANGED pc
    /\ UNCHANGED <<wants, hasLock, contended, link, req, rsp, queue, lost, drops>>

\* __exit__ asks the server without telling the IDL.
LeaveSilently(c) ==
    /\ pc[c] = "block"
    /\ Send(c, "unlock")
    /\ Goto(c, "assert")
    /\ UNCHANGED <<checks, wants, hasLock, contended, link, rsp, queue, lost, drops>>

-----------------------------------------------------------------------------
(* OvsLock and test_locking. *)

\* __enter__: set_lock(lock_name).
Enter(c) ==
    /\ pc[c] = "start"
    /\ wants' = [wants EXCEPT ![c] = TRUE]
    /\ hasLock' = [hasLock EXCEPT ![c] = FALSE]
    /\ Send(c, "lock")
    /\ Goto(c, "check")
    /\ UNCHANGED <<checks, contended, link, rsp, queue, lost, drops>>

\* One turn of the loop of __enter__.
Check(c) ==
    /\ pc[c] = "check"
    /\ checks[c] < MaxChecks
    /\ IF hasLock[c]
       THEN Goto(c, "block") /\ UNCHANGED checks
       ELSE checks' = [checks EXCEPT ![c] = @ + 1] /\ UNCHANGED pc
    /\ lost' = IF hasLock[c] /\ link[c] # "up" THEN lost \cup {c} ELSE lost
    /\ UNCHANGED <<wants, hasLock, contended, link, req, rsp, queue, drops>>

\* The else of the loop: both branches raise, __exit__ is not called and the
\* request stays queued for as long as the process lives.
GiveUp(c) ==
    /\ pc[c] = "check"
    /\ checks[c] = MaxChecks
    /\ Goto(c, "raised")
    /\ UNCHANGED <<checks, wants, hasLock, contended, link, req, rsp, queue, lost, drops>>

\* The block of test_locking is over; __exit__: set_lock(None).
Leave(c) ==
    /\ pc[c] = "block"
    /\ wants' = [wants EXCEPT ![c] = FALSE]
    /\ hasLock' = [hasLock EXCEPT ![c] = FALSE]
    /\ contended' = [contended EXCEPT ![c] = FALSE]
    /\ Send(c, "unlock")
    /\ Goto(c, "assert")
    /\ UNCHANGED <<checks, link, rsp, queue, lost, drops>>

\* The two assertions of __exit__.
ExitAsserts(c) ==
    /\ pc[c] = "assert"
    /\ Goto(c, IF hasLock[c] \/ contended[c] THEN "assert failed" ELSE "done")
    /\ UNCHANGED <<checks, wants, hasLock, contended, link, req, rsp, queue, lost, drops>>

\* The process ends and its connection with it.
Quit(c) ==
    /\ pc[c] \in Ended
    /\ link[c] # "closed"
    /\ link' = [link EXCEPT ![c] = "closed"]
    /\ queue' = Without(c)
    /\ req' = [req EXCEPT ![c] = <<>>]
    /\ rsp' = [Notified(c, rsp) EXCEPT ![c] = <<>>]
    /\ UNCHANGED <<pc, checks, wants, hasLock, contended, lost, drops>>

-----------------------------------------------------------------------------
(* The background thread of the IDL, and the server. *)

\* A reply counts only while a lock request is open, a notice only while
\* lock_name is set; both are the case exactly when the client wants the lock.
Receive(c) ==
    /\ rsp[c] # <<>>
    /\ rsp' = [rsp EXCEPT ![c] = Tail(@)]
    /\ IF wants[c]
       THEN /\ hasLock' = [hasLock EXCEPT ![c] = Head(rsp[c]) \in {"locked", "notify"}]
            /\ contended' = [contended EXCEPT ![c] = Head(rsp[c]) = "contended"]
       ELSE UNCHANGED <<hasLock, contended>>
    /\ UNCHANGED <<pc, checks, wants, link, req, queue, lost, drops>>

\* The IDL connects again and repeats its request.
Reconnect(c) ==
    /\ link[c] = "down"
    /\ pc[c] \notin Ended
    /\ link' = [link EXCEPT ![c] = "up"]
    /\ hasLock' = [hasLock EXCEPT ![c] = FALSE]
    /\ req' = IF wants[c] THEN [req EXCEPT ![c] = Append(@, "lock")] ELSE req
    /\ UNCHANGED <<pc, checks, wants, contended, rsp, queue, lost, drops>>

ServerLocks(c) ==
    /\ req[c] # <<>>
    /\ Head(req[c]) = "lock"
    /\ req' = [req EXCEPT ![c] = Tail(@)]
    /\ queue' = Append(queue, c)
    /\ rsp' = [rsp EXCEPT ![c] = Append(@, IF queue = <<>> THEN "locked" ELSE "contended")]
    /\ UNCHANGED <<pc, checks, wants, hasLock, contended, link, lost, drops>>

ServerUnlocks(c) ==
    /\ req[c] # <<>>
    /\ Head(req[c]) = "unlock"
    /\ req' = [req EXCEPT ![c] = Tail(@)]
    /\ queue' = Without(c)
    /\ rsp' = Notified(c, rsp)
    /\ UNCHANGED <<pc, checks, wants, hasLock, contended, link, lost, drops>>

\* The connection breaks; whatever was on it is gone.
Drop(c) ==
    /\ link[c] = "up"
    /\ drops < MaxDrops
    /\ drops' = drops + 1
    /\ link' = [link EXCEPT ![c] = "down"]
    /\ queue' = Without(c)
    /\ req' = [req EXCEPT ![c] = <<>>]
    /\ rsp' = [Notified(c, rsp) EXCEPT ![c] = <<>>]
    /\ lost' = IF pc[c] = "block" THEN lost \cup {c} ELSE lost
    /\ UNCHANGED <<pc, checks, wants, hasLock, contended>>

Next ==
    \E c \in Client :
        \/ Enter(c) \/ Check(c) \/ GiveUp(c) \/ Leave(c) \/ ExitAsserts(c) \/ Quit(c)
        \/ Receive(c) \/ Reconnect(c) \/ ServerLocks(c) \/ ServerUnlocks(c) \/ Drop(c)

Spec == Init /\ [][Next]_vars

-----------------------------------------------------------------------------
(* Properties. *)

InBlock == {c \in Client : pc[c] = "block"}

\* A client in its block owns the lock at the server, unless its connection
\* was lost since it looked: has_lock is only as good as the connection.
OwnerUnlessLost == \A c \in InBlock : c \in lost \/ Owner(c)

\* A client the lock was granted to is the owner while its connection is up:
\* replies and notices of earlier requests are never taken for later ones.
GrantIsCurrent == \A c \in Client : hasLock[c] /\ link[c] = "up" => Owner(c)

\* The assertions of OvsLock.__exit__ never fail, whenever connections fall.
AssertionsHold == \A c \in Client : pc[c] # "assert failed"

\* The script implements Mutex: the blocks of clients that have not lost their
\* connection since they looked exclude each other, and a client whose
\* connection falls in its block gives the lock up at that moment.
Holders == InBlock \ lost
Lock == INSTANCE Mutex WITH holders <- Holders
ImplementsMutex == Lock!Spec
=============================================================================
