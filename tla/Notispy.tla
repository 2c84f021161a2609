------------------------------- MODULE Notispy -------------------------------
(***************************************************************************)
(* scripts/notispy.py --save: handlers store notifications, in threads of  *)
(* oslo.messaging; on Ctrl-C main stops the listener, waits for them and   *)
(* writes message-<i>.json, over the files of an earlier run.              *)
(*                                                                         *)
(* Abstracted: what a notification says, and how it is logged.             *)
(***************************************************************************)
EXTENDS Naturals, FiniteSets, Sequences, SequencesExt

CONSTANTS Message, Topic,
          TopicOf, \* [Message -> Topic]
          Runs

VARIABLES
    bus,  \* waiting; handling, stored: in a handler, before and behind the
          \* append; acked: by this run
    local \* run; save; given: --topic; pc; failed: did start raise?; listening;
          \* store: _store; next: the file to write; disk: [index -> message], 0
          \* for none; before: disk when the run started

vars == <<bus, local>>

Index == 0 .. Cardinality(Message) - 1
\* argparse appends to the defaults, so that 'notifications' is always among them.
Targets == local.given \cup {"notifications"}

TypeOK ==
    /\ bus \in [waiting : SUBSET Message, handling : SUBSET Message,
                stored : SUBSET Message, acked : SUBSET Message]
    /\ local.run \in 1 .. Runs /\ local.save \in BOOLEAN /\ local.given \subseteq Topic
    /\ local.pc \in {"start", "loop", "stop", "wait", "write", "exit 0", "exit 200", "killed"}
    /\ local.failed \in BOOLEAN /\ local.listening \in BOOLEAN
    /\ local.store \in Seq(Message) /\ local.next \in Nat
    /\ local.disk \in [Index -> Message \cup {0}] /\ local.before \in [Index -> Message \cup {0}]

Init ==
    /\ bus = [waiting |-> Message, handling |-> {}, stored |-> {}, acked |-> {}]
    /\ local \in [run : {1}, save : BOOLEAN, given : SUBSET Topic, pc : {"start"}, failed : {FALSE},
                  listening : {FALSE}, store : {<<>>}, next : {0},
                  disk : {[i \in Index |-> 0]}, before : {[i \in Index |-> 0]}]

-----------------------------------------------------------------------------
(* A slip the script could have made: no server.wait(). *)

WaitNot ==
    /\ local.pc = "wait"
    /\ local' = [local EXCEPT !.pc = "write"]
    /\ UNCHANGED bus

-----------------------------------------------------------------------------
(* The handlers. *)

Receive(m) ==
    /\ local.listening /\ m \in bus.waiting /\ TopicOf[m] \in Targets
    /\ bus' = [bus EXCEPT !.waiting = @ \ {m}, !.handling = @ \cup {m}]
    /\ UNCHANGED local

\* _process.
Store(m) ==
    /\ m \in bus.handling
    /\ bus' = [bus EXCEPT !.handling = @ \ {m}, !.stored = @ \cup {m}]
    /\ local' = IF local.save THEN [local EXCEPT !.store = Append(@, m)] ELSE local

\* The handler returns, and the listener acknowledges the notification.
Return(m) ==
    /\ m \in bus.stored
    /\ bus' = [bus EXCEPT !.stored = @ \ {m}, !.acked = @ \cup {m}]
    /\ UNCHANGED local

-----------------------------------------------------------------------------
(* main. *)

\* server.start() may raise, but not behind its first poll.
Start ==
    /\ local.pc = "start"
    /\ \/ local' = [local EXCEPT !.pc = "loop", !.listening = TRUE]
       \/ local' = [local EXCEPT !.pc = "stop", !.failed = TRUE]
    /\ UNCHANGED bus

Interrupt ==
    /\ local.pc \in {"start", "loop"}
    /\ local' = [local EXCEPT !.pc = "stop"]
    /\ UNCHANGED bus

Stop ==
    /\ local.pc = "stop"
    /\ local' = [local EXCEPT !.pc = "wait", !.listening = FALSE]
    /\ UNCHANGED bus

Wait ==
    /\ local.pc = "wait" /\ bus.handling \cup bus.stored = {}
    /\ local' = [local EXCEPT !.pc = "write"]
    /\ UNCHANGED bus

\* One file of write; sys.exit(200) is on its way if start failed.
Write ==
    /\ local.pc = "write"
    /\ local' = IF local.next < Len(local.store)
                THEN [local EXCEPT !.disk[local.next] = local.store[local.next + 1], !.next = @ + 1]
                ELSE [local EXCEPT !.pc = IF local.failed THEN "exit 200" ELSE "exit 0"]
    /\ UNCHANGED bus

\* Ctrl-C in the finally clause, or a file that cannot be written.
InterruptAgain ==
    /\ local.pc \in {"stop", "wait", "write"}
    /\ local' = [local EXCEPT !.pc = "killed", !.listening = FALSE]
    /\ UNCHANGED bus

\* The script is called again in the same directory; what a killed run had not
\* acknowledged is delivered again.
Again ==
    /\ local.pc \in {"exit 0", "exit 200", "killed"} /\ local.run < Runs
    /\ bus' = [bus EXCEPT !.waiting = @ \cup bus.handling \cup bus.stored,
                          !.handling = {}, !.stored = {}, !.acked = {}]
    /\ local' = [local EXCEPT !.run = @ + 1, !.pc = "start", !.failed = FALSE,
                              !.store = <<>>, !.next = 0, !.before = local.disk]

Next ==
    \/ \E m \in Message : Receive(m) \/ Store(m) \/ Return(m)
    \/ Start \/ Interrupt \/ Stop \/ Wait \/ Write \/ InterruptAgain \/ Again

Spec == Init /\ [][Next]_vars

-----------------------------------------------------------------------------
(* Property. *)

\* Each notification that a run acknowledged is in one of its files, in the order
\* in which they were stored, unless Ctrl-C came again while it was exiting; the
\* files behind those are from earlier runs.
AckedAreWritten ==
    local.pc \in {"exit 0", "exit 200"} /\ local.save =>
        /\ bus.acked = ToSet(local.store)
        /\ \A i \in Index : local.disk[i] = IF i < Len(local.store) THEN local.store[i + 1] ELSE local.before[i]
=============================================================================
