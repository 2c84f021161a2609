------------------------------- MODULE CpuLoad -------------------------------
(***************************************************************************)
(* scripts/cirros-http-cpuload.userdata: /bin/cpuload, which starts a load *)
(* on each core and stops it, by a PID file that is read, appended to and  *)
(* removed in separate steps.  Everybody logged in to the instance may     *)
(* call it at any time.                                                    *)
(*                                                                         *)
(* Abstracted: a PID is <<caller, number of the process>>, hence never     *)
(* used twice; --status, --identify and --help only print.                 *)
(***************************************************************************)
EXTENDS Naturals

CONSTANTS Caller, \* calls of cpuload
          NumCpu  \* NUM_CPU

VARIABLES
    pc,      \* [Caller -> what it does next]
    started, \* [Caller -> processes it has started]
    pidFile, \* "absent" or "present"
    pids,    \* PIDs in it
    load,    \* PIDs of the processes that run
    met      \* history: were a load and a release under way at once?

vars == <<pc, started, pidFile, pids, load, met>>

Pid == Caller \X (1 .. NumCpu)
Loading == {"fork", "echo"}
Releasing == {"kill", "rm"}
Label == {"off", "start", "release", "exit 0", "exit 1"} \cup Loading \cup Releasing

TypeOK ==
    /\ pc \in [Caller -> Label]
    /\ started \in [Caller -> 0 .. NumCpu]
    /\ pidFile \in {"absent", "present"}
    /\ pids \subseteq Pid /\ load \subseteq Pid
    /\ met \in BOOLEAN

Init ==
    /\ pc = [c \in Caller |-> "off"]
    /\ started = [c \in Caller |-> 0]
    /\ pidFile = "absent"
    /\ pids = {} /\ load = {}
    /\ met = FALSE

Goto(c, label) == pc' = [pc EXCEPT ![c] = label]

-----------------------------------------------------------------------------
(* A slip the script could have made; the actions below are what it does. *)

\* > where >> is meant.
EchoOverwrites(c) ==
    /\ pc[c] = "echo"
    /\ pidFile' = "present"
    /\ pids' = {<<c, started[c]>>}
    /\ Goto(c, "fork")
    /\ UNCHANGED <<started, load>>

-----------------------------------------------------------------------------

Call(c) ==
    /\ pc[c] = "off"
    /\ \E label \in {"start", "release"} : Goto(c, label)
    /\ UNCHANGED <<started, pidFile, pids, load>>

\* set_status of cpu_load.
Start(c) ==
    /\ pc[c] = "start"
    /\ Goto(c, IF pidFile = "present" THEN "exit 1" ELSE "fork")
    /\ UNCHANGED <<started, pidFile, pids, load>>

\* cat /dev/urandom in the background, or the end of the loop.
Fork(c) ==
    /\ pc[c] = "fork"
    /\ IF started[c] < NumCpu
       THEN /\ started' = [started EXCEPT ![c] = @ + 1]
            /\ load' = load \cup {<<c, started'[c]>>}
            /\ Goto(c, "echo")
       ELSE /\ Goto(c, "exit 0")
            /\ UNCHANGED <<started, load>>
    /\ UNCHANGED <<pidFile, pids>>

\* echo $! >> $PID_FILE, which makes the file if it is not there.
Echo(c) ==
    /\ pc[c] = "echo"
    /\ pidFile' = "present"
    /\ pids' = pids \cup {<<c, started[c]>>}
    /\ Goto(c, "fork")
    /\ UNCHANGED <<started, load>>

\* set_status of cpu_release.
Release(c) ==
    /\ pc[c] = "release"
    /\ Goto(c, IF pidFile = "present" THEN "kill" ELSE "exit 1")
    /\ UNCHANGED <<started, pidFile, pids, load>>

\* cat $PID_FILE | xargs kill; PIDs that are gone are passed over.
Kill(c) ==
    /\ pc[c] = "kill"
    /\ load' = load \ pids
    /\ Goto(c, "rm")
    /\ UNCHANGED <<started, pidFile, pids>>

Remove(c) ==
    /\ pc[c] = "rm"
    /\ pidFile' = "absent" /\ pids' = {}
    /\ Goto(c, "exit 0")
    /\ UNCHANGED <<started, load>>

Step(c) ==
    \/ Call(c) \/ Start(c) \/ Fork(c) \/ Echo(c)
    \/ Release(c) \/ Kill(c) \/ Remove(c)

Meet ==
    met' = (met \/ \E c, d \in Caller : pc'[c] \in Loading /\ pc'[d] \in Releasing)

Next == \E c \in Caller : Step(c) /\ Meet

Spec == Init /\ [][Next]_vars

-----------------------------------------------------------------------------
(* Properties. *)

\* A process of the load is in the PID file, or about to be, so that a release
\* stops it, unless a release ran while a load was started (the file is read
\* and removed in two steps).  Two loads started at once do no harm to this.
LoadListed ==
    ~met =>
        \A p \in load \ pids : pc[p[1]] = "echo" /\ started[p[1]] = p[2]
=============================================================================
