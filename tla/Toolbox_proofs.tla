--------------------------- MODULE Toolbox_proofs ---------------------------
(***************************************************************************)
(* Proofs about the scripts of Toolbox that make and clean up, and that    *)
(* every script keeps the types of its variables.  The invariants tell     *)
(* where a script is by what it has left in the cloud, and by which of its *)
(* steps raised.                                                           *)
(***************************************************************************)
EXTENDS ToolboxReports_proofs, FiniteSetTheorems

(* cpuload.  While no load has met a release, a release that has killed what it *)
(* found in the PID file has left nothing, so that the file may go.             *)

\* Who is about to write PIDs has started processes.
Forked == \A c \in Caller : pc[c] = "echo" => started[c] # 0

\* No load and release are under way together, unless they met.
Apart ==
    ~met => \A c, d \in Caller : ~(pc[c] \in Load!Loading /\ pc[d] \in Load!Releasing)

\* The PID file goes when nothing of what it lists runs.
NothingListed ==
    ~met => \A c \in Caller : pc[c] = "rm" => load \cap pids = {}

LoadInv == Load!TypeOK /\ Forked /\ Apart /\ NothingListed /\ Load!LoadListed

LEMMA LoadInit == Load!Init => LoadInv
<1> SUFFICES ASSUME Load!Init PROVE LoadInv
  OBVIOUS
<1> USE DEF Load!Init
<1>1. "off" \in Load!Label /\ 0 \in 0 .. NumCpu
  BY CoresAssumption DEF Load!Label
<1>2. Load!TypeOK
  BY <1>1 DEF Load!TypeOK
<1>3. Forked /\ Apart /\ NothingListed /\ Load!LoadListed
  BY DEF Forked, Apart, NothingListed, Load!LoadListed, Load!Loading
<1> QED
  BY <1>2, <1>3 DEF LoadInv

\* Only the caller who takes a step is elsewhere after it.
LEMMA LoadGoto ==
    ASSUME Load!TypeOK, NEW c \in Caller, NEW label \in Load!Label, Load!Goto(c, label)
    PROVE  /\ pc' \in [Caller -> Load!Label] /\ pc'[c] = label
           /\ \A d \in Caller \ {c} : pc'[d] = pc[d]
  BY DEF Load!TypeOK, Load!Goto

\* A step of a caller, who notes whether a load met a release.
LEMMA LoadStepInv ==
    ASSUME LoadInv, NEW c \in Caller, Load!Step(c), Load!Meet PROVE LoadInv'
<1>1. Load!TypeOK /\ Forked /\ Apart /\ NothingListed /\ Load!LoadListed
  BY DEF LoadInv
<1>2. met' \in BOOLEAN /\ (~met' => ~met) /\ Apart'
  BY <1>1 DEF Load!Meet, Load!TypeOK, Apart
<1>3. /\ {"off", "start", "release", "exit 0", "exit 1", "fork", "echo", "kill", "rm"} \subseteq Load!Label
      /\ "fork" \in Load!Loading /\ "echo" \in Load!Loading /\ "rm" \in Load!Releasing
      /\ "kill" \in Load!Releasing
  BY DEF Load!Label, Load!Loading, Load!Releasing
<1>4. started[c] \in 0 .. NumCpu
  BY <1>1 DEF Load!TypeOK
\* A step that touches neither the file nor the processes.
<1>5. ASSUME NEW label \in Load!Label \ {"echo", "rm"}, Load!Goto(c, label), pc[c] # "echo",
             UNCHANGED <<started, pidFile, pids, load>>
      PROVE  LoadInv'
  <2>1. Load!TypeOK'
    BY <1>1, <1>2, <1>5, LoadGoto DEF Load!TypeOK
  <2>2. /\ pc'[c] = label
        /\ \A d \in Caller \ {c} : pc'[d] = pc[d]
    BY <1>1, <1>5, LoadGoto
  <2>3. Forked' /\ NothingListed'
    BY <1>1, <1>2, <1>5, <2>2 DEF Forked, NothingListed
  <2>4. Load!LoadListed'
    <3> SUFFICES ASSUME ~met', NEW p \in load \ pids
                 PROVE  pc'[p[1]] = "echo" /\ started[p[1]] = p[2]
      BY <1>5 DEF Load!LoadListed
    <3>1. p[1] \in Caller
      BY <1>1 DEF Load!TypeOK, Load!Pid
    <3>2. pc[p[1]] = "echo" /\ started[p[1]] = p[2]
      BY <1>1, <1>2 DEF Load!LoadListed
    <3> QED
      BY <1>5, <2>2, <3>1, <3>2
  <2> QED
    BY <1>2, <2>1, <2>3, <2>4 DEF LoadInv
<1>6. CASE Load!Call(c)
  BY <1>3, <1>5, <1>6 DEF Load!Call
<1>7. CASE Load!Start(c)
  BY <1>3, <1>5, <1>7 DEF Load!Start
<1>8. CASE Load!Fork(c)
  <2>1. CASE started[c] < NumCpu
    <3>1. /\ pc[c] = "fork" /\ Load!Goto(c, "echo") /\ UNCHANGED <<pidFile, pids>>
          /\ started' = [started EXCEPT ![c] = started[c] + 1]
          /\ load' = load \cup {<<c, started'[c]>>}
      BY <1>8, <2>1 DEF Load!Fork
    <3>2. started[c] + 1 \in 1 .. NumCpu
      BY <1>4, <2>1, CoresAssumption
    <3>3. /\ started' \in [Caller -> 0 .. NumCpu] /\ started'[c] = started[c] + 1
          /\ \A d \in Caller \ {c} : started'[d] = started[d]
      BY <1>1, <3>1, <3>2 DEF Load!TypeOK
    <3>4. load' \subseteq Load!Pid
      BY <1>1, <3>1, <3>2, <3>3 DEF Load!TypeOK, Load!Pid
    <3>5. /\ pc' \in [Caller -> Load!Label] /\ pc'[c] = "echo"
          /\ \A d \in Caller \ {c} : pc'[d] = pc[d]
      BY <1>1, <1>3, <3>1, LoadGoto
    <3>6. Load!TypeOK'
      BY <1>1, <1>2, <3>1, <3>3, <3>4, <3>5 DEF Load!TypeOK
    <3>7. Forked'
      BY <1>1, <1>4, <3>3, <3>5 DEF Forked
    <3>8. NothingListed'
      BY <1>2, <1>3, <3>5 DEF Apart, NothingListed
    <3>9. Load!LoadListed'
      <4> SUFFICES ASSUME ~met', NEW p \in load' \ pids
                   PROVE  pc'[p[1]] = "echo" /\ started'[p[1]] = p[2]
        BY <3>1 DEF Load!LoadListed
      <4>1. CASE p = <<c, started'[c]>>
        BY <3>5, <4>1
      <4>2. CASE p \in load
        <5>1. pc[p[1]] = "echo" /\ started[p[1]] = p[2] /\ p[1] \in Caller
          BY <1>1, <1>2, <4>2 DEF Load!LoadListed, Load!TypeOK, Load!Pid
        <5> QED
          BY <3>1, <3>3, <3>5, <5>1
      <4> QED
        BY <3>1, <4>1, <4>2
    <3> QED
      BY <1>2, <3>6, <3>7, <3>8, <3>9 DEF LoadInv
  <2>2. CASE ~(started[c] < NumCpu)
    BY <1>3, <1>5, <1>8, <2>2 DEF Load!Fork
  <2> QED
    BY <2>1, <2>2
<1>9. CASE Load!Echo(c)
  <2>1. /\ pc[c] = "echo" /\ Load!Goto(c, "fork") /\ UNCHANGED <<started, load>>
        /\ pidFile' = "present" /\ pids' = pids \cup {<<c, started[c]>>}
    BY <1>9 DEF Load!Echo
  <2>2. <<c, started[c]>> \in Load!Pid
    <3>1. started[c] \in 1 .. NumCpu
      BY <1>1, <1>4, <2>1 DEF Forked
    <3> QED
      BY <3>1 DEF Load!Pid
  <2>3. /\ pc' \in [Caller -> Load!Label] /\ pc'[c] = "fork"
        /\ \A d \in Caller \ {c} : pc'[d] = pc[d]
    BY <1>1, <1>3, <2>1, LoadGoto
  <2>4. Load!TypeOK'
    BY <1>1, <1>2, <2>1, <2>2, <2>3 DEF Load!TypeOK
  <2>5. Forked'
    BY <1>1, <2>1, <2>3 DEF Forked
  <2>6. NothingListed'
    BY <1>2, <1>3, <2>3 DEF Apart, NothingListed
  <2>7. Load!LoadListed'
    <3> SUFFICES ASSUME ~met', NEW p \in load \ pids'
                 PROVE  pc'[p[1]] = "echo" /\ started[p[1]] = p[2]
      BY <2>1 DEF Load!LoadListed
    <3>1. p \in load \ pids /\ p # <<c, started[c]>>
      BY <2>1
    <3>2. pc[p[1]] = "echo" /\ started[p[1]] = p[2] /\ p[1] \in Caller /\ p = <<p[1], p[2]>>
      BY <1>1, <1>2, <3>1 DEF Load!LoadListed, Load!TypeOK, Load!Pid
    <3> QED
      BY <2>3, <3>1, <3>2
  <2> QED
    BY <1>2, <2>4, <2>5, <2>6, <2>7 DEF LoadInv
<1>10. CASE Load!Release(c)
  BY <1>3, <1>5, <1>10 DEF Load!Release
<1>11. CASE Load!Kill(c) \/ Load!Remove(c)
  <2>1. /\ pc[c] \in Load!Releasing /\ UNCHANGED started /\ load' \subseteq load /\ pids' \subseteq pids
        /\ pidFile' \in {"absent", "present"}
        /\ \E label \in {"rm", "exit 0"} : Load!Goto(c, label)
    BY <1>1, <1>3, <1>11 DEF Load!Kill, Load!Remove, Load!TypeOK
  <2>2. /\ pc' \in [Caller -> Load!Label] /\ pc'[c] \notin {"echo", "fork"}
        /\ \A d \in Caller \ {c} : pc'[d] = pc[d]
    BY <1>1, <1>3, <2>1, LoadGoto
  <2>3. Load!TypeOK'
    BY <1>1, <1>2, <2>1, <2>2 DEF Load!TypeOK
  <2>4. Forked'
    BY <1>1, <2>1, <2>2 DEF Forked
  \* Nobody is loading, so that everything there is stands in the file.
  <2>5. ~met => load \subseteq pids
    <3> SUFFICES ASSUME ~met, NEW p \in load, p \notin pids PROVE FALSE
      OBVIOUS
    <3>1. pc[p[1]] = "echo" /\ p[1] \in Caller
      BY <1>1 DEF Load!LoadListed, Load!TypeOK, Load!Pid
    <3> QED
      BY <1>1, <1>3, <2>1, <3>1 DEF Apart
  <2>6. ~met => load' = {}
    <3>1. CASE Load!Kill(c)
      BY <2>5, <3>1 DEF Load!Kill
    <3>2. CASE Load!Remove(c)
      BY <1>1, <2>5, <3>2 DEF Load!Remove, NothingListed
    <3> QED
      BY <1>11, <3>1, <3>2
  <2>7. NothingListed' /\ Load!LoadListed'
    BY <1>2, <2>6 DEF NothingListed, Load!LoadListed
  <2> QED
    BY <1>2, <2>3, <2>4, <2>7 DEF LoadInv
<1> QED
  BY <1>6, <1>7, <1>8, <1>9, <1>10, <1>11 DEF Load!Step

LEMMA LoadStep == LoadInv /\ [Load!Next]_(Load!vars) => LoadInv'
<1> SUFFICES ASSUME LoadInv, [Load!Next]_(Load!vars) PROVE LoadInv'
  OBVIOUS
<1>1. CASE UNCHANGED Load!vars
  BY <1>1 DEF Load!vars, LoadInv, Load!TypeOK, Forked, Apart, NothingListed, Load!LoadListed
<1> QED
  BY <1>1, LoadStepInv DEF Load!Next

\* Every process of a load of cpuload is in the PID file, or about to be, unless a
\* release ran while a load was started: for any number of calls and cores.
THEOREM LoadsAlwaysListed == Spec => []LoadListed
<1> DEFINE Inv == script = "cpuload" => LoadInv
<1>1. Init => Inv
  BY LoadInit DEF Init
<1>2. Inv /\ [Next]_vars => Inv'
  BY LoadStep, ScriptStep
<1>3. Inv => LoadListed
  BY DEF LoadInv, LoadListed
<1> QED
  BY <1>1, <1>2, <1>3, PTL DEF Spec

-----------------------------------------------------------------------------
(* repro-swap-volume.py.  While nothing has raised, the statuses of the volumes  *)
(* tell how far the swap of this turn is; the clean-up knows all there is but    *)
(* the resource whose creation raised.                                           *)

Making == {"vol1", "vol2", "server"}
Testing == {"check", "put", "wait vol1", "wait vol2"}
Deleting == {"delete vol1", "delete vol2", "ended"}

\* How far Nova and Cinder are with the swap of this turn, or that it failed.
Progress ==
    LET old == status[Volumes!Old]
        new == status[Volumes!New]
    IN  \/ /\ swap \in {"copying", "attached"} /\ attached = {Volumes!Old} /\ swaps = turn - 1
           /\ old = "in-use" /\ new = IF swap = "copying" THEN "reserved" ELSE "in-use"
        \/ /\ swap = "detached" /\ attached = {Volumes!Old} /\ swaps = turn
           /\ old = "available" /\ new = "in-use"
        \/ swap = "none" /\ swaps = turn - 1 /\ old = "in-use" /\ new = "available"
        \/ swap = "none" /\ swaps = turn /\ old = "available" /\ new = "in-use"

\* Before the swap of this turn; Nova may still be at that of the turn before.
Unswapped ==
    /\ swaps = turn - 1 /\ status[Volumes!Old] = "in-use" /\ status[Volumes!New] = "available"
    /\ swap = "none" \/ (swap = "detached" /\ attached = {Volumes!New})

\* What the script relies on at each of its steps.
Swapping ==
    /\ pc \in Making \cup {"attach"} =>
          /\ turn = 1 /\ swaps = 0 /\ swap = "none" /\ attached = {}
          /\ status["vol1"] = "available" /\ status["vol2"] = "available"
    /\ pc = "check" => Unswapped
    /\ pc = "put" => Unswapped /\ attached = {Volumes!Old}
    /\ pc \in {"wait vol1", "wait vol2"} => Progress
    /\ pc = "wait vol2" => status["vol1"] = IF turn = 1 THEN "available" ELSE "in-use"

\* A swap that is under way is that of this turn.
Counted == swaps <= turn /\ (swap \in {"copying", "attached"} => swaps < turn)

\* What the clean-up does not know of is one resource, of the call that raised.
Known ==
    /\ raised = {} \/ pc \in Deleting \cup {"delete server"}
    /\ "finally" \in raised => pc = "ended"
    /\ pc \in Making => "server" \notin known
    /\ pc \in Testing \cup {"attach"} => "server" \in known
    /\ "server" \notin known => attached = {} /\ swap = "none"
    /\ \A r, s \in exists \ known : r = s
    /\ raised = {} => exists \subseteq known
    /\ exists \ known # {} => "body" \in raised

\* A clean-up deletes in its order, once nothing is attached.
Cleaned ==
    pc \in Deleting /\ "finally" \notin raised =>
        /\ attached = {} /\ swap = "none"
        /\ "server" \notin exists \cap known
        /\ pc # "delete vol1" => "vol1" \notin exists \cap known
        /\ pc = "ended" => "vol2" \notin exists \cap known

SwapInv ==
    Volumes!TypeOK /\ Swapping /\ Counted /\ Known /\ Cleaned /\ Volumes!BothSwapsDone

\* The Cardinality of SwapVolume is that of the library's theorems.
LEMMA SwapCardinality == \A S : Volumes!Cardinality(S) = Cardinality(S)
  BY DEF Volumes!Cardinality, Cardinality

\* Where the steps about each resource are.
LEMMA SwapLabels ==
    /\ Volumes!Wait["vol1"] = "wait vol1" /\ Volumes!Wait["vol2"] = "wait vol2"
    /\ Volumes!Delete["vol1"] = "delete vol1" /\ Volumes!Delete["vol2"] = "delete vol2"
    /\ Volumes!After["vol1"] = "vol2" /\ Volumes!After["vol2"] = "server"
    /\ Volumes!After["server"] = "attach"
  BY DEF Volumes!Wait, Volumes!Delete, Volumes!After

LEMMA SwapInit == Volumes!Init => SwapInv
<1> SUFFICES ASSUME Volumes!Init PROVE SwapInv
  OBVIOUS
<1> USE DEF Volumes!Init
<1>1. Volumes!TypeOK
  BY DEF Volumes!TypeOK, Volumes!Label, Volumes!Resource, Volumes!Volume
<1>2. Swapping
  BY DEF Swapping, Making, Volumes!Volume
<1>3. Counted /\ Known /\ Cleaned /\ Volumes!BothSwapsDone
  BY DEF Counted, Known, Cleaned, Making, Testing, Deleting, Volumes!BothSwapsDone
<1> QED
  BY <1>1, <1>2, <1>3 DEF SwapInv

\* Whatever a call that raises before the clean-up has done to the cloud.
LEMMA SwapRaise ==
    ASSUME SwapInv, Volumes!Raise, pc \notin Deleting \cup {"delete server"},
           turn' = turn, known' = known, Counted',
           status' \in [Volumes!Volume -> {"available", "reserved", "in-use"}],
           attached' \subseteq Volumes!Volume, swaps' \in 0 .. 2,
           swap' \in {"none", "copying", "attached", "detached"},
           "server" \notin known => attached' = {} /\ swap' = "none",
           NEW r \in Volumes!Resource, exists' \in {exists, exists \cup {r}}
    PROVE  SwapInv'
<1>1. Volumes!TypeOK /\ Known
  BY DEF SwapInv
<1>2. pc' = "delete server" /\ raised = {} /\ raised' = {"body"} /\ exists \subseteq known
  BY <1>1 DEF Volumes!Raise, Known
<1>3. Volumes!TypeOK'
  BY <1>1, <1>2 DEF Volumes!TypeOK, Volumes!Label
<1>4. Known'
  BY <1>2 DEF Known, Making, Testing
<1>5. Swapping' /\ Cleaned' /\ Volumes!BothSwapsDone'
  BY <1>2 DEF Swapping, Cleaned, Volumes!BothSwapsDone, Making, Deleting
<1> QED
  BY <1>3, <1>4, <1>5 DEF SwapInv

\* A call of the clean-up that raises.
LEMMA SwapRaiseInFinally ==
    ASSUME SwapInv, Volumes!RaiseInFinally, pc \in Deleting \cup {"delete server"},
           turn' = turn, known' = known, exists' \subseteq exists,
           Volumes!ServerGone \/ UNCHANGED <<attached, swap, status, swaps>>
    PROVE  SwapInv'
<1>1. Volumes!TypeOK /\ Known /\ Counted
  BY DEF SwapInv
<1>2. pc' = "ended" /\ raised' = raised \cup {"finally"}
  BY DEF Volumes!RaiseInFinally
<1>3. /\ status' \in [Volumes!Volume -> {"available", "reserved", "in-use"}] /\ swaps' = swaps
      /\ attached' \in {{}, attached} /\ swap' \in {"none", swap}
      /\ "server" \notin known => attached' = {} /\ swap' = "none"
  BY <1>1 DEF Volumes!TypeOK, Volumes!ServerGone, Known
<1>4. Volumes!TypeOK'
  BY <1>1, <1>2, <1>3 DEF Volumes!TypeOK, Volumes!Label
<1>5. Known'
  BY <1>1, <1>2, <1>3 DEF Known, Making, Testing, Deleting
<1>6. Counted'
  BY <1>1, <1>3 DEF Counted
<1>7. Swapping' /\ Cleaned' /\ Volumes!BothSwapsDone'
  BY <1>2 DEF Swapping, Cleaned, Volumes!BothSwapsDone, Making, Deleting
<1> QED
  BY <1>4, <1>5, <1>6, <1>7 DEF SwapInv

\* The volumes and the server are created.
LEMMA SwapSetup ==
    ASSUME SwapInv, NEW r \in Volumes!Resource, Volumes!Create(r) \/ Volumes!CreateRaises(r)
    PROVE  SwapInv'
<1>1. Volumes!TypeOK /\ Known /\ Counted /\ Swapping
  BY DEF SwapInv
<1>2. r \in {"vol1", "vol2", "server"} /\ pc = r
  BY DEF Volumes!Resource, Volumes!Volume, Volumes!Create, Volumes!CreateRaises
<1>3. CASE Volumes!CreateRaises(r)
  <2>1. Volumes!Raise /\ exists' \in {exists, exists \cup {r}}
        /\ UNCHANGED <<turn, known, status, attached, swap, swaps>>
    BY <1>3 DEF Volumes!CreateRaises
  <2> QED
    BY <1>1, <1>2, <2>1, SwapRaise DEF Volumes!TypeOK, Counted, Deleting, Known
<1>4. CASE Volumes!Create(r)
  <2>1. /\ exists' = exists \cup {r} /\ known' = known \cup {r}
        /\ pc' = IF r = "vol1" THEN "vol2" ELSE IF r = "vol2" THEN "server" ELSE "attach"
        /\ UNCHANGED <<turn, raised, status, attached, swap, swaps>>
    BY <1>2, <1>4, SwapLabels DEF Volumes!Create
  <2>2. raised = {} /\ exists \subseteq known /\ "server" \notin known
    BY <1>1, <1>2 DEF Known, Making, Deleting
  <2>3. /\ turn = 1 /\ swaps = 0 /\ swap = "none" /\ attached = {}
        /\ status["vol1"] = "available" /\ status["vol2"] = "available"
    BY <1>1, <1>2 DEF Swapping, Making
  <2>4. Volumes!TypeOK'
    BY <1>1, <1>2, <2>1 DEF Volumes!TypeOK, Volumes!Label, Volumes!Resource, Volumes!Volume
  <2>5. Known'
    BY <1>2, <2>1, <2>2, <2>3 DEF Known, Making, Testing
  <2>6. Swapping' /\ Cleaned' /\ Counted' /\ Volumes!BothSwapsDone'
    BY <1>2, <2>1, <2>3 DEF Swapping, Cleaned, Counted, Volumes!BothSwapsDone, Making, Deleting
  <2> QED
    BY <2>4, <2>5, <2>6 DEF SwapInv
<1> QED
  BY <1>3, <1>4

\* The volume of the first turn is attached.
LEMMA SwapAttach ==
    ASSUME SwapInv, Volumes!Attach \/ Volumes!AttachRaises
    PROVE  SwapInv'
<1>1. Volumes!TypeOK /\ Known /\ Counted /\ Swapping
  BY DEF SwapInv
<1>2. pc = "attach"
  BY DEF Volumes!Attach, Volumes!AttachRaises
<1>3. raised = {} /\ exists \subseteq known /\ "server" \in known
  BY <1>1, <1>2 DEF Known, Deleting
<1>4. CASE Volumes!AttachRaises
  <2>1. /\ Volumes!Raise /\ UNCHANGED <<turn, known, exists, swap, swaps>>
        /\ status' \in [Volumes!Volume -> {"available", "reserved", "in-use"}]
        /\ attached' \subseteq Volumes!Volume
    BY <1>1, <1>4 DEF Volumes!AttachRaises, Volumes!TypeOK, Volumes!Volume
  <2>2. Counted' /\ "server" \in Volumes!Resource
    BY <1>1, <2>1 DEF Counted, Volumes!Resource
  <2> QED
    BY <1>1, <1>2, <1>3, <2>1, <2>2, SwapRaise DEF Volumes!TypeOK, Deleting
<1>5. CASE Volumes!Attach
  <2>1. /\ attached' = {"vol1"} /\ pc' = "check"
        /\ status' \in [Volumes!Volume -> {"available", "reserved", "in-use"}]
        /\ status'["vol1"] = "in-use" /\ status'["vol2"] = status["vol2"]
        /\ UNCHANGED <<turn, known, raised, exists, swap, swaps>>
    BY <1>1, <1>5 DEF Volumes!Attach, Volumes!TypeOK, Volumes!Volume
  <2>2. turn = 1 /\ swaps = 0 /\ swap = "none" /\ status["vol2"] = "available"
    BY <1>1, <1>2 DEF Swapping
  <2>3. Volumes!TypeOK'
    BY <1>1, <2>1 DEF Volumes!TypeOK, Volumes!Label, Volumes!Volume
  <2>4. Unswapped'
    BY <2>1, <2>2 DEF Unswapped, Volumes!Old, Volumes!New
  <2>5. Swapping' /\ Known' /\ Cleaned' /\ Counted' /\ Volumes!BothSwapsDone'
    BY <1>3, <2>1, <2>2, <2>4 DEF Swapping, Known, Cleaned, Counted, Volumes!BothSwapsDone, Making, Deleting
  <2> QED
    BY <2>3, <2>5 DEF SwapInv
<1> QED
  BY <1>4, <1>5

\* The swap of a turn is asked for.
LEMMA SwapTest ==
    ASSUME SwapInv, Volumes!Check \/ Volumes!Put \/ Volumes!SwapRaises
    PROVE  SwapInv'
<1>1. Volumes!TypeOK /\ Known /\ Counted /\ Swapping
  BY DEF SwapInv
<1>2. pc \in {"check", "put"}
  BY DEF Volumes!Check, Volumes!Put, Volumes!SwapRaises
<1>3. raised = {} /\ exists \subseteq known /\ "server" \in known /\ Unswapped
  BY <1>1, <1>2 DEF Known, Swapping, Testing, Deleting
<1>4. turn \in 1 .. 2 /\ swaps = turn - 1
  BY <1>1, <1>3 DEF Volumes!TypeOK, Unswapped
<1>5. Volumes!Old \in Volumes!Volume /\ Volumes!New \in Volumes!Volume /\ Volumes!Old # Volumes!New
      /\ Volumes!Volume = {Volumes!Old, Volumes!New}
  BY <1>4 DEF Volumes!Old, Volumes!New, Volumes!Volume
\* The swap is asked for, if at all, when it has not begun.
<1>6. ASSUME Volumes!Raise, turn' = turn, known' = known, exists' = exists, attached' = attached, swaps' = swaps,
             \/ UNCHANGED <<swap, status>>
             \/ swap' = "copying" /\ status' = [status EXCEPT ![Volumes!New] = "reserved"]
      PROVE  SwapInv'
  <2>1. /\ status' \in [Volumes!Volume -> {"available", "reserved", "in-use"}]
        /\ attached \subseteq Volumes!Volume /\ swaps \in 0 .. 2
        /\ swap' \in {"none", "copying", "attached", "detached"}
    BY <1>1, <1>5, <1>6 DEF Volumes!TypeOK
  <2>2. Counted' /\ "server" \in Volumes!Resource
    BY <1>4, <1>6 DEF Counted, Volumes!Resource
  <2> QED
    BY <1>2, <1>3, <1>6, <2>1, <2>2, SwapRaise DEF Deleting
<1>7. CASE Volumes!SwapRaises
  BY <1>6, <1>7 DEF Volumes!SwapRaises
<1>8. CASE Volumes!Check
  <2>1. CASE ~(Volumes!Old \in attached /\ Volumes!New \notin attached)
    BY <1>6, <1>8, <2>1 DEF Volumes!Check, Volumes!cloud
  <2>2. CASE Volumes!Old \in attached /\ Volumes!New \notin attached
    <3>1. pc' = "put" /\ UNCHANGED <<turn, known, raised, exists, status, attached, swap, swaps>>
      BY <1>8, <2>2 DEF Volumes!Check, Volumes!cloud
    <3>2. attached = {Volumes!Old}
      BY <1>1, <1>5, <2>2 DEF Volumes!TypeOK
    <3>3. Volumes!Old' = Volumes!Old /\ Unswapped'
      BY <1>3, <3>1 DEF Unswapped, Volumes!Old, Volumes!New
    <3>4. Volumes!TypeOK'
      BY <1>1, <3>1 DEF Volumes!TypeOK, Volumes!Label
    <3>5. Swapping' /\ Known' /\ Cleaned' /\ Counted' /\ Volumes!BothSwapsDone'
      BY <1>1, <1>3, <3>1, <3>2, <3>3
      DEF Swapping, Known, Cleaned, Counted, Volumes!BothSwapsDone, Making, Deleting
    <3> QED
      BY <3>4, <3>5 DEF SwapInv
  <2> QED
    BY <2>1, <2>2
<1>9. CASE Volumes!Put
  <2>1. /\ pc = "put" /\ pc' = "wait vol1" /\ swap' = "copying"
        /\ status' = [status EXCEPT ![Volumes!New] = "reserved"]
        /\ UNCHANGED <<turn, known, raised, exists, attached, swaps>>
    BY <1>9 DEF Volumes!Put
  <2>2. /\ status' \in [Volumes!Volume -> {"available", "reserved", "in-use"}]
        /\ status'[Volumes!New] = "reserved" /\ status'[Volumes!Old] = "in-use"
        /\ Volumes!New' = Volumes!New /\ Volumes!Old' = Volumes!Old
    BY <1>1, <1>3, <1>5, <2>1 DEF Volumes!TypeOK, Unswapped, Volumes!Old, Volumes!New
  <2>3. attached = {Volumes!Old}
    BY <1>1, <2>1 DEF Swapping
  <2>4. Volumes!TypeOK'
    BY <1>1, <2>1, <2>2 DEF Volumes!TypeOK, Volumes!Label
  <2>5. Progress'
    BY <1>4, <2>1, <2>2, <2>3 DEF Progress
  <2>6. Counted'
    <3>1. turn' = turn /\ swaps' = swaps
      BY <2>1
    <3> QED
      BY <1>4, <3>1 DEF Counted
  <2>7. Swapping' /\ Known' /\ Cleaned' /\ Volumes!BothSwapsDone'
    BY <1>3, <2>1, <2>5 DEF Swapping, Known, Cleaned, Volumes!BothSwapsDone, Making, Deleting
  <2> QED
    BY <2>4, <2>6, <2>7 DEF SwapInv
<1> QED
  BY <1>7, <1>8, <1>9

\* Both volumes are waited for, the old one first.
LEMMA SwapWait ==
    ASSUME SwapInv, NEW v \in Volumes!Volume, Volumes!WaitDone(v) \/ Volumes!WaitRaises(v)
    PROVE  SwapInv'
<1>1. Volumes!TypeOK /\ Known /\ Counted /\ Swapping
  BY DEF SwapInv
<1>2. v \in {"vol1", "vol2"} /\ pc = IF v = "vol1" THEN "wait vol1" ELSE "wait vol2"
  BY SwapLabels DEF Volumes!Volume, Volumes!WaitDone, Volumes!WaitRaises
<1>3. raised = {} /\ exists \subseteq known /\ "server" \in known /\ Progress /\ turn \in 1 .. 2
  BY <1>1, <1>2 DEF Known, Swapping, Testing, Deleting, Volumes!TypeOK
<1>4. CASE Volumes!WaitRaises(v)
  <2>1. Volumes!Raise /\ UNCHANGED <<turn, known, exists, status, attached, swap, swaps>>
    BY <1>4 DEF Volumes!WaitRaises, Volumes!cloud
  <2>2. Counted' /\ "server" \in Volumes!Resource
    BY <1>1, <2>1 DEF Counted, Volumes!Resource
  <2> QED
    BY <1>1, <1>2, <1>3, <2>1, <2>2, SwapRaise DEF Volumes!TypeOK, Deleting
<1>5. CASE Volumes!WaitDone(v)
  <2>0. status[v] = IF v = Volumes!New THEN "in-use" ELSE "available"
    BY <1>5 DEF Volumes!WaitDone
  <2>1. /\ UNCHANGED <<known, raised, exists, status, attached, swap, swaps>>
        /\ v = "vol1" => pc' = "wait vol2" /\ turn' = turn
        /\ v # "vol1" /\ turn = 1 => pc' = "check" /\ turn' = 2
        /\ v # "vol1" /\ turn # 1 => pc' = "delete server" /\ turn' = turn
    BY <1>2, <1>3, <1>5 DEF Volumes!WaitDone, Volumes!cloud
  <2>a. swap' = swap /\ swaps' = swaps /\ turn' \in {turn, 2}
    BY <2>1
  <2>b. turn' \in 1 .. 2
    BY <1>3, <2>a
  <2>2. Volumes!TypeOK'
    BY <1>1, <2>1, <2>b DEF Volumes!TypeOK, Volumes!Label
  <2>3. Known' /\ Cleaned'
    BY <1>3, <2>1 DEF Known, Cleaned, Making, Deleting
  <2>4. Counted'
    BY <1>1, <1>3, <2>a DEF Counted, Volumes!TypeOK
  <2>5. CASE v = "vol1"
    <3>1. Progress' /\ turn' = turn /\ pc' = "wait vol2"
      BY <1>3, <2>1, <2>5 DEF Progress, Volumes!Old, Volumes!New
    <3>2. status["vol1"] = IF turn = 1 THEN "available" ELSE "in-use"
      BY <1>3, <2>0, <2>5 DEF Volumes!New
    <3> QED
      BY <2>1, <2>2, <2>3, <2>4, <3>1, <3>2 DEF SwapInv, Swapping, Making, Volumes!BothSwapsDone
  \* Both volumes have been seen as they are after the swap of this turn.
  <2>6. CASE v = "vol2"
    <3>1. status["vol1"] = IF turn = 1 THEN "available" ELSE "in-use"
      BY <1>1, <1>2, <2>6 DEF Swapping
    <3>2. /\ status[Volumes!Old] = "available" /\ status[Volumes!New] = "in-use"
          /\ Volumes!Old = IF turn = 1 THEN "vol1" ELSE "vol2"
          /\ Volumes!New = IF turn = 1 THEN "vol2" ELSE "vol1"
      BY <1>3, <2>0, <2>6, <3>1 DEF Volumes!Old, Volumes!New
    <3>3. swaps = turn /\ (swap = "none" \/ (swap = "detached" /\ attached = {Volumes!Old}))
      BY <1>3, <3>2 DEF Progress
    <3>4. CASE turn = 1
      <4>1. Unswapped' /\ pc' = "check"
        BY <2>1, <2>6, <3>2, <3>3, <3>4 DEF Unswapped, Volumes!Old, Volumes!New
      <4> QED
        BY <2>2, <2>3, <2>4, <4>1 DEF SwapInv, Swapping, Making, Volumes!BothSwapsDone
    <3>5. CASE turn = 2
      <4>1. turn # 1 /\ swaps' = 2
        BY <2>a, <3>3, <3>5
      <4>2. pc' = "delete server"
        BY <2>1, <2>6, <4>1
      <4> QED
        BY <2>2, <2>3, <2>4, <4>1, <4>2 DEF SwapInv, Swapping, Making, Volumes!BothSwapsDone
    <3> QED
      BY <1>3, <3>4, <3>5
  <2> QED
    BY <1>2, <2>5, <2>6
<1> QED
  BY <1>4, <1>5

\* The finally clause.
LEMMA SwapCleanup ==
    ASSUME SwapInv,
           \/ Volumes!DeleteServer \/ Volumes!DeleteServerRaises
           \/ \E v \in Volumes!Volume : Volumes!DeleteVolume(v) \/ Volumes!DeleteVolumeRaises(v)
    PROVE  SwapInv'
<1>1. Volumes!TypeOK /\ Known /\ Counted /\ Cleaned
  BY DEF SwapInv
<1>2. CASE Volumes!DeleteServerRaises
  <2>1. exists' \subseteq exists /\ (Volumes!ServerGone \/ UNCHANGED <<attached, swap, status, swaps>>)
        /\ pc = "delete server" /\ turn' = turn /\ known' = known /\ Volumes!RaiseInFinally
    BY <1>2 DEF Volumes!DeleteServerRaises, Volumes!ServerGone, Volumes!cloud
  <2> QED
    BY <2>1, SwapRaiseInFinally
<1>3. CASE Volumes!DeleteServer
  <2>1. pc = "delete server" /\ pc' = "delete vol1" /\ UNCHANGED <<turn, known, raised>>
    BY <1>3 DEF Volumes!DeleteServer
  <2>2. /\ attached' = {} /\ swap' = "none" /\ swaps' = swaps /\ exists' \subseteq exists
        /\ status' \in [Volumes!Volume -> {"available", "reserved", "in-use"}]
        /\ "server" \notin exists' \cap known
    <3>1. CASE "server" \in known
      BY <1>1, <1>3, <3>1 DEF Volumes!DeleteServer, Volumes!ServerGone, Volumes!TypeOK
    <3>2. CASE "server" \notin known
      BY <1>1, <1>3, <3>2 DEF Volumes!DeleteServer, Volumes!cloud, Volumes!TypeOK, Known
    <3> QED
      BY <3>1, <3>2
  <2>3. Volumes!TypeOK'
    BY <1>1, <2>1, <2>2 DEF Volumes!TypeOK, Volumes!Label
  <2>4. Counted'
    <3>1. turn' = turn
      BY <2>1
    <3> QED
      BY <1>1, <2>2, <3>1 DEF Counted
  <2>5. Known' /\ Cleaned' /\ Swapping' /\ Volumes!BothSwapsDone'
    BY <1>1, <2>1, <2>2 DEF Known, Cleaned, Swapping, Volumes!BothSwapsDone, Making, Testing, Deleting
  <2> QED
    BY <2>3, <2>4, <2>5 DEF SwapInv
<1>4. ASSUME NEW v \in Volumes!Volume, Volumes!DeleteVolumeRaises(v) PROVE SwapInv'
  <2>1. /\ exists' \subseteq exists /\ turn' = turn /\ known' = known /\ Volumes!RaiseInFinally
        /\ UNCHANGED <<attached, swap, status, swaps>>
    BY <1>4 DEF Volumes!DeleteVolumeRaises
  <2>2. pc \in Deleting
    BY <1>4, SwapLabels DEF Volumes!DeleteVolumeRaises, Volumes!Volume, Deleting
  <2> QED
    BY <2>1, <2>2, SwapRaiseInFinally
<1>5. ASSUME NEW v \in Volumes!Volume, Volumes!DeleteVolume(v) PROVE SwapInv'
  <2>1. /\ v \in {"vol1", "vol2"} /\ exists' = exists \ (known \cap {v})
        /\ UNCHANGED <<turn, known, raised, status, attached, swap, swaps>>
        /\ v = "vol1" => pc = "delete vol1" /\ pc' = "delete vol2"
        /\ v = "vol2" => pc = "delete vol2" /\ pc' = "ended"
    BY <1>5, SwapLabels DEF Volumes!DeleteVolume, Volumes!Volume
  <2>2. Volumes!TypeOK'
    BY <1>1, <2>1 DEF Volumes!TypeOK, Volumes!Label
  <2>3. Counted'
    <3>1. turn' = turn /\ swaps' = swaps /\ swap' = swap
      BY <2>1
    <3> QED
      BY <1>1, <3>1 DEF Counted
  <2>4. "finally" \notin raised
    BY <1>1, <2>1 DEF Known
  <2>5. Cleaned'
    <3>1. /\ attached' = {} /\ swap' = "none"
          /\ "server" \notin exists \cap known /\ (v = "vol2" => "vol1" \notin exists \cap known)
      BY <1>1, <2>1, <2>4 DEF Cleaned, Deleting
    <3>2. /\ "server" \notin exists' \cap known' /\ "vol1" \notin exists' \cap known'
          /\ v = "vol2" => "vol2" \notin exists' \cap known'
      BY <2>1, <3>1
    <3> QED
      BY <2>1, <3>1, <3>2 DEF Cleaned
  <2>6. Known' /\ Swapping' /\ Volumes!BothSwapsDone'
    BY <1>1, <2>1 DEF Known, Swapping, Volumes!BothSwapsDone, Making, Testing, Deleting
  <2> QED
    BY <2>2, <2>3, <2>5, <2>6 DEF SwapInv
<1> QED
  BY <1>2, <1>3, <1>4, <1>5

\* Nova and Cinder get on with a swap, or fail to.
LEMMA SwapNova ==
    ASSUME SwapInv,
           Volumes!NewInUse \/ Volumes!SwapFails \/ Volumes!OldAvailable \/ Volumes!NovaSwapped
    PROVE  SwapInv'
<1>1. Volumes!TypeOK /\ Known /\ Counted /\ Cleaned /\ Swapping /\ Volumes!BothSwapsDone
  BY DEF SwapInv
<1>2. /\ swap # "none" /\ UNCHANGED <<pc, known, raised, exists>>
      /\ turn' = turn /\ turn \in 1 .. 2
  BY <1>1 DEF Volumes!NewInUse, Volumes!SwapFails, Volumes!OldAvailable, Volumes!NovaSwapped, Volumes!TypeOK
<1>3. Volumes!Old' = Volumes!Old /\ Volumes!New' = Volumes!New
  BY <1>2 DEF Volumes!Old, Volumes!New
<1>4. Volumes!Old \in Volumes!Volume /\ Volumes!New \in Volumes!Volume /\ Volumes!Old # Volumes!New
      /\ Volumes!Volume = {Volumes!Old, Volumes!New}
  BY <1>2 DEF Volumes!Old, Volumes!New, Volumes!Volume
<1>5. pc \notin Making \cup {"attach", "put"} /\ (pc \in Deleting => "finally" \in raised)
  BY <1>1, <1>2 DEF Swapping, Cleaned, Unswapped, Volumes!TypeOK
<1>6. swaps \in 0 .. 2 /\ status \in [Volumes!Volume -> {"available", "reserved", "in-use"}]
      /\ attached \subseteq Volumes!Volume
  BY <1>1 DEF Volumes!TypeOK
\* What a step shows the script, which keeps its own.
<1>7. ASSUME status' \in [Volumes!Volume -> {"available", "reserved", "in-use"}],
             attached' \subseteq Volumes!Volume, swaps' \in 0 .. 2,
             swap' \in {"none", "copying", "attached", "detached"}, Counted',
             pc = "check" => Unswapped', Progress => Progress',
             Progress /\ turn = 1 /\ status[Volumes!Old] = "available" => status'[Volumes!Old] = "available",
             Progress /\ turn = 2 /\ status[Volumes!New] = "in-use" => status'[Volumes!New] = "in-use",
             swaps = 2 => swaps' = 2
      PROVE  SwapInv'
  <2>1. Volumes!TypeOK'
    BY <1>1, <1>2, <1>7 DEF Volumes!TypeOK
  <2>2. Known' /\ Cleaned' /\ Volumes!BothSwapsDone'
    BY <1>1, <1>2, <1>5, <1>7 DEF Known, Cleaned, Volumes!BothSwapsDone
  <2>3. ASSUME pc = "wait vol2" PROVE status'["vol1"] = IF turn' = 1 THEN "available" ELSE "in-use"
    <3>1. Progress /\ status["vol1"] = IF turn = 1 THEN "available" ELSE "in-use"
      BY <1>1, <2>3 DEF Swapping
    <3> QED
      BY <1>2, <1>7, <3>1 DEF Volumes!Old, Volumes!New
  <2>4. Swapping'
    BY <1>1, <1>2, <1>5, <1>7, <2>3 DEF Swapping
  <2> QED
    BY <1>7, <2>1, <2>2, <2>4 DEF SwapInv
<1>8. swap \in {"copying", "attached"} => pc # "check"
  BY <1>1 DEF Swapping, Unswapped
<1>9. CASE Volumes!NewInUse
  <2>1. /\ swap = "copying" /\ swap' = "attached" /\ attached' = attached /\ swaps' = swaps
        /\ status' \in [Volumes!Volume -> {"available", "reserved", "in-use"}]
        /\ status'[Volumes!New] = "in-use" /\ status'[Volumes!Old] = status[Volumes!Old]
    BY <1>4, <1>6, <1>9 DEF Volumes!NewInUse
  <2>2. Counted' /\ (Progress => Progress')
    BY <1>1, <1>2, <1>3, <2>1 DEF Counted, Progress
  <2> QED
    BY <1>6, <1>7, <1>8, <2>1, <2>2
<1>10. CASE Volumes!SwapFails
  <2>1. /\ swap = "copying" /\ swap' = "none" /\ attached' = attached /\ swaps' = swaps
        /\ status' \in [Volumes!Volume -> {"available", "reserved", "in-use"}]
        /\ status'[Volumes!New] = "available" /\ status'[Volumes!Old] = status[Volumes!Old]
    BY <1>4, <1>6, <1>10 DEF Volumes!SwapFails
  <2>2. Counted' /\ (Progress => Progress' /\ status[Volumes!New] = "reserved")
    BY <1>1, <1>2, <1>3, <2>1 DEF Counted, Progress
  <2> QED
    BY <1>6, <1>7, <1>8, <2>1, <2>2
<1>11. CASE Volumes!OldAvailable
  <2>1. /\ swap = "attached" /\ swap' = "detached" /\ attached' = attached /\ swaps' = swaps + 1
        /\ status' \in [Volumes!Volume -> {"available", "reserved", "in-use"}]
        /\ status'[Volumes!Old] = "available" /\ status'[Volumes!New] = status[Volumes!New]
    BY <1>4, <1>6, <1>11 DEF Volumes!OldAvailable
  <2>2. swaps < turn /\ swaps' \in 0 .. 2 /\ Counted' /\ swaps # 2
    BY <1>1, <1>2, <1>6, <2>1 DEF Counted
  <2>3. Progress => Progress'
    BY <1>2, <1>3, <2>1 DEF Progress
  <2> QED
    BY <1>6, <1>7, <1>8, <2>1, <2>2, <2>3
<1>12. CASE Volumes!NovaSwapped
  <2>1. /\ swap = "detached" /\ swap' = "none" /\ attached' \subseteq Volumes!Volume /\ swaps' = swaps
        /\ status' = status
    BY <1>12 DEF Volumes!NovaSwapped
  <2>2. Counted' /\ (Progress => Progress') /\ (pc = "check" => Unswapped')
    BY <1>1, <1>2, <1>3, <2>1 DEF Counted, Progress, Unswapped, Swapping
  <2> QED
    BY <1>6, <1>7, <2>1, <2>2
<1> QED
  BY <1>9, <1>10, <1>11, <1>12

LEMMA SwapStep == SwapInv /\ [Volumes!Next]_(Volumes!vars) => SwapInv'
<1> SUFFICES ASSUME SwapInv, [Volumes!Next]_(Volumes!vars) PROVE SwapInv'
  OBVIOUS
<1>1. CASE UNCHANGED Volumes!vars
  <2>1. /\ pc' = pc /\ turn' = turn /\ known' = known /\ raised' = raised /\ exists' = exists
        /\ status' = status /\ attached' = attached /\ swap' = swap /\ swaps' = swaps
    BY <1>1 DEF Volumes!vars
  <2>2. Volumes!Old' = Volumes!Old /\ Volumes!New' = Volumes!New
    BY <2>1 DEF Volumes!Old, Volumes!New
  <2>3. (Progress => Progress') /\ (Unswapped => Unswapped')
    BY <2>1, <2>2 DEF Progress, Unswapped
  <2>4. (Volumes!TypeOK => Volumes!TypeOK') /\ (Known => Known') /\ (Cleaned => Cleaned')
    BY <2>1 DEF Volumes!TypeOK, Known, Cleaned
  <2>5. (Swapping => Swapping') /\ (Counted => Counted') /\ Volumes!BothSwapsDone = Volumes!BothSwapsDone'
    BY <2>1, <2>2, <2>3 DEF Swapping, Counted, Volumes!BothSwapsDone
  <2> QED
    BY <2>4, <2>5 DEF SwapInv
<1>2. CASE Volumes!Next
  BY <1>2, SwapSetup, SwapAttach, SwapTest, SwapWait, SwapCleanup, SwapNova DEF Volumes!Next
<1> QED
  BY <1>1, <1>2

\* test_swap_volume of repro-swap-volume.py returns only when both swaps are through.
THEOREM SwapsAlwaysDone == Spec => []BothSwapsDone
<1> DEFINE Inv == script = "swap" => SwapInv
<1>1. Init => Inv
  BY SwapInit DEF Init
<1>2. Inv /\ [Next]_vars => Inv'
  BY SwapStep, ScriptStep
<1>3. Inv => BothSwapsDone
  BY DEF SwapInv, BothSwapsDone
<1> QED
  BY <1>1, <1>2, <1>3, PTL DEF Spec

\* Its cleanup asks for no deletion of a volume that is attached.
THEOREM AlwaysDetachedFirst == Spec => []DetachedFirst
<1> DEFINE Inv == script = "swap" => SwapInv
<1>1. Init => Inv
  BY SwapInit DEF Init
<1>2. Inv /\ [Next]_vars => Inv'
  BY SwapStep, ScriptStep
<1>3. ASSUME SwapInv PROVE Volumes!DetachedFirst
  <2>1. Known /\ Cleaned
    BY <1>3 DEF SwapInv
  <2> SUFFICES ASSUME NEW v \in Volumes!Volume, pc = Volumes!Delete[v] PROVE attached = {} /\ swap = "none"
    BY DEF Volumes!DetachedFirst
  <2>2. pc = "delete vol1" \/ pc = "delete vol2"
    BY SwapLabels DEF Volumes!Volume
  <2>3. pc \in Deleting /\ "finally" \notin raised
    BY <2>1, <2>2 DEF Known, Deleting
  <2> QED
    BY <2>1, <2>3 DEF Cleaned
<1>4. Inv => DetachedFirst
  BY <1>3 DEF DetachedFirst
<1> QED
  BY <1>1, <1>2, <1>4, PTL DEF Spec

\* A clean-up that ran to its end leaves at most the one resource whose creation
\* raised.
THEOREM LeftIsAlwaysLone == Spec => []LeftIsLone
<1> DEFINE Inv == script = "swap" => SwapInv
<1>1. Init => Inv
  BY SwapInit DEF Init
<1>2. Inv /\ [Next]_vars => Inv'
  BY SwapStep, ScriptStep
<1>3. ASSUME SwapInv PROVE Volumes!LeftIsLone
  <2>1. Volumes!TypeOK /\ Known /\ Cleaned
    BY <1>3 DEF SwapInv
  <2> SUFFICES ASSUME pc = "ended", "finally" \notin raised
               PROVE  /\ Cardinality(exists) <= 1 /\ attached = {}
                      /\ exists # {} => "body" \in raised
    BY SwapCardinality DEF Volumes!LeftIsLone
  <2>2. attached = {} /\ exists \cap known = {}
    BY <2>1 DEF Cleaned, Deleting, Volumes!TypeOK, Volumes!Resource, Volumes!Volume
  <2>3. (exists # {} => "body" \in raised) /\ \A r, s \in exists : r = s
    BY <2>1, <2>2 DEF Known
  <2>4. Cardinality(exists) <= 1
    <3>1. CASE exists = {}
      BY <3>1, FS_EmptySet
    <3>2. ASSUME NEW r \in exists PROVE Cardinality(exists) = 1
      <4>1. exists = {r}
        BY <2>3, <3>2
      <4> QED
        BY <4>1, FS_Singleton
    <3> QED
      BY <3>1, <3>2
  <2> QED
    BY <2>2, <2>3, <2>4
<1>4. Inv => LeftIsLone
  BY <1>3 DEF LeftIsLone
<1> QED
  BY <1>1, <1>2, <1>4, PTL DEF Spec

-----------------------------------------------------------------------------
(* notispy.  What is stored is what the handlers are behind the append with and  *)
(* what they acknowledged; the files below the next are written with it.         *)

\* Apart, so that the steps about numbers need not look into these labels.
SpyExit == {"exit 0", "exit 200"}
SpyLabel == {"start", "loop", "stop", "wait", "write", "killed"} \cup SpyExit

SpyType ==
    /\ cloud \in [waiting : SUBSET Message, handling : SUBSET Message,
                stored : SUBSET Message, acked : SUBSET Message]
    /\ local \in [run : 1 .. Runs, save : BOOLEAN, given : SUBSET Topic, failed : BOOLEAN,
                  pc : SpyLabel,
                  listening : BOOLEAN, store : Seq(Message), next : Nat,
                  disk : [Spy!Index -> Message \cup {0}], before : [Spy!Index -> Message \cup {0}]]

\* With --save, what the handlers are past the append with is in the store.
Stored == local.save => cloud.stored \cup cloud.acked = Spy!ToSet(local.store)

\* No handler runs when main writes: wait() was first.
Stopping ==
    /\ local.listening => local.pc \in {"loop", "stop"}
    /\ local.pc \in {"write"} \cup SpyExit => cloud.handling \cup cloud.stored = {}

\* The files below the next are the store's, the others those of the run before.
Written ==
    /\ local.next <= Len(local.store)
    /\ local.pc \in {"start", "loop", "stop", "wait"} => local.next = 0
    /\ local.pc \in SpyExit => local.next = Len(local.store)
    /\ \A i \in Spy!Index : local.disk[i] = IF i < local.next THEN local.store[i + 1] ELSE local.before[i]

SpyInv == SpyType /\ Stored /\ Stopping /\ Written

LEMMA SpyTyped == SpyInv => Spy!TypeOK
<1>1. SpyLabel = {"start", "loop", "stop", "wait", "write", "exit 0", "exit 200", "killed"}
  BY DEF SpyLabel, SpyExit
<1>2. SpyType => Spy!TypeOK
  BY <1>1 DEF SpyType, Spy!TypeOK
<1> QED
  BY <1>2 DEF SpyInv

LEMMA SpyLabels ==
    /\ {"start", "loop", "stop", "wait", "write", "killed"} \subseteq SpyLabel
    /\ {"start", "loop", "stop", "wait", "write", "killed"} \cap SpyExit = {}
    /\ SpyExit \subseteq SpyLabel
  BY DEF SpyLabel, SpyExit

\* A step of main that touches neither the store nor the files.
LEMMA SpyMain ==
    ASSUME SpyType, NEW label \in SpyLabel, cloud' = cloud,
           \/ local' = [local EXCEPT !.pc = label]
           \/ \E b \in BOOLEAN : local' = [local EXCEPT !.pc = label, !.listening = b]
           \/ local' = [local EXCEPT !.pc = label, !.failed = TRUE]
    PROVE  /\ SpyType' /\ local'.pc = label /\ local'.save = local.save /\ local'.store = local.store
           /\ local'.next = local.next /\ local'.disk = local.disk /\ local'.before = local.before
<1>1. CASE local' = [local EXCEPT !.pc = label]
  BY <1>1 DEF SpyType
<1>2. CASE \E b \in BOOLEAN : local' = [local EXCEPT !.pc = label, !.listening = b]
  BY <1>2 DEF SpyType
<1>3. CASE local' = [local EXCEPT !.pc = label, !.failed = TRUE]
  BY <1>3 DEF SpyType
<1> QED
  BY <1>1, <1>2, <1>3

\* An append adds to what the store holds.
LEMMA SpyAppend ==
    ASSUME NEW s \in Seq(Message), NEW m \in Message
    PROVE  Spy!ToSet(Append(s, m)) = Spy!ToSet(s) \cup {m}
<1>1. /\ Append(s, m) \in Seq(Message) /\ Len(Append(s, m)) = Len(s) + 1
      /\ \A i \in 1 .. Len(s) : Append(s, m)[i] = s[i]
      /\ Append(s, m)[Len(s) + 1] = m
  OBVIOUS
<1>2. DOMAIN s = 1 .. Len(s) /\ DOMAIN Append(s, m) = 1 .. Len(s) + 1 /\ Len(s) \in Nat
  OBVIOUS
<1> QED
  BY <1>1, <1>2 DEF Spy!ToSet

LEMMA SpyInit == Spy!Init => SpyInv
<1> SUFFICES ASSUME Spy!Init PROVE SpyInv
  OBVIOUS
<1>1. cloud = [waiting |-> Message, handling |-> {}, stored |-> {}, acked |-> {}]
  BY DEF Spy!Init
<1>2. local \in [run : {1}, save : BOOLEAN, given : SUBSET Topic, pc : {"start"}, failed : {FALSE},
                  listening : {FALSE}, store : {<<>>}, next : {0},
                  disk : {[i \in Spy!Index |-> 0]}, before : {[i \in Spy!Index |-> 0]}]
  BY DEF Spy!Init
<1>3. /\ local.store = <<>> /\ local.next = 0 /\ local.pc = "start" /\ local.listening = FALSE
      /\ local.run = 1 /\ local.disk = [i \in Spy!Index |-> 0] /\ local.before = local.disk
  BY <1>2
<1>4. SpyType
  <2>1. local.run \in 1 .. Runs /\ local.pc \in SpyLabel /\ local.store \in Seq(Message)
    BY <1>3, RunsAssumption, SpyLabels
  <2>2. local.save \in BOOLEAN /\ local.given \in SUBSET Topic /\ local.failed \in BOOLEAN
    BY <1>2
  <2>3. local.listening \in BOOLEAN
    BY <1>2
  <2>6. /\ local.next \in Nat /\ local.disk \in [Spy!Index -> Message \cup {0}] /\ local.before \in [Spy!Index -> Message \cup {0}]
    BY <1>2
  <2>4. local = [run |-> local.run, save |-> local.save, given |-> local.given, failed |-> local.failed,
                 pc |-> local.pc, listening |-> local.listening, store |-> local.store,
                 next |-> local.next, disk |-> local.disk, before |-> local.before]
    BY <1>2
  <2>5. local \in [run : 1 .. Runs, save : BOOLEAN, given : SUBSET Topic, failed : BOOLEAN,
                   pc : SpyLabel, listening : BOOLEAN, store : Seq(Message), next : Nat,
                   disk : [Spy!Index -> Message \cup {0}], before : [Spy!Index -> Message \cup {0}]]
    BY <2>1, <2>2, <2>3, <2>4, <2>6
  <2> QED
    BY <1>1, <2>5 DEF SpyType
<1>5. Spy!ToSet(<<>>) = {}
  BY DEF Spy!ToSet
<1>6. Written
  <2>1. \A i \in Spy!Index : i \in Nat
    BY DEF Spy!Index
  <2> QED
    BY <1>3, <2>1, SpyLabels DEF Written
<1> QED
  BY <1>1, <1>3, <1>4, <1>5, <1>6, SpyLabels DEF SpyInv, Stored, Stopping

LEMMA SpyStep == SpyInv /\ [Spy!Next]_(Spy!vars) => SpyInv'
<1> SUFFICES ASSUME SpyInv, [Spy!Next]_(Spy!vars) PROVE SpyInv'
  OBVIOUS
<1>t. SpyType /\ Stored /\ Stopping /\ Written
  BY DEF SpyInv
<1>1. ASSUME NEW m \in Message, Spy!Receive(m) PROVE SpyInv'
  <2>1. /\ local.listening /\ local' = local
        /\ cloud' = [cloud EXCEPT !.waiting = @ \ {m}, !.handling = @ \cup {m}]
    BY <1>1 DEF Spy!Receive
  <2>2. SpyType' /\ cloud'.stored = cloud.stored /\ cloud'.acked = cloud.acked
    BY <1>t, <2>1 DEF SpyType
  <2>3. local.pc \in {"loop", "stop"}
    BY <1>t, <2>1 DEF Stopping
  <2>4. Stopping' /\ Stored' /\ Written'
    BY <1>t, <2>1, <2>2, <2>3, SpyLabels DEF Stopping, Stored, Written
  <2> QED
    BY <2>2, <2>4 DEF SpyInv
<1>2. ASSUME NEW m \in Message, Spy!Store(m) PROVE SpyInv'
  <2>1. /\ m \in cloud.handling /\ local' = IF local.save THEN [local EXCEPT !.store = Append(@, m)] ELSE local
        /\ cloud' = [cloud EXCEPT !.handling = @ \ {m}, !.stored = @ \cup {m}]
    BY <1>2 DEF Spy!Store
  <2>2. /\ cloud'.stored = cloud.stored \cup {m} /\ cloud'.acked = cloud.acked
        /\ cloud' \in [waiting : SUBSET Message, handling : SUBSET Message,
                        stored : SUBSET Message, acked : SUBSET Message]
    BY <1>t, <2>1 DEF SpyType
  <2>3. local.pc \notin {"write"} \cup SpyExit
    BY <1>t, <2>1 DEF Stopping
  <2>4. CASE local' = local /\ ~local.save
    <3>1. SpyType'
      BY <1>t, <2>2, <2>4 DEF SpyType
    <3> QED
      BY <1>t, <2>3, <2>4, <3>1 DEF SpyInv, Stored, Stopping, Written
  <2>5. CASE local' = [local EXCEPT !.store = Append(@, m)]
    <3>1. /\ local.store \in Seq(Message) /\ local.next \in Nat
          /\ \A i \in Spy!Index : i \in Nat
      BY <1>t DEF SpyType, Spy!Index
    <3>2. /\ Append(local.store, m) \in Seq(Message)
          /\ Len(Append(local.store, m)) = Len(local.store) + 1 /\ Len(local.store) \in Nat
          /\ \A i \in 1 .. Len(local.store) : Append(local.store, m)[i] = local.store[i]
      BY <3>1
    <3>3. /\ local'.store = Append(local.store, m) /\ local'.next = local.next /\ local'.pc = local.pc
          /\ local'.save = local.save /\ local'.listening = local.listening
          /\ local'.disk = local.disk /\ local'.before = local.before
      BY <1>t, <2>5 DEF SpyType
    <3>4. SpyType'
      BY <1>t, <2>2, <2>5, <3>2 DEF SpyType
    <3>5. Stored'
      BY <1>t, <2>2, <3>1, <3>3, SpyAppend DEF Stored
    <3>6. Stopping'
      BY <1>t, <2>3, <3>3 DEF Stopping
    <3>7. local'.next <= Len(local'.store)
      BY <1>t, <3>1, <3>2, <3>3 DEF Written
    <3>8. ASSUME NEW i \in Spy!Index
          PROVE  local'.disk[i] = IF i < local'.next THEN local'.store[i + 1] ELSE local'.before[i]
      <4>1. i < local.next => i + 1 \in 1 .. Len(local.store)
        BY <1>t, <3>1, <3>2 DEF Written
      <4> QED
        BY <1>t, <3>2, <3>3, <4>1 DEF Written
    <3>9. Written'
      BY <1>t, <2>3, <3>3, <3>7, <3>8 DEF Written
    <3> QED
      BY <3>4, <3>5, <3>6, <3>9 DEF SpyInv
  <2> QED
    BY <2>1, <2>4, <2>5
<1>3. ASSUME NEW m \in Message, Spy!Return(m) PROVE SpyInv'
  <2>1. /\ m \in cloud.stored /\ local' = local
        /\ cloud' = [cloud EXCEPT !.stored = @ \ {m}, !.acked = @ \cup {m}]
    BY <1>3 DEF Spy!Return
  <2>2. SpyType' /\ cloud'.handling = cloud.handling /\ cloud'.stored = cloud.stored \ {m}
        /\ cloud'.acked = cloud.acked \cup {m}
    BY <1>t, <2>1 DEF SpyType
  <2>3. Stopping' /\ Stored' /\ Written'
    BY <1>t, <2>1, <2>2 DEF Stopping, Stored, Written
  <2> QED
    BY <2>2, <2>3 DEF SpyInv
\* The steps of main that touch neither the store nor the files.
<1>4. CASE Spy!Start \/ Spy!Interrupt \/ Spy!Stop \/ Spy!Wait \/ Spy!InterruptAgain
  <2> DEFINE Rest ==
          /\ cloud' = cloud /\ SpyType' /\ local'.save = local.save /\ local'.store = local.store
          /\ local'.next = local.next /\ local'.disk = local.disk /\ local'.before = local.before
  <2>1. Rest /\ local'.pc \in {"loop", "stop", "wait", "write", "killed"}
    <3>1. {"loop", "stop", "wait", "write", "killed"} \subseteq SpyLabel
      BY SpyLabels
    <3>2. CASE Spy!Start
      BY <1>t, <3>1, <3>2, SpyMain DEF Spy!Start
    <3>3. CASE Spy!Interrupt \/ Spy!Stop \/ Spy!Wait \/ Spy!InterruptAgain
      BY <1>t, <3>1, <3>3, SpyMain DEF Spy!Interrupt, Spy!Stop, Spy!Wait, Spy!InterruptAgain
    <3> QED
      BY <1>4, <3>2, <3>3
  <2>2. /\ local'.pc \in {"loop", "stop", "wait"} => local.pc \in {"start", "loop", "stop"}
        /\ local'.pc = "write" => cloud.handling \cup cloud.stored = {} /\ ~local'.listening
        /\ local'.listening => local'.pc \in {"loop", "stop"}
    <3>0. local.pc = "start" => ~local.listening
      BY <1>t DEF Stopping
    <3>1. CASE Spy!Start
      <4>1. local.pc = "start"
        BY <3>1 DEF Spy!Start
      <4>2. CASE local' = [local EXCEPT !.pc = "loop", !.listening = TRUE]
        BY <1>t, <4>1, <4>2 DEF SpyType
      <4>3. CASE local' = [local EXCEPT !.pc = "stop", !.failed = TRUE]
        BY <1>t, <4>1, <4>3 DEF SpyType
      <4> QED
        BY <3>1, <4>2, <4>3 DEF Spy!Start
    <3>4. CASE Spy!Interrupt
      BY <1>t, <3>0, <3>4 DEF Spy!Interrupt, SpyType
    <3>2. CASE Spy!Stop \/ Spy!InterruptAgain
      BY <1>t, <3>2 DEF Spy!Stop, Spy!InterruptAgain, SpyType
    <3>3. CASE Spy!Wait
      BY <1>t, <3>3 DEF Spy!Wait, SpyType, Stopping
    <3> QED
      BY <1>4, <3>1, <3>2, <3>3, <3>4
  <2>3. Stored' /\ Stopping'
    BY <1>t, <2>1, <2>2, SpyLabels DEF Stored, Stopping
  <2>4. Written'
    BY <1>t, <2>1, <2>2, SpyLabels DEF Written
  <2> QED
    BY <2>1, <2>3, <2>4 DEF SpyInv
<1>5. CASE Spy!Write
  <2>1. /\ local.pc = "write" /\ cloud' = cloud
        /\ local.next \in Nat /\ Len(local.store) \in Nat /\ local.next <= Len(local.store)
        /\ \A i \in Spy!Index : i \in Nat
    <3>1. local.pc = "write" /\ cloud' = cloud
      BY <1>5 DEF Spy!Write
    <3>2. \A i \in Spy!Index : i \in Nat
      BY DEF Spy!Index
    <3>3. local.next \in Nat /\ Len(local.store) \in Nat /\ local.next <= Len(local.store)
      BY <1>t DEF SpyType, Written
    <3> QED
      BY <3>1, <3>2, <3>3
  <2>2. CASE local.next < Len(local.store)
    <3>1. local' = [local EXCEPT !.disk[local.next] = local.store[local.next + 1], !.next = @ + 1]
      BY <1>5, <2>2 DEF Spy!Write
    <3>2. local.store[local.next + 1] \in Message
      BY <1>t, <2>1, <2>2 DEF SpyType
    <3>3. SpyType'
      <4> DEFINE disk == [local.disk EXCEPT ![local.next] = local.store[local.next + 1]]
      <4>1. disk \in [Spy!Index -> Message \cup {0}]
        BY <1>t, <3>2 DEF SpyType
      <4> DEFINE next == local.next + 1
      <4>2. local' = [local EXCEPT !.disk = disk, !.next = next]
        BY <1>t, <3>1 DEF SpyType
      <4>3. next \in Nat /\ cloud' = cloud
        BY <2>1
      <4> HIDE DEF disk, next
      <4> QED
        BY <1>t, <4>1, <4>2, <4>3 DEF SpyType
    <3>4. /\ local'.pc = "write" /\ local'.next = local.next + 1 /\ local'.store = local.store
          /\ local'.save = local.save /\ local'.listening = local.listening /\ local'.before = local.before
          /\ local'.disk = [local.disk EXCEPT ![local.next] = local.store[local.next + 1]]
      BY <1>t, <2>1, <3>1 DEF SpyType
    <3>5. ASSUME NEW i \in Spy!Index
          PROVE  local'.disk[i] = IF i < local'.next THEN local'.store[i + 1] ELSE local'.before[i]
      <4>1. local.disk \in [Spy!Index -> Message \cup {0}]
        BY <1>t DEF SpyType
      <4>2. CASE i = local.next
        BY <2>1, <3>4, <4>1, <4>2
      <4>3. CASE i # local.next
        <5>1. local'.disk[i] = local.disk[i] /\ (i < local.next + 1 <=> i < local.next)
          BY <2>1, <3>4, <4>1, <4>3
        <5> QED
          BY <1>t, <3>4, <5>1 DEF Written
      <4> QED
        BY <4>2, <4>3
    <3>6. Written'
      BY <2>1, <2>2, <3>4, <3>5, SpyLabels DEF Written
    <3>7. Stored' /\ Stopping'
      BY <1>t, <2>1, <3>4, SpyLabels DEF Stored, Stopping
    <3> QED
      BY <3>3, <3>6, <3>7 DEF SpyInv
  <2>3. CASE ~(local.next < Len(local.store))
    <3>1. PICK exit \in SpyExit : local' = [local EXCEPT !.pc = exit]
      BY <1>5, <2>3 DEF Spy!Write, SpyExit
    <3>2. /\ SpyType' /\ local'.pc \in SpyExit
          /\ local'.next = local.next /\ local'.store = local.store /\ local'.disk = local.disk
          /\ local'.save = local.save /\ local'.listening = local.listening /\ local'.before = local.before
      <4>1. exit \in SpyLabel
        BY SpyLabels
      <4>2. /\ SpyType' /\ local'.pc = exit
            /\ local'.next = local.next /\ local'.store = local.store /\ local'.disk = local.disk
            /\ local'.save = local.save /\ local'.before = local.before
        BY <1>t, <2>1, <3>1, <4>1, SpyMain
      <4>3. local'.listening = local.listening
        BY <1>t, <3>1 DEF SpyType
      <4> QED
        BY <4>2, <4>3
    <3>3. local.next = Len(local.store)
      BY <2>1, <2>3
    <3> QED
      BY <1>t, <2>1, <3>2, <3>3, SpyLabels DEF SpyInv, Stored, Stopping, Written
  <2> QED
    BY <2>2, <2>3
<1>6. CASE Spy!Again
  <2>1. /\ local.run < Runs
        /\ cloud' = [cloud EXCEPT !.waiting = @ \cup cloud.handling \cup cloud.stored,
                          !.handling = {}, !.stored = {}, !.acked = {}]
        /\ local' = [local EXCEPT !.run = @ + 1, !.pc = "start", !.failed = FALSE,
                              !.store = <<>>, !.next = 0, !.before = local.disk]
        /\ local.pc \in {"killed"} \cup SpyExit
    BY <1>6 DEF Spy!Again, SpyExit
  <2>2. local.run + 1 \in 1 .. Runs
    BY <1>t, <2>1, RunsAssumption DEF SpyType
  <2>3. /\ cloud'.stored = {} /\ cloud'.acked = {} /\ cloud'.handling = {}
        /\ cloud' \in [waiting : SUBSET Message, handling : SUBSET Message,
                        stored : SUBSET Message, acked : SUBSET Message]
    BY <1>t, <2>1 DEF SpyType
  <2>4. /\ local'.store = <<>> /\ local'.next = 0 /\ local'.pc = "start" /\ local'.before = local.disk
        /\ local'.disk = local.disk /\ local'.listening = local.listening
        /\ local'.run = local.run + 1 /\ local'.failed = FALSE /\ local'.save = local.save
        /\ local'.given = local.given
        /\ local' = [run |-> local'.run, save |-> local'.save, given |-> local'.given, failed |-> local'.failed,
                     pc |-> local'.pc, listening |-> local'.listening, store |-> local'.store,
                     next |-> local'.next, disk |-> local'.disk, before |-> local'.before]
    BY <1>t, <2>1 DEF SpyType
  <2>a. SpyType'
    <3>1. "start" \in SpyLabel /\ <<>> \in Seq(Message) /\ 0 \in Nat
      BY SpyLabels
    <3>2. /\ local.save \in BOOLEAN /\ local.given \in SUBSET Topic /\ local.listening \in BOOLEAN
          /\ local.disk \in [Spy!Index -> Message \cup {0}]
      BY <1>t DEF SpyType
    <3>3. local' \in [run : 1 .. Runs, save : BOOLEAN, given : SUBSET Topic, failed : BOOLEAN,
                   pc : SpyLabel, listening : BOOLEAN, store : Seq(Message), next : Nat,
                   disk : [Spy!Index -> Message \cup {0}], before : [Spy!Index -> Message \cup {0}]]
      BY <2>2, <2>4, <3>1, <3>2
    <3> QED
      BY <2>3, <3>3 DEF SpyType
  <2>5. Spy!ToSet(<<>>) = {} /\ \A i \in Spy!Index : i \in Nat
    BY DEF Spy!ToSet, Spy!Index
  <2>6. Written'
    BY <2>4, <2>5, SpyLabels DEF Written
  <2>7. Stored' /\ Stopping'
    BY <1>t, <2>1, <2>3, <2>4, <2>5, SpyLabels DEF Stored, Stopping
  <2> QED
    BY <2>a, <2>6, <2>7 DEF SpyInv
<1>7. CASE UNCHANGED Spy!vars
  BY <1>7 DEF Spy!vars, SpyInv, SpyType, Stored, Stopping, Written
<1> QED
  BY <1>1, <1>2, <1>3, <1>4, <1>5, <1>6, <1>7 DEF Spy!Next

\* What notispy acknowledged it has written when it exits, for any notifications,
\* topics and number of runs in one directory.
THEOREM AlwaysAckedAreWritten == Spec => []AckedAreWritten
<1> DEFINE Inv == script = "notispy" => SpyInv
<1>1. Init => Inv
  BY SpyInit DEF Init
<1>2. Inv /\ [Next]_vars => Inv'
  BY SpyStep, ScriptStep
<1>3. ASSUME SpyInv PROVE Spy!AckedAreWritten
  <2>1. local.pc \in SpyExit /\ local.save =>
           /\ cloud.acked = Spy!ToSet(local.store)
           /\ \A i \in Spy!Index :
                local.disk[i] = IF i < Len(local.store) THEN local.store[i + 1] ELSE local.before[i]
    BY <1>3 DEF SpyInv, Stored, Stopping, Written
  <2> QED
    BY <2>1 DEF SpyExit, Spy!AckedAreWritten
<1>4. Inv => AckedAreWritten
  BY <1>3 DEF AckedAreWritten
<1> QED
  BY <1>1, <1>2, <1>4, PTL DEF Spec

-----------------------------------------------------------------------------
(* repro-image-dependents.py.  What exists is known to the finally clause or is  *)
(* of the creation that raised, and behind each deletion what it was for is      *)
(* gone or was never known.                                                      *)

\* What exists is known to the clean-up, or of a call that raised.
KnownOrRaised ==
    /\ \A r \in cloud : IF r = "volume" THEN local.bfv ELSE r \in local.known \cup local.raised
    /\ local.raised = {} <=> local.pc \in {"image", "server", "bare"}

\* The image is deleted before its server.
DeletedInOrder ==
    /\ local.pc = "delete server" => "image" \notin cloud \/ "image" \in local.raised
    /\ local.pc = "ended" => Dependents!LeftExplained

DependentsInv == Dependents!TypeOK /\ KnownOrRaised /\ DeletedInOrder

LEMMA DependentsInit == Dependents!Init => DependentsInv
<1> SUFFICES ASSUME Dependents!Init PROVE DependentsInv
  OBVIOUS
<1>1. Dependents!TypeOK
  BY DEF Dependents!Init, Dependents!TypeOK
<1> QED
  BY <1>1 DEF Dependents!Init, DependentsInv, KnownOrRaised, DeletedInOrder

\* Where the steps about each resource are.
LEMMA DependentsLabels ==
    ASSUME NEW r \in {"image", "server"}
    PROVE  /\ Dependents!After[r] = IF r = "image" THEN "server" ELSE "bare"
           /\ Dependents!Deletion[r] = IF r = "image" THEN "delete image" ELSE "delete server"
           /\ Dependents!Behind[r] = IF r = "image" THEN "delete server" ELSE "ended"
<1>1. Dependents!After["image"] = "server" /\ Dependents!After["server"] = "bare"
  BY DEF Dependents!After
<1>2. Dependents!Deletion["image"] = "delete image" /\ Dependents!Deletion["server"] = "delete server"
  BY DEF Dependents!Deletion
<1>3. Dependents!Behind["image"] = "delete server" /\ Dependents!Behind["server"] = "ended"
  BY DEF Dependents!Behind
<1> QED
  BY <1>1, <1>2, <1>3

\* A step that raises goes to the clean-up, or ends it.
LEMMA DependentsRaise ==
    ASSUME Dependents!TypeOK, local.pc # "ended", Dependents!Raise
    PROVE  /\ local' \in [bfv : BOOLEAN, createOnly : BOOLEAN, known : SUBSET {"image", "server"},
                pc : {"image", "server", "bare", "delete image", "delete server", "ended"},
                raised : SUBSET {"image", "server", "bare", "delete image", "delete server"}]
           /\ local'.raised = local.raised \cup {local.pc}
           /\ local'.pc = IF local.createOnly \/ local.raised # {} THEN "ended" ELSE "delete image"
           /\ local'.known = local.known /\ local'.bfv = local.bfv
           /\ local'.createOnly = local.createOnly
  BY DEF Dependents!Raise, Dependents!TypeOK

LEMMA DependentsStep == DependentsInv /\ [Dependents!Next]_(Dependents!vars) => DependentsInv'
<1> SUFFICES ASSUME DependentsInv, [Dependents!Next]_(Dependents!vars) PROVE DependentsInv'
  OBVIOUS
<1> DEFINE Names == {"image", "server"}
<1> USE DEF DependentsInv, KnownOrRaised, DeletedInOrder, Dependents!LeftExplained
<1>0. Dependents!TypeOK
  OBVIOUS
<1>a. \A r \in Names : /\ Dependents!Made(r) \subseteq {"image", "server", "volume"}
                       /\ \A x \in Dependents!Made(r) : x = r \/ (x = "volume" /\ local.bfv)
  BY DEF Dependents!Made
<1>1. ASSUME NEW r \in Names, Dependents!Create(r) PROVE DependentsInv'
  <2>1. /\ Dependents!After[r] \in {"server", "bare"}
        /\ Dependents!After[r] = IF r = "image" THEN "server" ELSE "bare"
    BY DependentsLabels
  <2>2. /\ local.pc = r /\ local'.pc = Dependents!After[r] /\ local'.known = local.known \cup {r}
        /\ local'.raised = local.raised /\ local'.bfv = local.bfv
        /\ cloud' = cloud \cup Dependents!Made(r)
    BY <1>0, <1>1 DEF Dependents!Create, Dependents!TypeOK
  <2>3. Dependents!TypeOK'
    BY <1>0, <1>1, <1>a, <2>1 DEF Dependents!Create, Dependents!TypeOK
  <2>4. \A x \in cloud' : x \in cloud \/ x = r \/ (x = "volume" /\ local.bfv)
    BY <1>a, <2>2
  <2>5. KnownOrRaised' /\ DeletedInOrder'
    BY <2>1, <2>2, <2>4
  <2> QED
    BY <2>3, <2>5
<1>2. ASSUME NEW r \in Names, Dependents!CreateRaises(r) PROVE DependentsInv'
  <2>1. local.pc = r /\ local.raised = {} /\ Dependents!Raise
    BY <1>2 DEF Dependents!CreateRaises
  <2>2. PICK made \in SUBSET Dependents!Made(r) : cloud' = cloud \cup made
    BY <1>2 DEF Dependents!CreateRaises
  <2>3. Dependents!TypeOK'
    BY <1>0, <1>a, <2>1, <2>2, DependentsRaise DEF Dependents!TypeOK
  <2>4. \A x \in cloud' : x \in cloud \/ x = r \/ (x = "volume" /\ local.bfv)
    BY <1>a, <2>2
  <2>5. KnownOrRaised' /\ DeletedInOrder'
    BY <1>0, <2>1, <2>4, DependentsRaise
  <2> QED
    BY <2>3, <2>5
<1>3. CASE Dependents!CreateBare
  <2>1. local.pc = "bare" /\ local.raised = {} /\ Dependents!Raise /\ cloud' = cloud
    BY <1>3 DEF Dependents!CreateBare
  <2>2. Dependents!TypeOK'
    BY <1>0, <2>1, DependentsRaise DEF Dependents!TypeOK
  <2>3. KnownOrRaised' /\ DeletedInOrder'
    BY <1>0, <2>1, DependentsRaise
  <2> QED
    BY <2>2, <2>3
<1>4. ASSUME NEW r \in Names, Dependents!Delete(r) PROVE DependentsInv'
  <2>1. /\ Dependents!Deletion[r] = IF r = "image" THEN "delete image" ELSE "delete server"
        /\ Dependents!Behind[r] = IF r = "image" THEN "delete server" ELSE "ended"
    BY DependentsLabels
  <2>2. /\ local.pc = Dependents!Deletion[r] /\ local'.pc = Dependents!Behind[r]
        /\ local'.known = local.known /\ local'.raised = local.raised /\ local'.bfv = local.bfv
        /\ local'.createOnly = local.createOnly /\ cloud' = cloud \ (local.known \cap {r})
    BY <1>0, <1>4 DEF Dependents!Delete, Dependents!TypeOK
  <2>3. Dependents!TypeOK'
    BY <1>0, <1>4, <2>1 DEF Dependents!Delete, Dependents!TypeOK
  <2>4. \A x \in cloud' : x \in cloud /\ (x = r => x \notin local.known)
    BY <2>2
  <2>5. KnownOrRaised'
    BY <2>1, <2>2, <2>4
  <2>6. DeletedInOrder'
    BY <1>0, <2>1, <2>2, <2>4 DEF Dependents!TypeOK
  <2> QED
    BY <2>3, <2>5, <2>6
<1>5. ASSUME NEW r \in Names, Dependents!DeleteRaises(r) PROVE DependentsInv'
  <2>1. Dependents!Deletion[r] = IF r = "image" THEN "delete image" ELSE "delete server"
    BY DependentsLabels
  <2>2. /\ local.pc = Dependents!Deletion[r] /\ local.raised # {} /\ Dependents!Raise
        /\ cloud' \subseteq cloud
    BY <1>5, <2>1 DEF Dependents!DeleteRaises
  <2>3. Dependents!TypeOK'
    BY <1>0, <2>1, <2>2, DependentsRaise DEF Dependents!TypeOK
  <2>4. KnownOrRaised'
    BY <1>0, <2>1, <2>2, DependentsRaise
  <2>5. DeletedInOrder'
    BY <1>0, <2>1, <2>2, DependentsRaise DEF Dependents!TypeOK
  <2> QED
    BY <2>3, <2>4, <2>5
<1>6. CASE UNCHANGED Dependents!vars
  BY <1>6 DEF Dependents!vars, Dependents!TypeOK
<1> QED
  BY <1>1, <1>2, <1>3, <1>4, <1>5, <1>6 DEF Dependents!Next

\* What repro-image-dependents.py leaves behind a clean-up is the server's volume,
\* what the creation that raised has made, and what a deletion that raised and
\* those behind it were to delete.
THEOREM AlwaysLeftExplained == Spec => []LeftExplained
<1> DEFINE Inv == script = "dependents" => DependentsInv
<1>1. Init => Inv
  BY DependentsInit DEF Init
<1>2. Inv /\ [Next]_vars => Inv'
  BY DependentsStep, ScriptStep
<1>3. Inv => LeftExplained
  BY DEF DependentsInv, DeletedInOrder, LeftExplained, Dependents!LeftExplained
<1> QED
  BY <1>1, <1>2, <1>3, PTL DEF Spec

-----------------------------------------------------------------------------
(* repro-overallocation-servers.py.  What Nova is deleting is of earlier rounds *)
(* while a round is under way, what servers() listed is all there is unless the *)
(* command failed, and what is neither outlived failed clean-ups.               *)

UnderWay == {"create", "check", "servers", "delete", "reproduced"}

\* The clean-ups of the rounds before this one that a server saw have failed.
Outlived == \A x \in cloud.servers \ cloud.deleting, r \in 1 .. local.round - 1 : x[1] <= r => r \in local.failed

OverInv ==
    /\ Overallocation!TypeOK
    /\ cloud.deleting \subseteq cloud.servers
    /\ \A x \in local.todo : x[1] = local.round
    /\ \A x \in cloud.servers : x[1] <= local.round
    /\ local.pc \in UnderWay => Outlived /\ \A x \in cloud.deleting : x[1] < local.round
    /\ local.pc = "delete" /\ local.round \notin local.failed => cloud.servers \subseteq local.listed

\* A server is of one of the rounds.
LEMMA OverServers ==
    ASSUME NEW x \in Overallocation!Server
    PROVE  x[1] \in 0 .. Rounds
<1>1. CASE x = <<0, 0>>
  BY <1>1, RoundsAssumption
<1>2. CASE x \in (1 .. Rounds) \X (1 .. Instances + 1)
  BY <1>2, RoundsAssumption
<1> QED
  BY <1>1, <1>2 DEF Overallocation!Server

\* The servers of a batch are of its round.
LEMMA OverBatch ==
    ASSUME NEW r \in 1 .. Rounds, NEW n \in {Instances, Instances + 1}
    PROVE  /\ Overallocation!Batch(r, n) \subseteq Overallocation!Server
           /\ \A x \in Overallocation!Batch(r, n) : x[1] = r
  BY InstancesAssumption DEF Overallocation!Batch, Overallocation!Server

LEMMA OverInit == Overallocation!Init => OverInv
<1> SUFFICES ASSUME Overallocation!Init PROVE OverInv
  OBVIOUS
<1>1. /\ cloud.servers \subseteq {<<0, 0>>} /\ cloud.placed = {} /\ cloud.deleting = {}
      /\ cloud = [servers |-> cloud.servers, placed |-> cloud.placed, deleting |-> cloud.deleting]
  BY DEF Overallocation!Init
<1>2. local \in [mode : {"rounds", "create", "delete"}, pc : {"create", "servers"}, round : {1}, failed : {{}},
          todo : {{}, Overallocation!Batch(1, Instances), Overallocation!Batch(1, Instances + 1)}, listed : {{}}]
  BY DEF Overallocation!Init
<1>3. 1 \in 1 .. Rounds
  BY RoundsAssumption
<1>4. local.todo \subseteq Overallocation!Server /\ \A x \in local.todo : x[1] = 1
  BY <1>2, <1>3, OverBatch
<1>5. local \in [mode : {"rounds", "create", "delete"}, round : 1 .. Rounds,
                  todo : SUBSET Overallocation!Server, listed : SUBSET Overallocation!Server,
                  failed : SUBSET (1 .. Rounds),
                  pc : {"create", "check", "servers", "delete", "reproduced", "raised", "ended"}]
  BY <1>2, <1>3, <1>4
<1>6. Overallocation!TypeOK
  BY <1>1, <1>5 DEF Overallocation!TypeOK, Overallocation!Server
<1>7. local.round = 1 /\ local.pc # "delete"
  BY <1>2
<1> QED
  BY <1>1, <1>4, <1>6, <1>7 DEF OverInv, Outlived

LEMMA OverStep == OverInv /\ [Overallocation!Next]_(Overallocation!vars) => OverInv'
<1> SUFFICES ASSUME OverInv, [Overallocation!Next]_(Overallocation!vars) PROVE OverInv'
  OBVIOUS
<1>t. Overallocation!TypeOK
  BY DEF OverInv
<1>1. ASSUME NEW x \in Overallocation!Server, Overallocation!Create(x) PROVE OverInv'
  <2>0. local.pc = "create" /\ x \in local.todo /\ local' = [local EXCEPT !.todo = @ \ {x}]
    BY <1>1 DEF Overallocation!Create
  <2> DEFINE Clouds == [servers : SUBSET Overallocation!Server, placed : SUBSET Overallocation!Server,
                        deleting : SUBSET Overallocation!Server]
  <2>a. cloud \in Clouds
    BY <1>t DEF Overallocation!TypeOK
  <2>b. /\ cloud' \in Clouds /\ cloud'.deleting = cloud.deleting
        /\ cloud'.servers \in {cloud.servers, cloud.servers \cup {x}}
    <3>1. CASE cloud' = cloud
      BY <2>a, <3>1
    <3>2. CASE cloud' = [cloud EXCEPT !.servers = @ \cup {x}]
      BY <2>a, <3>2
    <3>3. CASE cloud' = [cloud EXCEPT !.servers = @ \cup {x}, !.placed = @ \cup {x}]
      BY <2>a, <3>3
    <3> QED
      BY <1>1, <3>1, <3>2, <3>3 DEF Overallocation!Create
  <2>1. /\ local.pc = "create" /\ x \in local.todo
        /\ cloud'.servers \in {cloud.servers, cloud.servers \cup {x}}
        /\ cloud'.deleting = cloud.deleting
        /\ Overallocation!TypeOK'
    BY <1>t, <2>0, <2>b DEF Overallocation!TypeOK
  <2>2. /\ local'.todo = local.todo \ {x} /\ local'.pc = "create" /\ local'.round = local.round
        /\ local'.failed = local.failed /\ local.round \in 1 .. Rounds
    BY <1>t, <2>0 DEF Overallocation!TypeOK
  <2>3. x[1] = local.round /\ x[1] <= local.round
    BY <2>1, <2>2 DEF OverInv
  <2>4. Outlived'
    <3>1. Outlived
      BY <2>1 DEF OverInv, UnderWay
    <3>2. \A r \in 1 .. local.round - 1 : ~(x[1] <= r)
      BY <2>2, <2>3
    <3> QED
      BY <2>1, <2>2, <3>1, <3>2 DEF Outlived
  <2> QED
    BY <2>1, <2>2, <2>3, <2>4 DEF OverInv, UnderWay
<1>2. ASSUME NEW x \in Overallocation!Server, Overallocation!Gone(x) PROVE OverInv'
  <2>1. /\ local' = local /\ cloud'.servers = cloud.servers \ {x}
        /\ cloud'.deleting = cloud.deleting \ {x} /\ Overallocation!TypeOK'
    BY <1>t, <1>2 DEF Overallocation!Gone, Overallocation!TypeOK
  <2> QED
    BY <2>1 DEF OverInv, Outlived
<1>3. CASE Overallocation!Join \/ Overallocation!Check
  <2>1. /\ cloud' = cloud /\ local'.todo = local.todo /\ local'.round = local.round
        /\ local'.pc \in {"check", "ended", "reproduced", "servers"}
        /\ local.pc \in {"create", "check"}
        /\ local'.failed = local.failed
        /\ Overallocation!TypeOK'
    BY <1>t, <1>3 DEF Overallocation!Join, Overallocation!Check, Overallocation!TypeOK
  <2> QED
    BY <2>1 DEF OverInv, UnderWay, Outlived
<1>4. CASE Overallocation!Servers
  <2>1. /\ cloud' = cloud /\ local'.todo = local.todo /\ local'.round = local.round
        /\ local'.pc \in {"delete", "raised"} /\ local.pc = "servers"
        /\ local'.pc = "delete" /\ local.round \notin local'.failed => local'.listed = cloud.servers
        /\ local.failed \subseteq local'.failed
        /\ Overallocation!TypeOK'
    <3>0. local.pc = "servers" /\ cloud' = cloud /\ local.round \in 1 .. Rounds
      BY <1>t, <1>4 DEF Overallocation!Servers, Overallocation!TypeOK
    <3>1. CASE local' = [local EXCEPT !.pc = "delete", !.listed = cloud.servers]
      BY <1>t, <3>0, <3>1 DEF Overallocation!TypeOK
    <3>2. CASE local' = [local EXCEPT !.pc = "delete", !.listed = {}, !.failed = @ \cup {local.round}]
      BY <1>t, <3>0, <3>2 DEF Overallocation!TypeOK
    <3>3. CASE local' = [local EXCEPT !.pc = "raised"]
      BY <1>t, <3>0, <3>3 DEF Overallocation!TypeOK
    <3> QED
      BY <1>4, <3>1, <3>2, <3>3 DEF Overallocation!Servers
  <2>2. Outlived'
    BY <2>1 DEF OverInv, UnderWay, Outlived
  <2> QED
    BY <2>1, <2>2 DEF OverInv, UnderWay
<1>5. CASE Overallocation!Delete
  <2>1. PICK asked \in SUBSET local.listed :
           /\ cloud' = [cloud EXCEPT !.deleting = @ \cup (asked \cap cloud.servers)]
           /\ local' = [local EXCEPT
              !.failed = IF asked = local.listed THEN @ ELSE @ \cup {local.round}, !.listed = {},
              !.pc = IF local.mode = "rounds" /\ local.round < Rounds THEN "create" ELSE "ended",
              !.round = IF local.mode = "rounds" /\ local.round < Rounds THEN @ + 1 ELSE @,
              !.todo = IF local.mode = "rounds" /\ local.round < Rounds
                       THEN Overallocation!Batch(local.round + 1, Instances) ELSE {}]
    BY <1>5 DEF Overallocation!Delete
  <2>2. /\ cloud'.servers = cloud.servers /\ cloud'.deleting = cloud.deleting \cup (asked \cap cloud.servers)
        /\ cloud \in [servers : SUBSET Overallocation!Server, placed : SUBSET Overallocation!Server,
                      deleting : SUBSET Overallocation!Server]
        /\ cloud' \in [servers : SUBSET Overallocation!Server, placed : SUBSET Overallocation!Server,
                      deleting : SUBSET Overallocation!Server]
    BY <1>t, <2>1 DEF Overallocation!TypeOK
  <2>3. local.pc = "delete" /\ local.round \in 1 .. Rounds
    BY <1>t, <1>5 DEF Overallocation!Delete, Overallocation!TypeOK
  <2>4. CASE local.mode = "rounds" /\ local.round < Rounds
    <3>1. local.round + 1 \in 1 .. Rounds
      BY <2>3, <2>4, RoundsAssumption
    <3> DEFINE batch == Overallocation!Batch(local.round + 1, Instances)
    <3>2. batch \subseteq Overallocation!Server /\ \A x \in batch : x[1] = local.round + 1
      BY <3>1, OverBatch
    <3> HIDE DEF batch
    <3>3. /\ local'.pc = "create" /\ local'.round = local.round + 1 /\ local'.todo = batch
          /\ local.failed \subseteq local'.failed
          /\ local.round \notin local'.failed => local.round \notin local.failed /\ asked = local.listed
      BY <1>t, <2>1, <2>4 DEF Overallocation!TypeOK, batch
    <3>4. Overallocation!TypeOK'
      BY <1>t, <2>1, <2>2, <2>4, <3>1, <3>2 DEF Overallocation!TypeOK, batch
    <3>5. \A x \in cloud.servers : x[1] <= local.round /\ x[1] \in 0 .. Rounds
      BY <2>2, OverServers DEF OverInv
    <3>6. \A x \in cloud.servers : x[1] <= local.round + 1 /\ x[1] < local.round + 1
      BY <2>3, <3>5
    <3>7. cloud'.deleting \subseteq cloud.servers
      BY <2>2 DEF OverInv
    <3>8. local.round \notin local'.failed => cloud'.servers \ cloud'.deleting = {}
      BY <2>2, <2>3, <3>3 DEF OverInv
    <3>9. ASSUME NEW x \in cloud'.servers \ cloud'.deleting, NEW r \in 1 .. local.round, x[1] <= r
          PROVE  r \in local'.failed
      <4>1. CASE r = local.round
        BY <3>8, <4>1
      <4>2. CASE r # local.round
        <5>1. r \in 1 .. local.round - 1
          BY <2>3, <4>2
        <5>2. Outlived
          BY <2>3 DEF OverInv, UnderWay
        <5> QED
          BY <2>2, <3>3, <3>9, <5>1, <5>2 DEF Outlived
      <4> QED
        BY <4>1, <4>2
    <3>10. Outlived'
      <4>1. local'.round - 1 = local.round
        BY <2>3, <3>3
      <4> QED
        BY <3>9, <4>1 DEF Outlived
    <3> QED
      BY <2>2, <3>2, <3>3, <3>4, <3>6, <3>7, <3>10 DEF OverInv
  <2>5. CASE ~(local.mode = "rounds" /\ local.round < Rounds)
    <3>1. /\ local'.pc = "ended" /\ local'.round = local.round /\ local'.todo = {}
          /\ Overallocation!TypeOK'
      BY <1>t, <2>1, <2>2, <2>5 DEF Overallocation!TypeOK
    <3> QED
      BY <2>2, <3>1 DEF OverInv, UnderWay
  <2> QED
    BY <2>4, <2>5
<1>6. CASE UNCHANGED Overallocation!vars
  BY <1>6 DEF Overallocation!vars, OverInv, Outlived, Overallocation!TypeOK
<1> QED
  BY <1>1, <1>2, <1>3, <1>4, <1>5, <1>6 DEF Overallocation!Next

\* A server that Nova is not deleting when a round of repro-overallocation-servers.py
\* is under way is of that round or outlived the clean-ups of all rounds since its
\* own, which failed; and a round that reproduced the bug keeps its own: for any
\* number of both.
THEOREM LeftoversAlwaysExplained == Spec => []LeftoversExplained
<1> DEFINE Inv == script = "overallocation" => OverInv
<1>1. Init => Inv
  BY OverInit DEF Init
<1>2. Inv /\ [Next]_vars => Inv'
  BY OverStep, ScriptStep
<1>3. ASSUME OverInv PROVE Overallocation!LeftoversExplained
  <2>1. local.round \in Nat /\ \A x \in cloud.deleting : x[1] \in 0 .. Rounds
    BY <1>3, OverServers DEF OverInv, Overallocation!TypeOK
  <2> QED
    BY <1>3, <2>1 DEF OverInv, Outlived, Overallocation!LeftoversExplained, UnderWay
<1>4. Inv => LeftoversExplained
  BY <1>3 DEF LeftoversExplained
<1> QED
  BY <1>1, <1>2, <1>4, PTL DEF Spec

-----------------------------------------------------------------------------
(* Every script. *)

EveryInv ==
    /\ script = "aggregates" => AggregatesInv
    /\ script = "cpuload" => LoadInv
    /\ script = "swap" => SwapInv
    /\ script = "va" => VAInv
    /\ script = "inventory" => InventoryInv
    /\ script = "notispy" => SpyInv
    /\ script = "orphans" => OrphansInv
    /\ script = "consumers" => ConsumersInv
    /\ script = "dependents" => DependentsInv
    /\ script = "overallocation" => OverInv

\* Every script keeps the types of its variables.
THEOREM AlwaysTypeOK == Spec => []TypeOK
<1>1. Init => EveryInv
  BY AggregatesInit, LoadInit, SwapInit, VAInit, InventoryInit, SpyInit, OrphansInit,
     ConsumersInit, DependentsInit, OverInit DEF Init, EveryInv
<1>2. EveryInv /\ [Next]_vars => EveryInv'
  BY AggregatesStep, LoadStep, SwapStep, VAStep, InventoryStep, SpyStep, OrphansStep,
     ConsumersStep, DependentsStep, OverStep, ScriptStep DEF EveryInv
<1>3. EveryInv => TypeOK
  BY VATyped, InventoryTyped, SpyTyped, OrphansTyped, ConsumersTyped
     DEF EveryInv, AggregatesInv, LoadInv, SwapInv, DependentsInv, OverInv, TypeOK
<1> QED
  BY <1>1, <1>2, <1>3, PTL DEF Spec
=============================================================================
