--------------------------- MODULE PortChurn_proofs ---------------------------
(***************************************************************************)
(* Proofs about PortChurn, for any invocations, workers and cycles.        *)
(* CleanExit rests on WhatItHas: as long as a worker has no error, its     *)
(* control state tells what it has in Neutron, because every call that     *)
(* leaves this unknown reports an error or ends the worker by raising.     *)
(***************************************************************************)
EXTENDS PortChurn, TLAPS

Inv == TypeOK /\ OwnNetwork /\ SubnetInOwnNetwork /\ WhatItHas /\ ZeroMeansNoErrors

LEMMA InitInv == Init => Inv
<1> SUFFICES ASSUME Init PROVE Inv
  OBVIOUS
<1> USE DEF Init
<1>1. TypeOK
  <2>1. 1 \in 1 .. Repeats
    BY RepeatsAssumption
  <2> QED
    BY <2>1 DEF TypeOK, Iface
<1>2. OwnNetwork /\ SubnetInOwnNetwork /\ WhatItHas
  BY DEF OwnNetwork, SubnetInOwnNetwork, WhatItHas
<1>3. ZeroMeansNoErrors
  BY DEF ZeroMeansNoErrors, Task
<1> QED
  BY <1>1, <1>2, <1>3 DEF Inv

LEMMA CleanupType == ASSUME NEW p \in Task PROVE Cleanup(p) \in Busy \cup Ended
BY DEF Cleanup, Busy, Ended

LEMMA NextCycleType ==
    ASSUME TypeOK, NEW p \in Task, NextCycle(p)
    PROVE  /\ pc' \in [Task -> {"off"} \cup Busy \cup Ended]
           /\ cycle' \in [Task -> 1 .. Repeats]
<1> USE RepeatsAssumption DEF TypeOK, NextCycle, Goto
<1>1. cycle[p] \in 1 .. Repeats
  OBVIOUS
<1>2. CASE cycle[p] < Repeats
  <2>1. cycle[p] + 1 \in 1 .. Repeats
    BY <1>1, <1>2
  <2>2. "attach" \in Busy
    BY DEF Busy
  <2> QED
    BY <1>2, <2>1, <2>2
<1>3. CASE ~(cycle[p] < Repeats)
  BY <1>3, CleanupType
<1> QED
  BY <1>2, <1>3

LEMMA TypeStep == ASSUME TypeOK, NEW p \in Task, Step(p) PROVE TypeOK'
<1> USE RepeatsAssumption DEF TypeOK, Goto, Got, Report, neutron, AskRelease
<1>0. {"connect", "network", "subnet", "port", "attach", "detach", "retry", "delete port",
       "delete subnet", "delete network", "returned", "raised"} = Busy \cup Ended
  BY DEF Busy, Ended
<1>1. 0 \in 0 .. Repeats /\ cycle[p] \in 0 .. Repeats
  OBVIOUS
<1>2. CASE Connect(p) \/ CreateNetwork(p) \/ CreatePort(p)
  <2>1. pc' \in [Task -> {"off"} \cup Busy \cup Ended]
    BY <1>0, <1>2 DEF Connect, CreateNetwork, CreatePort
  <2>2. got' \in [Task -> SUBSET {"network", "subnet", "port"}]
    BY <1>2 DEF Connect, CreateNetwork, CreatePort
  <2> QED
    BY <1>2, <2>1, <2>2 DEF Connect, CreateNetwork, CreatePort
<1>3. CASE CreateSubnet(p)
  <2>1. pc' \in [Task -> {"off"} \cup Busy \cup Ended]
    BY <1>0, <1>3 DEF CreateSubnet
  <2>2. got' \in [Task -> SUBSET {"network", "subnet", "port"}]
    BY <1>3 DEF CreateSubnet
  <2>3. subnets' \subseteq Task \X Task
    BY <1>3 DEF CreateSubnet, SameName
  <2> QED
    BY <1>3, <2>1, <2>2, <2>3 DEF CreateSubnet
<1>4. CASE SetupFails(p)
  <2>1. networks' \subseteq Task /\ subnets' \subseteq Task \X Task /\ ports' \subseteq Task
    BY <1>4 DEF SetupFails, SameName
  <2>2. pc' \in [Task -> {"off"} \cup Busy \cup Ended]
    BY <1>4, CleanupType DEF SetupFails
  <2>3. errors' \in [Task -> SUBSET (0 .. Repeats)]
    BY <1>1, <1>4 DEF SetupFails
  <2> QED
    BY <1>4, <2>1, <2>2, <2>3 DEF SetupFails
<1>5. CASE Attach(p) \/ Detach(p)
  <2>1. iface' \in [Task -> Iface]
    BY <1>5 DEF Attach, Detach, Iface
  <2>2. pc' \in [Task -> {"off"} \cup Busy \cup Ended] /\ cycle' \in [Task -> 1 .. Repeats]
    BY <1>0, <1>5, NextCycleType DEF Attach, Detach
  <2> QED
    BY <1>5, <2>1, <2>2 DEF Attach, Detach
<1>6. CASE AttachFails(p)
  <2>1. iface' \in [Task -> Iface]
    BY <1>6 DEF AttachFails, Iface
  <2>2. errors' \in [Task -> SUBSET (0 .. Repeats)]
    BY <1>1, <1>6 DEF AttachFails
  <2> QED
    BY <1>6, <2>1, <2>2, NextCycleType DEF AttachFails
<1>7. CASE DetachFails(p)
  <2>1. iface' \in [Task -> Iface]
    BY <1>7 DEF DetachFails, Iface
  <2>2. errors' \in [Task -> SUBSET (0 .. Repeats)]
    BY <1>1, <1>7 DEF DetachFails
  <2> QED
    BY <1>0, <1>7, <2>1, <2>2 DEF DetachFails
<1>8. CASE Retry(p)
  <2>1. iface' \in [Task -> Iface]
    BY <1>8 DEF Retry, Iface
  <2> QED
    BY <1>8, <2>1, NextCycleType DEF Retry
<1>9. CASE RetryFails(p)
  <2>1. iface' \in [Task -> Iface]
    BY <1>9 DEF RetryFails, Iface
  <2>2. errors' \in [Task -> SUBSET (0 .. Repeats)]
    BY <1>1, <1>9 DEF RetryFails
  <2>3. pc' \in [Task -> {"off"} \cup Busy \cup Ended]
    BY <1>9, CleanupType DEF RetryFails
  <2> QED
    BY <1>9, <2>1, <2>2, <2>3 DEF RetryFails
<1>10. CASE DeletePort(p) \/ DeletePortFails(p)
  <2>1. iface' \in [Task -> Iface]
    BY <1>10 DEF DeletePort, DeletePortFails, PortGone, Iface
  <2> QED
    BY <1>0, <1>10, <2>1 DEF DeletePort, DeletePortFails, PortGone
<1>11. CASE DeleteSubnet(p) \/ DeleteSubnetFails(p)
  BY <1>0, <1>11 DEF DeleteSubnet, DeleteSubnetFails
<1>12. CASE DeleteNetwork(p) \/ DeleteNetworkFails(p)
  BY <1>0, <1>12 DEF DeleteNetwork, DeleteNetworkFails, NetworkGone
<1> QED
  BY <1>2, <1>3, <1>4, <1>5, <1>6, <1>7, <1>8, <1>9, <1>10, <1>11, <1>12 DEF Step

\* Only the workers' ends and starts touch what the rest of Inv is about.
LEMMA NextTypeOK == ASSUME TypeOK, Next PROVE TypeOK'
<1>1. ASSUME NEW p \in Task, Step(p) PROVE TypeOK'
  BY <1>1, TypeStep
<1>2. ASSUME NEW p \in Task, NovaDetaches(p) PROVE TypeOK'
  BY <1>2 DEF NovaDetaches, TypeOK, Iface, neutron
<1>3. ASSUME NEW r \in Run, Start(r) PROVE TypeOK'
  BY <1>3 DEF Start, TypeOK, Busy, neutron
<1>4. ASSUME NEW r \in Run, Exit(r) PROVE TypeOK'
  BY <1>4 DEF Exit, TypeOK, neutron
<1> QED
  BY <1>1, <1>2, <1>3, <1>4 DEF Next

-----------------------------------------------------------------------------
\* Worker p leaves alone what another worker has.
LEMMA OthersKeep ==
    ASSUME Inv, NEW p \in Task, NEW q \in Task, Step(p), q # p
    PROVE  /\ pc'[q] = pc[q] /\ got'[q] = got[q] /\ errors'[q] = errors[q]
           /\ q \in networks' <=> q \in networks
           /\ q \in ports' <=> q \in ports
           /\ (\A s \in subnets : s[1] # q) => \A s \in subnets' : s[1] # q
<1> USE DEF Inv, TypeOK, Goto, Got, Report, neutron
<1>1. CASE Connect(p) \/ CreateNetwork(p) \/ CreatePort(p)
  BY <1>1 DEF Connect, CreateNetwork, CreatePort
<1>2. CASE CreateSubnet(p) \/ SetupFails(p)
  BY <1>2 DEF CreateSubnet, SetupFails
<1>3. CASE Attach(p) \/ AttachFails(p) \/ Detach(p) \/ DetachFails(p) \/ Retry(p) \/ RetryFails(p)
  BY <1>3 DEF Attach, AttachFails, Detach, DetachFails, Retry, RetryFails, NextCycle
<1>4. CASE DeletePort(p) \/ DeletePortFails(p)
  BY <1>4 DEF DeletePort, DeletePortFails, PortGone
<1>5. CASE \/ DeleteSubnet(p) \/ DeleteSubnetFails(p)
           \/ DeleteNetwork(p) \/ DeleteNetworkFails(p)
  BY <1>5 DEF DeleteSubnet, DeleteSubnetFails, DeleteNetwork, DeleteNetworkFails, NetworkGone
<1> QED
  BY <1>1, <1>2, <1>3, <1>4, <1>5 DEF Step

LEMMA StepOwnNetwork == ASSUME Inv, NEW p \in Task, Step(p) PROVE OwnNetwork'
<1> SUFFICES ASSUME NEW q \in Task
             PROVE  /\ "network" \in got'[q] /\ pc'[q] \notin Ended => q \in networks'
                    /\ pc'[q] \in {"off", "connect", "network"} => got'[q] = {}
                    /\ pc'[q] = "subnet" => got'[q] = {"network"}
  BY DEF OwnNetwork
<1>1. CASE q # p
  BY <1>1, OthersKeep DEF Inv, OwnNetwork
<1>2. CASE q = p
  <2> USE <1>2 DEF Inv, TypeOK, OwnNetwork, Ended, Goto, Got, Report, neutron
  <2>1. CASE Connect(p) \/ CreateNetwork(p) \/ CreateSubnet(p) \/ CreatePort(p)
    BY <2>1 DEF Connect, CreateNetwork, CreateSubnet, CreatePort
  <2>2. CASE SetupFails(p) \/ RetryFails(p)
    BY <2>2 DEF SetupFails, RetryFails, Cleanup
  <2>3. CASE Attach(p) \/ AttachFails(p) \/ Detach(p) \/ DetachFails(p) \/ Retry(p)
    BY <2>3 DEF Attach, AttachFails, Detach, DetachFails, Retry, NextCycle, Cleanup
  <2>4. CASE DeletePort(p) \/ DeletePortFails(p) \/ DeleteSubnet(p) \/ DeleteSubnetFails(p)
    BY <2>4 DEF DeletePort, DeletePortFails, DeleteSubnet, DeleteSubnetFails
  <2>5. CASE DeleteNetwork(p) \/ DeleteNetworkFails(p)
    BY <2>5 DEF DeleteNetwork, DeleteNetworkFails
  <2> QED
    BY <2>1, <2>2, <2>3, <2>4, <2>5 DEF Step
<1> QED
  BY <1>1, <1>2

LEMMA StepSubnets == ASSUME Inv, NEW p \in Task, Step(p) PROVE SubnetInOwnNetwork'
<1> USE DEF Inv, SubnetInOwnNetwork, neutron
<1>1. ASSUME pc[p] = "subnet", NEW q \in SameName(p), SameName(p) = {q} PROVE q = p
  <2>1. p \in networks
    BY <1>1 DEF OwnNetwork, Ended
  <2>2. p \in SameName(p)
    BY <2>1 DEF SameName
  <2> QED
    BY <1>1, <2>2
<1>2. CASE CreateSubnet(p)
  BY <1>1, <1>2 DEF CreateSubnet
<1>3. CASE SetupFails(p)
  <2>1. CASE pc[p] = "subnet"
    BY <1>1, <1>3, <2>1 DEF SetupFails
  <2>2. CASE pc[p] # "subnet"
    BY <1>3, <2>2 DEF SetupFails
  <2> QED
    BY <2>1, <2>2
<1>4. CASE DeleteSubnet(p) \/ DeleteSubnetFails(p)
  BY <1>4 DEF DeleteSubnet, DeleteSubnetFails
<1>5. CASE DeleteNetwork(p) \/ DeleteNetworkFails(p)
  BY <1>5 DEF DeleteNetwork, DeleteNetworkFails, NetworkGone
<1>6. CASE Connect(p) \/ CreateNetwork(p) \/ CreatePort(p) \/ DeletePort(p) \/ DeletePortFails(p)
  BY <1>6 DEF Connect, CreateNetwork, CreatePort, DeletePort, DeletePortFails
<1>7. CASE Attach(p) \/ AttachFails(p) \/ Detach(p) \/ DetachFails(p) \/ Retry(p) \/ RetryFails(p)
  BY <1>7 DEF Attach, AttachFails, Detach, DetachFails, Retry, RetryFails
<1> QED
  BY <1>2, <1>3, <1>4, <1>5, <1>6, <1>7 DEF Step

LEMMA StepWhatItHas == ASSUME Inv, NEW p \in Task, Step(p) PROVE WhatItHas'
<1> DEFINE Has(q) ==
        /\ pc[q] \in {"off", "connect", "network", "returned"} => q \notin networks
        /\ pc[q] \in {"off", "connect", "network", "subnet", "delete network", "returned"} =>
              \A s \in subnets : s[1] # q
        /\ pc[q] \in {"off", "connect", "network", "subnet", "port",
                      "delete subnet", "delete network", "returned"} => q \notin ports
        /\ pc[q] \in {"attach", "detach"} => "port" \in got[q]
        /\ pc[q] # "retry"
<1> SUFFICES ASSUME NEW q \in Task, errors'[q] = {} PROVE Has(q)'
  BY DEF WhatItHas
<1>1. CASE q # p
  <2>1. Has(q)
    BY <1>1, OthersKeep DEF Inv, WhatItHas
  <2> QED
    BY <1>1, <2>1, OthersKeep
<1>2. CASE q = p
  <2> USE <1>2 DEF Inv, TypeOK, Goto, Got, Report, neutron
  <2>1. CASE SetupFails(p) \/ AttachFails(p) \/ DetachFails(p) \/ RetryFails(p)
    <3>1. errors'[p] # {}
      BY <2>1 DEF SetupFails, AttachFails, DetachFails, RetryFails
    <3> QED
      BY <3>1
  <2>2. CASE Retry(p)
    BY <2>2 DEF Retry, WhatItHas
  <2>3. CASE Connect(p) \/ CreateNetwork(p) \/ CreateSubnet(p) \/ CreatePort(p)
    <3>1. Has(p)
      BY <2>3 DEF WhatItHas, Connect, CreateNetwork, CreateSubnet, CreatePort
    <3>2. CASE Connect(p) \/ CreateNetwork(p)
      BY <3>1, <3>2 DEF Connect, CreateNetwork
    <3>3. CASE CreateSubnet(p)
      <4>1. pc[p] = "subnet" /\ pc'[p] = "port" /\ ports' = ports
        BY <3>3 DEF CreateSubnet
      <4> QED
        BY <3>1, <3>3, <4>1 DEF CreateSubnet
    <3>4. CASE CreatePort(p)
      <4>1. pc[p] = "port" /\ pc'[p] = "attach" /\ "port" \in got'[p]
        BY <3>4 DEF CreatePort
      <4> QED
        BY <4>1
    <3> QED
      BY <2>3, <3>2, <3>3, <3>4
  <2>4. CASE Attach(p) \/ Detach(p)
    <3>1. Has(p)
      BY <2>4 DEF WhatItHas, Attach, Detach
    <3> QED
      BY <2>4, <3>1 DEF Attach, Detach, NextCycle, Cleanup
  <2>5. CASE DeletePort(p) \/ DeletePortFails(p) \/ DeleteSubnet(p) \/ DeleteSubnetFails(p)
    <3>1. Has(p)
      BY <2>5 DEF WhatItHas, DeletePort, DeletePortFails, DeleteSubnet, DeleteSubnetFails
    <3> QED
      BY <2>5, <3>1
      DEF DeletePort, DeletePortFails, PortGone, DeleteSubnet, DeleteSubnetFails
  <2>6. CASE DeleteNetwork(p) \/ DeleteNetworkFails(p)
    <3>1. Has(p)
      BY <2>6 DEF WhatItHas, DeleteNetwork, DeleteNetworkFails
    <3> QED
      BY <2>6, <3>1 DEF DeleteNetwork, DeleteNetworkFails, NetworkGone
  <2> QED
    BY <2>1, <2>2, <2>3, <2>4, <2>5, <2>6 DEF Step
<1> QED
  BY <1>1, <1>2

LEMMA StepZero == ASSUME Inv, NEW p \in Task, Step(p) PROVE ZeroMeansNoErrors'
<1> SUFFICES ASSUME NEW q \in Task, exit'[q[1]] = "0"
             PROVE  pc'[q] = "returned" /\ errors'[q] = {}
  BY DEF ZeroMeansNoErrors
<1>1. exit' = exit
  BY DEF Step, Connect, CreateNetwork, CreateSubnet, CreatePort, SetupFails, Attach, AttachFails,
         Detach, DetachFails, Retry, RetryFails, DeletePort, DeletePortFails, DeleteSubnet,
         DeleteSubnetFails, DeleteNetwork, DeleteNetworkFails
<1>2. pc[q] = "returned" /\ errors[q] = {}
  BY <1>1 DEF Inv, ZeroMeansNoErrors
<1>3. pc[p] # "returned"
  BY DEF Step, Connect, CreateNetwork, CreateSubnet, CreatePort, SetupFails, Attach, AttachFails,
         Detach, DetachFails, Retry, RetryFails, DeletePort, DeletePortFails, DeleteSubnet,
         DeleteSubnetFails, DeleteNetwork, DeleteNetworkFails
<1>4. q # p
  BY <1>2, <1>3
<1> QED
  BY <1>2, <1>4, OthersKeep

LEMMA NextInv == Inv /\ [Next]_vars => Inv'
<1> SUFFICES ASSUME Inv, [Next]_vars PROVE Inv'
  OBVIOUS
<1>1. ASSUME NEW p \in Task, Step(p) PROVE Inv'
  BY <1>1, TypeStep, StepOwnNetwork, StepSubnets, StepWhatItHas, StepZero DEF Inv
<1>2. ASSUME NEW p \in Task, NovaDetaches(p) PROVE Inv'
  <2>1. TypeOK'
    BY <1>2, NextTypeOK DEF Inv, Next
  <2> QED
    BY <1>2, <2>1
    DEF NovaDetaches, Inv, OwnNetwork, SubnetInOwnNetwork, WhatItHas, ZeroMeansNoErrors, neutron
<1>3. ASSUME NEW r \in Run, Start(r) PROVE Inv'
  <2> USE DEF Inv, Start, neutron
  <2>1. TypeOK'
    BY <1>3, NextTypeOK DEF Next
  <2>2. \A p \in Task : pc'[p] = pc[p] \/ (pc[p] = "off" /\ pc'[p] = "connect")
    <3> SUFFICES ASSUME NEW p \in Task
                 PROVE  pc'[p] = pc[p] \/ (pc[p] = "off" /\ pc'[p] = "connect")
      OBVIOUS
    <3>1. CASE p[1] = r
      <4>1. p = <<r, p[2]>> /\ p[2] \in Worker
        BY <3>1 DEF Task
      <4> QED
        BY <1>3, <3>1, <4>1
    <3>2. CASE p[1] # r
      BY <1>3, <3>2
    <3> QED
      BY <3>1, <3>2
  <2>3. OwnNetwork' /\ SubnetInOwnNetwork' /\ WhatItHas'
    BY <1>3, <2>2 DEF OwnNetwork, SubnetInOwnNetwork, WhatItHas, Ended
  <2>4. ZeroMeansNoErrors'
    BY <1>3, <2>2 DEF ZeroMeansNoErrors
  <2> QED
    BY <2>1, <2>3, <2>4
<1>4. ASSUME NEW r \in Run, Exit(r) PROVE Inv'
  <2> USE DEF Inv, Exit, neutron
  <2>1. TypeOK'
    BY <1>4, NextTypeOK DEF Next
  <2>2. OwnNetwork' /\ SubnetInOwnNetwork' /\ WhatItHas'
    BY <1>4 DEF OwnNetwork, SubnetInOwnNetwork, WhatItHas
  <2>3. ZeroMeansNoErrors'
    <3> SUFFICES ASSUME NEW q \in Task, exit'[q[1]] = "0"
                 PROVE  pc[q] = "returned" /\ errors[q] = {}
      BY <1>4 DEF ZeroMeansNoErrors
    <3>1. CASE q[1] = r
      <4>1. \A w \in Worker : pc[<<r, w>>] = "returned" /\ errors[<<r, w>>] = {}
        BY <1>4, <3>1 DEF TypeOK
      <4>2. q = <<r, q[2]>> /\ q[2] \in Worker
        BY <3>1 DEF Task
      <4> QED
        BY <4>1, <4>2
    <3>2. CASE q[1] # r
      BY <1>4, <3>2 DEF ZeroMeansNoErrors, TypeOK
    <3> QED
      BY <3>1, <3>2
  <2> QED
    BY <2>1, <2>2, <2>3
<1>5. CASE UNCHANGED vars
  BY <1>5 DEF vars, Inv, TypeOK, OwnNetwork, SubnetInOwnNetwork, WhatItHas, ZeroMeansNoErrors
<1> QED
  BY <1>1, <1>2, <1>3, <1>4, <1>5 DEF Next

THEOREM Invariance == Spec => []Inv
BY InitInv, NextInv, PTL DEF Spec

\* Type correctness of the invocations' and Neutron's state (port_churn, main).
THEOREM TypeCorrect == Spec => []TypeOK
BY Invariance, PTL DEF Inv

\* create_subnet by name never lands in another invocation's network.
THEOREM SubnetsInOwnNetwork == Spec => []SubnetInOwnNetwork
BY Invariance, PTL DEF Inv

\* Exit status 0 of main leaves nothing of the invocation in Neutron.
THEOREM ExitsClean == Spec => []CleanExit
<1>1. Inv => CleanExit
  <2> SUFFICES ASSUME Inv, NEW p \in Task, exit[p[1]] = "0" PROVE ~Left(p)
    BY DEF CleanExit
  <2>1. pc[p] = "returned" /\ errors[p] = {}
    BY DEF Inv, ZeroMeansNoErrors
  <2> QED
    BY <2>1 DEF Inv, WhatItHas, Left
<1> QED
  BY <1>1, Invariance, PTL
=============================================================================
