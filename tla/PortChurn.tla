------------------------------ MODULE PortChurn ------------------------------
(***************************************************************************)
(* scripts/nova/port-churn-parallel.py: worker processes that give one     *)
(* server a Neutron port and take it away again.  A worker builds network, *)
(* subnet and port, attaches and detaches the port Repeats times, and      *)
(* removes the three in its finally clause.  Nova detaches later, or gives *)
(* up; two invocations of the script use the same names.                   *)
(*                                                                         *)
(* A call that raises may have been carried out all the same (a lost       *)
(* answer, a gateway timeout).  What worker w of invocation r makes is     *)
(* named <<r, w>> here and port-churn-<w> in the cloud.                    *)
(***************************************************************************)
EXTENDS Naturals, FiniteSets

CONSTANTS Run,      \* invocations of the script against one cloud
          Worker,   \* worker processes of each (--workers)
          Repeats   \* attach-detach cycles of each (--repeats)

ASSUME RepeatsAssumption == Repeats \in Nat \ {0}

VARIABLES
    pc,       \* [Task -> what the worker does next]
    cycle,    \* [Task -> number of its current cycle, n + 1]
    got,      \* [Task -> its variables network, subnet, port that are set]
    errors,   \* [Task -> cycles of the errors it collected]
    exit,     \* [Run -> exit status of main]
    networks, \* networks in Neutron, by the worker that made them
    subnets,  \* <<maker, network>> of each subnet
    ports,    \* ports, by their maker
    iface     \* [Task -> its port at the server]

vars == <<pc, cycle, got, errors, exit, networks, subnets, ports, iface>>
neutron == <<networks, subnets, ports>>

Task == Run \X Worker
SameName(p) == {q \in networks : q[2] = p[2]}

Ended == {"returned", "raised"}
Busy == {"connect", "network", "subnet", "port", "attach", "detach", "retry",
         "delete port", "delete subnet", "delete network"}

\* "released" before the first attach too; "kept" is a detach Nova gave up.
Iface == {"released", "plugged", "detaching", "kept"}

TypeOK ==
    /\ pc \in [Task -> {"off"} \cup Busy \cup Ended]
    /\ cycle \in [Task -> 1 .. Repeats]
    /\ got \in [Task -> SUBSET {"network", "subnet", "port"}]
    /\ errors \in [Task -> SUBSET (0 .. Repeats)]
    /\ exit \in [Run -> {"none", "0", "1"}]
    /\ networks \subseteq Task
    /\ subnets \subseteq Task \X Task
    /\ ports \subseteq Task
    /\ iface \in [Task -> Iface]

Init ==
    /\ pc = [p \in Task |-> "off"]
    /\ cycle = [p \in Task |-> 1]
    /\ got = [p \in Task |-> {}]
    /\ errors = [p \in Task |-> {}]
    /\ exit = [r \in Run |-> "none"]
    /\ networks = {}
    /\ subnets = {}
    /\ ports = {}
    /\ iface = [p \in Task |-> "released"]

Goto(p, label) == pc' = [pc EXCEPT ![p] = label]
Got(p, what) == got' = [got EXCEPT ![p] = @ \cup {what}]
Report(p, n) == errors' = [errors EXCEPT ![p] = @ \cup {n}]

\* The finally clause, from its first variable that is set.
Cleanup(p) ==
    IF "port" \in got[p] THEN "delete port"
    ELSE IF "subnet" \in got[p] THEN "delete subnet"
    ELSE IF "network" \in got[p] THEN "delete network"
    ELSE "returned"

-----------------------------------------------------------------------------
(* Slips the script could have made; the actions below are what it does. *)

\* A cycle is counted before the loop looks whether it was the last one.
NextCycleLate(p) ==
    IF cycle[p] <= Repeats
    THEN Goto(p, "attach") /\ cycle' = [cycle EXCEPT ![p] = @ + 1]
    ELSE Goto(p, Cleanup(p)) /\ UNCHANGED cycle

\* The subnet goes to the first network of that name.
CreateSubnetAnywhere(p) ==
    /\ pc[p] = "subnet"
    /\ \E q \in SameName(p) : subnets' = subnets \cup {<<p, q>>}
    /\ Got(p, "subnet")
    /\ Goto(p, "port")
    /\ UNCHANGED <<cycle, errors, exit, networks, ports, iface>>

\* A failed set-up is logged and not collected.
SetupFailsLogged(p) ==
    /\ \/ pc[p] = "network" /\ networks' \in {networks, networks \cup {p}}
          /\ UNCHANGED ports
       \/ pc[p] = "port" /\ ports' \in {ports, ports \cup {p}}
          /\ UNCHANGED networks
    /\ Goto(p, Cleanup(p))
    /\ UNCHANGED <<cycle, got, errors, exit, subnets, iface>>

-----------------------------------------------------------------------------
(* The set-up of port_churn. *)

\* The next turn of the loop, or its end.
NextCycle(p) ==
    IF cycle[p] < Repeats
    THEN Goto(p, "attach") /\ cycle' = [cycle EXCEPT ![p] = @ + 1]
    ELSE Goto(p, Cleanup(p)) /\ UNCHANGED cycle

\* main submits the workers of an invocation.
Start(r) ==
    /\ \A w \in Worker : pc[<<r, w>>] = "off"
    /\ pc' = [p \in Task |-> IF p[1] = r THEN "connect" ELSE pc[p]]
    /\ UNCHANGED <<cycle, got, errors, exit, neutron, iface>>

\* The server is there, or not: before the try.
Connect(p) ==
    /\ pc[p] = "connect"
    /\ \E label \in {"network", "raised"} : Goto(p, label)
    /\ UNCHANGED <<cycle, got, errors, exit, neutron, iface>>

CreateNetwork(p) ==
    /\ pc[p] = "network"
    /\ networks' = networks \cup {p}
    /\ Got(p, "network")
    /\ Goto(p, "subnet")
    /\ UNCHANGED <<cycle, errors, exit, subnets, ports, iface>>

\* create_subnet finds its network by name, and raises unless there is one.
CreateSubnet(p) ==
    /\ pc[p] = "subnet"
    /\ \E q \in SameName(p) :
        /\ SameName(p) = {q}
        /\ subnets' = subnets \cup {<<p, q>>}
    /\ Got(p, "subnet")
    /\ Goto(p, "port")
    /\ UNCHANGED <<cycle, errors, exit, networks, ports, iface>>

CreatePort(p) ==
    /\ pc[p] = "port"
    /\ ports' = ports \cup {p}
    /\ Got(p, "port")
    /\ Goto(p, "attach")
    /\ UNCHANGED <<cycle, errors, exit, networks, subnets, iface>>

\* One of the three raises; its variable is not set, whatever Neutron did.
SetupFails(p) ==
    /\ \/ pc[p] = "network" /\ networks' \in {networks, networks \cup {p}}
          /\ UNCHANGED <<subnets, ports>>
       \/ pc[p] = "subnet"
          /\ subnets' \in {subnets} \cup
                {subnets \cup {<<p, q>>} : q \in {n \in SameName(p) : SameName(p) = {n}}}
          /\ UNCHANGED <<networks, ports>>
       \/ pc[p] = "port" /\ ports' \in {ports, ports \cup {p}}
          /\ UNCHANGED <<networks, subnets>>
    /\ Report(p, 0)
    /\ Goto(p, Cleanup(p))
    /\ UNCHANGED <<cycle, got, exit, iface>>

-----------------------------------------------------------------------------
(* The cycles. *)

\* Nova attaches a port that is not in use.
Attach(p) ==
    /\ pc[p] = "attach"
    /\ iface[p] = "released"
    /\ iface' = [iface EXCEPT ![p] = "plugged"]
    /\ Goto(p, "detach")
    /\ UNCHANGED <<cycle, got, errors, exit, neutron>>

\* create_server_interface raises: there is no iface to delete.
AttachFails(p) ==
    /\ pc[p] = "attach"
    /\ \/ UNCHANGED iface
       \/ iface[p] = "released" /\ iface' = [iface EXCEPT ![p] = "plugged"]
    /\ Report(p, cycle[p])
    /\ NextCycle(p)
    /\ UNCHANGED <<got, exit, neutron>>

\* Nova takes the request to detach; an interface that is gone is no error.
AskRelease(p) ==
    iface' = [iface EXCEPT ![p] = IF @ = "released" THEN @ ELSE "detaching"]

Detach(p) ==
    /\ pc[p] = "detach"
    /\ AskRelease(p)
    /\ NextCycle(p)
    /\ UNCHANGED <<got, errors, exit, neutron>>

\* delete_server_interface raises: the handler tries once more.
DetachFails(p) ==
    /\ pc[p] = "detach"
    /\ AskRelease(p) \/ UNCHANGED iface
    /\ Report(p, cycle[p])
    /\ Goto(p, "retry")
    /\ UNCHANGED <<cycle, got, exit, neutron>>

Retry(p) ==
    /\ pc[p] = "retry"
    /\ AskRelease(p)
    /\ NextCycle(p)
    /\ UNCHANGED <<got, errors, exit, neutron>>

\* An exception of the handler leaves the loop for the outer handler, which
\* reports a failed set-up.
RetryFails(p) ==
    /\ pc[p] = "retry"
    /\ AskRelease(p) \/ UNCHANGED iface
    /\ Report(p, 0)
    /\ Goto(p, Cleanup(p))
    /\ UNCHANGED <<cycle, got, exit, neutron>>

-----------------------------------------------------------------------------
(* The finally clause; an exception of one deletion skips the others. *)

\* Neutron tells Nova, which detaches the port that went away.
PortGone(p) ==
    /\ ports' = ports \ {p}
    /\ AskRelease(p)

DeletePort(p) ==
    /\ pc[p] = "delete port"
    /\ PortGone(p)
    /\ Goto(p, "delete subnet")
    /\ UNCHANGED <<cycle, got, errors, exit, networks, subnets>>

DeletePortFails(p) ==
    /\ pc[p] = "delete port"
    /\ PortGone(p) \/ UNCHANGED <<ports, iface>>
    /\ Goto(p, "raised")
    /\ UNCHANGED <<cycle, got, errors, exit, networks, subnets>>

\* Neutron refuses to delete a subnet or a network that ports use.
DeleteSubnet(p) ==
    /\ pc[p] = "delete subnet"
    /\ p \notin ports
    /\ subnets' = {s \in subnets : s[1] # p}
    /\ Goto(p, "delete network")
    /\ UNCHANGED <<cycle, got, errors, exit, networks, ports, iface>>

DeleteSubnetFails(p) ==
    /\ pc[p] = "delete subnet"
    /\ \/ UNCHANGED subnets
       \/ p \notin ports /\ subnets' = {s \in subnets : s[1] # p}
    /\ Goto(p, "raised")
    /\ UNCHANGED <<cycle, got, errors, exit, networks, ports, iface>>

\* The subnets of a network go with it.
NetworkGone(p) ==
    /\ p \notin ports
    /\ networks' = networks \ {p}
    /\ subnets' = {s \in subnets : s[2] # p}

DeleteNetwork(p) ==
    /\ pc[p] = "delete network"
    /\ NetworkGone(p)
    /\ Goto(p, "returned")
    /\ UNCHANGED <<cycle, got, errors, exit, ports, iface>>

DeleteNetworkFails(p) ==
    /\ pc[p] = "delete network"
    /\ NetworkGone(p) \/ UNCHANGED <<networks, subnets>>
    /\ Goto(p, "raised")
    /\ UNCHANGED <<cycle, got, errors, exit, ports, iface>>

-----------------------------------------------------------------------------
(* main, and Nova. *)

\* wait_for_all; then an exception of a worker is raised, or the lists of
\* errors that are not empty are printed.
Exit(r) ==
    /\ exit[r] = "none"
    /\ \A w \in Worker : pc[<<r, w>>] \in Ended
    /\ exit' = [exit EXCEPT ![r] =
            IF \A w \in Worker : pc[<<r, w>>] = "returned" /\ errors[<<r, w>>] = {}
            THEN "0" ELSE "1"]
    /\ UNCHANGED <<pc, cycle, got, errors, neutron, iface>>

NovaDetaches(p) ==
    /\ iface[p] = "detaching"
    /\ \E outcome \in {"released", "kept"} : iface' = [iface EXCEPT ![p] = outcome]
    /\ UNCHANGED <<pc, cycle, got, errors, exit, neutron>>

Step(p) ==
    \/ Connect(p) \/ CreateNetwork(p) \/ CreateSubnet(p) \/ CreatePort(p) \/ SetupFails(p)
    \/ Attach(p) \/ AttachFails(p) \/ Detach(p) \/ DetachFails(p) \/ Retry(p) \/ RetryFails(p)
    \/ DeletePort(p) \/ DeletePortFails(p) \/ DeleteSubnet(p) \/ DeleteSubnetFails(p)
    \/ DeleteNetwork(p) \/ DeleteNetworkFails(p)

Next ==
    \/ \E r \in Run : Start(r) \/ Exit(r)
    \/ \E p \in Task : Step(p) \/ NovaDetaches(p)

Spec == Init /\ [][Next]_vars

-----------------------------------------------------------------------------
(* Properties. *)

Left(p) == p \in networks \cup ports \/ \E s \in subnets : s[1] = p

\* Leftovers and the other invocation never lend a worker their network: the
\* subnet a worker makes, by name, is in the network it made, by id.
SubnetInOwnNetwork == \A s \in subnets : s[1] = s[2]

\* Exit status 0 means that nothing of the invocation is left in Neutron, even
\* where calls were carried out without an answer: a worker that could not make
\* or remove one of its three objects collected an error or raised.
CleanExit == \A p \in Task : exit[p[1]] = "0" => ~Left(p)

\* The strengthenings the two above rest on.
\* A worker that is past creating its network, and has not come to the end of
\* its finally clause, still has it.
OwnNetwork ==
    \A p \in Task :
        /\ "network" \in got[p] /\ pc[p] \notin Ended => p \in networks
        /\ pc[p] \in {"off", "connect", "network"} => got[p] = {}
        /\ pc[p] = "subnet" => got[p] = {"network"}

\* A worker without errors knows what it has in Neutron.
WhatItHas ==
    \A p \in Task : errors[p] = {} =>
        /\ pc[p] \in {"off", "connect", "network", "returned"} => p \notin networks
        /\ pc[p] \in {"off", "connect", "network", "subnet", "delete network", "returned"} =>
              \A s \in subnets : s[1] # p
        /\ pc[p] \in {"off", "connect", "network", "subnet", "port",
                      "delete subnet", "delete network", "returned"} => p \notin ports
        /\ pc[p] \in {"attach", "detach"} => "port" \in got[p]
        /\ pc[p] # "retry"

ZeroMeansNoErrors ==
    \A p \in Task : exit[p[1]] = "0" => pc[p] = "returned" /\ errors[p] = {}
=============================================================================
