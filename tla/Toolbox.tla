------------------------------- MODULE Toolbox -------------------------------
(***************************************************************************)
(* The scripts that are small and share nothing, side by side: the initial *)
(* states choose which one runs, and its module says what it does.  The    *)
(* variables of the others are "idle" meanwhile.                           *)
(***************************************************************************)
EXTENDS Naturals, FiniteSets, Sequences

CONSTANTS
    Agg, AggHost, Listing, BeginsWith, MaxEdits, \* AggregatesFix
    Caller, NumCpu,                              \* CpuLoad
    NovaVolume, Device,                          \* CorruptedVA
    StackSize, Hostname, Addresses,              \* HeatInventory
    Message, Topic, TopicOf, Runs,               \* Notispy
    NovaServer, Providers, Migration,            \* OrphanAllocations: so many providers
    Host, Minor, Swap, MaxDisk,                  \* ServersVsConsumers
    Rounds, Instances                            \* OverallocationServers

ASSUME ListingAssumption == Listing \in Seq(STRING)
ASSUME CoresAssumption == NumCpu \in Nat
\* A device is a path, and never the word for a volume that Cinder lacks.
ASSUME DevicesAssumption == "missing" \notin Device
ASSUME StackSizeAssumption == StackSize \in Nat
ASSUME AddressesAssumption == Addresses \subseteq Seq({"fixed4", "fixed6", "floating4", "floating6"})
ASSUME RunsAssumption == Runs \in Nat \ {0}
ASSUME HostAssumption == "none" \notin Host
ASSUME MinorAssumption == \A m \in Minor : m \in Seq(0 .. 9) /\ Len(m) > 0
\* The bound on an allocation leaves room for any swap disk and two disks of 1 GiB.
ASSUME SwapAssumption == MaxDisk \in Nat /\ \A m \in Swap : m \in Nat /\ (m + 1023) \div 1024 + 2 <= MaxDisk
ASSUME RoundsAssumption == Rounds \in Nat \ {0}
ASSUME InstancesAssumption == Instances \in Nat
\* No migration has the identifier of a server or of another migration.
ASSUME UniqueIds ==
    \A s, t \in NovaServer : Migration[s] \notin NovaServer /\ (Migration[s] = Migration[t] => s = t)

VARIABLES script,
          pc,
          fix, hosts, listed, todo, pair, rpAggs, placement, added, given, edited, raced, refused,
          started, pidFile, pids, load, met,
          turn, known, raised, exists, status, attached, swap, swaps,
          local, cloud

aggVars == <<fix, hosts, listed, todo, pair, rpAggs, placement, added, given, edited, raced, refused>>
cpuVars == <<started, pidFile, pids, load, met>>
swapVars == <<turn, known, raised, exists, status, attached, swap, swaps>>
twoVars == <<local, cloud>>
others == <<script, pc, aggVars, cpuVars, swapVars>>
vars == <<script, pc, aggVars, cpuVars, swapVars, twoVars>>

Aggregates == INSTANCE AggregatesFix WITH Host <- AggHost
Load == INSTANCE CpuLoad
Volumes == INSTANCE SwapVolume
VA == INSTANCE CorruptedVA WITH Volume <- NovaVolume
Inventory == INSTANCE HeatInventory WITH Server <- 1 .. StackSize
Spy == INSTANCE Notispy WITH bus <- cloud
Orphans == INSTANCE OrphanAllocations WITH Server <- NovaServer, Provider <- 1 .. Providers
Consumers == INSTANCE ServersVsConsumers
Dependents == INSTANCE ImageDependents
Overallocation == INSTANCE OverallocationServers

NoAggregates ==
    /\ fix = "idle" /\ hosts = "idle" /\ listed = "idle" /\ todo = "idle"
    /\ pair = "idle" /\ rpAggs = "idle" /\ placement = "idle" /\ added = "idle"
    /\ given = "idle" /\ edited = "idle" /\ raced = "idle" /\ refused = "idle"

NoLoad ==
    /\ started = "idle" /\ pidFile = "idle" /\ pids = "idle" /\ load = "idle"
    /\ met = "idle"

NoVolumes ==
    /\ turn = "idle" /\ known = "idle" /\ raised = "idle" /\ exists = "idle"
    /\ status = "idle" /\ attached = "idle" /\ swap = "idle" /\ swaps = "idle"

NoTwo == local = "idle" /\ cloud = "idle"
OnlyTwo == pc = "idle" /\ NoAggregates /\ NoLoad /\ NoVolumes

Init ==
    \/ script = "aggregates" /\ Aggregates!Init /\ NoLoad /\ NoVolumes /\ NoTwo
    \/ script = "cpuload" /\ Load!Init /\ NoAggregates /\ NoVolumes /\ NoTwo
    \/ script = "swap" /\ Volumes!Init /\ NoAggregates /\ NoLoad /\ NoTwo
    \/ script = "va" /\ VA!Init /\ OnlyTwo
    \/ script = "inventory" /\ Inventory!Init /\ OnlyTwo
    \/ script = "notispy" /\ Spy!Init /\ OnlyTwo
    \/ script = "orphans" /\ Orphans!Init /\ OnlyTwo
    \/ script = "consumers" /\ Consumers!Init /\ OnlyTwo
    \/ script = "dependents" /\ Dependents!Init /\ OnlyTwo
    \/ script = "overallocation" /\ Overallocation!Init /\ OnlyTwo

Next ==
    \/ script = "aggregates" /\ Aggregates!Next /\ UNCHANGED <<script, cpuVars, swapVars, twoVars>>
    \/ script = "cpuload" /\ Load!Next /\ UNCHANGED <<script, aggVars, swapVars, twoVars>>
    \/ script = "swap" /\ Volumes!Next /\ UNCHANGED <<script, aggVars, cpuVars, twoVars>>
    \/ script = "va" /\ VA!Next /\ UNCHANGED others
    \/ script = "inventory" /\ Inventory!Next /\ UNCHANGED others
    \/ script = "notispy" /\ Spy!Next /\ UNCHANGED others
    \/ script = "orphans" /\ Orphans!Next /\ UNCHANGED others
    \/ script = "consumers" /\ Consumers!Next /\ UNCHANGED others
    \/ script = "dependents" /\ Dependents!Next /\ UNCHANGED others
    \/ script = "overallocation" /\ Overallocation!Next /\ UNCHANGED others

Spec == Init /\ [][Next]_vars

-----------------------------------------------------------------------------
(* The properties of the modules, each of its own script. *)

\* Every script keeps the types of its variables.
TypeOK ==
    /\ script = "aggregates" => Aggregates!TypeOK
    /\ script = "cpuload" => Load!TypeOK
    /\ script = "swap" => Volumes!TypeOK
    /\ script = "va" => VA!TypeOK
    /\ script = "inventory" => Inventory!TypeOK
    /\ script = "notispy" => Spy!TypeOK
    /\ script = "orphans" => Orphans!TypeOK
    /\ script = "consumers" => Consumers!TypeOK
    /\ script = "dependents" => Dependents!TypeOK
    /\ script = "overallocation" => Overallocation!TypeOK

\* --fix adds to providers the aggregates of their hosts that they lack, but for
\* PUTs that are refused, and loses of the edits of others only those between its
\* GET and its PUT (nova-vs-placement-aggs.py).
FixConverges == script = "aggregates" => Aggregates!FixConverges

\* A release finds every process of the load in the PID file, unless it ran
\* while a load was started (cpu_load, cpu_release).
LoadListed == script = "cpuload" => Load!LoadListed

\* test_swap_volume returns only when both swaps are through.
BothSwapsDone == script = "swap" => Volumes!BothSwapsDone

\* cleanup asks for no deletion of a volume that is attached.
DetachedFirst == script = "swap" => Volumes!DetachedFirst

\* A clean-up that ran to its end leaves at most the one resource whose creation
\* raised.
LeftIsLone == script = "swap" => Volumes!LeftIsLone

\* corrupted_va.py reports those volumes Nova lists and nobody works on that Cinder
\* or libvirt has otherwise.
AlarmsExact == script = "va" => VA!AlarmsExact

\* Every server of a stack is in the inventory, warned of, or hidden by a later
\* one of its name (get_server_fips_from_stack).
EveryServerAccounted == script = "inventory" => Inventory!EveryServerAccounted

\* What notispy acknowledged it has written when it exits.
AckedAreWritten == script = "notispy" => Spy!AckedAreWritten

\* orphan_allocations.py --delete spares every server Nova knows.
ServersKeepAllocations == script = "orphans" => Orphans!ServersKeepAllocations

\* servers_vs_consumers.py reports what is wrong with a server left alone, but for
\* the disk of one with swap or with a misread version.
FailsExact == script = "consumers" => Consumers!FailsExact

\* What repro-image-dependents.py leaves is what its failing calls account for.
LeftExplained == script = "dependents" => Dependents!LeftExplained

\* A server of repro-overallocation-servers.py that Nova is not deleting when a later
\* round is under way outlived clean-ups that failed, all of them since its round.
LeftoversExplained == script = "overallocation" => Overallocation!LeftoversExplained
=============================================================================
