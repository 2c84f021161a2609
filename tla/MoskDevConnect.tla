--------------------------- MODULE MoskDevConnect ---------------------------
(***************************************************************************)
(* scripts/mosk/mosk-dev-connect: sessions that append the API hosts of a  *)
(* cluster to the hosts file, tunnel to it with sshuttle, and put the file *)
(* back from a backup.  All sessions of a machine share the hosts file,    *)
(* its one backup, the routing table and the process table; each command   *)
(* of the script that touches one of them is an action of its own, so two  *)
(* sessions interleave between any two commands.                           *)
(*                                                                         *)
(* Abstracted: a line of the hosts file is an element of Line and HostOf   *)
(* gives the name the script greps for; the file is a set of lines; cp,    *)
(* tee and mv are atomic; what kubectl reports is the constant function    *)
(* Entries.                                                                *)
(***************************************************************************)
EXTENDS Naturals, FiniteSets

CONSTANTS
    Session,        \* runs of the script, each by one terminal
    Line,           \* lines a hosts file may hold
    HostOf,         \* [Line -> host name of the line]
    Base,           \* lines of the hosts file before any session
    Admin,          \* lines somebody else may add meanwhile
    Entries,        \* [Session -> lines discover_hosts prints for it]
    Cidr,           \* networks
    ClusterCidr,    \* [Session -> CLUSTER_CIDR]
    PublicCidr,     \* [Session -> PUBLIC_CIDR]
    Parallel,       \* may a session start while another one runs?
    CanFail         \* commands that may fail: sudo is refused, a network is not
                    \* found, a route exists

ASSUME LinesAssumption == Base \subseteq Line /\ Admin \subseteq Line
ASSUME EntriesAssumption == Entries \in [Session -> SUBSET Line]
ASSUME CidrAssumption == /\ ClusterCidr \in [Session -> Cidr]
                         /\ PublicCidr \in [Session -> Cidr]
ASSUME SwitchAssumption == Parallel \in BOOLEAN
ASSUME CanFailAssumption == CanFail \subseteq {"backup", "append", "route", "unroute", "restore"}

VARIABLES
    pc,        \* [Session -> the command the session runs next]
    mode,      \* [Session -> how the options set DO_SSHUTTLE and INJECT_ROUTES]
    unchecked, \* [Session -> entries patch_hosts_file has not grepped yet]
    hosts,     \* lines of HOSTSFILE
    saved,     \* does HOSTSFILE.mosk.bak exist?
    backup,    \* its lines ({} when it does not exist)
    routes,    \* networks routed to IFACE
    kept,      \* history: lines written while no backup existed
    refused    \* history: <<s, "route">> where a route of s was not added, <<s, "unroute">>
               \* where one was not deleted, <<s, "backup">> where its cp failed and
               \* <<s, "restore">> where its mv was refused

vars == <<pc, mode, unchecked, hosts, saved, backup, routes, kept, refused>>

Mode == {"hosts", "tunnel", "routes"}

Ended == {"off", "refused", "done", "failed", "killed"}

Running == {"grep", "backup", "append", "pgrep", "undo", "route1", "route2",
            "proxy", "unroute1", "unroute2", "prompt", "restore"}

\* The commands between the backup and the mv that consumes it.
Patching == Running \ {"grep", "backup"}

Live(s) == pc[s] \in Running

Goto(s, label) == pc' = [pc EXCEPT ![s] = label]

\* Sessions whose sshuttle pgrep would list for s: same pair of networks.
SameTunnel(s) == {t \in Session : /\ pc[t] = "proxy"
                                  /\ ClusterCidr[t] = ClusterCidr[s]
                                  /\ PublicCidr[t] = PublicCidr[s]}

TypeOK ==
    /\ pc \in [Session -> Ended \cup Running]
    /\ mode \in [Session -> Mode]
    /\ unchecked \in [Session -> SUBSET Line]
    /\ hosts \subseteq Line
    /\ saved \in BOOLEAN
    /\ backup \subseteq Line
    /\ routes \subseteq Cidr
    /\ kept \subseteq Line
    /\ refused \subseteq Session \X {"route", "unroute", "backup", "restore"}

Init ==
    /\ pc = [s \in Session |-> "off"]
    /\ mode \in [Session -> Mode]
    /\ unchecked = [s \in Session |-> {}]
    /\ hosts = Base
    /\ saved = FALSE
    /\ backup = {}
    /\ routes = {}
    /\ kept = Base
    /\ refused = {}

-----------------------------------------------------------------------------
(* Slips the script could have made; the actions below are what it does. *)

\* The backup is taken once the entries are appended.
LateBackup(s) ==
    /\ pc[s] = "backup"
    /\ saved' = TRUE
    /\ backup' = hosts \cup Entries[s]
    /\ Goto(s, "append")
    /\ UNCHANGED <<mode, unchecked, hosts, routes, kept, refused>>

\* The public network was not discovered and its route is added all the same.
AddEmptyRoute(s) ==
    /\ pc[s] = "route2"
    /\ routes' = routes \cup {""}
    /\ Goto(s, "proxy")
    /\ UNCHANGED <<mode, unchecked, hosts, saved, backup, kept, refused>>

\* delete_routes deletes the network of the cluster twice.
DeleteClusterRouteAgain(s) ==
    /\ pc[s] = "unroute2"
    /\ routes' = routes \ {ClusterCidr[s]}
    /\ Goto(s, "restore")
    /\ UNCHANGED <<mode, unchecked, hosts, saved, backup, kept, refused>>

\* The file is emptied when there is no backup to restore.
BlindRestore(s) ==
    /\ pc[s] \in {"undo", "restore"}
    /\ hosts' = backup
    /\ saved' = FALSE
    /\ backup' = {}
    /\ Goto(s, "done")
    /\ UNCHANGED <<mode, unchecked, routes, kept, refused>>

\* The backup is copied, not moved.
CopyRestore(s) ==
    /\ pc[s] \in {"undo", "restore"}
    /\ saved
    /\ hosts' = backup
    /\ Goto(s, "done")
    /\ UNCHANGED <<mode, unchecked, saved, backup, routes, kept, refused>>

-----------------------------------------------------------------------------
(* One session, in the order of the script. *)

\* The options are read and discover_hosts has printed the entries.
Start(s) ==
    /\ pc[s] = "off"
    /\ Parallel \/ \A t \in Session : ~Live(t)
    /\ unchecked' = [unchecked EXCEPT ![s] = Entries[s]]
    /\ Goto(s, "grep")
    /\ UNCHANGED <<mode, hosts, saved, backup, routes, kept, refused>>

\* One turn of the loop of patch_hosts_file: grep for the name of one entry.
Grep(s) ==
    /\ pc[s] = "grep"
    /\ \E e \in unchecked[s] :
          /\ unchecked' = [unchecked EXCEPT ![s] = @ \ {e}]
          /\ IF \E l \in hosts : HostOf[l] = HostOf[e]
             THEN Goto(s, "refused")
             ELSE UNCHANGED pc
    /\ UNCHANGED <<mode, hosts, saved, backup, routes, kept, refused>>

\* Every entry was grepped and none was found.
GrepDone(s) ==
    /\ pc[s] = "grep"
    /\ unchecked[s] = {}
    /\ Goto(s, "backup")
    /\ UNCHANGED <<mode, unchecked, hosts, saved, backup, routes, kept, refused>>

\* cp HOSTSFILE HOSTSFILE.mosk.bak, over whatever backup is there.
Backup(s) ==
    /\ pc[s] = "backup"
    /\ saved' = TRUE
    /\ backup' = hosts
    /\ Goto(s, "append")
    /\ UNCHANGED <<mode, unchecked, hosts, routes, kept, refused>>

\* The cp fails, and the script goes on with the backup that is there, or none.
BackupFails(s) ==
    /\ pc[s] = "backup"
    /\ "backup" \in CanFail
    /\ refused' = refused \cup {<<s, "backup">>}
    /\ Goto(s, "append")
    /\ UNCHANGED <<mode, unchecked, hosts, saved, backup, routes, kept>>

\* tee -a HOSTSFILE, which may fail as well, then the branch on DO_SSHUTTLE.
Append(s) ==
    /\ pc[s] = "append"
    /\ \/ hosts' = hosts \cup Entries[s]
       \/ "append" \in CanFail /\ UNCHANGED hosts
    /\ Goto(s, IF mode[s] = "hosts" THEN "prompt" ELSE "pgrep")
    /\ UNCHANGED <<mode, unchecked, saved, backup, routes, kept, refused>>

\* The unquoted [ $(pgrep ...) ] holds for exactly one process id: none is
\* false, and two or more make [ fail, which the if takes for false as well.
Pgrep(s) ==
    /\ pc[s] = "pgrep"
    /\ Goto(s, IF Cardinality(SameTunnel(s)) = 1 THEN "undo"
               ELSE IF mode[s] = "routes" THEN "route1" ELSE "proxy")
    /\ UNCHANGED <<mode, unchecked, hosts, saved, backup, routes, kept, refused>>

\* One sudo ip route add or del.  It may fail, and the script goes on; to add a
\* route that exists, or delete one that does not, changes nothing.
Route(s, cidr) ==
    \/ routes' = routes \cup {cidr} /\ UNCHANGED refused
    \/ "route" \in CanFail /\ refused' = refused \cup {<<s, "route">>} /\ UNCHANGED routes

Unroute(s, cidr) ==
    \/ routes' = routes \ {cidr} /\ UNCHANGED refused
    \/ "unroute" \in CanFail /\ refused' = refused \cup {<<s, "unroute">>} /\ UNCHANGED routes

\* add_routes: the network of the cluster, then the public one if it is another.
AddClusterRoute(s) ==
    /\ pc[s] = "route1"
    /\ Route(s, ClusterCidr[s])
    /\ Goto(s, "route2")
    /\ UNCHANGED <<mode, unchecked, hosts, saved, backup, kept>>

AddPublicRoute(s) ==
    /\ pc[s] = "route2"
    /\ IF PublicCidr[s] = ClusterCidr[s] THEN UNCHANGED <<routes, refused>> ELSE Route(s, PublicCidr[s])
    /\ Goto(s, "proxy")
    /\ UNCHANGED <<mode, unchecked, hosts, saved, backup, kept>>

\* sshuttle ends, or Enter is pressed.
StopWaiting(s) ==
    /\ pc[s] \in {"proxy", "prompt"}
    /\ Goto(s, IF pc[s] = "proxy" /\ mode[s] = "routes" THEN "unroute1" ELSE "restore")
    /\ UNCHANGED <<mode, unchecked, hosts, saved, backup, routes, kept, refused>>

\* delete_routes, in the same order.
DeleteClusterRoute(s) ==
    /\ pc[s] = "unroute1"
    /\ Unroute(s, ClusterCidr[s])
    /\ Goto(s, "unroute2")
    /\ UNCHANGED <<mode, unchecked, hosts, saved, backup, kept>>

DeletePublicRoute(s) ==
    /\ pc[s] = "unroute2"
    /\ IF PublicCidr[s] = ClusterCidr[s] THEN UNCHANGED <<routes, refused>> ELSE Unroute(s, PublicCidr[s])
    /\ Goto(s, "restore")
    /\ UNCHANGED <<mode, unchecked, hosts, saved, backup, kept>>

\* restore_hosts_file: mv HOSTSFILE.mosk.bak HOSTSFILE, at the end of the
\* session or on finding another tunnel to the same networks.
Restore(s) ==
    /\ pc[s] \in {"undo", "restore"}
    /\ saved
    /\ hosts' = backup
    /\ saved' = FALSE
    /\ backup' = {}
    /\ Goto(s, "done")
    /\ UNCHANGED <<mode, unchecked, routes, kept, refused>>

\* The mv fails: there is no backup, or sudo is refused.  The script prints OK all
\* the same.
RestoreFails(s) ==
    /\ pc[s] \in {"undo", "restore"}
    /\ \/ ~saved /\ UNCHANGED refused
       \/ "restore" \in CanFail /\ refused' = refused \cup {<<s, "restore">>}
    /\ Goto(s, "failed")
    /\ UNCHANGED <<mode, unchecked, hosts, saved, backup, routes, kept>>

\* The terminal is closed or the script interrupted: there is no exit trap.
Kill(s) ==
    /\ Live(s)
    /\ Goto(s, "killed")
    /\ UNCHANGED <<mode, unchecked, hosts, saved, backup, routes, kept, refused>>

\* Somebody else edits the hosts file.
AdminAdds(l) ==
    /\ l \notin hosts
    /\ hosts' = hosts \cup {l}
    /\ kept' = IF saved THEN kept ELSE kept \cup {l}
    /\ UNCHANGED <<pc, mode, unchecked, saved, backup, routes, refused>>

Step(s) ==
    \/ Start(s) \/ Grep(s) \/ GrepDone(s) \/ Backup(s) \/ BackupFails(s) \/ Append(s) \/ Pgrep(s)
    \/ AddClusterRoute(s) \/ AddPublicRoute(s) \/ StopWaiting(s)
    \/ DeleteClusterRoute(s) \/ DeletePublicRoute(s)
    \/ Restore(s) \/ RestoreFails(s) \/ Kill(s)

Next == (\E s \in Session : Step(s)) \/ (\E l \in Admin : AdminAdds(l))

Spec == Init /\ [][Next]_vars

-----------------------------------------------------------------------------
(* Properties. *)

\* Nothing the sessions do, in any interleaving and with any of them killed,
\* loses a line of the hosts file that was there before the first session or
\* was added while no backup existed (patch_hosts_file, restore_hosts_file).
KeptLinesSurvive == kept \subseteq hosts /\ (saved => kept \subseteq backup)

\* A backup on disk always has a session that still means to move it back, or
\* that was killed or failed before it could.
BackupHasOwner == saved => \E s \in Session : pc[s] \in Patching \cup {"killed", "failed"}

\* What LeakExplained rests on: sessions exclude each other, and a backup
\* holds entries of killed or failed sessions at most.
OneAtATime == \A s, t \in Session : Live(s) /\ Live(t) => s = t

BackupExplained ==
    \A l \in backup \ (Base \cup Admin) :
        \E s \in Session : l \in Entries[s] /\ pc[s] \in {"killed", "failed"}

\* With one session at a time, an entry left in the hosts file is the entry
\* of the session that runs or of one that was killed or could not restore.
LeakExplained ==
    \A l \in hosts \ (Base \cup Admin) :
        \E s \in Session : l \in Entries[s] /\ pc[s] \in Patching \cup {"killed", "failed"}

\* With one session at a time, the networks of an open tunnel that asked for
\* routes are routed unless adding one failed, and a route nobody uses was left by
\* a session that was killed or failed to delete one (add_routes, delete_routes).
RoutesExplained ==
    /\ \A s \in Session :
          pc[s] = "proxy" /\ mode[s] = "routes" /\ <<s, "route">> \notin refused
              => {ClusterCidr[s], PublicCidr[s]} \subseteq routes
    /\ \A r \in routes : \E s \in Session :
          /\ r \in {ClusterCidr[s], PublicCidr[s]}
          /\ Live(s) \/ pc[s] = "killed" \/ <<s, "unroute">> \in refused

\* Every session that started has reported the file restored or was refused
\* before it changed anything, hence no entry of a cluster is left in it, unless a
\* cp failed or a mv was refused.  The message "restoring /etc/hosts from backup...
\* OK" of restore_hosts_file says so.
Copied == \A s \in Session : {<<s, "backup">>, <<s, "restore">>} \cap refused = {}

ReportedRestored ==
    Copied /\ (\A s \in Session : pc[s] \in Ended \ {"killed"})
        => hosts \subseteq Base \cup Admin
=============================================================================
