------------------------ MODULE MoskDevConnect_proofs ------------------------
(***************************************************************************)
(* Proofs about MoskDevConnect, for any number of sessions, clusters,      *)
(* lines and networks.                                                     *)
(***************************************************************************)
EXTENDS MoskDevConnect, TLAPS

\* Every variable of the sessions keeps its type.
THEOREM TypeCorrect == Spec => []TypeOK
<1> USE LinesAssumption, EntriesAssumption, CidrAssumption
<1>1. Init => TypeOK
  BY DEF Init, TypeOK, Ended
<1>2. TypeOK /\ [Next]_vars => TypeOK'
  <2> SUFFICES ASSUME TypeOK, [Next]_vars PROVE TypeOK'
    OBVIOUS
  <2> USE DEF TypeOK, Ended, Running, Goto
  <2>1. ASSUME NEW s \in Session, Start(s) PROVE TypeOK'
    BY <2>1 DEF Start
  <2>2. ASSUME NEW s \in Session, Grep(s) PROVE TypeOK'
    BY <2>2 DEF Grep
  <2>3. ASSUME NEW s \in Session, GrepDone(s) PROVE TypeOK'
    BY <2>3 DEF GrepDone
  <2>4. ASSUME NEW s \in Session, Backup(s) \/ BackupFails(s) PROVE TypeOK'
    <3>1. CASE Backup(s)
      BY <3>1 DEF Backup
    <3>2. CASE BackupFails(s)
      BY <3>2 DEF BackupFails
    <3> QED
      BY <2>4, <3>1, <3>2
  <2>5. ASSUME NEW s \in Session, Append(s) PROVE TypeOK'
    BY <2>5 DEF Append
  <2>6. ASSUME NEW s \in Session, Pgrep(s) PROVE TypeOK'
    BY <2>6 DEF Pgrep
  <2>7. ASSUME NEW s \in Session, AddClusterRoute(s) \/ AddPublicRoute(s) PROVE TypeOK'
    BY <2>7 DEF AddClusterRoute, AddPublicRoute, Route
  <2>8. ASSUME NEW s \in Session, StopWaiting(s) PROVE TypeOK'
    BY <2>8 DEF StopWaiting
  <2>9. ASSUME NEW s \in Session, DeleteClusterRoute(s) \/ DeletePublicRoute(s) PROVE TypeOK'
    BY <2>9 DEF DeleteClusterRoute, DeletePublicRoute, Unroute
  <2>10. ASSUME NEW s \in Session, Restore(s) PROVE TypeOK'
    BY <2>10 DEF Restore
  <2>11. ASSUME NEW s \in Session, RestoreFails(s) \/ Kill(s) PROVE TypeOK'
    BY <2>11 DEF RestoreFails, Kill
  <2>12. ASSUME NEW l \in Admin, AdminAdds(l) PROVE TypeOK'
    BY <2>12 DEF AdminAdds
  <2>13. CASE UNCHANGED vars
    BY <2>13 DEF vars
  <2> QED
    BY <2>1, <2>2, <2>3, <2>4, <2>5, <2>6, <2>7, <2>8, <2>9, <2>10, <2>11, <2>12, <2>13
       DEF Next, Step
<1> QED
  BY <1>1, <1>2, PTL DEF Spec

\* No line of the file before the first session, and none added while no
\* backup existed, is ever lost.
THEOREM KeptLinesAlwaysSurvive == Spec => []KeptLinesSurvive
<1>1. Init => KeptLinesSurvive
  BY DEF Init, KeptLinesSurvive
<1>2. KeptLinesSurvive /\ [Next]_vars => KeptLinesSurvive'
  <2> SUFFICES ASSUME KeptLinesSurvive, [Next]_vars PROVE KeptLinesSurvive'
    OBVIOUS
  <2> USE DEF KeptLinesSurvive
  <2>1. ASSUME NEW s \in Session, Backup(s) PROVE KeptLinesSurvive'
    BY <2>1 DEF Backup
  <2>2. ASSUME NEW s \in Session, Append(s) PROVE KeptLinesSurvive'
    BY <2>2 DEF Append
  <2>3. ASSUME NEW s \in Session, Restore(s) PROVE KeptLinesSurvive'
    BY <2>3 DEF Restore
  <2>4. ASSUME NEW l \in Admin, AdminAdds(l) PROVE KeptLinesSurvive'
    BY <2>4 DEF AdminAdds
  <2>5. CASE UNCHANGED <<hosts, saved, backup, kept>>
    BY <2>5
  <2> QED
    BY <2>1, <2>2, <2>3, <2>4, <2>5
       DEF Next, Step, vars, Start, Grep, GrepDone, Pgrep, AddClusterRoute, AddPublicRoute,
           StopWaiting, DeleteClusterRoute, DeletePublicRoute, BackupFails, RestoreFails, Kill
<1> QED
  BY <1>1, <1>2, PTL DEF Spec

\* A backup on disk is owned by a session that is still to move it back, or
\* that was killed or failed before it could.
THEOREM BackupAlwaysHasOwner == Spec => []BackupHasOwner
<1>1. Init => BackupHasOwner
  BY DEF Init, BackupHasOwner
<1>2. TypeOK /\ BackupHasOwner /\ [Next]_vars => BackupHasOwner'
  <2> SUFFICES ASSUME TypeOK, BackupHasOwner, [Next]_vars PROVE BackupHasOwner'
    OBVIOUS
  <2> USE DEF TypeOK, BackupHasOwner, Patching, Running, Ended, Goto
  <2>1. ASSUME NEW s \in Session, Start(s) \/ Grep(s) \/ GrepDone(s) PROVE BackupHasOwner'
    BY <2>1 DEF Start, Grep, GrepDone
  <2>2. ASSUME NEW s \in Session, Backup(s) PROVE BackupHasOwner'
    <3>1. pc'[s] = "append"
      BY <2>2 DEF Backup
    <3> QED
      BY <3>1
  <2>3. ASSUME NEW s \in Session, BackupFails(s) \/ Append(s) \/ Pgrep(s) PROVE BackupHasOwner'
    BY <2>3 DEF BackupFails, Append, Pgrep
  <2>4. ASSUME NEW s \in Session, AddClusterRoute(s) \/ AddPublicRoute(s) PROVE BackupHasOwner'
    BY <2>4 DEF AddClusterRoute, AddPublicRoute
  <2>5. ASSUME NEW s \in Session, DeleteClusterRoute(s) \/ DeletePublicRoute(s) \/ StopWaiting(s)
        PROVE BackupHasOwner'
    BY <2>5 DEF DeleteClusterRoute, DeletePublicRoute, StopWaiting
  <2>6. ASSUME NEW s \in Session, Restore(s) PROVE BackupHasOwner'
    BY <2>6 DEF Restore
  <2>7. ASSUME NEW s \in Session, RestoreFails(s) \/ Kill(s) PROVE BackupHasOwner'
    BY <2>7 DEF RestoreFails, Kill
  <2>8. CASE UNCHANGED <<pc, saved>>
    BY <2>8
  <2> QED
    BY <2>1, <2>2, <2>3, <2>4, <2>5, <2>6, <2>7, <2>8 DEF Next, Step, vars, AdminAdds
<1> QED
  BY <1>1, <1>2, TypeCorrect, PTL DEF Spec

-----------------------------------------------------------------------------
(***************************************************************************)
(* One session at a time.  LeakExplained is not inductive: a session that  *)
(* restores puts back whatever its backup holds.  The backup holds entries *)
(* of killed and failed sessions only, because no other session is live    *)
(* while one takes its backup.                                             *)
(***************************************************************************)
LeakInv == TypeOK /\ OneAtATime /\ LeakExplained /\ BackupExplained

\* A step that starts no session leaves at most one of them live.
LEMMA StillOneAtATime ==
    ASSUME OneAtATime, \A s \in Session : Live(s)' => Live(s)
    PROVE  OneAtATime'
BY DEF OneAtATime

\* A step that writes no file and takes no session out of those that explain
\* a leak leaves every leak explained.
LEMMA StillExplained ==
    ASSUME LeakExplained, BackupExplained, UNCHANGED <<hosts, backup>>,
           \A s \in Session :
              /\ pc[s] \in Patching => pc'[s] \in Patching \cup {"killed", "failed"}
              /\ pc[s] \in {"killed", "failed"} => pc'[s] = pc[s]
    PROVE  LeakExplained' /\ BackupExplained'
BY DEF LeakExplained, BackupExplained

LEMMA LeakInvStep ==
    ASSUME ~Parallel, LeakInv, TypeOK', [Next]_vars
    PROVE  LeakInv'
<1> USE DEF LeakInv
<1> USE DEF TypeOK, Patching, Running, Ended, Goto, Live
<1>1. ASSUME NEW s \in Session, Start(s) PROVE LeakInv'
  <2>1. OneAtATime'
    BY <1>1 DEF Start, OneAtATime
  <2>2. LeakExplained' /\ BackupExplained'
    BY <1>1, StillExplained DEF Start
  <2> QED
    BY <2>1, <2>2
<1>2. ASSUME NEW s \in Session, Backup(s) PROVE LeakInv'
  <2>1. OneAtATime'
    BY <1>2, StillOneAtATime DEF Backup
  <2>2. ASSUME NEW t \in Session, pc[t] \in Patching PROVE FALSE
    BY <1>2, <2>2 DEF Backup, OneAtATime
  <2>3. \A l \in hosts \ (Base \cup Admin) :
           \E t \in Session : l \in Entries[t] /\ pc[t] \in {"killed", "failed"}
    BY <2>2 DEF LeakExplained
  <2>4. BackupExplained'
    BY <1>2, <2>3 DEF Backup, BackupExplained
  <2>5. LeakExplained'
    BY <1>2, <2>3 DEF Backup, LeakExplained
  <2> QED
    BY <2>1, <2>4, <2>5
<1>3. ASSUME NEW s \in Session, Append(s) PROVE LeakInv'
  <2>1. OneAtATime'
    BY <1>3, StillOneAtATime DEF Append
  <2>2. BackupExplained'
    BY <1>3 DEF Append, BackupExplained
  <2>3. pc'[s] \in {"prompt", "pgrep"} /\ hosts' \subseteq hosts \cup Entries[s]
    BY <1>3 DEF Append
  <2>4. LeakExplained'
    BY <1>3, <2>3 DEF Append, LeakExplained
  <2> QED
    BY <2>1, <2>2, <2>4
<1>4. ASSUME NEW s \in Session, Restore(s) PROVE LeakInv'
  <2>1. OneAtATime'
    BY <1>4, StillOneAtATime DEF Restore
  <2>2. BackupExplained'
    BY <1>4 DEF Restore, BackupExplained
  <2>3. LeakExplained'
    BY <1>4 DEF Restore, LeakExplained, BackupExplained
  <2> QED
    BY <2>1, <2>2, <2>3
<1>5. ASSUME NEW l \in Admin, AdminAdds(l) PROVE LeakInv'
  <2>1. OneAtATime'
    BY <1>5, StillOneAtATime DEF AdminAdds
  <2>2. LeakExplained' /\ BackupExplained'
    BY <1>5 DEF AdminAdds, LeakExplained, BackupExplained
  <2> QED
    BY <2>1, <2>2
<1>6. ASSUME NEW s \in Session,
             Grep(s) \/ GrepDone(s) \/ BackupFails(s) \/ Pgrep(s)
             \/ AddClusterRoute(s) \/ AddPublicRoute(s)
      PROVE  LeakInv'
  <2>1. OneAtATime'
    BY <1>6, StillOneAtATime
       DEF Grep, GrepDone, BackupFails, Pgrep, AddClusterRoute, AddPublicRoute
  <2>2. LeakExplained' /\ BackupExplained'
    BY <1>6, StillExplained
       DEF Grep, GrepDone, BackupFails, Pgrep, AddClusterRoute, AddPublicRoute
  <2> QED
    BY <2>1, <2>2
<1>7. ASSUME NEW s \in Session,
             StopWaiting(s) \/ DeleteClusterRoute(s) \/ DeletePublicRoute(s)
             \/ RestoreFails(s) \/ Kill(s)
      PROVE  LeakInv'
  <2>1. OneAtATime'
    BY <1>7, StillOneAtATime
       DEF StopWaiting, DeleteClusterRoute, DeletePublicRoute, RestoreFails, Kill
  <2>2. LeakExplained' /\ BackupExplained'
    BY <1>7, StillExplained
       DEF StopWaiting, DeleteClusterRoute, DeletePublicRoute, RestoreFails, Kill
  <2> QED
    BY <2>1, <2>2
<1>8. CASE UNCHANGED vars
  BY <1>8, StillExplained, StillOneAtATime DEF vars
<1> QED
  BY <1>1, <1>2, <1>3, <1>4, <1>5, <1>6, <1>7, <1>8 DEF Next, Step

\* When sessions do not overlap, an entry left in the hosts file is the entry
\* of the running session or of one that was killed or could not restore.
THEOREM LeaksAlwaysExplained == ASSUME ~Parallel PROVE Spec => []LeakExplained
<1>1. Init => LeakInv
  BY LinesAssumption DEF Init, LeakInv, TypeOK, OneAtATime, LeakExplained, BackupExplained, Live, Ended, Running
<1>2. LeakInv /\ TypeOK' /\ [Next]_vars => LeakInv'
  BY LeakInvStep
<1>3. LeakInv => LeakExplained
  BY DEF LeakInv
<1> QED
  BY <1>1, <1>2, <1>3, TypeCorrect, PTL DEF Spec

-----------------------------------------------------------------------------
(***************************************************************************)
(* The routes, again with one session at a time.  RoutesExplained is not   *)
(* inductive: a live session that ends well must have deleted its routes,  *)
(* so that each route is tied to the commands between its addition and its *)
(* deletion (RouteHeld).                                                   *)
(***************************************************************************)
RouteHeld(s, r) ==
    \/ r = ClusterCidr[s] /\ mode[s] = "routes" /\ pc[s] \in {"route2", "proxy", "unroute1"}
    \/ /\ r = PublicCidr[s] /\ r # ClusterCidr[s] /\ mode[s] = "routes"
       /\ pc[s] \in {"proxy", "unroute1", "unroute2"}

\* Why r is routed, as far as s is concerned.
Explains(s, r) ==
    /\ r \in {ClusterCidr[s], PublicCidr[s]}
    /\ RouteHeld(s, r) \/ pc[s] = "killed" \/ <<s, "unroute">> \in refused

\* What s has routed by now unless the addition of a route of s failed.
Routed(s) ==
    /\ pc[s] \in {"route1", "route2", "unroute1", "unroute2"} => mode[s] = "routes"
    /\ <<s, "route">> \in refused
       \/ /\ pc[s] = "route2" => ClusterCidr[s] \in routes
          /\ pc[s] = "proxy" /\ mode[s] = "routes" => {ClusterCidr[s], PublicCidr[s]} \subseteq routes

RouteInv ==
    /\ \A s \in Session : Routed(s)
    /\ \A r \in routes : \E s \in Session : Explains(s, r)

\* A step of s that keeps the routes and, where a tunnel with routes is open or
\* is being set up or taken down, moves on to a command that still holds them.
LEMMA StillRouted ==
    ASSUME TypeOK, RouteInv, UNCHANGED <<routes, mode>>, refused \subseteq refused', NEW s \in Session,
           \A t \in Session \ {s} : pc'[t] = pc[t],
           pc'[s] \in {"route1", "unroute1", "unroute2"} => mode[s] = "routes",
           pc'[s] = "proxy" => mode[s] # "routes", pc'[s] # "route2",
           \A r \in routes : RouteHeld(s, r) => RouteHeld(s, r)' \/ pc'[s] = "killed",
           pc[s] # "killed"
    PROVE  RouteInv'
<1>1. \A r \in routes, t \in Session : t # s /\ RouteHeld(t, r) => RouteHeld(t, r)'
  BY DEF RouteHeld
<1>2. \A r \in routes, t \in Session : Explains(t, r) => Explains(t, r)'
  BY <1>1 DEF Explains
<1>3. ASSUME NEW t \in Session PROVE Routed(t)'
  <2>1. Routed(t)
    BY DEF RouteInv
  <2> QED
    BY <2>1 DEF Routed
<1> QED
  BY <1>2, <1>3 DEF RouteInv

LEMMA RouteInvStep ==
    ASSUME ~Parallel, TypeOK, OneAtATime, RouteInv, [Next]_vars
    PROVE  OneAtATime' /\ RouteInv'
<1> USE DEF TypeOK, Running, Ended, Goto, Live
<1>1. ASSUME NEW s \in Session, Start(s)
      PROVE  OneAtATime' /\ RouteInv'
  BY <1>1, StillRouted DEF Start, OneAtATime, RouteHeld
<1>2. ASSUME NEW s \in Session,
             Grep(s) \/ GrepDone(s) \/ Backup(s) \/ BackupFails(s) \/ Append(s) \/ Pgrep(s)
      PROVE  OneAtATime' /\ RouteInv'
  <2>1. OneAtATime'
    BY <1>2, StillOneAtATime DEF Grep, GrepDone, Backup, BackupFails, Append, Pgrep
  <2>2. pc[s] \in {"grep", "backup", "append", "pgrep"}
    BY <1>2 DEF Grep, GrepDone, Backup, BackupFails, Append, Pgrep
  <2>3. pc'[s] = "route1" => mode[s] = "routes"
    BY <1>2 DEF Grep, GrepDone, Backup, BackupFails, Append, Pgrep
  <2>4. pc'[s] = "proxy" => mode[s] # "routes"
    BY <1>2 DEF Grep, GrepDone, Backup, BackupFails, Append, Pgrep
  <2>5. /\ UNCHANGED <<routes, mode>> /\ refused \subseteq refused' /\ \A t \in Session \ {s} : pc'[t] = pc[t]
        /\ pc'[s] \notin {"route2", "unroute1", "unroute2"}
    BY <1>2 DEF Grep, GrepDone, Backup, BackupFails, Append, Pgrep
  <2> QED
    BY <2>1, <2>2, <2>3, <2>4, <2>5, StillRouted DEF RouteHeld
<1>3. ASSUME NEW s \in Session, AddClusterRoute(s)
      PROVE  OneAtATime' /\ RouteInv'
  <2>1. OneAtATime'
    BY <1>3, StillOneAtATime DEF AddClusterRoute
  <2>2. /\ pc[s] = "route1" /\ pc'[s] = "route2" /\ mode' = mode /\ mode[s] = "routes"
        /\ \A t \in Session : t # s => pc'[t] = pc[t]
    BY <1>3 DEF AddClusterRoute, RouteInv, Routed
  <2>3. \/ routes' = routes \cup {ClusterCidr[s]} /\ refused' = refused
        \/ routes' = routes /\ refused' = refused \cup {<<s, "route">>}
    BY <1>3 DEF AddClusterRoute, Route
  <2>4. ASSUME NEW t \in Session PROVE Routed(t)'
    <3>1. Routed(s) /\ Routed(t) /\ routes \subseteq routes' /\ refused \subseteq refused'
      BY <2>3 DEF RouteInv
    <3>2. CASE t = s
      BY <2>2, <2>3, <3>1, <3>2 DEF Routed
    <3>3. CASE t # s
      BY <2>2, <3>1, <3>3 DEF Routed
    <3> QED
      BY <3>2, <3>3
  <2>5. \A r \in routes, t \in Session : Explains(t, r) => Explains(t, r)'
    BY <2>2, <2>3 DEF Explains, RouteHeld
  <2>6. Explains(s, ClusterCidr[s])'
    BY <2>2 DEF Explains, RouteHeld
  <2> QED
    BY <2>1, <2>3, <2>4, <2>5, <2>6 DEF RouteInv
<1>4. ASSUME NEW s \in Session, AddPublicRoute(s)
      PROVE  OneAtATime' /\ RouteInv'
  <2>1. OneAtATime'
    BY <1>4, StillOneAtATime DEF AddPublicRoute
  <2>2. /\ pc[s] = "route2" /\ pc'[s] = "proxy" /\ mode' = mode /\ mode[s] = "routes"
        /\ \A t \in Session : t # s => pc'[t] = pc[t]
    BY <1>4 DEF AddPublicRoute, RouteInv, Routed
  <2>3. \/ routes' = routes \cup {PublicCidr[s]} /\ refused' = refused
        \/ routes' = routes /\ refused' = refused \cup {<<s, "route">>}
        \/ routes' = routes /\ refused' = refused /\ PublicCidr[s] = ClusterCidr[s]
    BY <1>4 DEF AddPublicRoute, Route
  <2>4. ASSUME NEW t \in Session PROVE Routed(t)'
    <3>1. Routed(s) /\ Routed(t) /\ routes \subseteq routes' /\ refused \subseteq refused'
      BY <2>3 DEF RouteInv
    <3>2. CASE t = s
      BY <2>2, <2>3, <3>1, <3>2 DEF Routed
    <3>3. CASE t # s
      BY <2>2, <3>1, <3>3 DEF Routed
    <3> QED
      BY <3>2, <3>3
  <2>5. \A r \in routes, t \in Session : Explains(t, r) => Explains(t, r)'
    BY <2>2, <2>3 DEF Explains, RouteHeld
  <2>6. Explains(s, PublicCidr[s])'
    BY <2>2 DEF Explains, RouteHeld
  <2> QED
    BY <2>1, <2>3, <2>4, <2>5, <2>6 DEF RouteInv
<1>5. ASSUME NEW s \in Session, StopWaiting(s)
      PROVE  OneAtATime' /\ RouteInv'
  <2>1. OneAtATime'
    BY <1>5, StillOneAtATime DEF StopWaiting
  <2> QED
    BY <1>5, <2>1, StillRouted DEF StopWaiting, RouteHeld
<1>6. ASSUME NEW s \in Session, DeleteClusterRoute(s)
      PROVE  OneAtATime' /\ RouteInv'
  <2>1. OneAtATime'
    BY <1>6, StillOneAtATime DEF DeleteClusterRoute
  <2>2. /\ pc[s] = "unroute1" /\ pc'[s] = "unroute2" /\ mode' = mode /\ mode[s] = "routes"
        /\ \A t \in Session : t # s => pc'[t] = pc[t]
    BY <1>6 DEF DeleteClusterRoute, RouteInv, Routed
  <2>3. \/ routes' = routes \ {ClusterCidr[s]} /\ refused' = refused
        \/ routes' = routes /\ refused' = refused \cup {<<s, "unroute">>}
    BY <1>6 DEF DeleteClusterRoute, Unroute
  <2>4. \A t \in Session : pc'[t] \notin {"route2", "proxy"}
    BY <2>2 DEF OneAtATime
  <2>5. \A t \in Session : Routed(t)'
    BY <2>2, <2>4 DEF RouteInv, Routed
  <2>6. \A r \in routes', t \in Session : Explains(t, r) => Explains(t, r)'
    BY <2>2, <2>3 DEF Explains, RouteHeld
  <2> QED
    BY <2>1, <2>3, <2>5, <2>6 DEF RouteInv
<1>7. ASSUME NEW s \in Session, DeletePublicRoute(s)
      PROVE  OneAtATime' /\ RouteInv'
  <2>1. OneAtATime'
    BY <1>7, StillOneAtATime DEF DeletePublicRoute
  <2>2. /\ pc[s] = "unroute2" /\ pc'[s] = "restore" /\ mode' = mode
        /\ \A t \in Session : t # s => pc'[t] = pc[t]
    BY <1>7 DEF DeletePublicRoute
  <2>3. \/ routes' = routes \ {PublicCidr[s]} /\ refused' = refused
        \/ routes' = routes /\ refused' = refused \cup {<<s, "unroute">>}
        \/ routes' = routes /\ refused' = refused /\ PublicCidr[s] = ClusterCidr[s]
    BY <1>7 DEF DeletePublicRoute, Unroute
  <2>4. \A t \in Session : pc'[t] \notin {"route2", "proxy"}
    BY <2>2 DEF OneAtATime
  <2>5. \A t \in Session : Routed(t)'
    BY <2>2, <2>4 DEF RouteInv, Routed
  <2>6. \A r \in routes', t \in Session : Explains(t, r) => Explains(t, r)'
    BY <2>2, <2>3 DEF Explains, RouteHeld
  <2> QED
    BY <2>1, <2>3, <2>5, <2>6 DEF RouteInv
<1>8. ASSUME NEW s \in Session, Restore(s) \/ RestoreFails(s)
      PROVE  OneAtATime' /\ RouteInv'
  <2>1. OneAtATime'
    BY <1>8, StillOneAtATime DEF Restore, RestoreFails
  <2>2. /\ pc[s] \in {"undo", "restore"} /\ pc'[s] \in {"done", "failed"}
        /\ UNCHANGED <<routes, mode>> /\ refused \subseteq refused' /\ \A t \in Session \ {s} : pc'[t] = pc[t]
    BY <1>8 DEF Restore, RestoreFails
  <2> QED
    BY <2>1, <2>2, StillRouted DEF RouteHeld
<1>9. ASSUME NEW s \in Session, Kill(s)
      PROVE  OneAtATime' /\ RouteInv'
  <2>1. OneAtATime'
    BY <1>9, StillOneAtATime DEF Kill
  <2> QED
    BY <1>9, <2>1, StillRouted DEF Kill
<1>10. CASE UNCHANGED <<pc, mode, routes, refused>>
  <2>1. OneAtATime'
    BY <1>10, StillOneAtATime
  <2> QED
    BY <1>10, <2>1 DEF RouteInv, Routed, Explains, RouteHeld
<1> QED
  BY <1>1, <1>2, <1>3, <1>4, <1>5, <1>6, <1>7, <1>8, <1>9, <1>10
     DEF Next, Step, vars, AdminAdds

\* When sessions do not overlap, the networks of an open tunnel that asked for
\* routes are routed unless an addition failed, and a route nobody uses was left by
\* a session that was killed or failed to delete one.
THEOREM RoutesAlwaysExplained == ASSUME ~Parallel PROVE Spec => []RoutesExplained
<1>1. Init => OneAtATime /\ RouteInv
  BY DEF Init, OneAtATime, RouteInv, Routed, Live, Running
<1>2. TypeOK /\ OneAtATime /\ RouteInv /\ [Next]_vars => OneAtATime' /\ RouteInv'
  BY RouteInvStep
<1>3. RouteInv => RoutesExplained
  <2>1. \A s \in Session : \A r \in routes : RouteHeld(s, r) => Live(s)
    BY DEF RouteHeld, Live, Running
  <2> QED
    BY <2>1 DEF RouteInv, Routed, Explains, RoutesExplained
<1> QED
  BY <1>1, <1>2, <1>3, TypeCorrect, PTL DEF Spec

-----------------------------------------------------------------------------
(***************************************************************************)
(* The report, with one session at a time: while no cp failed and no mv    *)
(* was refused, a session that has taken its backup finds it again, so     *)
(* that no restore fails.                                                  *)
(***************************************************************************)
BackupKept ==
    Copied => \A s \in Session : pc[s] # "failed" /\ (pc[s] \in Patching => saved)

LEMMA BackupKeptStep ==
    ASSUME TypeOK, OneAtATime, BackupKept, [Next]_vars
    PROVE  BackupKept'
<1> USE DEF TypeOK, BackupKept, Copied, Patching, Running, Ended, Goto
<1>1. ASSUME NEW s \in Session, Start(s) \/ Grep(s) \/ GrepDone(s) PROVE BackupKept'
  BY <1>1 DEF Start, Grep, GrepDone
<1>2. ASSUME NEW s \in Session, Backup(s) \/ BackupFails(s) PROVE BackupKept'
  <2>1. CASE Backup(s)
    BY <2>1 DEF Backup
  <2>2. CASE BackupFails(s)
    <3>1. ~Copied'
      BY <2>2 DEF BackupFails
    <3> QED
      BY <3>1
  <2> QED
    BY <1>2, <2>1, <2>2
<1>3. ASSUME NEW s \in Session, Append(s) \/ Pgrep(s) PROVE BackupKept'
  BY <1>3 DEF Append, Pgrep
<1>4. ASSUME NEW s \in Session, AddClusterRoute(s) \/ AddPublicRoute(s) PROVE BackupKept'
  <2>1. refused \subseteq refused'
    BY <1>4 DEF AddClusterRoute, AddPublicRoute, Route
  <2>2. Copied' => Copied
    BY <2>1
  <2>3. /\ pc[s] \in Patching /\ pc' = [pc EXCEPT ![s] = pc'[s]] /\ pc'[s] # "failed"
        /\ saved' = saved
    BY <1>4 DEF AddClusterRoute, AddPublicRoute
  <2> QED
    BY <2>2, <2>3
<1>5. ASSUME NEW s \in Session,
             StopWaiting(s) \/ DeleteClusterRoute(s) \/ DeletePublicRoute(s)
      PROVE  BackupKept'
  <2>1. refused \subseteq refused'
    BY <1>5 DEF StopWaiting, DeleteClusterRoute, DeletePublicRoute, Unroute
  <2>2. Copied' => Copied
    BY <2>1
  <2>3. /\ pc[s] \in Patching /\ pc' = [pc EXCEPT ![s] = pc'[s]] /\ pc'[s] # "failed"
        /\ saved' = saved
    BY <1>5 DEF StopWaiting, DeleteClusterRoute, DeletePublicRoute
  <2> QED
    BY <2>2, <2>3
<1>6. ASSUME NEW s \in Session, Restore(s) PROVE BackupKept'
  <2>1. \A t \in Session : t # s => pc[t] \notin Patching
    BY <1>6 DEF Restore, OneAtATime, Live
  <2> QED
    BY <1>6, <2>1 DEF Restore
<1>7. ASSUME NEW s \in Session, RestoreFails(s) PROVE BackupKept'
  <2>1. pc[s] \in Patching /\ refused \subseteq refused'
    BY <1>7 DEF RestoreFails
  <2>2. ~saved \/ ~Copied'
    BY <1>7 DEF RestoreFails
  <2>3. ~Copied'
    BY <2>1, <2>2
  <2> QED
    BY <2>3
<1>8. ASSUME NEW s \in Session, Kill(s) PROVE BackupKept'
  BY <1>8 DEF Kill
<1>9. CASE UNCHANGED <<pc, saved, refused>>
  BY <1>9
<1> QED
  BY <1>1, <1>2, <1>3, <1>4, <1>5, <1>6, <1>7, <1>8, <1>9 DEF Next, Step, vars, AdminAdds

\* When sessions do not overlap, no entry of a cluster is left in the hosts file once
\* every session has ended without being killed, unless a cp failed or a mv was
\* refused: the OK of restore_hosts_file is true then.
THEOREM ReportsAreTrue ==
    ASSUME ~Parallel
    PROVE  Spec => []ReportedRestored
<1>1. Init => LeakInv /\ BackupKept
  BY LinesAssumption DEF Init, LeakInv, TypeOK, OneAtATime, LeakExplained, BackupExplained,
     BackupKept, Patching, Live, Ended, Running
<1>2. LeakInv /\ BackupKept /\ TypeOK' /\ [Next]_vars => LeakInv' /\ BackupKept'
  BY LeakInvStep, BackupKeptStep DEF LeakInv
<1>3. LeakInv /\ BackupKept => ReportedRestored
  BY DEF LeakInv, LeakExplained, BackupKept, ReportedRestored, Patching, Running, Ended
<1> QED
  BY <1>1, <1>2, <1>3, TypeCorrect, PTL DEF Spec
=============================================================================
