--------------------------- MODULE OsdplApplyWait ---------------------------
(***************************************************************************)
(* Two ways to change an OpenStackDeployment (osdpl) and wait for it:      *)
(* scripts/mosk/osdpl-apply-wait, which sleeps and polls for APPLIED, and  *)
(* the demo scripts of demos/OvercommitPlacementAPI, which poll for        *)
(* APPLYING first.  Both read the status only; the controller that writes  *)
(* it notices a change some time after it was made.                        *)
(*                                                                         *)
(* Abstracted: the spec of the osdpl is the number of its revision; a diff *)
(* or patch that changes nothing keeps the revision.  The controller is    *)
(* external, modelled from the states the scripts wait for.                *)
(***************************************************************************)
EXTENDS Naturals

CONSTANTS ApplyFails, \* may kubectl apply fail?
          MaxEdits    \* changes others make meanwhile (a bound of the model)

ASSUME SwitchAssumption == ApplyFails \in BOOLEAN
ASSUME EditsAssumption == MaxEdits \in Nat

VARIABLES
    tool,      \* which of the two waits runs: the "tool" or a "demo"
    opts,      \* options of the tool: -w wait only, -r wait for Ready
    pc,        \* what it does next
    submitted, \* the revision its change made (0: none so far)
    change,    \* history: was the change made or refused?
    late,      \* history: had the controller not noticed it when sleep 3 was over?
    spec,      \* revision of the osdpl
    seen,      \* revision the controller works on or worked on last
    state,     \* .status.osdpl.state of the osdplst
    applied,   \* revision last applied in full
    health,    \* the unique .status.health of the services in the osdplst
    edits      \* changes others made so far

vars == <<tool, opts, pc, submitted, change, late, spec, seen, state, applied, health, edits>>
cluster == <<spec, seen, state, applied, health, edits>>

Option == {"w", "r"}
Ended == {"no resource", "no changes", "aborted", "returned"}
Label == {"diff", "confirm", "apply", "sleep", "started", "applied", "ready"} \cup Ended

TypeOK ==
    /\ tool \in {"tool", "demo"}
    /\ opts \subseteq Option
    /\ pc \in Label
    /\ submitted \in Nat
    /\ change \in {"none", "made", "refused"}
    /\ late \in BOOLEAN
    /\ spec \in Nat /\ seen \in Nat /\ applied \in Nat
    /\ state \in {"APPLYING", "APPLIED"}
    /\ health \in {"Ready", "Unready"}
    /\ edits \in 0 .. MaxEdits

Init ==
    /\ \/ tool = "demo" /\ opts = {} /\ pc = "apply"
       \/ /\ tool = "tool" /\ opts \in SUBSET Option
          /\ pc = IF "w" \in opts THEN "applied" ELSE "diff"
    /\ submitted = 0
    /\ change = "none" /\ late = FALSE
    /\ spec = 1 /\ seen = 1 /\ applied = 1
    /\ state = "APPLIED"
    /\ health \in {"Ready", "Unready"}
    /\ edits = 0

-----------------------------------------------------------------------------
(* Slips the scripts could have made; the actions below are what they do. *)

\* The wait is for a function that is not there.
ApplyMisspelled ==
    /\ pc = "apply"
    /\ spec' = spec + 1
    /\ submitted' = spec + 1
    /\ change' = "made"
    /\ pc' = "osdpl_wait"
    /\ UNCHANGED <<tool, opts, late, seen, state, applied, health, edits>>

\* while [ ... == APPLIED ] where until is meant.
ReadNotApplied ==
    /\ pc = "applied"
    /\ state # "APPLIED"
    /\ pc' = IF "r" \in opts THEN "ready" ELSE "returned"
    /\ UNCHANGED <<tool, opts, submitted, change, late, cluster>>

\* A demo that waits for APPLIED alone.
SkipApplying ==
    /\ pc = "started"
    /\ pc' = "applied"
    /\ UNCHANGED <<tool, opts, submitted, change, late, cluster>>

-----------------------------------------------------------------------------
(* The scripts. *)

\* A file without an OpenStackDeployment ends the script, and so does kubectl diff
\* with 0; anything else, errors too, goes on.
Diff ==
    /\ pc = "diff"
    /\ pc' \in {"no resource", "no changes", "confirm"}
    /\ UNCHANGED <<tool, opts, submitted, change, late, cluster>>

Confirm ==
    /\ pc = "confirm"
    /\ pc' \in {"apply", "aborted"}
    /\ UNCHANGED <<tool, opts, submitted, change, late, cluster>>

\* kubectl apply, or the kubectl patch of a demo.
Apply ==
    /\ pc = "apply"
    /\ spec' = spec + 1
    /\ submitted' = spec + 1
    /\ change' = "made"
    /\ pc' = IF tool = "demo" THEN "started" ELSE "sleep"
    /\ UNCHANGED <<tool, opts, late, seen, state, applied, health, edits>>

\* kubectl fails and the script goes on.
ApplyRefused ==
    /\ pc = "apply"
    /\ ApplyFails
    /\ change' = "refused"
    /\ pc' = IF tool = "demo" THEN "started" ELSE "sleep"
    /\ UNCHANGED <<tool, opts, submitted, late, cluster>>

\* The patch of a demo finds the value it sets, as when the demo is run again.
PatchChangesNothing ==
    /\ pc = "apply"
    /\ tool = "demo"
    /\ submitted' = spec
    /\ change' = "made"
    /\ pc' = "started"
    /\ UNCHANGED <<tool, opts, late, cluster>>

\* sleep 3 is over, whether or not the controller has noticed the change.
Slept ==
    /\ pc = "sleep"
    /\ pc' = "applied"
    /\ late' \in BOOLEAN /\ (late' <=> seen < submitted)
    /\ UNCHANGED <<tool, opts, submitted, change, cluster>>

\* A poll of a demo finds APPLYING.
ReadApplying ==
    /\ pc = "started"
    /\ state = "APPLYING"
    /\ pc' = "applied"
    /\ UNCHANGED <<tool, opts, submitted, change, late, cluster>>

\* A poll finds APPLIED (osdpl_wait_applied, or the second wait of a demo).
ReadApplied ==
    /\ pc = "applied"
    /\ state = "APPLIED"
    /\ pc' = IF "r" \in opts THEN "ready" ELSE "returned"
    /\ UNCHANGED <<tool, opts, submitted, change, late, cluster>>

\* A poll of osdpl_wait_ready finds nothing but Ready.
ReadReady ==
    /\ pc = "ready"
    /\ health = "Ready"
    /\ pc' = "returned"
    /\ UNCHANGED <<tool, opts, submitted, change, late, cluster>>

Script == Diff \/ Confirm \/ Apply \/ ApplyRefused \/ PatchChangesNothing \/ Slept
          \/ ReadApplying \/ ReadApplied \/ ReadReady

-----------------------------------------------------------------------------
(* The controller, the services, and other users. *)

Notice ==
    /\ state = "APPLIED"
    /\ seen # spec
    /\ seen' = spec
    /\ state' = "APPLYING"
    /\ UNCHANGED <<tool, opts, pc, submitted, change, late, spec, applied, health, edits>>

Finish ==
    /\ state = "APPLYING"
    /\ applied' = seen
    /\ state' = "APPLIED"
    /\ UNCHANGED <<tool, opts, pc, submitted, change, late, spec, seen, health, edits>>

\* Services restart while a revision is applied, and recover.
Degrade ==
    /\ state = "APPLYING"
    /\ health = "Ready"
    /\ health' = "Unready"
    /\ UNCHANGED <<tool, opts, pc, submitted, change, late, spec, seen, state, applied, edits>>

Recover ==
    /\ health = "Unready"
    /\ health' = "Ready"
    /\ UNCHANGED <<tool, opts, pc, submitted, change, late, spec, seen, state, applied, edits>>

OtherEdit ==
    /\ edits < MaxEdits
    /\ edits' = edits + 1
    /\ spec' = spec + 1
    /\ UNCHANGED <<tool, opts, pc, submitted, change, late, seen, state, applied, health>>

Next == Script \/ Notice \/ Finish \/ Degrade \/ Recover \/ OtherEdit

Spec == Init /\ [][Next]_vars

\* The polls go on, and the controller and the services get there.
FairSpec ==
    /\ Spec
    /\ WF_vars(Slept \/ ReadApplying \/ ReadApplied \/ ReadReady)
    /\ WF_vars(Notice) /\ WF_vars(Finish) /\ WF_vars(Recover)

-----------------------------------------------------------------------------
(* Properties. *)

\* What both properties rest on: APPLIED tells of the revision seen last, and
\* nobody is ahead of the spec.
StatusInv ==
    /\ applied <= seen /\ seen <= spec /\ submitted <= spec
    /\ state = "APPLIED" => applied = seen
    /\ pc \in {"diff", "confirm", "apply"} => change = "none"

\* Unless the sleep was too short, the tool looks at the status only when that is
\* of its own revision or a later one.
ToolInv ==
    /\ pc = "started" => tool = "demo"
    /\ tool = "tool" /\ change = "made" /\ ~late =>
          /\ pc = "applied" => submitted <= seen
          /\ pc \in {"ready", "returned"} => submitted <= applied

\* While nobody else makes changes, an APPLYING is always of the newest one.
DemoInv ==
    tool = "demo" =>
        /\ pc \in {"apply", "started", "applied", "returned"} /\ opts = {}
        /\ edits = 0 =>
              /\ pc = "apply" => seen = spec /\ state = "APPLIED"
              /\ state = "APPLYING" => seen = spec
              /\ pc = "applied" => submitted <= seen
              /\ pc = "returned" => submitted <= applied

\* osdpl-apply-wait returns before the change it made has been applied only if the
\* controller had not noticed it within the three seconds of sleep, whatever
\* others change meanwhile.
StaleOnlyIfLate ==
    pc = "returned" /\ tool = "tool" /\ change = "made" => applied >= submitted \/ late

\* osdpl-apply-wait returns only when the change it made has been applied:
\* "apply it after confirmation, wait for the OpenStackDeploymentStatus resource
\* to become APPLIED" (its usage).
ReturnedMeansApplied ==
    pc = "returned" /\ tool = "tool" /\ change = "made" => applied >= submitted

\* A demo, which waits for APPLYING first, returns only when its change has
\* been applied, however slow the controller is, if nobody else makes changes.
DemoWaits ==
    pc = "returned" /\ tool = "demo" /\ change = "made" /\ edits = 0 => applied >= submitted


\* A demo that made its change ends: "wait for it to be applied"
\* (demos/OvercommitPlacementAPI/prepare-demo.sh).
DemoEnds == pc = "started" ~> pc = "returned"
=============================================================================
