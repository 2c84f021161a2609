----------------------------- MODULE IfaceChurn -----------------------------
(***************************************************************************)
(* scripts/nova/iface-churn-parallel.py: worker processes that plug tap    *)
(* devices into one libvirt domain and unplug them again.  The host's tap  *)
(* devices and the domain's live and persistent definitions are shared;    *)
(* unplugging from the live domain completes later, when the guest lets    *)
(* go, or never.                                                           *)
(*                                                                         *)
(* Abstracted: tap n of worker w is <<w, n>> (the code draws a random name *)
(* of 8 letters each time); its alias ua-repro-NN is the worker alone.     *)
(* MaxPolls polls fit in XML_POLL_TIMEOUT.                                 *)
(***************************************************************************)
EXTENDS Naturals, FiniteSets

CONSTANTS Worker,    \* worker processes (--workers)
          Repeats,   \* attach-detach cycles of each (--repeats)
          MaxPolls   \* polls before the deadline passes

ASSUME RepeatsAssumption == Repeats \in Nat \ {0}
ASSUME MaxPollsAssumption == MaxPolls \in Nat \ {0}

VARIABLES
    pc,         \* [Worker -> what the worker does next]
    cycle,      \* [Worker -> number of its current tap]
    polls,      \* [Worker -> polls done of the current detach]
    taps,       \* tap devices on the host
    live,       \* taps plugged into the running domain
    unplugging, \* those the guest was asked to release
    config,     \* taps in the persistent definition of the domain
    running,    \* is the domain running?
    exit        \* exit status of main ("none" while it waits)

vars == <<pc, cycle, polls, taps, live, unplugging, config, running, exit>>
domain == <<live, unplugging, config, running>>

Tap == Worker \X (1 .. Repeats)
TapOf(w) == <<w, cycle[w]>>

\* XMLDesc() of a domain that is shut off shows its persistent definition.
LiveXML == IF running THEN live ELSE config

Ended == {"done", "failed"}
Polling == {"poll", "gone", "there"}
Busy == {"create", "up", "attach", "abandon", "lookup", "detach", "delete", "raise"} \cup Polling

TypeOK ==
    /\ pc \in [Worker -> Ended \cup Busy]
    /\ cycle \in [Worker -> 0 .. Repeats]
    /\ polls \in [Worker -> 0 .. MaxPolls]
    /\ taps \subseteq Tap
    /\ live \subseteq Tap
    /\ unplugging \subseteq Tap
    /\ config \subseteq Tap
    /\ running \in BOOLEAN
    /\ exit \in {"none", "0", "1"}

Init ==
    /\ pc = [w \in Worker |-> "create"]
    /\ cycle = [w \in Worker |-> 0]
    /\ polls = [w \in Worker |-> 0]
    /\ taps = {}
    /\ live = {}
    /\ unplugging = {}
    /\ config = {}
    /\ running = TRUE
    /\ exit = "none"

Goto(w, label) == pc' = [pc EXCEPT ![w] = label]

\* XML_POLL_INTERVAL is slept away, and the wait takes another turn.
Again(w) ==
    /\ polls' = [polls EXCEPT ![w] = @ + 1]
    /\ Goto(w, "poll")

-----------------------------------------------------------------------------
(* Slips the script could have made; the actions below are what it does. *)

\* The wait looks at the persistent definition alone.
ReadConfigOnly(w) ==
    /\ pc[w] \in {"gone", "there"}
    /\ IF TapOf(w) \in config THEN Again(w) ELSE Goto(w, "delete") /\ UNCHANGED polls
    /\ UNCHANGED <<cycle, taps, domain, exit>>

\* The deadline is computed anew on each turn of the wait.
ReadConfigForever(w) ==
    /\ pc[w] \in {"gone", "there"}
    /\ Goto(w, IF pc[w] = "gone" /\ TapOf(w) \notin config THEN "delete" ELSE "poll")
    /\ UNCHANGED <<cycle, polls, taps, domain, exit>>

\* One poll too many before the deadline is looked at.
ReadLiveTooOften(w) ==
    /\ pc[w] = "poll"
    /\ Goto(w, IF TapOf(w) \in LiveXML THEN "there" ELSE "gone")
    /\ UNCHANGED <<cycle, polls, taps, domain, exit>>

\* A failed cycle is logged and the worker goes on with the next one.
DeleteTapGoesOn(w) ==
    /\ pc[w] \in {"delete", "raise"}
    /\ Goto(w, IF cycle[w] < Repeats THEN "create" ELSE "done")
    /\ UNCHANGED <<cycle, polls, taps, domain, exit>>

-----------------------------------------------------------------------------
(* create_and_attach_interface. *)

\* lookupByName, then ip tuntap add.
AddTap(w) ==
    /\ pc[w] = "create"
    /\ cycle' = [cycle EXCEPT ![w] = @ + 1]
    /\ taps' = taps \cup {<<w, cycle[w] + 1>>}
    /\ Goto(w, "up")
    /\ UNCHANGED <<polls, domain, exit>>

\* Either of the two fails.  The handler formats a tap_name it does not have,
\* but some exception leaves the worker all the same.
AddTapFails(w) ==
    /\ pc[w] = "create"
    /\ Goto(w, "failed")
    /\ UNCHANGED <<cycle, polls, taps, domain, exit>>

\* ip link set up.
LinkUp(w) ==
    /\ pc[w] = "up"
    /\ Goto(w, "attach")
    /\ UNCHANGED <<cycle, polls, taps, domain, exit>>

\* The tap stays behind: its name never left _create_tap_interface.
LinkUpFails(w) ==
    /\ pc[w] = "up"
    /\ Goto(w, "failed")
    /\ UNCHANGED <<cycle, polls, taps, domain, exit>>

\* attachDeviceFlags on both definitions; a running domain without a device
\* of this alias may accept it.
Attach(w) ==
    /\ pc[w] = "attach"
    /\ running
    /\ \A t \in live \cup config : t[1] # w
    /\ live' = live \cup {TapOf(w)}
    /\ config' = config \cup {TapOf(w)}
    /\ Goto(w, "lookup")
    /\ UNCHANGED <<cycle, polls, taps, unplugging, running, exit>>

AttachFails(w) ==
    /\ pc[w] = "attach"
    /\ Goto(w, "abandon")
    /\ UNCHANGED <<cycle, polls, taps, domain, exit>>

\* The tap of the failed attach is deleted, or a failure to is ignored.
Abandon(w) ==
    /\ pc[w] = "abandon"
    /\ taps' \in {taps, taps \ {TapOf(w)}}
    /\ Goto(w, "failed")
    /\ UNCHANGED <<cycle, polls, domain, exit>>

-----------------------------------------------------------------------------
(* detach_and_delete_interface. *)

\* The interval is over; the device is looked up by its alias.
Lookup(w) ==
    /\ pc[w] = "lookup"
    /\ \E t \in LiveXML : t[1] = w
    /\ Goto(w, "detach")
    /\ UNCHANGED <<cycle, polls, taps, domain, exit>>

\* lookupByName, XMLDesc or the search raises, outside of the try.
LookupFails(w) ==
    /\ pc[w] = "lookup"
    /\ Goto(w, "failed")
    /\ UNCHANGED <<cycle, polls, taps, domain, exit>>

\* detachDeviceFlags takes the device out of the persistent definition; the
\* live one loses it at once or when the guest releases it.
Detach(w) ==
    /\ pc[w] = "detach"
    /\ running
    /\ config' = config \ {TapOf(w)}
    /\ \/ live' = live \ {TapOf(w)} /\ UNCHANGED unplugging
       \/ unplugging' = unplugging \cup {TapOf(w)} /\ UNCHANGED live
    /\ polls' = [polls EXCEPT ![w] = 0]
    /\ Goto(w, "poll")
    /\ UNCHANGED <<cycle, taps, running, exit>>

DetachFails(w) ==
    /\ pc[w] = "detach"
    /\ Goto(w, "raise")
    /\ UNCHANGED <<cycle, polls, taps, domain, exit>>

\* A turn of the loop of _wait_for_interface_absent_in_xml reads the domain
\* twice; much may happen in between.  First the live definition.
ReadLive(w) ==
    /\ pc[w] = "poll"
    /\ polls[w] < MaxPolls
    /\ Goto(w, IF TapOf(w) \in LiveXML THEN "there" ELSE "gone")
    /\ UNCHANGED <<cycle, polls, taps, domain, exit>>

\* Then the persistent one; the device has to be absent from both.
ReadConfig(w) ==
    /\ pc[w] \in {"gone", "there"}
    /\ IF pc[w] = "gone" /\ TapOf(w) \notin config
       THEN Goto(w, "delete") /\ UNCHANGED polls
       ELSE Again(w)
    /\ UNCHANGED <<cycle, taps, domain, exit>>

\* The deadline is over: TimeoutError.
Deadline(w) ==
    /\ pc[w] = "poll"
    /\ polls[w] = MaxPolls
    /\ Goto(w, "raise")
    /\ UNCHANGED <<cycle, polls, taps, domain, exit>>

\* A call of a turn raises libvirtError.
PollFails(w) ==
    /\ pc[w] \in {"there", "gone"} \/ (pc[w] = "poll" /\ polls[w] < MaxPolls)
    /\ Goto(w, "raise")
    /\ UNCHANGED <<cycle, polls, taps, domain, exit>>

\* The finally clause deletes the tap, whether an exception is on its way or
\* not; the next cycle starts only without one.
DeleteTap(w) ==
    /\ pc[w] \in {"delete", "raise"}
    /\ taps' = taps \ {TapOf(w)}
    /\ Goto(w, IF pc[w] = "raise" THEN "failed"
               ELSE IF cycle[w] < Repeats THEN "create" ELSE "done")
    /\ UNCHANGED <<cycle, polls, domain, exit>>

\* ip tuntap del fails, because a guest still holds the tap or otherwise.
DeleteTapFails(w) ==
    /\ pc[w] \in {"delete", "raise"}
    /\ Goto(w, "failed")
    /\ UNCHANGED <<cycle, polls, taps, domain, exit>>

-----------------------------------------------------------------------------
(* main, and the domain. *)

\* Every result is in.  cycle_domain_interface returns None, so all(...) of the
\* results is false, or raises, unless there are no workers.
Exit ==
    /\ exit = "none"
    /\ \A w \in Worker : pc[w] \in Ended
    /\ exit' = IF Worker = {} THEN "0" ELSE "1"
    /\ UNCHANGED <<pc, cycle, polls, taps, domain>>

\* The guest releases a device it was asked to release.
GuestUnplugs(t) ==
    /\ t \in unplugging
    /\ live' = live \ {t}
    /\ unplugging' = unplugging \ {t}
    /\ UNCHANGED <<pc, cycle, polls, taps, config, running, exit>>

\* Somebody shuts the domain off.
DomainStops ==
    /\ running
    /\ running' = FALSE
    /\ live' = {}
    /\ unplugging' = {}
    /\ UNCHANGED <<pc, cycle, polls, taps, config, exit>>

\* Every call returns or raises; libvirt need not fail a poll.
Step(w) ==
    \/ AddTap(w) \/ AddTapFails(w) \/ LinkUp(w) \/ LinkUpFails(w)
    \/ Attach(w) \/ AttachFails(w) \/ Abandon(w)
    \/ Lookup(w) \/ LookupFails(w) \/ Detach(w) \/ DetachFails(w)
    \/ ReadLive(w) \/ ReadConfig(w) \/ Deadline(w) \/ DeleteTap(w) \/ DeleteTapFails(w)

Next ==
    \/ \E w \in Worker : Step(w) \/ PollFails(w)
    \/ \E t \in Tap : GuestUnplugs(t)
    \/ Exit
    \/ DomainStops

Spec == Init /\ [][Next]_vars

\* The processes run; nothing is asked of the guest or of whoever owns the domain.
FairSpec == Spec /\ (\A w \in Worker : WF_vars(Step(w))) /\ WF_vars(Exit)

-----------------------------------------------------------------------------
(* Properties. *)

Traces == taps \cup live \cup config

\* The strengthening the three invariants below rest on.
\* Whatever a worker left is its current tap, and nothing is left when the
\* worker starts its next cycle or returns.
CurrentTapOnly ==
    \A t \in Traces : t = TapOf(t[1]) /\ pc[t[1]] \notin {"create", "done"}

\* What the worker knows of its current tap from the steps it has done.
Progress ==
    \A w \in Worker :
        /\ pc[w] = "create" => cycle[w] < Repeats
        /\ pc[w] \in Busy \ {"create"} => cycle[w] # 0
        /\ pc[w] \in {"up", "attach"} => TapOf(w) \in taps
        /\ pc[w] \in {"gone", "there"} => polls[w] < MaxPolls
        /\ pc[w] = "gone" => TapOf(w) \notin live
        /\ pc[w] = "delete" => TapOf(w) \notin live \cup config

OffIsEmpty == ~running => live = {}

\* The host and the domain never hold two taps of one worker, so the alias of
\* a worker names one device and a worker that fails leaves one tap behind at
\* most: a failure of any call ends cycle_domain_interface.
OneTapPerWorker == \A t, u \in Traces : t[1] = u[1] => t = u

\* A worker that returned left nothing: no tap on the host, no device in
\* either definition, whatever the guest and the other workers did.
NothingLeft == \A w \in Worker : pc[w] = "done" => \A t \in Traces : t[1] # w

\* A device keeps its tap for as long as either definition has it, unless its
\* worker raised; the finally clause of detach_and_delete_interface does not
\* pull the tap from under a guest that is still to release it otherwise.
DeviceHasTap == \A t \in live \cup config : t \in taps \/ pc[t[1]] = "failed"

\* A guest that never releases its device does not hold the script up:
\* XML_POLL_TIMEOUT ends the wait, and main exits.
MainExits == <>(exit # "none")
=============================================================================
