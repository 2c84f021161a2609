----------------------------- MODULE RamdiskMgmt -----------------------------
(***************************************************************************)
(* scripts/ironic/ramdisk-mgmt.py: destroys a domain that runs and creates *)
(* it again from its XML, with a kernel to boot ("direct") or without one, *)
(* while the guest may power off and others may pause or start the domain. *)
(*                                                                         *)
(* Abstracted: of the XML, only its type, for that is where a call ends.   *)
(***************************************************************************)
VARIABLES
    host, \* state of the domain; persistent; disturbed: since the call began
    local \* target; pc; xml: none yet, or the type of what createXML() is given

vars == <<host, local>>

TypeOK ==
    /\ host \in [state : {"running", "paused", "off", "gone"}, persistent : BOOLEAN, disturbed : BOOLEAN]
    /\ local \in [target : {"direct", "hdd"}, xml : {"none", "str", "bytes"},
                  pc : {"lookup", "info", "destroy", "describe", "create", "done", "raised"}]

Init ==
    /\ host \in [state : {"running", "paused", "off"}, persistent : BOOLEAN, disturbed : {FALSE}]
    /\ host.state = "off" => host.persistent
    /\ local \in [target : {"direct", "hdd"}, xml : {"none"}, pc : {"lookup"}]

Active == host.state \in {"running", "paused"}
Off == [host EXCEPT !.state = IF host.persistent THEN "off" ELSE "gone"]

Goto(label) == local' = [local EXCEPT !.pc = label]

-----------------------------------------------------------------------------
(* The script. *)

Lookup ==
    /\ local.pc = "lookup"
    /\ Goto(IF host.state = "gone" THEN "raised" ELSE "info")
    /\ UNCHANGED host

Info ==
    /\ local.pc = "info"
    /\ Goto(IF host.state = "running" THEN "destroy" ELSE "describe")
    /\ UNCHANGED host

\* destroy() raises where the domain is not active any more.
Destroy ==
    /\ local.pc = "destroy"
    /\ IF Active THEN host' = Off /\ Goto("describe")
       ELSE Goto("raised") /\ UNCHANGED host

\* XMLDesc() raises for a domain that is gone.  Without an encoding,
\* ET.tostring() of what was made of it returns bytes.
Describe ==
    /\ local.pc = "describe"
    /\ local' = IF host.state = "gone" THEN [local EXCEPT !.pc = "raised"]
                ELSE [local EXCEPT !.pc = "create", !.xml = "bytes"]
    /\ UNCHANGED host

\* createXML() takes a str alone, and refuses a domain that is active.
Create ==
    /\ local.pc = "create"
    /\ IF local.xml # "str" \/ Active THEN Goto("raised") /\ UNCHANGED host
       ELSE host' = [host EXCEPT !.state = "running"] /\ Goto("done")

-----------------------------------------------------------------------------
(* The host. *)

PowerOff ==
    /\ Active
    /\ host' = [Off EXCEPT !.disturbed = TRUE]
    /\ UNCHANGED local

Pause ==
    /\ host.state = "running"
    /\ host' = [host EXCEPT !.state = "paused", !.disturbed = TRUE]
    /\ UNCHANGED local

Start ==
    /\ host.state = "off"
    /\ host' = [host EXCEPT !.state = "running", !.disturbed = TRUE]
    /\ UNCHANGED local

Next == Lookup \/ Info \/ Destroy \/ Describe \/ Create \/ PowerOff \/ Pause \/ Start

Spec == Init /\ [][Next]_vars

-----------------------------------------------------------------------------
(* Property. *)

=============================================================================
