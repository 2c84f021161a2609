--------------------------- MODULE ImageDependents ---------------------------
(***************************************************************************)
(* scripts/glance/repro-image-dependents.py: makes an image and a server   *)
(* of it, perhaps with a volume, and cleans up.  A call may raise, before  *)
(* or after it was carried out; the second create_server, which is given   *)
(* no arguments and is refused by Nova, always does, so that no snapshot   *)
(* is ever made.                                                           *)
(***************************************************************************)
EXTENDS FiniteSets

VARIABLES
    cloud, \* the resources there are: "image", "server", "volume"
    local  \* bfv: --bfv; createOnly; pc; known: image, server that are set; raised:
           \* the calls that have raised

vars == <<cloud, local>>

After == [image |-> "server", server |-> "bare"]
Deletion == [image |-> "delete image", server |-> "delete server"]
Behind == [image |-> "delete server", server |-> "ended"]
\* create_server boots from a volume that it makes and that outlives the server.
Made(r) == IF r = "server" /\ local.bfv THEN {"server", "volume"} ELSE {r}

TypeOK ==
    /\ cloud \subseteq {"image", "server", "volume"}
    /\ local \in [bfv : BOOLEAN, createOnly : BOOLEAN, known : SUBSET {"image", "server"},
                  pc : {"image", "server", "bare", "delete image", "delete server", "ended"},
                  raised : SUBSET {"image", "server", "bare", "delete image", "delete server"}]

Init ==
    /\ cloud = {}
    /\ local \in [bfv : BOOLEAN, createOnly : BOOLEAN, known : {{}}, pc : {"image"}, raised : {{}}]

\* On to the finally clause; an exception there ends it.
Raise == local' = [local EXCEPT !.raised = @ \cup {local.pc},
            !.pc = IF local.createOnly \/ local.raised # {} THEN "ended" ELSE "delete image"]

-----------------------------------------------------------------------------
(* A slip the script could have made: "server" holds what the bare create has *)
(* returned, so that the first server is forgotten.                          *)

CreateForgets(r) ==
    /\ local.pc = r
    /\ cloud' = cloud \cup Made(r)
    /\ local' = [local EXCEPT !.pc = After[r], !.known = @ \cup ({r} \ {"server"})]

-----------------------------------------------------------------------------
(* The script. *)

Create(r) ==
    /\ local.pc = r
    /\ cloud' = cloud \cup Made(r)
    /\ local' = [local EXCEPT !.pc = After[r], !.known = @ \cup {r}]

\* The volume may be there without the server.
CreateRaises(r) ==
    /\ local.pc = r
    /\ \E made \in SUBSET Made(r) : cloud' = cloud \cup made
    /\ Raise

CreateBare ==
    /\ local.pc = "bare"
    /\ Raise
    /\ UNCHANGED cloud

Delete(r) ==
    /\ local.pc = Deletion[r]
    /\ cloud' = cloud \ (local.known \cap {r})
    /\ local' = [local EXCEPT !.pc = Behind[r]]

DeleteRaises(r) ==
    /\ local.pc = Deletion[r] /\ r \in local.known
    /\ cloud' \in {cloud, cloud \ {r}}
    /\ Raise

Next ==
    \/ \E r \in {"image", "server"} : Create(r) \/ CreateRaises(r) \/ Delete(r) \/ DeleteRaises(r)
    \/ CreateBare

Spec == Init /\ [][Next]_vars

-----------------------------------------------------------------------------
(* Property. *)

\* What is left behind a clean-up: the server's volume, what the creation that
\* raised has made, and, if a deletion raised, what it and those behind it were
\* to delete.
LeftExplained ==
    local.pc = "ended" /\ ~local.createOnly =>
        \A r \in cloud :
            \/ r = "volume" /\ local.bfv
            \/ r \in local.raised
            \/ "delete image" \in local.raised
            \/ r = "server" /\ "delete server" \in local.raised
=============================================================================
