---------------------------- MODULE MCPortChurn -----------------------------
(***************************************************************************)
(* Two invocations of one worker compete for the name; two cycles, so that *)
(* an attach can meet the detach of the cycle before.                      *)
(***************************************************************************)
EXTENDS PortChurn
MCRun == {"r1", "r2"}
MCWorker == {"w1"}
=============================================================================
