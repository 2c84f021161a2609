---------------------------- MODULE MCIfaceChurn ----------------------------
(***************************************************************************)
(* Two workers of two cycles, enough for a worker to meet what its former  *)
(* cycle left and for two workers to share the domain; two polls, so that  *)
(* the guest may release a device before, between and after them.          *)
(***************************************************************************)
EXTENDS IfaceChurn
MCWorker == {"w0", "w1"}
=============================================================================
