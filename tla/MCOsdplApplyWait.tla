-------------------------- MODULE MCOsdplApplyWait --------------------------
(***************************************************************************)
(* OsdplApplyWait as it is: its constants are plain values of the cfg.     *)
(* Two edits of others are enough for one to be under way when the script  *)
(* makes its change and for another to come while it waits.                *)
(***************************************************************************)
EXTENDS OsdplApplyWait
=============================================================================
