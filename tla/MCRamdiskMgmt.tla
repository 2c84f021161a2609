--------------------------- MODULE MCRamdiskMgmt ----------------------------
(***************************************************************************)
(* One call, for any domain and either target.                             *)
(***************************************************************************)
EXTENDS RamdiskMgmt
=============================================================================
