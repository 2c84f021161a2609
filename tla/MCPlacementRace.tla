--------------------------- MODULE MCPlacementRace ---------------------------
(***************************************************************************)
(* Three threads, one more than the default, so that exactly one, none and *)
(* several may be answered 204; two rounds, so that one may meet what the  *)
(* other left.                                                             *)
(***************************************************************************)
EXTENDS PlacementRace
MCThread == {"t1", "t2", "t3"}
=============================================================================
