------------------------------ MODULE MCOvnLock ------------------------------
(***************************************************************************)
(* Three clients: an owner, one queued behind it and one behind that.  Two *)
(* looks at has_lock stand for the five of the script: a look before and   *)
(* one after the answer.                                                   *)
(***************************************************************************)
EXTENDS OvnLock, TLC
CONSTANTS c1, c2, c3
MCClient == {c1, c2, c3}
Symmetry == Permutations(MCClient)
=============================================================================
