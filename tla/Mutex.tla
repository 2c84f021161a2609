-------------------------------- MODULE Mutex --------------------------------
(***************************************************************************)
(* What a lock promises: at most one client holds it.                      *)
(***************************************************************************)
CONSTANT Client
VARIABLE holders   \* clients that may act as the owner

Init == holders = {}

Acquire(c) == holders = {} /\ holders' = {c}

Release(c) == c \in holders /\ holders' = holders \ {c}

Next == \E c \in Client : Acquire(c) \/ Release(c)

Spec == Init /\ [][Next]_holders
=============================================================================
