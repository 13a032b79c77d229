------------------------------- MODULE Mutex -------------------------------
(***************************************************************************)
(* What a lock promises its users: at any time at most one core is inside  *)
(* a region guarded by it.  Locking::SpinLock is shown to implement this.  *)
(***************************************************************************)
CONSTANT Core

VARIABLE holders        \* the cores inside a guarded region

Init == holders = {}

Acquire(c) == holders = {} /\ holders' = {c}

Release(c) == holders = {c} /\ holders' = {}

Next == \E c \in Core : Acquire(c) \/ Release(c)

Spec == Init /\ [][Next]_holders
=============================================================================
