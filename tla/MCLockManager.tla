---------------------------- MODULE MCLockManager ----------------------------
(* Small instances of the lock manager: every handler speaks for an agent of *)
(* its own; the one that a presence reaper is given holds nothing.           *)
EXTENDS LockManager, TLC

OwnAgent == [p \in Requests |-> p]

Symmetry == Permutations(Requests \ Reapers)
=============================================================================
