----------------------------- MODULE MCLockGhost -----------------------------
(* The instance of MCLockManager, with the history of LockGhost. *)
EXTENDS LockGhost

OwnAgent == [p \in Requests |-> p]
=============================================================================
