------------------------------ MODULE LockGhost ------------------------------
(***************************************************************************)
(* A history of the lock manager: which parked requests has the reaper     *)
(* passed over, in a whole sweep, while the lock they wait for was free?   *)
(***************************************************************************)
EXTENDS LockManager

VARIABLES
    since,    \* parked on a free lock ever since the sweep in progress began
    passed    \* ... throughout a sweep that has ended

Waiting(p) == pc[p] = "parked" /\ \A n \in arg[p].names : row[n] = NoRow

GhostInit == Init /\ since = {} /\ passed = {}

GhostNext ==
    /\ Next
    /\ since' = {p \in Requests : Waiting(p)' /\ (p \in since \/ ReapStart)}
    /\ passed' = {p \in Requests : Waiting(p)' /\ (p \in passed \/ (ReapEnd /\ p \in since))}

GhostSpec == GhostInit /\ [][GhostNext]_<<vars, since, passed>>

\* README: the daemon parks the caller "and wakes it the instant the lock
\* frees"; the reaper wakes the head "so waiters behind a dead holder don't eat
\* their full wait window".  A request that is the only one in flight and that
\* a whole sweep found waiting for a free lock does not wait out its window.
NoFullWaitOnFreeLock ==
    [][\A p \in passed :
          (pc[p] = "parked" /\ pc'[p] = "position") => \E q \in Requests \ {p} : pc[q] # "idle"
      ]_<<vars, since, passed>>
=============================================================================
