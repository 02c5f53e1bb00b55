------------------------------- MODULE MCTasks -------------------------------
(* Small instances of the work queue: the agents are alike.                 *)
EXTENDS Tasks, TLC

Symmetry == Permutations(Agents)
=============================================================================
