------------------------------- MODULE MCNotes -------------------------------
(* Steps of Notes for TLC, whose configurations know no negative numbers. *)
EXTENDS Notes, TLC

\* Two decrements by two leave the integers of the run.
BothWays == {-2, 0, 1}

Symmetry == Permutations(Agents)
===============================================================================
