---------------------------- MODULE MCStepRound -----------------------------
(* StepRound for TLC: workers and servers are interchangeable, and so are   *)
(* the tasks of the leader.                                                 *)
EXTENDS StepRound, TLC

Symmetry ==
  Permutations(Workers) \union Permutations(Servers) \union Permutations(Tasks)
=============================================================================
