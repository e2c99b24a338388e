---------------------------- MODULE MCGoalOrder ----------------------------
(* Instances of GoalOrder for TLC.                                         *)
EXTENDS GoalOrder, TLC

\* Goals and tabs are treated alike.
Symmetry == Permutations(Goal) \cup Permutations(Tab)
=============================================================================
