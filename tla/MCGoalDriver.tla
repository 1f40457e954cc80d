---------------------------- MODULE MCGoalDriver ----------------------------
(* Instances of GoalDriver for TLC. *)
EXTENDS GoalDriver
=============================================================================
