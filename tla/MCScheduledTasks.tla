-------------------------- MODULE MCScheduledTasks --------------------------
(* Small instances of ScheduledTasks for TLC. *)
EXTENDS ScheduledTasks, TLC

Symmetry == Permutations(Orgs) \cup Permutations(Ticks)
=============================================================================
