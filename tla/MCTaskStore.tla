---------------------------- MODULE MCTaskStore ----------------------------
(* Instances of TaskStore for TLC: two tasks, one follower.                *)
EXTENDS TaskStore, TLC

Tasks == Permutations(TaskIds)
=============================================================================
