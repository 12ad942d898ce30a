--------------------------- MODULE MCOrchestrator ---------------------------
(* Instances of Orchestrator for TLC: two agents, three tasks (a handover  *)
(* of a handover), one caller without limits and one limited to an agent.  *)
EXTENDS Orchestrator, TLC

Tasks == Permutations(TaskIds)
=============================================================================
