-------------------------- MODULE MCOrchestration --------------------------
(* Orchestration for TLC: its workflows are interchangeable. *)
EXTENDS Orchestration, TLC

WorkflowSymmetry == Permutations(Workflows)
=============================================================================
