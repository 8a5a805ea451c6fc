---------------------------- MODULE MCAgentMemory ----------------------------
(* The instance of AgentMemory that the run checks.                          *)
EXTENDS AgentMemory, TLC

Symmetry == Permutations(Procs) \cup Permutations(Sessions)
=============================================================================
