---------------------------- MODULE MCAgentRuns ----------------------------
(* The instances of AgentRuns that the runs check.                          *)
EXTENDS AgentRuns, TLC

Symmetry == Permutations(Procs) \cup Permutations(Rows)
=============================================================================
