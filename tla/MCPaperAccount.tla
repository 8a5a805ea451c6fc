--------------------------- MODULE MCPaperAccount ---------------------------
(* Model-checking instance of PaperAccount: processes and rows are symmetric. *)
EXTENDS PaperAccount, TLC

Symmetry == Permutations(Procs) \cup Permutations(Webs) \cup Permutations(Actions)

=============================================================================
