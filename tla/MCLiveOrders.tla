---------------------------- MODULE MCLiveOrders ----------------------------
(* Model-checking instance of LiveOrders: symmetry over rows and processes. *)
EXTENDS LiveOrders, TLC

Symmetry == Permutations(Procs) \cup Permutations(Actions)

=============================================================================
