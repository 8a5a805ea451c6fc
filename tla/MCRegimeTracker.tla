--------------------------- MODULE MCRegimeTracker ---------------------------
(* The instance of RegimeTracker that the run checks.                        *)
EXTENDS RegimeTracker, TLC

Symmetry == Permutations(Threads) \cup Permutations(Hosts)

Probs(bull, sideways, bear) == [r \in Known |->
  CASE r = "bull" -> bull [] r = "sideways" -> sideways [] OTHER -> bear]

View(rule, probs) == [bench |-> TRUE, rule |-> rule, probs |-> probs]

\* A confident model against the rule, a vote too close for the model alone, no
\* benchmark: two known readings and the unknown one. (A third known one would pass
\* through the same branches; the proofs are for any views.)
FewViews == {View("bull", Probs(5, 10, 85)), View("bull", Probs(45, 35, 20)),
             [bench |-> FALSE, rule |-> "sideways", probs |-> NoModel]}
=============================================================================
