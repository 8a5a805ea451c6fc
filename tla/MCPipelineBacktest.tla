-------------------------- MODULE MCPipelineBacktest --------------------------
(* The instance of PipelineBacktest that the run checks.                     *)
EXTENDS PipelineBacktest

Prices(a, b, f) == [s \in Symbols |-> CASE s = "a" -> a [] s = "b" -> b [] OTHER -> f]

\* One symbol is not listed at first; then prices move apart by a factor of three.
FewPrices == {Prices(0, 1, 1), Prices(1, 1, 2), Prices(3, 1, 1)}

Signal(s, b) == [symbol |-> s, buy |-> b]

FewSignals == {<<>>, <<Signal("a", TRUE), Signal("b", TRUE)>>,
               <<Signal("f", TRUE), Signal("a", FALSE), Signal("b", TRUE)>>}

FewWeights == {<<>>, <<1>>, <<3, 1>>}

Sectors == [s \in Symbols |-> IF s = "f" THEN "y" ELSE "x"]

FewConfigs ==
  {[schedule |-> "monthly", constructor |-> "equal", pct |-> 30, force |-> {},
    trigger |-> FALSE],
   [schedule |-> "drift", constructor |-> "inverse_vol", pct |-> 60, force |-> {1},
    trigger |-> TRUE],
   [schedule |-> "regime_change", constructor |-> "constrained", pct |-> 80,
    force |-> {}, trigger |-> FALSE],
   [schedule |-> "weekly", constructor |-> "constrained", pct |-> 100, force |-> {},
    trigger |-> FALSE],
   [schedule |-> "daily", constructor |-> "equal", pct |-> 60, force |-> {},
    trigger |-> FALSE]}

AShareAndETF ==
  [base |-> 100, commission |-> 1, transfer |-> 1, stamp |-> 2, min |-> 5,
   fund |-> 1, fundMin |-> 1, cent |-> 4]

Caps == [single |-> 40, exposure |-> 95, drawdown |-> 15, orders |-> 50,
         amount |-> 2000]

\* The condition of the theorems about cash holds of the instance.
ASSUME LotsArePaying == LotsPayFees
=============================================================================
