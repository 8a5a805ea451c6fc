---------------------------- MODULE MCPaperBroker ----------------------------
(* Model-checking instance of PaperBroker: rates and limits small enough that *)
(* three orders meet every rule, cut, rounding and rejection.                 *)
EXTENDS PaperBroker

\* Commission, transfer fee and stamp tax of 1% each, a least commission that
\* single shares meet, and a cent of 4 units that fees are not multiples of.
MCRates == [base |-> 100, commission |-> 1, transfer |-> 1, stamp |-> 1,
            min |-> 5, cent |-> 4]

\* Limits that a large order, a fall in price or a busy day meets.
MCLimits == [single |-> 60, exposure |-> 80, drawdown |-> 15, orders |-> 2,
             amount |-> 1000]

\* Rules that never apply, for the runs about the rest of the broker.
NoLimits == [single |-> 1000, exposure |-> 1000, drawdown |-> 100, orders |-> 9,
             amount |-> 100000]

Symmetry == Permutations(Symbols)

=============================================================================
