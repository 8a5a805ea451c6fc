--------------------------- MODULE SettledAccount ---------------------------
(***************************************************************************)
(* What the paper broker promises about shares under the T+1 rule of the   *)
(* A-share market, without prices, cash, orders, risk rules or files:      *)
(* shares bought today settle when the trading day ends, and only settled  *)
(* shares can be sold.                                                     *)
(***************************************************************************)
EXTENDS Integers

CONSTANT Symbols

VARIABLES
  settled,     \* shares that may be sold today
  unsettled    \* shares bought today

account == <<settled, unsettled>>

Init ==
  /\ settled   = [s \in Symbols |-> 0]
  /\ unsettled = [s \in Symbols |-> 0]

Buy(s) ==
  /\ unsettled'[s] > unsettled[s]
  /\ unsettled' = [unsettled EXCEPT ![s] = unsettled'[s]]
  /\ UNCHANGED settled

Sell(s) ==
  /\ settled'[s] \in 0..(settled[s] - 1)
  /\ settled' = [settled EXCEPT ![s] = settled'[s]]
  /\ UNCHANGED unsettled

NextDay ==
  /\ settled'   = [s \in Symbols |-> settled[s] + unsettled[s]]
  /\ unsettled' = [s \in Symbols |-> 0]

Next ==
  \/ \E s \in Symbols : Buy(s) \/ Sell(s)
  \/ NextDay

Spec == Init /\ [][Next]_account

=============================================================================
