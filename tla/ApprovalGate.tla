---------------------------- MODULE ApprovalGate ----------------------------
(***************************************************************************)
(* What the action-approval lifecycle of the Agent Company OS promises     *)
(* about broker orders, without processes, rows, files or gateways: the    *)
(* CEO authorises actions; orders are placed only for authorised actions;  *)
(* a placed order never disappears, though its withdrawal may be asked.    *)
(***************************************************************************)
EXTENDS Integers, Sequences

CONSTANT Actions

VARIABLES
  authorised,   \* actions the CEO has approved at some time
  placed,       \* the action of every order the broker holds, oldest first
  withdrawn     \* orders (indices of placed) whose cancellation was asked

gateVars == <<authorised, placed, withdrawn>>

Init ==
  /\ authorised = {}
  /\ placed     = << >>
  /\ withdrawn  = {}

Authorise(a) ==
  /\ authorised' = authorised \cup {a}
  /\ UNCHANGED <<placed, withdrawn>>

Place(a) ==
  /\ a \in authorised
  /\ placed' = Append(placed, a)
  /\ UNCHANGED <<authorised, withdrawn>>

Withdraw(i) ==
  /\ i \in DOMAIN placed
  /\ withdrawn' = withdrawn \cup {i}
  /\ UNCHANGED <<authorised, placed>>

Next ==
  \/ \E a \in Actions : Authorise(a) \/ Place(a)
  \/ \E i \in DOMAIN placed : Withdraw(i)

Spec == Init /\ [][Next]_gateVars

=============================================================================
