----------------------------- MODULE PaperBroker -----------------------------
(***************************************************************************)
(* One PaperBroker object (broker/paper_core.py, paper_orders.py,          *)
(* paper_state.py) with its matching engine, cost model, risk manager,     *)
(* order state machines and event ledger, over several trading days and    *)
(* restarts from its own snapshot.                                         *)
(*                                                                         *)
(* A call on the object runs to its end before the next one starts; only   *)
(* end_of_day is split, one step per order it expires, because each expiry *)
(* is a ledger append of its own. Processes that share the files of the    *)
(* account are the subject of PaperAccount.                                *)
(*                                                                         *)
(* Money is an integer number of units; a price is an integer, and one     *)
(* share at price p is worth p * Rates.base units, so that every rate,     *)
(* given in parts of Rates.base, yields whole units.                       *)
(***************************************************************************)
EXTENDS Integers, Sequences, FiniteSets, FiniteSetsExt, SequencesExt

CONSTANTS
  Symbols,        \* instruments of one asset class (A-shares)
  Prices,         \* prices an order or a quote may have
  Volumes,        \* share counts an order may ask for
  Lot,            \* exchange.lot_size
  InitialCash,
  ReplayCash,     \* the cash that reconstruct_state starts from: 1,000,000 in the code,
                  \* which is also the default of initial_cash
  Rates,          \* AShareExchange: base, commission, transfer, stamp, min, cent
  Limits,         \* RiskManager, in percent: single, exposure, drawdown;
                  \* and orders (a count), amount (money)
  LimitPct,       \* LimitUpDownAwareFill.limit_pct, in percent
  Probabilistic,  \* fill model: ProbabilisticFill, or the default composite?
  PartialPct,     \* ProbabilisticFill.partial_pct, in percent
  Restarts,       \* may the process be restarted from its snapshot?
  SkipsClose,     \* may a day pass without end_of_day (the web process)?
  MaxOrders       \* bound: order ids ever given out

ASSUME ConstantsAssumption ==
  /\ Prices  \subseteq Nat \ {0}
  /\ Volumes \subseteq Nat \ {0}
  /\ Lot \in Nat \ {0}
  /\ InitialCash \in Nat /\ ReplayCash \in Nat
  /\ Rates \in [base: Nat \ {0}, commission: Nat, transfer: Nat, stamp: Nat,
                min: Nat, cent: Nat \ {0}]
  /\ Limits \in [single: Nat, exposure: Nat, drawdown: Nat, orders: Nat,
                 amount: Nat]
  /\ LimitPct \in 0..100
  /\ PartialPct \in 0..100
  /\ {Probabilistic, Restarts, SkipsClose} \subseteq BOOLEAN
  /\ MaxOrders \in Nat

VARIABLES
  cash,       \* _cash
  pos,        \* _positions
  todayBuys,  \* _today_buys
  quotes,     \* _prices (0: none)
  peak,       \* _peak_equity
  count,      \* RiskManager._daily_order_count
  counted,    \* is RiskManager._last_reset_date today?
  counter,    \* _order_counter
  book,       \* _orders with _order_sms: order id -> order and its state
  ledger,     \* the events of ledger.parquet, in sequence order
  phase,      \* of the object: trading, inside end_of_day, after it
  bought,     \* history: shares bought on the current calendar day
  buys        \* history: buy orders filled on the current calendar day

memory  == <<cash, pos, todayBuys, quotes, peak, count, counted, counter, book, phase>>
history == <<bought, buys>>
vars    == <<memory, ledger, history>>

-----------------------------------------------------------------------------
Sides  == {"buy", "sell"}
Active == {"pending", "partial_filled"}
States == Active \cup {"filled", "rejected", "cancelled", "expired"}

Transitions(state) ==
  IF state = "pending" THEN States \ {"pending"}
  ELSE IF state = "partial_filled"
       THEN {"partial_filled", "filled", "cancelled", "expired"}
       ELSE {}

\* avg_cost is the fraction num / den: a running average of divisions.
NoPosition == [volume |-> 0, num |-> 0, den |-> 1, price |-> 0]

Larger(a, b)  == IF a >= b THEN a ELSE b
Smaller(a, b) == IF a <= b THEN a ELSE b

Amount(p, n) == p * n * Rates.base

Stamp(side, p, n) == IF side = "sell" THEN p * n * Rates.stamp ELSE 0

\* AShareExchange.calc_cost
CalcCost(side, p, n) ==
  Larger(p * n * Rates.commission, Rates.min) + p * n * Rates.transfer
    + Stamp(side, p, n)

\* round(commission, 2)
Rounded(x) == ((2 * x + Rates.cent) \div (2 * Rates.cent)) * Rates.cent

TotalAsset(c, ps) ==
  c + MapThenSumSet(LAMBDA s : Amount(ps[s].price, ps[s].volume), Symbols)

-----------------------------------------------------------------------------
(* Checks that precede a match. *)

\* Mutant: the reset does not look at the date.
OrdersAlwaysReset == 0

\* RiskManager._maybe_reset_daily, which only a checked (buy) order calls.
OrdersToday == IF counted THEN count ELSE 0

\* RiskManager.check_order: the five rules on the order as it was asked for.
RiskPasses(s, p, v) ==
  LET order  == Amount(p, v)
      equity == TotalAsset(cash, pos)
      held   == Amount(pos[s].price, pos[s].volume)
  IN /\ IF equity > 0 THEN (held + order) * 100 <= Limits.single * equity
                      ELSE Limits.single >= 100
     /\ equity > 0 => (equity - cash + order) * 100 <= Limits.exposure * equity
     /\ OrdersToday < Limits.orders
     /\ peak > 0 => (peak - equity) * 100 <= Limits.drawdown * peak
     /\ order <= Limits.amount

\* Mutant: the fees are left out of the estimate.
AffordableGross(p, v) ==
  {w \in 1..v : (v - w) % Lot = 0 /\ Amount(p, w) <= cash}

\* MatchingEngine.can_afford: sizes, lot by lot below v, the cash pays for.
Affordable(p, v) ==
  {w \in 1..v : (v - w) % Lot = 0 /\ Amount(p, w) + CalcCost("buy", p, w) <= cash}

\* Mutant: shares bought today are not held back.
SellableAll(s) == pos[s].volume

Sellable(s) == Larger(0, pos[s].volume - todayBuys[s])

\* LimitUpDownAwareFill; the previous close it is given is the average cost.
AtLimit(side, s, p) ==
  LET num == IF pos[s].num > 0 THEN pos[s].num ELSE Amount(p, 1)
      den == IF pos[s].num > 0 THEN pos[s].den ELSE 1
  IN IF side = "buy" THEN Amount(p, 1) * 100 * den >= num * (100 + LimitPct)
                     ELSE Amount(p, 1) * 100 * den <= num * (100 - LimitPct)

\* The shares the fill model may fill of v; none is a rejection.
Fills(side, s, p, v) ==
  IF Probabilistic THEN {v, Larger(1, (v * PartialPct) \div 100)}
  ELSE IF AtLimit(side, s, p) THEN {0}
  ELSE {v}

-----------------------------------------------------------------------------
(* Orders and their events. *)

EventsOf(id) == {i \in DOMAIN ledger : ledger[i].order = id}

\* Mutant: the parent is the newest event of the ledger, of whatever order.
IsNewestEvent(id, i) == i = Len(ledger)

\* i is the last event of the order, or 0 if it has none.
IsLastEvent(id, i) ==
  i \in EventsOf(id) \cup {0} /\ \A j \in EventsOf(id) : j <= i

Event(id, from, to, parent, side, s, n, p, fee) ==
  [order |-> id, from |-> from, to |-> to, parent |-> parent, side |-> side,
   symbol |-> s, shares |-> n, price |-> p, fee |-> fee]

\* Mutant: a fill event records the requested shares.
PlaceRequested(s, side, p, v, f) ==
  LET id    == counter + 1
      to    == IF f = 0 THEN "rejected" ELSE IF f >= v THEN "filled"
                                                       ELSE "partial_filled"
      fee   == IF f = 0 THEN 0 ELSE Rounded(CalcCost(side, p, f))
      order == [symbol |-> s, side |-> side, price |-> p, volume |-> v,
                filled |-> f, state |-> to]
  IN /\ counter' = id
     /\ book'    = [i \in DOMAIN book \cup {id} |-> IF i = id THEN order ELSE book[i]]
     /\ ledger'  = ledger \o
          <<Event(id, "pending", "pending", 0, side, s, 0, p, 0),
            Event(id, "pending", to, Len(ledger) + 1, side, s, IF f = 0 THEN 0 ELSE v, p, fee)>>

\* _create_pending_order, order_created, and the transition the match led to.
\* A fill event carries what was filled; a rejection carries no side.
Place(s, side, p, v, f) ==
  LET id    == counter + 1
      to    == IF f = 0 THEN "rejected" ELSE IF f >= v THEN "filled"
                                                       ELSE "partial_filled"
      fee   == IF f = 0 THEN 0 ELSE Rounded(CalcCost(side, p, f))
      order == [symbol |-> s, side |-> side, price |-> p, volume |-> v,
                filled |-> f, state |-> to]
  IN /\ counter' = id
     /\ book'    = [i \in DOMAIN book \cup {id} |-> IF i = id THEN order ELSE book[i]]
     /\ ledger'  = ledger \o
          <<Event(id, "pending", "pending", 0, side, s, 0, p, 0),
            Event(id, "pending", to, Len(ledger) + 1, side, s, f, p, fee)>>

\* _transition_order: an invalid transition is swallowed, with its event.
Transition(id, to) ==
  IF to \in Transitions(book[id].state)
  THEN /\ book' = [book EXCEPT ![id].state = to]
       /\ \E last \in 0..Len(ledger) :
            /\ IsLastEvent(id, last)
            /\ ledger' = Append(ledger, Event(id, book[id].state, to, last,
                                              "none", book[id].symbol, 0, 0, 0))
  ELSE UNCHANGED <<book, ledger>>

-----------------------------------------------------------------------------
Init ==
  /\ cash      = InitialCash
  /\ pos       = [s \in Symbols |-> NoPosition]
  /\ todayBuys = [s \in Symbols |-> 0]
  /\ quotes    = [s \in Symbols |-> 0]
  /\ peak      = InitialCash
  /\ count     = 0
  /\ counted   = FALSE
  /\ counter   = 0
  /\ book      = << >>
  /\ ledger    = << >>
  /\ phase     = "open"
  /\ bought    = [s \in Symbols |-> 0]
  /\ buys      = 0

\* set_prices
SetPrice(s, p) ==
  /\ phase = "open"
  /\ quotes' = [quotes EXCEPT ![s] = p]
  /\ pos' = IF pos[s] = NoPosition THEN pos ELSE [pos EXCEPT ![s].price = p]
  /\ UNCHANGED <<cash, todayBuys, peak, count, counted, counter, book, phase,
                 ledger, history>>

-----------------------------------------------------------------------------
(* submit_order. p is the price after _resolve_price: the limit price, or   *)
(* the quote of a market order; without either nothing happens.             *)

RefuseBuy(s, p, v) ==
  /\ phase = "open"
  /\ ~RiskPasses(s, p, v) \/ Affordable(p, v) = {}
  /\ count'   = OrdersToday
  /\ counted' = TRUE
  /\ UNCHANGED <<cash, pos, todayBuys, quotes, peak, counter, book, phase,
                 ledger, history>>

\* _apply_fill, buy side.
Bought(s, p, f) ==
  LET cost == Amount(p, f) + Rounded(CalcCost("buy", p, f))
      old  == pos[s]
  IN /\ cash' = cash - cost
     /\ pos' = [pos EXCEPT ![s] =
                  [volume |-> old.volume + f,
                   num    |-> old.num * old.volume + cost * old.den,
                   den    |-> old.den * (old.volume + f),
                   price  |-> p]]
     /\ todayBuys' = [todayBuys EXCEPT ![s] = @ + f]
     /\ count'  = OrdersToday + 1
     /\ peak'   = Larger(peak, TotalAsset(cash', pos'))
     /\ bought' = [bought EXCEPT ![s] = @ + f]
     /\ buys'   = buys + 1

SubmitBuy(s, p, v) ==
  /\ phase = "open"
  /\ counter < MaxOrders
  /\ RiskPasses(s, p, v)
  /\ \E w \in Affordable(p, v) :
        /\ \A smaller \in Affordable(p, v) : smaller <= w
        /\ \E f \in Fills("buy", s, p, w) :
             /\ Place(s, "buy", p, w, f)
             /\ IF f > 0
                THEN Bought(s, p, f)
                ELSE /\ count' = OrdersToday
                     /\ UNCHANGED <<cash, pos, todayBuys, peak, bought, buys>>
  /\ counted' = TRUE
  /\ UNCHANGED <<quotes, phase>>

\* _apply_fill, sell side. calc_cost already holds the stamp tax that is
\* subtracted again; the counter is not reset first, as no rule is checked.
Sold(s, p, f) ==
  /\ cash'  = cash + Amount(p, f) - Rounded(CalcCost("sell", p, f)) - Stamp("sell", p, f)
  /\ pos'   = [pos EXCEPT ![s].volume = @ - f]
  /\ count' = count + 1
  /\ peak'  = Larger(peak, TotalAsset(cash', pos'))

SubmitSell(s, p, v) ==
  /\ phase = "open"
  /\ counter < MaxOrders
  /\ Sellable(s) > 0
  /\ LET w == Smaller(v, Sellable(s)) IN
     \E f \in Fills("sell", s, p, w) :
        /\ Place(s, "sell", p, w, f)
        /\ IF f > 0 THEN Sold(s, p, f) ELSE UNCHANGED <<cash, pos, count, peak>>
  /\ UNCHANGED <<todayBuys, quotes, counted, phase, history>>

CancelOrder(id) ==
  /\ phase = "open"
  /\ id \in DOMAIN book
  /\ book[id].state \in Active
  /\ Transition(id, "cancelled")
  /\ UNCHANGED <<cash, pos, todayBuys, quotes, peak, count, counted, counter,
                 phase, history>>

-----------------------------------------------------------------------------
(* end_of_day *)

\* Mutant: a partly filled order is taken for done.
OnlyPending == {id \in DOMAIN book : book[id].state = "pending"}

Unfilled ==
  {id \in DOMAIN book : book[id].state \in Active /\ book[id].filled < book[id].volume}

BeginClose ==
  /\ phase = "open"
  /\ phase' = "closing"
  /\ UNCHANGED <<cash, pos, todayBuys, quotes, peak, count, counted, counter, book,
                 ledger, history>>

\* The state machines are visited in the order they were created.
ExpireOrder(id) ==
  /\ phase = "closing"
  /\ id \in Unfilled
  /\ \A other \in Unfilled : id <= other
  /\ Transition(id, "expired")
  /\ UNCHANGED <<cash, pos, todayBuys, quotes, peak, count, counted, counter,
                 phase, history>>

FinishClose ==
  /\ phase = "closing"
  /\ Unfilled = {}
  /\ pos' = [s \in Symbols |->
               IF pos[s].volume = 0 THEN NoPosition
               ELSE IF quotes[s] > 0 THEN [pos[s] EXCEPT !.price = quotes[s]]
               ELSE pos[s]]
  /\ todayBuys' = [s \in Symbols |-> 0]
  /\ phase' = "closed"
  /\ UNCHANGED <<cash, quotes, peak, count, counted, counter, book, ledger, history>>

-----------------------------------------------------------------------------
(* snapshot_state and restore_state around a restart of the process: open   *)
(* positions, cash, peak and counter survive; orders, quotes, today's buys  *)
(* and the risk manager are new.                                            *)

Restart ==
  /\ Restarts
  /\ phase # "closing"
  /\ pos' = [s \in Symbols |-> IF pos[s].volume > 0 THEN pos[s] ELSE NoPosition]
  /\ todayBuys' = [s \in Symbols |-> 0]
  /\ quotes'    = [s \in Symbols |-> 0]
  /\ count'     = 0
  /\ counted'   = FALSE
  /\ book'      = << >>
  /\ phase'     = "open"
  /\ UNCHANGED <<cash, peak, counter, ledger, history>>

(* The calendar. *)

NewDay ==
  /\ phase = "closed" \/ (SkipsClose /\ phase = "open")
  /\ phase'   = "open"
  /\ counted' = FALSE
  /\ bought'  = [s \in Symbols |-> 0]
  /\ buys'    = 0
  /\ UNCHANGED <<cash, pos, todayBuys, quotes, peak, count, counter, book, ledger>>

-----------------------------------------------------------------------------
Submit(s, p, v) == RefuseBuy(s, p, v) \/ SubmitBuy(s, p, v) \/ SubmitSell(s, p, v)

OrderStep(id) == CancelOrder(id) \/ ExpireOrder(id)

Next ==
  \/ \E s \in Symbols, p \in Prices : SetPrice(s, p)
  \/ \E s \in Symbols, p \in Prices, v \in Volumes : Submit(s, p, v)
  \/ \E id \in DOMAIN book : OrderStep(id)
  \/ BeginClose \/ FinishClose \/ Restart \/ NewDay

Spec == Init /\ [][Next]_vars

-----------------------------------------------------------------------------
(* Properties. *)

Positions == [volume: Nat, num: Nat, den: Nat \ {0}, price: Nat]
Orders == [symbol: Symbols, side: Sides, price: Nat, volume: Nat, filled: Nat, state: States]
Events == [order: Nat, from: States, to: States, parent: Nat,
           side: Sides \cup {"none"}, symbol: Symbols, shares: Nat, price: Nat, fee: Nat]

\* The object, the ledger and the history keep their shapes; in particular no
\* sequence of calls makes a position or a daily count negative.
TypeOK ==
  /\ cash \in Int
  /\ pos \in [Symbols -> Positions]
  /\ todayBuys \in [Symbols -> Nat]
  /\ quotes \in [Symbols -> Nat]
  /\ count \in Nat /\ counted \in BOOLEAN
  /\ counter \in Nat
  /\ DOMAIN book \subseteq 1..counter
  /\ \A id \in DOMAIN book : book[id] \in Orders
  /\ ledger \in Seq(Events)
  /\ phase \in {"open", "closing", "closed"}
  /\ bought \in [Symbols -> Nat]
  /\ buys \in Nat

\* Fees are estimated exactly when an order is cut to the cash and rounded to
\* cents when it is filled, for the whole order or a part of it: a buy may
\* overdraw the account, but by no more than half a cent.
BuysAreFunded ==
  [][\A id \in DOMAIN book' \ DOMAIN book :
        book'[id].side = "buy" => 2 * cash' >= -Rates.cent]_vars

\* T+1: as long as the process lives, shares bought today are never sold today,
\* whatever is bought, sold, refused or left out of end_of_day in between.
Settled == INSTANCE SettledAccount WITH
             settled   <- [s \in Symbols |-> pos[s].volume - bought[s]],
             unsettled <- bought

ImplementsSettled == Settled!Spec

\* The daily counter is kept per fill, reset only by a checked buy and raised by
\* sells too; still no day sees more filled buys than max_orders_per_day.
BuysWithinDailyLimit == buys <= Limits.orders

\* The events of every order, across cancellations, closes and restarts, are one
\* chain of legal transitions from order_created, each naming the one before it
\* as parent, and the last one is the state of the order in memory.
EarlierEvents(i) == {j \in EventsOf(ledger[i].order) : j < i}

Chained(i) ==
  IF EarlierEvents(i) = {}
  THEN ledger[i].from = "pending" /\ ledger[i].to = "pending" /\ ledger[i].parent = 0
  ELSE /\ ledger[i].parent \in EarlierEvents(i)
       /\ \A j \in EarlierEvents(i) : j <= ledger[i].parent
       /\ ledger[i].from = ledger[ledger[i].parent].to
       /\ ledger[i].to \in Transitions(ledger[i].from)

EventsAreChained == \A i \in DOMAIN ledger : Chained(i)

ChainsEndInState ==
  \A id \in DOMAIN book :
    \E last \in EventsOf(id) :
      (\A j \in EventsOf(id) : j <= last) /\ ledger[last].to = book[id].state

ChainsAreLifecycles == EventsAreChained /\ ChainsEndInState

\* After end_of_day the object has no order left that could still fill.
NothingOpenAfterClose ==
  phase = "closed" => \A id \in DOMAIN book : book[id].state \notin Active

\* EventLedger.reconstruct_state: cash and share counts from the fill events.
ReplayFill(account, e) ==
  LET amount == Amount(e.price, e.shares)
  IN IF e.shares = 0 THEN account
     ELSE IF e.side = "sell"
     THEN [cash   |-> account.cash + amount - e.fee,
           volume |-> [account.volume EXCEPT ![e.symbol] = Larger(0, @ - e.shares)]]
     ELSE IF amount + e.fee <= account.cash
     THEN [cash   |-> account.cash - amount - e.fee,
           volume |-> [account.volume EXCEPT ![e.symbol] = @ + e.shares]]
     ELSE account

Replay == FoldLeft(ReplayFill,
                   [cash |-> ReplayCash, volume |-> [s \in Symbols |-> 0]], ledger)

HoldingsReplayed == \A s \in Symbols : Replay.volume[s] = pos[s].volume

\* Replaying the ledger gives the share counts of the account, over restarts and
\* days, unless the fee of some fill was rounded up or the account began with more cash
\* than the replay.
ExactFillsReplayed ==
  ( /\ InitialCash <= ReplayCash
    /\ \A i \in DOMAIN ledger : ledger[i].shares > 0 =>
         ledger[i].fee <= CalcCost(ledger[i].side, ledger[i].price, ledger[i].shares) )
    => HoldingsReplayed

\* Not kept by the code: a sell pays its stamp tax twice (README).
\* broker/ledger.py: reconstruct_state rebuilds "positions/cash holdings".
CashReplayed == Replay.cash = cash

=============================================================================
