--------------------------- MODULE PipelineBacktest ---------------------------
(***************************************************************************)
(* The daily loop of backtest/pipeline_runner.py with the stages it drives:*)
(* the rebalance scheduler, the three portfolio constructors, the risk     *)
(* adjuster and the execution router in its mode without a broker.         *)
(*                                                                         *)
(* A day is opened by its prices and its regime; it is then skipped, or    *)
(* rebalanced: one step decides the orders, then one step fills each. What *)
(* the alpha model returns, and the weights that volatilities yield, are   *)
(* any of the given lists.                                                 *)
(*                                                                         *)
(* Money is in the units of PaperBroker: a share at price p is worth       *)
(* p * Rates.base.                                                         *)
(***************************************************************************)
EXTENDS Integers, Sequences, FiniteSets, FiniteSetsExt, SequencesExt

CONSTANTS
  Symbols,       \* the universe
  Funds,         \* its ETFs: their position key is "etf:" and the symbol
  SectorOf,      \* ConstrainedPortfolioConstructor.sector_map
  PriceLists,    \* closes of a day, filled forward (0: not listed yet)
  SignalLists,   \* lists an alpha model may return: symbol, and is it a "buy"?
  Weights,       \* weights, up to a factor, of the best signals of a list
  Regimes,       \* of a month
  Configs,       \* schedule, constructor, pct (position_pct), force (months),
                 \* trigger (has the strategy a hook of its own?)
  Lot,
  InitialCash,
  Rates,         \* base, commission, transfer, stamp, min; fund, fundMin; cent
  Limits,        \* in percent: single, exposure, drawdown; orders; amount (money)
  MaxPositions,
  MaxSingle,     \* max_single_weight, in percent
  MaxSector,     \* max_sector_weight, in percent
  DriftPct,      \* drift_threshold, in percent
  OverlapPct,    \* min_overlap_pct, in percent
  MaxIdle,       \* max_idle_days
  WeekDays, MonthDays, YearMonths,
  Gaps,          \* bound: days from one row of prices to the next
  MaxDay         \* bound: the last day

ASSUME ConstantsAssumption ==
  /\ IsFiniteSet(Symbols) /\ Funds \subseteq Symbols /\ DOMAIN SectorOf = Symbols
  /\ PriceLists \subseteq [Symbols -> Nat]
  /\ SignalLists \subseteq Seq([symbol: Symbols, buy: BOOLEAN])
  \* An alpha model scores a symbol of its universe once.
  /\ \A l \in SignalLists : \A i, j \in DOMAIN l : l[i].symbol = l[j].symbol => i = j
  /\ Weights \subseteq Seq(Nat \ {0})
  /\ Gaps \subseteq Nat \ {0}
  /\ {Lot, MaxPositions, MaxIdle, WeekDays, MonthDays, YearMonths} \subseteq Nat \ {0}
  /\ {InitialCash, MaxSingle, MaxSector, DriftPct, OverlapPct, MaxDay} \subseteq Nat
  /\ \A c \in Configs :
       c.pct \in Nat /\ c.constructor \in {"equal", "inverse_vol", "constrained"}
  /\ Rates \in [base: Nat \ {0}, commission: Nat, transfer: Nat, stamp: Nat, min: Nat,
                fund: Nat, fundMin: Nat, cent: Nat \ {0}]
  /\ Limits \in [single: Nat, exposure: Nat, drawdown: Nat, orders: Nat, amount: Nat]
  \* A month of another year is idle for too long to be taken for this one: 28 days
  \* in every monthly schedule, 365 in the drift one of backtest/run_all_strategies.py.
  /\ (\E c \in Configs : c.schedule = "monthly") =>
       MaxIdle <= MonthDays * (YearMonths - 1)

VARIABLES
  config,    \* of the run
  day,       \* dt
  regime,    \* of its month
  price,     \* current_prices
  cash,
  holdings,  \* shares (0: no key)
  sched,     \* RebalanceScheduler: last date (0: none), regime and target symbols
  phase,     \* of the day: opened, its orders being filled, over
  intents,   \* orders not filled yet
  opened,    \* history: the account's value when the day opened
  paid       \* history: fees paid on the day

vars == <<config, day, regime, price, cash, holdings, sched, phase, intents,
          opened, paid>>

-----------------------------------------------------------------------------
Larger(a, b)  == IF a >= b THEN a ELSE b
Smaller(a, b) == IF a <= b THEN a ELSE b
Abs(n)        == IF n < 0 THEN -n ELSE n

Amount(s, n) == price[s] * n * Rates.base

\* Exchange.calc_cost of a stock and of an ETF.
CalcCost(side, s, n) ==
  LET part(rate) == price[s] * n * rate
  IN IF s \in Funds THEN Larger(part(Rates.fund), Rates.fundMin)
     ELSE Larger(part(Rates.commission), Rates.min) + part(Rates.transfer)
            + (IF side = "sell" THEN part(Rates.stamp) ELSE 0)

\* round(commission, 2)
Fee(side, s, n) ==
  ((2 * CalcCost(side, s, n) + Rates.cent) \div (2 * Rates.cent)) * Rates.cent

Held     == {s \in Symbols : holdings[s] > 0}
Exposure == MapThenSumSet(LAMBDA s : Amount(s, holdings[s]), Symbols)
Equity   == cash + Exposure

Month(d) == (d \div MonthDays) % YearMonths

CalendarMonth(d) == d \div MonthDays

-----------------------------------------------------------------------------
(* RebalanceScheduler                                                        *)

\* _compute_drift > drift_threshold
Drifted ==
  LET value(s) == price[s] * holdings[s]
      valued   == {s \in Held : price[s] > 0}
      total    == MapThenSumSet(value, valued)
  IN /\ Cardinality(Held) >= 3
     /\ \E s \in valued :
          Abs(value(s) * Cardinality(valued) - total) * 100 > DriftPct * total

\* Keys are compared with symbols: that of a fund equals no symbol.
Unfamiliar ==
  /\ Held # {} /\ sched.targets # {}
  /\ Cardinality((Held \ Funds) \cap sched.targets) * 100
       < OverlapPct * Cardinality(Held)

\* Mutant: only the calendar and the regime are looked at.
DueByRules ==
  \/ sched.last = 0
  \/ Month(day) \in config.force /\ CalendarMonth(day) # CalendarMonth(sched.last)
  \/ regime # sched.regime
  \/ config.schedule = "monthly" /\ Month(day) # Month(sched.last)
  \/ config.schedule = "weekly" /\ day - sched.last >= WeekDays
  \/ config.schedule = "daily"

\* should_rebalance without the strategy's hook: each branch records and returns.
Due ==
  \/ sched.last = 0
  \/ Month(day) \in config.force /\ CalendarMonth(day) # CalendarMonth(sched.last)
  \/ regime # sched.regime
  \/ config.schedule = "monthly" /\ Month(day) # Month(sched.last)
  \/ config.schedule = "weekly" /\ day - sched.last >= WeekDays
  \/ config.schedule = "daily"
  \/ config.schedule = "drift" /\ Drifted
  \/ day - sched.last >= MaxIdle
  \/ config.schedule \in {"drift", "monthly"} /\ Unfamiliar

-----------------------------------------------------------------------------
(* Portfolio constructors                                                    *)

\* ConstrainedPortfolioConstructor: one name's weight, in parts of 100 * MaxPositions.
BaseWeight == Smaller(MaxSingle * MaxPositions, config.pct)

Pick(chosen, signal) ==
  LET n        == Len(chosen) + 1
      inSector == Len(SelectSeq(chosen,
                        LAMBDA s : SectorOf[s.symbol] = SectorOf[signal.symbol])) + 1
  IN IF /\ signal.buy /\ price[signal.symbol] > 0
        /\ n <= MaxPositions
        /\ n * BaseWeight <= config.pct * MaxPositions
        /\ inSector * BaseWeight <= MaxSector * MaxPositions
     THEN Append(chosen, signal) ELSE chosen

Best(signals) ==
  IF config.constructor # "constrained"
  THEN SubSeq(signals, 1, Smaller(MaxPositions, Len(signals)))
  ELSE FoldLeft(Pick, <<>>, signals)

\* The lots the share of the i-th name buys: equal and inverse-volatility shares are
\* taken of the cash, constrained ones of the equity.
SizedShares(best, w, i) ==
  LET lot == Amount(best[i].symbol, Lot)
      sum == IF config.constructor = "equal" THEN Len(best) ELSE FoldLeft(+, 0, w)
      own == IF config.constructor = "equal" THEN 1 ELSE w[i]
  IN Lot * IF config.constructor = "constrained"
           THEN (Equity * BaseWeight) \div (100 * MaxPositions * lot)
           ELSE (cash * config.pct * own) \div (100 * sum * lot)

\* An account in debt wants none.
TargetShares(best, w, i) == Larger(0, SizedShares(best, w, i))

\* The target of every symbol that has one: its change in shares.
Targets(best, w) ==
  LET wanted == {i \in DOMAIN best : price[best[i].symbol] > 0}
      index(s) == CHOOSE i \in wanted : best[i].symbol = s
      named  == {best[i].symbol : i \in wanted}
      left   == {s \in Held : price[s] > 0 /\ s \notin {b.symbol : b \in Range(best)}}
  IN [s \in named \cup left |->
        IF s \in named THEN TargetShares(best, w, index(s)) - holdings[s]
                       ELSE -holdings[s]]

-----------------------------------------------------------------------------
(* Risk adjuster and execution router                                        *)

\* RiskManager.check_order against the portfolio before the rebalance. The position
\* is looked up by its symbol, so that of a fund is not found; nothing counts orders;
\* the peak is today's. A sell is checked as if it were bought.
Passes(s, delta) ==
  LET order == Amount(s, Abs(delta))
      known == IF s \in Funds THEN 0 ELSE Amount(s, holdings[s])
      peak  == Larger(cash, Equity)
  IN /\ IF Equity > 0 THEN (known + order) * 100 <= Limits.single * Equity
                      ELSE Limits.single >= 100
     /\ Equity > 0 => (Exposure + order) * 100 <= Limits.exposure * Equity
     /\ Limits.orders > 0
     /\ peak > 0 => (peak - Equity) * 100 <= Limits.drawdown * peak
     /\ order <= Limits.amount

\* Mutant: the halved order is not checked again.
AdjustedUnchecked(s, delta) ==
  IF delta = 0 \/ Passes(s, delta) THEN delta ELSE delta \div 2

\* RiskAdjuster.adjust: whole, halved, or dropped.
Adjusted(s, delta) ==
  IF delta = 0 \/ Passes(s, delta) THEN delta
  ELSE IF delta \div 2 # 0 /\ Passes(s, delta \div 2) THEN delta \div 2
  ELSE 0

\* Whole lots, and never less than one.
Lots(n) == Larger(Lot, (n \div Lot) * Lot)

Order(side, s, n) == [side |-> side, symbol |-> s, shares |-> Lots(n)]

\* targets_to_intents: sells (in the order of a set), then buys in signal order.
Intents(best, deltas) ==
  LET sells == {s \in DOMAIN deltas : deltas[s] < 0 /\ holdings[s] > 0}
      withBuy(orders, b) ==
        IF b.symbol \in DOMAIN deltas /\ deltas[b.symbol] > 0
        THEN Append(orders, Order("buy", b.symbol, deltas[b.symbol])) ELSE orders
  IN FoldLeft(withBuy,
              SetToSeq({Order("sell", s, Smaller(-deltas[s], holdings[s])) : s \in sells}),
              best)

-----------------------------------------------------------------------------
Init ==
  /\ config \in Configs
  /\ day = 0 /\ regime \in Regimes
  /\ price = [s \in Symbols |-> 0]
  /\ cash = InitialCash /\ holdings = [s \in Symbols |-> 0]
  /\ sched = [last |-> 0, regime |-> regime, targets |-> {}]
  /\ phase = "over" /\ intents = <<>>
  /\ opened = InitialCash /\ paid = 0

\* The next row of prices; the regime is one of the month.
NewDay(gap, prices, r) ==
  /\ phase = "over"
  /\ day + gap <= MaxDay
  /\ \A s \in Symbols : price[s] > 0 => prices[s] > 0
  /\ CalendarMonth(day + gap) = CalendarMonth(day) => r = regime
  /\ day' = day + gap /\ regime' = r /\ price' = prices
  /\ phase' = "opened"
  /\ opened' = cash + MapThenSumSet(LAMBDA s : prices[s] * holdings[s] * Rates.base,
                                    Symbols)
  /\ paid' = 0
  /\ UNCHANGED <<config, cash, holdings, sched, intents>>

Skip ==
  /\ phase = "opened" /\ ~Due
  /\ phase' = "over"
  /\ UNCHANGED <<config, day, regime, price, cash, holdings, sched, intents,
                 opened, paid>>

\* _record, then record_target, which an empty list of targets leaves as it was.
Note(best, deltas) ==
  [last |-> day, regime |-> regime,
   targets |-> IF DOMAIN deltas = {} THEN sched.targets
               ELSE {b.symbol : b \in {x \in Range(best) : price[x.symbol] > 0}}]

Rebalance(signals, w) ==
  LET best   == Best(signals)
      \* No signal at all: the constructors return no target, not even to sell.
      deltas == IF \/ signals = <<>>
                   \/ config.constructor = "constrained" /\ Equity <= 0
                THEN <<>> ELSE Targets(best, w)
      orders == Intents(best, [s \in DOMAIN deltas |-> Adjusted(s, deltas[s])])
  IN /\ phase = "opened"
     /\ config.trigger \/ Due
     /\ Len(w) = IF config.constructor = "inverse_vol" THEN Len(best) ELSE 0
     /\ sched' = Note(best, deltas)
     /\ intents' = orders
     /\ phase' = IF orders = <<>> THEN "over" ELSE "filling"
     /\ UNCHANGED <<config, day, regime, price, cash, holdings, opened, paid>>

\* Mutant: a buy is booked without the cash for it.
Affordable(cost) == TRUE

\* execute without a broker, and the loop that applies its fills: a buy the cash
\* does not cover is passed over.
CanPay(cost) == cost <= cash

Fill ==
  LET o    == Head(intents)
      fee  == Fee(o.side, o.symbol, o.shares)
      cost == Amount(o.symbol, o.shares) + fee
      sold == o.side = "sell"
      done == sold \/ CanPay(cost)
  IN /\ phase = "filling"
     /\ cash' = IF sold THEN cash + cost - 2 * fee ELSE IF done THEN cash - cost ELSE cash
     /\ holdings' = [holdings EXCEPT ![o.symbol] =
          IF sold THEN Larger(0, @ - o.shares) ELSE IF done THEN @ + o.shares ELSE @]
     /\ paid' = IF done THEN paid + fee ELSE paid
     /\ intents' = Tail(intents)
     /\ phase' = IF Len(intents) = 1 THEN "over" ELSE "filling"
     /\ UNCHANGED <<config, day, regime, price, sched, opened>>

Next ==
  \/ \E gap \in Gaps, prices \in PriceLists, r \in Regimes : NewDay(gap, prices, r)
  \/ Skip
  \/ \E signals \in SignalLists, w \in Weights : Rebalance(signals, w)
  \/ Fill

Spec == Init /\ [][Next]_vars

-----------------------------------------------------------------------------
\* At every price that is quoted a lot is worth the fees of its sale: what must be true
\* of the market for no sale to cost more than it brings. The code does not ask for it.
LotsPayFees ==
  LET perShare == Rates.transfer + Rates.stamp
  IN /\ Rates.commission + perShare + Rates.cent <= Rates.base
     /\ Rates.fund + Rates.cent <= Rates.base
     /\ \A prices \in PriceLists, s \in Symbols : prices[s] > 0 =>
          LET lot == prices[s] * Lot
          IN /\ Rates.min + lot * perShare + Rates.cent <= lot * Rates.base
             /\ Rates.fundMin + Rates.cent <= lot * Rates.base

\* However the stages size, halve, round and pass over orders, the account is worth
\* what it was when the day opened less the fees of the day, owes nothing, and holds
\* whole lots (pipeline_runner.py applies fills without asking a broker).
AccountIsSound ==
  /\ Equity = opened - paid
  /\ cash >= 0
  /\ \A s \in Symbols : holdings[s] \in Nat /\ holdings[s] % Lot = 0

\* Whatever rows of prices are missing, once a day is over its regime is the one the
\* portfolio was last built for, and a rebalance has taken place in its calendar month
\* (monthly schedule, forced months), in the last week (weekly), on the day (daily),
\* and in any case within max_idle_days. A monthly schedule compares months without
\* their year: it needs the idle guard for this.
ScheduleKept ==
  phase # "opened" /\ day > 0 =>
    /\ sched.regime = regime
    /\ day - sched.last < MaxIdle
    /\ config.schedule = "monthly" \/ Month(day) \in config.force =>
         CalendarMonth(sched.last) = CalendarMonth(day)
    /\ config.schedule = "weekly" => day - sched.last < WeekDays
    /\ config.schedule = "daily"  => sched.last = day

BuysOf(orders) == {i \in DOMAIN orders : orders[i].side = "buy"}

\* The buys of a rebalance, after the risk adjuster halved them and the router rounded
\* them, deploy together at most the constructor's share of the cash (or of the equity),
\* and each keeps its stock within the single-position limit: but for an order of one
\* lot, to which the router lifts what the adjuster halved below one.
BuysBounded ==
  [][phase = "opened" /\ phase' = "filling" =>
       /\ MapThenSumSet(LAMBDA i : Amount(intents'[i].symbol, intents'[i].shares),
                        BuysOf(intents')) * 100
            <= config.pct * (IF config.constructor = "constrained" THEN Equity ELSE cash)
       /\ \A i \in BuysOf(intents') :
            LET s == intents'[i].symbol  n == intents'[i].shares
            IN \/ n = Lot
               \/ s \in Funds /\ Amount(s, n) * 100 <= Limits.single * Equity
               \/ Amount(s, n + holdings[s]) * 100 <= Limits.single * Equity]_vars
=============================================================================
