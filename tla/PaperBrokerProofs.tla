-------------------------- MODULE PaperBrokerProofs --------------------------
(***************************************************************************)
(* Proofs about PaperBroker for every set of symbols, prices and sizes,    *)
(* every rate, limit and bound: types, funding, the daily limit, T+1, the  *)
(* chains of the ledger, closes, and the replay of the ledger.             *)
(***************************************************************************)
EXTENDS PaperBroker, FiniteSetTheorems, WellFoundedInduction, TLAPS

-----------------------------------------------------------------------------
(* Arithmetic of the cost model. *)

\* Products of naturals are naturals and grow with their second factor.
LEMMA Products ==
  ASSUME NEW p \in Nat, NEW f \in Nat, NEW w \in Nat, NEW r \in Nat
  PROVE  /\ p * f * r \in Nat
         /\ f <= w => p * f * r <= p * w * r
<1>1. p * f \in Nat /\ p * w \in Nat
  BY SMT
<1>2. (p * f) * r \in Nat
  BY <1>1, SMT
<1>3. ASSUME f <= w PROVE p * f * r <= p * w * r
  <2>1. p * f <= p * w
    <3> PICK d \in Nat : w = f + d
      BY <1>3, SMT
    <3>1. p * w = p * f + p * d /\ p * d \in Nat
      BY SMT
    <3> QED
      BY <3>1, <1>1, SMT
  <2> PICK d \in Nat : p * w = p * f + d
    BY <2>1, <1>1, SMT
  <2>2. (p * w) * r = (p * f) * r + d * r /\ d * r \in Nat
    BY <1>1, SMT
  <2> QED
    BY <2>2, <1>2, SMT
<1> QED
  BY <1>2, <1>3

\* round(commission, 2) returns money and adds at most half a cent.
LEMMA RoundedBound ==
  ASSUME NEW x \in Nat
  PROVE  /\ Rounded(x) \in Nat
         /\ 2 * Rounded(x) <= 2 * x + Rates.cent
<1> DEFINE c == Rates.cent
           q == (2 * x + c) \div (2 * c)
<1>1. c \in Nat /\ c > 0
  BY ConstantsAssumption, SMT
<1>2. 2 * x + c \in Nat /\ 2 * c \in Nat /\ 2 * c > 0
  BY <1>1, SMT
<1> HIDE DEF c
<1>3. q \in Nat /\ q * (2 * c) <= 2 * x + c
  <2> DEFINE a == 2 * x + c
             b == 2 * c
  <2>1. a \in Nat /\ b \in Nat /\ b > 0
    BY <1>2
  <2> HIDE DEF a, b
  <2>2. (a \div b) \in Nat /\ (a \div b) * b <= a
    BY <2>1, SMT
  <2> QED
    BY <2>2 DEF a, b
<1> HIDE DEF q
<1>4. q * c \in Nat /\ 2 * (q * c) = q * (2 * c)
  BY <1>1, <1>3, SMT
<1> QED
  BY <1>3, <1>4, SMT DEF Rounded, q, c

\* An order and the fee of a buy cost money, and a part costs no more than
\* the whole.
LEMMA Costs ==
  ASSUME NEW p \in Nat, NEW f \in Nat, NEW w \in Nat, NEW side \in Sides
  PROVE  /\ Amount(p, f) \in Nat
         /\ Stamp(side, p, f) \in Nat
         /\ CalcCost(side, p, f) \in Nat
         /\ f <= w => /\ Amount(p, f) <= Amount(p, w)
                      /\ CalcCost("buy", p, f) <= CalcCost("buy", p, w)
<1>1. /\ Rates.base \in Nat /\ Rates.commission \in Nat /\ Rates.transfer \in Nat
      /\ Rates.stamp \in Nat /\ Rates.min \in Nat
  BY ConstantsAssumption
<1>2. Amount(p, f) \in Nat /\ (f <= w => Amount(p, f) <= Amount(p, w))
  BY <1>1, Products DEF Amount
<1>3. Stamp(side, p, f) \in Nat
  BY <1>1, Products DEF Stamp
<1> DEFINE com(n) == p * n * Rates.commission
           tra(n) == p * n * Rates.transfer
<1>4. /\ com(f) \in Nat /\ tra(f) \in Nat /\ com(w) \in Nat /\ tra(w) \in Nat
      /\ f <= w => com(f) <= com(w) /\ tra(f) <= tra(w)
  BY <1>1, Products
<1>5. Stamp("buy", p, f) = 0 /\ Stamp("buy", p, w) = 0
  BY DEF Stamp
<1> HIDE DEF com, tra
<1>6. CalcCost(side, p, f) = Larger(com(f), Rates.min) + tra(f) + Stamp(side, p, f)
  BY DEF CalcCost, com, tra
<1>7. CalcCost("buy", p, f) = Larger(com(f), Rates.min) + tra(f) + 0
  BY <1>5 DEF CalcCost, com, tra
<1>8. CalcCost("buy", p, w) = Larger(com(w), Rates.min) + tra(w) + 0
  BY <1>5 DEF CalcCost, com, tra
<1>9. CalcCost(side, p, f) \in Nat
  BY <1>1, <1>3, <1>4, <1>6, SMT DEF Larger
<1>10. f <= w => CalcCost("buy", p, f) <= CalcCost("buy", p, w)
  BY <1>1, <1>4, <1>7, <1>8, SMT DEF Larger
<1> QED
  BY <1>2, <1>3, <1>9, <1>10

\* The matcher fills at most what was asked for.
LEMMA FillsBound ==
  ASSUME NEW side, NEW s, NEW p, NEW v \in Nat \ {0}, NEW f \in Fills(side, s, p, v)
  PROVE  f \in 0..v
<1> DEFINE part == (v * PartialPct) \div 100
<1>1. PartialPct \in Nat /\ PartialPct <= 100
  BY ConstantsAssumption
<1>2. part \in Nat /\ part <= v
  <2> DEFINE a == v * PartialPct
  <2>1. a \in Nat /\ a <= v * 100
    <3> PICK d \in Nat : 100 = PartialPct + d
      BY <1>1, SMT
    <3>1. v * 100 = v * PartialPct + v * d /\ v * d \in Nat /\ v * PartialPct \in Nat
      BY <1>1, SMT
    <3> QED
      BY <3>1, SMT
  <2> HIDE DEF a
  <2>2. (a \div 100) \in Nat /\ a \div 100 <= v
    BY <2>1, SMT
  <2> QED
    BY <2>2 DEF a
<1> HIDE DEF part
<1>3. f \in {v, Larger(1, part)} \cup {0}
  BY DEF Fills, part
<1> QED
  BY <1>2, <1>3, SMT DEF Larger

\* The fee of a filled order is money.
LEMMA Fee ==
  ASSUME NEW p \in Nat, NEW f \in Nat, NEW side \in Sides
  PROVE  Rounded(CalcCost(side, p, f)) \in Nat
BY Costs, RoundedBound

-----------------------------------------------------------------------------
(* What the steps do to the orders and the ledger. *)

\* The outcome of a match.
Outcome(v, f) == IF f = 0 THEN "rejected" ELSE IF f >= v THEN "filled"
                                                       ELSE "partial_filled"

\* An active order has shares left to fill.
CanFill(o) == o.state \in Active => o.filled < o.volume

\* Placing an order adds one order and two events, linked to each other.
LEMMA PlaceEffect ==
  ASSUME TypeOK, NEW s \in Symbols, NEW side \in Sides, NEW p \in Nat,
         NEW v \in Nat, NEW f \in 0..v, Place(s, side, p, v, f)
  PROVE  /\ counter' = counter + 1
         /\ DOMAIN book' = DOMAIN book \cup {counter'}
         /\ counter' \notin DOMAIN book
         /\ book'[counter'] \in Orders
         /\ book'[counter'].side = side
         /\ book'[counter'].state \in Transitions("pending")
         /\ CanFill(book'[counter'])
         /\ \A i \in DOMAIN book : book'[i] = book[i]
         /\ \E a \in Events, b \in Events :
              /\ ledger' = ledger \o <<a, b>>
              /\ a.order = counter' /\ a.from = "pending" /\ a.to = "pending"
              /\ a.parent = 0
              /\ b.order = counter' /\ b.from = "pending" /\ b.to = book'[counter'].state
              /\ b.parent = Len(ledger) + 1
<1> DEFINE id == counter + 1
           fee == IF f = 0 THEN 0 ELSE Rounded(CalcCost(side, p, f))
           created == Event(id, "pending", "pending", 0, side, s, 0, p, 0)
           outcome == Event(id, "pending", Outcome(v, f), Len(ledger) + 1,
                            side, s, f, p, fee)
           order == [symbol |-> s, side |-> side, price |-> p, volume |-> v,
                     filled |-> f, state |-> Outcome(v, f)]
<1>1. /\ counter' = id
      /\ book' = [i \in DOMAIN book \cup {id} |-> IF i = id THEN order ELSE book[i]]
      /\ ledger' = ledger \o <<created, outcome>>
  BY Zenon DEF Place, Outcome
<1>2. counter \in Nat /\ DOMAIN book \subseteq 1..counter /\ ledger \in Seq(Events)
  BY DEF TypeOK
<1>3. id \in Nat /\ id \notin DOMAIN book
  BY <1>2, SMT
<1>4. fee \in Nat /\ f \in Nat
  BY Fee, SMT
<1>5. /\ Outcome(v, f) \in States /\ "pending" \in States
      /\ Outcome(v, f) \in Transitions("pending")
  BY DEF Outcome, States, Active, Transitions
<1>6. Len(ledger) + 1 \in Nat
  BY <1>2, SMT
<1> HIDE DEF fee, id
<1>7. created \in Events
  BY <1>3, <1>5, SMT DEF Events, Event
<1>8. outcome \in Events
  BY <1>3, <1>4, <1>5, <1>6, SMT DEF Events, Event
<1>10. order \in Orders
  BY <1>4, <1>5, SMT DEF Orders
<1>11. /\ DOMAIN book' = DOMAIN book \cup {id}
       /\ book'[id] = order
       /\ \A i \in DOMAIN book : book'[i] = book[i]
  BY <1>1, <1>3, Zenon
<1>12. order.side = side /\ order.state = Outcome(v, f)
  BY SMT
<1>n. CanFill(order)
  BY SMT DEF CanFill, Outcome, Active
<1>13. /\ created.order = id /\ created.from = "pending" /\ created.to = "pending"
       /\ created.parent = 0
  BY SMT DEF Event
<1>14. /\ outcome.order = id /\ outcome.from = "pending"
       /\ outcome.to = Outcome(v, f) /\ outcome.parent = Len(ledger) + 1
  BY SMT DEF Event
<1> HIDE DEF created, outcome, order
<1>15. counter' = counter + 1
  BY <1>1 DEF id
<1> QED
  BY <1>1, <1>3, <1>5, <1>n, <1>7, <1>8, <1>10, <1>11, <1>12, <1>13, <1>14, <1>15, Zenon

\* Moving an order changes its state alone and appends the event that says so.
LEMMA MoveEffect ==
  ASSUME TypeOK, NEW id \in DOMAIN book, NEW to \in States, Transition(id, to)
  PROVE  \/ UNCHANGED <<book, ledger>>
         \/ /\ to \in Transitions(book[id].state)
            /\ DOMAIN book' = DOMAIN book
            /\ book'[id] \in Orders
            /\ book'[id].state = to
            /\ \A i \in DOMAIN book : i # id => book'[i] = book[i]
            /\ \E e \in Events :
                 /\ ledger' = Append(ledger, e)
                 /\ e.order = id /\ e.from = book[id].state /\ e.to = to
                 /\ e.parent \in 0..Len(ledger)
                 /\ IsLastEvent(id, e.parent)
<1> SUFFICES ASSUME to \in Transitions(book[id].state)
             PROVE  /\ DOMAIN book' = DOMAIN book
                    /\ book'[id] \in Orders
                    /\ book'[id].state = to
                    /\ \A i \in DOMAIN book : i # id => book'[i] = book[i]
                    /\ \E e \in Events :
                         /\ ledger' = Append(ledger, e)
                         /\ e.order = id /\ e.from = book[id].state /\ e.to = to
                         /\ e.parent \in 0..Len(ledger)
                         /\ IsLastEvent(id, e.parent)
  BY Zenon DEF Transition
<1>1. book' = [book EXCEPT ![id].state = to]
  BY Zenon DEF Transition
<1>2. PICK last \in 0..Len(ledger) :
         /\ IsLastEvent(id, last)
         /\ ledger' = Append(ledger, Event(id, book[id].state, to, last,
                                          "none", book[id].symbol, 0, 0, 0))
  BY Zenon DEF Transition
<1>3. /\ counter \in Nat /\ DOMAIN book \subseteq 1..counter /\ book[id] \in Orders
      /\ ledger \in Seq(Events)
  BY DEF TypeOK
<1>4. /\ DOMAIN book' = DOMAIN book
      /\ book'[id] = [book[id] EXCEPT !.state = to]
      /\ \A i \in DOMAIN book : i # id => book'[i] = book[i]
  BY <1>1, Zenon
<1>5. book'[id] \in Orders /\ book'[id].state = to
  BY <1>3, <1>4, SMT DEF Orders
<1> DEFINE e == Event(id, book[id].state, to, last, "none", book[id].symbol, 0, 0, 0)
<1>6. /\ book[id].symbol \in Symbols /\ book[id].state \in States
      /\ id \in Nat /\ last \in Nat
  BY <1>3, SMT DEF Orders
<1>7. e = [order |-> id, from |-> book[id].state, to |-> to, parent |-> last,
           side |-> "none", symbol |-> book[id].symbol, shares |-> 0, price |-> 0,
           fee |-> 0]
  BY DEF Event
<1>8. e \in Events
  BY <1>6, <1>7, SMT DEF Events
<1>9. e.order = id /\ e.from = book[id].state /\ e.to = to /\ e.parent = last
  BY <1>7, SMT
<1> HIDE DEF e
<1>10. ledger' = Append(ledger, e)
  BY <1>2 DEF e
<1> QED
  BY <1>2, <1>4, <1>5, <1>8, <1>9, <1>10, Zenon

-----------------------------------------------------------------------------
(* Type correctness. *)

\* The orders and the ledger keep their shapes when an order is placed ...
LEMMA PlaceTypes ==
  ASSUME TypeOK, NEW s \in Symbols, NEW side \in Sides, NEW p \in Nat,
         NEW v \in Nat, NEW f \in 0..v, Place(s, side, p, v, f)
  PROVE  /\ counter' \in Nat
         /\ DOMAIN book' \subseteq 1..counter'
         /\ \A id \in DOMAIN book' : book'[id] \in Orders
         /\ ledger' \in Seq(Events)
<1>1. /\ counter' = counter + 1
      /\ DOMAIN book' = DOMAIN book \cup {counter'}
      /\ book'[counter'] \in Orders
      /\ \A i \in DOMAIN book : book'[i] = book[i]
  BY PlaceEffect
<1>2. PICK a \in Events, b \in Events : ledger' = ledger \o <<a, b>>
  BY PlaceEffect, Zenon
<1>3. /\ counter \in Nat /\ DOMAIN book \subseteq 1..counter
      /\ \A id \in DOMAIN book : book[id] \in Orders
      /\ ledger \in Seq(Events)
  BY DEF TypeOK
<1>4. counter' \in Nat /\ DOMAIN book' \subseteq 1..counter'
  BY <1>1, <1>3, SMT
<1>5. \A id \in DOMAIN book' : book'[id] \in Orders
  BY <1>1, <1>3, Zenon
<1>6. <<a, b>> \in Seq(Events)
  BY SMT
<1>7. ledger' \in Seq(Events)
  BY <1>2, <1>3, <1>6, SMT
<1> QED
  BY <1>4, <1>5, <1>7

\* ... and when one is cancelled or expires.
LEMMA MoveTypes ==
  ASSUME TypeOK, NEW id \in DOMAIN book, NEW to \in States, Transition(id, to),
         counter' = counter
  PROVE  /\ counter' \in Nat
         /\ DOMAIN book' \subseteq 1..counter'
         /\ \A i \in DOMAIN book' : book'[i] \in Orders
         /\ ledger' \in Seq(Events)
<1>1. /\ counter \in Nat /\ DOMAIN book \subseteq 1..counter
      /\ \A i \in DOMAIN book : book[i] \in Orders
      /\ ledger \in Seq(Events)
  BY DEF TypeOK
<1>2. CASE UNCHANGED <<book, ledger>>
  BY <1>1, <1>2
<1>3. CASE ~UNCHANGED <<book, ledger>>
  <2>1. /\ DOMAIN book' = DOMAIN book
        /\ book'[id] \in Orders
        /\ \A i \in DOMAIN book : i # id => book'[i] = book[i]
    BY <1>3, MoveEffect
  <2>2. PICK e \in Events : ledger' = Append(ledger, e)
    BY <1>3, MoveEffect, Zenon
  <2>3. ledger' \in Seq(Events)
    BY <1>1, <2>2, SMT
  <2>4. \A i \in DOMAIN book' : book'[i] \in Orders
    BY <1>1, <2>1, Zenon
  <2> QED
    BY <1>1, <2>1, <2>3, <2>4
<1> QED
  BY <1>2, <1>3

\* The average cost stays a fraction of naturals.
LEMMA Average ==
  ASSUME NEW n \in Nat, NEW v \in Nat, NEW c \in Nat, NEW d \in Nat \ {0},
         NEW f \in Nat \ {0}
  PROVE  /\ n * v + c * d \in Nat
         /\ d * (v + f) \in Nat \ {0}
<1>1. n * v \in Nat /\ c * d \in Nat
  BY SMT
<1>2. PICK e \in Nat : v + f = e + 1
  BY SMT
<1>3. d * (e + 1) = d * e + d /\ d * e \in Nat
  BY SMT
<1> QED
  BY <1>1, <1>2, <1>3, SMT

\* A filled buy takes its cost from the cash and adds its shares to the
\* position and to today's buys.
LEMMA BoughtEffect ==
  ASSUME TypeOK, NEW s \in Symbols, NEW p \in Nat, NEW f \in Nat \ {0},
         Bought(s, p, f)
  PROVE  /\ cash' = cash - (Amount(p, f) + Rounded(CalcCost("buy", p, f)))
         /\ cash' \in Int
         /\ pos' \in [Symbols -> Positions]
         /\ todayBuys' \in [Symbols -> Nat]
         /\ bought' \in [Symbols -> Nat]
         /\ \A t \in Symbols \ {s} : /\ pos'[t] = pos[t]
                                     /\ todayBuys'[t] = todayBuys[t]
                                     /\ bought'[t] = bought[t]
         /\ pos'[s].volume = pos[s].volume + f
         /\ todayBuys'[s] = todayBuys[s] + f
         /\ bought' = [bought EXCEPT ![s] = @ + f]
         /\ bought'[s] = bought[s] + f
         /\ count' = OrdersToday + 1
         /\ buys' = buys + 1
<1> DEFINE cost == Amount(p, f) + Rounded(CalcCost("buy", p, f))
           old  == pos[s]
           new  == [volume |-> old.volume + f,
                    num    |-> old.num * old.volume + cost * old.den,
                    den    |-> old.den * (old.volume + f),
                    price  |-> p]
<1>1. /\ cash' = cash - cost
      /\ pos' = [pos EXCEPT ![s] = new]
      /\ todayBuys' = [todayBuys EXCEPT ![s] = @ + f]
      /\ bought' = [bought EXCEPT ![s] = @ + f]
      /\ count' = OrdersToday + 1
      /\ buys' = buys + 1
  BY Zenon DEF Bought
<1>2. /\ cash \in Int /\ pos \in [Symbols -> Positions]
      /\ todayBuys \in [Symbols -> Nat] /\ bought \in [Symbols -> Nat]
  BY DEF TypeOK
<1>3. cost \in Nat
  <2>1. Amount(p, f) \in Nat
    BY Costs DEF Sides
  <2>2. Rounded(CalcCost("buy", p, f)) \in Nat
    BY Fee DEF Sides
  <2> QED
    BY <2>1, <2>2, SMT
<1>4. cash' = cash - (Amount(p, f) + Rounded(CalcCost("buy", p, f)))
  BY <1>1
<1> HIDE DEF cost
<1>5. cash' \in Int
  BY <1>1, <1>2, <1>3, SMT
<1>6. /\ old.volume \in Nat /\ old.num \in Nat /\ old.den \in Nat \ {0}
  BY <1>2, SMT DEF Positions
<1> HIDE DEF old
<1>7. /\ old.num * old.volume + cost * old.den \in Nat
      /\ old.den * (old.volume + f) \in Nat \ {0}
  BY <1>3, <1>6, Average
<1>8. new \in Positions /\ new.volume = old.volume + f
  BY <1>6, <1>7, SMT DEF Positions
<1> HIDE DEF new
<1>9. /\ pos' \in [Symbols -> Positions] /\ pos'[s] = new
      /\ \A t \in Symbols \ {s} : pos'[t] = pos[t]
  BY <1>1, <1>2, <1>8, Zenon
<1>10. /\ todayBuys' \in [Symbols -> Nat] /\ todayBuys'[s] = todayBuys[s] + f
       /\ \A t \in Symbols \ {s} : todayBuys'[t] = todayBuys[t]
  BY <1>1, <1>2, SMT
<1>11. /\ bought' \in [Symbols -> Nat] /\ bought'[s] = bought[s] + f
       /\ \A t \in Symbols \ {s} : bought'[t] = bought[t]
  BY <1>1, <1>2, SMT
<1>12. pos'[s].volume = pos[s].volume + f
  BY <1>8, <1>9 DEF old
<1> QED
  BY <1>1, <1>4, <1>5, <1>9, <1>10, <1>11, <1>12

\* A filled sell of no more than the position takes its shares from it.
LEMMA SoldEffect ==
  ASSUME TypeOK, NEW s \in Symbols, NEW p \in Nat, NEW f \in Nat,
         f <= pos[s].volume, Sold(s, p, f)
  PROVE  /\ cash' \in Int
         /\ pos' \in [Symbols -> Positions]
         /\ \A t \in Symbols \ {s} : pos'[t] = pos[t]
         /\ pos'[s].volume = pos[s].volume - f
         /\ count' = count + 1
<1> DEFINE new == [pos[s] EXCEPT !.volume = @ - f]
<1>1. /\ cash' = cash + Amount(p, f) - Rounded(CalcCost("sell", p, f)) - Stamp("sell", p, f)
      /\ pos' = [pos EXCEPT ![s] = new]
      /\ count' = count + 1
  BY Zenon DEF Sold
<1>2. cash \in Int /\ pos \in [Symbols -> Positions]
  BY DEF TypeOK
<1>3. /\ Amount(p, f) \in Nat /\ Stamp("sell", p, f) \in Nat
      /\ Rounded(CalcCost("sell", p, f)) \in Nat
  BY Costs, Fee DEF Sides
<1>4. cash' \in Int
  BY <1>1, <1>2, <1>3, SMT
<1>5. new \in Positions /\ new.volume = pos[s].volume - f
  BY <1>2, SMT DEF Positions
<1> HIDE DEF new
<1>6. /\ pos' \in [Symbols -> Positions] /\ pos'[s] = new
      /\ \A t \in Symbols \ {s} : pos'[t] = pos[t]
  BY <1>1, <1>2, <1>5, Zenon
<1> QED
  BY <1>1, <1>4, <1>5, <1>6

\* What a buy that is not refused places and fills.
LEMMA BuyCases ==
  ASSUME NEW s \in Symbols, NEW p \in Prices, NEW v \in Volumes, SubmitBuy(s, p, v)
  PROVE  \E w \in Affordable(p, v), f \in Nat :
           /\ w \in Nat \ {0} /\ f \in 0..w
           /\ Place(s, "buy", p, w, f)
           /\ \/ f \in Nat \ {0} /\ Bought(s, p, f)
              \/ /\ f = 0 /\ count' = OrdersToday
                 /\ UNCHANGED <<cash, pos, todayBuys, peak, bought, buys>>
<1>1. PICK w \in Affordable(p, v) :
        \E f \in Fills("buy", s, p, w) :
             /\ Place(s, "buy", p, w, f)
             /\ IF f > 0
                THEN Bought(s, p, f)
                ELSE /\ count' = OrdersToday
                     /\ UNCHANGED <<cash, pos, todayBuys, peak, bought, buys>>
  BY Zenon DEF SubmitBuy
<1>2. w \in 1..v /\ v \in Nat
  BY ConstantsAssumption DEF Affordable
<1>3. w \in Nat \ {0}
  BY <1>2, SMT
<1>4. PICK f \in Fills("buy", s, p, w) :
             /\ Place(s, "buy", p, w, f)
             /\ IF f > 0
                THEN Bought(s, p, f)
                ELSE /\ count' = OrdersToday
                     /\ UNCHANGED <<cash, pos, todayBuys, peak, bought, buys>>
  BY <1>1
<1>5. f \in 0..w
  BY <1>3, FillsBound
<1>6. f \in Nat /\ (f > 0 => f \in Nat \ {0}) /\ (~(f > 0) => f = 0)
  BY <1>3, <1>5, SMT
<1> QED
  BY <1>3, <1>4, <1>5, <1>6, Zenon

\* What a sell places and fills: no more than the shares that are not today's.
LEMMA SellCases ==
  ASSUME TypeOK, NEW s \in Symbols, NEW p \in Prices, NEW v \in Volumes,
         SubmitSell(s, p, v)
  PROVE  \E w \in Nat \ {0}, f \in Nat :
           /\ f \in 0..w /\ w <= pos[s].volume - todayBuys[s]
           /\ Place(s, "sell", p, w, f)
           /\ \/ f # 0 /\ Sold(s, p, f)
              \/ f = 0 /\ UNCHANGED <<cash, pos, count, peak>>
<1> DEFINE w == Smaller(v, Sellable(s))
<1>1. /\ Sellable(s) > 0
      /\ \E f \in Fills("sell", s, p, w) :
           /\ Place(s, "sell", p, w, f)
           /\ IF f > 0 THEN Sold(s, p, f) ELSE UNCHANGED <<cash, pos, count, peak>>
  BY Zenon DEF SubmitSell
<1>2. /\ v \in Nat \ {0} /\ pos[s].volume \in Nat /\ todayBuys[s] \in Nat
  BY ConstantsAssumption DEF TypeOK, Positions
<1>3. w \in Nat \ {0} /\ w <= pos[s].volume - todayBuys[s]
  BY <1>1, <1>2, SMT DEF Smaller, Larger, Sellable
<1> HIDE DEF w
<1>4. PICK f \in Fills("sell", s, p, w) :
           /\ Place(s, "sell", p, w, f)
           /\ IF f > 0 THEN Sold(s, p, f) ELSE UNCHANGED <<cash, pos, count, peak>>
  BY <1>1
<1>5. f \in 0..w
  BY <1>3, FillsBound
<1>6. f \in Nat /\ (f > 0 => f # 0) /\ (~(f > 0) => f = 0)
  BY <1>3, <1>5, SMT
<1> QED
  BY <1>3, <1>4, <1>5, <1>6, Zenon

\* The daily count is a number whether or not it belongs to today.
LEMMA OrdersTodayType ==
  ASSUME TypeOK
  PROVE  OrdersToday \in Nat
BY DEF TypeOK, OrdersToday

LEMMA BuyTypes ==
  ASSUME TypeOK, NEW s \in Symbols, NEW p \in Prices, NEW v \in Volumes,
         SubmitBuy(s, p, v)
  PROVE  TypeOK'
<1>1. PICK w \in Affordable(p, v), f \in Nat :
           /\ w \in Nat \ {0} /\ f \in 0..w
           /\ Place(s, "buy", p, w, f)
           /\ \/ f \in Nat \ {0} /\ Bought(s, p, f)
              \/ /\ f = 0 /\ count' = OrdersToday
                 /\ UNCHANGED <<cash, pos, todayBuys, peak, bought, buys>>
  BY BuyCases, Zenon
<1>2. p \in Nat /\ "buy" \in Sides
  BY ConstantsAssumption DEF Sides
<1>3. /\ counter' \in Nat
      /\ DOMAIN book' \subseteq 1..counter'
      /\ \A id \in DOMAIN book' : book'[id] \in Orders
      /\ ledger' \in Seq(Events)
  BY <1>1, <1>2, PlaceTypes
<1>4. counted' = TRUE /\ UNCHANGED <<quotes, phase>>
  BY DEF SubmitBuy
<1>5. /\ cash' \in Int /\ pos' \in [Symbols -> Positions]
      /\ todayBuys' \in [Symbols -> Nat] /\ bought' \in [Symbols -> Nat]
      /\ count' \in Nat /\ buys' \in Nat
  <2>1. CASE f \in Nat \ {0} /\ Bought(s, p, f)
    <3>1. /\ cash' \in Int /\ pos' \in [Symbols -> Positions]
          /\ todayBuys' \in [Symbols -> Nat] /\ bought' \in [Symbols -> Nat]
          /\ count' = OrdersToday + 1 /\ buys' = buys + 1
      BY <1>2, <2>1, BoughtEffect
    <3>2. OrdersToday \in Nat /\ buys \in Nat
      BY OrdersTodayType DEF TypeOK
    <3> QED
      BY <3>1, <3>2, SMT
  <2>2. CASE f = 0 /\ count' = OrdersToday
                   /\ UNCHANGED <<cash, pos, todayBuys, peak, bought, buys>>
    BY <2>2, OrdersTodayType DEF TypeOK
  <2> QED
    BY <1>1, <2>1, <2>2
<1> QED
  BY <1>3, <1>4, <1>5 DEF TypeOK

LEMMA SellTypes ==
  ASSUME TypeOK, NEW s \in Symbols, NEW p \in Prices, NEW v \in Volumes,
         SubmitSell(s, p, v)
  PROVE  TypeOK'
<1>1. PICK w \in Nat \ {0}, f \in Nat :
           /\ f \in 0..w /\ w <= pos[s].volume - todayBuys[s]
           /\ Place(s, "sell", p, w, f)
           /\ \/ f # 0 /\ Sold(s, p, f)
              \/ f = 0 /\ UNCHANGED <<cash, pos, count, peak>>
  BY SellCases, Zenon
<1>2. p \in Nat /\ "sell" \in Sides
  BY ConstantsAssumption DEF Sides
<1>3. /\ counter' \in Nat
      /\ DOMAIN book' \subseteq 1..counter'
      /\ \A id \in DOMAIN book' : book'[id] \in Orders
      /\ ledger' \in Seq(Events)
  BY <1>1, <1>2, PlaceTypes
<1>4. UNCHANGED <<todayBuys, quotes, counted, phase, history>>
  BY DEF SubmitSell
<1>5. cash' \in Int /\ pos' \in [Symbols -> Positions] /\ count' \in Nat
  <2>1. CASE f # 0 /\ Sold(s, p, f)
    <3>1. pos[s].volume \in Nat /\ todayBuys[s] \in Nat /\ count \in Nat
      BY DEF TypeOK, Positions
    <3>2. f <= pos[s].volume
      BY <1>1, <3>1, SMT
    <3>3. /\ cash' \in Int /\ pos' \in [Symbols -> Positions]
          /\ count' = count + 1
      BY <1>2, <2>1, <3>2, SoldEffect
    <3> QED
      BY <3>1, <3>3, SMT
  <2>2. CASE f = 0 /\ UNCHANGED <<cash, pos, count, peak>>
    BY <2>2 DEF TypeOK
  <2> QED
    BY <1>1, <2>1, <2>2
<1> QED
  BY <1>3, <1>4, <1>5 DEF TypeOK, history

LEMMA CloseTypes ==
  ASSUME TypeOK, FinishClose
  PROVE  TypeOK'
<1> DEFINE at(s) == IF pos[s].volume = 0 THEN NoPosition
                    ELSE IF quotes[s] > 0 THEN [pos[s] EXCEPT !.price = quotes[s]]
                    ELSE pos[s]
<1>1. /\ pos' = [s \in Symbols |-> at(s)]
      /\ todayBuys' = [s \in Symbols |-> 0]
      /\ phase' = "closed"
      /\ UNCHANGED <<cash, quotes, peak, count, counted, counter, book, ledger, history>>
  BY Zenon DEF FinishClose
<1>2. \A s \in Symbols : at(s) \in Positions
  <2> SUFFICES ASSUME NEW s \in Symbols PROVE at(s) \in Positions
    OBVIOUS
  <2>1. pos[s] \in Positions /\ quotes[s] \in Nat
    BY DEF TypeOK
  <2>2. NoPosition \in Positions
    BY SMT DEF NoPosition, Positions
  <2>3. [pos[s] EXCEPT !.price = quotes[s]] \in Positions
    BY <2>1, SMT DEF Positions
  <2> QED
    BY <2>1, <2>2, <2>3, Zenon
<1> HIDE DEF at
<1>3. pos' \in [Symbols -> Positions]
  BY <1>1, <1>2, Zenon
<1> QED
  BY <1>1, <1>3 DEF TypeOK, history

LEMMA RestartTypes ==
  ASSUME TypeOK, Restart
  PROVE  TypeOK'
<1>1. \A s \in Symbols : pos[s] \in Positions
  BY DEF TypeOK
<1>2. NoPosition \in Positions
  BY SMT DEF NoPosition, Positions
<1>3. pos' \in [Symbols -> Positions]
  BY <1>1, <1>2, Zenon DEF Restart
<1>4. DOMAIN book' = {}
  BY SMT DEF Restart
<1> QED
  BY <1>3, <1>4 DEF Restart, TypeOK, history

\* Every step keeps the shapes.
LEMMA TypeStep ==
  ASSUME TypeOK, [Next]_vars
  PROVE  TypeOK'
<1>1. ASSUME NEW s \in Symbols, NEW p \in Prices, SetPrice(s, p)
      PROVE  TypeOK'
  <2> DEFINE quoted == [pos[s] EXCEPT !.price = p]
  <2>1. /\ p \in Nat /\ pos \in [Symbols -> Positions] /\ quotes \in [Symbols -> Nat]
    BY ConstantsAssumption DEF TypeOK
  <2>2. quoted \in Positions
    BY <2>1, SMT DEF Positions
  <2>3. pos' = pos \/ pos' = [pos EXCEPT ![s] = quoted]
    BY <1>1, Zenon DEF SetPrice
  <2> HIDE DEF quoted
  <2>4. pos' \in [Symbols -> Positions]
    BY <2>1, <2>2, <2>3, Zenon
  <2>5. quotes' \in [Symbols -> Nat]
    BY <1>1, <2>1, Zenon DEF SetPrice
  <2> QED
    BY <1>1, <2>4, <2>5 DEF SetPrice, TypeOK, history
<1>2. ASSUME NEW s \in Symbols, NEW p \in Prices, NEW v \in Volumes, RefuseBuy(s, p, v)
      PROVE  TypeOK'
  BY <1>2, OrdersTodayType DEF RefuseBuy, TypeOK, history
<1>3. ASSUME NEW id \in DOMAIN book, CancelOrder(id)
      PROVE  TypeOK'
  <2>1. Transition(id, "cancelled") /\ "cancelled" \in States /\ counter' = counter
    BY <1>3 DEF CancelOrder, States
  <2>2. /\ DOMAIN book' \subseteq 1..counter'
        /\ \A i \in DOMAIN book' : book'[i] \in Orders
        /\ ledger' \in Seq(Events)
    BY <2>1, MoveTypes
  <2> QED
    BY <1>3, <2>2 DEF CancelOrder, TypeOK, history
<1>4. ASSUME NEW id \in DOMAIN book, ExpireOrder(id)
      PROVE  TypeOK'
  <2>1. Transition(id, "expired") /\ "expired" \in States /\ counter' = counter
    BY <1>4 DEF ExpireOrder, States
  <2>2. /\ DOMAIN book' \subseteq 1..counter'
        /\ \A i \in DOMAIN book' : book'[i] \in Orders
        /\ ledger' \in Seq(Events)
    BY <2>1, MoveTypes
  <2> QED
    BY <1>4, <2>2 DEF ExpireOrder, TypeOK, history
<1>5. CASE BeginClose
  BY <1>5 DEF BeginClose, TypeOK, history
<1>6. CASE NewDay
  <2>1. bought' \in [Symbols -> Nat]
    BY <1>6 DEF NewDay
  <2> QED
    BY <1>6, <2>1 DEF NewDay, TypeOK
<1>7. CASE UNCHANGED vars
  BY <1>7 DEF vars, memory, history, TypeOK
<1> QED
  BY <1>1, <1>2, BuyTypes, SellTypes, <1>3, <1>4, <1>5, CloseTypes, RestartTypes,
     <1>6, <1>7, Zenon DEF Next, Submit, OrderStep

LEMMA InitTypes == Init => TypeOK
<1> SUFFICES ASSUME Init PROVE TypeOK
  OBVIOUS
<1>1. NoPosition \in Positions /\ InitialCash \in Int
  BY ConstantsAssumption, SMT DEF NoPosition, Positions
<1>2. pos \in [Symbols -> Positions]
  BY <1>1 DEF Init
<1>3. DOMAIN book = {} /\ ledger \in Seq(Events)
  BY SMT DEF Init
<1> QED
  BY <1>1, <1>2, <1>3 DEF Init, TypeOK

\* No sequence of orders, closes, restarts and days makes a position, today's
\* buys or the daily count negative, and orders, events and ids stay well formed.
THEOREM TypeCorrect == Spec => []TypeOK
<1>1. TypeOK /\ [Next]_vars => TypeOK'
  BY TypeStep
<1> QED
  BY InitTypes, <1>1, PTL DEF Spec

-----------------------------------------------------------------------------
(* Buys are paid for. *)

\* The action of BuysAreFunded.
Funded == \A id \in DOMAIN book' \ DOMAIN book :
            book'[id].side = "buy" => 2 * cash' >= -Rates.cent

\* The exact cost of the whole order is in the account; a part costs no more,
\* and rounding its fee adds at most half a cent.
LEMMA BuyIsFunded ==
  ASSUME TypeOK, NEW s \in Symbols, NEW p \in Prices, NEW v \in Volumes,
         SubmitBuy(s, p, v)
  PROVE  2 * cash' >= -Rates.cent
<1>1. PICK w \in Affordable(p, v), f \in Nat :
           /\ w \in Nat \ {0} /\ f \in 0..w
           /\ Place(s, "buy", p, w, f)
           /\ \/ f \in Nat \ {0} /\ Bought(s, p, f)
              \/ /\ f = 0 /\ count' = OrdersToday
                 /\ UNCHANGED <<cash, pos, todayBuys, peak, bought, buys>>
  BY BuyCases, Zenon
<1> DEFINE whole == CalcCost("buy", p, w)
           part  == CalcCost("buy", p, f)
           fee   == Rounded(part)
           c     == Rates.cent
<1>2. p \in Nat /\ c \in Nat /\ cash \in Int
  BY ConstantsAssumption DEF TypeOK
<1>3. Amount(p, w) + whole <= cash
  BY DEF Affordable
<1>4. f <= w /\ f \in Nat /\ w \in Nat
  BY <1>1, SMT
<1>5. /\ Amount(p, f) \in Nat /\ Amount(p, w) \in Nat /\ part \in Nat /\ whole \in Nat
      /\ Amount(p, f) <= Amount(p, w) /\ part <= whole
  BY <1>2, <1>4, Costs DEF Sides
<1> HIDE DEF part, whole
<1>6. fee \in Nat /\ 2 * fee <= 2 * part + c
  BY <1>5, RoundedBound
<1> HIDE DEF fee, c
<1>7. CASE f \in Nat \ {0} /\ Bought(s, p, f)
  <2>1. cash' = cash - (Amount(p, f) + fee)
    BY <1>2, <1>7, BoughtEffect DEF fee, part
  <2>2. 2 * cash' >= -c
    BY <2>1, <1>2, <1>3, <1>5, <1>6, SMT
  <2> QED
    BY <2>2 DEF c
<1>8. CASE cash' = cash
  <2>1. 2 * cash' >= -c
    BY <1>8, <1>2, <1>3, <1>5, SMT
  <2> QED
    BY <2>1 DEF c
<1> QED
  BY <1>1, <1>7, <1>8

LEMMA FundedStep ==
  ASSUME TypeOK, [Next]_vars
  PROVE  Funded
<1>1. ASSUME NEW s \in Symbols, NEW p \in Prices, NEW v \in Volumes, SubmitBuy(s, p, v)
      PROVE  Funded
  BY <1>1, BuyIsFunded DEF Funded
<1>2. ASSUME NEW s \in Symbols, NEW p \in Prices, NEW v \in Volumes, SubmitSell(s, p, v)
      PROVE  Funded
  <2>1. PICK w \in Nat \ {0}, f \in Nat : f \in 0..w /\ Place(s, "sell", p, w, f)
    BY <1>2, SellCases, Zenon
  <2>2. p \in Nat /\ "sell" \in Sides
    BY ConstantsAssumption DEF Sides
  <2>3. DOMAIN book' = DOMAIN book \cup {counter'} /\ book'[counter'].side = "sell"
    BY <2>1, <2>2, PlaceEffect
  <2> QED
    BY <2>3, Zenon DEF Funded
<1>3. ASSUME NEW id \in DOMAIN book, NEW to \in States, Transition(id, to)
      PROVE  Funded
  BY <1>3, MoveEffect, Zenon DEF Funded
<1>4. ASSUME DOMAIN book' = {} \/ book' = book
      PROVE  Funded
  BY <1>4, Zenon DEF Funded
<1>5. ASSUME NEW id \in DOMAIN book, OrderStep(id)
      PROVE  Funded
  BY <1>3, <1>5 DEF OrderStep, CancelOrder, ExpireOrder, States
<1>6. ASSUME Restart
      PROVE  Funded
  <2>1. DOMAIN book' = {}
    BY <1>6, SMT DEF Restart
  <2> QED
    BY <1>4, <2>1
<1>7. ASSUME NEW s \in Symbols, NEW p \in Prices, NEW v \in Volumes, RefuseBuy(s, p, v)
      PROVE  Funded
  BY <1>4, <1>7 DEF RefuseBuy
<1>8. ASSUME NEW s \in Symbols, NEW p \in Prices, SetPrice(s, p)
      PROVE  Funded
  BY <1>4, <1>8 DEF SetPrice
<1>9. ASSUME BeginClose \/ FinishClose \/ NewDay \/ UNCHANGED vars
      PROVE  Funded
  BY <1>4, <1>9 DEF BeginClose, FinishClose, NewDay, vars, memory
<1> QED
  BY <1>1, <1>2, <1>5, <1>6, <1>7, <1>8, <1>9, Zenon DEF Next, Submit

\* No buy, whole or partly filled, overdraws the account by more than half a cent.
THEOREM BuysFunded == Spec => BuysAreFunded
<1>1. TypeOK /\ [Next]_vars => Funded
  BY FundedStep
<1>2. TypeOK /\ [Next]_vars => TypeOK'
  BY TypeStep
<1>3. Spec => [][Funded]_vars
  BY InitTypes, <1>1, <1>2, PTL DEF Spec
<1> QED
  BY <1>3 DEF BuysAreFunded, Funded

-----------------------------------------------------------------------------
(* The daily limit, while the process lives. *)

\* The counter is a count of today's only once a buy was checked today; from
\* then on it is at least the number of today's filled buys.
DailyInv ==
  /\ counted => buys <= count
  /\ ~counted => buys = 0
  /\ buys <= Limits.orders

LEMMA DailyStep ==
  ASSUME ~Restarts, TypeOK, DailyInv, [Next]_vars
  PROVE  DailyInv'
<1>1. count \in Nat /\ buys \in Nat /\ counted \in BOOLEAN /\ Limits.orders \in Nat
  BY ConstantsAssumption DEF TypeOK
<1>2. OrdersToday \in Nat /\ buys <= OrdersToday
  BY <1>1, SMT DEF OrdersToday, DailyInv
<1>3. ASSUME NEW s \in Symbols, NEW p \in Prices, NEW v \in Volumes, SubmitBuy(s, p, v)
      PROVE  DailyInv'
  <2>1. PICK w \in Affordable(p, v), f \in Nat :
           \/ f \in Nat \ {0} /\ Bought(s, p, f)
           \/ f = 0 /\ count' = OrdersToday /\ buys' = buys
    BY <1>3, BuyCases, Zenon
  <2>2. OrdersToday < Limits.orders /\ counted'
    BY <1>3, Zenon DEF SubmitBuy, RiskPasses
  <2>3. p \in Nat
    BY ConstantsAssumption
  <2>4. \/ count' = OrdersToday + 1 /\ buys' = buys + 1
        \/ count' = OrdersToday /\ buys' = buys
    BY <2>1, <2>3, BoughtEffect
  <2> QED
    BY <1>1, <1>2, <2>2, <2>4, SMT DEF DailyInv
<1>4. ASSUME NEW s \in Symbols, NEW p \in Prices, NEW v \in Volumes, SubmitSell(s, p, v)
      PROVE  DailyInv'
  <2>1. count' = count \/ count' = count + 1
    BY <1>4, Zenon DEF SubmitSell, Sold
  <2>2. counted' = counted /\ buys' = buys
    BY <1>4 DEF SubmitSell, history
  <2> QED
    BY <1>1, <2>1, <2>2, SMT DEF DailyInv
<1>5. ASSUME NEW s \in Symbols, NEW p \in Prices, NEW v \in Volumes, RefuseBuy(s, p, v)
      PROVE  DailyInv'
  <2>1. count' = OrdersToday /\ counted' = TRUE /\ buys' = buys
    BY <1>5 DEF RefuseBuy, history
  <2> QED
    BY <1>2, <2>1 DEF DailyInv
<1>6. CASE NewDay
  BY <1>1, <1>6, SMT DEF NewDay, DailyInv
<1>7. CASE UNCHANGED <<count, counted, buys>>
  BY <1>7 DEF DailyInv
<1>8. ASSUME NEW s \in Symbols, NEW p \in Prices, SetPrice(s, p)
      PROVE  DailyInv'
  BY <1>7, <1>8 DEF SetPrice, history
<1>9. ASSUME NEW id \in DOMAIN book, OrderStep(id)
      PROVE  DailyInv'
  BY <1>7, <1>9 DEF OrderStep, CancelOrder, ExpireOrder, history
<1>10. CASE BeginClose \/ FinishClose \/ UNCHANGED vars
  BY <1>7, <1>10 DEF BeginClose, FinishClose, vars, memory, history
<1>11. ~Restart
  BY DEF Restart
<1> QED
  BY <1>3, <1>4, <1>5, <1>6, <1>8, <1>9, <1>10, <1>11, Zenon DEF Next, Submit

\* While the process lives, no day has more filled buys than the limit allows.
THEOREM DailyLimit ==
  ASSUME ~Restarts
  PROVE  Spec => []BuysWithinDailyLimit
<1>1. Init => DailyInv
  BY ConstantsAssumption, SMT DEF Init, DailyInv
<1>2. TypeOK /\ DailyInv /\ [Next]_vars => DailyInv'
  BY DailyStep
<1>3. DailyInv => BuysWithinDailyLimit
  BY DEF DailyInv, BuysWithinDailyLimit
<1>4. TypeOK /\ [Next]_vars => TypeOK'
  BY TypeStep
<1> QED
  BY InitTypes, <1>1, <1>2, <1>3, <1>4, PTL DEF Spec

-----------------------------------------------------------------------------
(* The T+1 rule, while the process lives: the broker implements              *)
(* SettledAccount.                                                           *)

\* Shares bought today are held, and until the close the object remembers them:
\* what it lets be sold is never more than what is settled.
SettledInv ==
  \A s \in Symbols :
    /\ bought[s] <= pos[s].volume
    /\ todayBuys[s] <= pos[s].volume
    /\ phase # "closed" => bought[s] <= todayBuys[s]

\* The refinement mapping.
settledBar == [s \in Symbols |-> pos[s].volume - bought[s]]

\* A step that leaves volumes and histories alone.
LEMMA SettledStutter ==
  ASSUME SettledInv, pos' = pos, todayBuys' = todayBuys, bought' = bought,
         phase' = phase \/ (phase' = "closing" /\ phase = "open")
  PROVE  SettledInv' /\ UNCHANGED <<settledBar, bought>>
BY DEF SettledInv, settledBar

LEMMA SettledBuy ==
  ASSUME TypeOK, SettledInv, NEW s \in Symbols, NEW p \in Prices, NEW v \in Volumes,
         SubmitBuy(s, p, v)
  PROVE  /\ SettledInv'
         /\ \/ bought'[s] > bought[s] /\ bought' = [bought EXCEPT ![s] = bought'[s]]
               /\ settledBar' = settledBar
            \/ UNCHANGED <<settledBar, bought>>
<1>1. PICK w \in Affordable(p, v), f \in Nat :
           \/ f \in Nat \ {0} /\ Bought(s, p, f)
           \/ UNCHANGED <<pos, todayBuys, bought>>
  BY BuyCases, Zenon
<1>2. phase' = phase /\ p \in Nat
  BY ConstantsAssumption DEF SubmitBuy
<1>3. CASE UNCHANGED <<pos, todayBuys, bought>>
  BY <1>2, <1>3, SettledStutter
<1>4. CASE f \in Nat \ {0} /\ Bought(s, p, f)
  <2>1. /\ pos' \in [Symbols -> Positions] /\ bought' \in [Symbols -> Nat]
        /\ \A t \in Symbols \ {s} : /\ pos'[t] = pos[t]
                                    /\ todayBuys'[t] = todayBuys[t]
                                    /\ bought'[t] = bought[t]
        /\ pos'[s].volume = pos[s].volume + f
        /\ todayBuys'[s] = todayBuys[s] + f
        /\ bought' = [bought EXCEPT ![s] = @ + f]
        /\ bought'[s] = bought[s] + f
    BY <1>2, <1>4, BoughtEffect
  <2>2. /\ pos[s].volume \in Nat /\ bought[s] \in Nat /\ todayBuys[s] \in Nat
    BY DEF TypeOK, Positions
  <2>3. ASSUME NEW t \in Symbols
        PROVE  /\ bought'[t] <= pos'[t].volume
               /\ todayBuys'[t] <= pos'[t].volume
               /\ phase' # "closed" => bought'[t] <= todayBuys'[t]
               /\ pos'[t].volume - bought'[t] = pos[t].volume - bought[t]
    <3>1. CASE t = s
      BY <1>2, <2>1, <2>2, <3>1, SMT DEF SettledInv
    <3>2. CASE t # s
      BY <1>2, <2>1, <3>2, Zenon DEF SettledInv
    <3> QED
      BY <3>1, <3>2
  <2>4. SettledInv'
    BY <2>3 DEF SettledInv
  <2>5. settledBar' = settledBar
    BY <2>3, Zenon DEF settledBar
  <2>6. bought'[s] > bought[s]
    BY <1>4, <2>1, <2>2, SMT
  <2>7. bought' = [bought EXCEPT ![s] = bought'[s]]
    BY <2>1, Zenon
  <2> QED
    BY <2>4, <2>5, <2>6, <2>7
<1> QED
  BY <1>1, <1>3, <1>4

LEMMA SettledSell ==
  ASSUME TypeOK, SettledInv, NEW s \in Symbols, NEW p \in Prices, NEW v \in Volumes,
         SubmitSell(s, p, v)
  PROVE  /\ SettledInv'
         /\ \/ /\ settledBar'[s] \in 0..(settledBar[s] - 1)
               /\ settledBar' = [settledBar EXCEPT ![s] = settledBar'[s]]
               /\ bought' = bought
            \/ UNCHANGED <<settledBar, bought>>
<1>1. PICK w \in Nat \ {0}, f \in Nat :
           /\ f \in 0..w /\ w <= pos[s].volume - todayBuys[s]
           /\ \/ f # 0 /\ Sold(s, p, f)
              \/ f = 0 /\ UNCHANGED <<cash, pos, count, peak>>
  BY SellCases, Zenon
<1>2. UNCHANGED <<phase, todayBuys, bought>> /\ p \in Nat /\ phase = "open"
  BY ConstantsAssumption DEF SubmitSell, history
<1>3. CASE pos' = pos
  BY <1>2, <1>3, SettledStutter
<1>4. CASE f # 0 /\ Sold(s, p, f)
  <2>1. /\ pos[s].volume \in Nat /\ bought[s] \in Nat /\ todayBuys[s] \in Nat
        /\ bought[s] <= todayBuys[s]
    BY <1>2 DEF TypeOK, Positions, SettledInv
  <2>2. f <= pos[s].volume - todayBuys[s]
    BY <1>1, <2>1, SMT
  <2>3. f <= pos[s].volume
    BY <2>1, <2>2, SMT
  <2>4. /\ \A t \in Symbols \ {s} : pos'[t] = pos[t]
        /\ pos'[s].volume = pos[s].volume - f
    BY <1>2, <1>4, <2>3, SoldEffect
  <2>5. /\ todayBuys[s] <= pos'[s].volume /\ bought[s] <= pos'[s].volume
        /\ pos'[s].volume - bought[s] \in 0..(pos[s].volume - bought[s] - 1)
    BY <1>4, <2>1, <2>2, <2>4, SMT
  <2>6. SettledInv'
    BY <1>2, <2>4, <2>5, Zenon DEF SettledInv
  <2>7. settledBar'[s] \in 0..(settledBar[s] - 1)
    BY <1>2, <2>5, Zenon DEF settledBar
  <2>8. settledBar' = [settledBar EXCEPT ![s] = settledBar'[s]]
    BY <1>2, <2>4, Zenon DEF settledBar
  <2> QED
    BY <1>2, <2>6, <2>7, <2>8
<1> QED
  BY <1>1, <1>3, <1>4

LEMMA SettledClose ==
  ASSUME TypeOK, SettledInv, FinishClose
  PROVE  SettledInv' /\ UNCHANGED <<settledBar, bought>>
<1> DEFINE at(s) == IF pos[s].volume = 0 THEN NoPosition
                    ELSE IF quotes[s] > 0 THEN [pos[s] EXCEPT !.price = quotes[s]]
                    ELSE pos[s]
<1>1. /\ pos' = [s \in Symbols |-> at(s)]
      /\ todayBuys' = [s \in Symbols |-> 0]
      /\ phase' = "closed" /\ bought' = bought
  BY Zenon DEF FinishClose, history
<1>2. ASSUME NEW s \in Symbols
      PROVE  at(s).volume = pos[s].volume
  <2>1. pos[s] \in Positions
    BY DEF TypeOK
  <2>2. [pos[s] EXCEPT !.price = quotes[s]].volume = pos[s].volume
    BY <2>1, SMT DEF Positions
  <2>3. NoPosition.volume = 0
    BY SMT DEF NoPosition
  <2> QED
    BY <2>2, <2>3, Zenon
<1> HIDE DEF at
<1>3. \A s \in Symbols : /\ pos'[s].volume = pos[s].volume /\ todayBuys'[s] = 0
                         /\ pos[s].volume \in Nat
  BY <1>1, <1>2 DEF TypeOK, Positions
<1>4. SettledInv'
  BY <1>1, <1>3, SMT DEF SettledInv
<1>5. settledBar' = settledBar
  BY <1>1, <1>3, Zenon DEF settledBar
<1> QED
  BY <1>1, <1>4, <1>5

LEMMA SettledNewDay ==
  ASSUME TypeOK, SettledInv, NewDay
  PROVE  /\ SettledInv'
         /\ settledBar' = [s \in Symbols |-> settledBar[s] + bought[s]]
         /\ bought' = [s \in Symbols |-> 0]
<1>1. UNCHANGED <<pos, todayBuys>> /\ bought' = [s \in Symbols |-> 0]
  BY Zenon DEF NewDay
<1>2. \A s \in Symbols : /\ pos[s].volume \in Nat /\ bought[s] \in Nat
                         /\ todayBuys[s] \in Nat /\ bought'[s] = 0
  BY <1>1 DEF TypeOK, Positions
<1>3. SettledInv'
  BY <1>1, <1>2, SMT DEF SettledInv
<1>4. \A s \in Symbols : settledBar'[s] = settledBar[s] + bought[s]
  <2> SUFFICES ASSUME NEW s \in Symbols PROVE settledBar'[s] = settledBar[s] + bought[s]
    OBVIOUS
  <2>1. settledBar[s] = pos[s].volume - bought[s]
    BY DEF settledBar
  <2>2. settledBar'[s] = pos[s].volume - 0
    BY <1>1, <1>2 DEF settledBar
  <2> QED
    BY <1>2, <2>1, <2>2, SMT
<1> QED
  BY <1>1, <1>3, <1>4, Zenon DEF settledBar

LEMMA SettledStep ==
  ASSUME ~Restarts, TypeOK, SettledInv, [Next]_vars
  PROVE  SettledInv' /\ [Settled!Next]_Settled!account
<1> USE DEF Settled!account
<1>0. ASSUME UNCHANGED <<settledBar, bought>>
      PROVE  [Settled!Next]_Settled!account
  BY <1>0, Zenon DEF settledBar
<1>1. ASSUME NEW s \in Symbols, NEW p \in Prices, NEW v \in Volumes, SubmitBuy(s, p, v)
      PROVE  SettledInv' /\ [Settled!Next]_Settled!account
  BY <1>0, <1>1, SettledBuy, Zenon DEF Settled!Next, Settled!Buy, settledBar
<1>2. ASSUME NEW s \in Symbols, NEW p \in Prices, NEW v \in Volumes, SubmitSell(s, p, v)
      PROVE  SettledInv' /\ [Settled!Next]_Settled!account
  BY <1>0, <1>2, SettledSell, Zenon DEF Settled!Next, Settled!Sell, settledBar
<1>3. CASE FinishClose
  BY <1>0, <1>3, SettledClose
<1>4. CASE NewDay
  BY <1>4, SettledNewDay, Zenon DEF Settled!Next, Settled!NextDay, settledBar
<1>5. ASSUME pos' = pos, todayBuys' = todayBuys, bought' = bought,
             phase' = phase \/ (phase' = "closing" /\ phase = "open")
      PROVE  SettledInv' /\ [Settled!Next]_Settled!account
  BY <1>0, <1>5, SettledStutter
<1>6. ASSUME NEW s \in Symbols, NEW p \in Prices, SetPrice(s, p)
      PROVE  SettledInv' /\ [Settled!Next]_Settled!account
  <2> DEFINE quoted == [pos[s] EXCEPT !.price = p]
  <2>1. pos \in [Symbols -> Positions] /\ pos[s] \in Positions
    BY DEF TypeOK
  <2>2. quoted.volume = pos[s].volume
    BY <2>1, SMT DEF Positions
  <2>3. pos' = pos \/ pos' = [pos EXCEPT ![s] = quoted]
    BY <1>6, Zenon DEF SetPrice
  <2> HIDE DEF quoted
  <2>4. \A t \in Symbols : pos'[t].volume = pos[t].volume
    BY <2>1, <2>2, <2>3, Zenon
  <2>5. UNCHANGED <<todayBuys, bought, phase>>
    BY <1>6 DEF SetPrice, history
  <2>6. SettledInv' /\ UNCHANGED <<settledBar, bought>>
    BY <2>4, <2>5, Zenon DEF SettledInv, settledBar
  <2> QED
    BY <1>0, <2>6
<1>7. ASSUME NEW s \in Symbols, NEW p \in Prices, NEW v \in Volumes, RefuseBuy(s, p, v)
      PROVE  SettledInv' /\ [Settled!Next]_Settled!account
  BY <1>5, <1>7 DEF RefuseBuy, history
<1>8. ASSUME NEW id \in DOMAIN book, OrderStep(id)
      PROVE  SettledInv' /\ [Settled!Next]_Settled!account
  <2>1. pos' = pos /\ todayBuys' = todayBuys /\ bought' = bought /\ phase' = phase
    BY <1>8 DEF OrderStep, CancelOrder, ExpireOrder, history
  <2> QED
    BY <1>5, <2>1
<1>9. CASE BeginClose \/ UNCHANGED vars
  <2>1. /\ pos' = pos /\ todayBuys' = todayBuys /\ bought' = bought
        /\ phase' = phase \/ (phase' = "closing" /\ phase = "open")
    BY <1>9 DEF BeginClose, vars, memory, history
  <2> QED
    BY <1>5, <2>1
<1>10. ~Restart
  BY DEF Restart
<1> QED
  BY <1>1, <1>2, <1>3, <1>4, <1>6, <1>7, <1>8, <1>9, <1>10, Zenon DEF Next, Submit

\* While the process lives, the broker keeps the T+1 rule: shares bought today
\* are never sold before the next trading day.
THEOREM SettledRefinement ==
  ASSUME ~Restarts
  PROVE  Spec => ImplementsSettled
<1>1. Init => TypeOK
  BY InitTypes
<1>2. Init => SettledInv
  BY SMT DEF Init, SettledInv, NoPosition
<1>3. Init => Settled!Init
  BY SMT DEF Init, Settled!Init, NoPosition
<1>4. TypeOK /\ SettledInv /\ [Next]_vars =>
        SettledInv' /\ [Settled!Next]_Settled!account
  BY SettledStep
<1>5. TypeOK /\ [Next]_vars => TypeOK'
  BY TypeStep
<1> QED
  BY <1>1, <1>2, <1>3, <1>4, <1>5, PTL DEF Spec, ImplementsSettled, Settled!Spec

-----------------------------------------------------------------------------
(* The events of an order are one chain of legal transitions.               *)

\* Besides the chains: ids of past orders, forgotten ones included, are not
\* above the counter, so a new order starts a chain of its own.
ChainsInv ==
  /\ ChainsAreLifecycles
  /\ \A i \in DOMAIN ledger : ledger[i].order \in 1..counter

\* The ledger only grows.
Grows ==
  /\ ledger \in Seq(Events) /\ ledger' \in Seq(Events)
  /\ Len(ledger) <= Len(ledger')
  /\ \A i \in 1..Len(ledger) : ledger'[i] = ledger[i]

\* Events already written keep the events before them and stay chained.
LEMMA OldEventsStay ==
  ASSUME Grows, EventsAreChained, NEW i \in DOMAIN ledger
  PROVE  /\ i \in DOMAIN ledger' /\ ledger'[i] = ledger[i]
         /\ Chained(i)'
<1>1. /\ DOMAIN ledger = 1..Len(ledger) /\ DOMAIN ledger' = 1..Len(ledger')
      /\ Len(ledger) \in Nat /\ Len(ledger') \in Nat
  BY DEF Grows
<1>2. i \in Nat /\ i <= Len(ledger) /\ i \in 1..Len(ledger)
  BY <1>1, SMT
<1>3. i \in DOMAIN ledger' /\ ledger'[i] = ledger[i]
  BY <1>1, <1>2, SMT DEF Grows
<1>4. ASSUME NEW j
      PROVE  (j \in DOMAIN ledger' /\ j < i) <=> (j \in DOMAIN ledger /\ j < i)
  BY <1>1, <1>2, SMT DEF Grows
<1>5. EarlierEvents(i)' = EarlierEvents(i)
  <2>1. ASSUME NEW j
        PROVE  j \in EarlierEvents(i)' <=> j \in EarlierEvents(i)
    <3>1. j \in DOMAIN ledger => ledger'[j] = ledger[j]
      BY <1>1 DEF Grows
    <3> QED
      BY <1>3, <1>4, <3>1, Zenon DEF EarlierEvents, EventsOf
  <2> QED
    BY <2>1, Zenon
<1>6. Chained(i)
  BY DEF EventsAreChained
<1>7. ledger[i].parent \in EarlierEvents(i) =>
        ledger'[ledger[i].parent] = ledger[ledger[i].parent]
  BY <1>1, Zenon DEF EarlierEvents, EventsOf, Grows
<1>8. Chained(i)'
  BY <1>3, <1>5, <1>6, <1>7, Zenon DEF Chained
<1> QED
  BY <1>3, <1>8

\* The events of an order are the same if every new event is of another one.
LEMMA OldOrdersStay ==
  ASSUME Grows, NEW id,
         \A i \in DOMAIN ledger' \ DOMAIN ledger : ledger'[i].order # id
  PROVE  /\ EventsOf(id)' = EventsOf(id)
         /\ \A i \in EventsOf(id) : ledger'[i] = ledger[i]
<1>1. /\ DOMAIN ledger = 1..Len(ledger)
      /\ DOMAIN ledger \subseteq DOMAIN ledger'
  BY SMT DEF Grows
<1>2. \A i \in DOMAIN ledger : ledger'[i] = ledger[i]
  BY <1>1 DEF Grows
<1> QED
  BY <1>1, <1>2, Zenon DEF EventsOf

LEMMA MoveChains ==
  ASSUME TypeOK, ChainsInv, NEW id \in DOMAIN book, NEW to \in States,
         Transition(id, to), counter' = counter
  PROVE  ChainsInv'
<1>1. CASE UNCHANGED <<book, ledger>>
  BY <1>1 DEF ChainsInv, ChainsAreLifecycles, EventsAreChained, Chained,
              EarlierEvents, EventsOf, ChainsEndInState
<1>2. CASE ~UNCHANGED <<book, ledger>>
  <2>1. /\ to \in Transitions(book[id].state)
        /\ DOMAIN book' = DOMAIN book
        /\ book'[id].state = to
        /\ \A i \in DOMAIN book : i # id => book'[i] = book[i]
    BY <1>2, MoveEffect
  <2>2. PICK e \in Events :
               /\ ledger' = Append(ledger, e)
               /\ e.order = id /\ e.from = book[id].state /\ e.to = to
               /\ e.parent \in 0..Len(ledger)
               /\ IsLastEvent(id, e.parent)
    BY <1>2, MoveEffect, Zenon
  <2>3. /\ ledger \in Seq(Events) /\ counter \in Nat /\ DOMAIN book \subseteq 1..counter
    BY DEF TypeOK
  <2>n. PICK n \in Nat : n = Len(ledger) + 1
    BY <2>3, SMT
  <2>4. /\ Grows /\ n \in Nat /\ DOMAIN ledger = 1..Len(ledger) /\ Len(ledger) \in Nat
        /\ DOMAIN ledger' = DOMAIN ledger \cup {n}
        /\ n \notin DOMAIN ledger
        /\ ledger'[n] = e
    BY <2>2, <2>3, <2>n, SMT DEF Grows
  <2>5. PICK last \in EventsOf(id) :
          (\A j \in EventsOf(id) : j <= last) /\ ledger[last].to = book[id].state
    BY Zenon DEF ChainsInv, ChainsAreLifecycles, ChainsEndInState
  <2>6. last \in 1..Len(ledger) /\ e.parent \in EventsOf(id) \cup {0}
    BY <2>2, <2>4 DEF EventsOf, IsLastEvent
  <2>7. /\ e.parent \in EventsOf(id) /\ \A j \in EventsOf(id) : j <= e.parent
        /\ e.parent = last
    <3>1. \A j \in EventsOf(id) : j <= e.parent
      BY <2>2 DEF IsLastEvent
    <3>2. e.parent >= last /\ last >= 1
      BY <2>2, <2>4, <2>6, <3>1, SMT
    <3>3. e.parent \in EventsOf(id)
      BY <2>4, <2>6, <3>2, SMT
    <3>4. e.parent <= last
      BY <2>5, <3>3
    <3> QED
      BY <2>2, <2>4, <2>6, <3>1, <3>2, <3>3, <3>4, SMT
  <2>8. \A i \in DOMAIN ledger : ledger'[i] = ledger[i] /\ Chained(i)'
    BY <2>4, OldEventsStay DEF ChainsInv, ChainsAreLifecycles
  <2>9. EarlierEvents(n)' = EventsOf(id)
    <3>1. ASSUME NEW j
          PROVE  (j \in DOMAIN ledger' /\ j < n) <=> j \in DOMAIN ledger
      BY <2>4, <2>n, SMT
    <3>2. ASSUME NEW j
          PROVE  j \in EarlierEvents(n)' <=> j \in EventsOf(id)
      BY <2>2, <2>4, <2>8, <3>1, Zenon DEF EarlierEvents, EventsOf
    <3> QED
      BY <3>2, Zenon
  <2>10. e.parent \in DOMAIN ledger /\ ledger[e.parent].to = e.from
    BY <2>2, <2>5, <2>7 DEF EventsOf
  <2>11. Chained(n)'
    BY <2>1, <2>2, <2>4, <2>7, <2>8, <2>9, <2>10, Zenon DEF Chained
  <2>12. EventsAreChained'
    BY <2>4, <2>8, <2>11, Zenon DEF EventsAreChained
  <2>13. ASSUME NEW i \in DOMAIN book'
         PROVE  \E l \in EventsOf(i)' :
                  (\A j \in EventsOf(i)' : j <= l) /\ ledger'[l].to = book'[i].state
    <3>1. CASE i = id
      <4>1. n \in EventsOf(id)'
        BY <2>2, <2>4 DEF EventsOf
      <4>2. \A j \in DOMAIN ledger' : j <= n
        BY <2>4, <2>n, SMT
      <4>3. \A j \in EventsOf(id)' : j <= n
        BY <4>2 DEF EventsOf
      <4> QED
        BY <2>1, <2>2, <2>4, <3>1, <4>1, <4>3, Zenon
    <3>2. CASE i # id
      <4>1. EventsOf(i)' = EventsOf(i) /\ \A j \in EventsOf(i) : ledger'[j] = ledger[j]
        <5>1. \A j \in DOMAIN ledger' \ DOMAIN ledger : ledger'[j].order # i
          BY <2>2, <2>4, <3>2, Zenon
        <5> QED
          BY <2>4, <5>1, OldOrdersStay
      <4>2. PICK l \in EventsOf(i) :
              (\A j \in EventsOf(i) : j <= l) /\ ledger[l].to = book[i].state
        BY <2>1, Zenon DEF ChainsInv, ChainsAreLifecycles, ChainsEndInState
      <4> QED
        BY <2>1, <3>2, <4>1, <4>2, Zenon
    <3> QED
      BY <3>1, <3>2
  <2>14. ChainsEndInState'
    BY <2>13, Zenon DEF ChainsEndInState
  <2>15. \A i \in DOMAIN ledger' : ledger'[i].order \in 1..counter'
    BY <2>2, <2>3, <2>4, <2>8, Zenon DEF ChainsInv
  <2> QED
    BY <2>12, <2>14, <2>15, Zenon DEF ChainsInv, ChainsAreLifecycles
<1> QED
  BY <1>1, <1>2

LEMMA PlaceChains ==
  ASSUME TypeOK, ChainsInv, NEW s \in Symbols, NEW side \in Sides, NEW p \in Nat,
         NEW v \in Nat, NEW f \in 0..v, Place(s, side, p, v, f)
  PROVE  ChainsInv'
<1>1. /\ counter' = counter + 1
      /\ DOMAIN book' = DOMAIN book \cup {counter'}
      /\ counter' \notin DOMAIN book
      /\ book'[counter'].state \in Transitions("pending")
      /\ \A i \in DOMAIN book : book'[i] = book[i]
  BY PlaceEffect
<1>2. PICK a \in Events, b \in Events :
              /\ ledger' = ledger \o <<a, b>>
              /\ a.order = counter' /\ a.from = "pending" /\ a.to = "pending"
              /\ a.parent = 0
              /\ b.order = counter' /\ b.from = "pending" /\ b.to = book'[counter'].state
              /\ b.parent = Len(ledger) + 1
  BY PlaceEffect, Zenon
<1>3. ledger \in Seq(Events) /\ counter \in Nat /\ DOMAIN book \subseteq 1..counter
  BY DEF TypeOK
<1>m. PICK m \in Nat, n \in Nat, new \in Nat :
        m = Len(ledger) + 1 /\ n = Len(ledger) + 2 /\ new = counter'
  BY <1>1, <1>3, SMT
<1>4. /\ Grows
      /\ DOMAIN ledger = 1..Len(ledger) /\ Len(ledger) \in Nat
      /\ DOMAIN ledger' = DOMAIN ledger \cup {m, n}
      /\ m \notin DOMAIN ledger /\ n \notin DOMAIN ledger /\ m < n /\ m \in Nat /\ n \in Nat
      /\ ledger'[m] = a /\ ledger'[n] = b
  <2>1. /\ <<a, b>> \in Seq(Events) /\ Len(<<a, b>>) = 2
        /\ <<a, b>>[1] = a /\ <<a, b>>[2] = b
    BY SMT
  <2>2. ledger' \in Seq(Events) /\ Len(ledger') = Len(ledger) + 2
    BY <1>2, <1>3, <2>1, SMT
  <2>3. \A i \in 1..Len(ledger) : ledger'[i] = ledger[i]
    BY <1>2, <1>3, <2>1, SMT
  <2>4. ledger'[m] = a /\ ledger'[n] = b
    BY <1>2, <1>3, <1>m, <2>1, SMT
  <2>5. Len(ledger) \in Nat /\ DOMAIN ledger = 1..Len(ledger)
        /\ DOMAIN ledger' = 1..(Len(ledger) + 2)
    BY <1>3, <2>2, SMT
  <2>6. Grows
    BY <1>3, <2>2, <2>3, <2>5, SMT DEF Grows
  <2> QED
    BY <1>m, <2>4, <2>5, <2>6, SMT
<1>5. b.parent = m
  BY <1>2, <1>m
<1>6. \A i \in DOMAIN ledger : i < m
  BY <1>4, <1>m, SMT
<1>7. \A i \in DOMAIN ledger : ledger'[i] = ledger[i] /\ Chained(i)'
  BY <1>4, OldEventsStay DEF ChainsInv, ChainsAreLifecycles
<1>8. \A i \in DOMAIN ledger : ledger[i].order # new /\ ledger[i].order \in 1..counter'
  BY <1>1, <1>3, <1>m, SMT DEF ChainsInv
<1>9. EarlierEvents(m)' = {} /\ EarlierEvents(n)' = {m}
  <2>1. ~(m < m) /\ ~(n < m) /\ ~(n < n)
    BY <1>4, SMT
  <2>2. ASSUME NEW j
        PROVE  (j \in EarlierEvents(m)' <=> j \in {}) /\ (j \in EarlierEvents(n)' <=> j \in {m})
    BY <1>2, <1>4, <1>m, <1>7, <1>8, <2>1, Zenon DEF EarlierEvents, EventsOf
  <2>3. EarlierEvents(m)' = {}
    BY <2>2, Zenon
  <2>4. EarlierEvents(n)' = {m}
    BY <2>2, Zenon
  <2> QED
    BY <2>3, <2>4
<1>10. Chained(m)' /\ Chained(n)'
  <2>1. Chained(m)'
    BY <1>2, <1>4, <1>9, Zenon DEF Chained
  <2>2. m <= m
    BY <1>4, SMT
  <2>3. Chained(n)'
    BY <1>1, <1>2, <1>4, <1>5, <1>9, <2>2, Zenon DEF Chained
  <2> QED
    BY <2>1, <2>3
<1>11. EventsAreChained'
  BY <1>4, <1>7, <1>10, Zenon DEF EventsAreChained
<1>12. ASSUME NEW i \in DOMAIN book'
       PROVE  \E l \in EventsOf(i)' :
                (\A j \in EventsOf(i)' : j <= l) /\ ledger'[l].to = book'[i].state
  <2>1. CASE i = new
    <3>1. n \in EventsOf(new)'
      BY <1>2, <1>4, <1>m DEF EventsOf
    <3>2. \A j \in DOMAIN ledger' : j <= n
      BY <1>4, <1>6, SMT
    <3>3. \A j \in EventsOf(new)' : j <= n
      BY <3>2 DEF EventsOf
    <3> QED
      BY <1>1, <1>2, <1>4, <1>m, <2>1, <3>1, <3>3, Zenon
  <2>2. CASE i # new
    <3>1. EventsOf(i)' = EventsOf(i) /\ \A j \in EventsOf(i) : ledger'[j] = ledger[j]
      <4>1. \A j \in DOMAIN ledger' \ DOMAIN ledger : ledger'[j].order # i
        BY <1>2, <1>4, <1>m, <2>2, Zenon
      <4> QED
        BY <1>4, <4>1, OldOrdersStay
    <3>2. i \in DOMAIN book
      BY <1>1, <1>m, <2>2
    <3>3. PICK l \in EventsOf(i) :
            (\A j \in EventsOf(i) : j <= l) /\ ledger[l].to = book[i].state
      BY <3>2, Zenon DEF ChainsInv, ChainsAreLifecycles, ChainsEndInState
    <3> QED
      BY <1>1, <3>1, <3>2, <3>3, Zenon
  <2> QED
    BY <2>1, <2>2
<1>13. ChainsEndInState'
  BY <1>12, Zenon DEF ChainsEndInState
<1>14. counter' \in 1..counter'
  BY <1>1, <1>3, SMT
<1>15. \A i \in DOMAIN ledger' : ledger'[i].order \in 1..counter'
  BY <1>2, <1>4, <1>7, <1>8, <1>14, Zenon
<1> QED
  BY <1>11, <1>13, <1>15, Zenon DEF ChainsInv, ChainsAreLifecycles

LEMMA ChainsStep ==
  ASSUME TypeOK, ChainsInv, [Next]_vars
  PROVE  ChainsInv'
<1>1. ASSUME NEW s \in Symbols, NEW p \in Prices, NEW v \in Volumes, SubmitBuy(s, p, v)
      PROVE  ChainsInv'
  <2>1. PICK w \in Affordable(p, v), f \in Nat :
           w \in Nat \ {0} /\ f \in 0..w /\ Place(s, "buy", p, w, f)
    BY <1>1, BuyCases, Zenon
  <2>2. p \in Nat /\ "buy" \in Sides /\ w \in Nat
    BY <2>1, ConstantsAssumption DEF Sides
  <2> QED
    BY <2>1, <2>2, PlaceChains
<1>2. ASSUME NEW s \in Symbols, NEW p \in Prices, NEW v \in Volumes, SubmitSell(s, p, v)
      PROVE  ChainsInv'
  <2>1. PICK w \in Nat \ {0}, f \in Nat : f \in 0..w /\ Place(s, "sell", p, w, f)
    BY <1>2, SellCases, Zenon
  <2>2. p \in Nat /\ "sell" \in Sides /\ w \in Nat
    BY ConstantsAssumption DEF Sides
  <2> QED
    BY <2>1, <2>2, PlaceChains
<1>3. ASSUME NEW id \in DOMAIN book, OrderStep(id)
      PROVE  ChainsInv'
  BY <1>3, MoveChains DEF OrderStep, CancelOrder, ExpireOrder, States
<1>4. ASSUME ledger' = ledger, counter' = counter, book' = book \/ DOMAIN book' = {}
      PROVE  ChainsInv'
  <2>1. EventsAreChained' /\ \A i \in DOMAIN ledger' : ledger'[i].order \in 1..counter'
    BY <1>4 DEF ChainsInv, ChainsAreLifecycles, EventsAreChained, Chained,
                EarlierEvents, EventsOf
  <2>2. ChainsEndInState'
    <3>1. CASE book' = book
      BY <1>4, <3>1, Zenon DEF ChainsInv, ChainsAreLifecycles, ChainsEndInState, EventsOf
    <3>2. CASE DOMAIN book' = {}
      BY <3>2, Zenon DEF ChainsEndInState
    <3> QED
      BY <1>4, <3>1, <3>2
  <2> QED
    BY <2>1, <2>2 DEF ChainsInv, ChainsAreLifecycles
<1>5. ASSUME Restart
      PROVE  ChainsInv'
  <2>1. DOMAIN book' = {} /\ ledger' = ledger /\ counter' = counter
    BY <1>5, SMT DEF Restart
  <2> QED
    BY <1>4, <2>1
<1>6. ASSUME NEW s \in Symbols, NEW p \in Prices, NEW v \in Volumes, RefuseBuy(s, p, v)
      PROVE  ChainsInv'
  BY <1>4, <1>6 DEF RefuseBuy
<1>7. ASSUME NEW s \in Symbols, NEW p \in Prices, SetPrice(s, p)
      PROVE  ChainsInv'
  BY <1>4, <1>7 DEF SetPrice
<1>8. ASSUME BeginClose \/ FinishClose \/ NewDay \/ UNCHANGED vars
      PROVE  ChainsInv'
  BY <1>4, <1>8 DEF BeginClose, FinishClose, NewDay, vars, memory
<1> QED
  BY <1>1, <1>2, <1>3, <1>5, <1>6, <1>7, <1>8, Zenon DEF Next, Submit

\* Across cancellations, closes and restarts the ledger holds, for every order,
\* one parent-linked chain of legal transitions that ends in its state in memory.
THEOREM Chains == Spec => []ChainsAreLifecycles
<1>1. Init => ChainsInv
  <2> SUFFICES ASSUME Init PROVE ChainsInv
    OBVIOUS
  <2>1. DOMAIN book = {} /\ DOMAIN ledger = {}
    BY SMT DEF Init
  <2> QED
    BY <2>1, Zenon DEF ChainsInv, ChainsAreLifecycles, EventsAreChained, ChainsEndInState
<1>2. TypeOK /\ ChainsInv /\ [Next]_vars => ChainsInv'
  BY ChainsStep
<1>3. ChainsInv => ChainsAreLifecycles
  BY DEF ChainsInv
<1>4. TypeOK /\ [Next]_vars => TypeOK'
  BY TypeStep
<1> QED
  BY InitTypes, <1>1, <1>2, <1>3, <1>4, PTL DEF Spec

-----------------------------------------------------------------------------
(* end_of_day leaves no order that could fill.                              *)

\* The close passes over an active order with nothing left to fill; there is none.
OpenInv ==
  /\ \A id \in DOMAIN book : CanFill(book[id])
  /\ NothingOpenAfterClose

LEMMA OpenStep ==
  ASSUME TypeOK, OpenInv, [Next]_vars
  PROVE  OpenInv'
<1>1. ASSUME NEW s \in Symbols, NEW side \in Sides, NEW p \in Prices, NEW w \in Nat,
             NEW f \in 0..w, Place(s, side, p, w, f), phase' = "open"
      PROVE  OpenInv'
  <2>1. p \in Nat
    BY ConstantsAssumption
  <2>2. /\ DOMAIN book' = DOMAIN book \cup {counter'}
        /\ CanFill(book'[counter'])
        /\ \A i \in DOMAIN book : book'[i] = book[i]
    BY <1>1, <2>1, PlaceEffect
  <2>3. \A id \in DOMAIN book' : CanFill(book'[id])
    BY <2>2, Zenon DEF OpenInv
  <2> QED
    BY <1>1, <2>3 DEF OpenInv, NothingOpenAfterClose, CanFill
<1>2. ASSUME NEW s \in Symbols, NEW p \in Prices, NEW v \in Volumes, SubmitBuy(s, p, v)
      PROVE  OpenInv'
  <2>1. PICK w \in Affordable(p, v), f \in Nat :
           w \in Nat \ {0} /\ f \in 0..w /\ Place(s, "buy", p, w, f)
    BY <1>2, BuyCases, Zenon
  <2>2. phase' = "open" /\ "buy" \in Sides /\ w \in Nat
    BY <1>2, <2>1 DEF SubmitBuy, Sides
  <2> QED
    BY <1>1, <2>1, <2>2
<1>3. ASSUME NEW s \in Symbols, NEW p \in Prices, NEW v \in Volumes, SubmitSell(s, p, v)
      PROVE  OpenInv'
  <2>1. PICK w \in Nat \ {0}, f \in Nat : f \in 0..w /\ Place(s, "sell", p, w, f)
    BY <1>3, SellCases, Zenon
  <2>2. phase' = "open" /\ "sell" \in Sides /\ w \in Nat
    BY <1>3 DEF SubmitSell, Sides
  <2> QED
    BY <1>1, <2>1, <2>2
<1>4. ASSUME NEW id \in DOMAIN book, OrderStep(id)
      PROVE  OpenInv'
  <2>1. PICK to \in {"cancelled", "expired"} : Transition(id, to)
    BY <1>4, Zenon DEF OrderStep, CancelOrder, ExpireOrder
  <2>2. phase' = phase /\ phase # "closed" /\ to \in States /\ to \notin Active
    BY <1>4, <2>1 DEF OrderStep, CancelOrder, ExpireOrder, States, Active
  <2>3. \/ book' = book
        \/ /\ DOMAIN book' = DOMAIN book
           /\ book'[id].state = to
           /\ \A i \in DOMAIN book : i # id => book'[i] = book[i]
    BY <2>1, <2>2, MoveEffect
  <2>4. \A i \in DOMAIN book' : CanFill(book'[i])
    <3>1. CASE book' = book
      BY <3>1, Zenon DEF OpenInv
    <3>2. CASE /\ DOMAIN book' = DOMAIN book
               /\ book'[id].state = to
               /\ \A i \in DOMAIN book : i # id => book'[i] = book[i]
      <4>1. CanFill(book'[id])
        BY <2>2, <3>2 DEF CanFill
      <4> QED
        BY <3>2, <4>1, Zenon DEF OpenInv
    <3> QED
      BY <2>3, <3>1, <3>2
  <2> QED
    BY <2>2, <2>4 DEF OpenInv, NothingOpenAfterClose, CanFill
<1>5. CASE FinishClose
  <2>1. UNCHANGED book /\ Unfilled = {}
    BY <1>5 DEF FinishClose
  <2>2. \A id \in DOMAIN book : book[id].state \notin Active
    BY <2>1, Zenon DEF Unfilled, OpenInv, CanFill
  <2> QED
    BY <2>1, <2>2, Zenon DEF OpenInv, NothingOpenAfterClose
<1>6. ASSUME book' = book \/ DOMAIN book' = {}, phase' = phase \/ phase' # "closed"
      PROVE  OpenInv'
  BY <1>6, Zenon DEF OpenInv, NothingOpenAfterClose
<1>7. ASSUME Restart
      PROVE  OpenInv'
  <2>1. DOMAIN book' = {} /\ phase' = "open"
    BY <1>7, SMT DEF Restart
  <2> QED
    BY <1>6, <2>1
<1>8. ASSUME NEW s \in Symbols, NEW p \in Prices, NEW v \in Volumes, RefuseBuy(s, p, v)
      PROVE  OpenInv'
  BY <1>6, <1>8 DEF RefuseBuy
<1>9. ASSUME NEW s \in Symbols, NEW p \in Prices, SetPrice(s, p)
      PROVE  OpenInv'
  BY <1>6, <1>9 DEF SetPrice
<1>10. ASSUME BeginClose \/ NewDay \/ UNCHANGED vars
       PROVE  OpenInv'
  BY <1>6, <1>10 DEF BeginClose, NewDay, vars, memory
<1> QED
  BY <1>2, <1>3, <1>4, <1>5, <1>7, <1>8, <1>9, <1>10, Zenon DEF Next, Submit

\* Once end_of_day has returned, every order in memory is done.
THEOREM NothingOpen == Spec => []NothingOpenAfterClose
<1>1. Init => OpenInv
  <2> SUFFICES ASSUME Init PROVE OpenInv
    OBVIOUS
  <2>1. DOMAIN book = {} /\ phase # "closed"
    BY SMT DEF Init
  <2> QED
    BY <2>1, Zenon DEF OpenInv, NothingOpenAfterClose
<1>2. TypeOK /\ OpenInv /\ [Next]_vars => OpenInv'
  BY OpenStep
<1>3. OpenInv => NothingOpenAfterClose
  BY DEF OpenInv
<1>4. TypeOK /\ [Next]_vars => TypeOK'
  BY TypeStep
<1> QED
  BY InitTypes, <1>1, <1>2, <1>3, <1>4, PTL DEF Spec

-----------------------------------------------------------------------------
(* The replay of the ledger, event by event. FoldLeft is a recursive         *)
(* function over the sets of positions; that it exists, and that it takes    *)
(* the events one by one, follows from the well-foundedness of finite sets.  *)

Start == [cash |-> ReplayCash, volume |-> [s \in Symbols |-> 0]]

ReplayOf(l) == FoldLeft(ReplayFill, Start, l)

\* g is the replay of the events of l at the positions of every part of S.
Replays(g, l, S) ==
  g = [s \in SUBSET S |-> IF s = {} THEN Start
                          ELSE ReplayFill(g[s \ {Max(s)}], l[Max(s)])]

LEMMA ReplayIsFold ==
  ASSUME NEW l
  PROVE  ReplayOf(l) = (CHOOSE g : Replays(g, l, DOMAIN l))[DOMAIN l]
BY DEF ReplayOf, FoldLeft, MapThenFoldSet, Replays

\* Among finite sets there is one that contains no other.
LEMMA MinimalSet ==
  ASSUME NEW T, T # {}, \A x \in T : IsFiniteSet(x)
  PROVE  \E x \in T : \A y \in T : y \subseteq x => y = x
<1>1. PICK S \in T : IsFiniteSet(S)
  OBVIOUS
<1> DEFINE R == StrictSubsetOrdering(S)
           U == {y \in T : y \subseteq S}
<1>2. IsWellFoundedOn(R, SUBSET S)
  BY <1>1, FS_StrictSubsetOrderingWellFounded, FS_FiniteSubsetsOfFinite
<1>3. U \subseteq SUBSET S /\ U # {}
  BY <1>1
<1> HIDE DEF R, U
<1>4. PICK x \in U : \A y \in U : ~(<<y, x>> \in R)
  BY <1>2, <1>3, WFMin
<1>5. x \in T /\ x \subseteq S
  BY DEF U
<1>6. ASSUME NEW y \in T, y \subseteq x, y # x PROVE FALSE
  <2>1. y \in U
    BY <1>5, <1>6 DEF U
  <2>2. <<y, x>> \in R
    BY <1>5, <1>6 DEF R, StrictSubsetOrdering
  <2> QED BY <1>4, <2>1, <2>2
<1> QED BY <1>5, <1>6

LEMMA PartFinite ==
  ASSUME NEW n \in Nat, NEW s \in SUBSET (1..n) PROVE IsFiniteSet(s)
<1>1. IsFiniteSet(1..n)
  BY FS_Interval
<1> QED BY <1>1, FS_Subset

\* A finite set of numbers has a largest one.
LEMMA MaxIn ==
  ASSUME NEW S \in SUBSET Nat, IsFiniteSet(S), S # {}
  PROVE  Max(S) \in S /\ \A y \in S : Max(S) >= y
<1> DEFINE Above(x) == {y \in S : y >= x}
           T == {Above(x) : x \in S}
<1>0. \A t \in SUBSET S : IsFiniteSet(t)
  BY FS_Subset
<1>1. T # {} /\ \A t \in T : IsFiniteSet(t)
  BY <1>0
<1> HIDE DEF T
<1>2. PICK t \in T : \A u \in T : u \subseteq t => u = t
  BY <1>1, MinimalSet
<1>3. PICK x \in S : t = Above(x)
  BY <1>2 DEF T
<1>4. ASSUME NEW y \in S, ~(x >= y) PROVE FALSE
  <2>1. Above(y) \in T
    BY DEF T
  <2>2. Above(y) \subseteq t
    <3>1. x \in Nat /\ y \in Nat /\ y > x
      BY <1>4
    <3>2. \A z \in S : z >= y => z >= x
      BY <3>1
    <3> QED BY <1>3, <3>2
  <2>3. x \in t /\ x \notin Above(y)
    BY <1>3, <1>4
  <2> QED BY <1>2, <2>1, <2>2, <2>3
<1>5. \E z \in S : \A y \in S : z >= y
  BY <1>4
<1> QED BY <1>5 DEF Max

LEMMA MaxOfPart ==
  ASSUME NEW n \in Nat, NEW s \in SUBSET (1..n), s # {} PROVE Max(s) \in s
<1>2. IsFiniteSet(s)
  BY PartFinite
<1>3. s \in SUBSET Nat
  OBVIOUS
<1> QED BY <1>2, <1>3, MaxIn

\* Two ledgers with the same events at the positions of S.
Alike(l, m, S) == \A i \in S : l[i] = m[i]

\* B is a part of A, and A of the first n positions.
Parts(n, A, B) == n \in Nat /\ A \subseteq 1..n /\ B \subseteq A

LEMMA ReplaysAgree ==
  ASSUME NEW n, NEW A, NEW B, Parts(n, A, B), NEW l, NEW m, Alike(l, m, B),
         NEW g, NEW h, Replays(g, l, A), Replays(h, m, B)
  PROVE  g[B] = h[B]
<1> USE DEF Parts
<1> SUFFICES \A w \in SUBSET (A \cap B) : g[w] = h[w]
  OBVIOUS
<1> DEFINE T == {w \in SUBSET (A \cap B) : g[w] # h[w]}
<1> SUFFICES ASSUME T # {} PROVE FALSE
  OBVIOUS
<1>0. \A w \in T : IsFiniteSet(w)
  BY PartFinite
<1> HIDE DEF T
<1>1. PICK w \in T : \A y \in T : y \subseteq w => y = w
  BY <1>0, MinimalSet
<1> USE DEF T
<1>2. w \in SUBSET A /\ w \in SUBSET B /\ w \in SUBSET (1..n) /\ w \in SUBSET (A \cap B)
  BY <1>1
<1>3. CASE w = {}
  BY <1>1, <1>2, <1>3 DEF Replays
<1>4. CASE w # {}
  <2> DEFINE rest == w \ {Max(w)}
  <2>1. Max(w) \in w
    BY <1>2, <1>4, MaxOfPart
  <2>2. rest \notin T
    BY <1>1, <2>1
  <2>3. g[rest] = h[rest]
    BY <1>1, <2>2
  <2>4. g[w] = ReplayFill(g[rest], l[Max(w)]) /\ h[w] = ReplayFill(h[rest], m[Max(w)])
    BY <1>2, <1>4 DEF Replays
  <2>5. l[Max(w)] = m[Max(w)]
    BY <1>2, <2>1 DEF Alike
  <2> QED BY <1>1, <2>3, <2>4, <2>5
<1> QED BY <1>3, <1>4

LEMMA ReplayExists ==
  ASSUME NEW n \in Nat, NEW l
  PROVE  \E g : Replays(g, l, 1..n)
<1> DEFINE S == 1..n
           T == {A \in SUBSET S : ~\E g : Replays(g, l, A)}
<1>1. ASSUME T # {} PROVE FALSE
  <2>0. \A A \in T : IsFiniteSet(A)
    BY PartFinite
  <2> HIDE DEF T, S
  <2>1. PICK A \in T : \A y \in T : y \subseteq A => y = A
    BY <1>1, <2>0, MinimalSet
  <2> USE DEF T, S
  <2> DEFINE Part(u) == (CHOOSE g : Replays(g, l, u))[u]
             f == [s \in SUBSET A |->
                     IF s = {} THEN Start ELSE ReplayFill(Part(s \ {Max(s)}), l[Max(s)])]
  <2>2. ASSUME NEW s \in SUBSET A, s # {} PROVE Part(s \ {Max(s)}) = f[s \ {Max(s)}]
    <3> DEFINE u == s \ {Max(s)}
    <3>1. Max(s) \in s
      BY <2>2, MaxOfPart
    <3>2. u \in SUBSET S /\ u # A /\ u \subseteq A /\ u \in SUBSET A
      BY <3>1
    <3>3. u \notin T
      BY <2>1, <3>2
    <3>4. \E g : Replays(g, l, u)
      BY <3>2, <3>3
    <3> DEFINE h == CHOOSE g : Replays(g, l, u)
    <3>5. Replays(h, l, u)
      BY <3>4
    <3>6. Part(u) = h[u]
      OBVIOUS
    <3>7. CASE u = {}
      BY <3>2, <3>5, <3>7 DEF Replays
    <3>8. CASE u # {}
      <4> DEFINE v == u \ {Max(u)}
      <4>1. Max(u) \in u
        BY <3>2, <3>8, MaxOfPart
      <4>2. v \in SUBSET S /\ v # A /\ v \subseteq A /\ v \in SUBSET u
        BY <3>2, <4>1
      <4>3. v \notin T
        BY <2>1, <4>2
      <4>4. \E g : Replays(g, l, v)
        BY <4>2, <4>3
      <4> DEFINE k == CHOOSE g : Replays(g, l, v)
      <4>5. Replays(k, l, v)
        BY <4>4
      <4>7. h[v] = k[v]
        <5>1. PICK a, b, g1, k1 : a = u /\ b = v /\ g1 = h /\ k1 = k
          OBVIOUS
        <5> HIDE DEF h, k, u, v
        <5>2. Parts(n, a, b)
          BY <3>2, <4>2, <5>1 DEF u, Parts
        <5>3. Replays(g1, l, a) /\ Replays(k1, l, b)
          BY <3>5, <4>5, <5>1
        <5>4. Alike(l, l, b)
          BY DEF Alike
        <5>5. g1[b] = k1[b]
          BY <5>2, <5>3, <5>4, ReplaysAgree
        <5> QED BY <5>1, <5>5
      <4>8. h[u] = ReplayFill(h[v], l[Max(u)])
        BY <3>5, <3>8 DEF Replays
      <4>9. f[u] = ReplayFill(Part(v), l[Max(u)])
        BY <3>2, <3>8
      <4>10. Part(v) = k[v]
        OBVIOUS
      <4> QED BY <3>6, <4>7, <4>8, <4>9, <4>10
    <3> QED BY <3>7, <3>8
  <2> HIDE DEF Part
  <2>3. f = [s \in SUBSET A |-> IF s = {} THEN Start ELSE ReplayFill(f[s \ {Max(s)}], l[Max(s)])]
    BY <2>2
  <2> HIDE DEF f
  <2>4. Replays(f, l, A)
    BY <2>3 DEF Replays
  <2> QED BY <2>1, <2>4
<1>2. S \notin T
  BY <1>1
<1> QED BY <1>2

\* The replay of a longer ledger is that of the shorter one and its last event.
LEMMA ReplayAppend ==
  ASSUME NEW l \in Seq(Events), NEW e \in Events
  PROVE  ReplayOf(Append(l, e)) = ReplayFill(ReplayOf(l), e)
<1> DEFINE n == Len(l)
           m == Append(l, e)
           G == CHOOSE g : Replays(g, m, 1..(n + 1))
           H == CHOOSE g : Replays(g, l, 1..n)
<1>1. /\ n \in Nat /\ DOMAIN l = 1..n /\ DOMAIN m = 1..(n + 1)
      /\ m[n + 1] = e /\ \A i \in 1..n : m[i] = l[i]
  OBVIOUS
<1> HIDE DEF n, m
<1>2. ReplayOf(m) = G[1..(n + 1)] /\ ReplayOf(l) = H[1..n]
  BY <1>1, ReplayIsFold
<1>3. Replays(G, m, 1..(n + 1))
  <2>1. \E g : Replays(g, m, 1..(n + 1))
    <3>1. n + 1 \in Nat
      BY <1>1
    <3> QED BY <3>1, ReplayExists
  <2> QED BY <2>1
<1>4. Replays(H, l, 1..n)
  <2>1. \E g : Replays(g, l, 1..n)
    BY <1>1, ReplayExists
  <2> QED BY <2>1
<1> HIDE DEF G, H
<1>5. G[1..n] = H[1..n]
  <2>1. PICK k, a, b, g1, h1 :
          k = n + 1 /\ a = 1..(n + 1) /\ b = 1..n /\ g1 = G /\ h1 = H
    OBVIOUS
  <2>2. Parts(k, a, b) /\ Alike(m, l, b)
    BY <1>1, <2>1 DEF Alike, Parts
  <2>3. Replays(g1, m, a) /\ Replays(h1, l, b)
    BY <1>3, <1>4, <2>1
  <2>4. g1[b] = h1[b]
    BY <2>2, <2>3, ReplaysAgree
  <2> QED BY <2>1, <2>4
<1>6. Max(1..(n + 1)) = n + 1
  BY <1>1 DEF Max
<1>7. (1..(n + 1)) \ {n + 1} = 1..n /\ 1..(n + 1) # {}
  <2>1. \A i : i \in 1..n <=> i \in 1..(n + 1) /\ i # n + 1
    BY <1>1
  <2>2. 1 \in 1..(n + 1)
    BY <1>1
  <2> QED BY <2>1, <2>2
<1>8. G[1..(n + 1)] = ReplayFill(G[1..n], m[n + 1])
  BY <1>3, <1>6, <1>7 DEF Replays
<1> QED BY <1>1, <1>2, <1>5, <1>8 DEF m

LEMMA ReplayNone == ReplayOf(<<>>) = Start
<1>1. \E g : Replays(g, <<>>, 1..0)
  BY ReplayExists
<1> DEFINE G == CHOOSE g : Replays(g, <<>>, {})
<1>2. 1..0 = {} /\ DOMAIN <<>> = {}
  OBVIOUS
<1>3. Replays(G, <<>>, {})
  BY <1>1, <1>2
<1>4. ReplayOf(<<>>) = G[{}]
  BY <1>2, ReplayIsFold
<1> HIDE DEF G
<1> QED BY <1>3, <1>4 DEF Replays
-----------------------------------------------------------------------------
(* The share counts the ledger gives.                                        *)

\* No fee of a fill was rounded up.
Exact(l) == \A i \in DOMAIN l :
  l[i].shares > 0 => l[i].fee <= CalcCost(l[i].side, l[i].price, l[i].shares)

Covered == InitialCash <= ReplayCash

\* account is a replay that a broker with cash c and positions ps may be at: it
\* has the same shares and, sells paying their stamp tax once, at least the cash.
Holds(account, c, ps) ==
  \E d \in Int, n \in [Symbols -> Nat] :
    /\ account = [cash |-> d, volume |-> n]
    /\ c <= d
    /\ \A s \in Symbols : n[s] = ps[s].volume

\* What makes a fill replay as the account did it.
ReplayInv == Covered => (Exact(ledger) => Holds(ReplayOf(ledger), cash, pos))

LEMMA ReplayIsThis == Replay = ReplayOf(ledger)
BY DEF Replay, ReplayOf, Start

LEMMA ReplayedHoldings ==
  ASSUME ReplayInv PROVE ExactFillsReplayed
<1> SUFFICES ASSUME Covered, Exact(ledger) PROVE HoldingsReplayed
  BY Zenon DEF ExactFillsReplayed, Exact, Covered
<1>1. PICK d \in Int, n \in [Symbols -> Nat] :
        /\ ReplayOf(ledger) = [cash |-> d, volume |-> n]
        /\ cash <= d
        /\ \A s \in Symbols : n[s] = pos[s].volume
  BY DEF ReplayInv, Holds
<1>2. Replay.volume = n
  BY <1>1, ReplayIsThis
<1> QED BY <1>1, <1>2 DEF HoldingsReplayed

\* Events without shares leave the replay alone.
LEMMA EmptyEvent ==
  ASSUME NEW account, NEW e, e.shares = 0 PROVE ReplayFill(account, e) = account
BY DEF ReplayFill

LEMMA ExactPrefix ==
  ASSUME NEW l \in Seq(Events), NEW e \in Events, Exact(Append(l, e))
  PROVE  /\ Exact(l)
         /\ e.shares > 0 => e.fee <= CalcCost(e.side, e.price, e.shares)
<1> DEFINE m == Append(l, e)
<1>1. /\ DOMAIN m = 1..(Len(l) + 1) /\ DOMAIN l = 1..Len(l) /\ Len(l) \in Nat
      /\ m[Len(l) + 1] = e /\ \A i \in 1..Len(l) : m[i] = l[i]
  OBVIOUS
<1>2. Exact(m)
  OBVIOUS
<1> HIDE DEF m
<1>3. \A i \in DOMAIN l : i \in DOMAIN m /\ m[i] = l[i]
  BY <1>1
<1>4. Len(l) + 1 \in DOMAIN m
  BY <1>1
<1>5. Exact(l)
  BY <1>2, <1>3, Zenon DEF Exact
<1>6. e.shares > 0 => e.fee <= CalcCost(e.side, e.price, e.shares)
  BY <1>1, <1>2, <1>4, Zenon DEF Exact
<1> QED BY <1>5, <1>6

\* The two events of an order: its creation, without shares, and its fill.
LEMMA PlaceEvents ==
  ASSUME TypeOK, NEW s \in Symbols, NEW side \in Sides, NEW p \in Nat,
         NEW v \in Nat, NEW f \in 0..v, Place(s, side, p, v, f)
  PROVE  \E a \in Events, b \in Events :
           /\ ledger' = Append(Append(ledger, a), b)
           /\ a.shares = 0
           /\ b.shares = f /\ b.side = side /\ b.symbol = s /\ b.price = p
           /\ f # 0 => b.fee = Rounded(CalcCost(side, p, f))
<1> DEFINE id == counter + 1
           fee == IF f = 0 THEN 0 ELSE Rounded(CalcCost(side, p, f))
           a == Event(id, "pending", "pending", 0, side, s, 0, p, 0)
           b == Event(id, "pending", Outcome(v, f), Len(ledger) + 1,
                      side, s, f, p, fee)
<1>1. ledger' = ledger \o <<a, b>>
  BY Zenon DEF Place, Outcome
<1>2. counter \in Nat /\ ledger \in Seq(Events)
  BY DEF TypeOK
<1>3. id \in Nat /\ fee \in Nat /\ f \in Nat /\ Len(ledger) + 1 \in Nat
  BY <1>2, Fee, SMT
<1>4. Outcome(v, f) \in States /\ "pending" \in States
  BY DEF Outcome, States, Active
<1>5. f # 0 => fee = Rounded(CalcCost(side, p, f))
  BY Zenon
<1> HIDE DEF fee, id
<1>6. a \in Events /\ a.shares = 0
  BY <1>3, <1>4, SMT DEF Events, Event
<1>7. b \in Events
  BY <1>3, <1>4, SMT DEF Events, Event
<1>8. b.shares = f /\ b.side = side /\ b.symbol = s /\ b.price = p /\ b.fee = fee
  BY SMT DEF Event
<1> HIDE DEF a, b
<1>9. ledger' = Append(Append(ledger, a), b)
  BY <1>1, <1>2, <1>6, <1>7
<1> QED BY <1>5, <1>6, <1>7, <1>8, <1>9, Zenon

LEMMA PlaceReplays ==
  ASSUME TypeOK, NEW s \in Symbols, NEW side \in Sides, NEW p \in Nat,
         NEW v \in Nat, NEW f \in 0..v, Place(s, side, p, v, f)
  PROVE  \E b \in Events :
           /\ ReplayOf(ledger)' = ReplayFill(ReplayOf(ledger), b)
           /\ b.shares = f /\ b.side = side /\ b.symbol = s /\ b.price = p
           /\ f # 0 => b.fee = Rounded(CalcCost(side, p, f))
           /\ Exact(ledger)' => Exact(ledger) /\
                (f # 0 => Rounded(CalcCost(side, p, f)) <= CalcCost(side, p, f))
<1>1. PICK a \in Events, b \in Events :
           /\ ledger' = Append(Append(ledger, a), b)
           /\ a.shares = 0
           /\ b.shares = f /\ b.side = side /\ b.symbol = s /\ b.price = p
           /\ f # 0 => b.fee = Rounded(CalcCost(side, p, f))
  BY PlaceEvents
<1>2. PICK l, m : l = ledger /\ m = Append(l, a)
  OBVIOUS
<1>3. l \in Seq(Events) /\ m \in Seq(Events)
  BY <1>2 DEF TypeOK
<1>4. ReplayOf(m) = ReplayFill(ReplayOf(l), a) /\ ReplayFill(ReplayOf(l), a) = ReplayOf(l)
  BY <1>1, <1>2, <1>3, ReplayAppend, EmptyEvent
<1>5. ReplayOf(Append(m, b)) = ReplayFill(ReplayOf(m), b)
  BY <1>3, ReplayAppend
<1>6. ledger' = Append(m, b)
  BY <1>1, <1>2
<1>7. ReplayOf(ledger)' = ReplayOf(ledger')
  OBVIOUS
<1>8. ASSUME Exact(Append(m, b))
      PROVE  /\ Exact(l)
             /\ f # 0 => Rounded(CalcCost(side, p, f)) <= CalcCost(side, p, f)
  <2>1. Exact(m) /\ (b.shares > 0 => b.fee <= CalcCost(b.side, b.price, b.shares))
    BY <1>3, <1>8, ExactPrefix
  <2>2. Exact(l)
    BY <1>2, <1>3, <2>1, ExactPrefix
  <2>3. f # 0 => f > 0
    OBVIOUS
  <2> QED BY <1>1, <2>1, <2>2, <2>3
<1> QED BY <1>1, <1>2, <1>4, <1>5, <1>6, <1>7, <1>8
\* A buy the account could pay is replayed, share for share.
LEMMA BuyReplays ==
  ASSUME NEW c \in Int, NEW ps, NEW account, Holds(account, c, ps),
         NEW e \in Events, e.shares # 0, e.side = "buy",
         Amount(e.price, e.shares) + e.fee <= c,
         NEW qs, NEW left \in Int, left = c - (Amount(e.price, e.shares) + e.fee),
         qs[e.symbol].volume = ps[e.symbol].volume + e.shares,
         \A t \in Symbols \ {e.symbol} : qs[t].volume = ps[t].volume
  PROVE  Holds(ReplayFill(account, e), left, qs)
<1>1. PICK d \in Int, n \in [Symbols -> Nat] :
        /\ account = [cash |-> d, volume |-> n]
        /\ c <= d
        /\ \A s \in Symbols : n[s] = ps[s].volume
  BY DEF Holds
<1> DEFINE s == e.symbol
           d1 == d - Amount(e.price, e.shares) - e.fee
           n1 == [n EXCEPT ![s] = @ + e.shares]
<1>2. s \in Symbols /\ e.shares \in Nat /\ e.fee \in Nat /\ e.price \in Nat
  BY DEF Events
<1>3. Amount(e.price, e.shares) \in Nat
  BY <1>2, Costs DEF Sides
<1>4. d1 \in Int /\ left <= d1 /\ Amount(e.price, e.shares) + e.fee <= d
  BY <1>1, <1>2, <1>3
<1>5. n1 \in [Symbols -> Nat] /\ n1[s] = n[s] + e.shares /\ \A t \in Symbols \ {s} : n1[t] = n[t]
  BY <1>2
<1>6. account.cash = d /\ account.volume = n
  BY <1>1
<1>7. ReplayFill(account, e) = [cash |-> d1, volume |-> n1]
  <2>1. e.side # "sell"
    OBVIOUS
  <2> QED BY <1>4, <1>6, <2>1, Zenon DEF ReplayFill
<1>8. \A t \in Symbols : n1[t] = qs[t].volume
  <2>1. n1[s] = qs[s].volume
    BY <1>1, <1>2, <1>5
  <2>2. ASSUME NEW t \in Symbols \ {s} PROVE n1[t] = qs[t].volume
    BY <1>1, <1>5, <2>2
  <2> QED BY <2>1, <2>2
<1> HIDE DEF d1, n1
<1> QED BY <1>4, <1>5, <1>7, <1>8, Zenon DEF Holds

\* So is a sale of shares that are there; it leaves the account no more cash.
LEMMA SellReplays ==
  ASSUME NEW c \in Int, NEW ps, NEW account, Holds(account, c, ps),
         NEW e \in Events, e.shares # 0, e.side = "sell",
         e.shares <= ps[e.symbol].volume,
         NEW qs, NEW left \in Int, left <= c + Amount(e.price, e.shares) - e.fee,
         qs[e.symbol].volume = ps[e.symbol].volume - e.shares,
         \A t \in Symbols \ {e.symbol} : qs[t].volume = ps[t].volume
  PROVE  Holds(ReplayFill(account, e), left, qs)
<1>1. PICK d \in Int, n \in [Symbols -> Nat] :
        /\ account = [cash |-> d, volume |-> n]
        /\ c <= d
        /\ \A s \in Symbols : n[s] = ps[s].volume
  BY DEF Holds
<1> DEFINE s == e.symbol
           d1 == d + Amount(e.price, e.shares) - e.fee
           n1 == [n EXCEPT ![s] = Larger(0, @ - e.shares)]
<1>2. s \in Symbols /\ e.shares \in Nat /\ e.fee \in Nat /\ e.price \in Nat
  BY DEF Events
<1>3. Amount(e.price, e.shares) \in Nat
  BY <1>2, Costs DEF Sides
<1>4. d1 \in Int /\ left <= d1
  BY <1>1, <1>2, <1>3
<1>5. Larger(0, n[s] - e.shares) = n[s] - e.shares /\ n[s] - e.shares \in Nat
  BY <1>1, <1>2 DEF Larger
<1>6. n1 \in [Symbols -> Nat] /\ n1[s] = n[s] - e.shares /\ \A t \in Symbols \ {s} : n1[t] = n[t]
  BY <1>2, <1>5
<1>7. account.cash = d /\ account.volume = n
  BY <1>1
<1>8. ReplayFill(account, e) = [cash |-> d1, volume |-> n1]
  BY <1>7, Zenon DEF ReplayFill
<1>9. \A t \in Symbols : n1[t] = qs[t].volume
  <2>1. n1[s] = qs[s].volume
    BY <1>1, <1>2, <1>6
  <2>2. ASSUME NEW t \in Symbols \ {s} PROVE n1[t] = qs[t].volume
    BY <1>1, <1>6, <2>2
  <2> QED BY <2>1, <2>2
<1> HIDE DEF d1, n1
<1> QED BY <1>4, <1>6, <1>8, <1>9, Zenon DEF Holds

\* Steps that append no fill and move no shares or cash.
LEMMA SameReplay ==
  ASSUME ReplayInv, cash' = cash, \A s \in Symbols : pos'[s].volume = pos[s].volume,
         ReplayOf(ledger)' = ReplayOf(ledger), Exact(ledger)' => Exact(ledger)
  PROVE  ReplayInv'
<1> SUFFICES ASSUME Covered, Exact(ledger)' PROVE Holds(ReplayOf(ledger), cash', pos')
  <2>1. Holds(ReplayOf(ledger), cash, pos)' <=> Holds(ReplayOf(ledger)', cash', pos')
    OBVIOUS
  <2> QED BY <2>1 DEF ReplayInv, Covered
<1>1. Holds(ReplayOf(ledger), cash, pos)
  BY DEF ReplayInv
<1>2. PICK d \in Int, n \in [Symbols -> Nat] :
        /\ ReplayOf(ledger) = [cash |-> d, volume |-> n]
        /\ cash <= d
        /\ \A s \in Symbols : n[s] = pos[s].volume
  BY <1>1 DEF Holds
<1>3. cash' <= d /\ \A s \in Symbols : n[s] = pos'[s].volume
  BY <1>2
<1> QED BY <1>2, <1>3, Zenon DEF Holds

LEMMA MoveReplays ==
  ASSUME TypeOK, ReplayInv, NEW id \in DOMAIN book, NEW to \in States, Transition(id, to),
         UNCHANGED <<cash, pos>>
  PROVE  ReplayInv'
<1>1. CASE UNCHANGED ledger
  <2>1. ReplayOf(ledger)' = ReplayOf(ledger') /\ (Exact(ledger)' <=> Exact(ledger'))
    OBVIOUS
  <2>2. ReplayOf(ledger)' = ReplayOf(ledger) /\ (Exact(ledger)' <=> Exact(ledger))
    BY <1>1, <2>1
  <2> QED BY <2>2, SameReplay
<1>2. CASE ~UNCHANGED ledger
  <2>1. PICK last \in 0..Len(ledger) :
         ledger' = Append(ledger, Event(id, book[id].state, to, last,
                                        "none", book[id].symbol, 0, 0, 0))
    BY <1>2, Zenon DEF Transition
  <2> DEFINE e == Event(id, book[id].state, to, last, "none", book[id].symbol, 0, 0, 0)
  <2>2. e.shares = 0
    BY DEF Event
  <2>3. /\ counter \in Nat /\ DOMAIN book \subseteq 1..counter /\ book[id] \in Orders
        /\ ledger \in Seq(Events)
    BY DEF TypeOK
  <2>4. /\ book[id].symbol \in Symbols /\ book[id].state \in States
        /\ id \in Nat /\ last \in Nat
    BY <2>3, SMT DEF Orders
  <2>5. e \in Events
    BY <2>4, SMT DEF Events, Event
  <2>6. ledger' = Append(ledger, e)
    BY <2>1
  <2> HIDE DEF e
  <2>7. PICK l, k : l = ledger /\ k = e
    OBVIOUS
  <2>8. l \in Seq(Events) /\ k \in Events /\ k.shares = 0 /\ ledger' = Append(l, k)
    BY <2>2, <2>3, <2>5, <2>6, <2>7
  <2>9. ReplayOf(Append(l, k)) = ReplayOf(l)
    BY <2>8, ReplayAppend, EmptyEvent
  <2>10. Exact(Append(l, k)) => Exact(l)
    BY <2>8, ExactPrefix
  <2>11. ReplayOf(ledger)' = ReplayOf(ledger') /\ (Exact(ledger)' <=> Exact(ledger'))
    OBVIOUS
  <2>12. ReplayOf(ledger)' = ReplayOf(ledger) /\ (Exact(ledger)' => Exact(ledger))
    BY <2>7, <2>8, <2>9, <2>10, <2>11
  <2> QED BY <2>12, SameReplay
<1> QED BY <1>1, <1>2
LEMMA BuyStepReplays ==
  ASSUME TypeOK, ReplayInv, NEW s \in Symbols, NEW p \in Prices, NEW v \in Volumes,
         SubmitBuy(s, p, v)
  PROVE  ReplayInv'
<1>1. PICK w \in Affordable(p, v), f \in Nat :
           /\ w \in Nat \ {0} /\ f \in 0..w
           /\ Place(s, "buy", p, w, f)
           /\ \/ f \in Nat \ {0} /\ Bought(s, p, f)
              \/ /\ f = 0 /\ count' = OrdersToday
                 /\ UNCHANGED <<cash, pos, todayBuys, peak, bought, buys>>
  BY BuyCases, Zenon
<1>2. p \in Nat /\ w \in Nat /\ "buy" \in Sides /\ cash \in Int
  BY <1>1, ConstantsAssumption DEF Sides, TypeOK
<1>3. PICK b \in Events :
           /\ ReplayOf(ledger)' = ReplayFill(ReplayOf(ledger), b)
           /\ b.shares = f /\ b.side = "buy" /\ b.symbol = s /\ b.price = p
           /\ f # 0 => b.fee = Rounded(CalcCost("buy", p, f))
           /\ Exact(ledger)' => Exact(ledger) /\
                (f # 0 => Rounded(CalcCost("buy", p, f)) <= CalcCost("buy", p, f))
  BY <1>1, <1>2, PlaceReplays
<1>4. CASE f = 0 /\ UNCHANGED <<cash, pos>>
  <2>1. ReplayOf(ledger)' = ReplayOf(ledger) /\ (Exact(ledger)' => Exact(ledger))
    BY <1>3, <1>4, EmptyEvent
  <2> QED BY <1>4, <2>1, SameReplay
<1>5. CASE f \in Nat \ {0} /\ Bought(s, p, f)
  <2> SUFFICES ASSUME Covered, Exact(ledger)' PROVE Holds(ReplayOf(ledger), cash, pos)'
    BY DEF ReplayInv, Covered
  <2>1. Holds(ReplayOf(ledger), cash, pos)
    BY <1>3 DEF ReplayInv
  <2>2. /\ cash' = cash - (Amount(p, f) + Rounded(CalcCost("buy", p, f)))
        /\ cash' \in Int
        /\ \A t \in Symbols \ {s} : pos'[t] = pos[t]
        /\ pos'[s].volume = pos[s].volume + f
    <3>1. cash' = cash - (Amount(p, f) + Rounded(CalcCost("buy", p, f))) /\ cash' \in Int
      BY <1>2, <1>5, BoughtEffect
    <3>2. (\A t \in Symbols \ {s} : pos'[t] = pos[t]) /\ pos'[s].volume = pos[s].volume + f
      BY <1>2, <1>5, BoughtEffect
    <3> QED BY <3>1, <3>2
  <2>3. Amount(p, f) + Rounded(CalcCost("buy", p, f)) <= cash
    <3>1. f <= w
      BY <1>1, <1>2
    <3>2. /\ Amount(p, f) \in Nat /\ Amount(p, w) \in Nat
          /\ CalcCost("buy", p, f) \in Nat /\ CalcCost("buy", p, w) \in Nat
          /\ Rounded(CalcCost("buy", p, f)) \in Nat
          /\ Amount(p, f) <= Amount(p, w)
          /\ CalcCost("buy", p, f) <= CalcCost("buy", p, w)
      BY <1>1, <1>2, <3>1, Costs, Fee
    <3>3. Amount(p, w) + CalcCost("buy", p, w) <= cash
      BY <1>1 DEF Affordable
    <3>4. Rounded(CalcCost("buy", p, f)) <= CalcCost("buy", p, f)
      BY <1>3, <1>5
    <3> QED BY <1>2, <3>2, <3>3, <3>4
  <2>4. PICK c, ps, account, qs, left :
          c = cash /\ ps = pos /\ account = ReplayOf(ledger) /\ qs = pos' /\ left = cash'
    OBVIOUS
  <2>5. /\ c \in Int /\ left \in Int /\ Holds(account, c, ps)
        /\ b.shares # 0 /\ b.side = "buy"
        /\ Amount(b.price, b.shares) + b.fee <= c
        /\ left = c - (Amount(b.price, b.shares) + b.fee)
        /\ qs[b.symbol].volume = ps[b.symbol].volume + b.shares
        /\ \A t \in Symbols \ {b.symbol} : qs[t].volume = ps[t].volume
    BY <1>2, <1>3, <1>5, <2>1, <2>2, <2>3, <2>4
  <2>6. Holds(ReplayFill(account, b), left, qs)
    BY <2>5, BuyReplays
  <2> QED BY <1>3, <2>4, <2>6
<1> QED BY <1>1, <1>4, <1>5

LEMMA SellStepReplays ==
  ASSUME TypeOK, ReplayInv, NEW s \in Symbols, NEW p \in Prices, NEW v \in Volumes,
         SubmitSell(s, p, v)
  PROVE  ReplayInv'
<1>1. PICK w \in Nat \ {0}, f \in Nat :
           /\ f \in 0..w /\ w <= pos[s].volume - todayBuys[s]
           /\ Place(s, "sell", p, w, f)
           /\ \/ f # 0 /\ Sold(s, p, f)
              \/ f = 0 /\ UNCHANGED <<cash, pos, count, peak>>
  BY SellCases, Zenon
<1>2. p \in Nat /\ w \in Nat /\ "sell" \in Sides /\ cash \in Int
  BY <1>1, ConstantsAssumption DEF Sides, TypeOK
<1>3. PICK b \in Events :
           /\ ReplayOf(ledger)' = ReplayFill(ReplayOf(ledger), b)
           /\ b.shares = f /\ b.side = "sell" /\ b.symbol = s /\ b.price = p
           /\ f # 0 => b.fee = Rounded(CalcCost("sell", p, f))
           /\ Exact(ledger)' => Exact(ledger) /\
                (f # 0 => Rounded(CalcCost("sell", p, f)) <= CalcCost("sell", p, f))
  BY <1>1, <1>2, PlaceReplays
<1>4. CASE f = 0 /\ UNCHANGED <<cash, pos>>
  <2>1. ReplayOf(ledger)' = ReplayOf(ledger) /\ (Exact(ledger)' => Exact(ledger))
    BY <1>3, <1>4, EmptyEvent
  <2> QED BY <1>4, <2>1, SameReplay
<1>5. CASE f # 0 /\ Sold(s, p, f)
  <2> SUFFICES ASSUME Covered, Exact(ledger)' PROVE Holds(ReplayOf(ledger), cash, pos)'
    BY DEF ReplayInv, Covered
  <2>1. Holds(ReplayOf(ledger), cash, pos)
    BY <1>3 DEF ReplayInv
  <2>2. f <= pos[s].volume
    <3>1. todayBuys[s] \in Nat /\ pos[s].volume \in Nat
      BY DEF TypeOK, Positions
    <3> QED BY <1>1, <3>1
  <2>3. /\ cash' \in Int
        /\ \A t \in Symbols \ {s} : pos'[t] = pos[t]
        /\ pos'[s].volume = pos[s].volume - f
    BY <1>2, <1>5, <2>2, SoldEffect
  <2>4. cash' <= cash + Amount(p, f) - Rounded(CalcCost("sell", p, f))
    <3>1. /\ Amount(p, f) \in Nat /\ Stamp("sell", p, f) \in Nat
          /\ Rounded(CalcCost("sell", p, f)) \in Nat
      BY <1>2, Costs, Fee
    <3>2. cash' = cash + Amount(p, f) - Rounded(CalcCost("sell", p, f)) - Stamp("sell", p, f)
      BY <1>5 DEF Sold
    <3> QED BY <1>2, <3>1, <3>2
  <2>5. PICK c, ps, account, qs, left :
          c = cash /\ ps = pos /\ account = ReplayOf(ledger) /\ qs = pos' /\ left = cash'
    OBVIOUS
  <2>6. /\ c \in Int /\ left \in Int /\ Holds(account, c, ps)
        /\ b.shares # 0 /\ b.side = "sell" /\ b.shares <= ps[b.symbol].volume
        /\ left <= c + Amount(b.price, b.shares) - b.fee
        /\ qs[b.symbol].volume = ps[b.symbol].volume - b.shares
        /\ \A t \in Symbols \ {b.symbol} : qs[t].volume = ps[t].volume
    BY <1>2, <1>3, <1>5, <2>1, <2>2, <2>3, <2>4, <2>5
  <2>7. Holds(ReplayFill(account, b), left, qs)
    BY <2>6, SellReplays
  <2> QED BY <1>3, <2>5, <2>7
<1> QED BY <1>1, <1>4, <1>5

LEMMA ReplayStep ==
  ASSUME TypeOK, ReplayInv, [Next]_vars
  PROVE  ReplayInv'
<1>1. ASSUME UNCHANGED <<cash, ledger>>, \A s \in Symbols : pos'[s].volume = pos[s].volume
      PROVE  ReplayInv'
  <2>1. ReplayOf(ledger)' = ReplayOf(ledger') /\ (Exact(ledger)' <=> Exact(ledger'))
    OBVIOUS
  <2>2. ReplayOf(ledger)' = ReplayOf(ledger) /\ (Exact(ledger)' => Exact(ledger))
    BY <1>1, <2>1
  <2> QED BY <1>1, <2>2, SameReplay
<1>2. \A s \in Symbols : pos[s] \in Positions /\ pos[s].volume \in Nat
  BY DEF TypeOK, Positions
<1>3. ASSUME NEW id \in DOMAIN book, OrderStep(id) PROVE ReplayInv'
  <2>1. PICK to \in {"cancelled", "expired"} : Transition(id, to)
    BY <1>3, Zenon DEF OrderStep, CancelOrder, ExpireOrder
  <2>2. to \in States /\ UNCHANGED <<cash, pos>>
    BY <1>3, <2>1 DEF OrderStep, CancelOrder, ExpireOrder, States
  <2> QED BY <2>1, <2>2, MoveReplays
<1>4. ASSUME NEW s \in Symbols, NEW p \in Prices, SetPrice(s, p) PROVE ReplayInv'
  <2>1. UNCHANGED <<cash, ledger>>
    BY <1>4 DEF SetPrice
  <2>2. ASSUME NEW t \in Symbols PROVE pos'[t].volume = pos[t].volume
    <3>1. CASE pos' = pos
      BY <3>1
    <3>2. CASE pos' = [pos EXCEPT ![s].price = p]
      <4>1. pos'[t] = IF t = s THEN [pos[s] EXCEPT !.price = p] ELSE pos[t]
        BY <3>2, Zenon DEF TypeOK
      <4>2. [pos[s] EXCEPT !.price = p].volume = pos[s].volume
        BY <1>2 DEF Positions
      <4> QED BY <4>1, <4>2
    <3> QED BY <1>4, <3>1, <3>2 DEF SetPrice
  <2> QED BY <1>1, <2>1, <2>2
<1>5. ASSUME FinishClose PROVE ReplayInv'
  <2>1. UNCHANGED <<cash, ledger>>
    BY <1>5 DEF FinishClose, history
  <2>2. ASSUME NEW t \in Symbols PROVE pos'[t].volume = pos[t].volume
    <3>1. pos'[t] = IF pos[t].volume = 0 THEN NoPosition
                    ELSE IF quotes[t] > 0 THEN [pos[t] EXCEPT !.price = quotes[t]]
                    ELSE pos[t]
      BY <1>5 DEF FinishClose
    <3>2. [pos[t] EXCEPT !.price = quotes[t]].volume = pos[t].volume
      BY <1>2 DEF Positions
    <3>3. NoPosition.volume = 0
      BY DEF NoPosition
    <3> QED BY <3>1, <3>2, <3>3
  <2> QED BY <1>1, <2>1, <2>2
<1>6. ASSUME Restart PROVE ReplayInv'
  <2>1. UNCHANGED <<cash, ledger>>
    BY <1>6 DEF Restart
  <2>2. ASSUME NEW t \in Symbols PROVE pos'[t].volume = pos[t].volume
    <3>1. pos'[t] = IF pos[t].volume > 0 THEN pos[t] ELSE NoPosition
      BY <1>6 DEF Restart
    <3>2. NoPosition.volume = 0
      BY DEF NoPosition
    <3> QED BY <1>2, <3>1, <3>2
  <2> QED BY <1>1, <2>1, <2>2
<1>7. ASSUME NEW s \in Symbols, NEW p \in Prices, NEW v \in Volumes, RefuseBuy(s, p, v)
      PROVE  ReplayInv'
  BY <1>1, <1>7 DEF RefuseBuy
<1>8. ASSUME BeginClose \/ NewDay \/ UNCHANGED vars PROVE ReplayInv'
  BY <1>1, <1>8 DEF BeginClose, NewDay, vars, memory
<1> QED
  BY <1>3, <1>4, <1>5, <1>6, <1>7, <1>8, BuyStepReplays, SellStepReplays, Zenon
     DEF Next, Submit

\* Whatever is bought, sold, cancelled, expired or restarted, replaying the
\* ledger gives the share counts of the account, if no fee was rounded up and the account
\* did not begin with more cash than the replay.
THEOREM FillsReplayed == Spec => []ExactFillsReplayed
<1>1. Init => ReplayInv
  <2> SUFFICES ASSUME Init, Covered PROVE Holds(ReplayOf(ledger), cash, pos)
    BY DEF ReplayInv
  <2>1. /\ ledger = <<>> /\ cash = InitialCash
        /\ \A s \in Symbols : pos[s].volume = 0
    BY DEF Init, NoPosition
  <2>2. ReplayOf(ledger) = [cash |-> ReplayCash, volume |-> [s \in Symbols |-> 0]]
    BY <2>1, ReplayNone DEF Start
  <2> DEFINE n == [s \in Symbols |-> 0]
  <2>3. /\ ReplayCash \in Int /\ InitialCash <= ReplayCash
        /\ n \in [Symbols -> Nat] /\ \A s \in Symbols : n[s] = 0
    BY ConstantsAssumption DEF Covered
  <2>4. \A s \in Symbols : n[s] = pos[s].volume
    BY <2>1, <2>3
  <2> HIDE DEF n
  <2>5. ReplayOf(ledger) = [cash |-> ReplayCash, volume |-> n]
    BY <2>2 DEF n
  <2> QED BY <2>1, <2>3, <2>4, <2>5 DEF Holds
<1>2. TypeOK /\ ReplayInv /\ [Next]_vars => ReplayInv'
  BY ReplayStep
<1>3. ReplayInv => ExactFillsReplayed
  BY ReplayedHoldings
<1>4. TypeOK /\ [Next]_vars => TypeOK'
  BY TypeStep
<1> QED
  BY InitTypes, <1>1, <1>2, <1>3, <1>4, PTL DEF Spec
=============================================================================
