------------------------ MODULE PipelineBacktestProofs ------------------------
(* PipelineBacktest for any symbols, prices, signals, schedules and lengths of  *)
(* weeks, months and years: the schedule is kept, the books balance, and, where  *)
(* lots pay the fees of their sale, the account owes nothing and buys stay       *)
(* within what a rebalance may deploy.                                           *)
EXTENDS PipelineBacktest, FiniteSetTheorems, NaturalsInduction, WellFoundedInduction, TLAPS

\* A product is compared as its second factor is.
LEMMA Cancel ==
  ASSUME NEW M \in Nat \ {0}, NEW x \in Int, NEW y \in Int, M * x < M * y
  PROVE  x < y
<1>1. CASE x >= y
  <2> DEFINE k == x - y
  <2>1. k \in Nat /\ x = y + k
    BY <1>1
  <2>2. M * x = M * y + M * k
    BY <2>1
  <2>3. M * k >= 0
    BY <2>1
  <2> QED BY <2>2, <2>3
<1> QED BY <1>1

\* The whole part and the rest of a division.
LEMMA Rest ==
  ASSUME NEW d \in Nat, NEW M \in Nat, M > 0
  PROVE  d % M = d - M * (d \div M)
BY SMTT(60)

LEMMA Division ==
  ASSUME NEW d \in Nat, NEW M \in Nat \ {0}
  PROVE  /\ d \div M \in Nat /\ d % M \in 0..(M - 1)
         /\ d % M = d - M * (d \div M)
<1>0. M \in Nat /\ M > 0
  OBVIOUS
<1>1. d \div M \in Nat
  BY <1>0, SMTT(60)
<1>2. d % M \in 0..(M - 1)
  BY <1>0
<1>3. d % M = d - M * (d \div M)
  BY <1>0, Rest, Zenon
<1> QED BY <1>1, <1>2, <1>3

\* A product of a difference.
LEMMA Distributes ==
  ASSUME NEW M \in Int, NEW x \in Int, NEW y \in Int
  PROVE  M * (x - y) = M * x - M * y
OBVIOUS

\* Two numbers with one rest, closer than the divisor, are equal.
LEMMA SameRest ==
  ASSUME NEW p \in Nat, NEW q \in Nat, NEW Y \in Nat \ {0},
         p <= q, q - p < Y, p % Y = q % Y
  PROVE  p = q
<1> DEFINE a == p \div Y
           b == q \div Y
<1>1. /\ a \in Nat /\ b \in Nat
      /\ p % Y = p - Y * a /\ q % Y = q - Y * b
      /\ p % Y \in 0..(Y - 1)
  BY Division
<1> HIDE DEF a, b
<1>2. Y * (b - a) = Y * b - Y * a
  BY <1>1, Distributes
<1>3. Y * (b - a) = q - p
  <2> DEFINE Ya == Y * a
             Yb == Y * b
  <2>1. Ya \in Int /\ Yb \in Int
    BY <1>1
  <2>2. p - Ya = q - Yb
    BY <1>1
  <2> HIDE DEF Ya, Yb
  <2>3. Yb - Ya = q - p
    BY <2>1, <2>2
  <2> QED BY <1>2, <2>3 DEF Ya, Yb
<1>4. Y * (b - a) < Y * 1
  BY <1>3
<1>5. b - a < 1
  BY <1>1, <1>4, Cancel
<1>6. Y * (-1) < Y * (b - a)
  BY <1>3
<1>7. -1 < b - a
  BY <1>1, <1>6, Cancel
<1>8. a = b
  BY <1>1, <1>5, <1>7
<1> QED BY <1>1, <1>8

\* A month of the year that comes back within max_idle_days is the same month.
LEMMA SameMonth ==
  ASSUME NEW l \in Nat, NEW d \in Nat, l <= d, d - l < MaxIdle, Month(d) = Month(l),
         MaxIdle <= MonthDays * (YearMonths - 1)
  PROVE  CalendarMonth(d) = CalendarMonth(l)
<1> DEFINE p == l \div MonthDays
           q == d \div MonthDays
<1>0. /\ MonthDays \in Nat \ {0} /\ YearMonths \in Nat \ {0} /\ MaxIdle \in Nat \ {0}
      /\ MaxIdle <= MonthDays * (YearMonths - 1)
  BY ConstantsAssumption
<1>1. /\ p \in Nat /\ q \in Nat
      /\ l % MonthDays = l - MonthDays * p /\ l % MonthDays \in 0..(MonthDays - 1)
      /\ d % MonthDays = d - MonthDays * q /\ d % MonthDays \in 0..(MonthDays - 1)
  BY <1>0, Division
<1>2. p % YearMonths = q % YearMonths
  BY DEF Month
<1> HIDE DEF p, q
<1> DEFINE Mp == MonthDays * p
           Mq == MonthDays * q
           My == MonthDays * (YearMonths - 1)
           rl == l % MonthDays
           rd == d % MonthDays
<1>3. /\ Mp \in Int /\ Mq \in Int /\ My \in Int
      /\ rl = l - Mp /\ rd = d - Mq /\ MaxIdle <= My
  <2>1. Mp \in Int /\ Mq \in Int /\ My \in Int
    BY <1>0, <1>1
  <2>2. rl = l - Mp /\ rd = d - Mq
    BY <1>1
  <2>3. MaxIdle <= My
    BY <1>0, Zenon
  <2> QED BY <2>1, <2>2, <2>3, Zenon
<1>4. rl \in 0..(MonthDays - 1) /\ rd \in 0..(MonthDays - 1)
  BY <1>1
<1>5. /\ MonthDays * (q + 1) = Mq + MonthDays
      /\ MonthDays * (q - p - 1) = Mq - Mp - MonthDays
  <2>1. MonthDays * (q - p - 1) = MonthDays * (q - p) - MonthDays * 1
    BY <1>0, <1>1, Distributes
  <2>2. MonthDays * (q - p) = Mq - Mp
    BY <1>0, <1>1, Distributes
  <2>3. MonthDays * (q + 1) = MonthDays * q - MonthDays * (-1)
    BY <1>0, <1>1, Distributes
  <2> HIDE DEF Mp, Mq
  <2>4. MonthDays * (q - p - 1) = Mq - Mp - MonthDays
    BY <1>0, <1>3, <2>1, <2>2
  <2>5. MonthDays * (-1) = -MonthDays
    BY <1>0
  <2>6. MonthDays * (q + 1) = Mq + MonthDays
    BY <1>0, <1>3, <2>3, <2>5 DEF Mq
  <2> QED BY <2>4, <2>6
<1> HIDE DEF Mp, Mq, My, rl, rd
<1>6. Mp < Mq + MonthDays /\ Mq - Mp - MonthDays < My
  BY <1>0, <1>3, <1>4
<1>7. /\ MonthDays * p < MonthDays * (q + 1)
      /\ MonthDays * (q - p - 1) < MonthDays * (YearMonths - 1)
  BY <1>5, <1>6 DEF Mp, My
<1>8. p < q + 1 /\ q - p - 1 < YearMonths - 1
  <2>1. /\ p \in Int /\ q + 1 \in Int /\ q - p - 1 \in Int
        /\ YearMonths - 1 \in Int /\ MonthDays \in Nat \ {0}
    BY <1>0, <1>1
  <2>2. p < q + 1
    BY <1>7, <2>1, Cancel
  <2> QED BY <1>7, <2>1, <2>2, Cancel
<1>9. /\ p \in Nat /\ q \in Nat /\ YearMonths \in Nat \ {0}
      /\ p <= q /\ q - p < YearMonths
  <2>1. p \in Nat /\ q \in Nat
    BY <1>1
  <2> QED BY <1>0, <1>8, <2>1
<1>10. p = q
  BY <1>2, <1>9, SameRest
<1> QED BY <1>10 DEF p, q, CalendarMonth

-----------------------------------------------------------------------------
\* The schedule, with what it rests on: days pass and the scheduler's date follows.
Dates ==
  /\ config \in Configs
  /\ day \in Nat /\ sched.last \in Nat
  /\ sched.last <= day

Scheduled == Dates /\ ScheduleKept

LEMMA InitScheduled == Init => Scheduled
BY DEF Init, Scheduled, Dates, ScheduleKept

\* A day that is skipped needs no rebalance, so that its month has seen one.
LEMMA SkipKeeps == ASSUME Scheduled, Skip PROVE Scheduled'
<1> USE DEF Scheduled, Dates
<1>0. MaxIdle \in Nat /\ WeekDays \in Nat
  BY ConstantsAssumption
<1>1. UNCHANGED <<config, day, regime, sched>>
  BY DEF Skip
<1>2. ~Due
  BY DEF Skip
<1>3. /\ sched.regime = regime
      /\ day - sched.last < MaxIdle
      /\ config.schedule = "weekly" => day - sched.last < WeekDays
      /\ config.schedule # "daily"
  BY <1>0, <1>2 DEF Due
<1>4. config.schedule = "monthly" => Month(day) = Month(sched.last)
  BY <1>2 DEF Due
<1>5. Month(day) \in config.force => CalendarMonth(day) = CalendarMonth(sched.last)
  BY <1>2 DEF Due
<1>6. config.schedule = "monthly" => CalendarMonth(day) = CalendarMonth(sched.last)
  <2>1. config.schedule = "monthly" => MaxIdle <= MonthDays * (YearMonths - 1)
    BY ConstantsAssumption
  <2> QED BY <1>3, <1>4, <2>1, SameMonth
<1>7. ScheduleKept'
  BY <1>1, <1>3, <1>5, <1>6 DEF ScheduleKept, Month, CalendarMonth
<1> QED BY <1>1, <1>7

\* A day that is rebalanced is noted with its regime.
LEMMA RebalanceKeeps ==
  ASSUME Scheduled, NEW signals, NEW w, Rebalance(signals, w) PROVE Scheduled'
<1> USE DEF Scheduled, Dates
<1>0. MaxIdle \in Nat \ {0} /\ WeekDays \in Nat \ {0}
  BY ConstantsAssumption
<1>1. UNCHANGED <<config, day, regime>> /\ sched'.last = day /\ sched'.regime = regime
  BY DEF Rebalance, Note
<1>2. ScheduleKept'
  BY <1>0, <1>1 DEF ScheduleKept, Month, CalendarMonth
<1> QED BY <1>1, <1>2

LEMMA NextKeeps == ASSUME Scheduled, [Next]_vars PROVE Scheduled'
<1> USE DEF Scheduled, Dates
<1>1. ASSUME NEW gap \in Gaps, NEW prices \in PriceLists, NEW r \in Regimes,
             NewDay(gap, prices, r)
      PROVE  Scheduled'
  <2>1. gap \in Nat
    BY ConstantsAssumption
  <2>2. config' = config /\ day' = day + gap /\ sched' = sched /\ phase' = "opened"
    BY <1>1 DEF NewDay
  <2> QED BY <2>1, <2>2 DEF ScheduleKept
<1>2. CASE Skip
  BY <1>2, SkipKeeps
<1>3. ASSUME NEW signals \in SignalLists, NEW w \in Weights, Rebalance(signals, w)
      PROVE  Scheduled'
  BY <1>3, RebalanceKeeps
<1>4. CASE Fill
  <2>1. UNCHANGED <<config, day, regime, sched>> /\ phase = "filling"
    BY <1>4 DEF Fill
  <2> QED BY <2>1 DEF ScheduleKept, Month, CalendarMonth
<1>5. CASE UNCHANGED vars
  BY <1>5 DEF vars, ScheduleKept, Month, CalendarMonth
<1> QED BY <1>1, <1>2, <1>3, <1>4, <1>5 DEF Next

\* After every day the portfolio has been rebalanced for its regime, in its month
\* (week, day) and within the idle limit, whatever rows of prices are missing: the
\* branches of should_rebalance leave no gap (pipeline/scheduler.py:35).
THEOREM ScheduleIsKept == Spec => []ScheduleKept
<1>1. Spec => []Scheduled
  BY InitScheduled, NextKeeps, PTL DEF Spec
<1>2. Scheduled => ScheduleKept
  BY DEF Scheduled
<1> QED BY <1>1, <1>2, PTL
-----------------------------------------------------------------------------
(* Folds. A fold over a set is a function of its parts that takes the set    *)
(* apart, one picked element after the other. That there is one, and what    *)
(* holds of it, follows from the well-foundedness of finite sets.            *)

\* g folds the parts of S: the empty one is worth base, any other what op makes of the
\* element picked from it and of the rest.
Folds(g, base, op, pick, S) ==
  g = [s \in SUBSET S |-> IF s = {} THEN base ELSE op[pick[s]][g[s \ {pick[s]}]]]

Picks(pick, S) == IsFiniteSet(S) /\ \A s \in (SUBSET S) \ {{}} : pick[s] \in s

\* Among the parts of a finite set there is one that contains no other.
LEMMA MinimalSet ==
  ASSUME NEW S, IsFiniteSet(S), NEW T \in SUBSET (SUBSET S), T # {}
  PROVE  \E x \in T : \A y \in T : y \subseteq x => y = x
<1> DEFINE R == StrictSubsetOrdering(S)
<1>1. IsWellFoundedOn(R, SUBSET S)
  BY FS_StrictSubsetOrderingWellFounded, FS_FiniteSubsetsOfFinite
<1> HIDE DEF R
<1>2. PICK x \in T : \A y \in T : ~(<<y, x>> \in R)
  BY <1>1, WFMin
<1> QED BY <1>2 DEF R, StrictSubsetOrdering

\* What holds of the empty part, and of a part if of its rest, holds of all.
LEMMA PartByPart ==
  ASSUME NEW S, NEW pick, Picks(pick, S), NEW Good, {} \in Good,
         \A s \in SUBSET S : s # {} /\ s \ {pick[s]} \in Good => s \in Good
  PROVE  \A s \in SUBSET S : s \in Good
<1> DEFINE T == {s \in SUBSET S : s \notin Good}
<1> SUFFICES ASSUME T # {} PROVE FALSE
  OBVIOUS
<1>0. T \in SUBSET (SUBSET S) /\ IsFiniteSet(S)
  BY DEF Picks
<1> HIDE DEF T
<1>1. PICK s \in T : \A y \in T : y \subseteq s => y = s
  BY <1>0, MinimalSet
<1>2. s \in SUBSET S /\ s \notin Good /\ s # {}
  BY <1>1 DEF T
<1>3. pick[s] \in s
  BY <1>2 DEF Picks
<1>4. s \ {pick[s]} \in SUBSET S /\ s \ {pick[s]} # s /\ s \ {pick[s]} \notin Good
  BY <1>2, <1>3
<1>5. s \ {pick[s]} \in T
  BY <1>4 DEF T
<1> QED BY <1>1, <1>4, <1>5

\* What holds of 0, and of the next number if of one below n, holds of n.
LEMMA OneByOne ==
  ASSUME NEW n \in Nat, NEW Good, 0 \in Good,
         \A i \in Nat : i < n /\ i \in Good => i + 1 \in Good
  PROVE  n \in Good
<1> DEFINE T == {i \in Nat : i <= n /\ i \notin Good}
           R == OpToRel(<, Nat)
<1> SUFFICES ASSUME T # {} PROVE FALSE
  OBVIOUS
<1>0. T \in SUBSET Nat
  OBVIOUS
<1> HIDE DEF T
<1>1. PICK i \in T : \A y \in T : ~(<<y, i>> \in R)
  <2>1. IsWellFoundedOn(R, Nat)
    BY NatLessThanWellFounded
  <2> HIDE DEF R
  <2> QED BY <1>0, <2>1, WFMin
<1>2. i \in Nat /\ i <= n /\ i \notin Good /\ i # 0
  BY <1>1 DEF T
<1>3. i - 1 \in Nat /\ i - 1 < n /\ i - 1 <= n /\ (i - 1) + 1 = i /\ i - 1 < i
  BY <1>2
<1>4. i - 1 \notin Good
  BY <1>2, <1>3
<1>5. i - 1 \in T
  BY <1>3, <1>4 DEF T
<1>6. <<i - 1, i>> \in R
  BY <1>2, <1>3 DEF OpToRel
<1> QED BY <1>1, <1>5, <1>6

\* B is a part of A, and A of S.
Parts(S, A, B) == A \in SUBSET S /\ B \in SUBSET A

LEMMA FoldsAgree ==
  ASSUME NEW base, NEW op, NEW pick, NEW S, Picks(pick, S), NEW A, NEW B, Parts(S, A, B),
         NEW g, NEW h, Folds(g, base, op, pick, A), Folds(h, base, op, pick, B)
  PROVE  g[B] = h[B]
<1> USE DEF Parts
<1> SUFFICES \A w \in SUBSET (A \cap B) : g[w] = h[w]
  OBVIOUS
<1> DEFINE T == {w \in SUBSET (A \cap B) : g[w] # h[w]}
<1> SUFFICES ASSUME T # {} PROVE FALSE
  OBVIOUS
<1>0. T \in SUBSET (SUBSET S) /\ IsFiniteSet(S)
  BY DEF Picks
<1> HIDE DEF T
<1>1. PICK w \in T : \A y \in T : y \subseteq w => y = w
  BY <1>0, MinimalSet
<1> USE DEF T
<1>2. w \in SUBSET A /\ w \in SUBSET B /\ w \in SUBSET S
  BY <1>1
<1>3. CASE w = {}
  BY <1>1, <1>2, <1>3 DEF Folds
<1>4. CASE w # {}
  <2> DEFINE rest == w \ {pick[w]}
  <2>1. pick[w] \in w
    BY <1>2, <1>4 DEF Picks
  <2>2. rest \notin T
    BY <1>1, <2>1
  <2>3. g[rest] = h[rest]
    BY <1>1, <2>2
  <2>4. g[w] = op[pick[w]][g[rest]] /\ h[w] = op[pick[w]][h[rest]]
    BY <1>2, <1>4 DEF Folds
  <2> QED BY <1>1, <2>3, <2>4
<1> QED BY <1>3, <1>4

LEMMA FoldExists ==
  ASSUME NEW base, NEW op, NEW pick, NEW S, Picks(pick, S)
  PROVE  \E g : Folds(g, base, op, pick, S)
<1> DEFINE T == {A \in SUBSET S : ~\E g : Folds(g, base, op, pick, A)}
<1>1. ASSUME T # {} PROVE FALSE
  <2>0. T \in SUBSET (SUBSET S) /\ IsFiniteSet(S)
    BY DEF Picks
  <2> HIDE DEF T
  <2>1. PICK A \in T : \A y \in T : y \subseteq A => y = A
    BY <1>1, <2>0, MinimalSet
  <2> USE DEF T
  <2> DEFINE Part(u) == (CHOOSE g : Folds(g, base, op, pick, u))[u]
             f == [s \in SUBSET A |->
                     IF s = {} THEN base ELSE op[pick[s]][Part(s \ {pick[s]})]]
  <2>2. ASSUME NEW s \in SUBSET A, s # {} PROVE Part(s \ {pick[s]}) = f[s \ {pick[s]}]
    <3> DEFINE u == s \ {pick[s]}
    <3>1. pick[s] \in s
      BY <2>2 DEF Picks
    <3>2. u \in SUBSET S /\ u # A /\ u \subseteq A /\ u \in SUBSET A
      BY <3>1
    <3>3. u \notin T
      BY <2>1, <3>2
    <3>4. \E g : Folds(g, base, op, pick, u)
      BY <3>2, <3>3
    <3> DEFINE h == CHOOSE g : Folds(g, base, op, pick, u)
    <3>5. Folds(h, base, op, pick, u)
      BY <3>4
    <3>6. Part(u) = h[u]
      OBVIOUS
    <3>7. CASE u = {}
      BY <3>2, <3>5, <3>7 DEF Folds
    <3>8. CASE u # {}
      <4> DEFINE v == u \ {pick[u]}
      <4>1. pick[u] \in u
        BY <3>2, <3>8 DEF Picks
      <4>2. v \in SUBSET S /\ v # A /\ v \subseteq A /\ v \in SUBSET u
        BY <3>2, <4>1
      <4>3. v \notin T
        BY <2>1, <4>2
      <4>4. \E g : Folds(g, base, op, pick, v)
        BY <4>2, <4>3
      <4> DEFINE k == CHOOSE g : Folds(g, base, op, pick, v)
      <4>5. Folds(k, base, op, pick, v)
        BY <4>4
      <4> HIDE DEF h, k, v
      <4>6. PICK a, b, g1, k1 : a = u /\ b = v /\ g1 = h /\ k1 = k
        OBVIOUS
      <4>71. Parts(S, a, b)
        BY <3>2, <4>2, <4>6 DEF Parts
      <4>72. Folds(g1, base, op, pick, a) /\ Folds(k1, base, op, pick, b)
        BY <3>5, <4>5, <4>6
      <4> HIDE DEF u
      <4>73. g1[b] = k1[b]
        BY <4>71, <4>72, FoldsAgree
      <4>7. h[v] = k[v]
        BY <4>6, <4>73
      <4> USE DEF u
      <4>8. h[u] = op[pick[u]][h[v]]
        BY <3>5, <3>8 DEF Folds, v
      <4>9. f[u] = op[pick[u]][Part(v)]
        BY <3>2, <3>8 DEF v
      <4>10. Part(v) = k[v]
        BY DEF k
      <4> QED BY <3>6, <4>7, <4>8, <4>9, <4>10
    <3> QED BY <3>7, <3>8
  <2> HIDE DEF Part
  <2>3. f = [s \in SUBSET A |-> IF s = {} THEN base ELSE op[pick[s]][f[s \ {pick[s]}]]]
    BY <2>2
  <2> HIDE DEF f
  <2>4. Folds(f, base, op, pick, A)
    BY <2>3 DEF Folds
  <2> QED BY <2>1, <2>4
<1>2. S \notin T
  BY <1>1
<1> QED BY <1>2

\* A fold of values of V by an operation of V has its values in V.
LEMMA FoldTyped ==
  ASSUME NEW base, NEW op, NEW pick, NEW S, Picks(pick, S), NEW V, base \in V,
         \A x \in S : \A v \in V : op[x][v] \in V,
         NEW g, Folds(g, base, op, pick, S)
  PROVE  \A w \in SUBSET S : g[w] \in V
<1> DEFINE Good == {w \in SUBSET S : g[w] \in V}
<1>1. {} \in Good
  BY DEF Folds
<1>2. ASSUME NEW w \in SUBSET S, w # {}, w \ {pick[w]} \in Good PROVE w \in Good
  <2>1. pick[w] \in S
    BY <1>2 DEF Picks
  <2>2. g[w] = op[pick[w]][g[w \ {pick[w]}]]
    BY <1>2 DEF Folds
  <2> QED BY <1>2, <2>1, <2>2
<1> HIDE DEF Good
<1>3. \A w \in SUBSET S : w \in Good
  BY <1>1, <1>2, PartByPart
<1> QED BY <1>3 DEF Good
-----------------------------------------------------------------------------
(* Folds over sequences, which take the last element first.                  *)

LEMMA PartFinite ==
  ASSUME NEW n \in Nat, NEW s \in SUBSET (1..n) PROVE IsFiniteSet(s)
<1>1. IsFiniteSet(1..n)
  BY FS_Interval
<1> QED BY <1>1, FS_Subset

\* A finite set of numbers has a largest one.
LEMMA MaxIn ==
  ASSUME NEW S \in SUBSET Nat, IsFiniteSet(S), S # {}
  PROVE  Max(S) \in S
<1> DEFINE Above(x) == {y \in S : y >= x}
           T == {Above(x) : x \in S}
<1>1. T \in SUBSET (SUBSET S) /\ T # {}
  OBVIOUS
<1> HIDE DEF T
<1>2. PICK t \in T : \A u \in T : u \subseteq t => u = t
  <2>1. PICK U, Q : U = T /\ Q = S
    OBVIOUS
  <2>2. IsFiniteSet(Q) /\ U \in SUBSET (SUBSET Q) /\ U # {}
    BY <1>1, <2>1
  <2>3. \E t \in U : \A u \in U : u \subseteq t => u = t
    BY <2>2, MinimalSet
  <2> QED BY <2>1, <2>3
<1>3. PICK x \in S : t = Above(x)
  BY <1>2 DEF T
<1>4. ASSUME NEW y \in S, ~(x >= y) PROVE FALSE
  <2>1. Above(y) \in T
    BY DEF T
  <2>2. Above(y) \subseteq t
    <3>1. x \in Nat /\ y \in Nat /\ y > x
      BY <1>4
    <3>2. \A z \in S : z >= y => z >= x
      BY <3>1
    <3> QED BY <1>3, <3>2
  <2>3. x \in t /\ x \notin Above(y)
    BY <1>3, <1>4
  <2> QED BY <1>2, <2>1, <2>2, <2>3
<1>5. \E z \in S : \A y \in S : z >= y
  BY <1>4
<1> QED BY <1>5 DEF Max

LastOf(n) == [s \in SUBSET (1..n) |-> Max(s)]

LEMMA LastPicks == ASSUME NEW n \in Nat PROVE Picks(LastOf(n), 1..n)
<1>1. IsFiniteSet(1..n)
  BY FS_Interval
<1>2. ASSUME NEW s \in SUBSET (1..n), s # {} PROVE LastOf(n)[s] \in s
  <2>1. Max(s) \in s
    <3>1. s \in SUBSET Nat
      OBVIOUS
    <3> QED BY <1>2, <3>1, PartFinite, MaxIn
  <2> QED BY <2>1 DEF LastOf
<1> QED BY <1>1, <1>2 DEF Picks

LEMMA LastOne ==
  ASSUME NEW k \in Nat
  PROVE  /\ Max(1..(k + 1)) = k + 1
         /\ (1..(k + 1)) \ {k + 1} = 1..k /\ 1..(k + 1) # {}
<1>1. \A i : i \in 1..k <=> i \in 1..(k + 1) /\ i # k + 1
  OBVIOUS
<1>2. k + 1 \in 1..(k + 1) /\ \A i \in 1..(k + 1) : k + 1 >= i
  OBVIOUS
<1>3. \A m \in 1..(k + 1) : (\A i \in 1..(k + 1) : m >= i) => m = k + 1
  BY <1>2
<1> QED BY <1>1, <1>2, <1>3 DEF Max

\* g takes the positions up to n one by one, the last one first.
Steps(g, base, op, V, n) ==
  /\ g[{}] = base
  /\ \A s \in SUBSET (1..n) :
       s # {} /\ g[s \ {Max(s)}] \in V => g[s] = op[Max(s)][g[s \ {Max(s)}]]

\* An operation on V, for every position up to n.
Operates(op, base, V, n) ==
  n \in Nat /\ base \in V /\ \A x \in 1..n : \A v \in V : op[x][v] \in V

LEMMA StepsTyped ==
  ASSUME NEW n, NEW base, NEW V, NEW op, Operates(op, base, V, n),
         NEW g, Steps(g, base, op, V, n)
  PROVE  \A w \in SUBSET (1..n) : g[w] \in V
<1> DEFINE Good == {w \in SUBSET (1..n) : g[w] \in V}
<1>0. n \in Nat /\ Picks(LastOf(n), 1..n)
  BY LastPicks DEF Operates
<1>1. {} \in Good
  BY DEF Steps, Operates
<1>2. ASSUME NEW w \in SUBSET (1..n), w # {}, w \ {LastOf(n)[w]} \in Good PROVE w \in Good
  <2>1. LastOf(n)[w] = Max(w) /\ Max(w) \in 1..n
    BY <1>0, <1>2 DEF Picks, LastOf
  <2>2. g[w] = op[Max(w)][g[w \ {Max(w)}]]
    BY <1>2, <2>1 DEF Steps
  <2> QED BY <1>2, <2>1, <2>2 DEF Operates
<1> HIDE DEF Good
<1>3. \A w \in SUBSET (1..n) : w \in Good
  <2>1. PICK S, pick : S = 1..n /\ pick = LastOf(n)
    OBVIOUS
  <2>2. Picks(pick, S) /\ \A w \in SUBSET S : w # {} /\ w \ {pick[w]} \in Good => w \in Good
    BY <1>0, <1>2, <2>1
  <2>3. \A w \in SUBSET S : w \in Good
    BY <1>1, <2>2, PartByPart
  <2> QED BY <2>1, <2>3
<1> QED BY <1>3 DEF Good

LEMMA StepsExist ==
  ASSUME NEW n, NEW base, NEW V, NEW op, Operates(op, base, V, n)
  PROVE  \E g : /\ Folds(g, base, op, LastOf(n), 1..n)
                /\ \A w \in SUBSET (1..n) : g[w] \in V
<1>0. n \in Nat /\ Picks(LastOf(n), 1..n)
  BY LastPicks DEF Operates
<1>1. PICK S, pick : S = 1..n /\ pick = LastOf(n)
  OBVIOUS
<1>2. Picks(pick, S) /\ base \in V /\ \A x \in S : \A v \in V : op[x][v] \in V
  BY <1>0, <1>1 DEF Operates
<1>3. PICK g : Folds(g, base, op, pick, S)
  BY <1>2, FoldExists
<1>4. \A w \in SUBSET S : g[w] \in V
  BY <1>2, <1>3, FoldTyped
<1> QED BY <1>1, <1>3, <1>4

\* The values a fold over the positions up to n goes through.
LEMMA History ==
  ASSUME NEW n, NEW base, NEW V, NEW op, Operates(op, base, V, n),
         NEW g, Steps(g, base, op, V, n)
  PROVE  \E h \in [0..n -> V] :
           /\ h[0] = base
           /\ \A i \in Nat : i < n => h[i + 1] = op[i + 1][h[i]]
           /\ h[n] = g[1..n]
<1>0. n \in Nat
  BY DEF Operates
<1>1. \A w \in SUBSET (1..n) : g[w] \in V
  BY StepsTyped
<1> DEFINE h == [i \in 0..n |-> g[1..i]]
<1>2. h \in [0..n -> V]
  <2>1. ASSUME NEW i \in 0..n PROVE g[1..i] \in V
    <3>1. 1..i \in SUBSET (1..n)
      BY <1>0
    <3> QED BY <1>1, <3>1
  <2> QED BY <2>1
<1>3. h[0] = base
  <2>1. 1..0 = {} /\ 0 \in 0..n
    BY <1>0
  <2>2. h[0] = g[1..0]
    BY <2>1
  <2> QED BY <2>1, <2>2 DEF Steps
<1>4. ASSUME NEW i \in Nat, i < n PROVE h[i + 1] = op[i + 1][h[i]]
  <2> DEFINE s == 1..(i + 1)
  <2>1. s \in SUBSET (1..n) /\ 1..i \in SUBSET (1..n)
    BY <1>0, <1>4
  <2>2. s # {} /\ Max(s) = i + 1 /\ s \ {i + 1} = 1..i
    BY LastOne
  <2>3. h[i + 1] = g[s] /\ h[i] = g[1..i]
    BY <1>0, <1>4
  <2> HIDE DEF s
  <2>4. g[1..i] \in V
    BY <1>1, <2>1
  <2>5. g[s] = op[i + 1][g[1..i]]
    BY <2>1, <2>2, <2>4 DEF Steps
  <2> QED BY <2>3, <2>5
<1>5. h[n] = g[1..n]
  BY <1>0
<1> QED BY <1>2, <1>3, <1>4, <1>5

-----------------------------------------------------------------------------
(* Sums over a set.                                                          *)

Sums(g, f, pick, S) ==
  g = [s \in SUBSET S |-> IF s = {} THEN 0 ELSE f[pick[s]] + g[s \ {pick[s]}]]

LEMMA SumTyped ==
  ASSUME NEW S, NEW pick, Picks(pick, S), NEW f \in [S -> Int], NEW g, Sums(g, f, pick, S)
  PROVE  \A w \in SUBSET S : g[w] \in Int
<1> DEFINE Good == {w \in SUBSET S : g[w] \in Int}
<1>1. {} \in Good
  BY DEF Sums
<1>2. ASSUME NEW w \in SUBSET S, w # {}, w \ {pick[w]} \in Good PROVE w \in Good
  <2>1. pick[w] \in S
    BY <1>2 DEF Picks
  <2>2. g[w] = f[pick[w]] + g[w \ {pick[w]}]
    BY <1>2 DEF Sums
  <2> QED BY <1>2, <2>1, <2>2
<1> HIDE DEF Good
<1>3. \A w \in SUBSET S : w \in Good
  BY <1>1, <1>2, PartByPart
<1> QED BY <1>3 DEF Good

LEMMA SumExists ==
  ASSUME NEW S, NEW pick, Picks(pick, S), NEW f \in [S -> Int]
  PROVE  \E g : Sums(g, f, pick, S)
<1> DEFINE op == [x \in S |-> [y \in Int |-> f[x] + y]]
<1>1. \A x \in S : \A v \in Int : op[x][v] = f[x] + v /\ op[x][v] \in Int
  OBVIOUS
<1> HIDE DEF op
<1>2. PICK g : Folds(g, 0, op, pick, S)
  BY FoldExists
<1>3. \A w \in SUBSET S : g[w] \in Int
  <2>1. PICK V, b : V = Int /\ b = 0
    OBVIOUS
  <2>2. b \in V /\ (\A x \in S : \A v \in V : op[x][v] \in V) /\ Folds(g, b, op, pick, S)
    BY <1>1, <1>2, <2>1
  <2>3. \A w \in SUBSET S : g[w] \in V
    BY <2>2, FoldTyped
  <2> QED BY <2>1, <2>3
<1>4. ASSUME NEW s \in SUBSET S, s # {}
      PROVE  op[pick[s]][g[s \ {pick[s]}]] = f[pick[s]] + g[s \ {pick[s]}]
  <2>1. pick[s] \in S /\ s \ {pick[s]} \in SUBSET S
    BY <1>4 DEF Picks
  <2> QED BY <1>1, <1>3, <2>1
<1>5. Sums(g, f, pick, S)
  BY <1>2, <1>4, Zenon DEF Folds, Sums
<1> QED BY <1>5

\* Changing one summand changes the sum by as much.
LEMMA SumMoves ==
  ASSUME NEW S, NEW pick, Picks(pick, S), NEW f \in [S -> Int], NEW k \in [S -> Int],
         NEW x \in S, \A y \in S : y # x => k[y] = f[y],
         NEW g, NEW h, Sums(g, f, pick, S), Sums(h, k, pick, S)
  PROVE  h[S] = g[S] + k[x] - f[x]
<1> DEFINE Good == {w \in SUBSET S : h[w] = g[w] + IF x \in w THEN k[x] - f[x] ELSE 0}
<1>0. \A w \in SUBSET S : g[w] \in Int /\ h[w] \in Int
  BY SumTyped
<1>1. {} \in Good
  BY DEF Sums
<1>2. ASSUME NEW w \in SUBSET S, w # {}, w \ {pick[w]} \in Good PROVE w \in Good
  <2> DEFINE y == pick[w]
             rest == w \ {y}
  <2>1. y \in S /\ y \in w /\ rest \in SUBSET S
    BY <1>2 DEF Picks
  <2>2. g[w] = f[y] + g[rest] /\ h[w] = k[y] + h[rest]
    BY <1>2 DEF Sums
  <2>3. h[rest] = g[rest] + IF x \in rest THEN k[x] - f[x] ELSE 0
    BY <1>2
  <2>4. x \in rest <=> x \in w /\ x # y
    OBVIOUS
  <2>5. /\ f[x] \in Int /\ k[x] \in Int /\ f[y] \in Int /\ k[y] \in Int
        /\ g[rest] \in Int /\ h[rest] \in Int
    BY <1>0, <2>1
  <2> HIDE DEF y, rest
  <2>6. h[w] = g[w] + IF x \in w THEN k[x] - f[x] ELSE 0
    <3>1. CASE x = y
      BY <2>1, <2>2, <2>3, <2>4, <2>5, <3>1
    <3>2. CASE x # y
      BY <2>1, <2>2, <2>3, <2>4, <2>5, <3>2
    <3> QED BY <3>1, <3>2
  <2> QED BY <2>6
<1> HIDE DEF Good
<1>3. \A w \in SUBSET S : w \in Good
  BY <1>1, <1>2, PartByPart
<1>4. S \in Good /\ f[x] \in Int /\ k[x] \in Int /\ g[S] \in Int
  BY <1>0, <1>3
<1> QED BY <1>4 DEF Good
-----------------------------------------------------------------------------
(* What the holdings are worth.                                              *)

Some == [s \in SUBSET Symbols |-> CHOOSE x \in s : TRUE]

LEMMA SomePicks == Picks(Some, Symbols)
<1>1. \A s \in SUBSET Symbols : s # {} => (CHOOSE x \in s : TRUE) \in s
  OBVIOUS
<1> QED BY <1>1, ConstantsAssumption DEF Picks, Some

Worth(p, h) == [s \in Symbols |-> p[s] * h[s] * Rates.base]

Total(p, h) == MapThenSumSet(LAMBDA s : p[s] * h[s] * Rates.base, Symbols)

Sizes == [Symbols -> Nat]

LEMMA WorthTyped ==
  ASSUME NEW p \in Sizes, NEW h \in Sizes PROVE Worth(p, h) \in [Symbols -> Int]
<1>1. Rates.base \in Nat
  BY ConstantsAssumption
<1>2. ASSUME NEW s \in Symbols PROVE p[s] * h[s] * Rates.base \in Int
  <2>1. p[s] \in Nat /\ h[s] \in Nat
    BY DEF Sizes
  <2>2. p[s] * h[s] \in Nat
    BY <2>1
  <2> QED BY <1>1, <2>2
<1> QED BY <1>2 DEF Worth

\* g adds up the worth of every part of Symbols.
Adds(g, p, h) ==
  g = [s \in SUBSET Symbols |->
         IF s = {} THEN 0
         ELSE p[CHOOSE x \in s : TRUE] * h[CHOOSE x \in s : TRUE] * Rates.base
                + g[s \ {CHOOSE x \in s : TRUE}]]

LEMMA TotalIsSum ==
  ASSUME NEW p \in Sizes, NEW h \in Sizes
  PROVE  \E g : Sums(g, Worth(p, h), Some, Symbols) /\ Total(p, h) = g[Symbols]
<1> DEFINE G == CHOOSE g : Adds(g, p, h)
<1>1. Total(p, h) = G[Symbols]
  BY DEF Total, MapThenSumSet, MapThenFoldSet, Adds
<1>2. \A s \in SUBSET Symbols : s # {} => Some[s] \in Symbols
  BY SomePicks DEF Picks
<1>3. ASSUME NEW s \in SUBSET Symbols, s # {}
      PROVE  /\ Some[s] = CHOOSE x \in s : TRUE
             /\ Worth(p, h)[Some[s]] = p[Some[s]] * h[Some[s]] * Rates.base
  <2>1. Some[s] = CHOOSE x \in s : TRUE
    BY DEF Some
  <2>2. Some[s] \in Symbols
    BY <1>2, <1>3
  <2> QED BY <2>1, <2>2 DEF Worth
<1>4. ASSUME NEW g PROVE Adds(g, p, h) <=> Sums(g, Worth(p, h), Some, Symbols)
  <2> DEFINE L(s) == IF s = {} THEN 0
                     ELSE p[CHOOSE x \in s : TRUE] * h[CHOOSE x \in s : TRUE] * Rates.base
                            + g[s \ {CHOOSE x \in s : TRUE}]
             R(s) == IF s = {} THEN 0 ELSE Worth(p, h)[Some[s]] + g[s \ {Some[s]}]
  <2>1. ASSUME NEW s \in SUBSET Symbols PROVE L(s) = R(s)
    <3>1. CASE s = {}
      BY <3>1
    <3>2. CASE s # {}
      <4>1. PICK x : x = (CHOOSE y \in s : TRUE)
        OBVIOUS
      <4>2. Some[s] = x /\ Worth(p, h)[x] = p[x] * h[x] * Rates.base
        BY <1>3, <3>2, <4>1
      <4> QED BY <3>2, <4>1, <4>2
    <3> QED BY <3>1, <3>2
  <2>2. Adds(g, p, h) <=> g = [s \in SUBSET Symbols |-> L(s)]
    BY DEF Adds
  <2>3. Sums(g, Worth(p, h), Some, Symbols) <=> g = [s \in SUBSET Symbols |-> R(s)]
    BY DEF Sums
  <2> HIDE DEF L, R
  <2>4. [s \in SUBSET Symbols |-> L(s)] = [s \in SUBSET Symbols |-> R(s)]
    BY <2>1
  <2> QED BY <2>2, <2>3, <2>4
<1>5. \E g : Sums(g, Worth(p, h), Some, Symbols)
  <2>1. PICK S, pick, f : S = Symbols /\ pick = Some /\ f = Worth(p, h)
    OBVIOUS
  <2>2. Picks(pick, S) /\ f \in [S -> Int]
    <3>1. Picks(pick, S)
      BY <2>1, SomePicks
    <3>2. Worth(p, h) \in [Symbols -> Int]
      BY WorthTyped
    <3> QED BY <2>1, <3>1, <3>2
  <2>3. \E g : Sums(g, f, pick, S)
    BY <2>2, SumExists
  <2> QED BY <2>1, <2>3
<1>6. Adds(G, p, h)
  <2>1. \E g : Adds(g, p, h)
    BY <1>4, <1>5
  <2> QED BY <2>1
<1> HIDE DEF G
<1> QED BY <1>1, <1>4, <1>6

LEMMA TotalTyped ==
  ASSUME NEW p \in Sizes, NEW h \in Sizes PROVE Total(p, h) \in Int
<1>1. PICK g : Sums(g, Worth(p, h), Some, Symbols) /\ Total(p, h) = g[Symbols]
  BY TotalIsSum
<1>2. PICK S, pick, f : S = Symbols /\ pick = Some /\ f = Worth(p, h)
  OBVIOUS
<1>3. Picks(pick, S) /\ f \in [S -> Int] /\ Sums(g, f, pick, S)
  BY <1>1, <1>2, SomePicks, WorthTyped
<1>4. \A w \in SUBSET S : g[w] \in Int
  BY <1>3, SumTyped
<1> QED BY <1>1, <1>2, <1>4

\* Nothing held is worth nothing.
LEMMA TotalNone ==
  ASSUME NEW p \in Sizes, NEW h \in Sizes, \A s \in Symbols : h[s] = 0
  PROVE  Total(p, h) = 0
<1>1. PICK g : Sums(g, Worth(p, h), Some, Symbols) /\ Total(p, h) = g[Symbols]
  BY TotalIsSum
<1>2. \A s \in Symbols : Worth(p, h)[s] = 0
  <2>1. ASSUME NEW s \in Symbols PROVE p[s] * h[s] * Rates.base = 0
    <3>1. p[s] \in Nat /\ h[s] = 0 /\ Rates.base \in Nat
      BY ConstantsAssumption DEF Sizes
    <3> QED BY <3>1
  <2> QED BY <2>1 DEF Worth
<1> DEFINE Good == {w \in SUBSET Symbols : g[w] = 0}
<1>3. {} \in Good
  BY <1>1 DEF Sums
<1>4. ASSUME NEW w \in SUBSET Symbols, w # {}, w \ {Some[w]} \in Good PROVE w \in Good
  <2>1. Some[w] \in Symbols
    BY <1>4, SomePicks DEF Picks
  <2>2. g[w] = Worth(p, h)[Some[w]] + g[w \ {Some[w]}]
    BY <1>1, <1>4 DEF Sums
  <2> QED BY <1>2, <1>4, <2>1, <2>2
<1> HIDE DEF Good
<1>5. \A w \in SUBSET Symbols : w \in Good
  <2>1. PICK S, pick : S = Symbols /\ pick = Some
    OBVIOUS
  <2>2. Picks(pick, S) /\ \A w \in SUBSET S : w # {} /\ w \ {pick[w]} \in Good => w \in Good
    BY <1>4, <2>1, SomePicks
  <2>3. \A w \in SUBSET S : w \in Good
    BY <1>3, <2>2, PartByPart
  <2> QED BY <2>1, <2>3
<1> QED BY <1>1, <1>5 DEF Good

\* Other shares of one symbol change it by their price.
LEMMA TotalMoves ==
  ASSUME NEW p \in Sizes, NEW h \in Sizes, NEW k \in Sizes, NEW x \in Symbols,
         \A y \in Symbols : y # x => k[y] = h[y]
  PROVE  Total(p, k) = Total(p, h) + p[x] * k[x] * Rates.base - p[x] * h[x] * Rates.base
<1>1. PICK g : Sums(g, Worth(p, h), Some, Symbols) /\ Total(p, h) = g[Symbols]
  BY TotalIsSum
<1>2. PICK u : Sums(u, Worth(p, k), Some, Symbols) /\ Total(p, k) = u[Symbols]
  BY TotalIsSum
<1>3. PICK S, pick, f, l : S = Symbols /\ pick = Some /\ f = Worth(p, h) /\ l = Worth(p, k)
  OBVIOUS
<1>4. /\ Picks(pick, S) /\ f \in [S -> Int] /\ l \in [S -> Int]
      /\ Sums(g, f, pick, S) /\ Sums(u, l, pick, S)
  BY <1>1, <1>2, <1>3, SomePicks, WorthTyped
<1>5. \A y \in S : y # x => l[y] = f[y]
  BY <1>3 DEF Worth
<1>6. u[S] = g[S] + l[x] - f[x]
  BY <1>3, <1>4, <1>5, SumMoves
<1> QED BY <1>1, <1>2, <1>3, <1>6 DEF Worth

LEMMA ExposureIsTotal ==
  /\ Exposure = Total(price, holdings)
  /\ Exposure' = Total(price', holdings')
BY DEF Exposure, Amount, Total, MapThenSumSet, MapThenFoldSet
-----------------------------------------------------------------------------
(* The folds of the constructors and of the router.                          *)

Signals == [symbol: Symbols, buy: BOOLEAN]

\* The weights of a list that has one add up to something.
LEMMA WeightsAddUp ==
  ASSUME NEW w \in Seq(Nat \ {0}), Len(w) > 0
  PROVE  FoldLeft(+, 0, w) \in Nat \ {0}
<1> DEFINE n == Len(w)
           Adding(g) == g = [s \in SUBSET (1..n) |->
                               IF s = {} THEN 0 ELSE g[s \ {Max(s)}] + w[Max(s)]]
           G == CHOOSE g : Adding(g)
<1>0. n \in Nat \ {0} /\ DOMAIN w = 1..n /\ \A i \in 1..n : w[i] \in Nat \ {0}
  OBVIOUS
<1> HIDE DEF n
<1>1. FoldLeft(+, 0, w) = G[1..n]
  BY <1>0 DEF FoldLeft, MapThenFoldSet
<1>2. Picks(LastOf(n), 1..n) /\ \A s \in SUBSET (1..n) : LastOf(n)[s] = Max(s)
  BY <1>0, LastPicks DEF LastOf
<1>3. \E g : Adding(g)
  <2>1. PICK S, pick, f : S = 1..n /\ pick = LastOf(n) /\ f = w
    OBVIOUS
  <2>2. Picks(pick, S) /\ f \in [S -> Int]
    BY <1>0, <1>2, <2>1
  <2>3. PICK g : Sums(g, f, pick, S)
    BY <2>2, SumExists
  <2>4. \A s \in SUBSET S : g[s] \in Int
    BY <2>2, <2>3, SumTyped
  <2>5. ASSUME NEW s \in SUBSET (1..n), s # {}
        PROVE  f[pick[s]] + g[s \ {pick[s]}] = g[s \ {Max(s)}] + w[Max(s)]
    <3>1. pick[s] = Max(s) /\ Max(s) \in 1..n
      BY <1>2, <2>1, <2>5 DEF Picks
    <3>2. f[Max(s)] \in Int /\ g[s \ {Max(s)}] \in Int /\ f[Max(s)] = w[Max(s)]
      BY <2>1, <2>2, <2>4, <3>1
    <3> QED BY <3>1, <3>2
  <2>6. Adding(g)
    <3> DEFINE L(s) == IF s = {} THEN 0 ELSE f[pick[s]] + g[s \ {pick[s]}]
               R(s) == IF s = {} THEN 0 ELSE g[s \ {Max(s)}] + w[Max(s)]
    <3>1. \A s \in SUBSET (1..n) : L(s) = R(s)
      BY <2>5
    <3>2. g = [s \in SUBSET (1..n) |-> L(s)]
      BY <2>1, <2>3 DEF Sums
    <3>3. Adding(g) <=> g = [s \in SUBSET (1..n) |-> R(s)]
      OBVIOUS
    <3> HIDE DEF L, R, Adding
    <3> QED BY <3>1, <3>2, <3>3
  <2> QED BY <2>6
<1>4. Adding(G)
  BY <1>3
<1> HIDE DEF G
<1> DEFINE Good == {s \in SUBSET (1..n) : G[s] \in Nat /\ (s # {} => G[s] # 0)}
<1>5. {} \in Good
  BY <1>4
<1>6. ASSUME NEW s \in SUBSET (1..n), s # {}, s \ {LastOf(n)[s]} \in Good PROVE s \in Good
  <2>1. LastOf(n)[s] = Max(s) /\ Max(s) \in 1..n
    BY <1>2, <1>6 DEF Picks
  <2>2. G[s] = G[s \ {Max(s)}] + w[Max(s)]
    BY <1>4, <1>6
  <2>3. w[Max(s)] \in Nat \ {0} /\ G[s \ {Max(s)}] \in Nat
    BY <1>0, <1>6, <2>1
  <2>4. G[s] \in Nat \ {0}
    BY <2>2, <2>3
  <2> QED BY <2>4
<1> HIDE DEF Good, Adding
<1>7. \A s \in SUBSET (1..n) : s \in Good
  <2>1. PICK S, pick : S = 1..n /\ pick = LastOf(n)
    OBVIOUS
  <2>2. Picks(pick, S) /\ \A s \in SUBSET S : s # {} /\ s \ {pick[s]} \in Good => s \in Good
    BY <1>2, <1>6, <2>1
  <2>3. \A s \in SUBSET S : s \in Good
    BY <1>5, <2>2, PartByPart
  <2> QED BY <2>1, <2>3
<1>8. 1..n \in Good /\ 1..n # {}
  <2>1. 1..n \in SUBSET (1..n) /\ 1 \in 1..n
    BY <1>0
  <2> QED BY <1>7, <2>1
<1> QED BY <1>1, <1>8 DEF Good

LEMMA PickCases ==
  ASSUME NEW chosen, NEW signal
  PROVE  Pick(chosen, signal) = chosen \/ Pick(chosen, signal) = Append(chosen, signal)
BY Zenon DEF Pick

\* The picks of the constrained constructor, signal by signal.
LEMMA PickHistory ==
  ASSUME NEW l \in Seq(Signals)
  PROVE  \E h \in [0..Len(l) -> Seq(Signals)] :
           /\ h[0] = <<>>
           /\ \A i \in Nat : i < Len(l) => h[i + 1] = Pick(h[i], l[i + 1])
           /\ h[Len(l)] = FoldLeft(Pick, <<>>, l)
<1> DEFINE n == Len(l)
           V == Seq(Signals)
           op == [i \in 1..n |-> [v \in V |-> Pick(v, l[i])]]
           Picking(g) == g = [s \in SUBSET (1..n) |->
                                IF s = {} THEN <<>> ELSE Pick(g[s \ {Max(s)}], l[Max(s)])]
           G == CHOOSE g : Picking(g)
<1>0. n \in Nat /\ DOMAIN l = 1..n /\ (\A i \in 1..n : l[i] \in Signals) /\ <<>> \in V
  OBVIOUS
<1> HIDE DEF n
<1>1. FoldLeft(Pick, <<>>, l) = G[1..n]
  BY <1>0 DEF FoldLeft, MapThenFoldSet
<1>2. \A i \in 1..n : \A v \in V : op[i][v] = Pick(v, l[i]) /\ op[i][v] \in V
  <2>1. ASSUME NEW i \in 1..n, NEW v \in V PROVE Pick(v, l[i]) \in V
    <3>1. l[i] \in Signals
      BY <1>0
    <3>2. Append(v, l[i]) \in V
      BY <3>1
    <3> QED BY <3>2, PickCases
  <2> QED BY <2>1
<1> HIDE DEF op, V
<1>3. Operates(op, <<>>, V, n)
  BY <1>0, <1>2 DEF Operates
<1>4. \A s \in SUBSET (1..n) : s # {} => Max(s) \in 1..n /\ LastOf(n)[s] = Max(s)
  BY <1>0, LastPicks DEF Picks, LastOf
<1>5. \E g : Picking(g)
  <2>1. PICK g : Folds(g, <<>>, op, LastOf(n), 1..n) /\ \A w \in SUBSET (1..n) : g[w] \in V
    BY <1>3, StepsExist
  <2> DEFINE L(s) == IF s = {} THEN <<>> ELSE op[LastOf(n)[s]][g[s \ {LastOf(n)[s]}]]
             R(s) == IF s = {} THEN <<>> ELSE Pick(g[s \ {Max(s)}], l[Max(s)])
  <2>2. ASSUME NEW s \in SUBSET (1..n) PROVE L(s) = R(s)
    <3>1. CASE s = {}
      BY <3>1
    <3>2. CASE s # {}
      <4>1. s \ {Max(s)} \in SUBSET (1..n)
        OBVIOUS
      <4> QED BY <1>2, <1>4, <2>1, <3>2, <4>1
    <3> QED BY <3>1, <3>2
  <2>3. g = [s \in SUBSET (1..n) |-> L(s)]
    BY <2>1 DEF Folds
  <2>4. Picking(g) <=> g = [s \in SUBSET (1..n) |-> R(s)]
    OBVIOUS
  <2> HIDE DEF L, R, Picking
  <2> QED BY <2>2, <2>3, <2>4
<1>6. Picking(G)
  BY <1>5
<1> HIDE DEF G
<1>7. Steps(G, <<>>, op, V, n)
  <2>1. G[{}] = <<>>
    BY <1>6
  <2>2. ASSUME NEW s \in SUBSET (1..n), s # {}, G[s \ {Max(s)}] \in V
        PROVE  G[s] = op[Max(s)][G[s \ {Max(s)}]]
    <3>1. G[s] = Pick(G[s \ {Max(s)}], l[Max(s)])
      BY <1>6, <2>2
    <3> QED BY <1>2, <1>4, <2>2, <3>1
  <2> QED BY <2>1, <2>2 DEF Steps
<1>8. PICK h \in [0..n -> V] :
           /\ h[0] = <<>>
           /\ \A i \in Nat : i < n => h[i + 1] = op[i + 1][h[i]]
           /\ h[n] = G[1..n]
  <2>1. PICK b : b = <<>>
    OBVIOUS
  <2>2. Operates(op, b, V, n) /\ Steps(G, b, op, V, n)
    BY <1>3, <1>7, <2>1
  <2>3. \E h \in [0..n -> V] :
           /\ h[0] = b
           /\ \A i \in Nat : i < n => h[i + 1] = op[i + 1][h[i]]
           /\ h[n] = G[1..n]
    BY <2>2, History
  <2> QED BY <2>1, <2>3
<1>9. \A i \in Nat : i < n => h[i + 1] = Pick(h[i], l[i + 1])
  <2> SUFFICES ASSUME NEW i \in Nat, i < n PROVE h[i + 1] = Pick(h[i], l[i + 1])
    OBVIOUS
  <2>1. i + 1 \in 1..n /\ h[i] \in V
    BY <1>0
  <2> QED BY <1>2, <1>8, <2>1
<1> QED BY <1>1, <1>8, <1>9 DEF n, V
\* The orders with a buy of the signal's symbol, if its target is above the holding.
WithBuy(deltas, orders, b) ==
  IF b.symbol \in DOMAIN deltas /\ deltas[b.symbol] > 0
  THEN Append(orders, Order("buy", b.symbol, deltas[b.symbol])) ELSE orders

Sells(deltas) == {s \in DOMAIN deltas : deltas[s] < 0 /\ holdings[s] > 0}

SellOrder(deltas, s) == Order("sell", s, Smaller(-deltas[s], holdings[s]))

SellOrders(deltas) == SetToSeq({SellOrder(deltas, s) : s \in Sells(deltas)})

Booking(g, deltas, base, best) ==
  g = [s \in SUBSET DOMAIN best |->
         IF s = {} THEN base ELSE WithBuy(deltas, g[s \ {Max(s)}], best[Max(s)])]

LEMMA IntentsAreFold ==
  ASSUME NEW best, NEW deltas
  PROVE  Intents(best, deltas)
           = (CHOOSE g : Booking(g, deltas, SellOrders(deltas), best))[DOMAIN best]
BY DEF Intents, SellOrders, SellOrder, Sells, FoldLeft, MapThenFoldSet, Booking, WithBuy

\* The orders a rebalance may get to are in V.
Books(deltas, V) ==
  /\ SellOrders(deltas) \in V
  /\ \A v \in V : \A b \in Signals : WithBuy(deltas, v, b) \in V

\* The orders of a rebalance, signal by signal.
LEMMA BuyHistory ==
  ASSUME NEW deltas, NEW l, l \in Seq(Signals), NEW V, Books(deltas, V)
  PROVE  \E h \in [0..Len(l) -> V] :
           /\ h[0] = SellOrders(deltas)
           /\ \A i \in Nat : i < Len(l) => h[i + 1] = WithBuy(deltas, h[i], l[i + 1])
           /\ h[Len(l)] = Intents(l, deltas)
<1> DEFINE n == Len(l)
           base == SellOrders(deltas)
           op == [i \in 1..n |-> [v \in V |-> WithBuy(deltas, v, l[i])]]
           G == CHOOSE g : Booking(g, deltas, base, l)
<1>0. n \in Nat /\ DOMAIN l = 1..n /\ (\A i \in 1..n : l[i] \in Signals)
  OBVIOUS
<1> HIDE DEF n, base
<1>1. Intents(l, deltas) = G[1..n]
  BY <1>0, IntentsAreFold DEF base
<1>2. \A i \in 1..n : \A v \in V : op[i][v] = WithBuy(deltas, v, l[i]) /\ op[i][v] \in V
  BY <1>0 DEF Books
<1> HIDE DEF op
<1>3. Operates(op, base, V, n)
  BY <1>0, <1>2 DEF Operates, Books, base
<1>4. \A s \in SUBSET (1..n) : s # {} => Max(s) \in 1..n /\ LastOf(n)[s] = Max(s)
  BY <1>0, LastPicks DEF Picks, LastOf
<1>5. \E g : Booking(g, deltas, base, l)
  <2>1. PICK g : Folds(g, base, op, LastOf(n), 1..n) /\ \A w \in SUBSET (1..n) : g[w] \in V
    BY <1>3, StepsExist
  <2> DEFINE L(s) == IF s = {} THEN base ELSE op[LastOf(n)[s]][g[s \ {LastOf(n)[s]}]]
             R(s) == IF s = {} THEN base ELSE WithBuy(deltas, g[s \ {Max(s)}], l[Max(s)])
  <2>2. ASSUME NEW s \in SUBSET (1..n) PROVE L(s) = R(s)
    <3>1. CASE s = {}
      BY <3>1
    <3>2. CASE s # {}
      <4>1. s \ {Max(s)} \in SUBSET (1..n)
        OBVIOUS
      <4> QED BY <1>2, <1>4, <2>1, <3>2, <4>1
    <3> QED BY <3>1, <3>2
  <2>3. g = [s \in SUBSET (1..n) |-> L(s)]
    BY <2>1 DEF Folds
  <2>4. Booking(g, deltas, base, l) <=> g = [s \in SUBSET (1..n) |-> R(s)]
    BY <1>0 DEF Booking
  <2> HIDE DEF L, R
  <2> QED BY <2>2, <2>3, <2>4
<1>6. Booking(G, deltas, base, l)
  BY <1>5
<1> HIDE DEF G
<1>7. Steps(G, base, op, V, n)
  <2>1. G[{}] = base
    BY <1>6 DEF Booking
  <2>2. ASSUME NEW s \in SUBSET (1..n), s # {}, G[s \ {Max(s)}] \in V
        PROVE  G[s] = op[Max(s)][G[s \ {Max(s)}]]
    <3>1. G[s] = WithBuy(deltas, G[s \ {Max(s)}], l[Max(s)])
      BY <1>0, <1>6, <2>2 DEF Booking
    <3> QED BY <1>2, <1>4, <2>2, <3>1
  <2> QED BY <2>1, <2>2 DEF Steps
<1>8. PICK h \in [0..n -> V] :
           /\ h[0] = base
           /\ \A i \in Nat : i < n => h[i + 1] = op[i + 1][h[i]]
           /\ h[n] = G[1..n]
  BY <1>3, <1>7, History
<1>9. \A i \in Nat : i < n => h[i + 1] = WithBuy(deltas, h[i], l[i + 1])
  <2> SUFFICES ASSUME NEW i \in Nat, i < n PROVE h[i + 1] = WithBuy(deltas, h[i], l[i + 1])
    OBVIOUS
  <2>1. i + 1 \in 1..n /\ h[i] \in V
    BY <1>0
  <2> QED BY <1>2, <1>8, <2>1
<1> QED BY <1>1, <1>8, <1>9 DEF n, base
-----------------------------------------------------------------------------
(* What the stages make of the targets: whole lots, and no more than is held. *)

\* The elements of a finite set in a sequence, each of them once.
LEMMA SetInSequence ==
  ASSUME NEW S, IsFiniteSet(S)
  PROVE  /\ SetToSeq(S) \in Seq(S)
         /\ \A i, j \in DOMAIN SetToSeq(S) : SetToSeq(S)[i] = SetToSeq(S)[j] => i = j
<1> DEFINE n == Cardinality(S)
<1>1. n \in Nat /\ ExistsBijection(1..n, S)
  BY FS_CardinalityType
<1>2. \E f \in [1..n -> S] : IsInjective(f)
  BY <1>1 DEF ExistsBijection, Bijection, Injection
<1> DEFINE q == SetToSeq(S)
<1>3. q \in [1..n -> S] /\ IsInjective(q)
  BY <1>2 DEF SetToSeq
<1> HIDE DEF q, n
<1>4. q \in Seq(S) /\ \A i, j \in DOMAIN q : q[i] = q[j] => i = j
  BY <1>1, <1>3 DEF IsInjective
<1> QED BY <1>4 DEF q

LEMMA LotIs == Lot \in Nat \ {0} /\ MaxPositions \in Nat \ {0} /\ Rates.base \in Nat \ {0}
BY ConstantsAssumption

Whole(n) == \E k \in Nat : n = k * Lot

LEMMA WholeIsMultiple ==
  ASSUME NEW n, Whole(n) PROVE n \in Nat /\ n % Lot = 0
<1>1. PICK k \in Nat : n = k * Lot
  BY DEF Whole
<1>2. n \in Nat
  BY <1>1, LotIs
<1>3. n \div Lot \in Nat /\ n % Lot \in 0..(Lot - 1) /\ n % Lot = n - Lot * (n \div Lot)
  BY <1>2, LotIs, Division
<1> DEFINE q == n \div Lot
<1>4. n % Lot = Lot * (k - q)
  <2>1. Lot * (k - q) = Lot * k - Lot * q
    BY <1>3, LotIs, Distributes
  <2>2. Lot * k = n
    BY <1>1, LotIs
  <2> QED BY <1>3, <2>1, <2>2
<1> HIDE DEF q
<1>5. q \in Nat
  BY <1>3 DEF q
<1>6. Lot * (k - q) < Lot * 1 /\ Lot * (-1) < Lot * (k - q)
  BY <1>3, <1>4, LotIs
<1>7. k - q < 1 /\ -1 < k - q
  <2>1. k - q \in Int /\ 1 \in Int /\ -1 \in Int
    BY <1>5
  <2> QED BY <1>6, <2>1, LotIs, Cancel
<1>8. k - q = 0
  BY <1>5, <1>7
<1> QED BY <1>2, <1>4, <1>8, LotIs

LEMMA WholeAdds ==
  ASSUME NEW m, NEW n, Whole(m), Whole(n)
  PROVE  Whole(m + n) /\ (n <= m => Whole(m - n))
<1>1. PICK j \in Nat, k \in Nat : m = j * Lot /\ n = k * Lot
  BY DEF Whole
<1>2. m + n = (j + k) * Lot /\ m - n = (j - k) * Lot
  BY <1>1, LotIs
<1>3. n <= m => j - k \in Nat
  <2> SUFFICES ASSUME n <= m, j < k PROVE FALSE
    OBVIOUS
  <2>1. m - n = Lot * (j - k) /\ m - n >= 0
    BY <1>1, <1>2, LotIs
  <2>2. Lot * (-1) < Lot * (j - k)
    BY <2>1, LotIs
  <2>3. -1 < j - k
    BY <2>2, LotIs, Cancel
  <2> QED BY <2>3
<1>4. j + k \in Nat
  OBVIOUS
<1> QED BY <1>2, <1>3, <1>4, Zenon DEF Whole

\* Rounding a size to lots: a whole number of them, one at least, and no more than
\* the whole number of lots it is taken from.
LEMMA LotsFit ==
  ASSUME NEW n \in Nat \ {0}
  PROVE  /\ Lots(n) \in Nat /\ Lots(n) >= Lot /\ Whole(Lots(n))
         /\ \A h : Whole(h) /\ n <= h => Lots(n) <= h
<1> DEFINE k == n \div Lot
<1>1. k \in Nat /\ n % Lot \in 0..(Lot - 1) /\ n % Lot = n - Lot * k
  BY LotIs, Division
<1> HIDE DEF k
<1>2. k * Lot \in Nat /\ k * Lot <= n
  BY <1>1, LotIs
<1>3. Lots(n) = Lot \/ Lots(n) = k * Lot
  BY DEF Lots, Larger, k
<1>4. Lots(n) >= Lot /\ Lots(n) \in Nat
  BY <1>2, LotIs DEF Lots, Larger, k
<1>5. Whole(Lots(n))
  <2>1. Lot = 1 * Lot
    BY LotIs
  <2> QED BY <1>1, <1>3, <2>1 DEF Whole
<1>6. ASSUME NEW h, Whole(h), n <= h PROVE Lots(n) <= h
  <2>1. PICK j \in Nat : h = j * Lot
    BY <1>6 DEF Whole
  <2>2. h \in Nat /\ h > 0
    BY <1>6, <2>1, LotIs
  <2>3. j # 0
    BY <2>1, <2>2, LotIs
  <2>4. j >= 1 /\ j * Lot = Lot + (j - 1) * Lot /\ (j - 1) * Lot >= 0
    <3>1. j - 1 \in Nat
      BY <2>3
    <3>2. (j - 1) * Lot \in Nat
      BY <3>1, LotIs
    <3>3. j * Lot = Lot + (j - 1) * Lot
      BY <2>3, LotIs
    <3> QED BY <2>3, <3>2, <3>3
  <2>5. Lot <= h
    BY <2>1, <2>2, <2>4, LotIs
  <2> QED BY <1>2, <1>3, <1>6, <2>2, <2>5
<1> QED BY <1>4, <1>5, <1>6

LEMMA BestTyped ==
  ASSUME NEW l \in Seq(Signals) PROVE Best(l) \in Seq(Signals)
<1>1. FoldLeft(Pick, <<>>, l) \in Seq(Signals)
  <2>1. PICK h \in [0..Len(l) -> Seq(Signals)] : h[Len(l)] = FoldLeft(Pick, <<>>, l)
    BY PickHistory
  <2>2. Len(l) \in 0..Len(l)
    OBVIOUS
  <2> QED BY <2>1, <2>2
<1>2. SubSeq(l, 1, Smaller(MaxPositions, Len(l))) \in Seq(Signals)
  <2>1. Smaller(MaxPositions, Len(l)) \in 0..Len(l)
    BY LotIs DEF Smaller
  <2> QED BY <2>1
<1> QED BY <1>1, <1>2, Zenon DEF Best
\* The numbers of the account.
Numbers ==
  /\ config \in Configs
  /\ price \in Sizes /\ holdings \in Sizes
  /\ \A s \in Symbols : Whole(holdings[s])
  /\ cash \in Int /\ opened \in Int /\ paid \in Int

LEMMA AmountTyped ==
  ASSUME Numbers, NEW s \in Symbols, NEW n \in Nat
  PROVE  /\ Amount(s, n) \in Nat
         /\ price[s] > 0 /\ n > 0 => Amount(s, n) > 0
<1>1. price[s] \in Nat
  BY DEF Numbers, Sizes
<1>2. price[s] * n \in Nat
  BY <1>1
<1>3. price[s] > 0 /\ n > 0 => price[s] * n > 0
  <2>1. ASSUME price[s] >= 1, n >= 1 PROVE price[s] * n > 0
    <3>1. price[s] * n = n + (price[s] - 1) * n /\ price[s] - 1 \in Nat
      BY <1>1, <2>1
    <3>2. (price[s] - 1) * n \in Nat
      BY <3>1
    <3> QED BY <2>1, <3>1, <3>2
  <2> QED BY <1>1, <2>1
<1> DEFINE m == price[s] * n
<1>4. m \in Nat /\ (price[s] > 0 /\ n > 0 => m > 0)
  BY <1>2, <1>3
<1>5. Amount(s, n) = m * Rates.base
  BY DEF Amount
<1> HIDE DEF m
<1>6. m * Rates.base \in Nat
  BY <1>4, LotIs
<1>7. m > 0 => m * Rates.base > 0
  <2>1. ASSUME m >= 1, Rates.base >= 1 PROVE m * Rates.base > 0
    <3>1. m * Rates.base = Rates.base + (m - 1) * Rates.base /\ m - 1 \in Nat
      BY <1>4, <2>1, LotIs
    <3>2. (m - 1) * Rates.base \in Nat
      BY <3>1, LotIs
    <3> QED BY <2>1, <3>1, <3>2, LotIs
  <2> QED BY <1>4, <2>1, LotIs
<1> QED BY <1>4, <1>5, <1>6, <1>7

LEMMA EquityTyped == ASSUME Numbers PROVE Exposure \in Int /\ Equity \in Int
BY ExposureIsTotal, TotalTyped DEF Numbers, Equity

\* The product of two positive numbers, and a quotient of one.
LEMMA Positive ==
  ASSUME NEW m \in Nat \ {0}, NEW n \in Nat \ {0} PROVE m * n \in Nat \ {0}
<1>1. m * n = n + (m - 1) * n /\ m - 1 \in Nat
  OBVIOUS
<1>2. (m - 1) * n \in Nat
  BY <1>1
<1> QED BY <1>1, <1>2

LEMMA Quotient ==
  ASSUME NEW x \in Int, NEW m \in Nat \ {0} PROVE x \div m \in Int
OBVIOUS

LEMMA SignalAt ==
  ASSUME NEW l \in Seq(Signals), NEW i \in DOMAIN l
  PROVE  l[i] \in Signals /\ l[i].symbol \in Symbols /\ i \in 1..Len(l) /\ Len(l) \in Nat
<1>1. l[i] \in Signals /\ i \in 1..Len(l) /\ Len(l) \in Nat
  OBVIOUS
<1>2. l[i].symbol \in Symbols
  BY <1>1, SMT DEF Signals
<1> QED BY <1>1, <1>2

LEMMA SizedSharesTyped ==
  ASSUME Numbers, NEW best \in Seq(Signals), NEW w \in Seq(Nat \ {0}),
         Len(w) = IF config.constructor = "inverse_vol" THEN Len(best) ELSE 0,
         NEW i \in DOMAIN best, price[best[i].symbol] > 0
  PROVE  SizedShares(best, w, i) \in Int
<1> DEFINE lot == Amount(best[i].symbol, Lot)
           sum == IF config.constructor = "equal" THEN Len(best) ELSE FoldLeft(+, 0, w)
           own == IF config.constructor = "equal" THEN 1 ELSE w[i]
<1>1. best[i].symbol \in Symbols /\ i \in 1..Len(best) /\ Len(best) \in Nat
  BY SignalAt
<1>2. lot \in Nat \ {0}
  <2>1. PICK s, n : s = best[i].symbol /\ n = Lot
    OBVIOUS
  <2>2. s \in Symbols /\ n \in Nat /\ n > 0 /\ price[s] > 0
    BY <1>1, <2>1, LotIs
  <2>3. Amount(s, n) \in Nat /\ Amount(s, n) > 0
    BY <2>2, AmountTyped
  <2> QED BY <2>1, <2>3
<1>3. /\ config.pct \in Nat /\ config.constructor \in {"equal", "inverse_vol", "constrained"}
      /\ MaxSingle \in Nat /\ MaxPositions \in Nat \ {0} /\ cash \in Int
  BY ConstantsAssumption DEF Numbers
<1> HIDE DEF lot
<1>4. CASE config.constructor = "constrained"
  <2>1. BaseWeight \in Int
    <3>1. MaxSingle * MaxPositions \in Int
      BY <1>3
    <3> QED BY <1>3, <3>1 DEF BaseWeight, Smaller
  <2>2. Equity * BaseWeight \in Int
    BY <2>1, EquityTyped
  <2>3. 100 * MaxPositions * lot \in Nat \ {0}
    <3>1. 100 * MaxPositions \in Nat \ {0}
      BY <1>3
    <3> QED BY <1>2, <3>1, Positive
  <2>4. (Equity * BaseWeight) \div (100 * MaxPositions * lot) \in Int
    BY <2>2, <2>3, Quotient
  <2>5. SizedShares(best, w, i)
          = Lot * ((Equity * BaseWeight) \div (100 * MaxPositions * lot))
    BY <1>4 DEF SizedShares, lot
  <2> QED BY <2>4, <2>5, LotIs
<1>5. CASE config.constructor # "constrained"
  <2>1. sum \in Nat \ {0} /\ own \in Nat
    <3>1. CASE config.constructor = "equal"
      <4>1. sum = Len(best) /\ own = 1
        BY <3>1, Zenon
      <4>2. Len(best) \in Nat \ {0}
        BY <1>1
      <4> HIDE DEF sum, own
      <4> QED BY <4>1, <4>2
    <3>2. CASE config.constructor = "inverse_vol"
      <4>1. Len(w) = Len(best) /\ Len(w) > 0 /\ i \in 1..Len(w)
        BY <1>1, <3>2
      <4>2. FoldLeft(+, 0, w) \in Nat \ {0}
        BY <4>1, WeightsAddUp
      <4>4. w[i] \in Nat
        BY <4>1
      <4>3. config.constructor # "equal"
        BY <3>2
      <4> QED BY <3>2, <4>2, <4>3, <4>4
    <3> QED BY <1>3, <1>5, <3>1, <3>2
  <2> HIDE DEF sum, own
  <2>2. 100 * sum * lot \in Nat \ {0}
    <3>1. 100 * sum \in Nat \ {0}
      BY <2>1
    <3> QED BY <1>2, <3>1, Positive
  <2>3. cash * config.pct * own \in Int
    <3>1. cash * config.pct \in Int
      BY <1>3
    <3> QED BY <2>1, <3>1
  <2>4. (cash * config.pct * own) \div (100 * sum * lot) \in Int
    BY <2>2, <2>3, Quotient
  <2>5. SizedShares(best, w, i) = Lot * ((cash * config.pct * own) \div (100 * sum * lot))
    BY <1>5 DEF SizedShares, lot, sum, own
  <2> QED BY <2>4, <2>5, LotIs
<1> QED BY <1>4, <1>5

LEMMA TargetSharesTyped ==
  ASSUME Numbers, NEW best \in Seq(Signals), NEW w \in Seq(Nat \ {0}),
         Len(w) = IF config.constructor = "inverse_vol" THEN Len(best) ELSE 0,
         NEW i \in DOMAIN best, price[best[i].symbol] > 0
  PROVE  TargetShares(best, w, i) \in Int
BY SizedSharesTyped DEF TargetShares, Larger

\* Changes of shares, for symbols that have a price.
Changes(deltas) ==
  /\ DOMAIN deltas \subseteq {s \in Symbols : price[s] > 0}
  /\ \A s \in DOMAIN deltas : deltas[s] \in Int

LEMMA TargetsTyped ==
  ASSUME Numbers, NEW best \in Seq(Signals), NEW w \in Seq(Nat \ {0}),
         Len(w) = IF config.constructor = "inverse_vol" THEN Len(best) ELSE 0
  PROVE  Changes(Targets(best, w))
<1> DEFINE wanted == {i \in DOMAIN best : price[best[i].symbol] > 0}
           index(s) == CHOOSE i \in wanted : best[i].symbol = s
           named  == {best[i].symbol : i \in wanted}
           left   == {s \in Held : price[s] > 0 /\ s \notin {b.symbol : b \in Range(best)}}
           D(s) == IF s \in named THEN TargetShares(best, w, index(s)) - holdings[s]
                                  ELSE -holdings[s]
<1>1. Targets(best, w) = [s \in named \cup left |-> D(s)]
  BY DEF Targets
<1>2. \A i \in DOMAIN best : best[i].symbol \in Symbols
  BY SignalAt
<1>3. named \cup left \subseteq {s \in Symbols : price[s] > 0}
  BY <1>2 DEF Held
<1>4. ASSUME NEW s \in named \cup left PROVE D(s) \in Int
  <2>1. holdings[s] \in Nat
    BY <1>3 DEF Numbers, Sizes
  <2>2. CASE s \in named
    <3>1. index(s) \in wanted
      BY <2>2
    <3> HIDE DEF index
    <3>2. TargetShares(best, w, index(s)) \in Int
      BY <3>1, TargetSharesTyped
    <3> QED BY <2>1, <2>2, <3>2
  <2>3. CASE s \notin named
    BY <2>1, <2>3
  <2> QED BY <2>2, <2>3
<1> HIDE DEF D, named, left
<1> QED BY <1>1, <1>3, <1>4 DEF Changes

LEMMA AdjustedTyped ==
  ASSUME NEW deltas, Changes(deltas)
  PROVE  Changes([s \in DOMAIN deltas |-> Adjusted(s, deltas[s])])
<1>1. ASSUME NEW s \in DOMAIN deltas PROVE Adjusted(s, deltas[s]) \in Int
  <2>1. deltas[s] \in Int /\ deltas[s] \div 2 \in Int
    BY DEF Changes
  <2> QED BY <2>1 DEF Adjusted
<1> QED BY <1>1 DEF Changes
-----------------------------------------------------------------------------
(* The orders of a day.                                                      *)

OrderSet == [side: {"buy", "sell"}, symbol: Symbols, shares: Nat]

\* An order for whole lots of a symbol that has a price, and a sale of what is held.
OrderFits(o) ==
  /\ o \in OrderSet
  /\ price[o.symbol] > 0
  /\ Whole(o.shares) /\ o.shares >= Lot
  /\ o.side = "sell" => o.shares <= holdings[o.symbol]

\* A symbol is sold once.
SoldOnce(q) ==
  \A i, j \in DOMAIN q :
    q[i].side = "sell" /\ q[j].side = "sell" /\ q[i].symbol = q[j].symbol => i = j

OrdersFit(q) ==
  q \in Seq(OrderSet) /\ (\A i \in DOMAIN q : OrderFits(q[i])) /\ SoldOnce(q)

LEMMA SellOrderFits ==
  ASSUME Numbers, NEW deltas, Changes(deltas), NEW s \in Sells(deltas)
  PROVE  /\ OrderFits(SellOrder(deltas, s))
         /\ SellOrder(deltas, s).side = "sell" /\ SellOrder(deltas, s).symbol = s
<1> DEFINE n == Smaller(-deltas[s], holdings[s])
<1>1. /\ s \in Symbols /\ price[s] > 0 /\ deltas[s] \in Int /\ deltas[s] < 0
      /\ holdings[s] \in Nat /\ holdings[s] > 0 /\ Whole(holdings[s])
  BY DEF Changes, Sells, Numbers, Sizes
<1>2. n \in Nat \ {0} /\ n <= holdings[s]
  BY <1>1 DEF Smaller
<1> HIDE DEF n
<1>3. Lots(n) \in Nat /\ Lots(n) >= Lot /\ Whole(Lots(n)) /\ Lots(n) <= holdings[s]
  BY <1>1, <1>2, LotsFit
<1>4. SellOrder(deltas, s) = [side |-> "sell", symbol |-> s, shares |-> Lots(n)]
  BY DEF SellOrder, Order, n
<1> QED BY <1>1, <1>3, <1>4 DEF OrderFits, OrderSet

LEMMA SellOrdersFit ==
  ASSUME Numbers, NEW deltas, Changes(deltas) PROVE OrdersFit(SellOrders(deltas))
<1> DEFINE S == {SellOrder(deltas, s) : s \in Sells(deltas)}
           q == SellOrders(deltas)
<1>1. IsFiniteSet(S)
  <2>1. IsFiniteSet(Sells(deltas))
    <3>1. Sells(deltas) \subseteq Symbols
      BY DEF Sells, Changes
    <3> QED BY <3>1, ConstantsAssumption, FS_Subset
  <2> DEFINE T == Sells(deltas)
             f == [s \in T |-> SellOrder(deltas, s)]
  <2>2. f \in Surjection(T, S)
    BY DEF Surjection
  <2> HIDE DEF f, T, S
  <2> QED BY <2>1, <2>2, FS_Surjection DEF T
<1>2. q \in Seq(S) /\ \A i, j \in DOMAIN q : q[i] = q[j] => i = j
  <2>1. q = SetToSeq(S)
    BY DEF SellOrders
  <2> HIDE DEF q, S
  <2> QED BY <1>1, <2>1, SetInSequence
<1> HIDE DEF q
<1>3. ASSUME NEW i \in DOMAIN q
      PROVE  \E s \in Sells(deltas) : q[i] = SellOrder(deltas, s)
  <2>1. q[i] \in S
    BY <1>2
  <2> QED BY <2>1
<1>4. \A i \in DOMAIN q : OrderFits(q[i])
  BY <1>3, SellOrderFits
<1>5. q \in Seq(OrderSet)
  <2>1. \A o \in S : o \in OrderSet
    BY SellOrderFits DEF OrderFits
  <2> QED BY <1>2, <2>1
<1>6. SoldOnce(q)
  <2> SUFFICES ASSUME NEW i \in DOMAIN q, NEW j \in DOMAIN q, q[i].symbol = q[j].symbol
               PROVE  i = j
    BY DEF SoldOnce
  <2>1. PICK s \in Sells(deltas) : q[i] = SellOrder(deltas, s)
    BY <1>3
  <2>2. PICK t \in Sells(deltas) : q[j] = SellOrder(deltas, t)
    BY <1>3
  <2>3. s = t
    BY <2>1, <2>2, SellOrderFits
  <2> QED BY <1>2, <2>1, <2>2, <2>3
<1> QED BY <1>4, <1>5, <1>6 DEF OrdersFit, q

LEMMA WithBuyFits ==
  ASSUME Numbers, NEW deltas, Changes(deltas), NEW q, OrdersFit(q), NEW b
  PROVE  OrdersFit(WithBuy(deltas, q, b))
<1> DEFINE s == b.symbol
           n == deltas[s]
           o == Order("buy", s, n)
<1>1. CASE ~(s \in DOMAIN deltas /\ n > 0)
  BY <1>1 DEF WithBuy
<1>2. CASE s \in DOMAIN deltas /\ n > 0
  <2>1. s \in Symbols /\ price[s] > 0 /\ n \in Nat \ {0}
    BY <1>2 DEF Changes
  <2> HIDE DEF n, s
  <2>2. Lots(n) \in Nat /\ Lots(n) >= Lot /\ Whole(Lots(n))
    BY <2>1, LotsFit
  <2>3. o = [side |-> "buy", symbol |-> s, shares |-> Lots(n)]
    BY DEF Order
  <2>4. OrderFits(o) /\ o \in OrderSet /\ o.side = "buy"
    BY <2>1, <2>2, <2>3 DEF OrderFits, OrderSet
  <2>5. WithBuy(deltas, q, b) = Append(q, o)
    BY <1>2 DEF WithBuy, s, n
  <2> HIDE DEF o
  <2>6. q \in Seq(OrderSet)
    BY DEF OrdersFit
  <2> DEFINE m == Append(q, o)
  <2>7. /\ m \in Seq(OrderSet) /\ DOMAIN m = 1..(Len(q) + 1) /\ DOMAIN q = 1..Len(q)
        /\ Len(q) \in Nat /\ m[Len(q) + 1] = o /\ \A i \in 1..Len(q) : m[i] = q[i]
    BY <2>4, <2>6
  <2> HIDE DEF m
  <2>8. ASSUME NEW i \in DOMAIN m PROVE (i \in DOMAIN q /\ m[i] = q[i]) \/ m[i] = o
    BY <2>7
  <2>9. \A i \in DOMAIN m : OrderFits(m[i])
    BY <2>4, <2>8 DEF OrdersFit
  <2>10. SoldOnce(m)
    <3> SUFFICES ASSUME NEW i \in DOMAIN m, NEW j \in DOMAIN m,
                        m[i].side = "sell", m[j].side = "sell", m[i].symbol = m[j].symbol
                 PROVE  i = j
      BY DEF SoldOnce
    <3>1. /\ i \in DOMAIN q /\ m[i] = q[i]
          /\ j \in DOMAIN q /\ m[j] = q[j]
      BY <2>4, <2>8
    <3> QED BY <3>1 DEF OrdersFit, SoldOnce
  <2> QED BY <2>5, <2>7, <2>9, <2>10 DEF OrdersFit, m
<1> QED BY <1>1, <1>2

\* The orders of a rebalance fit the account.
LEMMA IntentsFit ==
  ASSUME Numbers, NEW deltas, Changes(deltas), NEW best \in Seq(Signals)
  PROVE  OrdersFit(Intents(best, deltas))
<1> DEFINE V == {q \in Seq(OrderSet) : OrdersFit(q)}
<1>1. SellOrders(deltas) \in V
  BY SellOrdersFit DEF OrdersFit
<1>2. \A v \in V : \A b \in Signals : WithBuy(deltas, v, b) \in V
  <2> SUFFICES ASSUME NEW v \in V, NEW b \in Signals PROVE WithBuy(deltas, v, b) \in V
    OBVIOUS
  <2>1. OrdersFit(WithBuy(deltas, v, b))
    BY WithBuyFits
  <2> QED BY <2>1 DEF OrdersFit
<1> HIDE DEF V
<1>3. PICK h \in [0..Len(best) -> V] : h[Len(best)] = Intents(best, deltas)
  <2>1. PICK W : W = V
    OBVIOUS
  <2>2. Books(deltas, W)
    BY <1>1, <1>2, <2>1 DEF Books
  <2>3. \E h \in [0..Len(best) -> W] :
           /\ h[0] = SellOrders(deltas)
           /\ \A i \in Nat : i < Len(best) => h[i + 1] = WithBuy(deltas, h[i], best[i + 1])
           /\ h[Len(best)] = Intents(best, deltas)
    BY <2>2, BuyHistory
  <2> QED BY <2>1, <2>3
<1>4. Len(best) \in 0..Len(best)
  OBVIOUS
<1>5. Intents(best, deltas) \in V
  BY <1>3, <1>4
<1> QED BY <1>5 DEF V
-----------------------------------------------------------------------------
(* The books of the account.                                                 *)

\* The account is worth what it was when the day opened, less the fees since, and the
\* orders of the day fit it.
Accounted ==
  /\ Numbers
  /\ Equity = opened - paid
  /\ phase = "filling" => OrdersFit(intents) /\ intents # <<>>

LEMMA InitAccounted == ASSUME Init PROVE Accounted
<1>1. /\ price \in Sizes /\ holdings \in Sizes /\ config \in Configs
      /\ \A s \in Symbols : holdings[s] = 0
      /\ cash = InitialCash /\ opened = InitialCash /\ paid = 0 /\ phase = "over"
  BY DEF Init, Sizes
<1>2. Whole(0)
  <2>1. 0 = 0 * Lot
    BY LotIs
  <2> QED BY <2>1 DEF Whole
<1>3. InitialCash \in Int
  BY ConstantsAssumption
<1>4. Exposure = 0
  BY <1>1, TotalNone, ExposureIsTotal
<1> QED BY <1>1, <1>2, <1>3, <1>4 DEF Accounted, Numbers, Equity

LEMMA NewDayAccounts ==
  ASSUME Accounted, NEW gap \in Gaps, NEW prices \in PriceLists, NEW r \in Regimes,
         NewDay(gap, prices, r)
  PROVE  Accounted'
<1>1. /\ price' = prices /\ phase' = "opened" /\ paid' = 0
      /\ UNCHANGED <<config, cash, holdings>>
  BY DEF NewDay
<1>2. prices \in Sizes
  BY ConstantsAssumption DEF Sizes
<1>3. opened' = cash + Total(prices, holdings)
  BY DEF NewDay, Total
<1>4. Total(prices, holdings) \in Int /\ cash \in Int
  BY <1>2, TotalTyped DEF Accounted, Numbers
<1>5. Numbers'
  BY <1>1, <1>2, <1>3, <1>4 DEF Accounted, Numbers
<1>6. Exposure' = Total(prices, holdings)
  BY <1>1, ExposureIsTotal
<1>7. Equity' = cash' + Exposure'
  BY DEF Equity
<1> QED BY <1>1, <1>3, <1>4, <1>5, <1>6, <1>7 DEF Accounted

\* Orders that fit still fit when no less is held of what is to be sold.
LEMMA FitsLater ==
  ASSUME NEW q, intents' = q, OrdersFit(q), price' = price,
         holdings \in Sizes, holdings' \in Sizes,
         \A i \in DOMAIN q :
           q[i].side = "sell" => holdings'[q[i].symbol] >= holdings[q[i].symbol]
  PROVE  OrdersFit(intents)'
<1>1. ASSUME NEW i \in DOMAIN q PROVE OrderFits(q[i])'
  <2> DEFINE o == q[i]
  <2>1. OrderFits(o)
    BY DEF OrdersFit
  <2>2. o.side = "sell" => holdings'[o.symbol] >= holdings[o.symbol]
    OBVIOUS
  <2> HIDE DEF o
  <2>3. o.symbol \in Symbols /\ o.shares \in Nat
    BY <2>1 DEF OrderFits, OrderSet
  <2>4. holdings'[o.symbol] \in Nat /\ holdings[o.symbol] \in Nat
    BY <2>3 DEF Sizes
  <2>5. o.side = "sell" => o.shares <= holdings'[o.symbol]
    BY <2>1, <2>2, <2>3, <2>4 DEF OrderFits
  <2>6. price'[o.symbol] > 0
    BY <2>1 DEF OrderFits
  <2>7. OrderFits(o)'
    BY <2>1, <2>5, <2>6 DEF OrderFits
  <2> QED BY <2>7 DEF o
<1> QED BY <1>1 DEF OrdersFit, SoldOnce

LEMMA SameWorth ==
  ASSUME UNCHANGED <<price, cash, holdings>> PROVE Equity' = Equity
BY ExposureIsTotal DEF Equity

LEMMA RebalanceAccounts ==
  ASSUME Accounted, NEW signals \in SignalLists, NEW w \in Weights, Rebalance(signals, w)
  PROVE  Accounted'
<1> DEFINE best   == Best(signals)
           deltas == IF \/ signals = <<>>
                        \/ config.constructor = "constrained" /\ Equity <= 0
                     THEN <<>> ELSE Targets(best, w)
           parts  == [s \in DOMAIN deltas |-> Adjusted(s, deltas[s])]
           orders == Intents(best, parts)
<1>1. /\ UNCHANGED <<config, day, regime, price, cash, holdings, opened, paid>>
      /\ intents' = orders
      /\ phase' = IF orders = <<>> THEN "over" ELSE "filling"
      /\ Len(w) = IF config.constructor = "inverse_vol" THEN Len(best) ELSE 0
  BY DEF Rebalance
<1>2. signals \in Seq(Signals) /\ w \in Seq(Nat \ {0})
  BY ConstantsAssumption DEF Signals
<1>3. best \in Seq(Signals)
  BY <1>2, BestTyped
<1> HIDE DEF best
<1>4. Changes(deltas)
  <2>1. Changes(<<>>)
    <3>1. DOMAIN <<>> = {}
      OBVIOUS
    <3> QED BY <3>1 DEF Changes
  <2>2. Changes(Targets(best, w))
    BY <1>1, <1>2, <1>3, TargetsTyped DEF Accounted
  <2> QED BY <2>1, <2>2
<1> HIDE DEF deltas
<1>5. Changes(parts)
  BY <1>4, AdjustedTyped
<1> HIDE DEF parts
<1>6. OrdersFit(orders)
  BY <1>3, <1>5, IntentsFit DEF Accounted
<1> HIDE DEF orders
<1>7. OrdersFit(intents)'
  <2>1. \A i \in DOMAIN orders : orders[i].symbol \in Symbols
    BY <1>6 DEF OrdersFit, OrderFits, OrderSet
  <2>2. holdings \in Sizes
    BY DEF Accounted, Numbers
  <2>3. \A s \in Symbols : holdings'[s] >= holdings[s]
    BY <1>1, <2>2 DEF Sizes
  <2> QED BY <1>1, <1>6, <2>1, <2>2, <2>3, FitsLater
<1>8. Numbers'
  BY <1>1 DEF Accounted, Numbers
<1>9. Equity' = Equity /\ opened' = opened /\ paid' = paid
  BY <1>1, SameWorth
<1> QED BY <1>1, <1>7, <1>8, <1>9 DEF Accounted

LEMMA FeeTyped ==
  ASSUME Numbers, NEW side, NEW s \in Symbols, NEW n \in Nat PROVE Fee(side, s, n) \in Int
<1>1. /\ Rates.commission \in Nat /\ Rates.transfer \in Nat /\ Rates.stamp \in Nat
      /\ Rates.min \in Nat /\ Rates.fund \in Nat /\ Rates.fundMin \in Nat
      /\ Rates.cent \in Nat \ {0}
  BY ConstantsAssumption
<1>2. price[s] * n \in Nat
  <2>1. price[s] \in Nat
    BY DEF Numbers, Sizes
  <2> QED BY <2>1
<1> DEFINE m == price[s] * n
<1>3. /\ m * Rates.commission \in Nat /\ m * Rates.transfer \in Nat
      /\ m * Rates.stamp \in Nat /\ m * Rates.fund \in Nat
  BY <1>1, <1>2
<1> HIDE DEF m
<1>4. CalcCost(side, s, n) \in Nat
  <2>1. CASE s \in Funds
    <3>1. CalcCost(side, s, n) = Larger(m * Rates.fund, Rates.fundMin)
      BY <2>1 DEF CalcCost, m
    <3> QED BY <1>1, <1>3, <3>1 DEF Larger
  <2>2. CASE s \notin Funds
    <3>1. CalcCost(side, s, n)
            = Larger(m * Rates.commission, Rates.min) + m * Rates.transfer
                + (IF side = "sell" THEN m * Rates.stamp ELSE 0)
      BY <2>2 DEF CalcCost, m
    <3> QED BY <1>1, <1>3, <3>1 DEF Larger
  <2> QED BY <2>1, <2>2
<1> DEFINE c == CalcCost(side, s, n)
           k == (2 * c + Rates.cent) \div (2 * Rates.cent)
<1> HIDE DEF c
<1>5. c \in Nat /\ 2 * Rates.cent \in Nat \ {0} /\ 2 * c + Rates.cent \in Int
  BY <1>1, <1>4 DEF c
<1>6. k \in Int
  BY <1>5, Quotient
<1> HIDE DEF k
<1>7. Fee(side, s, n) = k * Rates.cent
  BY DEF Fee, k, c
<1> QED BY <1>1, <1>6, <1>7
\* A fill moves cash and shares of the same worth, and pays its fee.
LEMMA FillAccounts ==
  ASSUME Accounted, Fill PROVE Accounted'
<1> DEFINE o    == Head(intents)
           s    == o.symbol
           n    == o.shares
           fee  == Fee(o.side, s, n)
           cost == Amount(s, n) + fee
           sold == o.side = "sell"
           done == sold \/ CanPay(cost)
           new  == IF sold THEN Larger(0, holdings[s] - n)
                   ELSE IF done THEN holdings[s] + n ELSE holdings[s]
<1>1. /\ phase = "filling"
      /\ cash' = IF sold THEN cash + cost - 2 * fee ELSE IF done THEN cash - cost ELSE cash
      /\ paid' = IF done THEN paid + fee ELSE paid
      /\ intents' = Tail(intents)
      /\ phase' = IF Len(intents) = 1 THEN "over" ELSE "filling"
      /\ UNCHANGED <<config, day, price, sched, opened>>
  BY DEF Fill
<1>2. holdings' = [holdings EXCEPT ![s] = new]
  BY Zenon DEF Fill
<1>3. OrdersFit(intents) /\ intents # <<>> /\ intents \in Seq(OrderSet)
  BY <1>1 DEF Accounted, OrdersFit
<1>4. 1 \in DOMAIN intents /\ o = intents[1] /\ DOMAIN intents = 1..Len(intents)
      /\ Len(intents) \in Nat /\ Len(intents) > 0
  BY <1>3
<1>5. OrderFits(o)
  BY <1>3, <1>4 DEF OrdersFit
<1> HIDE DEF o
<1>6. /\ s \in Symbols /\ n \in Nat /\ price[s] > 0 /\ Whole(n) /\ n >= Lot
      /\ sold => n <= holdings[s]
      /\ sold \/ o.side = "buy"
  BY <1>5 DEF OrderFits, OrderSet
<1>7. /\ cash \in Int /\ paid \in Int /\ opened \in Int /\ fee \in Int
      /\ holdings[s] \in Nat /\ Whole(holdings[s]) /\ price[s] \in Nat
      /\ holdings \in Sizes /\ price \in Sizes
      /\ Amount(s, n) \in Nat
  BY <1>6, FeeTyped, AmountTyped DEF Accounted, Numbers, Sizes
<1> HIDE DEF s, n, fee
<1>8. new \in Nat /\ Whole(new)
      /\ new = IF sold THEN holdings[s] - n ELSE IF done THEN holdings[s] + n ELSE holdings[s]
  <2>1. Whole(holdings[s] + n) /\ (n <= holdings[s] => Whole(holdings[s] - n))
    BY <1>6, <1>7, WholeAdds
  <2>2. new = IF sold THEN holdings[s] - n ELSE IF done THEN holdings[s] + n ELSE holdings[s]
    BY <1>6, <1>7 DEF Larger
  <2> HIDE DEF new
  <2>3. new \in Nat
    BY <1>6, <1>7, <2>2
  <2> QED BY <1>6, <1>7, <2>1, <2>2, <2>3
<1> HIDE DEF new
<1>9. /\ holdings' \in Sizes /\ holdings'[s] = new
      /\ \A t \in Symbols : t # s => holdings'[t] = holdings[t]
  BY <1>2, <1>6, <1>7, <1>8 DEF Sizes
<1>10. Numbers'
  <2>1. \A t \in Symbols : Whole(holdings'[t])
    BY <1>8, <1>9 DEF Accounted, Numbers
  <2>2. cash' \in Int /\ paid' \in Int
    BY <1>1, <1>7
  <2> QED BY <1>1, <1>9, <2>1, <2>2 DEF Accounted, Numbers
<1>11. Exposure' = Exposure + price[s] * new * Rates.base - price[s] * holdings[s] * Rates.base
  <2>1. PICK p, h, k, x : p = price /\ h = holdings /\ k = holdings' /\ x = s
    OBVIOUS
  <2>2. /\ p \in Sizes /\ h \in Sizes /\ k \in Sizes /\ x \in Symbols
        /\ \A y \in Symbols : y # x => k[y] = h[y]
    BY <1>6, <1>7, <1>9, <2>1
  <2>3. Total(p, k) = Total(p, h) + p[x] * k[x] * Rates.base - p[x] * h[x] * Rates.base
    BY <2>2, TotalMoves
  <2>4. Exposure' = Total(p, k) /\ Exposure = Total(p, h)
    BY <1>1, <2>1, ExposureIsTotal
  <2> QED BY <1>9, <2>1, <2>3, <2>4
<1>12. Exposure' = IF sold THEN Exposure - Amount(s, n)
                   ELSE IF done THEN Exposure + Amount(s, n) ELSE Exposure
  <2> DEFINE p == price[s]
             h == holdings[s]
             b == Rates.base
  <2>1. p \in Nat /\ h \in Nat /\ b \in Nat /\ n \in Nat /\ Exposure \in Int
    BY <1>6, <1>7, LotIs, EquityTyped DEF Accounted
  <2> HIDE DEF p, h, b
  <2>2. p * (h - n) * b = p * h * b - p * n * b /\ p * (h + n) * b = p * h * b + p * n * b
    <3>1. p * (h - n) = p * h - p * n /\ p * (h + n) = p * h + p * n
      BY <2>1
    <3>2. PICK u, v : u = p * h /\ v = p * n
      OBVIOUS
    <3>3. u \in Int /\ v \in Int
      BY <2>1, <3>2
    <3>4. (u - v) * b = u * b - v * b /\ (u + v) * b = u * b + v * b
      BY <2>1, <3>3
    <3> QED BY <3>1, <3>2, <3>4
  <2>3. p * h * b \in Int /\ p * n * b \in Int
    <3>1. p * h \in Nat /\ p * n \in Nat
      BY <2>1
    <3> QED BY <2>1, <3>1
  <2>4. Amount(s, n) = p * n * b
    BY DEF Amount, p, b
  <2>5. Exposure' = Exposure + p * new * b - p * h * b
    BY <1>11 DEF p, h, b
  <2>6. new = IF sold THEN h - n ELSE IF done THEN h + n ELSE h
    BY <1>8 DEF h
  <2>7. CASE sold
    BY <2>1, <2>2, <2>3, <2>4, <2>5, <2>6, <2>7
  <2>8. CASE ~sold /\ done
    BY <2>1, <2>2, <2>3, <2>4, <2>5, <2>6, <2>8
  <2>9. CASE ~done
    BY <2>1, <2>2, <2>3, <2>4, <2>5, <2>6, <2>9
  <2> QED BY <2>7, <2>8, <2>9
<1>13. Equity' = opened' - paid'
  <2>1. Equity = cash + Exposure /\ Equity' = cash' + Exposure' /\ Equity = opened - paid
    BY DEF Equity, Accounted
  <2>2. Exposure \in Int
    BY EquityTyped DEF Accounted
  <2>3. PICK a, f, c : a = Amount(s, n) /\ f = fee /\ c = cash
    OBVIOUS
  <2>4. a \in Int /\ f \in Int /\ c \in Int /\ cost = a + f
    BY <1>7, <2>3
  <2> HIDE DEF cost
  <2>5. opened' = opened
    BY <1>1
  <2>6. CASE sold
    <3>1. /\ cash' = cash + cost - 2 * fee /\ paid' = paid + fee
          /\ Exposure' = Exposure - Amount(s, n)
      BY <1>1, <1>12, <2>6, Zenon
    <3> QED BY <1>7, <2>1, <2>2, <2>3, <2>4, <2>5, <3>1
  <2>7. CASE ~sold /\ done
    <3>1. /\ cash' = cash - cost /\ paid' = paid + fee
          /\ Exposure' = Exposure + Amount(s, n)
      BY <1>1, <1>12, <2>7, Zenon
    <3> QED BY <1>7, <2>1, <2>2, <2>3, <2>4, <2>5, <3>1
  <2>8. CASE ~done
    <3>1. cash' = cash /\ paid' = paid /\ Exposure' = Exposure
      BY <1>1, <1>12, <2>8, Zenon
    <3> QED BY <1>7, <2>1, <2>2, <2>5, <3>1
  <2> QED BY <2>6, <2>7, <2>8
<1>14. phase' = "filling" => OrdersFit(intents)' /\ intents' # <<>>
  <2> SUFFICES ASSUME Len(intents) # 1 PROVE OrdersFit(intents)' /\ intents' # <<>>
    BY <1>1
  <2> DEFINE q == Tail(intents)
  <2>1. /\ q \in Seq(OrderSet) /\ q # <<>> /\ DOMAIN q = 1..(Len(intents) - 1)
        /\ \A i \in DOMAIN q : i + 1 \in DOMAIN intents /\ q[i] = intents[i + 1] /\ i + 1 # 1
    BY <1>3, <1>4
  <2> HIDE DEF q
  <2>2. OrdersFit(q)
    <3>1. \A i \in DOMAIN q : OrderFits(q[i])
      BY <1>3, <2>1 DEF OrdersFit
    <3>2. SoldOnce(q)
      <4> SUFFICES ASSUME NEW i \in DOMAIN q, NEW j \in DOMAIN q,
                          q[i].side = "sell", q[j].side = "sell", q[i].symbol = q[j].symbol
                   PROVE  i = j
        BY DEF SoldOnce
      <4>1. i + 1 = j + 1
        BY <1>3, <2>1 DEF OrdersFit, SoldOnce
      <4>2. i \in Nat /\ j \in Nat
        BY <1>4, <2>1
      <4> QED BY <4>1, <4>2
    <3> QED BY <2>1, <3>1, <3>2 DEF OrdersFit
  <2>3. ASSUME NEW i \in DOMAIN q, q[i].side = "sell"
        PROVE  holdings'[q[i].symbol] >= holdings[q[i].symbol]
    <3>1. OrderFits(q[i])
      BY <2>2 DEF OrdersFit
    <3>2. q[i].symbol \in Symbols
      BY <3>1 DEF OrderFits, OrderSet
    <3>3. CASE sold
      <4>1. q[i].symbol # s
        BY <1>3, <1>4, <2>1, <2>3, <3>3 DEF OrdersFit, SoldOnce, s
      <4>2. holdings[q[i].symbol] \in Nat
        BY <1>7, <3>2 DEF Sizes
      <4> QED BY <1>9, <3>2, <4>1, <4>2
    <3>4. CASE ~sold
      <4>1. new >= holdings[s]
        BY <1>6, <1>7, <1>8, <3>4
      <4>2. holdings[q[i].symbol] \in Nat
        BY <1>7, <3>2 DEF Sizes
      <4>3. CASE q[i].symbol = s
        BY <1>9, <4>1, <4>3
      <4>4. CASE q[i].symbol # s
        BY <1>9, <3>2, <4>2, <4>4
      <4> QED BY <4>3, <4>4
    <3> QED BY <3>3, <3>4
  <2>4. intents' = q /\ price' = price
    BY <1>1 DEF q
  <2>5. OrdersFit(intents)'
    BY <1>7, <1>9, <2>2, <2>3, <2>4, FitsLater
  <2> QED BY <2>1, <2>4, <2>5
<1> QED BY <1>10, <1>13, <1>14 DEF Accounted
LEMMA NextAccounts == ASSUME Accounted, [Next]_vars PROVE Accounted'
<1>1. ASSUME NEW gap \in Gaps, NEW prices \in PriceLists, NEW r \in Regimes,
             NewDay(gap, prices, r)
      PROVE  Accounted'
  BY <1>1, NewDayAccounts
<1>2. CASE Skip
  <2>1. /\ phase' = "over"
        /\ UNCHANGED <<config, price, cash, holdings, opened, paid>>
    BY <1>2 DEF Skip
  <2>2. Numbers'
    BY <2>1 DEF Accounted, Numbers
  <2> QED BY <2>1, <2>2, SameWorth DEF Accounted
<1>3. ASSUME NEW signals \in SignalLists, NEW w \in Weights, Rebalance(signals, w)
      PROVE  Accounted'
  BY <1>3, RebalanceAccounts
<1>4. CASE Fill
  BY <1>4, FillAccounts
<1>5. CASE UNCHANGED vars
  <2>1. UNCHANGED <<config, price, cash, holdings, opened, paid, phase, intents>>
    BY <1>5 DEF vars
  <2>2. Numbers'
    BY <2>1 DEF Accounted, Numbers
  <2>3. ASSUME phase = "filling" PROVE OrdersFit(intents)' /\ intents' # <<>>
    <3>1. OrdersFit(intents) /\ intents # <<>> /\ holdings \in Sizes
      BY <2>3 DEF Accounted, Numbers
    <3>2. PICK q : q = intents
      OBVIOUS
    <3>3. \A i \in DOMAIN q : q[i].symbol \in Symbols
      BY <3>1, <3>2 DEF OrdersFit, OrderFits, OrderSet
    <3>4. \A s \in Symbols : holdings'[s] >= holdings[s]
      BY <2>1, <3>1 DEF Sizes
    <3>5. OrdersFit(intents)'
      BY <2>1, <3>1, <3>2, <3>3, <3>4, FitsLater
    <3> QED BY <2>1, <3>1, <3>5
  <2> QED BY <2>1, <2>2, <2>3, SameWorth DEF Accounted
<1> QED BY <1>1, <1>2, <1>3, <1>4, <1>5 DEF Next

\* A number of whole lots leaves no odd shares.
LEMMA NoOddShares ==
  ASSUME Numbers, NEW s \in Symbols PROVE holdings[s] \in Nat /\ holdings[s] % Lot = 0
BY WholeIsMultiple DEF Numbers, Sizes

\* Whatever the stages make of the signals, the account is worth what it was when the
\* day opened less the fees of the day, and holds whole lots.
BooksBalance ==
  /\ Equity = opened - paid
  /\ \A s \in Symbols : holdings[s] \in Nat /\ holdings[s] % Lot = 0

\* Shares and cash are exchanged at their worth, whatever the stages make of the
\* signals: in any state the account is worth what it was when the day opened less the
\* fees since, and it holds whole lots.
THEOREM BooksAlwaysBalance == Spec => []BooksBalance
<1>1. Init => Accounted
  BY InitAccounted
<1>2. Accounted /\ [Next]_vars => Accounted'
  BY NextAccounts
<1>3. Accounted => BooksBalance
  BY NoOddShares DEF Accounted, BooksBalance
<1> QED BY <1>1, <1>2, <1>3, PTL DEF Spec

\* A sale of a lot or more pays its own fees.
SalesPayFees ==
  \A s \in Symbols, n \in Nat :
    price[s] > 0 /\ n >= Lot => Fee("sell", s, n) <= Amount(s, n)

\* The prices of the day are those of a row of prices.
Quoted == \A s \in Symbols : price[s] > 0 => \E prices \in PriceLists : price[s] = prices[s]

\* A product of sums, term by term.
LEMMA Spread ==
  ASSUME NEW m \in Nat, NEW a \in Nat, NEW b \in Nat
  PROVE  m * a \in Nat /\ m * (a + b) = m * a + m * b
OBVIOUS

\* Whatever grows no faster with the size than the worth stays below it once it is.
LEMMA StaysPaid ==
  ASSUME NEW l \in Nat, NEW m \in Nat, l <= m, NEW rate \in Nat, NEW base \in Nat, rate <= base,
         NEW fixed \in Nat, fixed + l * rate <= l * base
  PROVE  fixed + m * rate <= m * base
<1>1. PICK d \in Nat : m = l + d
  <2>1. m - l \in Nat /\ m = l + (m - l)
    OBVIOUS
  <2> QED BY <2>1
<1>2. PICK e \in Nat : base = rate + e
  <2>1. base - rate \in Nat /\ base = rate + (base - rate)
    OBVIOUS
  <2> QED BY <2>1
<1>3. l * base = l * rate + l * e /\ m * base = m * rate + m * e
  BY <1>2, Spread
<1>4. m * e = e * l + e * d /\ e * d \in Nat
  <2>1. m * e = e * (l + d)
    BY <1>1
  <2> QED BY <2>1, Spread
<1>5. e * l = l * e
  OBVIOUS
<1>6. l * rate \in Nat /\ l * e \in Nat /\ m * rate \in Nat /\ m * e \in Nat
  BY Spread
<1>7. fixed <= l * e
  BY <1>3, <1>6
<1>8. fixed <= m * e
  BY <1>4, <1>5, <1>6, <1>7
<1> QED BY <1>3, <1>6, <1>8

\* round(commission, 2) adds at most half a cent.
LEMMA RoundedUp ==
  ASSUME NEW x \in Nat, NEW c \in Nat \ {0}
  PROVE  ((2 * x + c) \div (2 * c)) * c <= x + c
<1> DEFINE q == (2 * x + c) \div (2 * c)
<1>1. q \in Nat /\ q * (2 * c) <= 2 * x + c
  <2> DEFINE a == 2 * x + c
             b == 2 * c
  <2>1. a \in Nat /\ b \in Nat /\ b > 0
    OBVIOUS
  <2> HIDE DEF a, b
  <2>2. (a \div b) \in Nat /\ (a \div b) * b <= a
    BY <2>1
  <2> QED BY <2>2 DEF a, b
<1> HIDE DEF q
<1>2. q * c \in Nat /\ 2 * (q * c) = q * (2 * c)
  BY <1>1
<1>3. q * c <= x + c
  BY <1>1, <1>2
<1> QED BY <1>3 DEF q

\* Where every lot pays the fees of its sale, so does every sale.
LEMMA EverySalePays ==
  ASSUME LotsPayFees, Numbers, Quoted PROVE SalesPayFees
<1> SUFFICES ASSUME NEW s \in Symbols, NEW n \in Nat, price[s] > 0, n >= Lot
             PROVE  Fee("sell", s, n) <= Amount(s, n)
  BY DEF SalesPayFees
<1> DEFINE per == Rates.transfer + Rates.stamp
           m   == price[s] * n
           l   == price[s] * Lot
<1>1. /\ Rates.commission \in Nat /\ Rates.transfer \in Nat /\ Rates.stamp \in Nat
      /\ Rates.min \in Nat /\ Rates.fund \in Nat /\ Rates.fundMin \in Nat
      /\ Rates.cent \in Nat \ {0} /\ Rates.base \in Nat /\ Lot \in Nat \ {0}
  BY ConstantsAssumption
<1>2. /\ Rates.commission + per + Rates.cent <= Rates.base
      /\ Rates.fund + Rates.cent <= Rates.base
      /\ Rates.min + l * per + Rates.cent <= l * Rates.base
      /\ Rates.fundMin + Rates.cent <= l * Rates.base
  BY DEF LotsPayFees, Quoted
<1>3. price[s] \in Nat
  BY DEF Numbers, Sizes
<1>4. m \in Nat /\ l \in Nat /\ m >= l /\ m >= 1
  <2>1. PICK p \in Nat : p = price[s]
    BY <1>3
  <2>2. PICK d \in Nat : n = Lot + d
    <3>1. n - Lot \in Nat /\ n = Lot + (n - Lot)
      BY <1>1
    <3> QED BY <3>1
  <2>3. p * n = p * Lot + p * d /\ p * Lot \in Nat /\ p * d \in Nat
    BY <1>1, <2>2, Spread
  <2>4. PICK q \in Nat : p = 1 + q
    <3>1. p - 1 \in Nat /\ p = 1 + (p - 1)
      BY <2>1
    <3> QED BY <3>1
  <2>5. p * Lot = Lot + Lot * q /\ Lot * q \in Nat
    <3>1. Lot * (1 + q) = Lot * 1 + Lot * q /\ Lot * q \in Nat
      BY <1>1, Spread
    <3> QED BY <1>1, <2>4, <3>1
  <2>6. p * Lot >= 1
    BY <1>1, <2>5
  <2>7. p * n >= p * Lot
    BY <2>3
  <2> QED BY <1>1, <2>1, <2>3, <2>6, <2>7
<1> HIDE DEF m, l
<1>5. PICK com \in Nat, tr \in Nat, st \in Nat, cent \in Nat \ {0}, base \in Nat, fund \in Nat,
           min \in Nat, fundMin \in Nat :
        /\ com = Rates.commission /\ tr = Rates.transfer /\ st = Rates.stamp
        /\ cent = Rates.cent /\ base = Rates.base /\ fund = Rates.fund
        /\ min = Rates.min /\ fundMin = Rates.fundMin
  BY <1>1
<1>6. PICK mm \in Nat, ll \in Nat : mm = m /\ ll = l
  BY <1>4
<1>7. /\ com + (tr + st) + cent <= base /\ fund + cent <= base
      /\ min + ll * (tr + st) + cent <= ll * base /\ fundMin + cent <= ll * base
      /\ mm >= ll /\ mm >= 1
  BY <1>2, <1>4, <1>5, <1>6
<1>8. /\ mm * com \in Nat /\ mm * tr \in Nat /\ mm * st \in Nat /\ mm * fund \in Nat
      /\ mm * cent \in Nat /\ mm * base \in Nat /\ ll * (tr + st) \in Nat /\ ll * base \in Nat
  BY Spread
<1>9. mm * cent >= cent
  <2>1. PICK k \in Nat : mm = 1 + k
    <3>1. mm - 1 \in Nat /\ mm = 1 + (mm - 1)
      BY <1>7
    <3> QED BY <3>1
  <2>2. cent * (1 + k) = cent * 1 + cent * k /\ cent * k \in Nat
    BY Spread
  <2>3. mm * cent = cent * (1 + k)
    BY <2>1
  <2>4. cent * 1 = cent
    OBVIOUS
  <2> QED BY <2>2, <2>3, <2>4
<1>10. mm * com + mm * tr + mm * st + cent <= mm * base
  <2>1. 0 + mm * (com + (tr + st) + cent) <= mm * base
    <3>1. 0 + 0 * (com + (tr + st) + cent) <= 0 * base
      OBVIOUS
    <3>2. com + (tr + st) + cent \in Nat /\ 0 <= mm
      OBVIOUS
    <3>3. PICK r \in Nat : r = com + (tr + st) + cent
      BY <3>2
    <3>4. 0 + 0 * r <= 0 * base /\ r <= base
      BY <1>7, <3>3
    <3>5. 0 + mm * r <= mm * base
      BY <3>2, <3>4, StaysPaid
    <3> QED BY <3>3, <3>5
  <2>2. mm * (com + (tr + st) + cent) = mm * com + mm * tr + mm * st + mm * cent
    <3>1. mm * (tr + st) = mm * tr + mm * st
      BY Spread
    <3>2. PICK r \in Nat : r = tr + st
      OBVIOUS
    <3>3. mm * (com + r) = mm * com + mm * r
      BY Spread
    <3>4. PICK q \in Nat : q = com + r
      OBVIOUS
    <3>5. mm * (q + cent) = mm * q + mm * cent
      BY Spread
    <3>6. com + (tr + st) + cent = q + cent
      BY <3>2, <3>4
    <3>7. mm * q = mm * com + mm * r
      BY <3>3, <3>4
    <3>8. mm * r = mm * tr + mm * st
      BY <3>1, <3>2
    <3> QED BY <1>8, <3>5, <3>6, <3>7, <3>8
  <2> QED BY <1>8, <1>9, <2>1, <2>2
<1>11. min + mm * tr + mm * st + cent <= mm * base
  <2>1. PICK r \in Nat, x \in Nat : r = tr + st /\ x = min + cent
    OBVIOUS
  <2>2. x + ll * r <= ll * base
    BY <1>7, <1>8, <2>1
  <2>3. r <= base
    BY <1>7, <2>1
  <2>4. x + mm * r <= mm * base
    BY <1>7, <2>2, <2>3, StaysPaid
  <2>5. mm * r = mm * tr + mm * st
    BY <2>1, Spread
  <2> QED BY <1>8, <2>1, <2>4, <2>5
<1>12. mm * fund + cent <= mm * base
  <2>1. PICK r \in Nat : r = fund + cent
    OBVIOUS
  <2>2. 0 + 0 * r <= 0 * base /\ r <= base /\ 0 <= mm
    BY <1>7, <2>1
  <2>3. 0 + mm * r <= mm * base
    BY <2>2, StaysPaid
  <2>4. mm * r = mm * fund + mm * cent
    BY <2>1, Spread
  <2> QED BY <1>8, <1>9, <2>3, <2>4
<1>13. fundMin + cent <= mm * base
  <2>1. PICK x \in Nat : x = fundMin + cent
    OBVIOUS
  <2>2. x + ll * 0 <= ll * base /\ 0 <= base
    BY <1>7, <1>8, <2>1
  <2>3. x + mm * 0 <= mm * base
    BY <1>7, <2>2, StaysPaid
  <2> QED BY <1>8, <2>1, <2>3
<1>14. Amount(s, n) = mm * base
  BY <1>5, <1>6 DEF Amount, m
<1>15. CalcCost("sell", s, n) \in Nat /\ CalcCost("sell", s, n) + cent <= mm * base
  <2>1. CASE s \in Funds
    <3>1. CalcCost("sell", s, n) = Larger(mm * fund, fundMin)
      BY <1>5, <1>6, <2>1 DEF CalcCost, m
    <3> QED BY <1>8, <1>12, <1>13, <3>1 DEF Larger
  <2>2. CASE s \notin Funds
    <3>1. CalcCost("sell", s, n) = Larger(mm * com, min) + mm * tr + mm * st
      BY <1>5, <1>6, <2>2 DEF CalcCost, m
    <3>2. CASE mm * com >= min
      <4>1. CalcCost("sell", s, n) = mm * com + mm * tr + mm * st
        BY <3>1, <3>2 DEF Larger
      <4> QED BY <1>8, <1>10, <4>1
    <3>3. CASE ~(mm * com >= min)
      <4>1. CalcCost("sell", s, n) = min + mm * tr + mm * st
        BY <3>1, <3>3 DEF Larger
      <4> QED BY <1>8, <1>11, <4>1
    <3> QED BY <3>2, <3>3
  <2> QED BY <2>1, <2>2
<1>16. PICK x \in Nat : x = CalcCost("sell", s, n)
  BY <1>15
<1>17. Fee("sell", s, n) = ((2 * x + cent) \div (2 * cent)) * cent
  BY <1>5, <1>16 DEF Fee
<1>18. ((2 * x + cent) \div (2 * cent)) * cent <= x + cent
  BY RoundedUp
<1>19. Fee("sell", s, n) \in Int
  BY FeeTyped
<1> QED BY <1>8, <1>14, <1>15, <1>16, <1>17, <1>18, <1>19

\* Prices change with a new row of them only.
LEMMA AlwaysQuoted == Spec => []Quoted
<1>1. Init => Quoted
  BY DEF Init, Quoted
<1>2. Quoted /\ [Next]_vars => Quoted'
  <2> SUFFICES ASSUME Quoted, [Next]_vars PROVE Quoted'
    OBVIOUS
  <2>1. ASSUME NEW gap \in Gaps, NEW prices \in PriceLists, NEW r \in Regimes,
               NewDay(gap, prices, r)
        PROVE  Quoted'
    BY <2>1 DEF NewDay, Quoted
  <2>2. ASSUME price' = price PROVE Quoted'
    BY <2>2 DEF Quoted
  <2> QED BY <2>1, <2>2 DEF Next, Skip, Rebalance, Fill, vars
<1> QED BY <1>1, <1>2, PTL DEF Spec

LEMMA CashStaysPositive ==
  ASSUME Accounted, SalesPayFees, cash >= 0, [Next]_vars PROVE cash' >= 0
<1> USE DEF Accounted, Numbers
<1>1. CASE Fill
  <2> DEFINE o    == Head(intents)
             s    == o.symbol
             n    == o.shares
             fee  == Fee(o.side, s, n)
             cost == Amount(s, n) + fee
             sold == o.side = "sell"
             done == sold \/ CanPay(cost)
  <2>1. phase = "filling" /\ cash' = IF sold THEN cash + cost - 2 * fee
                                     ELSE IF done THEN cash - cost ELSE cash
    BY <1>1 DEF Fill
  <2>2. OrdersFit(intents) /\ intents # <<>> /\ intents \in Seq(OrderSet)
    BY <2>1 DEF OrdersFit
  <2>3. 1 \in DOMAIN intents /\ o = intents[1]
    BY <2>2
  <2>4. OrderFits(o)
    BY <2>2, <2>3 DEF OrdersFit
  <2> HIDE DEF o
  <2>5. s \in Symbols /\ n \in Nat /\ price[s] > 0 /\ n >= Lot
    BY <2>4 DEF OrderFits, OrderSet
  <2>6. fee \in Int /\ Amount(s, n) \in Nat /\ cash \in Int
    BY <2>5, FeeTyped, AmountTyped
  <2> HIDE DEF s, n
  <2>7. CASE sold
    <3>1. Fee(o.side, s, n) <= Amount(s, n)
      BY <2>5, <2>7 DEF SalesPayFees
    <3>2. cash' = cash + cost - 2 * fee
      BY <2>1, <2>7, Zenon
    <3>3. PICK a, f : a = Amount(s, n) /\ f = fee
      OBVIOUS
    <3>4. cash' = cash + (a + f) - 2 * f /\ a \in Int /\ f \in Int /\ f <= a
      BY <2>6, <3>1, <3>2, <3>3
    <3> QED BY <2>6, <3>4
  <2>8. CASE ~sold /\ done
    <3>1. cash' = cash - cost /\ cost <= cash
      BY <2>1, <2>8, Zenon DEF CanPay
    <3>2. cost \in Int
      BY <2>6
    <3> HIDE DEF cost
    <3> QED BY <2>6, <3>1, <3>2
  <2>9. CASE ~done
    <3>1. cash' = cash
      BY <2>1, <2>9, Zenon
    <3> QED BY <3>1
  <2> QED BY <2>7, <2>8, <2>9
<1>2. CASE ~Fill
  <2>1. cash' = cash
    BY <1>2 DEF Next, NewDay, Skip, Rebalance, vars
  <2> QED BY <2>1
<1> QED BY <1>1, <1>2

\* Where a lot pays the fees of its sale at every price that is quoted, no chain of
\* rebalances leaves the account in debt: the sales come first, and a buy the cash does
\* not cover is passed over.
THEOREM AccountSound ==
  ASSUME LotsPayFees
  PROVE  Spec => []AccountIsSound
<1> DEFINE IInv == Accounted /\ cash >= 0
<1>1. Init => IInv
  <2> SUFFICES ASSUME Init PROVE cash >= 0
    BY InitAccounted
  <2>1. cash = InitialCash /\ InitialCash \in Nat
    BY ConstantsAssumption DEF Init
  <2> QED BY <2>1
<1>2. IInv /\ Quoted /\ [Next]_vars => IInv'
  <2> SUFFICES ASSUME IInv, Quoted, [Next]_vars PROVE IInv'
    OBVIOUS
  <2>1. SalesPayFees
    BY EverySalePays DEF Accounted
  <2> QED BY <2>1, NextAccounts, CashStaysPositive
<1>3. IInv => AccountIsSound
  BY NoOddShares DEF Accounted, AccountIsSound
<1> HIDE DEF IInv
<1> QED BY <1>1, <1>2, <1>3, AlwaysQuoted, PTL DEF Spec

-----------------------------------------------------------------------------
(* What the buys of a list of orders cost.                                   *)

\* A sum is that of any one summand and of the others.
LEMMA SumTakesAny ==
  ASSUME NEW S, NEW pick, Picks(pick, S), NEW f \in [S -> Int], NEW g, Sums(g, f, pick, S)
  PROVE  \A w \in SUBSET S : \A y \in w : g[w] = f[y] + g[w \ {y}]
<1> DEFINE T == {w \in SUBSET S : ~\A y \in w : g[w] = f[y] + g[w \ {y}]}
<1> SUFFICES ASSUME T # {} PROVE FALSE
  OBVIOUS
<1>0. T \in SUBSET (SUBSET S) /\ IsFiniteSet(S)
  BY DEF Picks
<1> HIDE DEF T
<1>1. PICK w \in T : \A v \in T : v \subseteq w => v = w
  BY <1>0, MinimalSet
<1>2. w \in SUBSET S /\ ~\A y \in w : g[w] = f[y] + g[w \ {y}]
  BY <1>1 DEF T
<1>3. PICK y \in w : g[w] # f[y] + g[w \ {y}]
  BY <1>2
<1> DEFINE z == pick[w]
<1>4. z \in w /\ z \in S /\ y \in S
  BY <1>2, <1>3 DEF Picks
<1>5. g[w] = f[z] + g[w \ {z}]
  BY <1>2, <1>3 DEF Sums
<1> HIDE DEF z
<1>6. y # z
  BY <1>3, <1>5
<1> DEFINE a == w \ {z}
           b == w \ {y}
           c == w \ {y, z}
<1>7. /\ a \in SUBSET S /\ b \in SUBSET S /\ c \in SUBSET S /\ y \in a /\ z \in b
      /\ a \ {y} = c /\ b \ {z} = c /\ a \subseteq w /\ b \subseteq w /\ a # w /\ b # w
  BY <1>2, <1>4, <1>6
<1> HIDE DEF a, b, c
<1>8. g[a] = f[y] + g[c] /\ g[b] = f[z] + g[c]
  <2>1. a \notin T /\ b \notin T
    BY <1>1, <1>7
  <2> QED BY <1>7, <2>1 DEF T
<1>9. g[c] \in Int /\ g[b] \in Int /\ f[y] \in Int /\ f[z] \in Int
  BY <1>4, <1>7, SumTyped
<1>10. g[w] = f[z] + g[a] /\ g[w] # f[y] + g[b]
  BY <1>3, <1>5 DEF a, b
<1> QED BY <1>8, <1>9, <1>10

\* The sums over the parts of a part are those over the parts of the whole.
LEMMA SumsAgree ==
  ASSUME NEW S, NEW B \in SUBSET S, NEW pick, Picks(pick, S),
         NEW f \in [S -> Int], NEW k \in [B -> Int], \A y \in B : k[y] = f[y],
         NEW g, NEW h, Sums(g, f, pick, S), Sums(h, k, pick, B)
  PROVE  g[B] = h[B]
<1> DEFINE Good == {w \in SUBSET B : g[w] = h[w]}
<1>0. Picks(pick, B)
  BY FS_Subset DEF Picks
<1>1. {} \in Good
  BY DEF Sums
<1>2. ASSUME NEW w \in SUBSET B, w # {}, w \ {pick[w]} \in Good PROVE w \in Good
  <2>1. pick[w] \in B
    BY <1>0, <1>2 DEF Picks
  <2>2. w \in SUBSET S
    OBVIOUS
  <2>3. g[w] = f[pick[w]] + g[w \ {pick[w]}] /\ h[w] = k[pick[w]] + h[w \ {pick[w]}]
    BY <1>2, <2>2 DEF Sums
  <2> QED BY <1>2, <2>1, <2>3
<1> HIDE DEF Good
<1>3. \A w \in SUBSET B : w \in Good
  BY <1>0, <1>1, <1>2, PartByPart
<1> QED BY <1>3 DEF Good

\* One more summand adds to the sum.
LEMMA SumGrows ==
  ASSUME NEW S, NEW x \in S, NEW B, B = S \ {x}, NEW pick, Picks(pick, S),
         NEW f \in [S -> Int], NEW k \in [B -> Int], \A y \in B : k[y] = f[y],
         NEW g, NEW h, Sums(g, f, pick, S), Sums(h, k, pick, B)
  PROVE  g[S] = f[x] + h[B]
<1>1. g[S] = f[x] + g[S \ {x}]
  <2>1. S \in SUBSET S
    OBVIOUS
  <2> QED BY <2>1, SumTakesAny
<1>2. g[B] = h[B]
  <2>1. B \in SUBSET S
    OBVIOUS
  <2> QED BY <2>1, SumsAgree
<1> QED BY <1>1, <1>2

AnyOf(S) == [s \in SUBSET S |-> CHOOSE x \in s : TRUE]

LEMMA AnyOfPicks == ASSUME NEW S, IsFiniteSet(S) PROVE Picks(AnyOf(S), S)
<1>1. \A s \in SUBSET S : s # {} => (CHOOSE x \in s : TRUE) \in s
  OBVIOUS
<1> QED BY <1>1 DEF Picks, AnyOf

\* The buys of a list cost, without their fees.
Cost(q) == MapThenSumSet(LAMBDA i : Amount(q[i].symbol, q[i].shares), BuysOf(q))

Costs(q) == [i \in BuysOf(q) |-> Amount(q[i].symbol, q[i].shares)]

CostsAdd(g, q) ==
  g = [s \in SUBSET BuysOf(q) |->
         IF s = {} THEN 0
         ELSE Amount(q[CHOOSE x \in s : TRUE].symbol, q[CHOOSE x \in s : TRUE].shares)
                + g[s \ {CHOOSE x \in s : TRUE}]]

LEMMA BuysFinite ==
  ASSUME NEW q \in Seq(OrderSet) PROVE IsFiniteSet(BuysOf(q))
<1>1. Len(q) \in Nat /\ DOMAIN q = 1..Len(q)
  OBVIOUS
<1>2. BuysOf(q) \in SUBSET (1..Len(q))
  BY <1>1 DEF BuysOf
<1> QED BY <1>1, <1>2, PartFinite

LEMMA CostsTyped ==
  ASSUME Numbers, NEW q \in Seq(OrderSet) PROVE Costs(q) \in [BuysOf(q) -> Int]
<1>1. ASSUME NEW i \in BuysOf(q) PROVE Amount(q[i].symbol, q[i].shares) \in Int
  <2>1. q[i] \in OrderSet
    BY DEF BuysOf
  <2>2. q[i].symbol \in Symbols /\ q[i].shares \in Nat
    BY <2>1 DEF OrderSet
  <2>3. PICK s, n : s = q[i].symbol /\ n = q[i].shares
    OBVIOUS
  <2>4. Amount(s, n) \in Nat
    BY <2>2, <2>3, AmountTyped
  <2> QED BY <2>3, <2>4
<1> QED BY <1>1 DEF Costs

LEMMA CostIsSum ==
  ASSUME Numbers, NEW q \in Seq(OrderSet)
  PROVE  \E g : Sums(g, Costs(q), AnyOf(BuysOf(q)), BuysOf(q)) /\ Cost(q) = g[BuysOf(q)]
<1> DEFINE G == CHOOSE g : CostsAdd(g, q)
<1>1. Cost(q) = G[BuysOf(q)]
  BY DEF Cost, MapThenSumSet, MapThenFoldSet, CostsAdd
<1> DEFINE S == BuysOf(q)
           pick == AnyOf(S)
           f == Costs(q)
<1>2. Picks(pick, S)
  BY BuysFinite, AnyOfPicks
<1>3. ASSUME NEW s \in SUBSET S, s # {}
      PROVE  /\ pick[s] = (CHOOSE x \in s : TRUE) /\ pick[s] \in S
             /\ f[pick[s]] = Amount(q[pick[s]].symbol, q[pick[s]].shares)
  <2>1. pick[s] = (CHOOSE x \in s : TRUE)
    BY DEF AnyOf
  <2>2. pick[s] \in S
    BY <1>2, <1>3 DEF Picks
  <2> QED BY <2>1, <2>2 DEF Costs
<1>4. ASSUME NEW g PROVE CostsAdd(g, q) <=> Sums(g, f, pick, S)
  <2> DEFINE L(s) == IF s = {} THEN 0
                     ELSE Amount(q[CHOOSE x \in s : TRUE].symbol,
                                 q[CHOOSE x \in s : TRUE].shares)
                            + g[s \ {CHOOSE x \in s : TRUE}]
             R(s) == IF s = {} THEN 0 ELSE f[pick[s]] + g[s \ {pick[s]}]
  <2>1. ASSUME NEW s \in SUBSET S PROVE L(s) = R(s)
    <3>1. CASE s = {}
      BY <3>1
    <3>2. CASE s # {}
      <4>1. PICK x : x = (CHOOSE y \in s : TRUE)
        OBVIOUS
      <4>2. pick[s] = x /\ f[x] = Amount(q[x].symbol, q[x].shares)
        BY <1>3, <3>2, <4>1
      <4> QED BY <3>2, <4>1, <4>2
    <3> QED BY <3>1, <3>2
  <2>2. CostsAdd(g, q) <=> g = [s \in SUBSET S |-> L(s)]
    BY DEF CostsAdd
  <2>3. Sums(g, f, pick, S) <=> g = [s \in SUBSET S |-> R(s)]
    BY DEF Sums
  <2> HIDE DEF L, R
  <2>4. [s \in SUBSET S |-> L(s)] = [s \in SUBSET S |-> R(s)]
    BY <2>1
  <2> QED BY <2>2, <2>3, <2>4
<1>5. \E g : Sums(g, f, pick, S)
  <2>1. PICK S0, p0, f0 : S0 = S /\ p0 = pick /\ f0 = f
    OBVIOUS
  <2>2. Picks(p0, S0) /\ f0 \in [S0 -> Int]
    BY <1>2, <2>1, CostsTyped
  <2>3. \E g : Sums(g, f0, p0, S0)
    BY <2>2, SumExists
  <2> QED BY <2>1, <2>3
<1>6. CostsAdd(G, q)
  <2>1. \E g : CostsAdd(g, q)
    BY <1>4, <1>5
  <2> QED BY <2>1
<1> HIDE DEF G
<1> QED BY <1>1, <1>4, <1>6

LEMMA CostTyped ==
  ASSUME Numbers, NEW q \in Seq(OrderSet) PROVE Cost(q) \in Int
<1>1. PICK g : Sums(g, Costs(q), AnyOf(BuysOf(q)), BuysOf(q)) /\ Cost(q) = g[BuysOf(q)]
  BY CostIsSum
<1>2. PICK S, pick, f : S = BuysOf(q) /\ pick = AnyOf(BuysOf(q)) /\ f = Costs(q)
  OBVIOUS
<1>3. Picks(pick, S) /\ f \in [S -> Int] /\ Sums(g, f, pick, S)
  BY <1>1, <1>2, BuysFinite, AnyOfPicks, CostsTyped
<1>4. \A w \in SUBSET S : g[w] \in Int
  BY <1>3, SumTyped
<1> QED BY <1>1, <1>2, <1>4

\* No buys cost nothing.
LEMMA CostNone ==
  ASSUME Numbers, NEW q \in Seq(OrderSet), BuysOf(q) = {} PROVE Cost(q) = 0
<1>1. PICK g : Sums(g, Costs(q), AnyOf(BuysOf(q)), BuysOf(q)) /\ Cost(q) = g[BuysOf(q)]
  BY CostIsSum
<1> QED BY <1>1 DEF Sums

\* A buy that is appended costs its amount.
LEMMA CostOfOneMore ==
  ASSUME Numbers, NEW q \in Seq(OrderSet), NEW o \in OrderSet, o.side = "buy"
  PROVE  Cost(Append(q, o)) = Amount(o.symbol, o.shares) + Cost(q)
<1> DEFINE m == Append(q, o)
           x == Len(q) + 1
<1>1. /\ m \in Seq(OrderSet) /\ DOMAIN m = 1..x /\ DOMAIN q = 1..Len(q)
      /\ Len(q) \in Nat /\ m[x] = o /\ \A i \in 1..Len(q) : m[i] = q[i]
  OBVIOUS
<1> HIDE DEF m
<1>2. x \in BuysOf(m) /\ BuysOf(q) = BuysOf(m) \ {x}
  BY <1>1 DEF BuysOf
<1>3. \A i \in BuysOf(q) : Costs(q)[i] = Costs(m)[i]
  <2> SUFFICES ASSUME NEW i \in BuysOf(q) PROVE Costs(q)[i] = Costs(m)[i]
    OBVIOUS
  <2>1. i \in BuysOf(m) /\ i \in 1..Len(q)
    BY <1>1, <1>2 DEF BuysOf
  <2> QED BY <1>1, <2>1 DEF Costs
<1>4. PICK h : Sums(h, Costs(q), AnyOf(BuysOf(q)), BuysOf(q)) /\ Cost(q) = h[BuysOf(q)]
  BY CostIsSum
<1>5. PICK g : Sums(g, Costs(m), AnyOf(BuysOf(m)), BuysOf(m)) /\ Cost(m) = g[BuysOf(m)]
  BY <1>1, CostIsSum
<1>6. PICK S, B, pick, f, k : /\ S = BuysOf(m) /\ B = BuysOf(q) /\ pick = AnyOf(BuysOf(m))
                              /\ f = Costs(m) /\ k = Costs(q)
  OBVIOUS
<1>7. Picks(pick, S) /\ f \in [S -> Int] /\ k \in [B -> Int] /\ Sums(g, f, pick, S)
  BY <1>1, <1>5, <1>6, BuysFinite, AnyOfPicks, CostsTyped
<1>8. Sums(h, k, pick, B)
  <2>1. \A s \in SUBSET B : pick[s] = AnyOf(BuysOf(q))[s]
    BY <1>2, <1>6 DEF AnyOf
  <2>2. h = [s \in SUBSET B |-> IF s = {} THEN 0 ELSE k[AnyOf(B)[s]] + h[s \ {AnyOf(B)[s]}]]
    BY <1>4, <1>6 DEF Sums
  <2> DEFINE L(s) == IF s = {} THEN 0 ELSE k[AnyOf(B)[s]] + h[s \ {AnyOf(B)[s]}]
             R(s) == IF s = {} THEN 0 ELSE k[pick[s]] + h[s \ {pick[s]}]
  <2>3. \A s \in SUBSET B : L(s) = R(s)
    BY <1>6, <2>1
  <2>4. h = [s \in SUBSET B |-> L(s)]
    BY <2>2
  <2>5. Sums(h, k, pick, B) <=> h = [s \in SUBSET B |-> R(s)]
    BY DEF Sums
  <2> HIDE DEF L, R
  <2> QED BY <2>3, <2>4, <2>5
<1>9. PICK y : y = x
  OBVIOUS
<1>10. y \in S /\ B = S \ {y} /\ \A z \in B : k[z] = f[z]
  BY <1>2, <1>3, <1>6, <1>9
<1>11. g[S] = f[y] + h[B]
  BY <1>7, <1>8, <1>10, SumGrows
<1>12. f[y] = Amount(o.symbol, o.shares)
  BY <1>1, <1>2, <1>6, <1>9 DEF Costs
<1> QED BY <1>4, <1>5, <1>6, <1>11, <1>12 DEF m
-----------------------------------------------------------------------------
(* The best signals name a symbol once.                                      *)

Once(l) == \A i, j \in DOMAIN l : l[i].symbol = l[j].symbol => i = j

LEMMA SignalsOnce ==
  ASSUME NEW l \in SignalLists PROVE l \in Seq(Signals) /\ Once(l)
BY ConstantsAssumption DEF Signals, Once

\* What the constrained constructor has picked of the first i signals.
Picked(l, i, c) ==
  /\ c \in Seq(Signals) /\ Once(c)
  /\ \A k \in DOMAIN c : \E j \in 1..i : c[k] = l[j]
  /\ Len(c) * BaseWeight <= config.pct * MaxPositions

LEMMA BaseWeightTyped ==
  ASSUME Numbers PROVE /\ BaseWeight \in Nat /\ config.pct \in Nat
                       /\ config.pct * MaxPositions \in Nat
                       /\ config.constructor \in {"equal", "inverse_vol", "constrained"}
<1>1. /\ config.pct \in Nat /\ MaxSingle \in Nat /\ MaxPositions \in Nat
      /\ config.constructor \in {"equal", "inverse_vol", "constrained"}
  BY ConstantsAssumption DEF Numbers
<1>2. MaxSingle * MaxPositions \in Nat /\ config.pct * MaxPositions \in Nat
  BY <1>1
<1> QED BY <1>1, <1>2 DEF BaseWeight, Smaller

LEMMA PickKeeps ==
  ASSUME Numbers, NEW l \in Seq(Signals), Once(l), NEW i \in Nat, i < Len(l),
         NEW c, Picked(l, i, c)
  PROVE  Picked(l, i + 1, Pick(c, l[i + 1]))
<1> DEFINE x == l[i + 1]
           n == Len(c) + 1
<1>1. /\ Len(l) \in Nat /\ DOMAIN l = 1..Len(l) /\ i + 1 \in DOMAIN l /\ x \in Signals
      /\ 1..i \subseteq 1..(i + 1)
  OBVIOUS
<1>2. CASE Pick(c, x) = c
  <2>1. \A k \in DOMAIN c : \E j \in 1..(i + 1) : c[k] = l[j]
    BY <1>1 DEF Picked
  <2> QED BY <1>2, <2>1 DEF Picked
<1>3. CASE Pick(c, x) # c
  <2> DEFINE m == Append(c, x)
  <2>1. Pick(c, x) = m
    BY <1>3, PickCases
  <2>2. n * BaseWeight <= config.pct * MaxPositions
    BY <1>3, Zenon DEF Pick
  <2> HIDE DEF x
  <2>3. c \in Seq(Signals)
    BY DEF Picked
  <2>4. /\ m \in Seq(Signals) /\ DOMAIN m = 1..(Len(c) + 1) /\ DOMAIN c = 1..Len(c)
        /\ Len(c) \in Nat /\ Len(m) = n /\ m[Len(c) + 1] = x /\ \A k \in 1..Len(c) : m[k] = c[k]
    BY <1>1, <2>3
  <2> HIDE DEF m
  <2>5. ASSUME NEW k \in DOMAIN m
        PROVE  (k \in DOMAIN c /\ m[k] = c[k]) \/ (k = Len(c) + 1 /\ m[k] = x)
    <3>1. k \in 1..Len(c) \/ k = Len(c) + 1
      BY <2>4
    <3>2. CASE k \in 1..Len(c)
      BY <2>4, <3>2
    <3>3. CASE k = Len(c) + 1
      BY <2>4, <3>3, Zenon
    <3> QED BY <3>1, <3>2, <3>3
  <2>6. \A k \in DOMAIN m : \E j \in 1..(i + 1) : m[k] = l[j]
    <3> SUFFICES ASSUME NEW k \in DOMAIN m PROVE \E j \in 1..(i + 1) : m[k] = l[j]
      OBVIOUS
    <3>1. CASE k \in DOMAIN c /\ m[k] = c[k]
      BY <1>1, <3>1 DEF Picked
    <3>2. CASE m[k] = x
      <4>1. i + 1 \in 1..(i + 1)
        OBVIOUS
      <4> QED BY <3>2, <4>1 DEF x
    <3> QED BY <2>5, <3>1, <3>2
  <2>7. ASSUME NEW k \in DOMAIN c PROVE c[k].symbol # x.symbol
    <3>1. PICK j \in 1..i : c[k] = l[j]
      BY DEF Picked
    <3>2. j \in DOMAIN l /\ j # i + 1
      BY <1>1
    <3> QED BY <1>1, <3>1, <3>2 DEF Once, x
  <2>8. Once(m)
    <3> SUFFICES ASSUME NEW j \in DOMAIN m, NEW k \in DOMAIN m, m[j].symbol = m[k].symbol
                 PROVE  j = k
      BY DEF Once
    <3>1. CASE j \in DOMAIN c /\ k \in DOMAIN c
      BY <2>4, <3>1 DEF Picked, Once
    <3>2. CASE ~(j \in DOMAIN c /\ k \in DOMAIN c)
      BY <2>5, <2>7, <3>2
    <3> QED BY <3>1, <3>2
  <2> QED BY <2>1, <2>2, <2>4, <2>6, <2>8 DEF Picked, x
<1> QED BY <1>2, <1>3

\* The signals a constructor takes: each symbol once, and for the constrained one no
\* more than its share has room for.
LEMMA BestOnce ==
  ASSUME Numbers, NEW l \in Seq(Signals), Once(l)
  PROVE  /\ Best(l) \in Seq(Signals) /\ Once(Best(l))
         /\ l # <<>> /\ config.constructor # "constrained" => Len(Best(l)) > 0
         /\ config.constructor = "constrained" =>
              Len(Best(l)) * BaseWeight <= config.pct * MaxPositions
<1>1. CASE config.constructor = "constrained"
  <2>1. PICK h \in [0..Len(l) -> Seq(Signals)] :
           /\ h[0] = <<>>
           /\ \A i \in Nat : i < Len(l) => h[i + 1] = Pick(h[i], l[i + 1])
           /\ h[Len(l)] = FoldLeft(Pick, <<>>, l)
    BY PickHistory
  <2>2. Best(l) = h[Len(l)]
    BY <1>1, <2>1 DEF Best
  <2> DEFINE Good == {i \in Nat : i <= Len(l) => Picked(l, i, h[i])}
  <2>3. 0 \in Good
    <3>1. PICK e : e = <<>>
      OBVIOUS
    <3>2. e \in Seq(Signals) /\ Len(e) = 0 /\ DOMAIN e = {}
      BY <3>1
    <3>3. Picked(l, 0, e)
      BY <3>2, BaseWeightTyped DEF Picked, Once
    <3> QED BY <2>1, <3>1, <3>3
  <2>4. ASSUME NEW i \in Nat, i < Len(l), i \in Good PROVE i + 1 \in Good
    <3>1. Len(l) \in Nat /\ i <= Len(l) /\ i + 1 <= Len(l)
      BY <2>4
    <3>2. PICK c : c = h[i]
      OBVIOUS
    <3>3. Picked(l, i, c)
      BY <2>4, <3>1, <3>2
    <3>4. Picked(l, i + 1, Pick(c, l[i + 1]))
      BY <2>4, <3>3, PickKeeps
    <3> QED BY <2>1, <2>4, <3>2, <3>4
  <2> HIDE DEF Good
  <2>5. Len(l) \in Good
    <3>1. PICK n : n = Len(l)
      OBVIOUS
    <3>2. n \in Nat /\ \A i \in Nat : i < n /\ i \in Good => i + 1 \in Good
      BY <2>4, <3>1
    <3>3. n \in Good
      BY <2>3, <3>2, OneByOne
    <3> QED BY <3>1, <3>3
  <2>6. Picked(l, Len(l), Best(l))
    <3>1. Len(l) \in Nat
      OBVIOUS
    <3> QED BY <2>2, <2>5, <3>1 DEF Good
  <2> QED BY <1>1, <2>6 DEF Picked
<1>2. CASE config.constructor # "constrained"
  <2> DEFINE n == Smaller(MaxPositions, Len(l))
             b == SubSeq(l, 1, n)
  <2>1. Best(l) = b
    BY <1>2 DEF Best
  <2>2. n \in Nat /\ n <= Len(l) /\ (Len(l) > 0 => n > 0) /\ Len(l) \in Nat /\ DOMAIN l = 1..Len(l)
    BY LotIs DEF Smaller
  <2> HIDE DEF n
  <2>3. b \in Seq(Signals) /\ Len(b) = n /\ DOMAIN b = 1..n /\ \A i \in 1..n : b[i] = l[i]
    BY <2>2
  <2> HIDE DEF b
  <2>4. Once(b)
    BY <2>2, <2>3 DEF Once
  <2>5. l # <<>> => Len(l) > 0
    OBVIOUS
  <2> QED BY <1>2, <2>1, <2>2, <2>3, <2>4, <2>5
<1> QED BY <1>1, <1>2
-----------------------------------------------------------------------------
(* What a constructor's share buys.                                          *)

\* A quotient times its divisor is no more than what was divided.
LEMMA QuotientFits ==
  ASSUME NEW x \in Int, NEW m \in Nat \ {0} PROVE x \div m \in Int /\ m * (x \div m) <= x
BY SMTT(60)

\* Products grow with their factors.
LEMMA Grows ==
  ASSUME NEW a \in Int, NEW b \in Int, NEW c \in Nat, a <= b PROVE a * c <= b * c
<1> DEFINE d == b - a
<1>1. d \in Nat /\ b = a + d
  OBVIOUS
<1> HIDE DEF d
<1>2. d * c \in Nat
  BY <1>1
<1>3. (a + d) * c = a * c + d * c
  BY <1>1
<1>4. a * c \in Int
  OBVIOUS
<1> QED BY <1>1, <1>2, <1>3, <1>4

LEMMA AmountGrows ==
  ASSUME Numbers, NEW s \in Symbols, NEW m \in Nat, NEW n \in Nat, m <= n
  PROVE  Amount(s, m) <= Amount(s, n)
<1>1. price[s] \in Nat /\ Rates.base \in Nat
  BY LotIs DEF Numbers, Sizes
<1> DEFINE p == price[s]
           b == Rates.base
<1> HIDE DEF p, b
<1>2. m * p <= n * p
  BY <1>1, Grows DEF p
<1>3. p * m = m * p /\ p * n = n * p /\ p * m \in Nat /\ p * n \in Nat
  BY <1>1 DEF p
<1>4. (p * m) * b <= (p * n) * b
  <2>1. PICK u, v, c : u = p * m /\ v = p * n /\ c = b
    OBVIOUS
  <2>2. u \in Int /\ v \in Int /\ c \in Nat /\ u <= v
    BY <1>1, <1>2, <1>3, <2>1 DEF b
  <2>3. u * c <= v * c
    BY <2>2, Grows
  <2> QED BY <2>1, <2>3
<1> QED BY <1>4 DEF Amount, p, b

\* An amount of k lots is k times that of one, and amounts add up.
LEMMA AmountAdds ==
  ASSUME Numbers, NEW s \in Symbols, NEW m \in Nat, NEW n \in Nat
  PROVE  /\ Amount(s, m * n) = Amount(s, m) * n
         /\ Amount(s, m + n) = Amount(s, m) + Amount(s, n)
<1> DEFINE p == price[s]
           b == Rates.base
<1>1. p \in Nat /\ b \in Nat
  BY LotIs DEF Numbers, Sizes
<1> HIDE DEF p, b
<1>2. p * (m * n) = (p * m) * n /\ p * (m + n) = p * m + p * n
  BY <1>1
<1>3. PICK u, v : u = p * m /\ v = p * n
  OBVIOUS
<1>4. u \in Nat /\ v \in Nat
  BY <1>1, <1>3
<1>5. (u * n) * b = (u * b) * n /\ (u + v) * b = u * b + v * b
  BY <1>1, <1>4
<1>6. p * (m * n) * b = p * m * b * n
  BY <1>2, <1>3, <1>5
<1>7. p * (m + n) * b = p * m * b + p * n * b
  BY <1>2, <1>3, <1>5
<1> QED BY <1>6, <1>7 DEF Amount, p, b

\* What n shares are worth if they are no more than the lots a part x of the money,
\* divided by d, pays.
LEMMA LotsArePaid ==
  ASSUME Numbers, NEW s \in Symbols, price[s] > 0, NEW x \in Int, NEW d \in Nat \ {0},
         NEW n \in Nat, n <= Lot * (x \div (d * Amount(s, Lot)))
  PROVE  Amount(s, n) * d <= x
<1> DEFINE a == Amount(s, Lot)
           k == x \div (d * a)
<1>1. a \in Nat \ {0}
  BY LotIs, AmountTyped
<1>2. d * a \in Nat \ {0}
  <2> HIDE DEF a
  <2> QED BY <1>1, Positive
<1>3. k \in Int /\ (d * a) * k <= x
  <2>1. PICK m : m = d * a
    OBVIOUS
  <2>2. m \in Nat \ {0}
    BY <1>2, <2>1
  <2>3. x \div m \in Int /\ m * (x \div m) <= x
    BY <2>2, QuotientFits
  <2> QED BY <2>1, <2>3
<1>4. n <= Lot * k
  OBVIOUS
<1> HIDE DEF k, a
<1>5. k \in Nat
  <2> SUFFICES ASSUME k < 0 PROVE FALSE
    BY <1>3
  <2>1. -k \in Nat \ {0} /\ Lot \in Nat \ {0}
    BY <1>3, LotIs
  <2>2. PICK j : j = -k
    OBVIOUS
  <2>3. Lot * j \in Nat \ {0}
    BY <2>1, <2>2, Positive
  <2>4. Lot * k = -(Lot * j)
    BY <1>3, <2>1, <2>2
  <2> QED BY <1>4, <2>3, <2>4
<1>6. Lot * k \in Nat
  BY <1>5, LotIs
<1>7. Amount(s, n) <= Amount(s, Lot * k)
  <2>1. PICK m : m = Lot * k
    OBVIOUS
  <2>2. m \in Nat /\ n <= m
    BY <1>4, <1>6, <2>1
  <2>3. Amount(s, n) <= Amount(s, m)
    BY <2>2, AmountGrows
  <2> QED BY <2>1, <2>3
<1>8. Amount(s, Lot * k) = a * k
  <2>1. PICK m : m = Lot
    OBVIOUS
  <2>2. Amount(s, m * k) = Amount(s, m) * k
    BY <1>5, <2>1, LotIs, AmountAdds
  <2> QED BY <2>1, <2>2 DEF a
<1>9. PICK u : u = Amount(s, n)
  OBVIOUS
<1>10. u \in Nat /\ u <= a * k /\ a * k \in Int
  BY <1>1, <1>5, <1>7, <1>8, <1>9, AmountTyped
<1>11. u * d <= (a * k) * d
  <2>1. PICK v : v = a * k
    OBVIOUS
  <2>2. u * d <= v * d
    BY <1>10, <2>1, Grows
  <2> QED BY <2>1, <2>2
<1>12. (a * k) * d = (d * a) * k
  BY <1>1, <1>5
<1>13. u * d \in Int /\ (d * a) * k \in Int
  BY <1>2, <1>3, <1>10
<1>14. u * d <= x
  BY <1>3, <1>11, <1>12, <1>13
<1> QED BY <1>9, <1>14

-----------------------------------------------------------------------------
\* What is divided among the best signals, in how many parts, and the parts of one.
Money == IF config.constructor = "constrained" THEN Equity * BaseWeight
         ELSE cash * config.pct

Divisor(best, w) ==
  100 * (IF config.constructor = "constrained" THEN MaxPositions
         ELSE IF config.constructor = "equal" THEN Len(best) ELSE FoldLeft(+, 0, w))

Own(w, i) == IF config.constructor = "inverse_vol" THEN w[i] ELSE 1

\* The weights a rebalance divides the money by.
Weighing(best, w) ==
  /\ best \in Seq(Signals) /\ w \in Seq(Nat \ {0})
  /\ Len(w) = IF config.constructor = "inverse_vol" THEN Len(best) ELSE 0

LEMMA MoneyTyped == ASSUME Numbers PROVE Money \in Int
<1>1. Equity * BaseWeight \in Int
  BY EquityTyped, BaseWeightTyped
<1>2. cash * config.pct \in Int
  BY BaseWeightTyped DEF Numbers
<1> QED BY <1>1, <1>2 DEF Money

LEMMA OwnTyped ==
  ASSUME Numbers, NEW best, NEW w, Weighing(best, w), NEW i \in DOMAIN best
  PROVE  Own(w, i) \in Nat /\ Divisor(best, w) \in Nat \ {0}
<1>1. best \in Seq(Signals) /\ i \in 1..Len(best) /\ Len(best) \in Nat
  BY DEF Weighing
<1>2. CASE config.constructor = "constrained"
  <2>1. 100 * MaxPositions \in Nat \ {0}
    BY LotIs
  <2> QED BY <1>2, <2>1 DEF Own, Divisor
<1>3. CASE config.constructor = "equal"
  <2>1. 100 * Len(best) \in Nat \ {0}
    BY <1>1
  <2> QED BY <1>3, <2>1 DEF Own, Divisor
<1>4. CASE config.constructor = "inverse_vol"
  <2>1. w \in Seq(Nat \ {0}) /\ Len(w) = Len(best) /\ Len(w) > 0 /\ i \in 1..Len(w)
    BY <1>1, <1>4 DEF Weighing
  <2>2. w[i] \in Nat
    BY <2>1
  <2>3. FoldLeft(+, 0, w) \in Nat \ {0}
    BY <2>1, WeightsAddUp
  <2>4. PICK v \in Nat \ {0} : v = FoldLeft(+, 0, w)
    BY <2>3, Zenon
  <2>5. 100 * v \in Nat \ {0}
    OBVIOUS
  <2>6. config.constructor # "constrained" /\ config.constructor # "equal"
    BY <1>4
  <2>7. Divisor(best, w) = 100 * v
    BY <2>4, <2>6, Zenon DEF Divisor
  <2>8. Own(w, i) = w[i]
    BY <1>4 DEF Own
  <2> QED BY <2>2, <2>5, <2>7, <2>8
<1> QED BY <1>2, <1>3, <1>4, BaseWeightTyped

\* Shares that are no more than the size are paid by the signal's part of the money,
\* and the size is a number of lots.
LEMMA SizedIsPaid ==
  ASSUME Numbers, NEW best, NEW w, Weighing(best, w), NEW i \in DOMAIN best,
         price[best[i].symbol] > 0
  PROVE  /\ \E k \in Int : SizedShares(best, w, i) = Lot * k
         /\ \A n \in Nat : n <= SizedShares(best, w, i) =>
              Amount(best[i].symbol, n) * Divisor(best, w) <= Money * Own(w, i)
<1>1. PICK s : s = best[i].symbol
  OBVIOUS
<1>2. s \in Symbols /\ price[s] > 0
  BY <1>1, SignalAt DEF Weighing
<1> DEFINE x == Money * Own(w, i)
           d == Divisor(best, w)
           a == Amount(s, Lot)
<1>3. x \in Int /\ d \in Nat \ {0}
  BY MoneyTyped, OwnTyped
<1>4. SizedShares(best, w, i) = Lot * (x \div (d * a))
  <2>1. CASE config.constructor = "constrained"
    <3>1. SizedShares(best, w, i)
            = Lot * ((Equity * BaseWeight) \div (100 * MaxPositions * a))
      BY <1>1, <2>1 DEF SizedShares
    <3>2. x = Equity * BaseWeight
      BY <2>1, MoneyTyped DEF Money, Own
    <3>3. d = 100 * MaxPositions
      BY <2>1 DEF Divisor
    <3> QED BY <3>1, <3>2, <3>3
  <2>2. CASE config.constructor = "equal"
    <3>1. SizedShares(best, w, i) = Lot * ((cash * config.pct * 1) \div (100 * Len(best) * a))
      BY <1>1, <2>2 DEF SizedShares
    <3>2. x = cash * config.pct * 1
      BY <2>2 DEF Money, Own
    <3>3. d = 100 * Len(best)
      BY <2>2 DEF Divisor
    <3> QED BY <3>1, <3>2, <3>3
  <2>3. CASE config.constructor = "inverse_vol"
    <3>0. PICK v : v = FoldLeft(+, 0, w)
      OBVIOUS
    <3>1. SizedShares(best, w, i) = Lot * ((cash * config.pct * w[i]) \div (100 * v * a))
      BY <1>1, <2>3, <3>0 DEF SizedShares
    <3>2. x = cash * config.pct * w[i]
      BY <2>3 DEF Money, Own
    <3>3. d = 100 * v
      BY <2>3, <3>0 DEF Divisor
    <3> QED BY <3>1, <3>2, <3>3
  <2> QED BY <2>1, <2>2, <2>3, BaseWeightTyped
<1> HIDE DEF x, d
<1>5. x \div (d * a) \in Int
  <2>1. a \in Nat \ {0}
    BY <1>2, LotIs, AmountTyped
  <2> HIDE DEF a
  <2>2. d * a \in Nat \ {0}
    BY <1>3, <2>1, Positive
  <2> QED BY <1>3, <2>2, Quotient
<1>6. ASSUME NEW n \in Nat, n <= SizedShares(best, w, i) PROVE Amount(s, n) * d <= x
  <2>1. PICK y, e : y = x /\ e = d
    OBVIOUS
  <2>2. y \in Int /\ e \in Nat \ {0} /\ n <= Lot * (y \div (e * Amount(s, Lot)))
    BY <1>3, <1>4, <1>6, <2>1
  <2>3. Amount(s, n) * e <= y
    BY <1>2, <2>2, LotsArePaid
  <2> QED BY <2>1, <2>3
<1> QED BY <1>1, <1>4, <1>5, <1>6 DEF x, d

LEMMA TargetIsPaid ==
  ASSUME Numbers, NEW best, NEW w, Weighing(best, w), NEW i \in DOMAIN best,
         price[best[i].symbol] > 0
  PROVE  /\ \E k \in Int : TargetShares(best, w, i) = Lot * k
         /\ \A n \in Nat \ {0} : n <= TargetShares(best, w, i) =>
              Amount(best[i].symbol, n) * Divisor(best, w) <= Money * Own(w, i)
<1>1. PICK r, t : r = SizedShares(best, w, i) /\ t = TargetShares(best, w, i)
  OBVIOUS
<1>2. PICK k \in Int : r = Lot * k
  BY <1>1, SizedIsPaid
<1>3. r \in Int /\ Lot * 0 = 0
  BY <1>2, LotIs
<1>4. t = r \/ t = 0
  BY <1>1, Zenon DEF TargetShares, Larger
<1>5. \E j \in Int : t = Lot * j
  BY <1>2, <1>3, <1>4
<1>6. ASSUME NEW n \in Nat \ {0}, n <= t
      PROVE  Amount(best[i].symbol, n) * Divisor(best, w) <= Money * Own(w, i)
  <2>1. n \in Nat /\ n <= r
    BY <1>3, <1>4, <1>6
  <2> QED BY <1>1, <2>1, SizedIsPaid
<1> QED BY <1>1, <1>5, <1>6
-----------------------------------------------------------------------------
(* One buy.                                                                  *)

LEMMA LotsRound == ASSUME NEW n \in Nat \ {0} PROVE Lots(n) = Lot \/ Lots(n) <= n
<1> DEFINE k == n \div Lot
<1>1. k \in Nat /\ n % Lot \in 0..(Lot - 1) /\ n % Lot = n - Lot * k
  BY LotIs, Division
<1> HIDE DEF k
<1>2. k * Lot \in Nat /\ k * Lot <= n
  BY <1>1, LotIs
<1> QED BY <1>2, Zenon DEF Lots, Larger, k

\* The target of a signal that is to be bought.
LEMMA ChangeOfBuy ==
  ASSUME Numbers, NEW best, NEW w, Weighing(best, w), Once(best), NEW i \in DOMAIN best,
         NEW s, s = best[i].symbol, s \in DOMAIN Targets(best, w), Targets(best, w)[s] > 0
  PROVE  /\ s \in Symbols /\ price[s] > 0
         /\ Targets(best, w)[s] \in Nat /\ Whole(Targets(best, w)[s])
         /\ Targets(best, w)[s] <= TargetShares(best, w, i)
<1> DEFINE wanted == {j \in DOMAIN best : price[best[j].symbol] > 0}
           index(x) == CHOOSE j \in wanted : best[j].symbol = x
           named  == {best[j].symbol : j \in wanted}
           left   == {x \in Held : price[x] > 0 /\ x \notin {b.symbol : b \in Range(best)}}
           D(x) == IF x \in named THEN TargetShares(best, w, index(x)) - holdings[x]
                                  ELSE -holdings[x]
<1>1. Targets(best, w) = [x \in named \cup left |-> D(x)]
  BY DEF Targets
<1>2. Changes(Targets(best, w))
  BY TargetsTyped DEF Weighing
<1>3. s \in Symbols /\ price[s] > 0 /\ Targets(best, w)[s] \in Int
  BY <1>2 DEF Changes
<1>4. i \in wanted /\ s \in named
  BY <1>3
<1>5. index(s) = i
  <2>1. index(s) \in wanted /\ best[index(s)].symbol = s
    BY <1>4
  <2> HIDE DEF index
  <2> QED BY <1>4, <2>1 DEF Once
<1> HIDE DEF index, named, left, wanted
<1>6. PICK t, d : t = TargetShares(best, w, i) /\ d = Targets(best, w)[s]
  OBVIOUS
<1>7. d = t - holdings[s]
  BY <1>1, <1>4, <1>5, <1>6
<1>8. holdings[s] \in Nat /\ Whole(holdings[s])
  BY <1>3 DEF Numbers, Sizes
<1>9. PICK k \in Int : t = Lot * k
  BY <1>3, <1>6, TargetIsPaid
<1>10. d \in Nat /\ d > 0 /\ t \in Int /\ d <= t
  BY <1>3, <1>6, <1>7, <1>8, <1>9, LotIs
<1>11. t > 0
  BY <1>10
<1>12. Whole(t)
  <2>1. Lot * 0 < Lot * k
    BY <1>9, <1>11, LotIs
  <2>2. 0 < k
    BY <2>1, LotIs, Cancel
  <2>3. k \in Nat /\ t = k * Lot
    BY <1>9, <2>2, LotIs
  <2> QED BY <2>3 DEF Whole
<1>13. Whole(d)
  <2>1. holdings[s] <= t
    BY <1>7, <1>8, <1>10
  <2>2. Whole(t - holdings[s])
    BY <1>8, <1>12, <2>1, WholeAdds
  <2> QED BY <1>7, <2>2
<1> QED BY <1>3, <1>6, <1>10, <1>13

\* What is bought after the risk adjuster is what it passed, at least.
LEMMA AdjustedPasses ==
  ASSUME NEW s, NEW d \in Int, Adjusted(s, d) > 0
  PROVE  /\ d > 0 /\ Adjusted(s, d) <= d /\ Adjusted(s, d) \in Nat \ {0}
         /\ Passes(s, Adjusted(s, d))
<1>1. PICK h : h = d \div 2
  OBVIOUS
<1>2. h \in Int /\ (h > 0 => d > 0 /\ h <= d)
  BY <1>1
<1>3. \/ Adjusted(s, d) = d /\ (d = 0 \/ Passes(s, d))
      \/ Adjusted(s, d) = h /\ Passes(s, h)
      \/ Adjusted(s, d) = 0
  BY <1>1, Zenon DEF Adjusted
<1>4. CASE Adjusted(s, d) = d /\ (d = 0 \/ Passes(s, d))
  <2>1. d > 0 /\ d \in Nat \ {0}
    BY <1>4
  <2> QED BY <1>4, <2>1
<1>5. CASE Adjusted(s, d) = h /\ Passes(s, h)
  <2>1. h > 0
    BY <1>5
  <2> QED BY <1>2, <1>5, <2>1
<1>6. CASE Adjusted(s, d) = 0
  <2>1. ~(0 > 0)
    OBVIOUS
  <2> QED BY <1>6, <2>1
<1> QED BY <1>3, <1>4, <1>5, <1>6

\* A buy keeps its stock within the limit: it is one lot, or no more than what passed.
Single(o) ==
  o.shares = Lot \/ \E x \in Nat : o.shares <= x /\ Passes(o.symbol, x)

\* What is bought of the i-th signal is paid by its part of the money.
Paid(parts, best, w) ==
  \A i \in DOMAIN best :
    best[i].symbol \in DOMAIN parts /\ parts[best[i].symbol] > 0 =>
      LET o == Order("buy", best[i].symbol, parts[best[i].symbol])
      IN /\ o \in OrderSet /\ Single(o)
         /\ Amount(o.symbol, o.shares) * Divisor(best, w) <= Money * Own(w, i)
         /\ Money > 0

LEMMA PartsArePaid ==
  ASSUME Numbers, NEW best, NEW w, Weighing(best, w), Once(best), NEW deltas,
         deltas = <<>> \/ deltas = Targets(best, w)
  PROVE  Paid([s \in DOMAIN deltas |-> Adjusted(s, deltas[s])], best, w)
<1> DEFINE parts == [s \in DOMAIN deltas |-> Adjusted(s, deltas[s])]
<1> SUFFICES ASSUME NEW i \in DOMAIN best, NEW s, s = best[i].symbol,
                    s \in DOMAIN parts, parts[s] > 0,
                    NEW o, o = Order("buy", s, parts[s])
             PROVE  /\ o \in OrderSet /\ Single(o)
                    /\ Amount(o.symbol, o.shares) * Divisor(best, w) <= Money * Own(w, i)
                    /\ Money > 0
  BY DEF Paid
<1>1. s \in DOMAIN deltas /\ parts[s] = Adjusted(s, deltas[s])
  OBVIOUS
<1>2. deltas = Targets(best, w)
  <2>1. DOMAIN <<>> = {}
    OBVIOUS
  <2> QED BY <1>1, <2>1
<1> HIDE DEF parts
<1>3. PICK d, x : d = deltas[s] /\ x = parts[s]
  OBVIOUS
<1>4. Changes(Targets(best, w))
  BY TargetsTyped DEF Weighing
<1>5. d \in Int /\ x = Adjusted(s, d) /\ x > 0
  BY <1>1, <1>2, <1>3, <1>4 DEF Changes
<1>6. d > 0 /\ x <= d /\ x \in Nat \ {0} /\ Passes(s, x)
  BY <1>5, AdjustedPasses
<1>7. /\ s \in Symbols /\ price[s] > 0 /\ d \in Nat /\ Whole(d)
      /\ d <= TargetShares(best, w, i)
  BY <1>1, <1>2, <1>3, <1>6, ChangeOfBuy
<1>8. PICK n : n = Lots(x)
  OBVIOUS
<1>9. n \in Nat /\ n >= Lot /\ n <= d /\ (n = Lot \/ n <= x)
  BY <1>6, <1>7, <1>8, LotsFit, LotsRound
<1>10. o = [side |-> "buy", symbol |-> s, shares |-> n]
  BY <1>3, <1>8 DEF Order
<1>11. o \in OrderSet /\ o.symbol = s /\ o.shares = n
  BY <1>7, <1>9, <1>10 DEF OrderSet
<1>12. Single(o)
  BY <1>6, <1>9, <1>11 DEF Single
<1>13. PICK t : t = TargetShares(best, w, i)
  OBVIOUS
<1>14. n <= t
  <2>1. t \in Int
    <3>1. PICK k \in Int : t = Lot * k
      BY <1>7, <1>13, TargetIsPaid
    <3> QED BY <3>1, LotIs
  <2> QED BY <1>7, <1>9, <1>13, <2>1
<1>15. Amount(s, n) * Divisor(best, w) <= Money * Own(w, i)
  <2>1. n \in Nat \ {0}
    BY <1>9, LotIs
  <2> QED BY <1>7, <1>13, <1>14, <2>1, TargetIsPaid
<1>16. Money > 0
  <2>1. PICK a, c, m, v : a = Amount(s, n) /\ c = Divisor(best, w) /\ m = Money /\ v = Own(w, i)
    OBVIOUS
  <2>2. a \in Nat \ {0}
    <3>1. n > 0 /\ price[s] > 0
      BY <1>7, <1>9, LotIs
    <3> QED BY <1>7, <1>9, <2>1, <3>1, AmountTyped
  <2>3. c \in Nat \ {0} /\ v \in Nat /\ m \in Int
    BY <2>1, OwnTyped, MoneyTyped
  <2>4. a * c \in Nat \ {0} /\ a * c <= m * v
    BY <1>15, <2>1, <2>2, <2>3, Positive
  <2>5. ASSUME m <= 0 PROVE FALSE
    <3>1. m * v <= 0 * v
      BY <2>3, <2>5, Grows
    <3>2. 0 * v = 0 /\ m * v \in Int
      BY <2>3
    <3> QED BY <2>4, <3>1, <3>2
  <2> QED BY <2>1, <2>3, <2>5
<1> QED BY <1>11, <1>12, <1>15, <1>16
-----------------------------------------------------------------------------
(* All the buys.                                                             *)

\* The weights of a list, added up one by one.
LEMMA WeightHistory ==
  ASSUME NEW w \in Seq(Nat \ {0})
  PROVE  \E h \in [0..Len(w) -> Int] :
           /\ h[0] = 0
           /\ \A i \in Nat : i < Len(w) => h[i + 1] = h[i] + w[i + 1]
           /\ h[Len(w)] = FoldLeft(+, 0, w)
<1> DEFINE n == Len(w)
           V == Int
           op == [i \in 1..n |-> [v \in V |-> v + w[i]]]
           Adding(g) == g = [s \in SUBSET (1..n) |->
                               IF s = {} THEN 0 ELSE g[s \ {Max(s)}] + w[Max(s)]]
           G == CHOOSE g : Adding(g)
<1>0. n \in Nat /\ DOMAIN w = 1..n /\ (\A i \in 1..n : w[i] \in Int) /\ 0 \in V
  OBVIOUS
<1> HIDE DEF n
<1>1. FoldLeft(+, 0, w) = G[1..n]
  BY <1>0 DEF FoldLeft, MapThenFoldSet
<1>2. \A i \in 1..n : \A v \in V : op[i][v] = v + w[i] /\ op[i][v] \in V
  BY <1>0
<1> HIDE DEF op, V
<1>3. Operates(op, 0, V, n)
  BY <1>0, <1>2 DEF Operates
<1>4. \A s \in SUBSET (1..n) : s # {} => Max(s) \in 1..n /\ LastOf(n)[s] = Max(s)
  BY <1>0, LastPicks DEF Picks, LastOf
<1>5. \E g : Adding(g)
  <2>1. PICK g : Folds(g, 0, op, LastOf(n), 1..n) /\ \A v \in SUBSET (1..n) : g[v] \in V
    <3>1. PICK b : b = 0
      OBVIOUS
    <3>2. Operates(op, b, V, n)
      BY <1>3, <3>1
    <3>3. \E g : Folds(g, b, op, LastOf(n), 1..n) /\ \A v \in SUBSET (1..n) : g[v] \in V
      BY <3>2, StepsExist
    <3> QED BY <3>1, <3>3
  <2> DEFINE L(s) == IF s = {} THEN 0 ELSE op[LastOf(n)[s]][g[s \ {LastOf(n)[s]}]]
             R(s) == IF s = {} THEN 0 ELSE g[s \ {Max(s)}] + w[Max(s)]
  <2>2. ASSUME NEW s \in SUBSET (1..n) PROVE L(s) = R(s)
    <3>1. CASE s = {}
      BY <3>1
    <3>2. CASE s # {}
      <4>1. s \ {Max(s)} \in SUBSET (1..n)
        OBVIOUS
      <4> QED BY <1>2, <1>4, <2>1, <3>2, <4>1
    <3> QED BY <3>1, <3>2
  <2>3. g = [s \in SUBSET (1..n) |-> L(s)]
    BY <2>1 DEF Folds
  <2>4. Adding(g) <=> g = [s \in SUBSET (1..n) |-> R(s)]
    OBVIOUS
  <2> HIDE DEF L, R, Adding
  <2> QED BY <2>2, <2>3, <2>4
<1>6. Adding(G)
  BY <1>5
<1> HIDE DEF G
<1>7. Steps(G, 0, op, V, n)
  <2>1. G[{}] = 0
    BY <1>6
  <2>2. ASSUME NEW s \in SUBSET (1..n), s # {}, G[s \ {Max(s)}] \in V
        PROVE  G[s] = op[Max(s)][G[s \ {Max(s)}]]
    <3>1. G[s] = G[s \ {Max(s)}] + w[Max(s)]
      BY <1>6, <2>2
    <3> QED BY <1>2, <1>4, <2>2, <3>1
  <2> QED BY <2>1, <2>2 DEF Steps
<1>8. PICK h \in [0..n -> V] :
           /\ h[0] = 0
           /\ \A i \in Nat : i < n => h[i + 1] = op[i + 1][h[i]]
           /\ h[n] = G[1..n]
  <2>1. PICK b : b = 0
    OBVIOUS
  <2>2. Operates(op, b, V, n) /\ Steps(G, b, op, V, n)
    BY <1>3, <1>7, <2>1
  <2>3. \E h \in [0..n -> V] :
           /\ h[0] = b
           /\ \A i \in Nat : i < n => h[i + 1] = op[i + 1][h[i]]
           /\ h[n] = G[1..n]
    BY <2>2, History
  <2> QED BY <2>1, <2>3
<1>9. \A i \in Nat : i < n => h[i + 1] = h[i] + w[i + 1]
  <2> SUFFICES ASSUME NEW i \in Nat, i < n PROVE h[i + 1] = h[i] + w[i + 1]
    OBVIOUS
  <2>1. i + 1 \in 1..n /\ h[i] \in V
    BY <1>0
  <2> QED BY <1>2, <1>8, <2>1
<1> QED BY <1>1, <1>8, <1>9 DEF n, V

\* W adds up the parts of the best signals, and the divisor is their sum.
AddsUp(W, best, w) ==
  /\ W \in [0..Len(best) -> Int]
  /\ W[0] = 0
  /\ \A i \in Nat : i < Len(best) => W[i + 1] = W[i] + Own(w, i + 1)
  /\ IF config.constructor = "constrained"
     THEN W[Len(best)] = Len(best) /\ Divisor(best, w) = 100 * MaxPositions
     ELSE Divisor(best, w) = 100 * W[Len(best)]

LEMMA PartsAddUp ==
  ASSUME Numbers, NEW best, NEW w, Weighing(best, w) PROVE \E W : AddsUp(W, best, w)
<1>0. best \in Seq(Signals) /\ Len(best) \in Nat /\ w \in Seq(Nat \ {0})
  BY DEF Weighing
<1>1. CASE config.constructor = "inverse_vol"
  <2>1. Len(w) = Len(best)
    BY <1>1 DEF Weighing
  <2>2. PICK h \in [0..Len(w) -> Int] :
           /\ h[0] = 0
           /\ \A i \in Nat : i < Len(w) => h[i + 1] = h[i] + w[i + 1]
           /\ h[Len(w)] = FoldLeft(+, 0, w)
    BY <1>0, WeightHistory
  <2>3. /\ config.constructor # "constrained" /\ config.constructor # "equal"
        /\ \A i : Own(w, i) = w[i]
    BY <1>1 DEF Own
  <2>4. Divisor(best, w) = 100 * h[Len(best)]
    <3>1. PICK v : v = FoldLeft(+, 0, w)
      OBVIOUS
    <3>2. Divisor(best, w) = 100 * v
      BY <2>3, <3>1, Zenon DEF Divisor
    <3>3. h[Len(best)] = v
      BY <2>1, <2>2, <3>1, Zenon
    <3> QED BY <3>2, <3>3
  <2>5. /\ h \in [0..Len(best) -> Int] /\ h[0] = 0
        /\ \A i \in Nat : i < Len(best) => h[i + 1] = h[i] + w[i + 1]
    BY <2>1, <2>2, Zenon
  <2>6. AddsUp(h, best, w)
    BY <2>3, <2>4, <2>5 DEF AddsUp
  <2> QED BY <2>6
<1>2. CASE config.constructor # "inverse_vol"
  <2> DEFINE W == [i \in 0..Len(best) |-> i]
  <2>1. W \in [0..Len(best) -> Int] /\ W[0] = 0 /\ W[Len(best)] = Len(best)
    BY <1>0
  <2>2. \A i \in Nat : i < Len(best) => W[i + 1] = W[i] + Own(w, i + 1)
    BY <1>0, <1>2 DEF Own
  <2>3. IF config.constructor = "constrained" THEN Divisor(best, w) = 100 * MaxPositions
        ELSE Divisor(best, w) = 100 * Len(best)
    BY <1>2, BaseWeightTyped DEF Divisor
  <2> HIDE DEF W
  <2>4. AddsUp(W, best, w)
    BY <2>1, <2>2, <2>3 DEF AddsUp
  <2> QED BY <2>4
<1> QED BY <1>1, <1>2

\* The buys of the first i signals keep within their parts of the money.
Within(q, W, i, best, w) ==
  /\ q \in Seq(OrderSet)
  /\ Cost(q) * Divisor(best, w) <= Money * W[i]
  /\ \A k \in BuysOf(q) : Single(q[k]) /\ Money > 0
  /\ i = 0 => Cost(q) = 0

LEMMA BuyKeepsWithin ==
  ASSUME Numbers, Money >= 0, NEW best, NEW w, Weighing(best, w), NEW W, AddsUp(W, best, w),
         NEW parts, Paid(parts, best, w), NEW i \in Nat, i < Len(best),
         NEW q, Within(q, W, i, best, w)
  PROVE  Within(WithBuy(parts, q, best[i + 1]), W, i + 1, best, w)
<1> DEFINE j == i + 1
           s == best[j].symbol
           o == Order("buy", s, parts[s])
<1>0. j # 0
  OBVIOUS
<1>1. best \in Seq(Signals) /\ j \in DOMAIN best /\ Len(best) \in Nat
  BY DEF Weighing
<1>2. PICK c, d, m, v, a, x :
         /\ c = Cost(q) /\ d = Divisor(best, w) /\ m = Money /\ v = Own(w, j)
         /\ a = W[i] /\ x = W[j]
  OBVIOUS
<1>3. q \in Seq(OrderSet) /\ c \in Int /\ c * d <= m * a
  BY <1>2, CostTyped DEF Within
<1>4. d \in Nat \ {0} /\ v \in Nat /\ m \in Nat
  BY <1>1, <1>2, OwnTyped, MoneyTyped
<1>5. a \in Int /\ x = a + v
  <2>1. i \in 0..Len(best)
    BY <1>1
  <2> QED BY <1>2, <2>1 DEF AddsUp
<1>6. m * x = m * a + m * v /\ m * a \in Int /\ m * v \in Nat /\ c * d \in Int
  BY <1>3, <1>4, <1>5
<1> HIDE DEF j
<1>7. CASE ~(s \in DOMAIN parts /\ parts[s] > 0)
  <2>1. WithBuy(parts, q, best[j]) = q
    BY <1>7 DEF WithBuy
  <2>2. c * d <= m * x
    BY <1>3, <1>6
  <2>3. Within(q, W, j, best, w)
    BY <1>0, <1>2, <2>2 DEF Within
  <2> QED BY <2>1, <2>3 DEF j
<1>8. CASE s \in DOMAIN parts /\ parts[s] > 0
  <2>1. WithBuy(parts, q, best[j]) = Append(q, o)
    BY <1>8 DEF WithBuy
  <2>2. /\ o \in OrderSet /\ Single(o) /\ Money > 0
        /\ Amount(o.symbol, o.shares) * Divisor(best, w) <= Money * Own(w, j)
    BY <1>1, <1>8 DEF Paid
  <2>3. o.side = "buy"
    BY DEF Order
  <2> HIDE DEF o, s
  <2>4. PICK b : b = Amount(o.symbol, o.shares)
    OBVIOUS
  <2>5. b \in Nat /\ b * d <= m * v
    <3>1. PICK t, n : t = o.symbol /\ n = o.shares
      OBVIOUS
    <3>2. t \in Symbols /\ n \in Nat
      BY <2>2, <3>1 DEF OrderSet
    <3>3. Amount(t, n) \in Nat
      BY <3>2, AmountTyped
    <3> QED BY <1>2, <2>2, <2>4, <3>1, <3>3
  <2>6. Cost(Append(q, o)) = b + c
    BY <1>2, <1>3, <2>2, <2>3, <2>4, CostOfOneMore
  <2>7. (b + c) * d = b * d + c * d /\ b * d \in Int
    BY <1>3, <1>4, <2>5
  <2>8. Cost(Append(q, o)) * d <= m * x
    <3>1. b * d + c * d <= m * v + m * a
      BY <1>3, <1>6, <2>5, <2>7
    <3> QED BY <1>6, <2>6, <2>7, <3>1
  <2> DEFINE z == Append(q, o)
  <2>9. /\ z \in Seq(OrderSet) /\ DOMAIN z = 1..(Len(q) + 1) /\ DOMAIN q = 1..Len(q)
        /\ Len(q) \in Nat /\ z[Len(q) + 1] = o /\ \A k \in 1..Len(q) : z[k] = q[k]
    BY <1>3, <2>2
  <2> HIDE DEF z
  <2>10. ASSUME NEW k \in BuysOf(z) PROVE Single(z[k])
    <3>1. k \in DOMAIN z /\ z[k].side = "buy"
      BY <2>10 DEF BuysOf
    <3>2. CASE k = Len(q) + 1
      BY <2>2, <2>9, <3>2, Zenon
    <3>3. CASE k # Len(q) + 1
      <4>1. k \in 1..Len(q)
        BY <2>9, <3>1, <3>3
      <4>2. k \in BuysOf(q) /\ z[k] = q[k]
        BY <2>9, <3>1, <4>1 DEF BuysOf
      <4> QED BY <4>2 DEF Within
    <3> QED BY <3>2, <3>3
  <2>11. Cost(z) * Divisor(best, w) <= Money * W[j]
    BY <1>2, <2>8 DEF z
  <2>12. Within(z, W, j, best, w)
    BY <1>0, <2>2, <2>9, <2>10, <2>11 DEF Within
  <2> QED BY <2>1, <2>12 DEF j, z
<1> QED BY <1>7, <1>8

\* The sales alone buy nothing.
LEMMA SalesWithin ==
  ASSUME Numbers, NEW best, NEW w, Weighing(best, w), NEW W, AddsUp(W, best, w),
         NEW parts, Changes(parts)
  PROVE  Within(SellOrders(parts), W, 0, best, w)
<1>1. PICK q : q = SellOrders(parts)
  OBVIOUS
<1>2. q \in Seq(OrderSet)
  BY <1>1, SellOrdersFit DEF OrdersFit
<1>3. BuysOf(q) = {}
  <2> DEFINE S == {SellOrder(parts, s) : s \in Sells(parts)}
  <2>1. IsFiniteSet(S)
    <3>1. IsFiniteSet(Sells(parts))
      <4>1. Sells(parts) \subseteq Symbols
        BY DEF Sells, Changes
      <4> QED BY <4>1, ConstantsAssumption, FS_Subset
    <3> DEFINE T == Sells(parts)
               f == [s \in T |-> SellOrder(parts, s)]
    <3>2. f \in Surjection(T, S)
      BY DEF Surjection
    <3> HIDE DEF f, T, S
    <3> QED BY <3>1, <3>2, FS_Surjection DEF T
  <2>2. q \in Seq(S)
    <3>1. q = SetToSeq(S)
      BY <1>1 DEF SellOrders
    <3> HIDE DEF S
    <3> QED BY <2>1, <3>1, SetInSequence
  <2>3. \A o \in S : o.side = "sell"
    BY SellOrderFits
  <2> HIDE DEF S
  <2>4. \A k \in DOMAIN q : q[k].side = "sell"
    BY <2>2, <2>3
  <2> QED BY <2>4 DEF BuysOf
<1>4. Cost(q) = 0
  BY <1>2, <1>3, CostNone
<1>5. PICK d, m : d = Divisor(best, w) /\ m = Money
  OBVIOUS
<1>6. m \in Int /\ d \in Int
  <2>1. d \in Int
    <3>1. CASE config.constructor = "constrained"
      BY <1>5, <3>1, LotIs DEF AddsUp
    <3>2. CASE config.constructor # "constrained"
      <4>1. W[Len(best)] \in Int
        BY DEF AddsUp, Weighing
      <4> QED BY <1>5, <3>2, <4>1 DEF AddsUp
    <3> QED BY <3>1, <3>2
  <2> QED BY <1>5, <2>1, MoneyTyped
<1>7. W[0] = 0
  BY DEF AddsUp
<1>8. 0 * d <= m * 0
  BY <1>6
<1> QED BY <1>1, <1>2, <1>3, <1>4, <1>5, <1>7, <1>8 DEF Within
LEMMA IntentsWithin ==
  ASSUME Numbers, Money >= 0, NEW best, NEW w, Weighing(best, w), NEW W, AddsUp(W, best, w),
         NEW parts, Changes(parts), Paid(parts, best, w)
  PROVE  Within(Intents(best, parts), W, Len(best), best, w)
<1>0. best \in Seq(Signals)
  BY DEF Weighing
<1>1. PICK V : V = {q \in Seq(OrderSet) : OrdersFit(q)}
  OBVIOUS
<1>2. Books(parts, V)
  <2>1. SellOrders(parts) \in V
    BY <1>1, SellOrdersFit DEF OrdersFit
  <2>2. ASSUME NEW v \in V, NEW b \in Signals PROVE WithBuy(parts, v, b) \in V
    <3>1. OrdersFit(v)
      BY <1>1
    <3>2. OrdersFit(WithBuy(parts, v, b))
      BY <3>1, WithBuyFits
    <3> QED BY <1>1, <3>2 DEF OrdersFit
  <2> QED BY <2>1, <2>2 DEF Books
<1>3. PICK h \in [0..Len(best) -> V] :
           /\ h[0] = SellOrders(parts)
           /\ \A i \in Nat : i < Len(best) => h[i + 1] = WithBuy(parts, h[i], best[i + 1])
           /\ h[Len(best)] = Intents(best, parts)
  BY <1>0, <1>2, BuyHistory
<1> DEFINE Good == {i \in Nat : i <= Len(best) => Within(h[i], W, i, best, w)}
<1>4. 0 \in Good
  BY <1>3, SalesWithin
<1>5. ASSUME NEW i \in Nat, i < Len(best), i \in Good PROVE i + 1 \in Good
  <2>1. i <= Len(best)
    BY <1>0, <1>5
  <2>2. PICK q : q = h[i]
    OBVIOUS
  <2>3. Within(q, W, i, best, w)
    BY <1>5, <2>1, <2>2
  <2>4. Within(WithBuy(parts, q, best[i + 1]), W, i + 1, best, w)
    BY <1>5, <2>3, BuyKeepsWithin
  <2> QED BY <1>3, <1>5, <2>2, <2>4
<1> HIDE DEF Good
<1>6. PICK n : n = Len(best)
  OBVIOUS
<1>7. n \in Nat /\ \A i \in Nat : i < n /\ i \in Good => i + 1 \in Good
  BY <1>0, <1>5, <1>6
<1>8. n \in Good
  BY <1>4, <1>7, OneByOne
<1> QED BY <1>3, <1>6, <1>7, <1>8 DEF Good

\* What is held is worth no less than nothing.
LEMMA ExposureNat == ASSUME Numbers PROVE Exposure \in Nat
<1>1. PICK p, k : p = price /\ k = holdings
  OBVIOUS
<1>2. p \in Sizes /\ k \in Sizes
  BY <1>1 DEF Numbers
<1>3. PICK g : Sums(g, Worth(p, k), Some, Symbols) /\ Total(p, k) = g[Symbols]
  BY <1>2, TotalIsSum
<1>4. \A s \in Symbols : Worth(p, k)[s] \in Nat
  <2>1. ASSUME NEW s \in Symbols PROVE p[s] * k[s] * Rates.base \in Nat
    <3>1. p[s] \in Nat /\ k[s] \in Nat /\ Rates.base \in Nat
      BY <1>2, LotIs DEF Sizes
    <3>2. p[s] * k[s] \in Nat
      BY <3>1
    <3> QED BY <3>1, <3>2
  <2> QED BY <2>1 DEF Worth
<1> DEFINE Good == {v \in SUBSET Symbols : g[v] \in Nat}
<1>5. {} \in Good
  BY <1>3 DEF Sums
<1>6. ASSUME NEW v \in SUBSET Symbols, v # {}, v \ {Some[v]} \in Good PROVE v \in Good
  <2>1. Some[v] \in Symbols
    BY <1>6, SomePicks DEF Picks
  <2>2. g[v] = Worth(p, k)[Some[v]] + g[v \ {Some[v]}]
    BY <1>3, <1>6 DEF Sums
  <2> QED BY <1>4, <1>6, <2>1, <2>2
<1> HIDE DEF Good
<1>7. \A v \in SUBSET Symbols : v \in Good
  <2>1. PICK S, pick : S = Symbols /\ pick = Some
    OBVIOUS
  <2>2. Picks(pick, S) /\ \A s \in SUBSET S : s # {} /\ s \ {pick[s]} \in Good => s \in Good
    BY <1>6, <2>1, SomePicks
  <2>3. \A s \in SUBSET S : s \in Good
    BY <1>5, <2>2, PartByPart
  <2> QED BY <2>1, <2>3
<1> QED BY <1>1, <1>3, <1>7, ExposureIsTotal DEF Good

\* An account without debt has money to share out, or none.
LEMMA MoneyNat ==
  ASSUME Numbers, cash >= 0
  PROVE  /\ cash \in Nat /\ Equity \in Nat /\ Money \in Nat
         /\ Money > 0 => Equity > 0
<1>1. cash \in Nat /\ Exposure \in Nat
  BY ExposureNat DEF Numbers
<1>2. Equity \in Nat /\ (cash > 0 => Equity > 0)
  BY <1>1 DEF Equity
<1>3. BaseWeight \in Nat /\ config.pct \in Nat
  BY BaseWeightTyped
<1>4. CASE config.constructor = "constrained"
  <2>1. PICK e : e = Equity
    OBVIOUS
  <2>2. Money = e * BaseWeight
    BY <1>4, <2>1 DEF Money
  <2>3. e \in Nat /\ (e = 0 => e * BaseWeight = 0) /\ e * BaseWeight \in Nat
    BY <1>2, <1>3, <2>1
  <2> QED BY <1>1, <1>2, <2>1, <2>2, <2>3
<1>5. CASE config.constructor # "constrained"
  <2>1. Money = cash * config.pct
    BY <1>5 DEF Money
  <2>2. (cash = 0 => cash * config.pct = 0) /\ cash * config.pct \in Nat
    BY <1>1, <1>3
  <2> QED BY <1>1, <1>2, <2>1, <2>2
<1> QED BY <1>4, <1>5

\* Buys within the parts of the best signals deploy no more than the share of the cash
\* or of the equity.
LEMMA CostBounded ==
  ASSUME Numbers, cash >= 0, NEW best, NEW w, Weighing(best, w),
         config.constructor = "constrained" =>
           Len(best) * BaseWeight <= config.pct * MaxPositions,
         NEW W, AddsUp(W, best, w), NEW q, Within(q, W, Len(best), best, w)
  PROVE  Cost(q) * 100
           <= config.pct * (IF config.constructor = "constrained" THEN Equity ELSE cash)
<1>1. /\ cash \in Nat /\ Equity \in Nat /\ config.pct \in Nat /\ BaseWeight \in Nat
      /\ MaxPositions \in Nat \ {0} /\ Len(best) \in Nat
  BY MoneyNat, BaseWeightTyped, LotIs DEF Weighing
<1>2. PICK c, e, b, p, M, n : /\ c = Cost(q) /\ e = Equity /\ b = BaseWeight
                              /\ p = config.pct /\ M = MaxPositions /\ n = Len(best)
  OBVIOUS
<1>3. c \in Int /\ e \in Nat /\ b \in Nat /\ p \in Nat /\ M \in Nat \ {0} /\ n \in Nat
  BY <1>1, <1>2, CostTyped DEF Within
<1>4. c * Divisor(best, w) <= Money * W[n]
  BY <1>2 DEF Within
<1>5. CASE config.constructor = "constrained"
  <2>1. c * (100 * M) <= (e * b) * n
    BY <1>2, <1>4, <1>5 DEF AddsUp, Money
  <2>2. n * b <= p * M
    BY <1>2, <1>5
  <2>3. PICK x, y : x = n * b /\ y = p * M
    OBVIOUS
  <2>4. x \in Nat /\ y \in Nat /\ x <= y
    BY <1>3, <2>2, <2>3
  <2>5. x * e <= y * e
    BY <1>3, <2>4, Grows
  <2>6. (e * b) * n = x * e
    BY <1>3, <2>3
  <2>7. y * e = M * (p * e) /\ c * (100 * M) = M * (c * 100)
    BY <1>3, <2>3
  <2>8. c * 100 \in Int /\ p * e \in Int
    BY <1>3
  <2>9. PICK u, v : u = c * 100 /\ v = p * e
    OBVIOUS
  <2>10. M * u <= M * v /\ u \in Int /\ v \in Int
    <3>1. x * e \in Int /\ y * e \in Int /\ c * (100 * M) \in Int
      BY <1>3, <2>4
    <3> QED BY <2>1, <2>5, <2>6, <2>7, <2>8, <2>9, <3>1
  <2>11. ~(v < u)
    <3> SUFFICES ASSUME v < u PROVE FALSE
      OBVIOUS
    <3>1. M * v < M * u
      <4>1. u - v \in Nat \ {0}
        BY <2>10
      <4>2. M * (u - v) \in Nat \ {0}
        <5>1. PICK d : d = u - v
          OBVIOUS
        <5>2. M * d \in Nat \ {0}
          BY <1>3, <4>1, <5>1, Positive
        <5> QED BY <5>1, <5>2
      <4>3. M * (u - v) = M * u - M * v
        BY <1>3, <2>10, Distributes
      <4>4. M * u \in Int /\ M * v \in Int
        BY <1>3, <2>10
      <4> QED BY <4>2, <4>3, <4>4
    <3>2. M * u \in Int /\ M * v \in Int
      BY <1>3, <2>10
    <3> QED BY <2>10, <3>1, <3>2
  <2> QED BY <1>2, <1>5, <2>9, <2>10, <2>11
<1>6. CASE config.constructor # "constrained"
  <2>1. PICK k, a : k = W[n] /\ a = cash
    OBVIOUS
  <2>2. k \in Int /\ a \in Nat
    BY <1>1, <1>2, <1>3, <2>1 DEF AddsUp
  <2>3. c * (100 * k) <= (a * p) * k
    BY <1>2, <1>4, <1>6, <2>1 DEF AddsUp, Money
  <2>4. CASE n = 0
    <3>1. c = 0 /\ p * a \in Nat
      BY <1>2, <1>3, <2>2, <2>4 DEF Within
    <3> QED BY <1>2, <1>6, <2>1, <3>1
  <2>5. CASE n # 0
    <3>1. k \in Nat \ {0}
      <4>1. 1 \in DOMAIN best
        BY <1>2, <1>3, <2>5 DEF Weighing
      <4>2. Divisor(best, w) \in Nat \ {0}
        BY <4>1, OwnTyped
      <4>3. Divisor(best, w) = 100 * k
        BY <1>2, <1>6, <2>1 DEF AddsUp
      <4> QED BY <2>2, <4>2, <4>3
    <3>2. PICK u, v : u = c * 100 /\ v = p * a
      OBVIOUS
    <3>3. u \in Int /\ v \in Int /\ c * (100 * k) = k * u /\ (a * p) * k = k * v
      BY <1>3, <2>2, <3>2
    <3>4. ~(v < u)
      <4> SUFFICES ASSUME v < u PROVE FALSE
        OBVIOUS
      <4>1. u - v \in Nat \ {0}
        BY <3>3
      <4>2. k * (u - v) \in Nat \ {0}
        <5>1. PICK d : d = u - v
          OBVIOUS
        <5>2. k * d \in Nat \ {0}
          BY <3>1, <4>1, <5>1, Positive
        <5> QED BY <5>1, <5>2
      <4>3. k * (u - v) = k * u - k * v
        BY <3>1, <3>3, Distributes
      <4>4. k * u \in Int /\ k * v \in Int
        BY <3>1, <3>3
      <4> QED BY <2>3, <3>3, <4>2, <4>3, <4>4
    <3> QED BY <1>2, <1>6, <2>1, <3>2, <3>3, <3>4
  <2> QED BY <2>4, <2>5
<1> QED BY <1>5, <1>6
\* A buy of one lot, or one that keeps its stock within the single-position limit.
Limited(o) ==
  LET s == o.symbol  n == o.shares
  IN \/ n = Lot
     \/ s \in Funds /\ Amount(s, n) * 100 <= Limits.single * Equity
     \/ Amount(s, n + holdings[s]) * 100 <= Limits.single * Equity

LEMMA SingleLimits ==
  ASSUME Numbers, Equity \in Nat, Equity > 0, NEW o \in OrderSet, Single(o)
  PROVE  Limited(o)
<1> DEFINE s == o.symbol
           n == o.shares
<1>1. s \in Symbols /\ n \in Nat
  BY DEF OrderSet
<1>2. holdings[s] \in Nat
  BY <1>1 DEF Numbers, Sizes
<1>3. CASE n = Lot
  BY <1>3 DEF Limited
<1>4. CASE n # Lot
  <2>1. PICK x \in Nat : n <= x /\ Passes(s, x)
    BY <1>4 DEF Single
  <2> DEFINE known == IF s \in Funds THEN 0 ELSE Amount(s, holdings[s])
  <2>2. Abs(x) = x
    BY DEF Abs
  <2>3. (known + Amount(s, x)) * 100 <= Limits.single * Equity
    BY <2>1, <2>2 DEF Passes
  <2>4. PICK l, a, b, c : /\ l = Limits.single * Equity /\ a = Amount(s, n)
                          /\ b = Amount(s, x) /\ c = Amount(s, holdings[s])
    OBVIOUS
  <2>5. l \in Int
    <3>1. Limits.single \in Nat
      BY ConstantsAssumption
    <3> QED BY <2>4, <3>1
  <2> HIDE DEF s, n
  <2>6. a \in Nat /\ b \in Nat /\ a <= b
    <3>1. PICK t, m : t = s /\ m = n
      OBVIOUS
    <3>2. Amount(t, m) <= Amount(t, x) /\ Amount(t, m) \in Nat /\ Amount(t, x) \in Nat
      BY <1>1, <2>1, <3>1, AmountGrows, AmountTyped
    <3> QED BY <2>4, <3>1, <3>2
  <2>7. c \in Nat /\ Amount(s, n + holdings[s]) = a + c
    <3>1. PICK t, m, k : t = s /\ m = n /\ k = holdings[s]
      OBVIOUS
    <3>2. Amount(t, m + k) = Amount(t, m) + Amount(t, k) /\ Amount(t, k) \in Nat
      BY <1>1, <1>2, <3>1, AmountAdds, AmountTyped
    <3> QED BY <2>4, <3>1, <3>2
  <2>8. CASE s \in Funds
    <3>1. (0 + b) * 100 <= l
      BY <2>3, <2>4, <2>8
    <3>2. a * 100 <= l
      BY <2>5, <2>6, <3>1
    <3> QED BY <2>4, <2>8, <3>2 DEF Limited, s, n
  <2>9. CASE s \notin Funds
    <3>1. (c + b) * 100 <= l
      BY <2>3, <2>4, <2>9
    <3>2. (a + c) * 100 <= l
      BY <2>5, <2>6, <2>7, <3>1
    <3>3. Amount(s, n + holdings[s]) * 100 <= Limits.single * Equity
      BY <2>4, <2>7, <3>2
    <3> QED BY <3>3 DEF Limited, s, n
  <2> QED BY <2>8, <2>9
<1> QED BY <1>3, <1>4

LEMMA NothingDeployed ==
  ASSUME Numbers, cash >= 0
  PROVE  0 <= config.pct * (IF config.constructor = "constrained" THEN Equity ELSE cash)
<1>1. cash \in Nat /\ Equity \in Nat /\ config.pct \in Nat
  BY MoneyNat, BaseWeightTyped
<1>2. config.pct * cash \in Nat /\ config.pct * Equity \in Nat
  BY <1>1
<1> QED BY <1>2

LEMMA RebalanceBounded ==
  ASSUME Accounted, cash >= 0, NEW signals \in SignalLists, NEW w \in Weights,
         Rebalance(signals, w)
  PROVE  /\ Cost(intents') * 100
              <= config.pct * (IF config.constructor = "constrained" THEN Equity ELSE cash)
         /\ \A i \in BuysOf(intents') : Limited(intents'[i])
<1> DEFINE best   == Best(signals)
           deltas == IF \/ signals = <<>>
                        \/ config.constructor = "constrained" /\ Equity <= 0
                     THEN <<>> ELSE Targets(best, w)
           parts  == [s \in DOMAIN deltas |-> Adjusted(s, deltas[s])]
<1>1. /\ intents' = Intents(best, parts)
      /\ Len(w) = IF config.constructor = "inverse_vol" THEN Len(best) ELSE 0
  BY DEF Rebalance
<1>2. Numbers
  BY DEF Accounted
<1>3. signals \in Seq(Signals) /\ Once(signals) /\ w \in Seq(Nat \ {0})
  BY SignalsOnce, ConstantsAssumption
<1>4. /\ best \in Seq(Signals) /\ Once(best)
      /\ signals # <<>> /\ config.constructor # "constrained" => Len(best) > 0
      /\ config.constructor = "constrained" =>
           Len(best) * BaseWeight <= config.pct * MaxPositions
  BY <1>2, <1>3, BestOnce
<1>5. Weighing(best, w)
  BY <1>1, <1>3, <1>4 DEF Weighing
<1>6. deltas = <<>> \/ deltas = Targets(best, w)
  OBVIOUS
<1> HIDE DEF best, deltas
<1>7. Changes(deltas)
  <2>1. Changes(<<>>)
    <3>1. DOMAIN <<>> = {}
      OBVIOUS
    <3> QED BY <3>1 DEF Changes
  <2>2. Changes(Targets(best, w))
    BY <1>2, <1>5, TargetsTyped DEF Weighing
  <2> QED BY <1>6, <2>1, <2>2
<1>8. Changes(parts)
  BY <1>7, AdjustedTyped
<1>9. Paid(parts, best, w)
  BY <1>2, <1>4, <1>5, <1>6, PartsArePaid
<1> HIDE DEF parts
<1>10. PICK W : AddsUp(W, best, w)
  BY <1>2, <1>5, PartsAddUp
<1>11. Money >= 0 /\ Equity \in Nat /\ (Money > 0 => Equity > 0)
  BY <1>2, MoneyNat
<1>12. PICK q : q = Intents(best, parts)
  OBVIOUS
<1>13. Within(q, W, Len(best), best, w)
  BY <1>2, <1>5, <1>8, <1>9, <1>10, <1>11, <1>12, IntentsWithin
<1>14. Cost(q) * 100
         <= config.pct * (IF config.constructor = "constrained" THEN Equity ELSE cash)
  BY <1>2, <1>4, <1>5, <1>10, <1>13, CostBounded
<1>15. \A i \in BuysOf(q) : Limited(q[i])
  <2> SUFFICES ASSUME NEW i \in BuysOf(q) PROVE Limited(q[i])
    OBVIOUS
  <2>1. Single(q[i]) /\ Money > 0 /\ q \in Seq(OrderSet)
    BY <1>13 DEF Within
  <2>2. q[i] \in OrderSet
    BY <2>1 DEF BuysOf
  <2>3. PICK o : o = q[i]
    OBVIOUS
  <2>4. Limited(o)
    BY <1>2, <1>11, <2>1, <2>2, <2>3, SingleLimits
  <2> QED BY <2>3, <2>4
<1> QED BY <1>1, <1>12, <1>14, <1>15

\* The buys of a rebalance, after the risk adjuster halved them and the router rounded
\* them, deploy together at most the constructor's share of the cash (or of the equity),
\* and each of more than one lot keeps its stock within the single-position limit, for
\* any signals that name a symbol once: where lots pay the fees of their sale, without
\* which an account in debt has no share to deploy.
THEOREM BuysAreBounded ==
  ASSUME LotsPayFees
  PROVE  Spec => BuysBounded
<1> DEFINE IInv == Accounted /\ cash >= 0
           Share == config.pct * (IF config.constructor = "constrained" THEN Equity ELSE cash)
           Step == phase = "opened" /\ phase' = "filling" =>
                     /\ Cost(intents') * 100 <= Share
                     /\ \A i \in BuysOf(intents') : Limited(intents'[i])
<1>1. Init => IInv
  <2> SUFFICES ASSUME Init PROVE cash >= 0
    BY InitAccounted
  <2>1. cash = InitialCash /\ InitialCash \in Nat
    BY ConstantsAssumption DEF Init
  <2> QED BY <2>1
<1>2. IInv /\ Quoted /\ [Next]_vars => IInv'
  <2> SUFFICES ASSUME IInv, Quoted, [Next]_vars PROVE IInv'
    OBVIOUS
  <2>1. SalesPayFees
    BY EverySalePays DEF Accounted
  <2> QED BY <2>1, NextAccounts, CashStaysPositive
<1>3. IInv /\ [Next]_vars => [Step]_vars
  <2> SUFFICES ASSUME IInv, Next, phase = "opened", phase' = "filling"
               PROVE  /\ Cost(intents') * 100 <= Share
                      /\ \A i \in BuysOf(intents') : Limited(intents'[i])
    OBVIOUS
  <2>1. ASSUME NEW gap \in Gaps, NEW prices \in PriceLists, NEW r \in Regimes,
               NewDay(gap, prices, r)
        PROVE  FALSE
    BY <2>1 DEF NewDay
  <2>2. ~Skip /\ ~Fill
    BY DEF Skip, Fill
  <2>3. PICK signals \in SignalLists, w \in Weights : Rebalance(signals, w)
    BY <2>1, <2>2 DEF Next
  <2> QED BY <2>3, RebalanceBounded
<1>4. Step => (phase = "opened" /\ phase' = "filling" =>
       /\ MapThenSumSet(LAMBDA i : Amount(intents'[i].symbol, intents'[i].shares),
                        BuysOf(intents')) * 100 <= Share
       /\ \A i \in BuysOf(intents') :
            LET s == intents'[i].symbol  n == intents'[i].shares
            IN \/ n = Lot
               \/ s \in Funds /\ Amount(s, n) * 100 <= Limits.single * Equity
               \/ Amount(s, n + holdings[s]) * 100 <= Limits.single * Equity)
  BY DEF Cost, Limited
<1> HIDE DEF IInv
<1> QED BY <1>1, <1>2, <1>3, <1>4, AlwaysQuoted, PTL DEF Spec, BuysBounded
=============================================================================
