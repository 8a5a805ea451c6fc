------------------------- MODULE RegimeTrackerProofs -------------------------
(* Theorems about RegimeTracker, for every set of hosts and threads, every  *)
(* number of days and every min_dwell.                                      *)
EXTENDS RegimeTracker, SequenceTheorems, TLAPS

\* The count of a tracker is the length of a run of newest readings.
Earned(tr) ==
  tr.pending # "none" => tr.count > 0 /\ Latest(tr.readings, tr.count, tr.pending)

Sorted(tr) ==
  \A i, j \in 1..Len(tr.readings) : i < j => tr.readings[i].day < tr.readings[j].day

UpTo(tr, d) == \A i \in 1..Len(tr.readings) : tr.readings[i].day <= d

\* Days of the readings increase, and none is newer than the last day.
InOrder(tr) == Sorted(tr) /\ UpTo(tr, tr.lastDay)

Sound(tr) == Earned(tr) /\ (Quiet => InOrder(tr))

\* Between the branch and the write of the last key a reading may be newer than that key.
InKey(h) == \E t \in Threads : call[t].host = h /\ call[t].at = "key"

HostSound(h) ==
  tracker[h] # NoTracker =>
    /\ Earned(tracker[h])
    /\ Quiet => Sorted(tracker[h])
    /\ Quiet /\ ~InKey(h) => UpTo(tracker[h], tracker[h].lastDay)

\* A call in progress has a host that runs and a day; undisturbed it is the only one of
\* its host, and its comparison still holds when it is used.
CallSound(t) ==
  call[t].at # "idle" =>
    /\ call[t].host \in Hosts
    /\ TrackerOf(t) # NoTracker
    /\ Sound(call[t].copy)
    /\ Quiet => \A u \in Threads : call[u].host = call[t].host => u = t
    /\ call[t].at \in {"branch", "key"} => call[t].day >= 1
    /\ (Quiet /\ call[t].at = "branch") =>
         /\ call[t].day >= TrackerOf(t).lastDay
         /\ call[t].isNew <=> call[t].day # TrackerOf(t).lastDay
    /\ (Quiet /\ call[t].at = "key") => UpTo(TrackerOf(t), call[t].day)

IdleSound(t) == call[t].at = "idle" => call[t] = Idle

Inv ==
  /\ TypeOK
  /\ \A h \in Hosts : HostSound(h)
  /\ file # NoTracker => Sound(file)
  /\ \A t \in Threads : CallSound(t) /\ IdleSound(t)

-----------------------------------------------------------------------------
(* Operators.                                                                *)

LEMMA FreshSound == Fresh \in Trackers /\ Sound(Fresh)
  <1>1. << >> \in Readings /\ Len(<< >>) = 0
    BY DEF Readings
  <1>2. Fresh \in Trackers
    <2>1. 0 \in 0..MaxDay /\ 1 \in 1..MaxDwell /\ 0 \in Nat
      BY TrackerAssumption
    <2> QED
      BY <1>1, <2>1 DEF Fresh, Trackers, Known, Regimes
  <1>3. Fresh.pending = "none" /\ Fresh.readings = << >>
    BY DEF Fresh
  <1>4. InOrder(Fresh)
    BY <1>1, <1>3 DEF InOrder, Sorted, UpTo
  <1> QED
    BY <1>2, <1>3, <1>4 DEF Sound, Earned

LEMMA Bounds == MaxDay \in Nat \ {0} /\ MaxDwell \in Nat \ {0} /\ MaxEvents \in Nat
  BY TrackerAssumption

LEMMA IdleIsCall == Idle \in Calls
  <1>1. 0 \in 0..MaxDay
    BY Bounds
  <1> QED
    BY <1>1, FreshSound DEF Idle, Calls, Steps, Known, Regimes, NoView

\* Appending a reading of the pending regime lengthens its run.
LEMMA LatestAppend ==
  ASSUME NEW s \in Readings, NEW n \in Nat, NEW e \in [day: 1..MaxDay, raw: Regimes],
         n = 0 \/ Latest(s, n, e.raw)
  PROVE  /\ Append(s, e) \in Readings
         /\ \A k \in 0..(n + 1) : Latest(Append(s, e), k, e.raw)
  <1>1. /\ Append(s, e) \in Readings
        /\ Len(s) \in Nat /\ Len(Append(s, e)) = Len(s) + 1
        /\ Append(s, e)[Len(s) + 1] = e
        /\ \A i \in 1..Len(s) : Append(s, e)[i] = s[i]
    BY DEF Readings
  <1>2. ASSUME NEW k \in 0..(n + 1)
        PROVE  Latest(Append(s, e), k, e.raw)
    <2>1. n <= Len(s)
      BY <1>1 DEF Latest
    <2>2. ASSUME NEW i \in (Len(s) + 1 - k + 1)..(Len(s) + 1)
          PROVE  Append(s, e)[i].raw = e.raw
      <3>1. CASE i = Len(s) + 1
        BY <3>1, <1>1
      <3>2. CASE i # Len(s) + 1
        <4>1. i \in 1..Len(s) /\ i \in (Len(s) - n + 1)..Len(s) /\ n # 0
          BY <3>2, <2>1, <1>1
        <4> QED
          BY <4>1, <1>1 DEF Latest
      <3> QED
        BY <3>1, <3>2
    <2> QED
      BY <2>1, <2>2, <1>1 DEF Latest
  <1> QED
    BY <1>1, <1>2

LEMMA InOrderAppend ==
  ASSUME NEW tr \in Trackers, InOrder(tr), NEW d \in 1..MaxDay, NEW raw \in Regimes,
         d > tr.lastDay
  PROVE  LET s == Append(tr.readings, [day |-> d, raw |-> raw]) IN
         /\ \A i, j \in 1..Len(s) : i < j => s[i].day < s[j].day
         /\ \A i \in 1..Len(s) : s[i].day <= d
  <1> DEFINE s == Append(tr.readings, [day |-> d, raw |-> raw])
  <1> DEFINE e == [day |-> d, raw |-> raw]
             R == [day: 1..MaxDay, raw: Regimes]
  <1>1. tr.readings \in Seq(R) /\ tr.lastDay \in 0..MaxDay /\ e \in R /\ e.day = d
    BY DEF Trackers, Readings
  <1>2. /\ \A i \in 1..Len(tr.readings) : tr.readings[i] \in R
        /\ Len(tr.readings) \in Nat /\ Len(s) = Len(tr.readings) + 1
        /\ s[Len(tr.readings) + 1].day = d
        /\ \A i \in 1..Len(tr.readings) : s[i] = tr.readings[i]
    <2> HIDE DEF e, R
    <2>1. s = Append(tr.readings, e)
      BY DEF e
    <2> QED
      BY <2>1, <1>1
  <1>6. \A i \in 1..Len(tr.readings) : tr.readings[i].day \in 1..MaxDay
    BY <1>2
  <1> HIDE DEF s, R, e
  <1>3. \A i \in 1..Len(tr.readings) : s[i].day <= tr.lastDay /\ s[i].day \in 1..MaxDay
    BY <1>2, <1>6 DEF InOrder, Sorted, UpTo
  <1>4. \A i, j \in 1..Len(s) : i < j => s[i].day < s[j].day
    <2> TAKE i, j \in 1..Len(s)
    <2> HAVE i < j
    <2>1. i \in 1..Len(tr.readings)
      BY <1>2
    <2>2. CASE j = Len(tr.readings) + 1
      BY <2>1, <2>2, <1>2, <1>3, <1>1, Bounds
    <2>3. CASE j # Len(tr.readings) + 1
      <3>1. j \in 1..Len(tr.readings)
        BY <2>3, <1>2
      <3> QED
        BY <3>1, <2>1, <1>2 DEF InOrder, Sorted, UpTo
    <2> QED
      BY <2>2, <2>3
  <1>5. \A i \in 1..Len(s) : s[i].day <= d
    <2> TAKE i \in 1..Len(s)
    <2>1. CASE i = Len(tr.readings) + 1
      BY <2>1, <1>2
    <2>2. CASE i # Len(tr.readings) + 1
      BY <2>2, <1>2, <1>3, <1>1, Bounds
    <2> QED
      BY <2>1, <2>2
  <1> QED
    BY <1>4, <1>5 DEF s

\* What the branch makes of a tracker.
Branched(tr, raw, d, isNew) ==
  [Count(tr, raw, isNew) EXCEPT
     !.readings = IF isNew THEN Append(@, [day |-> d, raw |-> raw]) ELSE @]

LEMMA ConfirmFields ==
  ASSUME NEW tr \in Trackers, NEW raw \in Regimes
  PROVE  LET c == Confirm(tr, raw) IN
         /\ c \in Trackers /\ c.readings = tr.readings /\ c.minDwell = tr.minDwell
         /\ c.pending = "none" /\ c.confirmed = raw
  <1>1. Confirm(tr, raw) \in Trackers
    BY DEF Confirm, Trackers
  <1>2. Confirm(tr, raw).readings = tr.readings
    BY DEF Confirm, Trackers
  <1>3. Confirm(tr, raw).minDwell = tr.minDwell
    BY DEF Confirm, Trackers
  <1>4. Confirm(tr, raw).pending = "none" /\ Confirm(tr, raw).confirmed = raw
    BY DEF Confirm, Trackers
  <1> QED
    BY <1>1, <1>2, <1>3, <1>4

LEMMA CountFields ==
  ASSUME NEW tr \in Trackers, NEW raw \in Regimes, NEW isNew \in BOOLEAN
  PROVE  /\ Count(tr, raw, isNew) \in Trackers
         /\ Count(tr, raw, isNew).readings = tr.readings
         /\ Count(tr, raw, isNew).minDwell = tr.minDwell
         /\ Count(tr, raw, isNew).pending # "none" =>
              \/ /\ Count(tr, raw, isNew).pending = tr.pending
                 /\ Count(tr, raw, isNew).count = tr.count
                 /\ ~isNew
              \/ /\ isNew /\ raw = Count(tr, raw, isNew).pending
                 /\ \/ Count(tr, raw, isNew).count = 1
                    \/ /\ tr.pending = raw
                       /\ Count(tr, raw, isNew).count = tr.count + 1
         /\ ( /\ Count(tr, raw, isNew).confirmed # tr.confirmed
              /\ {tr.confirmed, Count(tr, raw, isNew).confirmed} \subseteq Known
              /\ tr.minDwell > 1 ) =>
              /\ isNew /\ raw = Count(tr, raw, isNew).confirmed
              /\ tr.pending = raw
              /\ tr.count + 1 >= tr.minDwell
  <1> DEFINE c == Count(tr, raw, isNew)
  <1>1. /\ tr.confirmed \in Regimes /\ tr.pending \in Known \cup {"none"}
        /\ tr.count \in Nat /\ tr.minDwell \in Nat
    BY Bounds DEF Trackers
  <1>2. CASE raw = "unknown" \/ tr.minDwell <= 1 \/ tr.confirmed \in {"unknown", raw}
    <2>1. c = Confirm(tr, raw)
      BY <1>2 DEF Count
    <2>2. /\ c \in Trackers /\ c.readings = tr.readings /\ c.minDwell = tr.minDwell
          /\ c.pending = "none" /\ c.confirmed = raw
      BY <2>1, ConfirmFields
    <2> QED
      BY <2>2, <1>1, <1>2 DEF Known
  <1>3. CASE /\ ~(raw = "unknown" \/ tr.minDwell <= 1 \/ tr.confirmed \in {"unknown", raw})
             /\ ~isNew
    BY <1>3 DEF Count
  <1>4. CASE /\ ~(raw = "unknown" \/ tr.minDwell <= 1 \/ tr.confirmed \in {"unknown", raw})
             /\ isNew /\ raw # tr.pending
    <2>1. c = [tr EXCEPT !.pending = raw, !.count = 1]
      BY <1>4 DEF Count
    <2>2. raw \in Known \cup {"none"} /\ 1 \in Nat
      BY <1>4 DEF Regimes
    <2>3. c \in Trackers
      BY <2>1, <2>2 DEF Trackers
    <2>4. c.readings = tr.readings /\ c.minDwell = tr.minDwell
      BY <2>1 DEF Trackers
    <2>5. c.pending = raw /\ c.confirmed = tr.confirmed /\ c.count = 1
      BY <2>1 DEF Trackers
    <2> QED
      BY <2>3, <2>4, <2>5, <1>4
  <1>5. CASE /\ ~(raw = "unknown" \/ tr.minDwell <= 1 \/ tr.confirmed \in {"unknown", raw})
             /\ isNew /\ raw = tr.pending /\ tr.count + 1 < tr.minDwell
    <2>1. c = [tr EXCEPT !.count = @ + 1]
      BY <1>5 DEF Count
    <2>2. /\ c \in Trackers /\ c.readings = tr.readings /\ c.minDwell = tr.minDwell
          /\ c.pending = raw /\ c.confirmed = tr.confirmed /\ c.count = tr.count + 1
      BY <2>1, <1>1, <1>5 DEF Trackers
    <2> QED
      BY <2>2, <1>5
  <1>6. CASE /\ ~(raw = "unknown" \/ tr.minDwell <= 1 \/ tr.confirmed \in {"unknown", raw})
             /\ isNew /\ raw = tr.pending /\ ~(tr.count + 1 < tr.minDwell)
    <2>1. c = Confirm(tr, raw)
      BY <1>6 DEF Count
    <2>2. /\ c \in Trackers /\ c.readings = tr.readings /\ c.minDwell = tr.minDwell
          /\ c.pending = "none" /\ c.confirmed = raw
      BY <2>1, ConfirmFields
    <2>3. tr.count + 1 >= tr.minDwell
      BY <1>6, <1>1
    <2>4. isNew /\ raw = tr.pending
      BY <1>6
    <2> QED
      BY <2>2, <2>3, <2>4, Zenon
  <1> QED
    BY <1>2, <1>3, <1>4, <1>5, <1>6

LEMMA BranchedFields ==
  ASSUME NEW tr \in Trackers, NEW raw \in Regimes, NEW isNew \in BOOLEAN,
         NEW d \in 1..MaxDay
  PROVE  LET u == Branched(tr, raw, d, isNew)
             c == Count(tr, raw, isNew) IN
         /\ u \in Trackers
         /\ u.confirmed = c.confirmed /\ u.pending = c.pending /\ u.count = c.count
         /\ u.minDwell = tr.minDwell
         /\ u.readings = IF isNew THEN Append(tr.readings, [day |-> d, raw |-> raw])
                                  ELSE tr.readings
  <1> DEFINE e == [day |-> d, raw |-> raw]
  <1>1. /\ Count(tr, raw, isNew) \in Trackers
        /\ Count(tr, raw, isNew).readings = tr.readings
        /\ Count(tr, raw, isNew).minDwell = tr.minDwell
    BY CountFields
  <1>2. tr.readings \in Readings /\ Append(tr.readings, e) \in Readings
    BY DEF Trackers, Readings
  <1> DEFINE c == Count(tr, raw, isNew)
             rs == IF isNew THEN Append(tr.readings, e) ELSE tr.readings
  <1>4. Branched(tr, raw, d, isNew) = [c EXCEPT !.readings = rs]
    BY <1>1 DEF Branched
  <1>5. rs \in Readings
    BY <1>2
  <1> HIDE DEF c, rs
  <1>6. LET u == [c EXCEPT !.readings = rs] IN
        /\ u \in Trackers
        /\ u.confirmed = c.confirmed /\ u.pending = c.pending /\ u.count = c.count
        /\ u.minDwell = c.minDwell /\ u.readings = rs
    BY <1>1, <1>5 DEF Trackers, c
  <1> QED
    BY <1>1, <1>4, <1>6 DEF c, rs

LEMMA BranchedEarned ==
  ASSUME NEW tr \in Trackers, NEW raw \in Regimes, NEW isNew \in BOOLEAN,
         NEW d \in 1..MaxDay, Earned(tr)
  PROVE  Earned(Branched(tr, raw, d, isNew))
  <1> DEFINE u == Branched(tr, raw, d, isNew)
             c == Count(tr, raw, isNew)
             e == [day |-> d, raw |-> raw]
  <1>1. /\ u.pending = c.pending /\ u.count = c.count
        /\ u.readings = IF isNew THEN Append(tr.readings, e) ELSE tr.readings
    BY BranchedFields
  <1>2. c.pending # "none" =>
          \/ c.pending = tr.pending /\ c.count = tr.count /\ ~isNew
          \/ /\ isNew /\ raw = c.pending
             /\ c.count = 1 \/ (tr.pending = raw /\ c.count = tr.count + 1)
    BY CountFields
  <1>3. tr.readings \in Readings /\ tr.count \in Nat /\ e \in [day: 1..MaxDay, raw: Regimes]
    BY DEF Trackers
  <1>4. e.raw = raw
    OBVIOUS
  <1> HIDE DEF u, c, e
  <1> SUFFICES ASSUME u.pending # "none"
               PROVE  u.count > 0 /\ Latest(u.readings, u.count, u.pending)
    BY DEF Earned, u
  <1>5. CASE c.pending = tr.pending /\ c.count = tr.count /\ ~isNew
    BY <1>1, <1>5 DEF Earned
  <1>6. CASE isNew /\ raw = c.pending /\ c.count = 1
    <2>1. Latest(Append(tr.readings, e), 1, raw)
      BY <1>3, <1>4, LatestAppend, 1 \in 0..(0 + 1), 0 \in Nat, Zenon
    <2> QED
      BY <2>1, <1>1, <1>6
  <1>7. CASE isNew /\ raw = c.pending /\ tr.pending = raw /\ c.count = tr.count + 1
    <2>1. tr.count > 0 /\ Latest(tr.readings, tr.count, raw)
      BY <1>7, <1>1 DEF Earned
    <2>2. tr.count + 1 \in 0..(tr.count + 1)
      BY <1>3
    <2>3. Latest(Append(tr.readings, e), tr.count + 1, raw)
      BY <1>3, <1>4, <2>1, <2>2, LatestAppend, Zenon
    <2> QED
      BY <2>1, <2>3, <1>1, <1>3, <1>7
  <1> QED
    BY <1>1, <1>2, <1>5, <1>6, <1>7

LEMMA BranchedInOrder ==
  ASSUME NEW tr \in Trackers, NEW raw \in Regimes, NEW isNew \in BOOLEAN,
         NEW d \in 1..MaxDay, InOrder(tr), d >= tr.lastDay, isNew <=> d # tr.lastDay
  PROVE  Sorted(Branched(tr, raw, d, isNew)) /\ UpTo(Branched(tr, raw, d, isNew), d)
  <1> DEFINE u == Branched(tr, raw, d, isNew)
             e == [day |-> d, raw |-> raw]
  <1>1. u.readings = IF isNew THEN Append(tr.readings, e) ELSE tr.readings
    BY BranchedFields
  <1>2. tr.lastDay \in 0..MaxDay /\ MaxDay \in Nat
    BY Bounds DEF Trackers
  <1>3. CASE isNew
    <2>1. d > tr.lastDay
      BY <1>2, <1>3
    <2> DEFINE s == Append(tr.readings, e)
    <2>2. /\ \A i, j \in 1..Len(s) : i < j => s[i].day < s[j].day
          /\ \A i \in 1..Len(s) : s[i].day <= d
      BY <2>1, InOrderAppend
    <2>3. u.readings = s
      BY <1>1, <1>3
    <2> HIDE DEF s, u
    <2> QED
      BY <2>2, <2>3 DEF Sorted, UpTo, u
  <1>4. CASE ~isNew
    <2>1. u.readings = tr.readings /\ tr.lastDay = d
      BY <1>1, <1>4
    <2> HIDE DEF u
    <2> QED
      BY <2>1 DEF InOrder, Sorted, UpTo, u
  <1> QED
    BY <1>3, <1>4

\* A known regime that the branch replaces by another one was read min_dwell times in a row.
LEMMA BranchedSwitch ==
  ASSUME NEW tr \in Trackers, NEW raw \in Regimes, NEW isNew \in BOOLEAN,
         NEW d \in 1..MaxDay, Earned(tr),
         Branched(tr, raw, d, isNew).confirmed # tr.confirmed,
         tr.confirmed \in Known, Branched(tr, raw, d, isNew).confirmed \in Known,
         tr.minDwell > 1
  PROVE  Latest(Branched(tr, raw, d, isNew).readings, tr.minDwell,
                Branched(tr, raw, d, isNew).confirmed)
  <1> DEFINE u == Branched(tr, raw, d, isNew)
             c == Count(tr, raw, isNew)
             e == [day |-> d, raw |-> raw]
  <1>1. /\ u.confirmed = c.confirmed
        /\ u.readings = IF isNew THEN Append(tr.readings, e) ELSE tr.readings
    BY BranchedFields
  <1>2. isNew /\ raw = c.confirmed /\ tr.pending = raw /\ tr.count + 1 >= tr.minDwell
    <2>1. c.confirmed # tr.confirmed /\ {tr.confirmed, c.confirmed} \subseteq Known
      BY <1>1
    <2> QED
      BY <2>1, CountFields
  <1>3. /\ tr.readings \in Readings /\ tr.count \in Nat /\ tr.minDwell \in 1..MaxDwell
        /\ e \in [day: 1..MaxDay, raw: Regimes] /\ e.raw = raw
    BY DEF Trackers
  <1>4. raw # "none"
    BY DEF Regimes, Known
  <1>5. Latest(tr.readings, tr.count, raw)
    BY <1>2, <1>4 DEF Earned
  <1>6. tr.minDwell \in 0..(tr.count + 1)
    BY <1>2, <1>3, Bounds
  <1> HIDE DEF e
  <1>7. Latest(Append(tr.readings, e), tr.minDwell, raw)
    BY <1>3, <1>5, <1>6, LatestAppend, Zenon
  <1> HIDE DEF u, c
  <1> QED
    BY <1>1, <1>2, <1>7 DEF u

\* Of readings in order the last ones are of different days.
LEMMA SortedDiffers ==
  ASSUME NEW tr \in Trackers, Sorted(tr), NEW n \in Nat, n <= Len(tr.readings)
  PROVE  DifferentDays(tr.readings, n)
  <1>1. Len(tr.readings) \in Nat
    BY DEF Trackers, Readings
  <1> QED
    BY <1>1 DEF Sorted, DifferentDays

-----------------------------------------------------------------------------
(* The steps.                                                                *)

LEMMA DecisionKnown ==
  ASSUME NEW view \in Views
  PROVE  Decision(view) \in Known
  <1>1. view.rule \in Known
    BY TrackerAssumption
  <1>2. \A probs : Largest(probs) \in Known
    BY DEF Largest, Known
  <1> QED
    BY <1>1, <1>2 DEF Decision

LEMMA InitInv == Init => Inv
  <1> SUFFICES ASSUME Init PROVE Inv
    OBVIOUS
  <1>1. TypeOK
    BY IdleIsCall, Bounds, TrackerAssumption DEF Init, TypeOK
  <1>2. \A t \in Threads : call[t] = Idle
    BY DEF Init
  <1>3. \A h \in Hosts : tracker[h] = NoTracker
    BY DEF Init
  <1>4. file = NoTracker
    BY DEF Init
  <1> QED
    <2>1. \A t \in Threads : call[t].at = "idle"
      BY <1>2 DEF Idle
    <2>2. \A t \in Threads : CallSound(t) /\ IdleSound(t)
      BY <1>2, <2>1 DEF CallSound, IdleSound
    <2> QED
      BY <1>1, <1>3, <1>4, <2>2 DEF Inv, HostSound

\* What a detection finds.
Found(h) ==
  IF tracker[h] # NoTracker THEN tracker[h] ELSE IF file # NoTracker THEN file ELSE Fresh

LEMMA FoundSound ==
  ASSUME Inv, NEW h \in Hosts
  PROVE  /\ Found(h) \in Trackers /\ Earned(Found(h))
         /\ Quiet /\ (\A u \in Threads : call[u].host # h) => InOrder(Found(h))
  BY FreshSound DEF Inv, TypeOK, Found, HostSound, InKey, Sound, InOrder

\* A tracker keeps what is said of it when it takes another min_dwell.
LEMMA SameCounting ==
  ASSUME NEW tr \in Trackers, NEW d \in 1..MaxDwell
  PROVE  LET n == [tr EXCEPT !.minDwell = d] IN
         /\ n \in Trackers
         /\ n.lastDay = tr.lastDay /\ n.confirmed = tr.confirmed
         /\ Earned(tr) => Earned(n)
         /\ InOrder(tr) => InOrder(n)
  <1> DEFINE n == [tr EXCEPT !.minDwell = d]
  <1>1. n \in Trackers
    BY DEF Trackers
  <1>2. n.lastDay = tr.lastDay /\ n.confirmed = tr.confirmed
    BY DEF Trackers
  <1>3. n.pending = tr.pending /\ n.count = tr.count /\ n.readings = tr.readings
    BY DEF Trackers
  <1> HIDE DEF n
  <1>4. /\ Earned(tr) => Earned(n)
        /\ InOrder(tr) => InOrder(n)
    BY <1>2, <1>3 DEF Earned, InOrder, Sorted, UpTo
  <1> QED
    BY <1>1, <1>2, <1>4 DEF n

LEMMA DetectInv ==
  ASSUME Inv, NEW t \in Threads, NEW h \in Hosts, NEW view \in Views,
         NEW asOf \in 1..MaxDay, Detect(t, h, view, asOf)
  PROVE  Inv'
  <1>1. PICK k : k = Found(h)
    OBVIOUS
  <1>2. k \in Trackers /\ Earned(k) /\ (Quiet /\ (\A u \in Threads : call[u].host # h) => InOrder(k))
    BY <1>1, FoundSound
  <1>3. PICK n : n = [k EXCEPT !.minDwell = dwell]
    OBVIOUS
  <1>4. dwell \in 1..MaxDwell
    BY DEF Inv, TypeOK
  <1>5. /\ n \in Trackers /\ n.lastDay = k.lastDay /\ Earned(n)
        /\ Quiet /\ (\A u \in Threads : call[u].host # h) => InOrder(n)
    BY <1>2, <1>3, <1>4, SameCounting
  <1>6. PICK raw : raw = IF view.bench THEN Decision(view) ELSE "unknown"
    OBVIOUS
  <1>7. raw \in Regimes
    BY <1>6, DecisionKnown DEF Regimes
  <1>8. PICK c : c = [Idle EXCEPT !.at = "branch", !.host = h, !.view = view, !.day = asOf,
                                  !.raw = raw, !.isNew = asOf # k.lastDay]
    OBVIOUS
  <1>9. /\ tracker' = [tracker EXCEPT ![h] = n]
        /\ call' = [call EXCEPT ![t] = c]
        /\ mishaps' = mishaps
             \cup (IF \E u \in Threads : call[u].host = h THEN {"overlap"} ELSE {})
             \cup (IF asOf < k.lastDay THEN {"back"} ELSE {})
        /\ call[t].at = "idle"
        /\ UNCHANGED <<day, dwell, file>>
        /\ events < MaxEvents /\ events' = events + 1
    BY <1>1, <1>3, <1>6, <1>8 DEF Detect, Found, Become, Event
  <1>10. /\ c \in Calls /\ c.at = "branch" /\ c.host = h /\ c.day = asOf
         /\ c.isNew = (asOf # k.lastDay) /\ c.copy = Fresh
    <2>1. asOf \in 0..MaxDay /\ (asOf # k.lastDay) \in BOOLEAN
      BY Bounds
    <2>2. c = [at |-> "branch", host |-> h, view |-> view, raw |-> raw, day |-> asOf,
               isNew |-> asOf # k.lastDay, copy |-> Fresh]
      BY <1>8 DEF Idle
    <2> QED
      BY <2>1, <2>2, <1>7, FreshSound DEF Calls, Steps
  <1>11. TypeOK'
    <2>1. tracker' \in [Hosts -> Trackers \cup {NoTracker}] /\ call' \in [Threads -> Calls]
      BY <1>5, <1>9, <1>10 DEF Inv, TypeOK
    <2>2. events' \in 0..MaxEvents
      BY <1>9, Bounds DEF Inv, TypeOK
    <2>3. mishaps' \subseteq {"overlap", "back"}
      BY <1>9 DEF Inv, TypeOK
    <2> QED
      BY <1>9, <2>1, <2>2, <2>3 DEF Inv, TypeOK
  <1>12. /\ tracker'[h] = n
         /\ \A g \in Hosts : g # h => tracker'[g] = tracker[g]
         /\ call'[t] = c
         /\ \A u \in Threads : u # t => call'[u] = call[u]
    BY <1>9 DEF Inv, TypeOK
  <1>13. Quiet' => /\ Quiet
                   /\ \A u \in Threads : call[u].host # h
                   /\ asOf >= k.lastDay
    <2>1. k.lastDay \in 0..MaxDay
      BY <1>2 DEF Trackers
    <2> QED
      BY <1>9, <2>1, Bounds DEF Quiet
  <1>14. n # NoTracker
    BY <1>5, TrackerAssumption
  <1>15. ASSUME NEW g \in Hosts, tracker'[g] # NoTracker
         PROVE  HostSound(g)'
    <2>1. CASE g = h
      <3>1. tracker'[g] = n
        BY <2>1, <1>12
      <3> QED
        BY <3>1, <1>5, <1>13 DEF HostSound, Earned, InOrder, Sorted, UpTo, Latest
    <2>2. CASE g # h
      <3>1. tracker'[g] = tracker[g] /\ HostSound(g)
        BY <2>2, <1>12, <1>15 DEF Inv
      <3>2. InKey(g) => InKey(g)'
        BY <1>9, <1>12 DEF InKey
      <3> QED
        BY <3>1, <3>2, <1>13 DEF HostSound, Earned, Sorted, UpTo, Latest
    <2> QED
      BY <2>1, <2>2
  <1>16. file' # NoTracker => Sound(file)'
    BY <1>9, <1>13 DEF Inv, Sound, Earned, InOrder, Sorted, UpTo, Latest
  <1>17. ASSUME NEW u \in Threads
         PROVE  CallSound(u)' /\ IdleSound(u)'
    <2>1. CASE u = t
      <3>1. /\ call'[u].at = "branch" /\ call'[u].host = h /\ call'[u].day = asOf
            /\ call'[u].isNew = (asOf # k.lastDay) /\ call'[u].copy = Fresh
        BY <2>1, <1>10, <1>12
      <3>2. Sound(call[u].copy)'
        BY <3>1, FreshSound, <1>13 DEF Sound, Earned, InOrder, Sorted, UpTo, Latest
      <3>3. Quiet' => \A v \in Threads : call'[v].host = h => v = t
        BY <1>12, <1>13
      <3>4. TrackerOf(u)' = n
        BY <3>1, <1>12 DEF TrackerOf
      <3>5. Quiet' => asOf >= n.lastDay /\ (call'[u].isNew <=> asOf # n.lastDay)
        BY <3>1, <1>5, <1>13
      <3> QED
        BY <3>1, <3>2, <3>3, <3>4, <3>5, <1>14, <2>1 DEF CallSound, IdleSound
    <2>2. CASE u # t
      <3>1. call'[u] = call[u] /\ CallSound(u) /\ IdleSound(u)
        BY <2>2, <1>12 DEF Inv
      <3>2. IdleSound(u)'
        BY <3>1 DEF IdleSound
      <3> SUFFICES ASSUME call[u].at # "idle"
                   PROVE  CallSound(u)'
        BY <3>1, <3>2 DEF CallSound
      <3>3. call[u].host \in Hosts /\ TrackerOf(u) # NoTracker /\ TrackerOf(u)' # NoTracker
        BY <3>1, <1>12, <1>14 DEF CallSound, TrackerOf
      <3>4. Sound(call[u].copy)'
        BY <3>1, <1>13 DEF CallSound, Sound, Earned, InOrder, Sorted, UpTo, Latest
      <3>5. Quiet' => TrackerOf(u)' = TrackerOf(u)
        BY <3>1, <3>3, <1>12, <1>13 DEF TrackerOf
      <3>6. Quiet' => \A v \in Threads : call'[v].host = call[u].host => v = u
        BY <3>1, <1>10, <1>12, <1>13 DEF CallSound
      <3> QED
        BY <3>1, <3>3, <3>4, <3>5, <3>6, <1>13 DEF CallSound, UpTo
    <2> QED
      BY <2>1, <2>2
  <1> QED
    BY <1>11, <1>15, <1>16, <1>17 DEF Inv, HostSound

\* A step that adds no mishap keeps what holds of a value that it keeps.
LEMMA SoundKept ==
  ASSUME mishaps' = mishaps
  PROVE  /\ \A h \in Hosts : tracker'[h] = tracker[h] /\ Sound(tracker[h]) =>
              Sound(tracker[h])'
         /\ file' = file /\ Sound(file) => Sound(file)'
         /\ \A t \in Threads : call'[t] = call[t] /\ Sound(call[t].copy) =>
              Sound(call[t].copy)'
         /\ Quiet' <=> Quiet
  BY DEF Sound, Earned, InOrder, Sorted, UpTo, Latest, Quiet

\* A step of a thread for its own host leaves the other calls and hosts as they were.
OwnStep(t, h) ==
  /\ call[t].at # "idle" /\ call[t].host = h /\ mishaps' = mishaps
  /\ tracker'[h] # NoTracker
  /\ \A g \in Hosts : g # h => tracker'[g] = tracker[g]
  /\ \A v \in Threads : v # t => call'[v] = call[v]
  /\ call'[t].host \in {h, NoTracker}

LEMMA OtherCalls ==
  ASSUME Inv, NEW t \in Threads, NEW h \in Hosts, OwnStep(t, h), NEW v \in Threads, v # t
  PROVE  CallSound(v)' /\ IdleSound(v)'
  <1>1. call'[v] = call[v] /\ CallSound(v) /\ IdleSound(v) /\ CallSound(t)
    BY DEF Inv, OwnStep
  <1>2. IdleSound(v)'
    BY <1>1 DEF IdleSound
  <1> SUFFICES ASSUME call[v].at # "idle"
               PROVE  CallSound(v)'
    BY <1>1, <1>2 DEF CallSound
  <1>3. call[v].host \in Hosts /\ TrackerOf(v) # NoTracker /\ TrackerOf(v)' # NoTracker
    BY <1>1 DEF CallSound, TrackerOf, OwnStep
  <1>4. Sound(call[v].copy)'
    BY <1>1, SoundKept DEF CallSound, OwnStep
  <1>5. Quiet => call[v].host # h
    BY <1>1 DEF CallSound, OwnStep
  <1>6. Quiet => TrackerOf(v)' = TrackerOf(v)
    BY <1>1, <1>3, <1>5 DEF TrackerOf, OwnStep
  <1>7. Quiet => \A w \in Threads : call'[w].host = call[v].host => w = v
    BY <1>1, <1>3, <1>5, TrackerAssumption DEF CallSound, OwnStep
  <1>8. Quiet' <=> Quiet
    BY DEF OwnStep, Quiet
  <1> QED
    BY <1>1, <1>3, <1>4, <1>6, <1>7, <1>8 DEF CallSound, UpTo

LEMMA OtherHosts ==
  ASSUME Inv, NEW t \in Threads, NEW h \in Hosts, OwnStep(t, h), NEW g \in Hosts, g # h
  PROVE  HostSound(g)'
  <1>1. tracker'[g] = tracker[g] /\ HostSound(g)
    BY DEF Inv, OwnStep
  <1>2. InKey(g) => InKey(g)'
    BY DEF InKey, OwnStep
  <1>3. Quiet' <=> Quiet
    BY DEF OwnStep, Quiet
  <1> QED
    BY <1>1, <1>2, <1>3 DEF HostSound, Earned, Sorted, UpTo, Latest

\* Undisturbed, a call that is not at its key is the only one of its host.
LEMMA NobodyInKey ==
  ASSUME Inv, NEW t \in Threads, call[t].at \notin {"idle", "key"}, Quiet
  PROVE  ~InKey(call[t].host)
  BY DEF Inv, CallSound, InKey

LEMMA OwnTracker ==
  ASSUME Inv, NEW t \in Threads, call[t].at # "idle"
  PROVE  /\ call[t].host \in Hosts /\ TrackerOf(t) \in Trackers /\ Earned(TrackerOf(t))
         /\ Quiet => Sorted(TrackerOf(t))
         /\ Quiet /\ call[t].at # "key" => InOrder(TrackerOf(t))
  <1>1. call[t].host \in Hosts /\ TrackerOf(t) # NoTracker
    BY DEF Inv, CallSound
  <1>2. HostSound(call[t].host) /\ TrackerOf(t) = tracker[call[t].host]
    BY <1>1 DEF Inv, TrackerOf
  <1>3. TrackerOf(t) \in Trackers
    BY <1>1, <1>2 DEF Inv, TypeOK
  <1> QED
    BY <1>1, <1>2, <1>3, NobodyInKey DEF HostSound, InOrder

LEMMA BranchFacts ==
  ASSUME Inv, NEW t \in Threads, Branch(t)
  PROVE  \E tr \in Trackers, u \in Trackers, c \in Calls :
           /\ call[t].host \in Hosts /\ call[t].at # "idle"
           /\ tr = tracker[call[t].host]
           /\ Earned(tr)
           /\ u = Branched(tr, call[t].raw, call[t].day, call[t].isNew)
           /\ Earned(u) /\ (Quiet => Sorted(u) /\ UpTo(u, call[t].day))
           /\ call[t].day \in 1..MaxDay
           /\ tracker' = [tracker EXCEPT ![call[t].host] = u]
           /\ call' = [call EXCEPT ![t] = c]
           /\ c.at = "key" /\ c.host = call[t].host /\ c.day = call[t].day /\ c.copy = Fresh
           /\ UNCHANGED <<day, dwell, file, events, mishaps>>
  <1>1. /\ call[t].at = "branch" /\ call[t] \in Calls
        /\ CallSound(t)
    BY DEF Branch, Inv, TypeOK
  <1>2. PICK tr : tr = TrackerOf(t)
    OBVIOUS
  <1>3. /\ call[t].host \in Hosts
        /\ call[t].day >= 1
        /\ Quiet => /\ call[t].day >= tr.lastDay
                    /\ call[t].isNew <=> call[t].day # tr.lastDay
    BY <1>1, <1>2 DEF CallSound
  <1>4. tr \in Trackers /\ Earned(tr) /\ (Quiet => InOrder(tr))
    BY <1>1, <1>2, OwnTracker
  <1>5. PICK raw, d, isNew : raw = call[t].raw /\ d = call[t].day /\ isNew = call[t].isNew
    OBVIOUS
  <1>6. raw \in Regimes /\ d \in 1..MaxDay /\ isNew \in BOOLEAN
    BY <1>1, <1>3, <1>5, Bounds DEF Calls
  <1>7. PICK u : u = Branched(tr, raw, d, isNew)
    OBVIOUS
  <1>8. u \in Trackers /\ Earned(u)
    BY <1>4, <1>6, <1>7, BranchedFields, BranchedEarned
  <1>9. Quiet => Sorted(u) /\ UpTo(u, d)
    BY <1>3, <1>4, <1>5, <1>6, <1>7, BranchedInOrder
  <1>10. PICK c : c = [Idle EXCEPT !.at = "key", !.host = call[t].host, !.day = call[t].day]
    OBVIOUS
  <1>11. /\ c \in Calls /\ c.at = "key" /\ c.host = call[t].host /\ c.day = call[t].day
         /\ c.copy = Fresh
    <2>1. c = [at |-> "key", host |-> call[t].host, view |-> NoView, raw |-> "unknown",
               day |-> call[t].day, isNew |-> FALSE, copy |-> Fresh]
      BY <1>10 DEF Idle
    <2> QED
      BY <2>1, <1>1, FreshSound DEF Calls, Steps, Regimes
  <1>12. tracker' = [tracker EXCEPT ![call[t].host] = u]
    <2>1. tracker' = [tracker EXCEPT ![call[t].host] =
            Branched(TrackerOf(t), call[t].raw, call[t].day, call[t].isNew)]
      BY DEF Branch, Branched
    <2> QED
      BY <2>1, <1>2, <1>5, <1>7
  <1>13. call' = [call EXCEPT ![t] = c] /\ UNCHANGED <<day, dwell, file, events, mishaps>>
    BY <1>10 DEF Branch, Become
  <1> QED
    BY <1>1, <1>2, <1>3, <1>4, <1>5, <1>6, <1>7, <1>8, <1>9, <1>11, <1>12, <1>13 DEF TrackerOf

LEMMA BranchInv ==
  ASSUME Inv, NEW t \in Threads, Branch(t)
  PROVE  Inv'
  <1>1. PICK h, d : h = call[t].host /\ d = call[t].day
    OBVIOUS
  <1>2. PICK u \in Trackers, c \in Calls :
           /\ h \in Hosts /\ call[t].at # "idle"
           /\ Earned(u) /\ (Quiet => Sorted(u) /\ UpTo(u, d))
           /\ d \in 1..MaxDay
           /\ tracker' = [tracker EXCEPT ![h] = u]
           /\ call' = [call EXCEPT ![t] = c]
           /\ c.at = "key" /\ c.host = h /\ c.day = d /\ c.copy = Fresh
           /\ UNCHANGED <<day, dwell, file, events, mishaps>>
    BY <1>1, BranchFacts
  <1>3. /\ tracker'[h] = u
        /\ call'[t] = c
        /\ u # NoTracker
        /\ OwnStep(t, h)
    BY <1>1, <1>2, TrackerAssumption DEF Inv, TypeOK, OwnStep
  <1>4. TypeOK'
    BY <1>2 DEF Inv, TypeOK
  <1>5. Quiet' <=> Quiet
    BY <1>2 DEF Quiet
  <1>6. HostSound(h)'
    <2>1. InKey(h)'
      BY <1>2, <1>3 DEF InKey
    <2> QED
      BY <2>1, <1>2, <1>3, <1>5 DEF HostSound, Earned, Sorted, Latest
  <1>7. file' # NoTracker => Sound(file)'
    BY <1>2, SoundKept DEF Inv
  <1>8. CallSound(t)' /\ IdleSound(t)'
    <2>1. Sound(call[t].copy)'
      BY <1>2, <1>3, FreshSound, <1>5 DEF Sound, Earned, InOrder, Sorted, UpTo, Latest
    <2>2. TrackerOf(t)' = u
      BY <1>2, <1>3 DEF TrackerOf
    <2>3. Quiet => \A w \in Threads : call'[w].host = h => w = t
      BY <1>1, <1>2, <1>3 DEF Inv, CallSound, OwnStep
    <2>4. Quiet' => UpTo(TrackerOf(t), call[t].day)'
      BY <1>2, <1>3, <1>5, <2>2 DEF UpTo
    <2> QED
      BY <2>1, <2>2, <2>3, <2>4, <1>2, <1>3, <1>5 DEF CallSound, IdleSound
  <1> QED
    BY <1>2, <1>3, <1>4, <1>6, <1>7, <1>8, OtherCalls, OtherHosts DEF Inv

LEMMA KeyInv ==
  ASSUME Inv, NEW t \in Threads, Key(t)
  PROVE  Inv'
  <1>1. PICK h, d, tr : h = call[t].host /\ d = call[t].day /\ tr = TrackerOf(t)
    OBVIOUS
  <1>2. call[t].at = "key" /\ call[t] \in Calls /\ CallSound(t)
    BY DEF Key, Inv, TypeOK
  <1>3. /\ h \in Hosts /\ tr \in Trackers /\ Earned(tr) /\ (Quiet => Sorted(tr))
        /\ Quiet => UpTo(tr, d)
    BY <1>1, <1>2, OwnTracker DEF CallSound
  <1>4. PICK u : u = [tr EXCEPT !.lastDay = d]
    OBVIOUS
  <1>5. /\ u \in Trackers /\ u.lastDay = d /\ u.readings = tr.readings
        /\ u.pending = tr.pending /\ u.count = tr.count
    BY <1>1, <1>2, <1>3, <1>4 DEF Trackers, Calls
  <1>6. /\ Earned(u) /\ (Quiet => Sorted(u) /\ UpTo(u, u.lastDay))
    BY <1>3, <1>5 DEF Earned, Sorted, UpTo
  <1>7. PICK c : c = [Idle EXCEPT !.at = "copy", !.host = h]
    OBVIOUS
  <1>8. c \in Calls /\ c.at = "copy" /\ c.host = h /\ c.copy = Fresh
    <2>1. c = [at |-> "copy", host |-> h, view |-> NoView, raw |-> "unknown",
               day |-> 0, isNew |-> FALSE, copy |-> Fresh]
      BY <1>7 DEF Idle
    <2>2. 0 \in 0..MaxDay
      BY Bounds
    <2> QED
      BY <2>1, <2>2, <1>3, FreshSound DEF Calls, Steps, Regimes
  <1>9. /\ tracker' = [tracker EXCEPT ![h] = u]
        /\ call' = [call EXCEPT ![t] = c]
        /\ UNCHANGED <<day, dwell, file, events, mishaps>>
    BY <1>1, <1>3, <1>4, <1>7 DEF Key, Become, TrackerOf, Inv, TypeOK
  <1>10. /\ tracker'[h] = u
         /\ call'[t] = c
         /\ u # NoTracker
         /\ OwnStep(t, h)
    BY <1>1, <1>2, <1>3, <1>5, <1>8, <1>9, TrackerAssumption DEF Inv, TypeOK, OwnStep
  <1>11. TypeOK'
    BY <1>5, <1>8, <1>9 DEF Inv, TypeOK
  <1>12. Quiet' <=> Quiet
    BY <1>9 DEF Quiet
  <1>13. HostSound(h)'
    BY <1>6, <1>10, <1>12 DEF HostSound, Earned, Sorted, UpTo, Latest
  <1>14. file' # NoTracker => Sound(file)'
    BY <1>9, SoundKept DEF Inv
  <1>15. CallSound(t)' /\ IdleSound(t)'
    <2>1. Sound(call[t].copy)'
      BY <1>8, <1>10, FreshSound, <1>12 DEF Sound, Earned, InOrder, Sorted, UpTo, Latest
    <2>2. TrackerOf(t)' = u
      BY <1>8, <1>10 DEF TrackerOf
    <2>3. Quiet => \A w \in Threads : call'[w].host = h => w = t
      BY <1>1, <1>2, <1>10 DEF CallSound, OwnStep
    <2> QED
      BY <2>1, <2>2, <2>3, <1>3, <1>8, <1>10, <1>12 DEF CallSound, IdleSound
  <1> QED
    BY <1>3, <1>10, <1>11, <1>13, <1>14, <1>15, OtherCalls, OtherHosts DEF Inv

LEMMA CopyInv ==
  ASSUME Inv, NEW t \in Threads, Copy(t)
  PROVE  Inv'
  <1>1. PICK h, tr : h = call[t].host /\ tr = TrackerOf(t)
    OBVIOUS
  <1>2. call[t].at = "copy" /\ call[t] \in Calls /\ CallSound(t)
    BY DEF Copy, Inv, TypeOK
  <1>3. h \in Hosts /\ tr \in Trackers /\ Earned(tr) /\ (Quiet => InOrder(tr))
    BY <1>1, <1>2, OwnTracker
  <1>4. PICK c : c = [call[t] EXCEPT !.at = "replace", !.copy = tr]
    OBVIOUS
  <1>5. c \in Calls /\ c.at = "replace" /\ c.host = h /\ c.copy = tr
    BY <1>1, <1>2, <1>3, <1>4 DEF Calls, Steps
  <1>6. call' = [call EXCEPT ![t] = c] /\ UNCHANGED <<day, dwell, tracker, file, events, mishaps>>
    BY <1>1, <1>4 DEF Copy, Become
  <1>7. /\ call'[t] = c /\ tracker'[h] = tr /\ tr # NoTracker
        /\ OwnStep(t, h)
    BY <1>1, <1>2, <1>3, <1>5, <1>6, TrackerAssumption DEF Inv, TypeOK, OwnStep, TrackerOf
  <1>8. TypeOK'
    BY <1>5, <1>6 DEF Inv, TypeOK
  <1>9. Quiet' <=> Quiet
    BY <1>6 DEF Quiet
  <1>10. HostSound(h)'
    BY <1>3, <1>7, <1>9 DEF HostSound, Earned, InOrder, Sorted, UpTo, Latest
  <1>11. file' # NoTracker => Sound(file)'
    BY <1>6, SoundKept DEF Inv
  <1>12. CallSound(t)' /\ IdleSound(t)'
    <2>1. Sound(call[t].copy)'
      BY <1>3, <1>5, <1>7, <1>9 DEF Sound, Earned, InOrder, Sorted, UpTo, Latest
    <2>2. TrackerOf(t)' = tr
      BY <1>5, <1>7 DEF TrackerOf
    <2>3. Quiet => \A w \in Threads : call'[w].host = h => w = t
      BY <1>1, <1>2, <1>7 DEF CallSound, OwnStep
    <2> QED
      BY <2>1, <2>2, <2>3, <1>3, <1>5, <1>7, <1>9 DEF CallSound, IdleSound
  <1> QED
    BY <1>3, <1>7, <1>8, <1>10, <1>11, <1>12, OtherCalls, OtherHosts DEF Inv

LEMMA ReplaceInv ==
  ASSUME Inv, NEW t \in Threads, Replace(t)
  PROVE  Inv'
  <1>1. /\ call[t].at = "replace" /\ file' = call[t].copy
        /\ call' = [call EXCEPT ![t] = Idle]
        /\ UNCHANGED <<day, dwell, tracker, events, mishaps>>
        /\ call[t] \in Calls /\ CallSound(t)
    BY DEF Replace, Become, Inv, TypeOK
  <1>2. /\ call'[t] = Idle
        /\ \A v \in Threads : v # t => call'[v] = call[v]
    BY <1>1 DEF Inv, TypeOK
  <1>3. TypeOK'
    BY <1>1, IdleIsCall DEF Inv, TypeOK, Calls
  <1>4. Sound(file)'
    <2>1. Sound(call[t].copy)
      BY <1>1 DEF CallSound
    <2> QED
      BY <2>1, <1>1 DEF Sound, Earned, InOrder, Sorted, UpTo, Latest, Quiet
  <1>5. PICK h : h = call[t].host
    OBVIOUS
  <1>6. h \in Hosts /\ OwnStep(t, h)
    BY <1>1, <1>2, <1>5 DEF CallSound, OwnStep, TrackerOf, Idle
  <1>7. HostSound(h)'
    <2>1. Quiet => ~InKey(h)
      BY <1>1, <1>5, NobodyInKey
    <2> QED
      BY <2>1, <1>1, <1>6 DEF Inv, HostSound, Earned, Sorted, UpTo, Latest, Quiet
  <1>8. CallSound(t)' /\ IdleSound(t)'
    BY <1>2 DEF CallSound, IdleSound, Idle
  <1> QED
    BY <1>3, <1>4, <1>6, <1>7, <1>8, OtherCalls, OtherHosts DEF Inv

LEMMA ExitInv ==
  ASSUME Inv, NEW h \in Hosts, Exit(h)
  PROVE  Inv'
  <1>1. /\ tracker' = [tracker EXCEPT ![h] = NoTracker]
        /\ call' = [t \in Threads |-> IF call[t].host = h THEN Idle ELSE call[t]]
        /\ events < MaxEvents /\ events' = events + 1
        /\ UNCHANGED <<day, dwell, file, mishaps>>
    BY DEF Exit, Event
  <1>2. TypeOK'
    <2>1. events' \in 0..MaxEvents
      BY <1>1, Bounds DEF Inv, TypeOK
    <2>2. tracker' \in [Hosts -> Trackers \cup {NoTracker}] /\ call' \in [Threads -> Calls]
      BY <1>1, IdleIsCall DEF Inv, TypeOK
    <2> QED
      BY <1>1, <2>1, <2>2 DEF Inv, TypeOK
  <1>3. /\ tracker'[h] = NoTracker
        /\ \A g \in Hosts : g # h => tracker'[g] = tracker[g]
    BY <1>1 DEF Inv, TypeOK
  <1>4. file' # NoTracker => Sound(file)'
    BY <1>1, SoundKept DEF Inv
  <1>5. ASSUME NEW g \in Hosts
        PROVE  HostSound(g)'
    <2>1. CASE g = h
      BY <2>1, <1>3 DEF HostSound
    <2>2. CASE g # h
      <3>1. tracker'[g] = tracker[g] /\ HostSound(g)
        BY <2>2, <1>3 DEF Inv
      <3>2. InKey(g) => InKey(g)'
        BY <2>2, <1>1 DEF InKey
      <3> QED
        BY <3>1, <3>2, <1>1 DEF HostSound, Earned, Sorted, UpTo, Latest, Quiet
    <2> QED
      BY <2>1, <2>2
  <1>6. ASSUME NEW v \in Threads
        PROVE  CallSound(v)' /\ IdleSound(v)'
    <2>1. CASE call[v].host = h
      <3>1. call'[v] = Idle
        BY <2>1, <1>1
      <3> QED
        BY <3>1 DEF CallSound, IdleSound, Idle
    <2>2. CASE call[v].host # h
      <3>1. call'[v] = call[v] /\ CallSound(v) /\ IdleSound(v)
        BY <2>2, <1>1 DEF Inv
      <3>2. Idle.host \notin Hosts
        BY TrackerAssumption DEF Idle
      <3> SUFFICES ASSUME call[v].at # "idle"
                   PROVE  CallSound(v)'
        BY <3>1 DEF CallSound, IdleSound
      <3>3. Sound(call[v].copy)'
        BY <3>1, <1>1, SoundKept DEF CallSound
      <3>4. TrackerOf(v)' = TrackerOf(v) /\ call[v].host \in Hosts
        BY <3>1, <2>2, <1>3 DEF TrackerOf, CallSound
      <3>5. \A w \in Threads : call'[w] \in {Idle, call[w]}
        BY <1>1
      <3>6. Quiet => \A w \in Threads : call'[w].host = call[v].host => w = v
        BY <3>1, <3>2, <3>4, <3>5 DEF CallSound
      <3> QED
        BY <3>1, <3>3, <3>4, <3>6, <1>1 DEF CallSound, UpTo, Quiet
    <2> QED
      BY <2>1, <2>2
  <1> QED
    BY <1>2, <1>4, <1>5, <1>6 DEF Inv

LEMMA ResetInv ==
  ASSUME Inv, NEW h \in Hosts, NEW remove \in BOOLEAN, Reset(h, remove)
  PROVE  Inv'
  <1>0. PICK n : n = [Fresh EXCEPT !.minDwell = tracker[h].minDwell]
    OBVIOUS
  <1>1. /\ tracker' = [tracker EXCEPT ![h] = n] /\ tracker[h] # NoTracker
        /\ file' \in {file, NoTracker}
        /\ events < MaxEvents /\ events' = events + 1
        /\ UNCHANGED <<day, dwell, call, mishaps>>
        /\ \A t \in Threads : call[t].host # h
    BY <1>0 DEF Reset, Event
  <1>7. n \in Trackers /\ Earned(n) /\ (Quiet => InOrder(n))
    <2>1. tracker[h].minDwell \in 1..MaxDwell
      BY <1>1 DEF Inv, TypeOK, Trackers
    <2> QED
      BY <2>1, <1>0, FreshSound, SameCounting DEF Sound
  <1>2. TypeOK'
    <2>1. events' \in 0..MaxEvents
      BY <1>1, Bounds DEF Inv, TypeOK
    <2>2. /\ tracker' \in [Hosts -> Trackers \cup {NoTracker}]
          /\ file' \in Trackers \cup {NoTracker}
      BY <1>1, <1>7 DEF Inv, TypeOK
    <2> QED
      BY <1>1, <2>1, <2>2 DEF Inv, TypeOK
  <1>3. /\ tracker'[h] = n
        /\ \A g \in Hosts : g # h => tracker'[g] = tracker[g]
    BY <1>1 DEF Inv, TypeOK
  <1>4. file' # NoTracker => Sound(file)'
    BY <1>1, SoundKept DEF Inv
  <1>5. ASSUME NEW g \in Hosts
        PROVE  HostSound(g)'
    <2>1. CASE g = h
      BY <2>1, <1>1, <1>3, <1>7 DEF HostSound, Earned, InOrder, Sorted, UpTo, Latest, Quiet
    <2>2. CASE g # h
      <3>1. tracker'[g] = tracker[g] /\ HostSound(g)
        BY <2>2, <1>3 DEF Inv
      <3>2. InKey(g) => InKey(g)'
        BY <1>1 DEF InKey
      <3> QED
        BY <3>1, <3>2, <1>1 DEF HostSound, Earned, Sorted, UpTo, Latest, Quiet
    <2> QED
      BY <2>1, <2>2
  <1>6. ASSUME NEW v \in Threads
        PROVE  CallSound(v)' /\ IdleSound(v)'
    <2>1. call'[v] = call[v] /\ CallSound(v) /\ IdleSound(v)
      BY <1>1 DEF Inv
    <2> SUFFICES ASSUME call[v].at # "idle"
                 PROVE  CallSound(v)'
      BY <2>1 DEF CallSound, IdleSound
    <2>2. Sound(call[v].copy)'
      BY <2>1, <1>1, SoundKept DEF CallSound
    <2>3. TrackerOf(v)' = TrackerOf(v)
      BY <2>1, <1>1, <1>3 DEF TrackerOf, CallSound
    <2> QED
      BY <2>1, <2>2, <2>3, <1>1 DEF CallSound, UpTo, Quiet
  <1> QED
    BY <1>2, <1>4, <1>5, <1>6 DEF Inv

\* Steps that change neither trackers nor calls.
LEMMA OtherInv ==
  ASSUME Inv, file' \in {file, NoTracker}, UNCHANGED <<tracker, call, mishaps>>, TypeOK'
  PROVE  Inv'
  <1>1. file' # NoTracker => Sound(file)'
    BY SoundKept DEF Inv
  <1>2. ASSUME NEW h \in Hosts
        PROVE  HostSound(h)'
    <2>1. tracker'[h] = tracker[h] /\ HostSound(h) /\ (InKey(h) => InKey(h)')
      BY DEF Inv, InKey
    <2> QED
      BY <2>1 DEF HostSound, Earned, Sorted, UpTo, Latest, Quiet
  <1>3. ASSUME NEW v \in Threads
        PROVE  CallSound(v)' /\ IdleSound(v)'
    <2>1. call'[v] = call[v] /\ CallSound(v) /\ IdleSound(v)
      BY DEF Inv
    <2> SUFFICES ASSUME call[v].at # "idle"
                 PROVE  CallSound(v)'
      BY <2>1 DEF CallSound, IdleSound
    <2>2. Sound(call[v].copy)'
      BY <2>1, SoundKept DEF CallSound
    <2>3. TrackerOf(v)' = TrackerOf(v)
      BY <2>1 DEF TrackerOf
    <2> QED
      BY <2>1, <2>2, <2>3 DEF CallSound, UpTo, Quiet
  <1> QED
    BY <1>1, <1>2, <1>3 DEF Inv

LEMMA InvStep ==
  ASSUME Inv, [Next]_vars
  PROVE  Inv'
  <1>1. ASSUME NEW t \in Threads, NEW h \in Hosts, NEW view \in Views,
               NEW asOf \in 1..MaxDay, Detect(t, h, view, asOf)
        PROVE  Inv'
    BY <1>1, DetectInv
  <1>2. ASSUME NEW t \in Threads, Branch(t)
        PROVE  Inv'
    BY <1>2, BranchInv
  <1>10. ASSUME NEW t \in Threads, Key(t)
        PROVE  Inv'
    BY <1>10, KeyInv
  <1>11. ASSUME NEW t \in Threads, Copy(t)
        PROVE  Inv'
    BY <1>11, CopyInv
  <1>3. ASSUME NEW t \in Threads, Replace(t)
        PROVE  Inv'
    BY <1>3, ReplaceInv
  <1>4. ASSUME NEW h \in Hosts, Exit(h)
        PROVE  Inv'
    BY <1>4, ExitInv
  <1>5. ASSUME NEW h \in Hosts, NEW remove \in BOOLEAN, Reset(h, remove)
        PROVE  Inv'
    BY <1>5, ResetInv
  <1>6. ASSUME LoseFile
        PROVE  Inv'
    <2>1. TypeOK'
      BY <1>6, Bounds DEF LoseFile, Event, Inv, TypeOK
    <2> QED
      BY <1>6, <2>1, OtherInv DEF LoseFile
  <1>7. ASSUME NewDay
        PROVE  Inv'
    <2>1. TypeOK'
      BY <1>7, Bounds DEF NewDay, Inv, TypeOK
    <2> QED
      BY <1>7, <2>1, OtherInv DEF NewDay
  <1>8. ASSUME NEW d \in Dwells, Configure(d)
        PROVE  Inv'
    <2>1. TypeOK'
      BY <1>8, Bounds, TrackerAssumption DEF Configure, Event, Inv, TypeOK
    <2> QED
      BY <1>8, <2>1, OtherInv DEF Configure
  <1>9. CASE UNCHANGED vars
    <2>1. TypeOK'
      BY <1>9 DEF vars, Inv, TypeOK
    <2> QED
      BY <1>9, <2>1, OtherInv DEF vars
  <1> QED
    BY <1>1, <1>2, <1>3, <1>4, <1>5, <1>6, <1>7, <1>8, <1>9, <1>10, <1>11 DEF Next

-----------------------------------------------------------------------------
(* The theorems.                                                             *)

\* Every variable has its type, for every number of hosts, threads, days and events.
THEOREM TypeCorrect == Spec => []TypeOK
  <1>1. Inv => TypeOK
    BY DEF Inv
  <1> QED
    BY <1>1, InitInv, InvStep, PTL DEF Spec

LEMMA InvCounts == Inv => CountIsEarned
  <1> SUFFICES ASSUME Inv,
                      NEW tr \in {tracker[h] : h \in Hosts} \cup {file},
                      tr # NoTracker, tr.pending # "none"
               PROVE  /\ tr.count > 0
                      /\ Latest(tr.readings, tr.count, tr.pending)
                      /\ Quiet => DifferentDays(tr.readings, tr.count)
    BY DEF CountIsEarned
  <1>1. tr \in Trackers /\ Earned(tr) /\ (Quiet => Sorted(tr))
    BY DEF Inv, TypeOK, HostSound, Sound, InOrder
  <1>2. tr.count > 0 /\ Latest(tr.readings, tr.count, tr.pending)
    BY <1>1 DEF Earned
  <1>3. tr.count \in Nat /\ tr.count <= Len(tr.readings)
    BY <1>1, <1>2 DEF Trackers, Latest
  <1> QED
    BY <1>1, <1>2, <1>3, SortedDiffers

\* The pending count of every tracker and of the state file is a run of newest readings of
\* the pending regime if no threads of one host overlapped; on different days if no date
\* went back either.
THEOREM CountsAreEarned == Spec => []CountIsEarned
  BY InvCounts, InitInv, InvStep, PTL DEF Spec

\* The body of SwitchIsEarned for one host.
Switches(h) ==
  /\ tracker[h] # NoTracker /\ tracker'[h] # NoTracker
  /\ tracker[h].confirmed # tracker'[h].confirmed
  /\ {tracker[h].confirmed, tracker'[h].confirmed} \subseteq Known
  /\ tracker[h].minDwell > 1

Justified(h) ==
  /\ Latest(tracker'[h].readings, tracker[h].minDwell, tracker'[h].confirmed)
  /\ Quiet => DifferentDays(tracker'[h].readings, tracker[h].minDwell)

LEMMA BranchSwitches ==
  ASSUME Inv, NEW t \in Threads, Branch(t), NEW h \in Hosts, Switches(h)
  PROVE  Justified(h)
  <1>1. PICK g, raw, d, isNew : /\ g = call[t].host /\ raw = call[t].raw
                                /\ d = call[t].day /\ isNew = call[t].isNew
    OBVIOUS
  <1>2. PICK tr \in Trackers, u \in Trackers :
           /\ g \in Hosts
           /\ tr = tracker[g]
           /\ Earned(tr) /\ (Quiet => Sorted(u))
           /\ u = Branched(tr, raw, d, isNew)
           /\ tracker' = [tracker EXCEPT ![g] = u]
    BY <1>1, BranchFacts
  <1>3. raw \in Regimes /\ isNew \in BOOLEAN /\ d \in 1..MaxDay
    <2>1. call[t] \in Calls /\ call[t].at = "branch" /\ call[t].day >= 1
      BY DEF Branch, Inv, TypeOK, CallSound
    <2> QED
      BY <1>1, <2>1, Bounds DEF Calls
  <1>4. /\ tracker'[g] = u
        /\ \A k \in Hosts : k # g => tracker'[k] = tracker[k]
    BY <1>2 DEF Inv, TypeOK
  <1>5. h = g
    BY <1>4 DEF Switches
  <1>6. /\ tr.confirmed \in Known /\ u.confirmed \in Known
        /\ u.confirmed # tr.confirmed /\ tr.minDwell > 1
    BY <1>2, <1>4, <1>5 DEF Switches
  <1>7. Latest(u.readings, tr.minDwell, u.confirmed)
    BY <1>2, <1>3, <1>6, BranchedSwitch
  <1>8. tr.minDwell \in Nat /\ tr.minDwell <= Len(u.readings)
    BY <1>7, Bounds DEF Trackers, Latest
  <1>9. Quiet => DifferentDays(u.readings, tr.minDwell)
    BY <1>2, <1>8, SortedDiffers
  <1> QED
    BY <1>2, <1>4, <1>5, <1>7, <1>9 DEF Justified

LEMMA StepSwitches ==
  ASSUME Inv, [Next]_vars, NEW h \in Hosts, Switches(h)
  PROVE  Justified(h)
  <1>1. ASSUME NEW t \in Threads, NEW g \in Hosts, NEW view \in Views,
               NEW asOf \in 1..MaxDay, Detect(t, g, view, asOf)
        PROVE  FALSE
    <2>1. tracker' = [tracker EXCEPT ![g] = [Found(g) EXCEPT !.minDwell = dwell]]
      BY <1>1 DEF Detect, Found
    <2>2. CASE h = g
      <3>1. Found(g) = tracker[h]
        BY <2>2 DEF Switches, Found
      <3>2. tracker'[h] = [tracker[h] EXCEPT !.minDwell = dwell]
        BY <2>1, <2>2, <3>1 DEF Inv, TypeOK
      <3>3. tracker[h] \in Trackers
        BY DEF Inv, TypeOK, Switches
      <3>4. tracker'[h].confirmed = tracker[h].confirmed
        BY <3>2, <3>3 DEF Trackers
      <3> QED
        BY <3>4 DEF Switches
    <2>3. CASE h # g
      <3>1. tracker'[h] = tracker[h]
        BY <2>1, <2>3 DEF Inv, TypeOK
      <3> QED
        BY <3>1 DEF Switches
    <2> QED
      BY <2>2, <2>3
  <1>2. ASSUME NEW t \in Threads, Branch(t)
        PROVE  Justified(h)
    BY <1>2, BranchSwitches
  <1>3. ASSUME NEW g \in Hosts, Exit(g)
        PROVE  FALSE
    <2>1. tracker' = [tracker EXCEPT ![g] = NoTracker]
      BY <1>3 DEF Exit
    <2>2. tracker'[h] \in {NoTracker, tracker[h]}
      BY <2>1 DEF Inv, TypeOK
    <2> QED
      BY <2>2 DEF Switches
  <1>4. ASSUME NEW g \in Hosts, NEW remove \in BOOLEAN, Reset(g, remove)
        PROVE  FALSE
    <2>0. PICK n : n = [Fresh EXCEPT !.minDwell = tracker[g].minDwell]
      OBVIOUS
    <2>1. tracker' = [tracker EXCEPT ![g] = n]
      BY <1>4, <2>0 DEF Reset
    <2>2. tracker'[h] \in {n, tracker[h]}
      BY <2>1 DEF Inv, TypeOK
    <2>3. n.confirmed \notin Known
      BY <2>0 DEF Fresh, Known
    <2> QED
      BY <2>2, <2>3 DEF Switches
  <1>6. ASSUME NEW t \in Threads, Key(t)
        PROVE  FALSE
    <2>1. tracker' = [tracker EXCEPT ![call[t].host].lastDay = call[t].day]
      BY <1>6 DEF Key
    <2>2. tracker[h] \in Trackers
      BY DEF Inv, TypeOK, Switches
    <2>3. tracker'[h] = tracker[h] \/ tracker'[h] = [tracker[h] EXCEPT !.lastDay = call[t].day]
      BY <2>1 DEF Inv, TypeOK
    <2>4. tracker'[h].confirmed = tracker[h].confirmed
      BY <2>2, <2>3 DEF Trackers
    <2> QED
      BY <2>4 DEF Switches
  <1>5. tracker' = tracker => FALSE
    BY DEF Switches
  <1> QED
    BY <1>1, <1>2, <1>3, <1>4, <1>5, <1>6
    DEF Next, vars, Copy, Replace, LoseFile, NewDay, Configure

LEMMA StepEarned == Inv /\ [Next]_vars =>
    [\A h \in Hosts : Switches(h) => Justified(h)]_tracker
  BY StepSwitches

\* A confirmed known regime is replaced by another one only after min_dwell readings of it
\* in a row if no threads of one host overlapped; of different days if no date went back
\* either.
THEOREM SwitchesAreEarned == Spec => SwitchIsEarned
  <1>1. [\A h \in Hosts : Switches(h) => Justified(h)]_tracker =>
        [\A h \in Hosts :
           ( /\ Alone
             /\ tracker[h] # NoTracker /\ tracker'[h] # NoTracker
             /\ tracker[h].confirmed # tracker'[h].confirmed
             /\ {tracker[h].confirmed, tracker'[h].confirmed} \subseteq Known
             /\ tracker[h].minDwell > 1 ) =>
           /\ Latest(tracker'[h].readings, tracker[h].minDwell, tracker'[h].confirmed)
           /\ Quiet => DifferentDays(tracker'[h].readings, tracker[h].minDwell)]_tracker
    BY DEF Switches, Justified
  <1> QED
    BY <1>1, StepEarned, InitInv, InvStep, PTL DEF Spec, SwitchIsEarned

-----------------------------------------------------------------------------
(* The hybrid decision.                                                      *)

LEMMA Weighted ==
  ASSUME NEW a \in 0..100, NEW b \in 0..100, NEW k \in 50..80
  PROVE  /\ a * k \in Nat /\ b * k \in Nat
         /\ a > b <=> a * k > b * k
  OBVIOUS

\* The blend adds to the rule's regime alone: of the other two the model's stays ahead.
LEMMA BlendIsAVote ==
  ASSUME NEW probs \in [Known -> 0..100], NEW rule \in Known, NEW w \in 20..50
  PROVE  Largest(Blend(probs, rule, w)) \in {rule, Largest(probs)}
  <1> DEFINE k == 100 - w
             b == Blend(probs, rule, w)
             bonus(r) == IF r = rule THEN 100 * w ELSE 0
  <1>1. k \in 50..80
    OBVIOUS
  <1>2. \A r \in Known : probs[r] \in 0..100
    OBVIOUS
  <1>3. \A r \in Known : b[r] = probs[r] * k + bonus(r)
    BY DEF Blend
  <1>4. \A r, q \in Known : probs[r] > probs[q] <=> probs[r] * k > probs[q] * k
    BY <1>1, <1>2, Weighted
  <1>5. \A r \in Known : probs[r] * k \in Nat
    BY <1>1, <1>2, Weighted
  <1> HIDE DEF k, b
  <1>6. \A r, q \in Known : r # rule /\ q # rule => (b[r] > b[q] <=> probs[r] > probs[q])
    BY <1>3, <1>4, <1>5
  <1>7. \A r \in Known : b[r] \in Nat
    BY <1>3, <1>5
  <1>9. \A q \in Known : q # rule => (b[q] > b[rule] => probs[q] > probs[rule])
    BY <1>3, <1>4, <1>5
  <1>10. \A q \in Known : q # rule => (probs[rule] > probs[q] => b[rule] > b[q])
    BY <1>3, <1>4, <1>5
  <1>8. Largest(b) \in {rule, Largest(probs)}
    <2> DEFINE p1 == probs["bull"]
               p2 == probs["sideways"]
               p3 == probs["bear"]
               b1 == b["bull"]
               b2 == b["sideways"]
               b3 == b["bear"]
    <2>4. {p1, p2, p3, b1, b2, b3} \subseteq Nat
      BY <1>2, <1>7 DEF Known
    <2>5. /\ rule # "bull" /\ rule # "sideways" =>
               (b1 > b2 <=> p1 > p2) /\ (b2 > b1 <=> p2 > p1)
          /\ rule # "bull" /\ rule # "bear" =>
               (b1 > b3 <=> p1 > p3) /\ (b3 > b1 <=> p3 > p1)
          /\ rule # "sideways" /\ rule # "bear" =>
               (b2 > b3 <=> p2 > p3) /\ (b3 > b2 <=> p3 > p2)
      BY <1>6 DEF Known
    <2>6. rule = "bull" => (b2 > b1 => p2 > p1) /\ (b3 > b1 => p3 > p1)
      BY <1>9 DEF Known
    <2>8. rule = "sideways" =>
            (b1 > b2 => p1 > p2) /\ (b3 > b2 => p3 > p2) /\ (p2 > p1 => b2 > b1)
      BY <1>9, <1>10 DEF Known
    <2>9. rule = "bear" =>
            (b1 > b3 => p1 > p3) /\ (b2 > b3 => p2 > p3) /\ (p3 > p1 => b3 > b1)
            /\ (p3 > p2 => b3 > b2)
      BY <1>9, <1>10 DEF Known
    <2>7. /\ Largest(b) = IF b1 >= b2 /\ b1 >= b3 THEN "bull"
                          ELSE IF b2 >= b3 THEN "sideways" ELSE "bear"
          /\ Largest(probs) = IF p1 >= p2 /\ p1 >= p3 THEN "bull"
                              ELSE IF p2 >= p3 THEN "sideways" ELSE "bear"
      BY DEF Largest
    <2> HIDE DEF p1, p2, p3, b1, b2, b3
    <2>1. CASE rule = "bull"
      BY <2>1, <2>4, <2>5, <2>6, <2>7
    <2>2. CASE rule = "sideways"
      BY <2>2, <2>4, <2>5, <2>7, <2>8
    <2>3. CASE rule = "bear"
      BY <2>3, <2>4, <2>5, <2>7, <2>9
    <2> QED
      BY <2>1, <2>2, <2>3 DEF Known
  <1> QED
    BY <1>8 DEF b

LEMMA DecisionVotes ==
  ASSUME NEW view \in Views
  PROVE  \/ Decision(view) = view.rule
         \/ view.probs # NoModel /\ Decision(view) = Largest(view.probs)
  <1>1. view.rule \in Known /\ view.probs \in [Known -> 0..100] \cup {NoModel}
    BY TrackerAssumption
  <1>2. CASE Engine = "rule_based" \/ view.probs = NoModel
    BY <1>2 DEF Decision
  <1>3. CASE ~(Engine = "rule_based" \/ view.probs = NoModel)
    <2> DEFINE model      == Largest(view.probs)
               confidence == view.probs[model]
    <2>1. model \in Known /\ confidence \in 0..100
      BY <1>1, <1>3 DEF Largest, Known
    <2>2. RuleWeight(confidence) \in 20..50
      BY <2>1 DEF RuleWeight
    <2>3. Largest(Blend(view.probs, view.rule, RuleWeight(confidence)))
            \in {view.rule, model}
      BY <1>1, <1>3, <2>2, BlendIsAVote
    <2>4. Decision(view) \in
            {model, Largest(Blend(view.probs, view.rule, RuleWeight(confidence)))}
      BY <1>3 DEF Decision
    <2> QED
      BY <1>3, <2>3, <2>4
  <1> QED
    BY <1>2, <1>3

Voted(t) ==
  call[t].at = "branch" =>
    /\ call[t].view \in Views
    /\ call[t].raw = IF call[t].view.bench THEN Decision(call[t].view) ELSE "unknown"

VoteInv == TypeOK /\ \A t \in Threads : Voted(t)

LEMMA VoteStep ==
  ASSUME VoteInv, TypeOK', [Next]_vars
  PROVE  VoteInv'
  <1> SUFFICES ASSUME NEW u \in Threads
               PROVE  Voted(u)'
    BY DEF VoteInv
  <1>1. call \in [Threads -> Calls] /\ Voted(u)
    BY DEF VoteInv, TypeOK
  <1>2. Idle.at = "idle"
    BY DEF Idle
  <1>3. call'[u] = call[u] \/ call'[u].at # "branch" => Voted(u)'
    BY <1>1 DEF Voted
  <1>4. ASSUME NEW t \in Threads, NEW h \in Hosts, NEW view \in Views,
               NEW asOf \in 1..MaxDay, Detect(t, h, view, asOf)
        PROVE  Voted(u)'
    <2>1. PICK isNew :
            call' = [call EXCEPT ![t] =
              [Idle EXCEPT !.at = "branch", !.host = h, !.view = view, !.day = asOf,
                           !.raw = IF view.bench THEN Decision(view) ELSE "unknown",
                           !.isNew = isNew]]
      BY <1>4 DEF Detect, Become
    <2>2. CASE u = t
      <3>1. /\ call'[u].view = view
            /\ call'[u].raw = IF view.bench THEN Decision(view) ELSE "unknown"
        BY <2>1, <2>2, <1>1 DEF Idle
      <3> QED
        BY <3>1 DEF Voted
    <2>3. CASE u # t
      BY <2>1, <2>3, <1>1, <1>3
    <2> QED
      BY <2>2, <2>3
  <1>5. ASSUME NEW t \in Threads, Branch(t) \/ Key(t)
        PROVE  Voted(u)'
    <2>1. PICK h, d, at : /\ at \in {"key", "copy"}
                          /\ \/ call' = [call EXCEPT ![t] =
                                  [Idle EXCEPT !.at = at, !.host = h, !.day = d]]
                             \/ call' = [call EXCEPT ![t] = [Idle EXCEPT !.at = at, !.host = h]]
      BY <1>5 DEF Branch, Key, Become
    <2>2. call'[u] = call[u] \/ call'[u].at = at
      BY <2>1, <1>1 DEF Idle
    <2> QED
      BY <2>1, <2>2, <1>3
  <1>9. ASSUME NEW t \in Threads, Copy(t)
        PROVE  Voted(u)'
    <2>1. PICK x : call' = [call EXCEPT ![t] =
                     [call[t] EXCEPT !.at = "replace", !.copy = x]]
      BY <1>9 DEF Copy, Become
    <2>2. call'[u] = call[u] \/ call'[u].at = "replace"
      BY <2>1, <1>1 DEF Calls
    <2> QED
      BY <2>2, <1>3
  <1>6. ASSUME NEW t \in Threads, Replace(t)
        PROVE  Voted(u)'
    <2>1. call'[u] = call[u] \/ call'[u] = Idle
      BY <1>6, <1>1 DEF Replace, Become
    <2> QED
      BY <2>1, <1>2, <1>3
  <1>7. ASSUME NEW h \in Hosts, Exit(h)
        PROVE  Voted(u)'
    <2>1. call'[u] = call[u] \/ call'[u] = Idle
      BY <1>7 DEF Exit
    <2> QED
      BY <2>1, <1>2, <1>3
  <1>8. call' = call => Voted(u)'
    BY <1>3
  <1> QED
    BY <1>4, <1>5, <1>6, <1>7, <1>8, <1>9
    DEF Next, vars, Reset, LoseFile, NewDay, Configure

\* The raw regime is the rules' or the model's verdict: for all probabilities and engines.
THEOREM DecisionsAreVotes == Spec => []DecisionIsAVote
  <1>1. Init => VoteInv
    <2>1. Init => TypeOK
      BY InitInv DEF Inv
    <2> QED
      BY <2>1 DEF Init, VoteInv, Voted, Idle
  <1>2. VoteInv => DecisionIsAVote
    BY DecisionVotes DEF VoteInv, Voted, DecisionIsAVote
  <1>3. VoteInv /\ TypeOK' /\ [Next]_vars => VoteInv'
    BY VoteStep
  <1> QED
    BY <1>1, <1>2, <1>3, TypeCorrect, PTL DEF Spec
=============================================================================
