------------------------- MODULE PaperAccountProofs -------------------------
(* Theorems about PaperAccount, for every set of processes and of actions.   *)
EXTENDS PaperAccount, SequenceTheorems, FiniteSetTheorems, TLAPS

All == Procs \cup Webs

\* What each process may be in the middle of.
ShapeOK ==
  /\ \A w \in Webs : call[w].op = "web" /\ call[w].at \in {"idle", "trade", "match"}
  /\ \A p \in Procs :
       \/ call[p] = Idle
       \/ /\ call[p].op = "daily"
          /\ call[p].at \in {"trade", "match", "readtrades", "writetrades", "save"}
       \/ /\ call[p].op = "submit"
          /\ call[p].at \in Steps \ {"idle"}

\* The types of everything but the calls.
DataOK ==
  /\ ledger \in Seq(Events)
  /\ state \in [fills: SUBSET Nat, counter: Nat]
  /\ trades \subseteq Nat
  /\ nav \subseteq Nat
  /\ row \in [Actions -> {"approved", "succeeded", "failed", "blocked"}]
  /\ faults \subseteq {"crash", "overlap", "web"}

\* A step of p makes its call c and changes no other.
Moved(p, c) ==
  /\ call' \in [All -> Calls]
  /\ call'[p] = c
  /\ \A q \in All : q # p => call'[q] = call[q]

\* A call of p that ShapeOK allows.
Fits(p, c) ==
  /\ p \in Webs => c.op = "web" /\ c.at \in {"idle", "trade", "match"}
  /\ p \in Procs =>
       \/ c = Idle
       \/ c.op = "daily" /\ c.at \in {"trade", "match", "readtrades", "writetrades", "save"}
       \/ c.op = "submit" /\ c.at \in Steps \ {"idle"}

Snapshots == [fills: SUBSET Nat, counter: Nat]

LEMMA CallTypes ==
  /\ Blank \in Snapshots
  /\ Idle \in Calls
  /\ \A op \in {"none", "daily", "submit", "web"}, a \in Actions \cup {NoAction},
        step \in Steps, b \in Snapshots : NewCall(op, a, step, b) \in Calls
  BY DEF Blank, Idle, Calls, Steps, NewCall, Snapshots

LEMMA BecomeMoves ==
  ASSUME TypeOK, NEW p \in All, NEW c \in Calls, Become(p, c)
  PROVE  Moved(p, c)
  BY DEF TypeOK, Become, Moved, All

LEMMA GoMoves ==
  ASSUME TypeOK, NEW p \in All, NEW step \in Steps, Go(p, step)
  PROVE  /\ [call[p] EXCEPT !.at = step] \in Calls
         /\ Moved(p, [call[p] EXCEPT !.at = step])
<1>1. [call[p] EXCEPT !.at = step] \in Calls
  BY DEF TypeOK, Calls, All
<1> QED
  BY <1>1, BecomeMoves DEF Go

LEMMA ReturnMoves ==
  ASSUME TypeOK, NEW p \in All, Return(p)
  PROVE  Rest(p) \in Calls /\ Moved(p, Rest(p))
<1>1. call[p].broker \in Snapshots
  BY DEF TypeOK, Calls, All, Snapshots
<1>2. Rest(p) \in Calls
  BY <1>1, CallTypes DEF Rest, Steps
<1> QED
  BY <1>2, BecomeMoves DEF Return

\* An append to the ledger leaves the earlier events alone.
LEMMA LedgerGrows ==
  ASSUME TypeOK, NEW e \in Events, ledger' = Append(ledger, e)
  PROVE  /\ ledger' \in Seq(Events)
         /\ Filled \subseteq 1..Len(ledger)
         /\ Filled' = IF e.kind = "filled" THEN Filled \cup {Len(ledger) + 1} ELSE Filled
         /\ \A i \in Filled : ledger'[i] = ledger[i]
         /\ ledger'[Len(ledger) + 1] = e
<1>1. ledger \in Seq(Events) /\ Len(ledger) \in Nat
  BY LenProperties DEF TypeOK
<1>2. ledger' \in Seq(Events) /\ Len(ledger') = Len(ledger) + 1
      /\ (\A i \in 1..Len(ledger) : ledger'[i] = ledger[i]) /\ ledger'[Len(ledger) + 1] = e
  BY <1>1, AppendProperties
<1>3. DOMAIN ledger = 1..Len(ledger) /\ DOMAIN ledger' = 1..(Len(ledger) + 1)
  BY <1>1, <1>2, LenProperties
<1>4. Filled' = IF e.kind = "filled" THEN Filled \cup {Len(ledger) + 1} ELSE Filled
  <2>1. Filled' = {i \in 1..(Len(ledger) + 1) : ledger'[i].kind = "filled"}
    BY <1>3 DEF Filled
  <2>2. Filled = {i \in 1..Len(ledger) : ledger[i].kind = "filled"}
    BY <1>3 DEF Filled
  <2>3. \A i : i \in 1..(Len(ledger) + 1) <=> i \in 1..Len(ledger) \/ i = Len(ledger) + 1
    BY <1>1
  <2> QED
    BY <2>1, <2>2, <2>3, <1>2
<1> QED
  BY <1>2, <1>3, <1>4 DEF Filled

-----------------------------------------------------------------------------
(* Types and shapes. *)

\* Which of its calls p is left with, and what a step does to the data.
LEMMA ShapeMoves ==
  ASSUME ShapeOK, NEW p \in All, NEW c, Moved(p, c), Fits(p, c)
  PROVE  ShapeOK'
  BY ConstantsAssumption DEF ShapeOK, Moved, Fits, All

LEMMA TypeMoves ==
  ASSUME NEW p \in All, NEW c, Moved(p, c), DataOK'
  PROVE  TypeOK'
  BY DEF TypeOK, DataOK, Moved, All

LEMMA TypeStep ==
  ASSUME TypeOK, ShapeOK, Next
  PROVE  TypeOK' /\ ShapeOK'
<1>1. PICK p \in All : ProcStep(p)
  BY DEF Next, All
<1>2. call[p] \in Calls /\ call[p].broker \in Snapshots /\ state \in Snapshots
      /\ call[p].act \in Actions \cup {NoAction} /\ DataOK
  BY DEF TypeOK, Calls, Snapshots, All, DataOK
<1>3. SUFFICES \E c : Moved(p, c) /\ Fits(p, c) /\ DataOK'
  BY ShapeMoves, TypeMoves
<1>4. CASE StartDaily(p)
  <2>1. NewCall("daily", NoAction, "trade", state) \in Calls
    BY <1>2, CallTypes DEF Steps
  <2>2. Moved(p, NewCall("daily", NoAction, "trade", state))
    BY <1>4, <2>1, BecomeMoves DEF StartDaily
  <2>3. Fits(p, NewCall("daily", NoAction, "trade", state))
    BY <1>4, ConstantsAssumption DEF StartDaily, Starts, Fits, NewCall
  <2> QED
    BY <1>2, <1>4, <2>2, <2>3 DEF StartDaily, Starts, DataOK, files
<1>5. CASE \E a \in Actions : StartSubmit(p, a)
  <2>1. PICK a \in Actions : StartSubmit(p, a)
    BY <1>5
  <2>2. NewCall("submit", a, "load", Blank) \in Calls
    BY CallTypes DEF Steps
  <2>3. Moved(p, NewCall("submit", a, "load", Blank))
    BY <2>1, <2>2, BecomeMoves DEF StartSubmit
  <2>4. Fits(p, NewCall("submit", a, "load", Blank))
    BY <2>1, ConstantsAssumption DEF StartSubmit, Starts, Fits, NewCall, Steps
  <2> QED
    BY <1>2, <2>1, <2>3, <2>4 DEF StartSubmit, Starts, DataOK, files
<1>6. CASE LoadState(p)
  <2> DEFINE c == [call[p] EXCEPT !.at = "trade", !.broker = state]
  <2>1. c \in Calls /\ c.at = "trade" /\ c.op = call[p].op
    BY <1>2 DEF Calls, Steps, Snapshots
  <2>2. Moved(p, c)
    BY <1>6, <2>1, BecomeMoves DEF LoadState
  <2>3. Fits(p, c)
    BY <1>6, <2>1 DEF LoadState, Fits, ShapeOK, Idle, NewCall, Steps, All
  <2> QED
    BY <1>2, <1>6, <2>2, <2>3 DEF LoadState, DataOK, files
<1>7. CASE Refresh(p)
  <2>1. NewCall("web", NoAction, "idle", state) \in Calls
    BY <1>2, CallTypes DEF Steps
  <2>2. Moved(p, NewCall("web", NoAction, "idle", state))
    BY <1>7, <2>1, BecomeMoves DEF Refresh
  <2>3. Fits(p, NewCall("web", NoAction, "idle", state))
    BY <1>7, ConstantsAssumption DEF Refresh, Fits, NewCall
  <2> QED
    BY <1>2, <1>7, <2>2, <2>3 DEF Refresh, DataOK, files
<1>8. CASE WebOrder(p)
  <2> DEFINE c == [call[p] EXCEPT !.at = "trade"]
  <2>1. c \in Calls /\ Moved(p, c)
    BY <1>8, GoMoves DEF WebOrder, Steps
  <2>2. Fits(p, c)
    BY <1>2, <1>8, ConstantsAssumption DEF WebOrder, Fits, ShapeOK, Calls
  <2> QED
    BY <1>2, <1>8, <2>1, <2>2 DEF WebOrder, DataOK, files
<1>9. CASE Refuse(p)
  <2>1. CASE call[p].op = "web"
    <3>1. Moved(p, Rest(p)) /\ p \in Webs
      BY <1>9, <2>1, ReturnMoves DEF Refuse, ShapeOK, All, Idle, NewCall
    <3>2. Fits(p, Rest(p))
      BY <3>1, ConstantsAssumption DEF Fits, Rest, NewCall
    <3> QED
      BY <1>2, <1>9, <3>1, <3>2 DEF Refuse, DataOK, files
  <2>2. CASE call[p].op # "web"
    <3>1. PICK step \in {"fail", "block"} : Become(p, NewCall("submit", call[p].act, step, Blank))
      BY <1>9, <2>2 DEF Refuse
    <3>2. NewCall("submit", call[p].act, step, Blank) \in Calls
      BY <1>2, CallTypes DEF Steps
    <3>3. Moved(p, NewCall("submit", call[p].act, step, Blank))
      BY <3>1, <3>2, BecomeMoves
    <3>4. Fits(p, NewCall("submit", call[p].act, step, Blank))
      BY <2>2, ConstantsAssumption DEF Fits, NewCall, Steps, ShapeOK
    <3> QED
      BY <1>2, <1>9, <3>3, <3>4 DEF Refuse, DataOK, files
  <2> QED
    BY <2>1, <2>2
<1>10. CASE CreateOrder(p)
  <2> DEFINE n == call[p].broker.counter + 1
             e == Event(n, "created", call[p].act)
             c == [call[p] EXCEPT !.at = "match", !.broker.counter = n]
  <2>1. n \in Nat /\ e \in Events
    BY <1>2 DEF Event, Events, Snapshots
  <2>2. c \in Calls /\ c.at = "match" /\ c.op = call[p].op
    BY <1>2, <2>1 DEF Calls, Steps, Snapshots
  <2>3. Moved(p, c)
    BY <1>10, <2>2, BecomeMoves DEF CreateOrder
  <2>4. Fits(p, c)
    BY <1>10, <2>2 DEF CreateOrder, Fits, ShapeOK, Idle, NewCall, Steps, All
  <2>5. ledger' = Append(ledger, e) /\ UNCHANGED <<state, trades, nav, row, faults>>
    BY <1>10 DEF CreateOrder
  <2>6. ledger' \in Seq(Events)
    BY <2>1, <2>5, LedgerGrows
  <2> QED
    BY <1>2, <2>3, <2>4, <2>5, <2>6 DEF DataOK
<1>11. CASE Fill(p)
  <2> DEFINE i == Len(ledger) + 1
             e == Event(call[p].broker.counter, "filled", call[p].act)
             b == [call[p].broker EXCEPT !.fills = @ \cup {i}]
             c == [call[p] EXCEPT !.broker.fills = @ \cup {i}, !.fill = i]
             w == [Rest(p) EXCEPT !.broker = c.broker]
             d == [c EXCEPT !.at = IF call[p].op = "daily" THEN "readtrades" ELSE "save"]
  <2>1. i \in Nat /\ e \in Events
    BY <1>2, LenProperties DEF Event, Events, Snapshots, DataOK
  <2>2. c \in Calls /\ c.op = call[p].op
    BY <1>2, <2>1 DEF Calls, Snapshots
  <2>3. ledger' = Append(ledger, e) /\ UNCHANGED <<state, trades, nav, row, faults>>
        /\ Become(p, IF call[p].op = "web" THEN w ELSE d)
    BY <1>11 DEF Fill
  <2>4. ledger' \in Seq(Events)
    BY <2>1, <2>3, LedgerGrows
  <2>5. CASE call[p].op = "web"
    <3>1. p \in Webs
      BY <2>5 DEF ShapeOK, All, Idle, NewCall
    <3>2. w \in Calls /\ w.op = "web" /\ w.at = "idle"
      BY <2>2, <3>1, <1>2 DEF Rest, NewCall, Calls, Steps
    <3>3. Moved(p, w)
      BY <2>3, <2>5, <3>2, BecomeMoves
    <3>4. Fits(p, w)
      BY <3>1, <3>2, ConstantsAssumption DEF Fits
    <3> QED
      BY <1>2, <2>3, <2>4, <3>3, <3>4 DEF DataOK
  <2>6. CASE call[p].op # "web"
    <3>1. d \in Calls /\ d.op = call[p].op
          /\ d.at = IF call[p].op = "daily" THEN "readtrades" ELSE "save"
      BY <2>2 DEF Calls, Steps
    <3>2. Moved(p, d)
      BY <2>3, <2>6, <3>1, BecomeMoves
    <3>3. Fits(p, d)
      BY <1>11, <2>6, <3>1, ConstantsAssumption DEF Fits, ShapeOK, Fill, Idle, NewCall, Steps
    <3> QED
      BY <1>2, <2>3, <2>4, <3>2, <3>3 DEF DataOK
  <2> QED
    BY <2>5, <2>6
<1>12. CASE Reject(p)
  <2> DEFINE e == Event(call[p].broker.counter, "rejected", call[p].act)
             step == IF call[p].op = "daily" THEN "trade" ELSE "fail"
             c == [call[p] EXCEPT !.at = step]
  <2>1. e \in Events /\ step \in Steps
    BY <1>2 DEF Event, Events, Snapshots, Steps
  <2>2. ledger' = Append(ledger, e) /\ UNCHANGED <<state, trades, nav, row, faults>>
        /\ IF call[p].op = "web" THEN Return(p) ELSE Go(p, step)
    BY <1>12 DEF Reject
  <2>3. ledger' \in Seq(Events)
    BY <2>1, <2>2, LedgerGrows
  <2>4. CASE call[p].op = "web"
    <3>1. Moved(p, Rest(p)) /\ p \in Webs
      BY <2>2, <2>4, ReturnMoves DEF ShapeOK, All, Idle, NewCall
    <3>2. Fits(p, Rest(p))
      BY <3>1, ConstantsAssumption DEF Fits, Rest, NewCall
    <3> QED
      BY <1>2, <2>2, <2>3, <3>1, <3>2 DEF DataOK
  <2>5. CASE call[p].op # "web"
    <3>1. Moved(p, c)
      BY <2>1, <2>2, <2>5, GoMoves
    <3>2. c.op = call[p].op /\ c.at = step
      BY <1>2 DEF Calls
    <3>3. Fits(p, c)
      BY <1>12, <2>5, <3>2, ConstantsAssumption DEF Fits, ShapeOK, Reject, Idle, NewCall, Steps
    <3> QED
      BY <1>2, <2>2, <2>3, <3>1, <3>3 DEF DataOK
  <2> QED
    BY <2>4, <2>5
<1>13. CASE ReadTrades(p)
  <2> DEFINE c == [call[p] EXCEPT !.at = "writetrades", !.read = trades]
  <2>1. c \in Calls /\ c.at = "writetrades" /\ c.op = call[p].op
    BY <1>2 DEF Calls, Steps, DataOK
  <2>2. Moved(p, c)
    BY <1>13, <2>1, BecomeMoves DEF ReadTrades
  <2>3. Fits(p, c)
    BY <1>13, <2>1, ConstantsAssumption DEF ReadTrades, Fits, ShapeOK, Idle, NewCall, Steps, All
  <2> QED
    BY <1>2, <1>13, <2>2, <2>3 DEF ReadTrades, DataOK, files
<1>14. CASE WriteTrades(p)
  <2> DEFINE step == IF call[p].op = "daily" THEN "trade" ELSE "succeed"
             b == IF call[p].op = "daily" THEN call[p].broker ELSE Blank
             c == NewCall(call[p].op, call[p].act, step, b)
  <2>1. step \in Steps /\ b \in Snapshots
    BY <1>2, CallTypes DEF Steps
  <2>2. call[p].op \in {"none", "daily", "submit", "web"}
    BY <1>2 DEF Calls
  <2>3. c \in Calls /\ c.at = step /\ c.op = call[p].op
    <3> HIDE DEF step, b
    <3> QED
      BY <1>2, <2>1, <2>2, CallTypes DEF NewCall
  <2>4. Moved(p, c)
    BY <1>14, <2>3, BecomeMoves DEF WriteTrades
  <2>5. Fits(p, c)
    BY <1>14, <2>3, ConstantsAssumption DEF WriteTrades, Fits, ShapeOK, Idle, NewCall, Steps, All
  <2>6. trades' \subseteq Nat
    BY <1>2, <1>14 DEF WriteTrades, Calls
  <2> QED
    BY <1>2, <1>14, <2>4, <2>5, <2>6 DEF WriteTrades, DataOK
<1>15. CASE AppendNav(p)
  <2> DEFINE step == IF call[p].op = "daily" THEN "save" ELSE "readtrades"
             c == [call[p] EXCEPT !.at = step]
  <2>1. step \in Steps
    BY DEF Steps
  <2>2. Moved(p, c)
    BY <1>15, <2>1, GoMoves DEF AppendNav
  <2>3. c.op = call[p].op /\ c.at = step
    BY <1>2 DEF Calls
  <2>4. Fits(p, c)
    BY <1>15, <2>3, ConstantsAssumption DEF AppendNav, Fits, ShapeOK, Idle, NewCall, Steps, All
  <2>5. nav' \subseteq Nat
    BY <1>2, <1>15 DEF AppendNav, Snapshots
  <2> QED
    BY <1>2, <1>15, <2>2, <2>4, <2>5 DEF AppendNav, DataOK
<1>16. CASE SaveState(p)
  <2>1. state' \in Snapshots /\ UNCHANGED <<ledger, trades, nav, row, faults>>
    BY <1>2, <1>16 DEF SaveState
  <2>2. DataOK'
    BY <1>2, <2>1 DEF DataOK, Snapshots
  <2>3. p \in Procs
    BY <1>16 DEF SaveState, ShapeOK, All
  <2>4. CASE call[p].op = "daily"
    <3>1. Moved(p, Rest(p))
      BY <1>16, <2>4, ReturnMoves DEF SaveState
    <3>2. Fits(p, Rest(p))
      BY <2>3, ConstantsAssumption DEF Fits, Rest
    <3> QED
      BY <2>2, <3>1, <3>2
  <2>5. CASE call[p].op # "daily"
    <3> DEFINE c == [call[p] EXCEPT !.at = "nav"]
    <3>1. Moved(p, c)
      BY <1>16, <2>5, GoMoves DEF SaveState, Steps
    <3>2. c.op = call[p].op /\ c.at = "nav"
      BY <1>2 DEF Calls
    <3>3. Fits(p, c)
      BY <1>16, <2>3, <2>5, <3>2, ConstantsAssumption
      DEF SaveState, Fits, ShapeOK, Idle, NewCall, Steps
    <3> QED
      BY <2>2, <3>1, <3>3
  <2> QED
    BY <2>4, <2>5
<1>17. CASE UpdateStatus(p)
  <2>1. Moved(p, Rest(p)) /\ p \in Procs
    BY <1>17, ReturnMoves DEF UpdateStatus, ShapeOK, All
  <2>2. Fits(p, Rest(p))
    BY <2>1, ConstantsAssumption DEF Fits, Rest
  <2>3. row' \in [Actions -> {"approved", "succeeded", "failed", "blocked"}]
    BY <1>2, <1>17 DEF UpdateStatus, DataOK
  <2> QED
    BY <1>2, <1>17, <2>1, <2>2, <2>3 DEF UpdateStatus, DataOK
<1>18. CASE Crash(p)
  <2> DEFINE c == IF p \in Webs THEN NewCall("web", NoAction, "idle", state) ELSE Idle
  <2>1. c \in Calls
    BY <1>2, CallTypes DEF Steps
  <2>2. Moved(p, c)
    BY <1>18, <2>1, BecomeMoves DEF Crash
  <2>3. Fits(p, c)
    BY ConstantsAssumption DEF Fits, NewCall, Idle
  <2> QED
    BY <1>2, <1>18, <2>2, <2>3 DEF Crash, DataOK, files
<1> QED
  BY <1>1, <1>4, <1>5, <1>6, <1>7, <1>8, <1>9, <1>10, <1>11, <1>12, <1>13, <1>14,
     <1>15, <1>16, <1>17, <1>18 DEF ProcStep, OrderStep, FileStep

LEMMA InitTypes == Init => TypeOK /\ ShapeOK
<1> SUFFICES ASSUME Init PROVE TypeOK /\ ShapeOK
  OBVIOUS
<1>1. \A p \in All : call[p] \in Calls
  BY CallTypes DEF Init, All, Steps
<1>2. call \in [All -> Calls]
  BY <1>1 DEF Init, All
<1>3. DataOK
  BY CallTypes DEF Init, DataOK, Snapshots
<1>4. ShapeOK
  BY ConstantsAssumption DEF Init, ShapeOK, NewCall
<1> QED
  BY <1>2, <1>3, <1>4 DEF TypeOK, DataOK, All

Inv == TypeOK /\ ShapeOK

LEMMA InvStep == Inv /\ [Next]_vars => Inv'
<1>1. Inv /\ Next => Inv'
  BY TypeStep DEF Inv
<1>2. Inv /\ UNCHANGED vars => Inv'
  BY DEF Inv, TypeOK, ShapeOK, vars, files, Filled
<1> QED
  BY <1>1, <1>2

LEMMA InvHolds == Spec => []Inv
  BY InitTypes, InvStep, PTL DEF Spec, Inv

\* No step of any process, and no crash, breaks the shape of a file, a row or a
\* call (all actions).
THEOREM TypeCorrect == Spec => []TypeOK
  BY InvHolds, PTL DEF Inv

-----------------------------------------------------------------------------
(* What each step does to the call of p, field by field.                    *)

Others(p) == \A q \in All : q # p => call'[q] = call[q]

\* The call goes on to another step of the same operation.
SameCall(p) ==
  /\ call'[p].op = call[p].op /\ call'[p].act = call[p].act
  /\ call'[p].fill = call[p].fill

\* The call is over.
Over(p) ==
  /\ p \in Procs => call'[p] = Idle
  /\ p \in Webs => call'[p].at = "idle" /\ call'[p].op = "web" /\ call'[p].act = NoAction
                    /\ call'[p].read = {} /\ call'[p].broker = call[p].broker

LEMMA GoFields ==
  ASSUME TypeOK, NEW p \in All, NEW step \in Steps, Go(p, step)
  PROVE  /\ Others(p) /\ SameCall(p)
         /\ call'[p].at = step /\ call'[p].broker = call[p].broker
         /\ call'[p].read = call[p].read
  BY DEF TypeOK, Go, Become, Others, SameCall, Calls, All

LEMMA ReturnFields ==
  ASSUME TypeOK, NEW p \in All, Return(p)
  PROVE  Others(p) /\ Over(p)
  BY ConstantsAssumption DEF TypeOK, Return, Become, Rest, NewCall, Others, Over, All

LEMMA BeginFields ==
  ASSUME TypeOK, NEW p \in All, NEW op, NEW a, NEW step, NEW b,
         Become(p, NewCall(op, a, step, b))
  PROVE  /\ Others(p)
         /\ call'[p].at = step /\ call'[p].op = op /\ call'[p].act = a
         /\ call'[p].broker = b /\ call'[p].fill = 0 /\ call'[p].read = {}
  BY DEF TypeOK, Become, NewCall, Others, All

LEMMA LoadFields ==
  ASSUME TypeOK, NEW p \in All, LoadState(p)
  PROVE  /\ Others(p) /\ SameCall(p)
         /\ call'[p].at = "trade" /\ call'[p].broker = state
         /\ call'[p].read = call[p].read
  BY DEF TypeOK, LoadState, Become, Others, SameCall, Calls, All

LEMMA CreateFields ==
  ASSUME TypeOK, NEW p \in All, CreateOrder(p)
  PROVE  /\ Others(p) /\ SameCall(p)
         /\ call'[p].at = "match" /\ call'[p].broker.fills = call[p].broker.fills
         /\ call'[p].broker.counter = call[p].broker.counter + 1
         /\ call'[p].read = call[p].read
         /\ \E e \in Events : e.kind = "created" /\ ledger' = Append(ledger, e)
<1> DEFINE n == call[p].broker.counter + 1
           e == Event(n, "created", call[p].act)
<1>1. call[p] \in Calls /\ call \in [All -> Calls]
  BY DEF TypeOK, All
<1>2. e \in Events /\ e.kind = "created" /\ ledger' = Append(ledger, e)
  BY <1>1 DEF CreateOrder, Event, Events, Calls
<1>3. call' = [call EXCEPT ![p] = [call[p] EXCEPT !.at = "match", !.broker.counter = n]]
  BY DEF CreateOrder, Become
<1>4. Others(p) /\ call'[p] = [call[p] EXCEPT !.at = "match", !.broker.counter = n]
  BY <1>1, <1>3 DEF Others
<1> QED
  BY <1>1, <1>2, <1>4 DEF SameCall, Calls

LEMMA FillFields ==
  ASSUME TypeOK, ShapeOK, NEW p \in All, Fill(p)
  PROVE  /\ Others(p)
         /\ call'[p].op = call[p].op
         /\ call'[p].broker.fills = call[p].broker.fills \cup {Len(ledger) + 1}
         /\ call'[p].broker.counter = call[p].broker.counter
         /\ p \in Webs => call'[p].at = "idle" /\ call'[p].read = {} /\ call'[p].act = NoAction
         /\ p \in Procs =>
              /\ call'[p].at = IF call[p].op = "daily" THEN "readtrades" ELSE "save"
              /\ call'[p].act = call[p].act
              /\ call'[p].fill = Len(ledger) + 1
              /\ call'[p].read = call[p].read
         /\ \E e \in Events : /\ e.kind = "filled" /\ e.act = call[p].act
                              /\ e.order = call[p].broker.counter
                              /\ ledger' = Append(ledger, e)
<1> DEFINE i == Len(ledger) + 1
           e == Event(call[p].broker.counter, "filled", call[p].act)
           c == [call[p] EXCEPT !.broker.fills = @ \cup {i}, !.fill = i]
           w == [Rest(p) EXCEPT !.broker = c.broker]
           d == [c EXCEPT !.at = IF call[p].op = "daily" THEN "readtrades" ELSE "save"]
<1>1. call[p] \in Calls /\ call \in [All -> Calls] /\ i \in Nat
  BY LenProperties DEF TypeOK, All
<1>2. e \in Events /\ e.kind = "filled" /\ e.act = call[p].act
      /\ e.order = call[p].broker.counter /\ ledger' = Append(ledger, e)
  BY <1>1 DEF Fill, Event, Events, Calls
<1>3. c.broker.fills = call[p].broker.fills \cup {i} /\ c.fill = i /\ c \in Calls
      /\ c.broker.counter = call[p].broker.counter
      /\ c.op = call[p].op /\ c.act = call[p].act /\ c.read = call[p].read
  BY <1>1 DEF Calls
<1>4. call' = [call EXCEPT ![p] = IF call[p].op = "web" THEN w ELSE d]
  BY DEF Fill, Become
<1>5. Others(p) /\ call'[p] = IF call[p].op = "web" THEN w ELSE d
  BY <1>1, <1>4 DEF Others
<1>6. p \in Webs <=> call[p].op = "web"
  BY ConstantsAssumption DEF ShapeOK, All, Idle, NewCall
<1>7. CASE p \in Webs
  <2>1. w.op = "web" /\ w.at = "idle" /\ w.read = {} /\ w.act = NoAction
        /\ w.broker = c.broker
    BY <1>7 DEF Rest, NewCall
  <2> QED
    BY <1>2, <1>3, <1>5, <1>6, <1>7, <2>1, ConstantsAssumption
<1>8. CASE p \notin Webs
  <2>1. d.op = c.op /\ d.act = c.act /\ d.read = c.read /\ d.broker = c.broker
        /\ d.fill = c.fill /\ d.at = IF call[p].op = "daily" THEN "readtrades" ELSE "save"
    BY <1>3 DEF Calls
  <2> QED
    BY <1>2, <1>3, <1>5, <1>6, <1>8, <2>1
<1> QED
  BY <1>7, <1>8

LEMMA RejectFields ==
  ASSUME TypeOK, ShapeOK, NEW p \in All, Reject(p)
  PROVE  /\ Others(p)
         /\ p \in Webs => Over(p)
         /\ p \in Procs =>
              /\ SameCall(p) /\ call'[p].broker = call[p].broker
              /\ call'[p].at = IF call[p].op = "daily" THEN "trade" ELSE "fail"
              /\ call'[p].read = call[p].read
         /\ \E e \in Events : e.kind = "rejected" /\ ledger' = Append(ledger, e)
<1> DEFINE e == Event(call[p].broker.counter, "rejected", call[p].act)
           step == IF call[p].op = "daily" THEN "trade" ELSE "fail"
<1>1. e \in Events /\ e.kind = "rejected" /\ ledger' = Append(ledger, e)
  BY DEF TypeOK, Reject, Event, Events, Calls, All
<1>2. p \in Webs <=> call[p].op = "web"
  BY ConstantsAssumption DEF ShapeOK, All, Idle, NewCall
<1>3. CASE p \in Webs
  BY <1>1, <1>2, <1>3, ReturnFields, ConstantsAssumption DEF Reject
<1>4. CASE p \notin Webs
  <2>1. Go(p, step) /\ step \in Steps
    BY <1>2, <1>4 DEF Reject, Steps
  <2> QED
    BY <1>1, <1>4, <2>1, GoFields
<1> QED
  BY <1>3, <1>4

LEMMA ReadFields ==
  ASSUME TypeOK, NEW p \in All, ReadTrades(p)
  PROVE  /\ Others(p) /\ SameCall(p)
         /\ call'[p].at = "writetrades" /\ call'[p].broker = call[p].broker
         /\ call'[p].read = trades
  BY DEF TypeOK, ReadTrades, Become, Others, SameCall, Calls, All

LEMMA CrashFields ==
  ASSUME TypeOK, NEW p \in All, Crash(p)
  PROVE  /\ Others(p)
         /\ p \in Procs => call'[p] = Idle
         /\ p \in Webs => call'[p].at = "idle" /\ call'[p].op = "web"
                           /\ call'[p].act = NoAction
                           /\ call'[p].read = {} /\ call'[p].broker = state
  BY ConstantsAssumption DEF TypeOK, Crash, Become, NewCall, Others, All

-----------------------------------------------------------------------------
(* Files hold recorded fills only.                                          *)

\* The steps between a fill and its trade.
Filling(p) == \/ call[p].at \in {"nav", "readtrades", "writetrades"}
              \/ call[p].at = "save" /\ call[p].op = "submit"

\* What the call of p holds, and will write, is in the ledger.
Recorded(p) ==
  /\ call[p].broker.fills \cup call[p].read \subseteq Filled
  /\ Filling(p) => call[p].fill \in Filled /\ ledger[call[p].fill].act = call[p].act

RecordInv == FilesAreRecorded /\ \A p \in All : Recorded(p)

\* The ledger stays, or grows by one event.
LedgerStep == ledger' = ledger \/ \E e \in Events : ledger' = Append(ledger, e)

LEMMA FillsStay ==
  ASSUME TypeOK, LedgerStep
  PROVE  Filled \subseteq Filled' /\ \A i \in Filled : ledger'[i] = ledger[i]
<1>1. CASE ledger' = ledger
  BY <1>1 DEF Filled
<1>2. CASE \E e \in Events : ledger' = Append(ledger, e)
  BY <1>2, LedgerGrows
<1> QED
  BY <1>1, <1>2 DEF LedgerStep

LEMMA RecordMoves ==
  ASSUME TypeOK, RecordInv, NEW p \in All, Others(p), LedgerStep,
         FilesAreRecorded', Recorded(p)'
  PROVE  RecordInv'
<1>1. \A q \in All : q # p => Recorded(q)'
  BY FillsStay DEF RecordInv, Recorded, Filling, Others
<1> QED
  BY <1>1 DEF RecordInv

\* A step that leaves the files alone, but for a trade, NAV row, account or row
\* made of what the call holds.
LEMMA FilesMove ==
  ASSUME TypeOK, RecordInv, LedgerStep, NEW p \in All,
         state'.fills \in {state.fills, call[p].broker.fills},
         nav' \in {nav, call[p].broker.fills},
         trades' = trades \/ (trades' = call[p].read \cup {call[p].fill} /\ Filling(p))
  PROVE  FilesAreRecorded'
  BY FillsStay DEF RecordInv, Recorded, FilesAreRecorded

LEMMA OverRecorded ==
  ASSUME TypeOK, RecordInv, LedgerStep, NEW p \in All, Over(p)
  PROVE  Recorded(p)'
<1>1. CASE p \in Procs
  BY <1>1 DEF Over, Recorded, Filling, Idle, NewCall, Blank
<1>2. CASE p \in Webs
  BY <1>2, FillsStay DEF Over, Recorded, Filling, RecordInv
<1> QED
  BY <1>1, <1>2 DEF All

LEMMA RecordStep ==
  ASSUME Inv, RecordInv, Next
  PROVE  RecordInv'
<1>1. PICK p \in All : ProcStep(p)
  BY DEF Next, All
<1>2. TypeOK /\ ShapeOK
  BY DEF Inv
<1>3. state.fills \subseteq Filled /\ trades \subseteq Filled /\ Recorded(p)
      /\ call[p].broker.fills \subseteq Filled
  BY DEF RecordInv, FilesAreRecorded, Recorded
<1>4. ASSUME UNCHANGED files
      PROVE  LedgerStep /\ FilesAreRecorded' /\ Filled' = Filled
  BY <1>2, <1>4 DEF LedgerStep, RecordInv, FilesAreRecorded, files, Filled
<1>5. CASE StartDaily(p)
  <2>1. Others(p) /\ Recorded(p)'
    BY <1>2, <1>3, <1>4, <1>5, BeginFields DEF StartDaily, Recorded, Filling
  <2> QED
    BY <1>2, <1>4, <1>5, <2>1, RecordMoves DEF StartDaily
<1>6. CASE \E a \in Actions : StartSubmit(p, a)
  <2>1. PICK a \in Actions : StartSubmit(p, a)
    BY <1>6
  <2>2. Others(p) /\ Recorded(p)'
    BY <1>2, <1>4, <2>1, BeginFields DEF StartSubmit, Recorded, Filling, Blank
  <2> QED
    BY <1>2, <1>4, <2>1, <2>2, RecordMoves DEF StartSubmit
<1>7. CASE LoadState(p)
  <2>1. Others(p) /\ Recorded(p)'
    BY <1>2, <1>3, <1>4, <1>7, LoadFields DEF LoadState, Recorded, Filling
  <2> QED
    BY <1>2, <1>4, <1>7, <2>1, RecordMoves DEF LoadState
<1>8. CASE Refresh(p)
  <2>1. Others(p) /\ Recorded(p)'
    BY <1>2, <1>3, <1>4, <1>8, BeginFields DEF Refresh, Recorded, Filling
  <2> QED
    BY <1>2, <1>4, <1>8, <2>1, RecordMoves DEF Refresh
<1>9. CASE WebOrder(p)
  <2>1. Others(p) /\ Recorded(p)'
    BY <1>2, <1>3, <1>4, <1>9, GoFields DEF WebOrder, Recorded, Filling, Steps
  <2> QED
    BY <1>2, <1>4, <1>9, <2>1, RecordMoves DEF WebOrder
<1>10. CASE Refuse(p)
  <2>1. CASE call[p].op = "web"
    <3>1. Others(p) /\ Recorded(p)'
      BY <1>2, <1>4, <1>10, <2>1, ReturnFields, OverRecorded DEF Refuse
    <3> QED
      BY <1>2, <1>4, <1>10, <3>1, RecordMoves DEF Refuse
  <2>2. CASE call[p].op # "web"
    <3>1. PICK step \in {"fail", "block"} : Become(p, NewCall("submit", call[p].act, step, Blank))
      BY <1>10, <2>2 DEF Refuse
    <3>2. Others(p) /\ Recorded(p)'
      BY <1>2, <1>4, <3>1, BeginFields DEF Recorded, Filling, Blank
    <3> QED
      BY <1>2, <1>4, <1>10, <3>2, RecordMoves DEF Refuse
  <2> QED
    BY <2>1, <2>2
<1>11. CASE CreateOrder(p)
  <2>1. Others(p) /\ LedgerStep /\ UNCHANGED <<state, trades, nav>>
    BY <1>2, <1>11, CreateFields DEF LedgerStep, CreateOrder
  <2>2. Recorded(p)'
    BY <1>2, <1>3, <1>11, <2>1, CreateFields, FillsStay DEF Recorded, Filling
  <2>3. FilesAreRecorded'
    BY <1>2, <2>1, FilesMove
  <2> QED
    BY <1>2, <2>1, <2>2, <2>3, RecordMoves
<1>12. CASE Fill(p)
  <2>1. PICK e \in Events : /\ e.kind = "filled" /\ e.act = call[p].act
                            /\ ledger' = Append(ledger, e)
    BY <1>2, <1>12, FillFields
  <2>2. Filled' = Filled \cup {Len(ledger) + 1} /\ ledger'[Len(ledger) + 1] = e
    BY <1>2, <2>1, LedgerGrows
  <2>3. Others(p) /\ LedgerStep /\ UNCHANGED <<state, trades, nav>>
    BY <1>2, <1>12, <2>1, FillFields DEF LedgerStep, Fill
  <2>4. Recorded(p)'
    <3>1. CASE p \in Webs
      BY <1>2, <1>3, <1>12, <2>2, <3>1, FillFields DEF Recorded, Filling
    <3>2. CASE p \in Procs
      BY <1>2, <1>3, <1>12, <2>1, <2>2, <3>2, FillFields DEF Recorded, Filling
    <3> QED
      BY <3>1, <3>2 DEF All
  <2>5. FilesAreRecorded'
    BY <1>2, <2>3, FilesMove
  <2> QED
    BY <1>2, <2>3, <2>4, <2>5, RecordMoves
<1>13. CASE Reject(p)
  <2>1. Others(p) /\ LedgerStep /\ UNCHANGED <<state, trades, nav>>
    BY <1>2, <1>13, RejectFields DEF LedgerStep, Reject
  <2>2. Recorded(p)'
    <3>1. CASE p \in Webs
      BY <1>2, <1>13, <2>1, <3>1, RejectFields, OverRecorded
    <3>2. CASE p \in Procs
      BY <1>2, <1>3, <1>13, <2>1, <3>2, RejectFields, FillsStay DEF Recorded, Filling
    <3> QED
      BY <3>1, <3>2 DEF All
  <2>3. FilesAreRecorded'
    BY <1>2, <2>1, FilesMove
  <2> QED
    BY <1>2, <2>1, <2>2, <2>3, RecordMoves
<1>14. CASE ReadTrades(p)
  <2>1. Others(p) /\ Recorded(p)'
    BY <1>2, <1>3, <1>4, <1>14, ReadFields DEF ReadTrades, Recorded, Filling, SameCall, files
  <2> QED
    BY <1>2, <1>4, <1>14, <2>1, RecordMoves DEF ReadTrades
<1>15. CASE WriteTrades(p)
  <2>1. LedgerStep /\ UNCHANGED <<ledger, state, nav>> /\ Filling(p)
        /\ trades' = call[p].read \cup {call[p].fill}
    BY <1>15 DEF WriteTrades, LedgerStep, Filling
  <2>2. Others(p) /\ Recorded(p)'
    BY <1>2, <1>3, <1>15, <2>1, BeginFields DEF WriteTrades, Recorded, Filling, Filled, Blank
  <2>3. FilesAreRecorded'
    BY <1>2, <2>1, FilesMove
  <2> QED
    BY <1>2, <2>1, <2>2, <2>3, RecordMoves
<1>16. CASE AppendNav(p)
  <2> DEFINE step == IF call[p].op = "daily" THEN "save" ELSE "readtrades"
  <2>1. LedgerStep /\ UNCHANGED <<ledger, state, trades>> /\ nav' = call[p].broker.fills
        /\ Go(p, step) /\ step \in Steps
    BY <1>16 DEF AppendNav, LedgerStep, Steps
  <2>2. Others(p) /\ SameCall(p) /\ call'[p].at = step
        /\ call'[p].broker = call[p].broker /\ call'[p].read = call[p].read
    BY <1>2, <2>1, GoFields
  <2>3. Recorded(p)'
    BY <1>3, <1>16, <2>1, <2>2 DEF AppendNav, Recorded, Filling, Filled, SameCall
  <2>4. FilesAreRecorded'
    BY <1>2, <2>1, FilesMove
  <2> QED
    BY <1>2, <2>1, <2>2, <2>3, <2>4, RecordMoves
<1>17. CASE SaveState(p)
  <2>1. LedgerStep /\ UNCHANGED <<ledger, trades, nav>> /\ state' = call[p].broker
    BY <1>17 DEF SaveState, LedgerStep
  <2>2. Others(p) /\ Recorded(p)'
    <3>1. CASE call[p].op = "daily"
      BY <1>2, <1>17, <2>1, <3>1, ReturnFields, OverRecorded DEF SaveState
    <3>2. CASE call[p].op # "daily"
      <4>1. Go(p, "nav") /\ call[p].op = "submit"
        BY <1>2, <1>17, <3>2 DEF SaveState, ShapeOK, Idle, NewCall, All
      <4> QED
        BY <1>2, <1>3, <1>17, <2>1, <4>1, GoFields
        DEF SaveState, Recorded, Filling, Filled, SameCall, Steps
    <3> QED
      BY <3>1, <3>2
  <2>3. FilesAreRecorded'
    BY <1>2, <2>1, FilesMove
  <2> QED
    BY <1>2, <2>1, <2>2, <2>3, RecordMoves
<1>18. CASE UpdateStatus(p)
  <2>1. LedgerStep /\ UNCHANGED <<ledger, state, trades, nav>>
    BY <1>18 DEF UpdateStatus, LedgerStep
  <2>2. Others(p) /\ Recorded(p)'
    BY <1>2, <1>18, <2>1, ReturnFields, OverRecorded DEF UpdateStatus
  <2>3. FilesAreRecorded'
    BY <1>2, <2>1, FilesMove
  <2> QED
    BY <1>2, <2>1, <2>2, <2>3, RecordMoves
<1>19. CASE Crash(p)
  <2>1. Others(p) /\ Recorded(p)'
    <3>1. CASE p \in Procs
      BY <1>2, <1>19, <3>1, CrashFields DEF Recorded, Filling, Idle, NewCall, Blank
    <3>2. CASE p \in Webs
      BY <1>2, <1>3, <1>4, <1>19, <3>2, CrashFields DEF Crash, Recorded, Filling
    <3> QED
      BY <1>2, <1>19, <3>1, <3>2, CrashFields DEF All
  <2> QED
    BY <1>2, <1>4, <1>19, <2>1, RecordMoves DEF Crash
<1> QED
  BY <1>1, <1>5, <1>6, <1>7, <1>8, <1>9, <1>10, <1>11, <1>12, <1>13, <1>14,
     <1>15, <1>16, <1>17, <1>18, <1>19 DEF ProcStep, OrderStep, FileStep

LEMMA RecordHolds == Spec => []RecordInv
<1>1. Init => RecordInv
  BY DEF Init, RecordInv, FilesAreRecorded, Recorded, Filling, Blank, Idle, NewCall, All
<1>2. Inv /\ RecordInv /\ UNCHANGED vars => RecordInv'
  BY DEF RecordInv, FilesAreRecorded, Recorded, Filling, Filled, vars, files
<1> QED
  BY <1>1, <1>2, InvHolds, RecordStep, PTL DEF Spec

\* Whatever overlaps, dies or is posted to the web server, the saved positions,
\* the trades and the NAV row account for fills of the ledger only (_apply_fill,
\* save_state, append_trade, append_nav).
THEOREM RecordedFiles == Spec => []FilesAreRecorded
  BY RecordHolds, PTL DEF RecordInv

-----------------------------------------------------------------------------
(* Calls that do not overlap, with crashes and orders of the web server.    *)

\* The steps at which a call holds a broker object.
Holding == {"trade", "match", "nav", "readtrades", "writetrades", "save"}

\* The fill of a succeeded row is in the account and the trades.
Saved(a) == \E i \in FillsOf(a) : i \in state.fills /\ i \in trades

\* What a call that runs alone holds of the files, and has saved of its fill.
Keeps(p) ==
  /\ call[p].at \in Holding => state.fills \subseteq call[p].broker.fills
  /\ call[p].at = "writetrades" => trades \subseteq call[p].read
  /\ Filling(p) => call[p].fill \in call[p].broker.fills
  /\ call[p].op = "submit" /\ call[p].at \in {"nav", "readtrades", "writetrades"} =>
       call[p].fill \in state.fills
  /\ call[p].at = "succeed" => Saved(call[p].act)

Alone == \A p, q \in Procs : call[p] # Idle /\ call[q] # Idle => p = q

SoloInv ==
  "overlap" \notin faults =>
    /\ Alone
    /\ \A p \in Procs : Keeps(p)
    /\ \A a \in Actions : row[a] = "succeeded" => Saved(a)

\* Nothing leaves the account or the trades.
Growing == LedgerStep /\ state.fills \subseteq state'.fills /\ trades \subseteq trades'

\* A row that a step of p marks succeeded has its fill saved.
RowsBacked(p) ==
  \A a \in Actions : row'[a] = "succeeded" =>
     row[a] = "succeeded" \/ (call[p].at = "succeed" /\ a = call[p].act)

LEMMA FaultsStay ==
  ASSUME NEW p \in All, ProcStep(p)
  PROVE  faults \subseteq faults'
  BY DEF ProcStep, OrderStep, FileStep, StartDaily, StartSubmit, Starts, LoadState,
         Refresh, WebOrder, Refuse, CreateOrder, Fill, Reject, ReadTrades, WriteTrades,
         AppendNav, SaveState, UpdateStatus, Crash

\* A process takes a step of a call only when no other is in one.
LEMMA OthersIdle ==
  ASSUME Inv, SoloInv, NEW p \in Procs, ProcStep(p), "overlap" \notin faults'
  PROVE  \A q \in Procs : q # p => call[q] = Idle
<1>1. "overlap" \notin faults /\ Alone
  BY FaultsStay DEF SoloInv, All
<1>2. CASE Starts(p)
  BY <1>2 DEF Starts
<1>3. CASE call[p] # Idle
  BY <1>1, <1>3 DEF Alone
<1>4. Starts(p) \/ call[p].at # "idle"
  BY ConstantsAssumption
  DEF ProcStep, OrderStep, FileStep, StartDaily, StartSubmit, LoadState, Refresh,
      WebOrder, Refuse, CreateOrder, Fill, Reject, ReadTrades, WriteTrades, AppendNav,
      SaveState, UpdateStatus, Crash
<1> QED
  BY <1>2, <1>3, <1>4 DEF Idle, NewCall

LEMMA SavedStays ==
  ASSUME TypeOK, Growing, NEW a, Saved(a)
  PROVE  Saved(a)'
<1>1. PICK i \in Filled : ledger[i].act = a /\ i \in state.fills /\ i \in trades
  BY DEF Saved, FillsOf
<1>2. i \in Filled' /\ ledger'[i].act = a /\ i \in state'.fills /\ i \in trades'
  BY <1>1, FillsStay DEF Growing
<1> QED
  BY <1>2 DEF Saved, FillsOf

LEMMA IdleKeeps ==
  ASSUME NEW p \in Procs, call'[p] = Idle
  PROVE  Keeps(p)'
  BY DEF Keeps, Filling, Holding, Idle, NewCall

LEMMA SoloStep ==
  ASSUME Inv, RecordInv, SoloInv, NEW p \in All, ProcStep(p), "overlap" \notin faults'
  PROVE  Growing /\ Others(p) /\ RowsBacked(p) /\ (p \in Procs => Keeps(p)')
<1>1. TypeOK /\ ShapeOK /\ "overlap" \notin faults
  BY FaultsStay DEF Inv
<1>2. p \in Procs => Keeps(p)
  BY <1>1 DEF SoloInv
<1>3. ASSUME UNCHANGED files
      PROVE  Growing /\ RowsBacked(p)
  BY <1>3 DEF Growing, LedgerStep, RowsBacked, files
<1>4. ASSUME NEW e \in Events, ledger' = Append(ledger, e), UNCHANGED <<state, trades, row>>
      PROVE  Growing /\ RowsBacked(p)
  BY <1>4 DEF Growing, LedgerStep, RowsBacked
<1>5. CASE StartDaily(p)
  <2>1. Others(p) /\ Keeps(p)'
    BY <1>1, <1>5, BeginFields DEF StartDaily, Keeps, Filling, Holding, files
  <2> QED
    BY <1>3, <1>5, <2>1 DEF StartDaily
<1>6. CASE \E a \in Actions : StartSubmit(p, a)
  <2>1. PICK a \in Actions : StartSubmit(p, a)
    BY <1>6
  <2>2. Others(p) /\ Keeps(p)'
    BY <1>1, <2>1, BeginFields DEF StartSubmit, Keeps, Filling, Holding
  <2> QED
    BY <1>3, <2>1, <2>2 DEF StartSubmit
<1>7. CASE LoadState(p)
  <2>1. Others(p) /\ Keeps(p)'
    BY <1>1, <1>7, LoadFields DEF LoadState, Keeps, Filling, Holding, files
  <2> QED
    BY <1>3, <1>7, <2>1 DEF LoadState
<1>8. CASE Refresh(p)
  <2>1. Others(p) /\ p \notin Procs
    BY <1>1, <1>8, BeginFields, ConstantsAssumption DEF Refresh
  <2> QED
    BY <1>3, <1>8, <2>1 DEF Refresh
<1>9. CASE WebOrder(p)
  <2>1. Others(p) /\ p \notin Procs
    BY <1>1, <1>9, GoFields, ConstantsAssumption DEF WebOrder, Steps
  <2> QED
    BY <1>3, <1>9, <2>1 DEF WebOrder
<1>10. CASE Refuse(p)
  <2>1. CASE call[p].op = "web"
    <3>1. Others(p) /\ p \notin Procs
      BY <1>1, <1>10, <2>1, ReturnFields DEF Refuse, ShapeOK, Idle, NewCall
    <3> QED
      BY <1>3, <1>10, <3>1 DEF Refuse
  <2>2. CASE call[p].op # "web"
    <3>1. PICK step \in {"fail", "block"} : Become(p, NewCall("submit", call[p].act, step, Blank))
      BY <1>10, <2>2 DEF Refuse
    <3>2. Others(p) /\ Keeps(p)'
      BY <1>1, <3>1, BeginFields DEF Keeps, Filling, Holding
    <3> QED
      BY <1>3, <1>10, <3>2 DEF Refuse
  <2> QED
    BY <2>1, <2>2
<1>11. CASE CreateOrder(p)
  <2>1. PICK e \in Events : ledger' = Append(ledger, e)
    BY <1>1, <1>11, CreateFields
  <2>2. UNCHANGED <<state, trades, row>>
    BY <1>11 DEF CreateOrder
  <2>3. Others(p) /\ (p \in Procs => Keeps(p)')
    BY <1>1, <1>2, <1>11, <2>2, CreateFields DEF CreateOrder, Keeps, Filling, Holding
  <2> QED
    BY <1>4, <2>1, <2>2, <2>3
<1>12. CASE Fill(p)
  <2>1. PICK e \in Events : ledger' = Append(ledger, e)
    BY <1>1, <1>12, FillFields
  <2>2. UNCHANGED <<state, trades, row>>
    BY <1>12 DEF Fill
  <2>3. p \in Procs => Keeps(p)'
    <3> SUFFICES ASSUME p \in Procs PROVE Keeps(p)'
      OBVIOUS
    <3>1. call[p].op \in {"daily", "submit"} /\ call[p].at = "match"
      BY <1>1, <1>12 DEF Fill, ShapeOK, Idle, NewCall
    <3> QED
      BY <1>1, <1>2, <1>12, <2>2, <3>1, FillFields DEF Keeps, Filling, Holding
  <2>4. Others(p)
    BY <1>1, <1>12, FillFields
  <2> QED
    BY <1>4, <2>1, <2>2, <2>3, <2>4
<1>13. CASE Reject(p)
  <2>1. PICK e \in Events : ledger' = Append(ledger, e)
    BY <1>1, <1>13, RejectFields
  <2>2. UNCHANGED <<state, trades, row>>
    BY <1>13 DEF Reject
  <2>3. Others(p) /\ (p \in Procs => Keeps(p)')
    BY <1>1, <1>2, <1>13, <2>2, RejectFields
    DEF Reject, Keeps, Filling, Holding, SameCall
  <2> QED
    BY <1>4, <2>1, <2>2, <2>3
<1>14. CASE ReadTrades(p)
  <2>1. p \in Procs /\ Others(p)
    BY <1>1, <1>14, ReadFields DEF ReadTrades, ShapeOK, All
  <2>2. Keeps(p)'
    BY <1>1, <1>2, <1>14, <2>1, ReadFields
    DEF ReadTrades, Keeps, Filling, Holding, SameCall, files
  <2> QED
    BY <1>3, <1>14, <2>1, <2>2 DEF ReadTrades
<1>15. CASE WriteTrades(p)
  <2>1. p \in Procs /\ Others(p)
    BY <1>1, <1>15, BeginFields DEF WriteTrades, ShapeOK, All
  <2>2. UNCHANGED <<ledger, state, row>> /\ trades' = call[p].read \cup {call[p].fill}
    BY <1>15 DEF WriteTrades
  <2>3. Growing /\ RowsBacked(p)
    BY <1>2, <1>15, <2>1, <2>2 DEF Growing, LedgerStep, RowsBacked, Keeps, WriteTrades
  <2>4. Keeps(p)'
    <3>1. CASE call[p].op = "daily"
      BY <1>1, <1>2, <1>15, <2>1, <2>2, <3>1, BeginFields
      DEF WriteTrades, Keeps, Filling, Holding
    <3>2. CASE call[p].op # "daily"
      <4>1. call[p].op = "submit"
        BY <1>1, <1>15, <2>1, <3>2 DEF WriteTrades, ShapeOK, Idle, NewCall
      <4>2. call[p].fill \in Filled /\ ledger[call[p].fill].act = call[p].act
            /\ call[p].fill \in state.fills
        BY <1>2, <1>15, <2>1, <4>1 DEF RecordInv, Recorded, Filling, WriteTrades, Keeps, All
      <4>3. call'[p].at = "succeed" /\ call'[p].op = "submit" /\ call'[p].act = call[p].act
        BY <1>1, <1>15, <4>1, BeginFields DEF WriteTrades
      <4>4. PICK a : a = call[p].act
        OBVIOUS
      <4>5. PICK i : i = call[p].fill
        OBVIOUS
      <4>6. i \in Filled' /\ ledger'[i].act = a /\ i \in state'.fills /\ i \in trades'
        BY <2>2, <4>2, <4>4, <4>5 DEF Filled
      <4>7. Saved(a)'
        BY <4>6 DEF Saved, FillsOf
      <4>8. call'[p].act = a
        BY <4>3, <4>4
      <4>9. (call[p].at = "succeed" => Saved(call[p].act))'
        BY <4>7, <4>8 DEF Saved, FillsOf
      <4> QED
        BY <4>3, <4>9 DEF Keeps, Filling, Holding
    <3> QED
      BY <3>1, <3>2
  <2> QED
    BY <2>1, <2>3, <2>4
<1>16. CASE AppendNav(p)
  <2> DEFINE step == IF call[p].op = "daily" THEN "save" ELSE "readtrades"
  <2>1. UNCHANGED <<ledger, state, trades, row>> /\ Go(p, step) /\ step \in Steps
    BY <1>16 DEF AppendNav, Steps
  <2>2. Others(p) /\ SameCall(p) /\ call'[p].at = step
        /\ call'[p].broker = call[p].broker /\ call'[p].read = call[p].read
    BY <1>1, <2>1, GoFields
  <2>3. p \in Procs => Keeps(p)'
    BY <1>2, <1>16, <2>1, <2>2 DEF AppendNav, Keeps, Filling, Holding, SameCall
  <2> QED
    BY <2>1, <2>2, <2>3 DEF Growing, LedgerStep, RowsBacked
<1>17. CASE SaveState(p)
  <2>1. UNCHANGED <<ledger, trades, row>> /\ state' = call[p].broker
    BY <1>17 DEF SaveState
  <2>2. p \in Procs
    BY <1>1, <1>17 DEF SaveState, ShapeOK, All
  <2>3. Growing /\ RowsBacked(p)
    BY <1>2, <1>17, <2>1, <2>2 DEF Growing, LedgerStep, RowsBacked, Keeps, Holding, SaveState
  <2>4. CASE call[p].op = "daily"
    <3>1. Others(p) /\ call'[p] = Idle
      BY <1>1, <1>17, <2>2, <2>4, ReturnFields DEF SaveState, Over
    <3> QED
      BY <2>2, <2>3, <3>1, IdleKeeps
  <2>5. CASE call[p].op # "daily"
    <3>1. Go(p, "nav") /\ call[p].op = "submit"
      BY <1>1, <1>17, <2>2, <2>5 DEF SaveState, ShapeOK, Idle, NewCall
    <3>2. Others(p) /\ Keeps(p)'
      BY <1>1, <1>2, <1>17, <2>1, <2>2, <3>1, GoFields
      DEF SaveState, Keeps, Filling, Holding, SameCall, Steps
    <3> QED
      BY <2>3, <3>2
  <2> QED
    BY <2>4, <2>5
<1>18. CASE UpdateStatus(p)
  <2>1. Others(p) /\ p \in Procs /\ call'[p] = Idle
    BY <1>1, <1>18, ReturnFields DEF UpdateStatus, ShapeOK, All, Over
  <2>2. RowsBacked(p)
    BY <1>1, <1>18 DEF UpdateStatus, RowsBacked, TypeOK
  <2>3. Growing
    BY <1>18 DEF UpdateStatus, Growing, LedgerStep
  <2> QED
    BY <2>1, <2>2, <2>3, IdleKeeps
<1>19. CASE Crash(p)
  <2>1. Others(p) /\ (p \in Procs => call'[p] = Idle)
    BY <1>1, <1>19, CrashFields
  <2> QED
    BY <1>3, <1>19, <2>1, IdleKeeps DEF Crash
<1> QED
  BY <1>5, <1>6, <1>7, <1>8, <1>9, <1>10, <1>11, <1>12, <1>13, <1>14,
     <1>15, <1>16, <1>17, <1>18, <1>19 DEF ProcStep, OrderStep, FileStep

LEMMA SoloMoves ==
  ASSUME Inv, RecordInv, SoloInv, Next
  PROVE  SoloInv' /\ ("overlap" \notin faults' => Growing)
<1> SUFFICES ASSUME "overlap" \notin faults' PROVE SoloInv' /\ Growing
  BY DEF SoloInv
<1>1. PICK p \in All : ProcStep(p)
  BY DEF Next, All
<1>2. TypeOK /\ "overlap" \notin faults
  BY <1>1, FaultsStay DEF Inv
<1>3. Growing /\ Others(p) /\ RowsBacked(p) /\ (p \in Procs => Keeps(p)')
  BY <1>1, SoloStep
<1>4. p \in Procs => \A q \in Procs : q # p => call[q] = Idle /\ call'[q] = Idle
  BY <1>1, <1>3, OthersIdle DEF Others, All
<1>5. Alone'
  <2>1. CASE p \in Procs
    BY <1>4, <2>1 DEF Alone
  <2>2. CASE p \notin Procs
    BY <1>2, <1>3, <2>2 DEF Alone, SoloInv, Others, All
  <2> QED
    BY <2>1, <2>2
<1>6. ASSUME NEW q \in Procs PROVE Keeps(q)'
  <2>1. CASE p \in Procs
    BY <1>3, <1>4, <2>1, IdleKeeps
  <2>2. CASE p \notin Procs
    <3>1. call'[q] = call[q] /\ Keeps(q)
      BY <1>2, <1>3, <2>2 DEF SoloInv, Others, All
    <3>2. UNCHANGED <<state, trades>>
      BY <1>1, <1>2, <2>2
      DEF Inv, ShapeOK, All, ProcStep, OrderStep, FileStep, StartDaily, StartSubmit, Starts,
          LoadState, Refresh, WebOrder, Refuse, CreateOrder, Fill, Reject, ReadTrades,
          WriteTrades, AppendNav, SaveState, UpdateStatus, Crash, files
    <3>3. call[q].at = "succeed" => Saved(call[q].act)'
      BY <1>2, <1>3, <3>1, SavedStays DEF Keeps
    <3> QED
      BY <3>1, <3>2, <3>3 DEF Keeps, Filling, Holding, Saved, FillsOf
  <2> QED
    BY <2>1, <2>2
<1>7. ASSUME NEW a \in Actions, row'[a] = "succeeded" PROVE Saved(a)'
  <2>1. CASE row[a] = "succeeded"
    BY <1>2, <1>3, <2>1, SavedStays DEF SoloInv
  <2>2. CASE call[p].at = "succeed" /\ a = call[p].act
    <3>1. p \in Procs
      BY <2>2 DEF Inv, ShapeOK, All
    <3>2. Saved(a)
      BY <1>2, <2>2, <3>1 DEF SoloInv, Keeps
    <3> QED
      BY <1>2, <1>3, <3>2, SavedStays
  <2> QED
    BY <1>3, <1>7, <2>1, <2>2 DEF RowsBacked
<1> QED
  BY <1>3, <1>5, <1>6, <1>7 DEF SoloInv

LEMMA SoloHolds == Spec => []SoloInv
<1>1. Init => SoloInv
  BY ConstantsAssumption DEF Init, SoloInv, Alone, Keeps, Filling, Holding, Idle, NewCall
<1>2. Inv /\ SoloInv /\ UNCHANGED vars => SoloInv'
  BY DEF SoloInv, Alone, Keeps, Filling, Holding, Saved, FillsOf, Filled, vars, files
<1> QED
  BY <1>1, <1>2, InvHolds, RecordHolds, SoloMoves, PTL DEF Spec

\* Unless calls of two processes overlapped, a row that submit_paper_order_action
\* marked succeeded has its fill in the account and in the trades, wherever other
\* calls crashed and whatever the web server traded.
THEOREM SavedSuccess == Spec => []SucceededIsSaved
<1>1. SoloInv => SucceededIsSaved
  BY DEF SoloInv, SucceededIsSaved, Saved
<1> QED
  BY <1>1, SoloHolds, PTL

\* Unless calls of two processes overlapped, save_state never drops a fill from
\* the account.
THEOREM NothingForgotten == Spec => FillsNeverForgotten
<1>1. Inv /\ RecordInv /\ SoloInv /\ [Next]_vars =>
        ["overlap" \notin faults' => state.fills \subseteq state'.fills]_vars
  BY SoloMoves DEF Growing
<1> QED
  BY <1>1, InvHolds, RecordHolds, SoloHolds, PTL DEF Spec, FillsNeverForgotten

-----------------------------------------------------------------------------
(* Calls that neither overlap nor die, and no order of the web server.      *)

Balanced == state.fills = Filled /\ trades = Filled /\ nav = Filled

\* How far a call at work has taken the files from agreement. A submission saves
\* the account, then the NAV row, then the trade; the daily execution writes the
\* trade at once, and the NAV row and the account when it ends.
Working(p) ==
  /\ call[p].at \in Holding => call[p].broker.fills = Filled
  /\ call[p].at = "writetrades" => call[p].read = trades
  /\ Filled = IF Filling(p) THEN trades \cup {call[p].fill} ELSE trades
  /\ call[p].op = "submit" /\ call[p].at # "save" => state.fills = Filled
  /\ \/ call[p].op = "submit" /\ call[p].at \notin {"save", "nav"}
     \/ call[p].op = "daily" /\ call[p].at = "save"
     => nav = Filled

BooksInv ==
  faults = {} =>
    /\ \A w \in Webs : call[w].at = "idle"
    /\ \A p \in Procs : call[p] # Idle => Working(p)
    /\ Quiet => Balanced

\* Where a step of p leaves the books.
Settled(p) == IF call'[p] = Idle THEN Balanced' ELSE Working(p)'

LEMMA BooksStep ==
  ASSUME Inv, SoloInv, BooksInv, NEW p \in Procs, ProcStep(p), faults' = {}
  PROVE  Settled(p) /\ Others(p)
<1>1. TypeOK /\ ShapeOK /\ faults = {} /\ p \in All
  BY FaultsStay DEF Inv, All
<1>2. \A q \in Procs : q # p => call[q] = Idle
  BY OthersIdle
<1>3. CASE call[p] = Idle
  <2>1. Quiet
    BY <1>2, <1>3 DEF Quiet, Idle, NewCall
  <2>2. Balanced
    BY <1>1, <2>1 DEF BooksInv
  <2>3. CASE StartDaily(p)
    BY <1>1, <2>2, <2>3, BeginFields
    DEF StartDaily, Settled, Working, Balanced, Filling, Holding, Filled, Idle, NewCall, files
  <2>4. CASE \E a \in Actions : StartSubmit(p, a)
    BY <1>1, <2>2, <2>4, BeginFields
    DEF StartSubmit, Settled, Working, Balanced, Filling, Holding, Filled, Idle, NewCall, files
  <2> QED
    BY <1>1, <1>3, <2>3, <2>4, ConstantsAssumption
    DEF ProcStep, OrderStep, FileStep, LoadState, Refresh, WebOrder, Refuse, CreateOrder,
        Fill, Reject, ReadTrades, WriteTrades, AppendNav, SaveState, UpdateStatus, Crash,
        Idle, NewCall
<1>4. CASE call[p] # Idle
  <2>1. Working(p)
    BY <1>1, <1>4 DEF BooksInv
  <2>2. p \notin Webs /\ call[p].op \in {"daily", "submit"}
        /\ (call[p].op = "daily" =>
              call[p].at \in {"trade", "match", "readtrades", "writetrades", "save"})
    BY <1>1, <1>4, ConstantsAssumption DEF ShapeOK
  <2>3. CASE LoadState(p)
    <3>1. UNCHANGED <<ledger, state, trades, nav>> /\ call[p].at = "load"
      BY <2>3 DEF LoadState, files
    <3>2. Others(p) /\ SameCall(p) /\ call'[p].at = "trade" /\ call'[p].broker = state
      BY <1>1, <2>3, LoadFields
    <3> QED
      BY <2>1, <2>2, <3>1, <3>2
      DEF Settled, Working, Filling, Holding, Filled, SameCall, Idle, NewCall
  <2>4. CASE Refuse(p)
    BY <1>1, <2>1, <2>2, <2>4, BeginFields
    DEF Refuse, Settled, Working, Filling, Holding, Filled, Idle, NewCall, files
  <2>5. CASE CreateOrder(p)
    <3>1. PICK e \in Events : e.kind = "created" /\ ledger' = Append(ledger, e)
      BY <1>1, <2>5, CreateFields
    <3>2. Filled' = Filled
          /\ UNCHANGED <<state, trades, nav>> /\ call[p].at = "trade"
      BY <1>1, <2>5, <3>1, LedgerGrows DEF CreateOrder
    <3> QED
      BY <1>1, <2>1, <2>2, <2>5, <3>2, CreateFields
      DEF Settled, Working, Filling, Holding, SameCall, Idle, NewCall
  <2>6. CASE Fill(p)
    <3>1. PICK e \in Events : e.kind = "filled" /\ ledger' = Append(ledger, e)
      BY <1>1, <2>6, FillFields
    <3>2. Filled' = Filled \cup {Len(ledger) + 1}
          /\ UNCHANGED <<state, trades, nav>> /\ call[p].at = "match"
      BY <1>1, <2>6, <3>1, LedgerGrows DEF Fill
    <3> QED
      BY <1>1, <2>1, <2>2, <2>6, <3>2, FillFields
      DEF Settled, Working, Filling, Holding, Idle, NewCall
  <2>7. CASE Reject(p)
    <3>1. PICK e \in Events : e.kind = "rejected" /\ ledger' = Append(ledger, e)
      BY <1>1, <2>7, RejectFields
    <3>2. Filled' = Filled
          /\ UNCHANGED <<state, trades, nav>> /\ call[p].at = "match"
      BY <1>1, <2>7, <3>1, LedgerGrows DEF Reject
    <3> QED
      BY <1>1, <2>1, <2>2, <2>7, <3>2, RejectFields
      DEF Settled, Working, Filling, Holding, SameCall, Idle, NewCall
  <2>8. CASE ReadTrades(p)
    <3>1. UNCHANGED <<ledger, state, trades, nav>> /\ call[p].at = "readtrades"
      BY <2>8 DEF ReadTrades, files
    <3> QED
      BY <1>1, <2>1, <2>2, <2>8, <3>1, ReadFields
      DEF Settled, Working, Filling, Holding, Filled, SameCall, Idle, NewCall
  <2>9. CASE WriteTrades(p)
    BY <1>1, <2>1, <2>2, <2>9, BeginFields
    DEF WriteTrades, Settled, Working, Filling, Holding, Filled, Idle, NewCall
  <2>10. CASE AppendNav(p)
    <3> DEFINE step == IF call[p].op = "daily" THEN "save" ELSE "readtrades"
    <3>1. UNCHANGED <<ledger, state, trades>> /\ nav' = call[p].broker.fills
          /\ Go(p, step) /\ step \in Steps
      BY <2>10 DEF AppendNav, Steps
    <3>2. Others(p) /\ SameCall(p) /\ call'[p].at = step
          /\ call'[p].broker = call[p].broker /\ call'[p].read = call[p].read
      BY <1>1, <3>1, GoFields
    <3> QED
      BY <2>1, <2>2, <2>10, <3>1, <3>2
      DEF AppendNav, Settled, Working, Filling, Holding, Filled, SameCall, Idle, NewCall
  <2>11. CASE SaveState(p)
    <3>1. UNCHANGED <<ledger, trades, nav>> /\ state' = call[p].broker /\ call[p].at = "save"
      BY <2>11 DEF SaveState
    <3>2. CASE call[p].op = "daily"
      <4>1. Others(p) /\ call'[p] = Idle
        BY <1>1, <2>11, <3>2, ReturnFields DEF SaveState, Over
      <4> QED
        BY <2>1, <3>1, <3>2, <4>1 DEF Settled, Working, Balanced, Filling, Holding, Filled
    <3>3. CASE call[p].op = "submit"
      <4>1. Go(p, "nav") /\ "nav" \in Steps
        BY <2>11, <3>3 DEF SaveState, Steps
      <4>2. Others(p) /\ SameCall(p) /\ call'[p].at = "nav" /\ call'[p].broker = call[p].broker
        BY <1>1, <4>1, GoFields
      <4> QED
        BY <2>1, <3>1, <3>3, <4>2
        DEF Settled, Working, Filling, Holding, Filled, SameCall, Idle, NewCall
    <3> QED
      BY <2>2, <3>2, <3>3
  <2>12. CASE UpdateStatus(p)
    <3>1. Others(p) /\ call'[p] = Idle
      BY <1>1, <2>12, ReturnFields DEF UpdateStatus, Over
    <3> QED
      BY <2>1, <2>2, <2>12, <3>1 DEF UpdateStatus, Settled, Working, Balanced, Filling, Filled
  <2> QED
    BY <1>1, <1>4, <2>2, <2>3, <2>4, <2>5, <2>6, <2>7, <2>8, <2>9, <2>10, <2>11, <2>12
    DEF ProcStep, OrderStep, FileStep, StartDaily, StartSubmit, Starts, Refresh, WebOrder, Crash
<1> QED
  BY <1>3, <1>4

LEMMA BooksMoves ==
  ASSUME Inv, Inv', SoloInv, BooksInv, Next
  PROVE  BooksInv'
<1> SUFFICES ASSUME faults' = {} PROVE BooksInv'
  BY DEF BooksInv
<1>1. PICK p \in All : ProcStep(p)
  BY DEF Next, All
<1>2. TypeOK /\ ShapeOK /\ ShapeOK' /\ faults = {}
  BY <1>1, FaultsStay DEF Inv
<1>3. CASE p \in Procs
  <2>1. Settled(p) /\ Others(p)
    BY <1>1, <1>3, BooksStep
  <2>2. \A q \in Procs : q # p => call'[q] = Idle
    BY <1>1, <1>2, <1>3, <2>1, OthersIdle DEF Others, All
  <2>3. \A w \in Webs : call'[w].at = "idle"
    BY <1>2, <1>3, <2>1, ConstantsAssumption DEF Others, All, BooksInv
  <2>4. Quiet' => call'[p] = Idle
    BY <1>2, <1>3 DEF Quiet, ShapeOK, Steps
  <2> QED
    BY <1>3, <2>1, <2>2, <2>3, <2>4 DEF BooksInv, Settled
<1>4. CASE p \in Webs
  <2>1. call[p].at = "idle"
    BY <1>2, <1>4 DEF BooksInv
  <2>2. Refresh(p)
    BY <1>1, <1>2, <1>4, <2>1, ConstantsAssumption
    DEF ProcStep, OrderStep, FileStep, StartDaily, StartSubmit, Starts, LoadState, WebOrder,
        Refuse, CreateOrder, Fill, Reject, ReadTrades, WriteTrades, AppendNav, SaveState,
        UpdateStatus, Crash
  <2>3. Others(p) /\ call'[p].at = "idle" /\ UNCHANGED <<files, faults>>
    BY <1>1, <1>2, <2>2, BeginFields DEF Refresh
  <2>4. \A q \in Procs : call'[q] = call[q]
    BY <1>4, <2>3, ConstantsAssumption DEF Others, All
  <2>5. \A w \in Webs : call'[w].at = "idle"
    BY <1>2, <2>3 DEF Others, All, BooksInv
  <2> QED
    BY <1>2, <2>3, <2>4, <2>5
    DEF BooksInv, Working, Balanced, Quiet, Filling, Holding, Filled, files
<1> QED
  BY <1>1, <1>3, <1>4 DEF All

LEMMA BooksHolds == Spec => []BooksInv
<1>1. Init => BooksInv
  BY ConstantsAssumption
  DEF Init, BooksInv, Working, Balanced, Filled, Blank, Idle, NewCall
<1>2. Inv /\ BooksInv /\ UNCHANGED vars => BooksInv'
  BY DEF BooksInv, Working, Balanced, Quiet, Filling, Holding, Filled, vars, files
<1>3. Inv /\ Inv' /\ SoloInv /\ BooksInv /\ [Next]_vars => BooksInv'
  BY <1>2, BooksMoves
<1> QED
  BY <1>1, <1>3, InvHolds, SoloHolds, PTL DEF Spec

\* Daily executions and submissions that neither overlap nor die, with no order
\* of the web server, leave ledger, account, trades and NAV row in agreement:
\* save_state, append_nav and append_trade write the same fills in either order.
THEOREM BooksAgreed == Spec => []BooksAgree
<1>1. BooksInv => BooksAgree
  BY DEF BooksInv, BooksAgree, Balanced
<1> QED
  BY <1>1, BooksHolds, PTL

-----------------------------------------------------------------------------
(* The same calls: no two filled orders share an id.                        *)

Numbers(n) == \A i \in Filled : ledger[i].order <= n

\* The counter a call holds, or the file that it has not to write, is at or above
\* the id of every filled order; the order of a match has an id of its own.
Numbered(p) ==
  /\ call[p].at \in Holding => Numbers(call[p].broker.counter)
  /\ call[p].at = "match" => \A i \in Filled : ledger[i].order < call[p].broker.counter
  /\ call[p].op = "submit" /\ call[p].at # "save" => Numbers(state.counter)

IdsInv ==
  /\ FilledIdsUnique
  /\ faults = {} =>
       /\ \A p \in Procs : call[p] # Idle => Numbered(p)
       /\ Quiet => Numbers(state.counter)

NumberedNext(p) == IF call'[p] = Idle THEN Numbers(state.counter)' ELSE Numbered(p)'

\* A filled order keeps its id, and an event that is no fill adds none.
LEMMA NumbersStay ==
  ASSUME TypeOK, NEW e \in Events, ledger' = Append(ledger, e), e.kind # "filled"
  PROVE  /\ Filled' = Filled
         /\ \A i \in Filled : ledger'[i].order = ledger[i].order
  BY LedgerGrows

LEMMA Orders == ASSUME TypeOK PROVE \A i \in Filled : ledger[i].order \in Nat
<1>1. \A i \in Filled : ledger[i] \in Events
  BY ElementOfSeq, LenProperties DEF TypeOK, Filled
<1> QED
  BY <1>1 DEF Events

\* All that the steps of a call do to the ids, but those that add to the ledger.
LEMMA NumberedGoes ==
  ASSUME TypeOK, NEW p \in Procs, Numbered(p), UNCHANGED ledger,
         call'[p].op = call[p].op,
         call'[p].at \in Holding =>
            \/ call[p].at \in Holding /\ call'[p].broker = call[p].broker
            \/ call[p].op = "submit" /\ call[p].at # "save" /\ call'[p].broker = state,
         call'[p].at = "match" => FALSE,
         call'[p].op = "submit" /\ call'[p].at # "save" =>
            \/ call[p].at # "save" /\ state' = state
            \/ call[p].at \in Holding /\ state' = call[p].broker
  PROVE  Numbered(p)'
  BY DEF Numbered, Numbers, Filled, Holding

LEMMA IdsStep ==
  ASSUME Inv, SoloInv, BooksInv, IdsInv, NEW p \in Procs, ProcStep(p), faults' = {}
  PROVE  NumberedNext(p) /\ FilledIdsUnique'
<1>1. TypeOK /\ ShapeOK /\ faults = {} /\ p \in All /\ FilledIdsUnique
  BY FaultsStay DEF Inv, All, IdsInv
<1>2. \A q \in Procs : q # p => call[q] = Idle
  BY OthersIdle
<1>3. ASSUME UNCHANGED ledger PROVE FilledIdsUnique'
  BY <1>1, <1>3 DEF FilledIdsUnique, Filled
<1>4. CASE call[p] = Idle
  <2>1. Quiet
    BY <1>2, <1>4 DEF Quiet, Idle, NewCall
  <2>2. Numbers(state.counter)
    BY <1>1, <2>1 DEF IdsInv
  <2>3. CASE StartDaily(p)
    BY <1>1, <1>3, <2>2, <2>3, BeginFields
    DEF StartDaily, NumberedNext, Numbered, Numbers, Filled, Idle, NewCall, files
  <2>4. CASE \E a \in Actions : StartSubmit(p, a)
    BY <1>1, <1>3, <2>2, <2>4, BeginFields
    DEF StartSubmit, NumberedNext, Numbered, Numbers, Filled, Holding, Idle, NewCall, files
  <2> QED
    BY <1>1, <1>4, <2>3, <2>4, ConstantsAssumption
    DEF ProcStep, OrderStep, FileStep, LoadState, Refresh, WebOrder, Refuse, CreateOrder,
        Fill, Reject, ReadTrades, WriteTrades, AppendNav, SaveState, UpdateStatus, Crash,
        Idle, NewCall
<1>5. CASE call[p] # Idle
  <2>1. Numbered(p)
    BY <1>1, <1>5 DEF IdsInv
  <2>2. p \notin Webs /\ call[p].op \in {"daily", "submit"}
        /\ (call[p].op = "daily" =>
              call[p].at \in {"trade", "match", "readtrades", "writetrades", "save"})
    BY <1>1, <1>5, ConstantsAssumption DEF ShapeOK
  <2>3. CASE LoadState(p)
    <3>1. UNCHANGED <<ledger, state>> /\ call[p].at = "load"
      BY <2>3 DEF LoadState, files
    <3>2. SameCall(p) /\ call'[p].at = "trade" /\ call'[p].broker = state
      BY <1>1, <2>3, LoadFields
    <3> QED
      BY <1>1, <1>3, <2>1, <2>2, <3>1, <3>2, NumberedGoes
      DEF NumberedNext, SameCall, Idle, NewCall
  <2>4. CASE Refuse(p)
    <3>1. UNCHANGED <<ledger, state>> /\ call[p].at = "trade" /\ call[p].op = "submit"
      BY <2>2, <2>4 DEF Refuse, files
    <3>2. call'[p].at \in {"fail", "block"} /\ call'[p].op = "submit"
      BY <1>1, <2>2, <2>4, BeginFields DEF Refuse
    <3> QED
      BY <1>1, <1>3, <2>1, <3>1, <3>2, NumberedGoes DEF NumberedNext, Idle, NewCall, Holding
  <2>5. CASE CreateOrder(p)
    <3>1. PICK e \in Events : e.kind = "created" /\ ledger' = Append(ledger, e)
      BY <1>1, <2>5, CreateFields
    <3>2. Filled' = Filled /\ \A i \in Filled : ledger'[i].order = ledger[i].order
      BY <1>1, <3>1, NumbersStay
    <3>3. UNCHANGED <<state, faults>> /\ call[p].at = "trade"
      BY <2>5 DEF CreateOrder
    <3>4. SameCall(p) /\ call'[p].at = "match"
          /\ call'[p].broker.counter = call[p].broker.counter + 1
      BY <1>1, <2>5, CreateFields
    <3>5. call[p].broker.counter \in Nat
      BY <1>1 DEF TypeOK, Calls, All
    <3>6. Numbered(p)'
      BY <1>1, <2>1, <3>2, <3>3, <3>4, <3>5, Orders DEF Numbered, Numbers, Holding, SameCall
    <3> QED
      BY <1>1, <3>2, <3>4, <3>6 DEF NumberedNext, FilledIdsUnique, Idle, NewCall
  <2>6. CASE Fill(p)
    <3>1. PICK e \in Events : e.kind = "filled" /\ e.order = call[p].broker.counter
                              /\ ledger' = Append(ledger, e)
      BY <1>1, <2>6, FillFields
    <3>2. Filled' = Filled \cup {Len(ledger) + 1} /\ ledger'[Len(ledger) + 1] = e
          /\ \A i \in Filled : ledger'[i] = ledger[i]
      BY <1>1, <3>1, LedgerGrows
    <3>3. call[p].at = "match" /\ call'[p].op = call[p].op
          /\ call'[p].broker.counter = call[p].broker.counter
          /\ call'[p].at = IF call[p].op = "daily" THEN "readtrades" ELSE "save"
      BY <1>1, <2>6, FillFields DEF Fill
    <3>4. \A i \in Filled : ledger[i].order < e.order
      BY <2>1, <3>1, <3>3 DEF Numbered
    <3>5. e.order \in Nat /\ \A i \in Filled : ledger[i].order \in Nat
      BY <1>1, Orders DEF Events
    <3>6. FilledIdsUnique'
      BY <1>1, <3>2, <3>4, <3>5 DEF FilledIdsUnique
    <3>7. Numbered(p)'
      <4>1. ASSUME NEW i \in Filled' PROVE ledger'[i].order <= call[p].broker.counter
        <5>1. CASE i \in Filled
          <6>1. ledger'[i] = ledger[i]
            BY <3>2, <5>1
          <6>2. ledger[i].order < e.order /\ e.order \in Nat /\ ledger[i].order \in Nat
            BY <3>4, <3>5, <5>1
          <6>3. ledger[i].order <= e.order
            BY <6>2
          <6> QED
            BY <3>1, <6>1, <6>3
        <5>2. CASE i = Len(ledger) + 1
          BY <3>1, <3>2, <3>5, <5>2
        <5> QED
          BY <3>2, <5>1, <5>2
      <4>2. Numbers(call[p].broker.counter)'
        BY <3>3, <4>1 DEF Numbers
      <4> QED
        BY <2>2, <3>3, <4>2 DEF Numbered
    <3> QED
      BY <3>3, <3>6, <3>7 DEF NumberedNext, Idle, NewCall
  <2>7. CASE Reject(p)
    <3>1. PICK e \in Events : e.kind = "rejected" /\ ledger' = Append(ledger, e)
      BY <1>1, <2>7, RejectFields
    <3>2. Filled' = Filled /\ \A i \in Filled : ledger'[i].order = ledger[i].order
      BY <1>1, <3>1, NumbersStay
    <3>3. UNCHANGED <<state, faults>> /\ call[p].at = "match"
      BY <2>7 DEF Reject
    <3>4. SameCall(p) /\ call'[p].broker = call[p].broker
          /\ call'[p].at = IF call[p].op = "daily" THEN "trade" ELSE "fail"
      BY <1>1, <2>7, RejectFields
    <3>5. Numbered(p)'
      BY <2>1, <2>2, <3>2, <3>3, <3>4 DEF Numbered, Numbers, Holding, SameCall
    <3> QED
      BY <1>1, <3>2, <3>4, <3>5 DEF NumberedNext, FilledIdsUnique, Idle, NewCall
  <2>8. CASE ReadTrades(p)
    <3>1. UNCHANGED <<ledger, state>> /\ call[p].at = "readtrades"
      BY <2>8 DEF ReadTrades, files
    <3>2. SameCall(p) /\ call'[p].at = "writetrades" /\ call'[p].broker = call[p].broker
      BY <1>1, <2>8, ReadFields
    <3> QED
      BY <1>1, <1>3, <2>1, <3>1, <3>2, NumberedGoes
      DEF NumberedNext, SameCall, Idle, NewCall, Holding
  <2>9. CASE WriteTrades(p)
    <3>1. UNCHANGED <<ledger, state>> /\ call[p].at = "writetrades"
      BY <2>9 DEF WriteTrades
    <3>2. call'[p].op = call[p].op
          /\ call'[p].at = (IF call[p].op = "daily" THEN "trade" ELSE "succeed")
          /\ call'[p].broker = (IF call[p].op = "daily" THEN call[p].broker ELSE Blank)
      BY <1>1, <2>9, BeginFields DEF WriteTrades
    <3> QED
      BY <1>1, <1>3, <2>1, <2>2, <3>1, <3>2, NumberedGoes
      DEF NumberedNext, Idle, NewCall, Holding
  <2>10. CASE AppendNav(p)
    <3> DEFINE step == IF call[p].op = "daily" THEN "save" ELSE "readtrades"
    <3>1. UNCHANGED <<ledger, state>> /\ Go(p, step) /\ step \in Steps
          /\ call[p].at = IF call[p].op = "daily" THEN "trade" ELSE "nav"
      BY <2>10 DEF AppendNav, Steps
    <3>2. SameCall(p) /\ call'[p].at = step /\ call'[p].broker = call[p].broker
      BY <1>1, <3>1, GoFields
    <3> QED
      BY <1>1, <1>3, <2>1, <2>2, <3>1, <3>2, NumberedGoes
      DEF NumberedNext, SameCall, Idle, NewCall, Holding
  <2>11. CASE SaveState(p)
    <3>1. UNCHANGED ledger /\ state' = call[p].broker /\ call[p].at = "save"
      BY <2>11 DEF SaveState
    <3>2. CASE call[p].op = "daily"
      <4>1. call'[p] = Idle
        BY <1>1, <2>11, <3>2, ReturnFields DEF SaveState, Over
      <4> QED
        BY <1>3, <2>1, <3>1, <4>1 DEF NumberedNext, Numbered, Numbers, Filled, Holding
    <3>3. CASE call[p].op = "submit"
      <4>1. Go(p, "nav") /\ "nav" \in Steps
        BY <2>11, <3>3 DEF SaveState, Steps
      <4>2. SameCall(p) /\ call'[p].at = "nav" /\ call'[p].broker = call[p].broker
        BY <1>1, <4>1, GoFields
      <4> QED
        BY <1>1, <1>3, <2>1, <3>1, <3>3, <4>2, NumberedGoes
        DEF NumberedNext, SameCall, Idle, NewCall, Holding
    <3> QED
      BY <2>2, <3>2, <3>3
  <2>12. CASE UpdateStatus(p)
    <3>1. call'[p] = Idle /\ UNCHANGED <<ledger, state>>
      BY <1>1, <2>12, ReturnFields DEF UpdateStatus, Over
    <3> QED
      BY <1>3, <2>1, <2>2, <2>12, <3>1 DEF UpdateStatus, NumberedNext, Numbered, Numbers, Filled
  <2> QED
    BY <1>1, <1>5, <2>2, <2>3, <2>4, <2>5, <2>6, <2>7, <2>8, <2>9, <2>10, <2>11, <2>12
    DEF ProcStep, OrderStep, FileStep, StartDaily, StartSubmit, Starts, Refresh, WebOrder, Crash
<1> QED
  BY <1>4, <1>5

LEMMA IdsMoves ==
  ASSUME Inv, Inv', SoloInv, BooksInv, IdsInv, Next
  PROVE  IdsInv'
<1>1. PICK p \in All : ProcStep(p)
  BY DEF Next, All
<1>2. CASE faults' # {}
  BY <1>2 DEF IdsInv, FilledIdsUnique
<1>3. CASE faults' = {} /\ p \in Procs
  <2>1. NumberedNext(p) /\ FilledIdsUnique'
    BY <1>1, <1>3, IdsStep
  <2>2. Others(p)
    BY <1>1, <1>3, BooksStep
  <2>3. \A q \in Procs : q # p => call'[q] = Idle
    BY <1>1, <1>3, <2>2, OthersIdle DEF Others, All
  <2>4. Quiet' => call'[p] = Idle
    BY <1>3 DEF Quiet, Inv, ShapeOK, Steps
  <2> QED
    BY <1>3, <2>1, <2>3, <2>4 DEF IdsInv, NumberedNext
<1>4. CASE faults' = {} /\ p \in Webs
  <2>1. faults = {} /\ TypeOK
    BY <1>1, <1>4, FaultsStay DEF Inv
  <2>2. call[p].at = "idle"
    BY <1>4, <2>1 DEF BooksInv
  <2>3. Refresh(p)
    BY <1>1, <1>4, <2>2, ConstantsAssumption
    DEF ProcStep, OrderStep, FileStep, StartDaily, StartSubmit, Starts, LoadState, WebOrder,
        Refuse, CreateOrder, Fill, Reject, ReadTrades, WriteTrades, AppendNav, SaveState,
        UpdateStatus, Crash
  <2>4. Others(p) /\ UNCHANGED <<files, faults>>
    BY <1>1, <2>1, <2>3, BeginFields DEF Refresh
  <2>5. \A q \in Procs : call'[q] = call[q]
    BY <1>4, <2>4, ConstantsAssumption DEF Others, All
  <2> QED
    BY <2>1, <2>4, <2>5 DEF IdsInv, FilledIdsUnique, Numbered, Numbers, Quiet, Filled, files
<1> QED
  BY <1>1, <1>2, <1>3, <1>4 DEF All

\* Daily executions and submissions that neither overlap nor die, with no order
\* of the web server, give no two filled orders the same id, although the id of
\* a rejected submission is given out again (_create_pending_order, save_state).
THEOREM IdsAreUnique == Spec => []FilledIdsUnique
<1>1. Init => IdsInv
  BY DEF Init, IdsInv, FilledIdsUnique, Numbered, Numbers, Filled
<1>2. Inv /\ IdsInv /\ UNCHANGED vars => IdsInv'
  BY DEF IdsInv, FilledIdsUnique, Numbered, Numbers, Quiet, Filled, vars, files
<1>3. Inv /\ Inv' /\ SoloInv /\ BooksInv /\ IdsInv /\ [Next]_vars => IdsInv'
  BY <1>2, IdsMoves
<1>4. IdsInv => FilledIdsUnique
  BY DEF IdsInv
<1> QED
  BY <1>1, <1>3, <1>4, InvHolds, SoloHolds, BooksHolds, PTL DEF Spec

-----------------------------------------------------------------------------
(* Calls that neither overlap nor die, whatever the web server trades: an    *)
(* approval is filled once.                                                  *)

\* Only a submission is about an action.
Acting(p) == call[p].op \in {"none", "daily", "web"} => call[p].act = NoAction

\* The steps of a submission that come before its fill.
Before == {"load", "trade", "match"}

\* p is submitting action a.
Submits(p, a) == call[p].op = "submit" /\ call[p].act = a

OnceInv ==
  /\ \A p \in All : Acting(p)
  /\ faults \subseteq {"web"} =>
       /\ \A a \in Actions : \A i, j \in FillsOf(a) : i = j
       /\ \A p \in Procs, a \in Actions :
            Submits(p, a) /\ call[p].at \in Before => FillsOf(a) = {}
       /\ \A a \in Actions :
            row[a] = "approved" => FillsOf(a) = {} \/ \E p \in Procs : Submits(p, a)

\* What a step of p does to a call of a submission, and to the rows.
Begins(p) ==
  /\ call[p] = Idle /\ row' = row
  /\ \A a \in Actions : Submits(p, a)' => row[a] = "approved"

GoesOn(p) ==
  /\ row' = row /\ call'[p].op = call[p].op /\ call'[p].act = call[p].act
  /\ call[p].op = "submit" /\ call'[p].at \in Before => call[p].at \in Before

Ends(p) ==
  /\ call'[p] = Idle
  /\ \A a \in Actions : row'[a] = "approved" => row[a] = "approved" /\ ~Submits(p, a)

LEMMA FillsUnchanged ==
  ASSUME TypeOK, UNCHANGED ledger \/ \E e \in Events : e.kind # "filled"
                                                        /\ ledger' = Append(ledger, e)
  PROVE  \A a : FillsOf(a)' = FillsOf(a)
<1>1. Filled' = Filled /\ \A i \in Filled : ledger'[i] = ledger[i]
  <2>1. CASE UNCHANGED ledger
    BY <2>1 DEF Filled
  <2>2. CASE \E e \in Events : e.kind # "filled" /\ ledger' = Append(ledger, e)
    BY <2>2, LedgerGrows
  <2> QED
    BY <2>1, <2>2
<1> QED
  BY <1>1 DEF FillsOf

LEMMA FillsAdded ==
  ASSUME TypeOK, NEW e \in Events, e.kind = "filled", ledger' = Append(ledger, e)
  PROVE  \A a : FillsOf(a)' = IF a = e.act THEN FillsOf(a) \cup {Len(ledger) + 1} ELSE FillsOf(a)
<1>1. Filled' = Filled \cup {Len(ledger) + 1} /\ ledger'[Len(ledger) + 1] = e
      /\ (\A i \in Filled : ledger'[i] = ledger[i])
  BY LedgerGrows
<1> QED
  BY <1>1 DEF FillsOf

\* What a step of p does, to its call, the rows and the fills.
LEMMA OnceStep ==
  ASSUME TypeOK, ShapeOK, NEW p \in All, ProcStep(p), Acting(p), ~Crash(p)
  PROVE  /\ Others(p) /\ Acting(p)'
         /\ p \in Procs => Begins(p) \/ GoesOn(p) \/ Ends(p)
         /\ p \in Webs => row' = row
         /\ \/ Fill(p)
            \/ \A a : FillsOf(a)' = FillsOf(a)
<1>1. p \in Webs <=> call[p].op = "web"
  BY ConstantsAssumption DEF ShapeOK, All, Idle, NewCall
<1>2. ASSUME UNCHANGED ledger PROVE \A a : FillsOf(a)' = FillsOf(a)
  BY <1>2, FillsUnchanged
<1>3. CASE StartDaily(p)
  BY <1>2, <1>3, BeginFields, ConstantsAssumption
  DEF StartDaily, Starts, Acting, Begins, Submits, files
<1>4. CASE \E a \in Actions : StartSubmit(p, a)
  BY <1>2, <1>4, BeginFields, ConstantsAssumption
  DEF StartSubmit, Starts, Acting, Begins, Submits, files
<1>5. CASE LoadState(p)
  <2>1. Others(p) /\ SameCall(p) /\ call'[p].at = "trade"
    BY <1>5, LoadFields
  <2> QED
    BY <1>1, <1>2, <1>5, <2>1 DEF LoadState, ShapeOK, SameCall, Acting, GoesOn, Before, files
<1>6. CASE Refresh(p)
  BY <1>2, <1>6, BeginFields, ConstantsAssumption DEF Refresh, Acting, files
<1>7. CASE WebOrder(p)
  <2>1. Others(p) /\ SameCall(p)
    BY <1>7, GoFields DEF WebOrder, Steps
  <2> QED
    BY <1>2, <1>7, <2>1, ConstantsAssumption DEF WebOrder, SameCall, Acting, files
<1>8. CASE Refuse(p)
  <2>1. CASE call[p].op = "web"
    <3>1. Others(p) /\ Over(p)
      BY <1>8, <2>1, ReturnFields DEF Refuse
    <3> QED
      BY <1>1, <1>2, <1>8, <2>1, <3>1, ConstantsAssumption DEF Refuse, Over, Acting, files
  <2>2. CASE call[p].op # "web"
    <3>1. PICK step \in {"fail", "block"} : Become(p, NewCall("submit", call[p].act, step, Blank))
      BY <1>8, <2>2 DEF Refuse
    <3>2. Others(p) /\ call'[p].op = "submit" /\ call'[p].at = step /\ call'[p].act = call[p].act
      BY <3>1, BeginFields
    <3>3. call[p].op = "submit"
      BY <1>8, <2>2 DEF Refuse, ShapeOK, All, Idle, NewCall
    <3> QED
      BY <1>1, <1>2, <1>8, <2>2, <3>2, <3>3 DEF Refuse, Acting, GoesOn, Before, files
  <2> QED
    BY <2>1, <2>2
<1>9. CASE CreateOrder(p)
  <2>1. Others(p) /\ SameCall(p) /\ row' = row /\ call[p].at = "trade"
    BY <1>9, CreateFields DEF CreateOrder
  <2>2. \A a : FillsOf(a)' = FillsOf(a)
    <3>1. PICK e \in Events : e.kind = "created" /\ ledger' = Append(ledger, e)
      BY <1>9, CreateFields
    <3> QED
      BY <3>1, FillsUnchanged
  <2> QED
    BY <2>1, <2>2 DEF SameCall, Acting, GoesOn, Before
<1>10. CASE Fill(p)
  <2>1. Others(p) /\ row' = row /\ call'[p].op = call[p].op
    BY <1>10, FillFields DEF Fill
  <2>2. p \in Webs => call'[p].act = NoAction
    BY <1>10, FillFields
  <2>3. p \in Procs => call'[p].act = call[p].act /\ call'[p].at \notin Before
    BY <1>10, FillFields DEF Before
  <2> QED
    BY <1>10, <2>1, <2>2, <2>3 DEF Acting, GoesOn, All
<1>11. CASE Reject(p)
  <2>1. Others(p) /\ row' = row
    BY <1>11, RejectFields DEF Reject
  <2>2. \A a : FillsOf(a)' = FillsOf(a)
    <3>1. PICK e \in Events : e.kind = "rejected" /\ ledger' = Append(ledger, e)
      BY <1>11, RejectFields
    <3> QED
      BY <3>1, FillsUnchanged
  <2>3. p \in Webs => Acting(p)'
    BY <1>11, RejectFields DEF Over, Acting
  <2>4. p \in Procs => SameCall(p) /\ call'[p].at = IF call[p].op = "daily" THEN "trade" ELSE "fail"
    BY <1>11, RejectFields
  <2> QED
    BY <2>1, <2>2, <2>3, <2>4 DEF SameCall, Acting, GoesOn, Before, All
<1>12. CASE ReadTrades(p)
  <2>1. Others(p) /\ SameCall(p) /\ call'[p].at = "writetrades"
    BY <1>12, ReadFields
  <2> QED
    BY <1>2, <1>12, <2>1 DEF ReadTrades, SameCall, Acting, GoesOn, Before, files
<1>13. CASE WriteTrades(p)
  <2>1. Others(p) /\ call'[p].op = call[p].op /\ call'[p].act = call[p].act
        /\ call'[p].at = IF call[p].op = "daily" THEN "trade" ELSE "succeed"
    BY <1>13, BeginFields DEF WriteTrades
  <2> QED
    BY <1>2, <1>13, <2>1 DEF WriteTrades, Acting, GoesOn, Before
<1>14. CASE AppendNav(p)
  <2> DEFINE step == IF call[p].op = "daily" THEN "save" ELSE "readtrades"
  <2>1. Go(p, step) /\ step \in Steps /\ row' = row /\ ledger' = ledger
    BY <1>14 DEF AppendNav, Steps
  <2>2. Others(p) /\ SameCall(p) /\ call'[p].at = step
    BY <2>1, GoFields
  <2> QED
    BY <1>2, <2>1, <2>2 DEF SameCall, Acting, GoesOn, Before
<1>15. CASE SaveState(p)
  <2>1. row' = row /\ ledger' = ledger /\ p \in Procs
    BY <1>15 DEF SaveState, ShapeOK, All
  <2>2. CASE call[p].op = "daily"
    <3>1. Others(p) /\ call'[p] = Idle
      BY <1>15, <2>1, <2>2, ReturnFields DEF SaveState, Over
    <3>2. Acting(p)' /\ Ends(p)
      BY <2>1, <2>2, <3>1 DEF Acting, Ends, Submits, Idle, NewCall
    <3> QED
      BY <1>2, <2>1, <3>1, <3>2
  <2>3. CASE call[p].op # "daily"
    <3>1. Others(p) /\ SameCall(p) /\ call'[p].at = "nav"
      BY <1>15, <2>3, GoFields DEF SaveState, Steps
    <3> QED
      BY <1>2, <2>1, <3>1 DEF SameCall, Acting, GoesOn, Before
  <2> QED
    BY <2>2, <2>3
<1>16. CASE UpdateStatus(p)
  <2>1. Others(p) /\ p \in Procs /\ call'[p] = Idle /\ ledger' = ledger
    BY <1>16, ReturnFields DEF UpdateStatus, ShapeOK, All, Over
  <2>2. \A a \in Actions : row'[a] = "approved" => row[a] = "approved" /\ a # call[p].act
    BY <1>16 DEF UpdateStatus, TypeOK
  <2>3. Acting(p)' /\ Ends(p)
    BY <2>1, <2>2 DEF Acting, Ends, Submits, Idle, NewCall
  <2>4. p \notin Webs
    BY <2>1, ConstantsAssumption
  <2> QED
    BY <1>2, <2>1, <2>3, <2>4
<1> QED
  BY <1>3, <1>4, <1>5, <1>6, <1>7, <1>8, <1>9, <1>10, <1>11, <1>12, <1>13, <1>14,
     <1>15, <1>16 DEF ProcStep, OrderStep, FileStep

LEMMA OnceMoves ==
  ASSUME Inv, Inv', SoloInv, OnceInv, Next
  PROVE  OnceInv'
<1>1. PICK p \in All : ProcStep(p)
  BY DEF Next, All
<1>2. TypeOK /\ ShapeOK /\ Acting(p)
  BY DEF Inv, OnceInv
<1>3. CASE Crash(p)
  <2>1. Others(p) /\ Acting(p)'
    BY <1>2, <1>3, CrashFields DEF Acting, Idle, NewCall, All
  <2>2. ~(faults' \subseteq {"web"})
    BY <1>3 DEF Crash
  <2> QED
    BY <2>1, <2>2 DEF OnceInv, Others, Acting
<1>4. CASE ~Crash(p)
  <2>1. Others(p) /\ Acting(p)' /\ (p \in Webs => row' = row)
        /\ (p \in Procs => Begins(p) \/ GoesOn(p) \/ Ends(p))
        /\ (Fill(p) \/ \A a : FillsOf(a)' = FillsOf(a))
    BY <1>1, <1>2, <1>4, OnceStep
  <2>2. \A q \in All : Acting(q)'
    BY <2>1 DEF OnceInv, Others, Acting
  <2>3. ASSUME faults' \subseteq {"web"}
        PROVE  /\ \A a \in Actions : \A i, j \in FillsOf(a)' : i = j
               /\ \A q \in Procs, a \in Actions :
                    Submits(q, a)' /\ call'[q].at \in Before => FillsOf(a)' = {}
               /\ \A a \in Actions :
                    row'[a] = "approved" => FillsOf(a)' = {} \/ \E q \in Procs : Submits(q, a)'
    <3>1. faults \subseteq {"web"} /\ "overlap" \notin faults'
      BY <1>1, <2>3, FaultsStay
    <3>2. /\ \A a \in Actions : \A i, j \in FillsOf(a) : i = j
          /\ \A q \in Procs, a \in Actions :
               Submits(q, a) /\ call[q].at \in Before => FillsOf(a) = {}
          /\ \A a \in Actions :
               row[a] = "approved" => FillsOf(a) = {} \/ \E q \in Procs : Submits(q, a)
      BY <3>1 DEF OnceInv
    <3>3. p \in Procs => \A q \in Procs : q # p => call[q] = Idle /\ call'[q] = Idle
      BY <1>1, <2>1, <3>1, OthersIdle DEF Others, All
    <3>4. \A q \in Procs : q # p => call'[q] = call[q]
      BY <2>1 DEF Others, All
    <3>5. \A a \in Actions : ~Submits(p, a) => \A q \in Procs : Submits(q, a) => q # p
      OBVIOUS
    <3>6. CASE \A a : FillsOf(a)' = FillsOf(a)
      <4>1. CASE p \in Webs
        <5>1. \A q \in Procs : call'[q] = call[q]
          BY <3>4, <4>1, ConstantsAssumption
        <5> QED
          BY <2>1, <3>2, <3>6, <4>1, <5>1 DEF Submits
      <4>2. CASE p \in Procs /\ Begins(p)
        <5>1. \A q \in Procs, a \in Actions : ~Submits(q, a)
          BY <3>3, <4>2 DEF Begins, Submits, Idle, NewCall
        <5>2. \A q \in Procs, a \in Actions : Submits(q, a)' => row[a] = "approved"
          BY <3>3, <4>2 DEF Begins, Submits, Idle, NewCall
        <5> QED
          BY <3>2, <3>6, <4>2, <5>1, <5>2 DEF Begins
      <4>3. CASE p \in Procs /\ GoesOn(p)
        <5>1. \A q \in Procs, a \in Actions : Submits(q, a)' <=> Submits(q, a)
          BY <3>4, <4>3 DEF GoesOn, Submits
        <5>2. \A q \in Procs, a \in Actions :
                Submits(q, a) /\ call'[q].at \in Before => call[q].at \in Before
          BY <3>4, <4>3 DEF GoesOn, Submits
        <5> QED
          BY <3>2, <3>6, <4>3, <5>1, <5>2 DEF GoesOn
      <4>4. CASE p \in Procs /\ Ends(p)
        <5>1. \A q \in Procs, a \in Actions : ~Submits(q, a)'
          BY <3>3, <4>4 DEF Ends, Submits, Idle, NewCall
        <5>2. \A q \in Procs, a \in Actions : q # p => ~Submits(q, a)
          BY <3>3, <4>4 DEF Submits, Idle, NewCall
        <5> QED
          BY <3>2, <3>6, <4>4, <5>1, <5>2 DEF Ends
      <4> QED
        BY <2>1, <4>1, <4>2, <4>3, <4>4 DEF All
    <3>7. CASE Fill(p)
      <4>1. PICK e \in Events : e.kind = "filled" /\ e.act = call[p].act
                                /\ ledger' = Append(ledger, e)
        BY <1>2, <3>7, FillFields
      <4>2. \A a : FillsOf(a)' = IF a = e.act THEN FillsOf(a) \cup {Len(ledger) + 1}
                                             ELSE FillsOf(a)
        BY <1>2, <4>1, FillsAdded
      <4>3. row' = row /\ call[p].at = "match"
        BY <3>7 DEF Fill
      <4>4. CASE call[p].op # "submit"
        <5>1. e.act = NoAction
          BY <1>2, <4>1, <4>4 DEF Acting, TypeOK, Calls, All
        <5>2. \A a \in Actions : FillsOf(a)' = FillsOf(a)
          BY <4>2, <5>1, ConstantsAssumption
        <5>3. \A q \in Procs, a \in Actions : Submits(q, a)' <=> Submits(q, a)
          BY <1>2, <3>4, <3>7, <4>4, FillFields DEF Submits
        <5>4. \A q \in Procs, a \in Actions : Submits(q, a) => call'[q] = call[q]
          BY <3>4, <4>4 DEF Submits
        <5> QED
          BY <3>2, <4>3, <5>2, <5>3, <5>4
      <4>5. CASE call[p].op = "submit"
        <5>1. p \in Procs /\ Submits(p, e.act)
          BY <1>2, <4>1, <4>5 DEF ShapeOK, All, Submits
        <5>2. Submits(p, e.act)' /\ call'[p].at \notin Before
          BY <1>2, <3>7, <4>1, <4>5, <5>1, FillFields DEF Submits, Before
        <5>3. e.act \in Actions => FillsOf(e.act) = {}
          BY <3>2, <4>3, <5>1 DEF Before
        <5>4. \A q \in Procs, a \in Actions : q # p => ~Submits(q, a)'
          BY <3>3, <5>1 DEF Submits, Idle, NewCall
        <5>5. \A q \in Procs, a \in Actions : Submits(q, a) => a = e.act
          BY <3>3, <4>1, <5>1 DEF Submits, Idle, NewCall
        <5> QED
          BY <3>2, <4>2, <4>3, <5>1, <5>2, <5>3, <5>4, <5>5
      <4> QED
        BY <4>4, <4>5
    <3> QED
      BY <2>1, <3>6, <3>7
  <2> QED
    BY <2>2, <2>3 DEF OnceInv
<1> QED
  BY <1>3, <1>4

\* While no two calls overlap and none dies, submit_paper_order_action fills the
\* order of an approved action at most once: a filled submission leaves its row
\* in a status that no later one accepts.
THEOREM ApprovalsFillOnce == Spec => []OneFillPerApproval
<1>1. Init => OnceInv
  BY ConstantsAssumption
  DEF Init, OnceInv, Acting, Submits, Before, FillsOf, Filled, Idle, NewCall, All
<1>2. Inv /\ OnceInv /\ UNCHANGED vars => OnceInv'
  BY DEF OnceInv, Acting, Submits, FillsOf, Filled, vars, files
<1>3. Inv /\ Inv' /\ SoloInv /\ OnceInv /\ [Next]_vars => OnceInv'
  BY <1>2, OnceMoves
<1>4. OnceInv => OneFillPerApproval
  <2> SUFFICES ASSUME OnceInv, faults \subseteq {"web"}, NEW a \in Actions
               PROVE  Cardinality(FillsOf(a)) <= 1
    BY DEF OneFillPerApproval
  <2>1. \A i, j \in FillsOf(a) : i = j
    BY DEF OnceInv
  <2>2. CASE FillsOf(a) = {}
    BY <2>2, FS_EmptySet
  <2>3. CASE FillsOf(a) # {}
    <3>1. PICK i : i \in FillsOf(a)
      BY <2>3
    <3>2. FillsOf(a) = {i}
      BY <2>1, <3>1
    <3> QED
      BY <3>2, FS_Singleton
  <2> QED
    BY <2>2, <2>3
<1> QED
  BY <1>1, <1>3, <1>4, InvHolds, SoloHolds, PTL DEF Spec

=============================================================================
