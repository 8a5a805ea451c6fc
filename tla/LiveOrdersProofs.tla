-------------------------- MODULE LiveOrdersProofs --------------------------
(* Theorems about LiveOrders, for every set of processes and of actions.    *)
EXTENDS LiveOrders, SequenceTheorems, FiniteSetTheorems, TLAPS

\* The steps of a call that is about one row.
RowSteps == {"expire", "reread", "refreshed", "preview", "send", "block",
             "fail", "succeed", "record"}

\* A call at such a step names a row; one past the approval test of the submit
\* handler read that row as approved.
CallOK ==
  \A p \in Procs :
    /\ call[p].at \in RowSteps => call[p].act \in Actions
    /\ InFlight(p) => call[p].seen = "approved"

Inv == TypeOK /\ CallOK

\* The steps at which a call acts on the row it has read.
Reading == {"refreshed", "preview", "send"}

\* The steps at which a call holds the id the broker gave to its order.
Acked == {"succeed", "record"}

\* What holds of p's call c after a step of p: CallOK; the approval or the pass
\* through the kill check that it stands on is older than the step or is read by
\* it; the order id it holds is older than the step or given by it.
Follows(p, c) ==
  /\ c.at \in RowSteps => c.act \in Actions
  /\ c.at \in {"preview", "send"} =>
       c.seen = "approved" /\ (InFlight(p) \/ kill \notin Engaged)
  /\ c.at \in Reading /\ c.seen = "approved" =>
       \/ status[c.act] = "approved"
       \/ /\ call[p].at \in Reading
          /\ call[p].act = c.act
          /\ call[p].seen = "approved"
  /\ c.at \in Acked =>
       \/ call[p].at = "succeed" /\ c.act = call[p].act /\ c.ack = call[p].ack
       \/ c.ack = Len(orders) + 1 /\ orders' = Append(orders, c.act)

\* A step of p changes no other call.
Moves(p) ==
  /\ call' \in [Procs -> Calls]
  /\ \A q \in Procs : q # p => call'[q] = call[q]
  /\ Follows(p, call'[p])

\* The ledger, file, order book and histories keep their types.
DataOK ==
  /\ status    \in [Actions -> Statuses]
  /\ decision  \in [Actions -> Decisions]
  /\ due       \in [Actions -> BOOLEAN]
  /\ kill      \in KillFile
  /\ orders    \in Seq(Actions)
  /\ asked     \subseteq Nat
  /\ evidence  \in [Actions -> Seq(Nat)]
  /\ approvals \in [Actions -> Nat]
  /\ inflight  \subseteq Procs

LEMMA IdleIsCall == Idle \in Calls
  BY ConstantsAssumption DEF Idle, Calls, Steps, Ops, Statuses

LEMMA BecomeMoves ==
  ASSUME NEW p \in Procs, NEW c \in Calls, TypeOK, Become(p, c), Follows(p, c)
  PROVE  Moves(p)
  BY DEF TypeOK, Become, Moves

\* A call that goes to no step about a row.
LEMMA LeaveMoves ==
  ASSUME NEW p \in Procs, NEW c \in Calls, TypeOK, Become(p, c),
         c.at \notin RowSteps
  PROVE  Moves(p)
<1>1. Follows(p, c)
  BY DEF Follows, RowSteps, Reading, Acked
<1> QED
  BY <1>1, BecomeMoves

LEMMA ReturnMoves ==
  ASSUME NEW p \in Procs, TypeOK, Return(p)
  PROVE  Moves(p)
<1> DEFINE back == [Idle EXCEPT !.at = "cancelqueued", !.op = "activate",
                                !.todo = call[p].todo]
           c == IF call[p].nested THEN back ELSE Idle
<1>1. back \in Calls
  BY IdleIsCall DEF TypeOK, Calls, Steps, Ops
<1>2. c \in Calls
  BY <1>1, IdleIsCall
<1>3. c.at \notin RowSteps
  BY DEF Idle, RowSteps
<1>4. Become(p, c)
  BY DEF Return
<1> HIDE DEF c
<1> QED
  BY <1>2, <1>3, <1>4, LeaveMoves

LEMMA GoMoves ==
  ASSUME NEW p \in Procs, NEW s \in Steps, TypeOK, Go(p, s), s # "refreshed",
         call[p].act \in Actions \/ s \notin RowSteps,
         s \in {"preview", "send"} =>
           /\ call[p].at \in Reading /\ call[p].seen = "approved"
           /\ InFlight(p) \/ kill \notin Engaged,
         s \in Acked => call[p].at = "succeed"
  PROVE  Moves(p)
<1> DEFINE c == [call[p] EXCEPT !.at = s]
<1>1. c \in Calls /\ c.at = s /\ c.act = call[p].act /\ c.seen = call[p].seen
      /\ c.ack = call[p].ack
  BY DEF TypeOK, Calls
<1>2. Become(p, c)
  BY DEF Go
<1> HIDE DEF c
<1>3. Follows(p, c)
  BY <1>1 DEF Follows, Reading
<1> QED
  BY <1>1, <1>2, <1>3, BecomeMoves

LEMMA ReadRowMoves ==
  ASSUME NEW p \in Procs, NEW op \in Ops, NEW a \in Actions,
         NEW n \in BOOLEAN, NEW t \in SUBSET Actions, TypeOK,
         ReadRow(p, op, a, n, t)
  PROVE  Moves(p)
<1> DEFINE c == [at     |-> IF status[a] \in Expirable /\ due[a] THEN "expire"
                                                                ELSE "refreshed",
                 op     |-> op,   act  |-> a, seen   |-> status[a],
                 ack    |-> 0,    todo |-> t, nested |-> n]
<1>1. c \in Calls /\ c.act = a /\ c.at \in {"expire", "refreshed"} /\ c.seen = status[a]
  BY DEF TypeOK, Calls, Steps
<1>2. Become(p, c)
  BY DEF ReadRow
<1> HIDE DEF c
<1>3. Follows(p, c)
  BY <1>1 DEF Follows, Acked
<1> QED
  BY <1>1, <1>2, <1>3, BecomeMoves

LEMMA InitInv == Init => Inv
  BY ConstantsAssumption
     DEF Init, Inv, TypeOK, CallOK, Idle, Calls, Steps, Ops,
         Statuses, Decisions, KillFile, InFlight, RowSteps

\* Every step of a process moves its own call as CallOK requires.
LEMMA EveryStepMoves ==
  ASSUME NEW p \in Procs, Inv, ProcStep(p)
  PROVE  Moves(p)
<1>t. TypeOK /\ call[p] \in Calls
  BY DEF Inv, TypeOK
<1>c. /\ call[p].at \in RowSteps => call[p].act \in Actions
      /\ InFlight(p) => call[p].seen = "approved"
  BY DEF Inv, CallOK
<1> HIDE DEF Inv
<1>1. CASE ProposalBlocked(p)
  BY <1>1, <1>t, ReturnMoves DEF ProposalBlocked
<1>2. CASE RefuseExpired(p)
  BY <1>2, <1>t, ReturnMoves DEF RefuseExpired
<1>3. CASE WriteDecision(p)
  BY <1>3, <1>t, ReturnMoves DEF WriteDecision
<1>4. CASE EndSweep(p)
  BY <1>4, <1>t, ReturnMoves DEF EndSweep
<1>5. CASE SubmitUnapproved(p)
  BY <1>5, <1>t, ReturnMoves DEF SubmitUnapproved
<1>6. CASE WriteBlocked(p)
  BY <1>6, <1>t, ReturnMoves DEF WriteBlocked
<1>7. CASE WriteFailed(p)
  BY <1>7, <1>t, ReturnMoves DEF WriteFailed
<1>8. CASE RecordRun(p)
  BY <1>8, <1>t, ReturnMoves DEF RecordRun
<1>9. CASE Disarm(p)
  BY <1>9, <1>t, ReturnMoves DEF Disarm
<1>10. CASE EndActivation(p)
  BY <1>10, <1>t, ReturnMoves DEF EndActivation
<1>11. CASE \E a \in Actions : InsertAction(p, a)
  BY <1>11, <1>t, ReturnMoves DEF InsertAction
<1>12. CASE WriteExpired(p)
  BY <1>12, <1>t, <1>c, GoMoves DEF Acked, WriteExpired, RowSteps, Steps
<1>13. CASE SendRefused(p)
  BY <1>13, <1>t, <1>c, GoMoves DEF Acked, SendRefused, RowSteps, Steps
<1>14. CASE WriteSucceeded(p)
  BY <1>14, <1>t, <1>c, GoMoves DEF Acked, WriteSucceeded, RowSteps, Steps
<1>15. CASE Arm(p)
  BY <1>15, <1>t, <1>c, GoMoves DEF Acked, Arm, RowSteps, Steps
<1>16. CASE CheckKillSwitch(p)
  BY <1>16, <1>t, <1>c, GoMoves DEF Acked, CheckKillSwitch, At, RowSteps, Reading, Steps
<1>17. CASE PreviewLive(p)
  BY <1>17, <1>t, <1>c, GoMoves DEF Acked, PreviewLive, InFlight, RowSteps, Reading, Steps
<1>18. CASE Dispatch(p)
  <2>1. CASE call[p].seen = "approved"
    BY <1>18, <2>1, <1>t, <1>c, GoMoves DEF Acked, Dispatch, At, RowSteps, Steps
  <2>2. CASE ~(call[p].seen = "approved")
    BY <1>18, <2>2, <1>t, ReturnMoves DEF Dispatch
  <2>3. QED
    BY <2>1, <2>2
<1>19. CASE CancelGuard(p)
  <2>1. CASE call[p].seen \in Expirable
    BY <1>19, <2>1, <1>t, <1>c, ReadRowMoves DEF CancelGuard, At, Calls, RowSteps, Ops
  <2>2. CASE ~(call[p].seen \in Expirable)
    BY <1>19, <2>2, <1>t, ReturnMoves DEF CancelGuard
  <2>3. QED
    BY <2>1, <2>2
<1>20. CASE CancelRefreshed(p)
  <2>1. CASE call[p].seen \in Expirable
    BY <1>20, <2>1, <1>t, <1>c, ReadRowMoves DEF CancelRefreshed, At, Calls, RowSteps, Ops
  <2>2. CASE ~(call[p].seen \in Expirable)
    BY <1>20, <2>2, <1>t, ReturnMoves DEF CancelRefreshed
  <2>3. QED
    BY <2>1, <2>2
<1>21. ASSUME NEW a \in Actions, NEW op \in Ops, StartCall(p, op, a)
       PROVE  Moves(p)
  <2>1. ReadRow(p, op, a, FALSE, {})
    BY <1>21 DEF StartCall
  <2>2. FALSE \in BOOLEAN /\ {} \in SUBSET Actions
    OBVIOUS
  <2> QED
    BY <1>t, <2>1, <2>2, ReadRowMoves
<1>22. CASE Crash(p)
  BY <1>22, <1>t, IdleIsCall, LeaveMoves DEF Crash, Idle, RowSteps
<1>23. CASE Propose(p)
  <2> DEFINE c == [Idle EXCEPT !.at = "insert", !.op = "propose"]
  <2>1. c \in Calls
    BY <1>23, <1>t, IdleIsCall DEF Propose, TypeOK, Calls, Steps, Ops, Idle
  <2>2. c.at \notin RowSteps
    BY <1>23, <1>t, <1>c DEF Propose, At, Calls, RowSteps, Idle
  <2>3. Become(p, c)
    BY <1>23 DEF Propose
  <2> HIDE DEF c
  <2> QED
    BY <1>t, <2>1, <2>2, <2>3, LeaveMoves
<1>24. CASE ListExpired(p)
  <2> DEFINE c == [Idle EXCEPT !.at = "sweep", !.op = "expire",
                          !.todo = {a \in Actions : status[a] \in Expirable /\ due[a]}]
  <2>1. c \in Calls
    BY <1>24, <1>t, IdleIsCall DEF ListExpired, TypeOK, Calls, Steps, Ops, Idle
  <2>2. c.at \notin RowSteps
    BY <1>24, <1>t, <1>c DEF ListExpired, At, Calls, RowSteps, Idle
  <2>3. Become(p, c)
    BY <1>24 DEF ListExpired
  <2> HIDE DEF c
  <2> QED
    BY <1>t, <2>1, <2>2, <2>3, LeaveMoves
<1>25. CASE Reread(p)
  <2> DEFINE c == [call[p] EXCEPT !.at = "refreshed", !.seen = status[call[p].act]]
  <2>1. c \in Calls
    BY <1>25, <1>t, <1>c DEF Reread, TypeOK, RowSteps, Calls, Steps
  <2>2. c.act \in Actions /\ c.at = "refreshed" /\ c.seen = status[c.act]
    BY <1>25, <1>t, <1>c DEF Reread, Calls, RowSteps
  <2>3. Become(p, c)
    BY <1>25 DEF Reread
  <2> HIDE DEF c
  <2>4. Follows(p, c)
    BY <2>2 DEF Follows, Acked
  <2> QED
    BY <1>t, <2>1, <2>3, <2>4, BecomeMoves
<1>26. CASE ListQueued(p)
  <2> DEFINE c == [call[p] EXCEPT !.at = "cancelqueued",
                             !.todo = {a \in Actions : status[a] \in Expirable}]
  <2>1. c \in Calls
    BY <1>26, <1>t DEF ListQueued, TypeOK, Calls, Steps, Ops
  <2>2. c.at \notin RowSteps
    BY <1>26, <1>t, <1>c DEF ListQueued, At, Calls, RowSteps
  <2>3. Become(p, c)
    BY <1>26 DEF ListQueued
  <2> HIDE DEF c
  <2> QED
    BY <1>t, <2>1, <2>2, <2>3, LeaveMoves
<1>27. CASE ListSubmitted(p)
  <2> DEFINE c == [call[p] EXCEPT !.at = "scan",
                             !.todo = {a \in Actions : status[a] # "absent"}]
  <2>1. c \in Calls
    BY <1>27, <1>t DEF ListSubmitted, TypeOK, Calls, Steps, Ops
  <2>2. c.at \notin RowSteps
    BY <1>27, <1>t, <1>c DEF ListSubmitted, At, Calls, RowSteps
  <2>3. Become(p, c)
    BY <1>27 DEF ListSubmitted
  <2> HIDE DEF c
  <2> QED
    BY <1>t, <2>1, <2>2, <2>3, LeaveMoves
<1>28. CASE SendAccepted(p)
  <2> DEFINE c == [call[p] EXCEPT !.at = "succeed", !.ack = Len(orders) + 1]
  <2>1. Len(orders) + 1 \in Nat
    BY <1>t DEF TypeOK
  <2>2. c \in Calls /\ c.at = "succeed" /\ c.act = call[p].act /\ c.ack = Len(orders) + 1
    BY <1>t, <2>1 DEF Calls, Steps
  <2>3. call[p].act \in Actions
    BY <1>28, <1>c DEF SendAccepted, RowSteps
  <2>4. CASE Become(p, c)
    <3> HIDE DEF c
    <3>1. Follows(p, c)
      BY <1>28, <2>2, <2>3 DEF SendAccepted, Follows, Reading
    <3> QED
      BY <1>t, <2>2, <2>4, <3>1, BecomeMoves
  <2>5. CASE Go(p, "fail")
    BY <1>t, <2>3, <2>5, GoMoves DEF Acked, Steps
  <2> QED
    BY <1>28, <2>4, <2>5 DEF SendAccepted
<1>29. ASSUME NEW a \in Actions, ExpireListed(p, a)
      PROVE  Moves(p)
  <2> DEFINE c == [call[p] EXCEPT !.todo = @ \ {a}]
  <2>1. c \in Calls
    BY <1>29, <1>t DEF ExpireListed, TypeOK, Calls, Steps, Ops
  <2>2. c.at \notin RowSteps
    BY <1>29, <1>t, <1>c DEF ExpireListed, At, Calls, RowSteps
  <2>3. Become(p, c)
    BY <1>29 DEF ExpireListed
  <2> HIDE DEF c
  <2> QED
    BY <1>t, <2>1, <2>2, <2>3, LeaveMoves
<1>30. ASSUME NEW a \in Actions, CancelSubmitted(p, a)
      PROVE  Moves(p)
  <2> DEFINE c == [call[p] EXCEPT !.todo = @ \ {a}]
  <2>1. c \in Calls
    BY <1>30, <1>t DEF CancelSubmitted, TypeOK, Calls, Steps, Ops
  <2>2. c.at \notin RowSteps
    BY <1>30, <1>t, <1>c DEF CancelSubmitted, At, Calls, RowSteps
  <2>3. Become(p, c)
    BY <1>30 DEF CancelSubmitted
  <2> HIDE DEF c
  <2> QED
    BY <1>t, <2>1, <2>2, <2>3, LeaveMoves
<1>31. ASSUME NEW a \in Actions, CancelQueued(p, a)
      PROVE  Moves(p)
  <2> DEFINE c == [call[p] EXCEPT !.at = "expire", !.act = a,
                                  !.todo = @ \ {a}, !.nested = TRUE]
  <2>1. c \in Calls /\ c.act = a /\ c.at = "expire"
    BY <1>t DEF Calls, Steps
  <2>2. CASE due[a]
    <3>1. Become(p, c)
      BY <1>31, <2>2 DEF CancelQueued
    <3> HIDE DEF c
    <3>2. Follows(p, c)
      BY <2>1 DEF Follows, Reading, Acked
    <3> QED
      BY <1>t, <2>1, <3>1, <3>2, BecomeMoves
  <2>3. CASE ~due[a]
    <3>1. ReadRow(p, "cancel", a, TRUE, call[p].todo \ {a})
      BY <1>31, <2>3 DEF CancelQueued
    <3>2. call[p].todo \ {a} \in SUBSET Actions /\ "cancel" \in Ops
      BY <1>t DEF Calls, Ops
    <3> QED
      BY <1>t, <3>1, <3>2, ReadRowMoves
  <2> QED
    BY <2>2, <2>3
<1>32. ASSUME NEW op \in {"activate", "deactivate"}, WriteSwitch(p, op)
      PROVE  Moves(p)
  <2> DEFINE c == [Idle EXCEPT !.at = IF op = "activate" THEN "arm" ELSE "disarm",
                          !.op = op]
  <2>1. c \in Calls
    BY <1>32, <1>t, IdleIsCall DEF WriteSwitch, TypeOK, Calls, Steps, Ops, Idle
  <2>2. c.at \notin RowSteps
    BY <1>32, <1>t, <1>c DEF WriteSwitch, At, Calls, RowSteps, Idle
  <2>3. Become(p, c)
    BY <1>32 DEF WriteSwitch
  <2> HIDE DEF c
  <2> QED
    BY <1>t, <2>1, <2>2, <2>3, LeaveMoves
<1> QED
  BY <1>1, <1>2, <1>3, <1>4, <1>5, <1>6, <1>7, <1>8, <1>9, <1>10, <1>11, <1>12, <1>13, <1>14, <1>15, <1>16, <1>17, <1>18, <1>19, <1>20, <1>21, <1>22, <1>23, <1>24, <1>25, <1>26, <1>27, <1>28, <1>29, <1>30, <1>31, <1>32
     DEF ProcStep, RowStep, DecideStep, SubmitStep, KillStep

\* A step of a process keeps the types of everything but the calls.
LEMMA EveryStepKeepsData ==
  ASSUME NEW p \in Procs, Inv, ProcStep(p)
  PROVE  DataOK'
<1>t. DataOK /\ call[p] \in Calls
  BY DEF Inv, TypeOK, DataOK
<1>c. call[p].at \in RowSteps => call[p].act \in Actions
  BY DEF Inv, CallOK
<1>s. ASSUME NEW a, NEW st \in Statuses, SetStatus(a, st)
      PROVE  status' \in [Actions -> Statuses]
  BY <1>s, <1>t DEF SetStatus, DataOK
<1>1. CASE Propose(p)
  BY <1>1, <1>t DEF DataOK, data, Propose
<1>2. CASE ProposalBlocked(p)
  BY <1>2, <1>t DEF DataOK, data, ProposalBlocked
<1>3. CASE Reread(p)
  BY <1>3, <1>t DEF DataOK, data, Reread
<1>4. CASE ListExpired(p)
  BY <1>4, <1>t DEF DataOK, data, ListExpired
<1>5. CASE EndSweep(p)
  BY <1>5, <1>t DEF DataOK, data, EndSweep
<1>6. CASE Dispatch(p)
  BY <1>6, <1>t DEF DataOK, data, Dispatch
<1>7. CASE RefuseExpired(p)
  BY <1>7, <1>t DEF DataOK, data, RefuseExpired
<1>8. CASE CancelGuard(p)
  BY <1>8, <1>t DEF DataOK, data, CancelGuard
<1>9. CASE SubmitUnapproved(p)
  BY <1>9, <1>t DEF DataOK, data, SubmitUnapproved
<1>10. CASE CheckKillSwitch(p)
  BY <1>10, <1>t DEF DataOK, data, CheckKillSwitch
<1>11. CASE PreviewLive(p)
  BY <1>11, <1>t DEF DataOK, data, PreviewLive
<1>12. CASE SendRefused(p)
  BY <1>12, <1>t DEF DataOK, data, SendRefused
<1>13. CASE ListQueued(p)
  BY <1>13, <1>t DEF DataOK, data, ListQueued
<1>14. CASE CancelRefreshed(p)
  BY <1>14, <1>t DEF DataOK, data, CancelRefreshed
<1>15. CASE ListSubmitted(p)
  BY <1>15, <1>t DEF DataOK, data, ListSubmitted
<1>16. CASE EndActivation(p)
  BY <1>16, <1>t DEF DataOK, data, EndActivation
<1>17. CASE Crash(p)
  BY <1>17, <1>t DEF DataOK, data, Crash
<1>18. CASE \E a \in Actions, op \in Ops : StartCall(p, op, a)
  BY <1>18, <1>t DEF DataOK, data, StartCall
<1>19. CASE \E a \in Actions : CancelQueued(p, a)
  BY <1>19, <1>t DEF DataOK, data, CancelQueued
<1>20. CASE WriteExpired(p)
  BY <1>20, <1>t, <1>s DEF DataOK, Statuses, WriteExpired
<1>21. CASE WriteBlocked(p)
  BY <1>21, <1>t, <1>s DEF DataOK, Statuses, WriteBlocked
<1>22. CASE WriteFailed(p)
  BY <1>22, <1>t, <1>s DEF DataOK, Statuses, WriteFailed
<1>23. CASE WriteSucceeded(p)
  BY <1>23, <1>t, <1>s DEF DataOK, Statuses, WriteSucceeded
<1>24. CASE \E a \in Actions : InsertAction(p, a)
  BY <1>24, <1>t, <1>s DEF DataOK, Statuses, Expirable, InsertAction
<1>25. CASE \E a \in Actions : ExpireListed(p, a)
  BY <1>25, <1>t, <1>s DEF DataOK, Statuses, ExpireListed
<1>26. CASE \E op \in {"activate", "deactivate"} : WriteSwitch(p, op)
  BY <1>26, <1>t DEF DataOK, KillFile, Engaged, WriteSwitch
<1>27. CASE Arm(p)
  BY <1>27, <1>t DEF DataOK, KillFile, Engaged, FillSwitch, Arm
<1>28. CASE Disarm(p)
  BY <1>28, <1>t DEF DataOK, KillFile, Engaged, FillSwitch, Disarm
<1>29. CASE WriteDecision(p)
  <2> DEFINE a == call[p].act
             d == DecisionOf(call[p].op)
  <2>1. d \in Statuses /\ d \in Decisions
    BY DEF DecisionOf, Statuses, Expirable, Decisions
  <2>2. SetStatus(a, d)
    BY <1>29 DEF WriteDecision
  <2>3. status' \in [Actions -> Statuses]
    BY <2>1, <2>2, <1>s
  <2>4. /\ decision' = [decision EXCEPT ![a] = d]
        /\ approvals' = [approvals EXCEPT ![a] = IF d = "approved" THEN @ + 1 ELSE @]
        /\ UNCHANGED <<due, kill, orders, asked, evidence, inflight>>
    BY <1>29 DEF WriteDecision
  <2>a. a \in Actions
    BY <1>29, <1>c DEF WriteDecision, Decides, RowSteps
  <2> HIDE DEF d, a
  <2>5. decision' \in [Actions -> Decisions]
    BY <1>t, <2>1, <2>4 DEF DataOK
  <2>6. approvals' \in [Actions -> Nat]
    <3>1. approvals \in [Actions -> Nat]
      BY <1>t DEF DataOK
    <3>2. CASE d = "approved"
      <4>1. approvals' = [approvals EXCEPT ![a] = @ + 1]
        BY <2>4, <3>2
      <4> QED
        BY <3>1, <4>1, <2>a
    <3>3. CASE d # "approved"
      <4>1. approvals' = [approvals EXCEPT ![a] = @]
        BY <2>4, <3>3
      <4> QED
        BY <3>1, <4>1
    <3> QED
      BY <3>2, <3>3
  <2> QED
    BY <1>t, <2>3, <2>4, <2>5, <2>6 DEF DataOK
<1>30. CASE SendAccepted(p)
  <2>1. call[p].act \in Actions
    BY <1>30, <1>c DEF SendAccepted, RowSteps
  <2> QED
    BY <1>30, <1>t, <2>1 DEF SendAccepted, DataOK
<1>31. ASSUME NEW a \in Actions, CancelSubmitted(p, a)
       PROVE  DataOK'
  <2>1. evidence[a] \in Seq(Nat)
    BY <1>t DEF DataOK
  <2>2. asked' \subseteq Nat
    BY <1>31, <1>t, <2>1 DEF CancelSubmitted, DataOK
  <2> QED
    BY <1>31, <1>t, <2>2 DEF CancelSubmitted, DataOK
<1>32. CASE RecordRun(p)
  <2>1. call[p].act \in Actions /\ <<call[p].ack>> \in Seq(Nat)
    BY <1>32, <1>c, <1>t DEF RecordRun, RowSteps, Calls
  <2>2. evidence[call[p].act] \in Seq(Nat)
    BY <2>1, <1>t DEF DataOK
  <2>3. <<call[p].ack>> \o evidence[call[p].act] \in Seq(Nat)
    BY <2>1, <2>2, ConcatProperties
  <2>4. evidence' \in [Actions -> Seq(Nat)]
    BY <1>32, <1>t, <2>3 DEF RecordRun, DataOK
  <2> QED
    BY <1>32, <1>t, <2>4 DEF RecordRun, DataOK
<1> QED
  BY <1>1, <1>2, <1>3, <1>4, <1>5, <1>6, <1>7, <1>8, <1>9, <1>10, <1>11, <1>12, <1>13, <1>14, <1>15, <1>16, <1>17, <1>18, <1>19, <1>20, <1>21, <1>22, <1>23, <1>24, <1>25, <1>26, <1>27, <1>28, <1>29, <1>30, <1>31, <1>32
     DEF ProcStep, RowStep, DecideStep, SubmitStep, KillStep

LEMMA StepInv == Inv /\ [Next]_vars => Inv'
<1> SUFFICES ASSUME Inv, [Next]_vars PROVE Inv'
  OBVIOUS
<1>t. TypeOK /\ CallOK
  BY DEF Inv
<1>1. ASSUME NEW p \in Procs, ProcStep(p) PROVE Inv'
  <2>1. Moves(p) /\ DataOK'
    BY <1>1, EveryStepMoves, EveryStepKeepsData
  <2>2. CallOK'
    BY <2>1, <1>t DEF CallOK, Moves, Follows, InFlight
  <2> QED
    BY <2>1, <2>2 DEF Inv, TypeOK, DataOK, Moves
<1>2. ASSUME NEW a \in Actions, Elapse(a) PROVE Inv'
  <2>1. due' \in [Actions -> BOOLEAN]
    BY <1>2, <1>t DEF Elapse, TypeOK
  <2> QED
    BY <1>2, <1>t, <2>1 DEF Elapse, Inv, TypeOK, CallOK, InFlight
<1>3. CASE UNCHANGED vars
  BY <1>3, <1>t DEF Inv, TypeOK, CallOK, InFlight, vars, data
<1> QED
  BY <1>1, <1>2, <1>3 DEF Next

\* The ledger rows, the switch file, the order book and the calls keep their
\* shapes, for every number of processes and of actions, crashes or not.
THEOREM TypeCorrect == Spec => []TypeOK
<1>1. Init => Inv
  BY InitInv
<1>2. Inv /\ [Next]_vars => Inv'
  BY StepInv
<1>3. Inv => TypeOK
  BY DEF Inv
<1> QED
  BY <1>1, <1>2, <1>3, PTL DEF Spec

-----------------------------------------------------------------------------
(* What a step does to the ledger, the switch file and the order book. *)

\* A row is marked with a status that is neither approved nor succeeded.
Mark ==
  /\ \E a \in Actions, s \in Statuses \ {"absent", "approved", "succeeded"} :
       SetStatus(a, s)
  /\ UNCHANGED <<decision, due, kill, orders, asked, evidence, approvals, inflight>>

\* The switch file is written, by a process that is not in flight.
Fill(p) ==
  /\ inflight' = {q \in Procs : InFlight(q)}
  /\ ~InFlight(p)'
  /\ UNCHANGED <<status, decision, due, orders, asked, evidence, approvals>>

Effect(p) ==
  \/ UNCHANGED data
  \/ Mark
  \/ Fill(p)
  \/ WriteDecision(p)
  \/ SendAccepted(p)
  \/ WriteSucceeded(p)
  \/ RecordRun(p)
  \/ \E a \in Actions : CancelSubmitted(p, a)

LEMMA EveryStepHasEffect ==
  ASSUME NEW p \in Procs, Inv, ProcStep(p)
  PROVE  Effect(p)
<1>t. call \in [Procs -> Calls]
  BY DEF Inv, TypeOK
<1>c. call[p].at \in RowSteps => call[p].act \in Actions
  BY DEF Inv, CallOK
<1>1. ASSUME \/ Propose(p) \/ ProposalBlocked(p) \/ Reread(p) \/ ListExpired(p)
             \/ EndSweep(p) \/ Dispatch(p) \/ RefuseExpired(p) \/ CancelGuard(p)
             \/ SubmitUnapproved(p) \/ CheckKillSwitch(p) \/ PreviewLive(p)
             \/ SendRefused(p) \/ ListQueued(p) \/ CancelRefreshed(p)
             \/ ListSubmitted(p) \/ EndActivation(p) \/ Crash(p)
             \/ \E a \in Actions, op \in Ops : StartCall(p, op, a)
             \/ \E a \in Actions : CancelQueued(p, a)
      PROVE  UNCHANGED data
  BY <1>1 DEF Propose, ProposalBlocked, Reread, ListExpired, EndSweep, Dispatch,
       RefuseExpired, CancelGuard, SubmitUnapproved, CheckKillSwitch, PreviewLive,
       SendRefused, ListQueued, CancelRefreshed, ListSubmitted, EndActivation,
       Crash, StartCall, CancelQueued
<1>2. ASSUME WriteExpired(p) \/ WriteBlocked(p) \/ WriteFailed(p)
      PROVE  Mark
  BY <1>2, <1>c DEF Mark, WriteExpired, WriteBlocked, WriteFailed, RowSteps, Statuses
<1>3. ASSUME NEW a \in Actions, InsertAction(p, a) \/ ExpireListed(p, a)
      PROVE  Mark
  BY <1>3 DEF Mark, InsertAction, ExpireListed, Statuses, Expirable
<1>4. ASSUME NEW op \in {"activate", "deactivate"}, WriteSwitch(p, op)
      PROVE  Fill(p)
  BY <1>4, <1>t DEF Fill, WriteSwitch, Become, InFlight, Idle
<1>5. CASE Arm(p)
  BY <1>5, <1>t DEF Fill, Arm, FillSwitch, Go, Become, InFlight, Effect, Calls
<1>6. CASE Disarm(p)
  <2>1. ~InFlight(p)'
    BY <1>6, <1>t DEF Disarm, Return, Become, InFlight, Idle
  <2> QED
    BY <1>6, <2>1 DEF Fill, Disarm, FillSwitch, Effect
<1> QED
  BY <1>1, <1>2, <1>3, <1>4, <1>5, <1>6
     DEF ProcStep, RowStep, DecideStep, SubmitStep, KillStep, Effect

-----------------------------------------------------------------------------
(* The kill switch. *)

LEMMA SwitchStep ==
  Inv /\ SwitchStopsLaterSubmits /\ [Next]_vars => SwitchStopsLaterSubmits'
<1> SUFFICES ASSUME Inv, SwitchStopsLaterSubmits, [Next]_vars
             PROVE  SwitchStopsLaterSubmits'
  OBVIOUS
<1>1. ASSUME NEW p \in Procs, ProcStep(p)
      PROVE  SwitchStopsLaterSubmits'
  <2>1. Moves(p) /\ Effect(p)
    BY <1>1, EveryStepMoves, EveryStepHasEffect
  <2>2. CASE Fill(p)
    BY <2>1, <2>2 DEF Fill, Moves, InFlight, SwitchStopsLaterSubmits
  <2>3. CASE UNCHANGED <<kill, inflight>>
    BY <2>1, <2>3 DEF Moves, Follows, InFlight, SwitchStopsLaterSubmits
  <2> QED
    BY <2>1, <2>2, <2>3 DEF Effect, data, Mark, WriteDecision, SendAccepted,
         WriteSucceeded, RecordRun, CancelSubmitted
<1>2. CASE (\E a \in Actions : Elapse(a)) \/ UNCHANGED vars
  BY <1>2 DEF Elapse, vars, data, SwitchStopsLaterSubmits, InFlight
<1> QED
  BY <1>1, <1>2 DEF Next

\* While the switch file blocks, only the calls that had passed the kill check
\* when the file was last written can still reach the broker.
THEOREM SwitchStops == Spec => []SwitchStopsLaterSubmits
<1>1. Init => Inv /\ SwitchStopsLaterSubmits
  BY InitInv DEF Init, SwitchStopsLaterSubmits, InFlight, Idle, Engaged
<1>2. Inv /\ SwitchStopsLaterSubmits /\ [Next]_vars => (Inv /\ SwitchStopsLaterSubmits)'
  BY StepInv, SwitchStep
<1> QED
  BY <1>1, <1>2, PTL DEF Spec

-----------------------------------------------------------------------------
(* Approval. *)

\* The inductive form of OrdersAuthorised: the approvals that rows and calls
\* stand on have been written.
Authorised ==
  /\ OrdersAuthorised
  /\ \A a \in Actions : status[a] = "approved" => approvals[a] > 0
  /\ \A p \in Procs : call[p].at \in Reading /\ call[p].seen = "approved" =>
       approvals[call[p].act] > 0

LEMMA AuthorisedStep ==
  Inv /\ Authorised /\ [Next]_vars => Authorised'
<1> SUFFICES ASSUME Inv, Authorised, [Next]_vars
             PROVE  Authorised'
  OBVIOUS
<1>t. TypeOK /\ CallOK
  BY DEF Inv
<1>1. ASSUME NEW p \in Procs, ProcStep(p)
      PROVE  Authorised'
  <2>1. Moves(p) /\ Effect(p) /\ Inv'
    BY <1>1, EveryStepMoves, EveryStepHasEffect, StepInv DEF Next
  <2>2. \A a \in Actions : approvals[a] > 0 => approvals'[a] > 0
    <3>1. CASE WriteDecision(p)
      BY <3>1, <1>t DEF WriteDecision, TypeOK
    <3> QED
      BY <2>1, <3>1 DEF Effect, data, Mark, Fill, SendAccepted,
           WriteSucceeded, RecordRun, CancelSubmitted
  <2>3. \A a \in Actions : status'[a] = "approved" =>
           decision'[a] = "approved" /\ approvals'[a] > 0
    <3>1. CASE WriteDecision(p)
      <4> DEFINE d == DecisionOf(call[p].op)
                 b == call[p].act
      <4>1. /\ status' = [status EXCEPT ![b] = d]
            /\ decision' = [decision EXCEPT ![b] = d]
            /\ approvals' = [approvals EXCEPT ![b] = IF d = "approved" THEN @ + 1 ELSE @]
        BY <3>1 DEF WriteDecision, SetStatus
      <4> HIDE DEF d, b
      <4> TAKE a \in Actions
      <4>2. CASE a = b
        BY <4>1, <4>2, <1>t DEF TypeOK
      <4>3. CASE a # b
        BY <4>1, <4>3, <1>t DEF TypeOK, Authorised, OrdersAuthorised
      <4> QED
        BY <4>2, <4>3
    <3>2. CASE Mark
      BY <3>2, <1>t DEF Mark, SetStatus, TypeOK, Authorised, OrdersAuthorised
    <3>3. CASE WriteSucceeded(p)
      BY <3>3, <1>t DEF WriteSucceeded, SetStatus, TypeOK, Authorised, OrdersAuthorised
    <3> QED
      BY <2>1, <3>1, <3>2, <3>3 DEF Effect, data, Fill, SendAccepted, RecordRun,
           CancelSubmitted, Authorised, OrdersAuthorised
  <2>4. \A i \in DOMAIN orders' : approvals'[orders'[i]] > 0
    <3>1. CASE SendAccepted(p)
      <4>1. call[p].act \in Actions /\ approvals[call[p].act] > 0
        BY <3>1, <1>t DEF SendAccepted, CallOK, RowSteps, InFlight, Authorised, Reading
      <4>2. orders \in Seq(Actions) /\ orders' = Append(orders, call[p].act)
        BY <3>1, <1>t DEF SendAccepted, TypeOK
      <4>3. approvals' = approvals
        BY <3>1 DEF SendAccepted
      <4> QED
        BY <4>1, <4>2, <4>3 DEF Authorised, OrdersAuthorised
    <3>2. CASE orders' = orders
      BY <3>2, <2>2, <1>t DEF TypeOK, Authorised, OrdersAuthorised
    <3> QED
      BY <2>1, <3>1, <3>2 DEF Effect, data, Mark, Fill, WriteDecision,
           WriteSucceeded, RecordRun, CancelSubmitted
  <2>5. ASSUME NEW q \in Procs, call'[q].at \in Reading, call'[q].seen = "approved"
        PROVE  approvals'[call'[q].act] > 0
    <3>1. call'[q].act \in Actions
      BY <2>1, <2>5 DEF Inv, CallOK, Reading, RowSteps
    <3>2. approvals[call'[q].act] > 0
      BY <2>1, <2>5, <3>1 DEF Moves, Follows, Authorised
    <3> QED
      BY <2>2, <3>1, <3>2
  <2> QED
    BY <2>3, <2>4, <2>5 DEF Authorised, OrdersAuthorised
<1>2. CASE (\E a \in Actions : Elapse(a)) \/ UNCHANGED vars
  BY <1>2 DEF Elapse, vars, data, Authorised, OrdersAuthorised
<1> QED
  BY <1>1, <1>2 DEF Next

LEMMA InitAuthorised == Init => Authorised
  BY DEF Init, Authorised, OrdersAuthorised, Idle, Reading

\* However processes interleave and wherever they stop, an order is at the
\* broker only for an action that had been approved.
THEOREM AuthorisedOrders == Spec => []OrdersAuthorised
<1>1. Init => Inv /\ Authorised
  BY InitInv, InitAuthorised
<1>2. Inv /\ Authorised /\ [Next]_vars => (Inv /\ Authorised)'
  BY StepInv, AuthorisedStep
<1>3. Authorised => OrdersAuthorised
  BY DEF Authorised
<1> QED
  BY <1>1, <1>2, <1>3, PTL DEF Spec

-----------------------------------------------------------------------------
(* Evidence. *)

\* The inductive form of SuccessIsBacked: an order id that a call holds names an
\* order of its row, is in no evidence yet, and is held by no other call.
Backed ==
  /\ SuccessIsBacked
  /\ \A p \in Procs : call[p].at \in Acked =>
       /\ call[p].ack \in DOMAIN orders
       /\ orders[call[p].ack] = call[p].act
       /\ \A a \in Actions : \A j \in DOMAIN evidence[a] : evidence[a][j] # call[p].ack
       /\ \A q \in Procs \ {p} : call[q].at \in Acked => call[q].ack # call[p].ack

\* The order book only grows.
LEMMA OrdersGrow ==
  ASSUME NEW p \in Procs, Inv, ProcStep(p)
  PROVE  /\ orders \in Seq(Actions) /\ orders' \in Seq(Actions)
         /\ DOMAIN orders = 1 .. Len(orders)
         /\ \A i \in DOMAIN orders : i \in DOMAIN orders' /\ orders'[i] = orders[i]
         /\ Len(orders) \in Nat /\ Len(orders) + 1 \notin DOMAIN orders
<1>1. Effect(p)
  BY EveryStepHasEffect
<1>2. orders \in Seq(Actions) /\ orders' \in Seq(Actions)
  BY EveryStepKeepsData DEF Inv, TypeOK, DataOK
<1>3. CASE orders' = orders
  BY <1>2, <1>3
<1>4. CASE SendAccepted(p)
  <2>1. call[p].act \in Actions
    BY <1>4 DEF SendAccepted, Inv, CallOK, RowSteps
  <2> QED
    BY <1>2, <1>4, <2>1 DEF SendAccepted
<1> QED
  BY <1>1, <1>3, <1>4 DEF Effect, data, Mark, Fill, WriteDecision, WriteSucceeded,
       RecordRun, CancelSubmitted

LEMMA BackedStep ==
  Inv /\ Backed /\ [Next]_vars => Backed'
<1> SUFFICES ASSUME Inv, Backed, [Next]_vars
             PROVE  Backed'
  OBVIOUS
<1>t. TypeOK /\ CallOK
  BY DEF Inv
<1>1. ASSUME NEW p \in Procs, ProcStep(p)
      PROVE  Backed'
  <2>1. Moves(p) /\ Effect(p)
    BY <1>1, EveryStepMoves, EveryStepHasEffect
  <2>2. /\ orders \in Seq(Actions) /\ orders' \in Seq(Actions)
        /\ DOMAIN orders = 1 .. Len(orders)
        /\ \A i \in DOMAIN orders : i \in DOMAIN orders' /\ orders'[i] = orders[i]
        /\ Len(orders) \in Nat /\ Len(orders) + 1 \notin DOMAIN orders
    BY <1>1, OrdersGrow
  <2>3. \A a \in Actions : status'[a] = "succeeded" =>
          \E i \in DOMAIN orders' : orders'[i] = a
    <3>1. CASE WriteSucceeded(p)
      <4>1. /\ status' = [status EXCEPT ![call[p].act] = "succeeded"]
            /\ orders' = orders /\ call[p].at \in Acked
        BY <3>1 DEF WriteSucceeded, SetStatus, Acked
      <4>2. \E i \in DOMAIN orders : orders[i] = call[p].act
        BY <4>1 DEF Backed
      <4> TAKE a \in Actions
      <4>3. status'[a] = "succeeded" => status[a] = "succeeded" \/ a = call[p].act
        BY <4>1, <1>t DEF TypeOK
      <4> QED
        BY <4>1, <4>2, <4>3 DEF Backed, SuccessIsBacked
    <3>2. ASSUME \A a \in Actions : status'[a] = "succeeded" => status[a] = "succeeded"
          PROVE  \A a \in Actions : status'[a] = "succeeded" =>
                   \E i \in DOMAIN orders' : orders'[i] = a
      BY <3>2, <2>2 DEF Backed, SuccessIsBacked
    <3>3. CASE Mark
      BY <3>2, <3>3, <1>t DEF Mark, SetStatus, TypeOK
    <3>4. CASE WriteDecision(p)
      <4>1. \E d \in {"approved", "rejected", "canceled"} : SetStatus(call[p].act, d)
        BY <3>4 DEF WriteDecision, DecisionOf
      <4> QED
        BY <3>2, <4>1, <1>t DEF SetStatus, TypeOK
    <3>5. CASE status' = status
      BY <3>2, <3>5
    <3> QED
      BY <2>1, <3>1, <3>3, <3>4, <3>5 DEF Effect, data, Fill, SendAccepted,
           RecordRun, CancelSubmitted
  <2>4. CASE RecordRun(p)
    <3> DEFINE b == call[p].act
               n == call[p].ack
    <3>1. /\ evidence' = [evidence EXCEPT ![b] = <<n>> \o @]
          /\ orders' = orders
          /\ call[p].at = "record"
          /\ call'[p].at \notin Acked
      BY <2>4, <1>t DEF RecordRun, Return, Become, Idle, Acked, TypeOK
    <3>2. b \in Actions /\ n \in Nat /\ evidence[b] \in Seq(Nat)
      BY <3>1, <1>t DEF CallOK, RowSteps, TypeOK, Calls
    <3>3. /\ n \in DOMAIN orders /\ orders[n] = b
          /\ \A a \in Actions : \A j \in DOMAIN evidence[a] : evidence[a][j] # n
          /\ \A q \in Procs \ {p} : call[q].at \in Acked => call[q].ack # n
      BY <3>1 DEF Backed, Acked
    <3> HIDE DEF b, n
    <3>4. /\ Len(<<n>> \o evidence[b]) = 1 + Len(evidence[b])
          /\ \A j \in 1 .. 1 + Len(evidence[b]) :
               (<<n>> \o evidence[b])[j] = IF j = 1 THEN n ELSE evidence[b][j - 1]
          /\ <<n>> \o evidence[b] \in Seq(Nat)
      BY <3>2
    <3>5. evidence'[b] = <<n>> \o evidence[b]
          /\ \A a \in Actions \ {b} : evidence'[a] = evidence[a]
      BY <3>1, <3>2, <1>t DEF TypeOK
    <3>6. \A j \in DOMAIN evidence'[b] :
            \/ evidence'[b][j] = n /\ j = 1
            \/ /\ j - 1 \in DOMAIN evidence[b] /\ j \in Nat
               /\ evidence'[b][j] = evidence[b][j - 1]
      BY <3>2, <3>4, <3>5
    <3>7. \A a \in Actions : \A j \in DOMAIN evidence'[a] :
            /\ evidence'[a][j] \in DOMAIN orders
            /\ orders[evidence'[a][j]] = a
            /\ \A k \in DOMAIN evidence'[a] : evidence'[a][j] = evidence'[a][k] => j = k
      <4> TAKE a \in Actions
      <4>1. CASE a # b
        BY <4>1, <3>5 DEF Backed, SuccessIsBacked
      <4>2. CASE a = b
        <5>1. \A j \in DOMAIN evidence'[b] : evidence'[b][j] \in DOMAIN orders
                                             /\ orders[evidence'[b][j]] = b
          BY <3>2, <3>3, <3>6 DEF Backed, SuccessIsBacked
        <5>2. \A i, j \in DOMAIN evidence[b] : evidence[b][i] = evidence[b][j] => i = j
          BY <3>2 DEF Backed, SuccessIsBacked
        <5>3. ASSUME NEW j \in DOMAIN evidence'[b], NEW k \in DOMAIN evidence'[b],
                     evidence'[b][j] = evidence'[b][k]
              PROVE  j = k
          BY <3>2, <3>3, <3>6, <5>2, <5>3
        <5> QED
          BY <4>2, <5>1, <5>3
      <4> QED
        BY <4>1, <4>2
    <3>8. ASSUME NEW q \in Procs, call'[q].at \in Acked
          PROVE  /\ call'[q].ack \in DOMAIN orders
                 /\ orders[call'[q].ack] = call'[q].act
                 /\ \A a \in Actions : \A j \in DOMAIN evidence'[a] :
                      evidence'[a][j] # call'[q].ack
                 /\ \A r \in Procs \ {q} : call'[r].at \in Acked =>
                      call'[r].ack # call'[q].ack
      <4>1. q # p /\ call'[q] = call[q]
        BY <3>1, <3>8, <2>1 DEF Moves
      <4>2. \A a \in Actions : \A j \in DOMAIN evidence[a] : evidence[a][j] # call[q].ack
        BY <3>8, <4>1 DEF Backed
      <4>3. call[q].ack # n
        BY <3>3, <3>8, <4>1
      <4>4. \A a \in Actions : \A j \in DOMAIN evidence'[a] : evidence'[a][j] # call[q].ack
        BY <3>5, <3>6, <4>2, <4>3
      <4>5. \A r \in Procs \ {q} : call'[r].at \in Acked => r # p /\ call'[r] = call[r]
        BY <3>1, <2>1 DEF Moves
      <4> QED
        BY <3>8, <4>1, <4>4, <4>5 DEF Backed
    <3> QED
      BY <2>3, <3>1, <3>7, <3>8 DEF Backed, SuccessIsBacked
  <2>5. CASE evidence' = evidence
    <3>1. \A a \in Actions : \A j \in DOMAIN evidence[a] :
            evidence[a][j] \in DOMAIN orders' /\ orders'[evidence[a][j]] = a
      BY <2>2 DEF Backed, SuccessIsBacked
    <3>2. ASSUME NEW q \in Procs, call'[q].at \in Acked
          PROVE  \/ /\ call[q].at \in Acked
                    /\ call'[q].ack = call[q].ack /\ call'[q].act = call[q].act
                 \/ /\ q = p /\ call'[p].ack = Len(orders) + 1
                    /\ orders' = Append(orders, call'[p].act)
      BY <2>1, <3>2 DEF Moves, Follows, Acked
    <3>3. ASSUME NEW q \in Procs, call'[q].at \in Acked
          PROVE  /\ call'[q].ack \in DOMAIN orders'
                 /\ orders'[call'[q].ack] = call'[q].act
                 /\ \A a \in Actions : \A j \in DOMAIN evidence[a] :
                      evidence[a][j] # call'[q].ack
      <4>1. CASE call[q].at \in Acked
                 /\ call'[q].ack = call[q].ack /\ call'[q].act = call[q].act
        BY <2>2, <4>1 DEF Backed
      <4>2. CASE q = p /\ call'[p].ack = Len(orders) + 1
                 /\ orders' = Append(orders, call'[p].act)
        <5>1. call'[p].act \in Actions
          BY <2>1, <3>3, <4>2 DEF Moves, Follows, Acked, RowSteps
        <5>2. Len(orders) + 1 \in DOMAIN orders'
              /\ orders'[Len(orders) + 1] = call'[p].act
          BY <2>2, <4>2, <5>1
        <5>3. \A a \in Actions : \A j \in DOMAIN evidence[a] :
                evidence[a][j] # Len(orders) + 1
          BY <2>2 DEF Backed, SuccessIsBacked
        <5> QED
          BY <4>2, <5>2, <5>3
      <4> QED
        BY <3>2, <3>3, <4>1, <4>2
    <3>4. ASSUME NEW q \in Procs, NEW r \in Procs \ {q},
                 call'[q].at \in Acked, call'[r].at \in Acked
          PROVE  call'[r].ack # call'[q].ack
      <4>1. \A u \in Procs : call[u].at \in Acked => call[u].ack # Len(orders) + 1
        BY <2>2 DEF Backed
      <4> QED
        BY <3>2, <3>4, <4>1 DEF Backed
    <3> QED
      BY <2>3, <2>5, <3>1, <3>3, <3>4 DEF Backed, SuccessIsBacked
  <2> QED
    BY <2>1, <2>4, <2>5 DEF Effect, data, Mark, Fill, WriteDecision, SendAccepted,
         WriteSucceeded, CancelSubmitted
<1>2. CASE (\E a \in Actions : Elapse(a)) \/ UNCHANGED vars
  BY <1>2 DEF Elapse, vars, data, Backed, SuccessIsBacked
<1> QED
  BY <1>1, <1>2 DEF Next

LEMMA InitBacked == Init => Backed
  BY DEF Init, Backed, SuccessIsBacked, Idle, Acked

\* A row marked succeeded has an order at the broker, and every reconciliation
\* that a recorded run leads to names an order of its own row, each once.
THEOREM BackedSuccess == Spec => []SuccessIsBacked
<1>1. Init => Inv /\ Backed
  BY InitInv, InitBacked
<1>2. Inv /\ Backed /\ [Next]_vars => (Inv /\ Backed)'
  BY StepInv, BackedStep
<1>3. Backed => SuccessIsBacked
  BY DEF Backed
<1> QED
  BY <1>1, <1>2, <1>3, PTL DEF Spec

-----------------------------------------------------------------------------
(* Refinement. *)

LEMMA InitGate == Init => Gate!Init
  BY DEF Init, Gate!Init

LEMMA StepGate ==
  Inv /\ Inv' /\ Authorised /\ Backed /\ [Next]_vars => [Gate!Next]_(Gate!gateVars)
<1> SUFFICES ASSUME Inv, Inv', Authorised, Backed, [Next]_vars
             PROVE  [Gate!Next]_(Gate!gateVars)
  OBVIOUS
<1>t. TypeOK /\ CallOK
  BY DEF Inv
<1>1. ASSUME NEW p \in Procs, ProcStep(p)
      PROVE  [Gate!Next]_(Gate!gateVars)
  <2>1. Effect(p)
    BY <1>1, EveryStepHasEffect
  <2>2. CASE UNCHANGED <<approvals, orders, asked>>
    BY <2>2 DEF Gate!gateVars
  <2>3. CASE WriteDecision(p)
    <3> DEFINE b == call[p].act
    <3>1. b \in Actions /\ UNCHANGED <<orders, asked>>
      BY <2>3, <1>t DEF WriteDecision, Decides, CallOK, RowSteps
    <3>2. approvals' = approvals \/ approvals' = [approvals EXCEPT ![b] = @ + 1]
      BY <2>3, <3>1, <1>t DEF WriteDecision, TypeOK
    <3> HIDE DEF b
    <3>3. CASE approvals' = [approvals EXCEPT ![b] = @ + 1]
      <4>1. {a \in Actions : approvals'[a] > 0} = {a \in Actions : approvals[a] > 0} \cup {b}
        BY <3>1, <3>3, <1>t DEF TypeOK
      <4> QED
        BY <3>1, <4>1 DEF Gate!Next, Gate!Authorise
    <3> QED
      BY <2>2, <3>1, <3>2, <3>3
  <2>4. CASE SendAccepted(p)
    <3>1. call[p].act \in Actions /\ approvals[call[p].act] > 0
      BY <2>4, <1>t DEF SendAccepted, CallOK, RowSteps, InFlight, Authorised, Reading
    <3> QED
      BY <2>4, <3>1 DEF SendAccepted, Gate!Next, Gate!Place
  <2>5. ASSUME NEW a \in Actions, CancelSubmitted(p, a)
        PROVE  [Gate!Next]_(Gate!gateVars)
    <3>1. UNCHANGED <<approvals, orders>>
      BY <2>5 DEF CancelSubmitted
    <3>2. CASE evidence[a] = << >>
      BY <2>2, <2>5, <3>2 DEF CancelSubmitted
    <3>3. CASE evidence[a] # << >>
      <4>1. evidence[a] \in Seq(Nat) /\ 1 \in DOMAIN evidence[a]
            /\ Head(evidence[a]) = evidence[a][1]
        BY <3>3, <1>t DEF TypeOK
      <4>2. Head(evidence[a]) \in DOMAIN orders
        BY <4>1 DEF Backed, SuccessIsBacked
      <4>3. asked' = asked \cup {Head(evidence[a])}
        BY <2>5, <3>3 DEF CancelSubmitted
      <4> QED
        BY <3>1, <4>2, <4>3 DEF Gate!Next, Gate!Withdraw
    <3> QED
      BY <3>2, <3>3
  <2> QED
    BY <2>1, <2>2, <2>3, <2>4, <2>5 DEF Effect, data, Mark, Fill, WriteSucceeded,
         RecordRun
<1>2. CASE (\E a \in Actions : Elapse(a)) \/ UNCHANGED vars
  BY <1>2 DEF Elapse, vars, data, Gate!gateVars
<1> QED
  BY <1>1, <1>2 DEF Next

\* The live-order path implements the approval gate: seen through the history of
\* approvals and the broker's order book, every step authorises one action,
\* places one order of an authorised action, asks to withdraw a placed order, or
\* changes nothing.
THEOREM Refinement == Spec => ImplementsGate
<1>1. Init => Inv /\ Authorised /\ Backed /\ Gate!Init
  BY InitInv, InitAuthorised, InitBacked, InitGate
<1>2. Inv /\ Authorised /\ Backed /\ [Next]_vars
      => Inv' /\ Authorised' /\ Backed' /\ [Gate!Next]_(Gate!gateVars)
  BY StepInv, AuthorisedStep, BackedStep, StepGate
<1> QED
  BY <1>1, <1>2, PTL DEF Spec, ImplementsGate, Gate!Spec

-----------------------------------------------------------------------------
(* One process: what it has read of a row is what the row says. *)

Alone == \A p, q \in Procs : p = q

\* The calls that the loop of activate_live_kill_switch makes.
NestedOps   == {"activate", "cancel", "withdraw"}
NestedSteps == {"expire", "reread", "refreshed"}

\* A call c of the only process, when the rows say st: it knows its row, it sends for
\* an approved row, and the rows its activation has still to cancel are all of the
\* queued ones.
Tidy(c, st) ==
  /\ c.at = "refreshed" => c.seen = st[c.act]
  /\ c.at \in {"preview", "send"} => st[c.act] = "approved"
  /\ c.nested => c.op \in NestedOps /\ c.at \in NestedSteps
  /\ c.op = "activate" /\ c.at \in NestedSteps => c.nested
  /\ c.nested \/ c.at = "cancelqueued" =>
       \A a \in Actions : st[a] \in Expirable => a \in c.todo \/ (c.nested /\ a = c.act)
  /\ c.at = "scan" => \A a \in Actions : st[a] \notin Expirable

Solo == \A p \in Procs : Tidy(call[p], status)

\* A call that is at none of the steps Tidy is about.
LEMMA PlainTidy ==
  ASSUME NEW c, NEW st, ~c.nested,
         c.at \notin NestedSteps \cup {"preview", "send", "cancelqueued", "scan"}
  PROVE  Tidy(c, st)
BY DEF Tidy, NestedSteps

LEMMA IdleTidy == ASSUME NEW st PROVE Tidy(Idle, st)
<1>1. ~Idle.nested /\ Idle.at = "idle"
  BY DEF Idle
<1> QED
  BY <1>1, PlainTidy DEF NestedSteps

LEMMA BecomeTidy ==
  ASSUME NEW p \in Procs, NEW c, TypeOK, Become(p, c), Tidy(c, status')
  PROVE  Tidy(call[p], status)'
<1>1. call'[p] = c
  BY DEF TypeOK, Become
<1> QED
  BY <1>1

\* A step to s that leaves the rows as they are, of a call that is not nested.
LEMMA GoTidy ==
  ASSUME NEW p \in Procs, NEW s, TypeOK, Go(p, s), ~call[p].nested,
         s \notin NestedSteps \cup {"preview", "send", "cancelqueued", "scan"}
  PROVE  Tidy(call[p], status)'
<1> DEFINE c == [call[p] EXCEPT !.at = s]
<1>1. ~c.nested /\ c.at = s
  BY DEF TypeOK, Calls
<1>2. Become(p, c)
  BY DEF Go
<1> HIDE DEF c
<1> QED
  BY <1>1, <1>2, PlainTidy, BecomeTidy

\* A return to the loop: the row of the call is queued no more.
LEMMA ReturnTidy ==
  ASSUME NEW p \in Procs, TypeOK, Tidy(call[p], status), Return(p),
         call[p].nested => \A a \in Actions : status'[a] \in Expirable =>
                             status[a] \in Expirable /\ a # call[p].act
  PROVE  Tidy(call[p], status)'
<1> DEFINE back == [Idle EXCEPT !.at = "cancelqueued", !.op = "activate",
                                !.todo = call[p].todo]
<1>1. ~back.nested /\ back.at = "cancelqueued" /\ back.todo = call[p].todo
  BY DEF Idle
<1>2. Become(p, IF call[p].nested THEN back ELSE Idle)
  BY DEF Return
<1> HIDE DEF back
<1>3. CASE call[p].nested
  <2>1. Tidy(back, status')
    BY <1>1, <1>3 DEF Tidy, NestedSteps
  <2>2. Become(p, back)
    BY <1>2, <1>3
  <2> QED
    BY <2>1, <2>2, BecomeTidy
<1>4. CASE ~call[p].nested
  BY <1>2, <1>4, IdleTidy, BecomeTidy
<1> QED
  BY <1>3, <1>4

\* A call that reads row a, in the loop or not.
LEMMA ReadRowTidy ==
  ASSUME NEW p \in Procs, NEW op, NEW a \in Actions, NEW n \in BOOLEAN, NEW t,
         TypeOK, ReadRow(p, op, a, n, t), status' = status,
         n \/ op # "activate",
         n => /\ op \in NestedOps
              /\ \A b \in Actions : status[b] \in Expirable => b \in t \/ b = a
  PROVE  Tidy(call[p], status)'
<1> DEFINE c == [at     |-> IF status[a] \in Expirable /\ due[a] THEN "expire"
                                                                ELSE "refreshed",
                 op     |-> op,   act  |-> a, seen   |-> status[a],
                 ack    |-> 0,    todo |-> t, nested |-> n]
<1>1. /\ c.act = a /\ c.at \in {"expire", "refreshed"} /\ c.seen = status[a]
      /\ c.op = op /\ c.todo = t /\ c.nested = n
  OBVIOUS
<1>2. Become(p, c)
  BY DEF ReadRow
<1> HIDE DEF c
<1>3. Tidy(c, status')
  BY <1>1 DEF Tidy, NestedSteps
<1> QED
  BY <1>2, <1>3, BecomeTidy

LEMMA EveryStepIsTidy ==
  ASSUME NEW p \in Procs, Inv, Tidy(call[p], status), ProcStep(p)
  PROVE  Tidy(call[p], status)'
<1>t. TypeOK /\ call[p] \in Calls
  BY DEF Inv, TypeOK
<1>c. call[p].at \in RowSteps => call[p].act \in Actions
  BY DEF Inv, CallOK
<1>n. /\ call[p].nested => call[p].op \in NestedOps /\ call[p].at \in NestedSteps
      /\ call[p].op = "activate" /\ call[p].at \in NestedSteps => call[p].nested
      /\ call[p].at = "refreshed" => call[p].seen = status[call[p].act]
  BY DEF Tidy
<1>q. call[p].nested \/ call[p].at = "cancelqueued" =>
        \A a \in Actions : status[a] \in Expirable =>
          a \in call[p].todo \/ (call[p].nested /\ a = call[p].act)
  BY DEF Tidy
<1>i. Idle \in Calls /\ ~Idle.nested
  BY IdleIsCall DEF Idle
<1> HIDE DEF Inv
<1>1. ASSUME \/ ProposalBlocked(p) \/ EndSweep(p) \/ SubmitUnapproved(p)
             \/ WriteBlocked(p) \/ WriteFailed(p) \/ RecordRun(p) \/ Disarm(p)
             \/ EndActivation(p) \/ \E a \in Actions : InsertAction(p, a)
      PROVE  Tidy(call[p], status)'
  <2>1. Return(p)
    BY <1>1 DEF ProposalBlocked, EndSweep, SubmitUnapproved, WriteBlocked, WriteFailed,
         RecordRun, Disarm, EndActivation, InsertAction
  <2>2. ~call[p].nested
    BY <1>1, <1>n DEF ProposalBlocked, EndSweep, SubmitUnapproved, WriteBlocked,
         WriteFailed, RecordRun, Disarm, EndActivation, InsertAction, At, NestedOps,
         NestedSteps
  <2> QED
    BY <2>1, <2>2, <1>t, ReturnTidy
<1>2. ASSUME SendRefused(p) \/ WriteSucceeded(p) \/ Arm(p)
      PROVE  Tidy(call[p], status)'
  <2>1. \E s \in {"fail", "record", "list"} : Go(p, s)
    BY <1>2 DEF SendRefused, WriteSucceeded, Arm
  <2>2. ~call[p].nested
    BY <1>2, <1>n DEF SendRefused, WriteSucceeded, Arm, At, NestedSteps
  <2> QED
    BY <2>1, <2>2, <1>t, GoTidy DEF NestedSteps
<1>3. CASE RefuseExpired(p)
  <2>1. call[p].act \in Actions /\ status[call[p].act] = "expired"
    BY <1>3, <1>c, <1>n DEF RefuseExpired, Decides, RowSteps
  <2>2. Return(p) /\ status' = status
    BY <1>3 DEF RefuseExpired, data
  <2> QED
    BY <2>1, <2>2, <1>t, ReturnTidy DEF Expirable
<1>4. CASE WriteDecision(p)
  <2>1. Return(p) /\ SetStatus(call[p].act, DecisionOf(call[p].op))
    BY <1>4 DEF WriteDecision
  <2>2. call[p].nested => DecisionOf(call[p].op) = "canceled"
    BY <1>4, <1>n DEF WriteDecision, Decides, NestedOps, DecisionOf
  <2>3. call[p].nested => \A a \in Actions : status'[a] \in Expirable =>
                            status[a] \in Expirable /\ a # call[p].act
    BY <2>1, <2>2, <1>t DEF SetStatus, TypeOK, Expirable
  <2> QED
    BY <2>1, <2>3, <1>t, ReturnTidy
<1>5. CASE WriteExpired(p)
  <2> DEFINE c == [call[p] EXCEPT !.at = "reread"]
             b == call[p].act
  <2>1. /\ c.at = "reread" /\ c.op = call[p].op /\ c.act = b /\ c.todo = call[p].todo
        /\ c.nested = call[p].nested
    BY <1>t DEF Calls
  <2>2. /\ Become(p, c) /\ status' = [status EXCEPT ![b] = "expired"]
        /\ call[p].at = "expire"
    BY <1>5 DEF WriteExpired, Go, SetStatus
  <2>3. \A a \in Actions : status'[a] \in Expirable => status[a] \in Expirable
    BY <2>2, <1>t DEF TypeOK, Expirable
  <2> HIDE DEF c
  <2>4. Tidy(c, status')
    BY <2>1, <2>2, <2>3, <1>n, <1>q DEF Tidy, NestedSteps
  <2> QED
    BY <2>2, <2>4, <1>t, BecomeTidy
<1>6. CASE Reread(p)
  <2> DEFINE c == [call[p] EXCEPT !.at = "refreshed", !.seen = status[call[p].act]]
  <2>1. /\ c.at = "refreshed" /\ c.op = call[p].op /\ c.act = call[p].act
        /\ c.todo = call[p].todo /\ c.nested = call[p].nested
        /\ c.seen = status[call[p].act]
    BY <1>t DEF Calls
  <2>2. Become(p, c) /\ status' = status /\ call[p].at = "reread"
    BY <1>6 DEF Reread, data
  <2> HIDE DEF c
  <2>4. Tidy(c, status')
    BY <2>1, <2>2, <1>n, <1>q DEF Tidy, NestedSteps
  <2> QED
    BY <2>2, <2>4, <1>t, BecomeTidy
<1>7. CASE CancelGuard(p) \/ CancelRefreshed(p)
  <2> DEFINE b == call[p].act
  <2>1. /\ call[p].at = "refreshed" /\ b \in Actions /\ status' = status
        /\ call[p].seen = status[b]
    BY <1>7, <1>c, <1>n DEF CancelGuard, CancelRefreshed, At, RowSteps, data
  <2>2. CASE call[p].seen \in Expirable
    <3>1. \/ ReadRow(p, "withdraw", b, call[p].nested, call[p].todo)
          \/ ReadRow(p, "cancel", b, TRUE, call[p].todo) /\ CancelRefreshed(p)
      BY <1>7, <2>2 DEF CancelGuard, CancelRefreshed
    <3>2. CASE ReadRow(p, "withdraw", b, call[p].nested, call[p].todo)
      <4>1. call[p].nested \in BOOLEAN
        BY <1>t DEF Calls
      <4>2. call[p].nested => \A a \in Actions : status[a] \in Expirable =>
                                a \in call[p].todo \/ a = b
        BY <1>q
      <4> QED
        BY <2>1, <3>2, <4>1, <4>2, <1>t, ReadRowTidy DEF NestedOps
    <3>3. CASE ReadRow(p, "cancel", b, TRUE, call[p].todo) /\ CancelRefreshed(p)
      <4>1. call[p].nested
        BY <3>3, <1>n DEF CancelRefreshed, At, NestedSteps
      <4>2. \A a \in Actions : status[a] \in Expirable => a \in call[p].todo \/ a = b
        BY <4>1, <1>q
      <4> QED
        BY <2>1, <3>3, <4>2, <1>t, ReadRowTidy DEF NestedOps
    <3> QED
      BY <3>1, <3>2, <3>3
  <2>3. CASE call[p].seen \notin Expirable
    <3>1. Return(p)
      BY <1>7, <2>3 DEF CancelGuard, CancelRefreshed
    <3> QED
      BY <2>1, <2>3, <3>1, <1>t, ReturnTidy
  <2> QED
    BY <2>2, <2>3
<1>8. CASE CheckKillSwitch(p) \/ Dispatch(p)
  <2>1. /\ call[p].at = "refreshed" /\ call[p].op \in {"submit", "dispatch"}
        /\ status' = status
    BY <1>8 DEF CheckKillSwitch, Dispatch, At, data
  <2>2. ~call[p].nested
    BY <2>1, <1>n DEF NestedOps
  <2>3. CASE Return(p)
    BY <2>2, <2>3, <1>t, ReturnTidy
  <2>4. CASE Go(p, "block")
    BY <2>2, <2>4, <1>t, GoTidy DEF NestedSteps
  <2>5. CASE Go(p, "preview") /\ CheckKillSwitch(p)
    <3> DEFINE c == [call[p] EXCEPT !.at = "preview"]
    <3>1. ~c.nested /\ c.at = "preview" /\ c.act = call[p].act
      BY <2>2, <1>t DEF Calls
    <3>2. Become(p, c)
      BY <2>5 DEF Go
    <3>3. status'[call[p].act] = "approved"
      BY <2>1, <2>5, <1>n DEF CheckKillSwitch
    <3> HIDE DEF c
    <3>4. Tidy(c, status')
      BY <3>1, <3>3 DEF Tidy, NestedSteps
    <3> QED
      BY <3>2, <3>4, <1>t, BecomeTidy
  <2> QED
    BY <1>8, <2>3, <2>4, <2>5 DEF CheckKillSwitch, Dispatch
<1>9. CASE PreviewLive(p)
  <2>1. call[p].at = "preview" /\ status' = status /\ status[call[p].act] = "approved"
    BY <1>9 DEF PreviewLive, data, Tidy
  <2>2. ~call[p].nested
    BY <2>1, <1>n DEF NestedSteps
  <2>3. PICK s \in {"send", "block"} : Go(p, s)
    BY <1>9 DEF PreviewLive
  <2> DEFINE c == [call[p] EXCEPT !.at = s]
  <2>4. ~c.nested /\ c.at = s /\ c.act = call[p].act
    BY <2>2, <1>t DEF Calls
  <2>5. Become(p, c)
    BY <2>3 DEF Go
  <2> HIDE DEF c
  <2>6. Tidy(c, status')
    BY <2>1, <2>3, <2>4 DEF Tidy, NestedSteps
  <2> QED
    BY <2>5, <2>6, <1>t, BecomeTidy
<1>10. CASE SendAccepted(p)
  <2>1. ~call[p].nested
    BY <1>10, <1>n DEF SendAccepted, NestedSteps
  <2> DEFINE c == [call[p] EXCEPT !.at = "succeed", !.ack = Len(orders) + 1]
  <2>2. ~c.nested /\ c.at = "succeed"
    BY <2>1, <1>t DEF Calls
  <2>3. Become(p, c) \/ Go(p, "fail")
    BY <1>10 DEF SendAccepted
  <2> HIDE DEF c
  <2>4. CASE Become(p, c)
    BY <2>2, <2>4, <1>t, PlainTidy, BecomeTidy DEF NestedSteps
  <2>5. CASE Go(p, "fail")
    BY <2>1, <2>5, <1>t, GoTidy DEF NestedSteps
  <2> QED
    BY <2>3, <2>4, <2>5
<1>11. ASSUME NEW a \in Actions, NEW op \in Ops, StartCall(p, op, a)
       PROVE  Tidy(call[p], status)'
  <2>1. ReadRow(p, op, a, FALSE, {}) /\ status' = status /\ op # "activate"
    BY <1>11 DEF StartCall, data
  <2> QED
    BY <2>1, <1>t, ReadRowTidy
<1>12. ASSUME NEW c, ~c.nested, Become(p, c),
              c.at \notin NestedSteps \cup {"preview", "send", "cancelqueued", "scan"}
       PROVE  Tidy(call[p], status)'
  BY <1>12, <1>t, PlainTidy, BecomeTidy
<1>13. CASE Crash(p)
  BY <1>13, <1>t, IdleTidy, BecomeTidy DEF Crash
<1>14. CASE Propose(p)
  <2> DEFINE c == [Idle EXCEPT !.at = "insert", !.op = "propose"]
  <2>1. ~c.nested /\ c.at = "insert" /\ Become(p, c)
    BY <1>14 DEF Propose, Idle
  <2> HIDE DEF c
  <2> QED
    BY <2>1, <1>12 DEF NestedSteps
<1>15. CASE ListExpired(p)
  <2> DEFINE c == [Idle EXCEPT !.at = "sweep", !.op = "expire",
                          !.todo = {a \in Actions : status[a] \in Expirable /\ due[a]}]
  <2>1. ~c.nested /\ c.at = "sweep" /\ Become(p, c)
    BY <1>15 DEF ListExpired, Idle
  <2> HIDE DEF c
  <2> QED
    BY <2>1, <1>12 DEF NestedSteps
<1>16. ASSUME NEW op \in {"activate", "deactivate"}, WriteSwitch(p, op)
       PROVE  Tidy(call[p], status)'
  <2> DEFINE c == [Idle EXCEPT !.at = IF op = "activate" THEN "arm" ELSE "disarm",
                          !.op = op]
  <2>1. ~c.nested /\ c.at \in {"arm", "disarm"} /\ Become(p, c)
    BY <1>16 DEF WriteSwitch, Idle
  <2> HIDE DEF c
  <2> QED
    BY <2>1, <1>12 DEF NestedSteps
<1>17. ASSUME NEW a \in Actions, ExpireListed(p, a)
       PROVE  Tidy(call[p], status)'
  <2> DEFINE c == [call[p] EXCEPT !.todo = @ \ {a}]
  <2>1. call[p].at = "sweep" /\ Become(p, c)
    BY <1>17 DEF ExpireListed, At
  <2>2. ~call[p].nested
    BY <2>1, <1>n DEF NestedSteps
  <2>3. ~c.nested /\ c.at = "sweep"
    BY <2>1, <2>2, <1>t DEF Calls
  <2> HIDE DEF c
  <2> QED
    BY <2>1, <2>3, <1>12 DEF NestedSteps
<1>18. CASE ListQueued(p)
  <2> DEFINE todo == {a \in Actions : status[a] \in Expirable}
             c == [call[p] EXCEPT !.at = "cancelqueued", !.todo = todo]
  <2>1. call[p].at = "list" /\ Become(p, c) /\ status' = status
    BY <1>18 DEF ListQueued, At, data
  <2>2. ~call[p].nested
    BY <2>1, <1>n DEF NestedSteps
  <2>3. ~c.nested /\ c.at = "cancelqueued" /\ c.todo = todo
    BY <2>2, <1>t DEF Calls
  <2> HIDE DEF c
  <2>4. Tidy(c, status')
    BY <2>1, <2>3 DEF Tidy, NestedSteps
  <2> QED
    BY <2>1, <2>4, <1>t, BecomeTidy
<1>19. ASSUME NEW a \in Actions, CancelQueued(p, a)
       PROVE  Tidy(call[p], status)'
  <2> DEFINE rest == call[p].todo \ {a}
             c == [call[p] EXCEPT !.at = "expire", !.act = a,
                                  !.todo = @ \ {a}, !.nested = TRUE]
  <2>1. /\ call[p].at = "cancelqueued" /\ call[p].op = "activate" /\ status' = status
        /\ IF due[a] THEN Become(p, c) ELSE ReadRow(p, "cancel", a, TRUE, rest)
    BY <1>19 DEF CancelQueued, At, data
  <2>2. \A b \in Actions : status[b] \in Expirable => b \in rest \/ b = a
    BY <2>1, <1>n, <1>q DEF NestedSteps
  <2>3. /\ c.at = "expire" /\ c.act = a /\ c.todo = rest /\ c.nested
        /\ c.op = "activate"
    BY <2>1, <1>t DEF Calls
  <2> HIDE DEF c, rest
  <2>4. CASE due[a]
    <3>1. Tidy(c, status')
      BY <2>1, <2>2, <2>3 DEF Tidy, NestedSteps, NestedOps
    <3> QED
      BY <2>1, <2>4, <3>1, <1>t, BecomeTidy
  <2>5. CASE ~due[a]
    BY <2>1, <2>2, <2>5, <1>t, ReadRowTidy DEF NestedOps
  <2> QED
    BY <2>4, <2>5
<1>20. ASSUME NEW c, ~c.nested, c.at = "scan", Become(p, c), status' = status,
              \A a \in Actions : status[a] \notin Expirable
       PROVE  Tidy(call[p], status)'
  <2>1. Tidy(c, status')
    BY <1>20 DEF Tidy, NestedSteps
  <2> QED
    BY <1>20, <2>1, <1>t, BecomeTidy
<1>21. CASE ListSubmitted(p)
  <2> DEFINE c == [call[p] EXCEPT !.at = "scan",
                             !.todo = {a \in Actions : status[a] # "absent"}]
  <2>1. /\ call[p].at = "cancelqueued" /\ call[p].todo = {} /\ Become(p, c)
        /\ status' = status
    BY <1>21 DEF ListSubmitted, At, data
  <2>2. ~call[p].nested
    BY <2>1, <1>n DEF NestedSteps
  <2>3. ~c.nested /\ c.at = "scan"
    BY <2>2, <1>t DEF Calls
  <2> HIDE DEF c
  <2>4. \A a \in Actions : status[a] \notin Expirable
    BY <2>1, <2>2, <1>q
  <2> QED
    BY <2>1, <2>3, <2>4, <1>20
<1>22. ASSUME NEW a \in Actions, CancelSubmitted(p, a)
       PROVE  Tidy(call[p], status)'
  <2> DEFINE c == [call[p] EXCEPT !.todo = @ \ {a}]
  <2>1. call[p].at = "scan" /\ Become(p, c) /\ status' = status
    BY <1>22 DEF CancelSubmitted, At
  <2>2. ~call[p].nested
    BY <2>1, <1>n DEF NestedSteps
  <2>3. ~c.nested /\ c.at = "scan"
    BY <2>1, <2>2, <1>t DEF Calls
  <2> HIDE DEF c
  <2>4. \A b \in Actions : status[b] \notin Expirable
    BY <2>1 DEF Tidy
  <2> QED
    BY <2>1, <2>3, <2>4, <1>20
<1> QED
  BY <1>1, <1>2, <1>3, <1>4, <1>5, <1>6, <1>7, <1>8, <1>9, <1>10, <1>11, <1>13, <1>14,
     <1>15, <1>16, <1>17, <1>18, <1>19, <1>21, <1>22
     DEF ProcStep, RowStep, DecideStep, SubmitStep, KillStep

LEMMA SoloStep == Alone /\ Inv /\ Solo /\ [Next]_vars => Solo'
<1> SUFFICES ASSUME Alone, Inv, Solo, [Next]_vars PROVE Solo'
  OBVIOUS
<1>1. ASSUME NEW p \in Procs, ProcStep(p) PROVE Solo'
  <2>1. Tidy(call[p], status)'
    BY <1>1, EveryStepIsTidy DEF Solo
  <2>2. \A q \in Procs : q = p
    BY DEF Alone
  <2> QED
    BY <2>1, <2>2 DEF Solo
<1>2. CASE (\E a \in Actions : Elapse(a)) \/ UNCHANGED vars
  <2>1. status' = status /\ call' = call
    BY <1>2 DEF Elapse, vars, data
  <2> QED
    BY <2>1 DEF Solo
<1> QED
  BY <1>1, <1>2 DEF Next

LEMMA InitSolo == Init => Solo
BY IdleTidy DEF Init, Solo

\* Of a single process, that may die anywhere: when activation reaches the broker, no
\* row is queued any more; the loop over a listing misses none
\* (runtime.py:1973).
THEOREM EmptiesQueue == ASSUME Alone PROVE Spec => []QueueIsEmptied
<1>1. Init => Inv /\ Solo
  BY InitInv, InitSolo
<1>2. Inv /\ Solo /\ [Next]_vars => (Inv /\ Solo)'
  BY StepInv, SoloStep
<1>3. Solo => QueueIsEmptied
  BY DEF Solo, Tidy, QueueIsEmptied, At
<1> QED
  BY <1>1, <1>2, <1>3, PTL DEF Spec

-----------------------------------------------------------------------------
(* One process that does not die: an approval pays for one order. *)

\* The last step of a submission: it is about to say what became of its order.
Closing == {"fail", "succeed"}

\* An approval that a row still shows has not paid for an order, unless the call
\* that sent the order is about to overwrite it.
Paid ==
  \A a \in Actions :
    /\ IsFiniteSet(OrdersOf(a))
    /\ Cardinality(OrdersOf(a)) <= approvals[a]
    /\ status[a] = "approved" =>
         \/ Cardinality(OrdersOf(a)) < approvals[a]
         \/ \E p \in Procs : call[p].at \in Closing /\ call[p].act = a

LEMMA PaidStep ==
  ASSUME Alone, ~Crashes
  PROVE  Inv /\ Solo /\ Paid /\ [Next]_vars => Paid'
<1> SUFFICES ASSUME Inv, Solo, Paid, [Next]_vars PROVE Paid'
  OBVIOUS
<1>t. TypeOK /\ CallOK
  BY DEF Inv
<1>1. ASSUME NEW p \in Procs, ProcStep(p) PROVE Paid'
  <2>1. Effect(p) /\ call[p] \in Calls /\ \A q \in Procs : q = p
    BY <1>1, <1>t, EveryStepHasEffect DEF TypeOK, Alone
  <2>n. \A a \in Actions : Cardinality(OrdersOf(a)) \in Nat /\ approvals[a] \in Nat
    BY <1>t, FS_CardinalityType DEF Paid, TypeOK
  <2>2. ASSUME UNCHANGED <<orders, approvals>>,
               \A a \in Actions : status'[a] = "approved" =>
                 /\ status[a] = "approved"
                 /\ ~(call[p].at \in Closing /\ call[p].act = a)
        PROVE  Paid'
    BY <2>1, <2>2 DEF Paid, OrdersOf
  <2>3. CASE WriteFailed(p) \/ WriteSucceeded(p)
    <3>1. \E s \in {"failed", "succeeded"} : SetStatus(call[p].act, s)
      BY <2>3 DEF WriteFailed, WriteSucceeded
    <3>2. UNCHANGED <<orders, approvals>>
      BY <2>3 DEF WriteFailed, WriteSucceeded
    <3>3. \A a \in Actions : status'[a] = "approved" =>
            status[a] = "approved" /\ a # call[p].act
      BY <3>1, <1>t DEF SetStatus, TypeOK
    <3> QED
      BY <2>2, <3>2, <3>3
  <2>4. CASE ~(WriteFailed(p) \/ WriteSucceeded(p))
    <3>1. call[p].at \notin Closing
      <4>1. call[p] = Idle => call[p].at \notin Closing
        BY DEF Idle, Closing
      <4>2. CASE DecideStep(p)
        BY <4>2 DEF DecideStep, RefuseExpired, WriteDecision, Decides, CancelGuard, At,
             Closing
      <4>3. CASE SubmitStep(p)
        BY <2>4, <4>3 DEF SubmitStep, SubmitUnapproved, CheckKillSwitch, PreviewLive,
             SendAccepted, SendRefused, WriteBlocked, RecordRun, At, Closing
      <4>4. CASE KillStep(p)
        BY <4>1, <4>4 DEF KillStep, WriteSwitch, Arm, Disarm, ListQueued,
             CancelRefreshed, ListSubmitted, EndActivation, At, Closing
      <4>5. CASE \E a \in Actions : RowStep(p, a)
        BY <4>1, <4>5 DEF RowStep, InsertAction, StartCall, ExpireListed, CancelQueued,
             CancelSubmitted, At, Closing
      <4>6. CASE \/ Propose(p) \/ ProposalBlocked(p) \/ WriteExpired(p) \/ Reread(p)
                 \/ ListExpired(p) \/ EndSweep(p) \/ Dispatch(p)
        BY <4>1, <4>6 DEF Propose, ProposalBlocked, WriteExpired, Reread, ListExpired,
             EndSweep, Dispatch, At, Closing
      <4> QED
        BY <1>1, <4>2, <4>3, <4>4, <4>5, <4>6 DEF ProcStep, Crash
    <3>2. \A a \in Actions : status[a] = "approved" =>
            Cardinality(OrdersOf(a)) < approvals[a]
      BY <2>1, <3>1 DEF Paid
    <3>3. CASE WriteDecision(p)
      <4> DEFINE b == call[p].act
      <4>1. b \in Actions /\ orders' = orders
        BY <3>3, <1>t DEF WriteDecision, Decides, CallOK, RowSteps
      <4> DEFINE d == DecisionOf(call[p].op)
      <4>2. /\ status' = [status EXCEPT ![b] = d]
            /\ approvals' = [approvals EXCEPT ![b] = IF d = "approved" THEN @ + 1 ELSE @]
        BY <3>3 DEF WriteDecision, SetStatus
      <4> HIDE DEF b, d
      <4>3. ASSUME NEW a \in Actions
            PROVE  /\ approvals'[a] >= approvals[a]
                   /\ status'[a] = "approved" =>
                        \/ status[a] = "approved"
                        \/ approvals'[a] = approvals[a] + 1
        <5>1. CASE a = b
          BY <4>2, <5>1, <2>n, <1>t DEF TypeOK
        <5>2. CASE a # b
          BY <4>2, <5>2, <2>n, <1>t DEF TypeOK
        <5> QED
          BY <5>1, <5>2
      <4>4. \A a \in Actions : OrdersOf(a)' = OrdersOf(a) /\ approvals'[a] \in Nat
        BY <4>1, <4>2, <2>n, <1>t DEF OrdersOf, TypeOK
      <4>5. ASSUME NEW a \in Actions
            PROVE  /\ IsFiniteSet(OrdersOf(a)')
                   /\ Cardinality(OrdersOf(a)') <= approvals'[a]
                   /\ status'[a] = "approved" =>
                        Cardinality(OrdersOf(a)') < approvals'[a]
        <5>1. /\ IsFiniteSet(OrdersOf(a)) /\ Cardinality(OrdersOf(a)) <= approvals[a]
              /\ OrdersOf(a)' = OrdersOf(a)
          BY <4>4 DEF Paid
        <5>2. Cardinality(OrdersOf(a)') = Cardinality(OrdersOf(a))
          BY <5>1
        <5> QED
          BY <3>2, <4>3, <4>4, <5>1, <5>2, <2>n
      <4> QED
        BY <4>5 DEF Paid
    <3>4. CASE SendAccepted(p)
      <4> DEFINE b == call[p].act
      <4>1. /\ call[p].at = "send" /\ orders' = Append(orders, b)
            /\ UNCHANGED <<status, approvals>>
        BY <3>4 DEF SendAccepted
      <4>2. b \in Actions /\ status[b] = "approved"
        BY <4>1, <1>t DEF CallOK, RowSteps, Solo, Tidy
      <4>3. call'[p].at \in Closing /\ call'[p].act = b
        <5> DEFINE c == [call[p] EXCEPT !.at = "succeed", !.ack = Len(orders) + 1]
                   d == [call[p] EXCEPT !.at = "fail"]
        <5>1. c.at = "succeed" /\ c.act = b /\ d.at = "fail" /\ d.act = b
          BY <2>1 DEF Calls
        <5>2. Become(p, c) \/ Become(p, d)
          BY <3>4 DEF SendAccepted, Go
        <5> HIDE DEF c, d
        <5>3. call'[p] = c \/ call'[p] = d
          BY <5>2, <1>t DEF Become, TypeOK
        <5> QED
          BY <5>1, <5>3 DEF Closing
      <4> HIDE DEF b
      <4>4. ASSUME NEW a \in Actions
            PROVE  OrdersOf(a)' = IF a = b THEN OrdersOf(a) \cup {Len(orders) + 1}
                                  ELSE OrdersOf(a)
        <5>1. orders \in Seq(Actions) /\ Len(orders) \in Nat
          BY <1>t DEF TypeOK
        <5>2. /\ DOMAIN orders = 1 .. Len(orders)
              /\ DOMAIN orders' = 1 .. Len(orders) + 1
              /\ \A i \in 1 .. Len(orders) : orders'[i] = orders[i]
              /\ orders'[Len(orders) + 1] = b
          BY <4>1, <4>2, <5>1
        <5> QED
          BY <5>1, <5>2 DEF OrdersOf
      <4>5. ASSUME NEW a \in Actions
            PROVE  /\ IsFiniteSet(OrdersOf(a)')
                   /\ Cardinality(OrdersOf(a)') <= approvals'[a]
                   /\ status'[a] = "approved" =>
                        \/ Cardinality(OrdersOf(a)') < approvals'[a]
                        \/ call'[p].at \in Closing /\ call'[p].act = a
        <5>1. IsFiniteSet(OrdersOf(a)) /\ Cardinality(OrdersOf(a)) <= approvals[a]
          BY DEF Paid
        <5>2. CASE a = b
          <6>1. Cardinality(OrdersOf(a)) + 1 <= approvals[a]
            BY <3>2, <4>2, <5>2, <2>n
          <6>2. OrdersOf(a)' = OrdersOf(a) \cup {Len(orders) + 1}
            BY <4>4, <5>2
          <6>3. /\ IsFiniteSet(OrdersOf(a)')
                /\ Cardinality(OrdersOf(a)') \in {Cardinality(OrdersOf(a)),
                                                 Cardinality(OrdersOf(a)) + 1}
            BY <5>1, <6>2, FS_AddElement
          <6> QED
            BY <4>1, <4>3, <5>1, <5>2, <6>1, <6>3, <2>n
        <5>3. CASE a # b
          <6>1. OrdersOf(a)' = OrdersOf(a)
            BY <4>4, <5>3
          <6>2. Cardinality(OrdersOf(a)') = Cardinality(OrdersOf(a))
            BY <6>1
          <6> QED
            BY <3>2, <4>1, <5>1, <6>1, <6>2
        <5> QED
          BY <5>2, <5>3
      <4> QED
        BY <4>5 DEF Paid
    <3>5. CASE Mark
      <4>1. \A a \in Actions : status'[a] = "approved" => status[a] = "approved"
        BY <3>5, <1>t DEF Mark, SetStatus, TypeOK
      <4> QED
        BY <2>2, <3>1, <3>5, <4>1 DEF Mark
    <3>6. CASE UNCHANGED <<status, orders, approvals>>
      BY <2>2, <3>1, <3>6
    <3> QED
      BY <2>1, <2>4, <3>3, <3>4, <3>5, <3>6
         DEF Effect, data, Fill, RecordRun, CancelSubmitted
  <2> QED
    BY <2>3, <2>4
<1>2. CASE (\E a \in Actions : Elapse(a)) \/ UNCHANGED vars
  <2>1. UNCHANGED <<status, call, orders, approvals>>
    BY <1>2 DEF Elapse, vars, data
  <2> QED
    BY <2>1 DEF Paid, OrdersOf
<1> QED
  BY <1>1, <1>2 DEF Next

LEMMA InitPaid == Init => Paid
<1> SUFFICES ASSUME Init, NEW a \in Actions
             PROVE  /\ IsFiniteSet(OrdersOf(a))
                    /\ Cardinality(OrdersOf(a)) <= approvals[a]
                    /\ status[a] # "approved"
  BY DEF Paid
<1>1. OrdersOf(a) = {} /\ approvals[a] = 0 /\ status[a] = "absent"
  BY DEF Init, OrdersOf
<1> QED
  BY <1>1, FS_EmptySet

\* Of a single process that does not die between sending an order and saying so: a row
\* has at most as many orders as approvals, however often it is submitted, canceled,
\* expired and approved again (submit_live_order_action).
THEOREM ApprovalsPayOnce ==
  ASSUME Alone, ~Crashes PROVE Spec => []OneOrderPerApproval
<1>1. Init => Inv /\ Solo /\ Paid
  BY InitInv, InitSolo, InitPaid
<1>2. Inv /\ Solo /\ Paid /\ [Next]_vars => (Inv /\ Solo /\ Paid)'
  BY StepInv, SoloStep, PaidStep
<1>3. Paid => OneOrderPerApproval
  BY DEF Paid, OneOrderPerApproval
<1> QED
  BY <1>1, <1>2, <1>3, PTL DEF Spec

-----------------------------------------------------------------------------
(* One process: activation asks for the newest order of every action. *)

Newest ==
  /\ \A a \in Actions : evidence[a] # << >> => status[a] # "absent"
  /\ \A a \in Actions : \A j, k \in DOMAIN evidence[a] :
       j < k => evidence[a][k] < evidence[a][j]
  /\ \A p \in Procs : call[p].at \in Acked =>
       /\ status[call[p].act] # "absent"
       /\ \A a \in Actions : \A j \in DOMAIN evidence[a] : evidence[a][j] < call[p].ack
  /\ \A p \in Procs : call[p].at = "scan" =>
       \A a \in Actions : a \notin call[p].todo /\ evidence[a] # << >> =>
         evidence[a][1] \in asked

\* A row, once inserted, is there.
LEMMA RowsStay ==
  ASSUME NEW p \in Procs, Inv, ProcStep(p), NEW a \in Actions, status[a] # "absent"
  PROVE  status'[a] # "absent"
<1>t. status \in [Actions -> Statuses]
  BY DEF Inv, TypeOK
<1>1. CASE Mark \/ WriteSucceeded(p)
  BY <1>1, <1>t DEF Mark, WriteSucceeded, SetStatus
<1>2. CASE WriteDecision(p)
  BY <1>2, <1>t DEF WriteDecision, SetStatus, DecisionOf
<1> QED
  BY <1>1, <1>2, EveryStepHasEffect
     DEF Effect, data, Fill, SendAccepted, RecordRun, CancelSubmitted

LEMMA BecomesElse ==
  ASSUME NEW p \in Procs, NEW c, TypeOK, Become(p, c), c.at # "scan"
  PROVE  call'[p].at # "scan"
BY DEF TypeOK, Become

\* A call is in the broker scan after a step only if it has begun or continued it.
LEMMA OnlyScanSteps ==
  ASSUME NEW p \in Procs, Inv, ProcStep(p), call'[p].at = "scan"
  PROVE  ListSubmitted(p) \/ \E a \in Actions : CancelSubmitted(p, a)
<1>t. TypeOK /\ call[p] \in Calls
  BY DEF Inv, TypeOK
<1> HIDE DEF Inv
<1>r. ~Return(p)
  <2> DEFINE back == [Idle EXCEPT !.at = "cancelqueued", !.op = "activate",
                                  !.todo = call[p].todo]
             c == IF call[p].nested THEN back ELSE Idle
  <2>1. c.at # "scan"
    BY DEF Idle
  <2> HIDE DEF c
  <2> QED
    BY <2>1, <1>t, BecomesElse DEF Return, c
<1>g. \A s : Go(p, s) => s = "scan"
  <2> SUFFICES ASSUME NEW s, Go(p, s), s # "scan" PROVE FALSE
    OBVIOUS
  <2> DEFINE c == [call[p] EXCEPT !.at = s]
  <2>1. c.at # "scan"
    BY <1>t DEF Calls
  <2> HIDE DEF c
  <2> QED
    BY <2>1, <1>t, BecomesElse DEF Go, c
<1>d. \A op, a, n, t : ~ReadRow(p, op, a, n, t)
  <2> SUFFICES ASSUME NEW op, NEW a, NEW n, NEW t, ReadRow(p, op, a, n, t) PROVE FALSE
    OBVIOUS
  <2> DEFINE c == [at     |-> IF status[a] \in Expirable /\ due[a] THEN "expire"
                                                                  ELSE "refreshed",
                   op     |-> op,   act  |-> a, seen   |-> status[a],
                   ack    |-> 0,    todo |-> t, nested |-> n]
  <2>1. c.at # "scan"
    OBVIOUS
  <2> HIDE DEF c
  <2> QED
    BY <2>1, <1>t, BecomesElse DEF ReadRow, c
<1>1. ~(\/ ProposalBlocked(p) \/ RefuseExpired(p) \/ WriteDecision(p) \/ EndSweep(p)
        \/ SubmitUnapproved(p) \/ WriteBlocked(p) \/ WriteFailed(p) \/ RecordRun(p)
        \/ Disarm(p) \/ EndActivation(p) \/ \E a \in Actions : InsertAction(p, a))
  BY <1>r DEF ProposalBlocked, RefuseExpired, WriteDecision, EndSweep, SubmitUnapproved,
       WriteBlocked, WriteFailed, RecordRun, Disarm, EndActivation, InsertAction
<1>2. ~(\/ WriteExpired(p) \/ SendRefused(p) \/ WriteSucceeded(p) \/ Arm(p)
        \/ CheckKillSwitch(p) \/ PreviewLive(p) \/ Dispatch(p))
  <2>1. "reread" # "scan" /\ "fail" # "scan" /\ "record" # "scan" /\ "list" # "scan"
        /\ "block" # "scan" /\ "preview" # "scan" /\ "send" # "scan"
    OBVIOUS
  <2> QED
    BY <2>1, <1>r, <1>g DEF WriteExpired, SendRefused, WriteSucceeded, Arm,
         CheckKillSwitch, PreviewLive, Dispatch
<1>3. ~(CancelGuard(p) \/ CancelRefreshed(p))
  BY <1>r, <1>d DEF CancelGuard, CancelRefreshed
<1>4. ~\E op \in Ops, a \in Actions : StartCall(p, op, a)
  BY <1>d DEF StartCall
<1>5. ~SendAccepted(p)
  <2> DEFINE c == [call[p] EXCEPT !.at = "succeed", !.ack = Len(orders) + 1]
  <2>1. c.at # "scan"
    BY <1>t DEF Calls
  <2>2. SendAccepted(p) => Become(p, c) \/ Go(p, "fail")
    BY DEF SendAccepted
  <2> HIDE DEF c
  <2> QED
    BY <2>1, <2>2, <1>t, <1>g, BecomesElse
<1>6. ~Reread(p)
  <2> DEFINE c == [call[p] EXCEPT !.at = "refreshed", !.seen = status[call[p].act]]
  <2>1. c.at # "scan"
    BY <1>t DEF Calls
  <2> HIDE DEF c
  <2> QED
    BY <2>1, <1>t, BecomesElse DEF Reread, c
<1>7. ~ListQueued(p)
  <2> DEFINE c == [call[p] EXCEPT !.at = "cancelqueued",
                                  !.todo = {a \in Actions : status[a] \in Expirable}]
  <2>1. c.at # "scan"
    BY <1>t DEF Calls
  <2> HIDE DEF c
  <2> QED
    BY <2>1, <1>t, BecomesElse DEF ListQueued, c
<1>8. ASSUME NEW a \in Actions PROVE ~ExpireListed(p, a)
  <2> DEFINE c == [call[p] EXCEPT !.todo = @ \ {a}]
  <2>1. ExpireListed(p, a) => c.at # "scan"
    BY <1>t DEF Calls, ExpireListed, At
  <2> HIDE DEF c
  <2> QED
    BY <2>1, <1>t, BecomesElse DEF ExpireListed, c
<1>9. ASSUME NEW a \in Actions PROVE ~CancelQueued(p, a)
  <2> DEFINE c == [call[p] EXCEPT !.at = "expire", !.act = a,
                                  !.todo = @ \ {a}, !.nested = TRUE]
  <2>1. c.at # "scan"
    BY <1>t DEF Calls
  <2>2. CancelQueued(p, a) =>
          Become(p, c) \/ ReadRow(p, "cancel", a, TRUE, call[p].todo \ {a})
    BY DEF CancelQueued
  <2> HIDE DEF c
  <2> QED
    BY <2>1, <2>2, <1>t, <1>d, BecomesElse
<1>10. ~(Propose(p) \/ ListExpired(p) \/ Crash(p)
         \/ \E op \in {"activate", "deactivate"} : WriteSwitch(p, op))
  BY <1>t, BecomesElse DEF Propose, ListExpired, Crash, WriteSwitch, Idle
<1> QED
  BY <1>1, <1>2, <1>3, <1>4, <1>5, <1>6, <1>7, <1>8, <1>9, <1>10
     DEF ProcStep, RowStep, DecideStep, SubmitStep, KillStep

LEMMA NewestStep ==
  ASSUME Alone
  PROVE  Inv /\ Solo /\ Backed /\ Newest /\ [Next]_vars => Newest'
<1> SUFFICES ASSUME Inv, Solo, Backed, Newest, [Next]_vars PROVE Newest'
  OBVIOUS
<1>t. TypeOK /\ CallOK
  BY DEF Inv
<1>1. ASSUME NEW p \in Procs, ProcStep(p) PROVE Newest'
  <2>1. /\ Moves(p) /\ Effect(p) /\ call[p] \in Calls
        /\ \A q \in Procs : q = p
        /\ \A a \in Actions : status[a] # "absent" => status'[a] # "absent"
        /\ \A a \in Actions : evidence[a] \in Seq(Nat)
    BY <1>1, <1>t, EveryStepMoves, EveryStepHasEffect, RowsStay DEF TypeOK, Alone
  <2>2. CASE RecordRun(p)
    <3> DEFINE b == call[p].act
               n == call[p].ack
    <3>1. /\ evidence' = [evidence EXCEPT ![b] = <<n>> \o @]
          /\ call[p].at = "record" /\ Return(p)
      BY <2>2 DEF RecordRun
    <3>2. call'[p].at \notin Acked /\ call'[p].at # "scan"
      BY <3>1, <1>t DEF Return, Become, Idle, Acked, TypeOK
    <3>3. b \in Actions /\ n \in Nat /\ evidence[b] \in Seq(Nat)
      BY <3>1, <2>1, <1>t DEF CallOK, RowSteps, Calls
    <3>4. /\ status[b] # "absent"
          /\ \A j \in DOMAIN evidence[b] : evidence[b][j] < n
      BY <3>1, <3>3 DEF Newest, Acked
    <3> HIDE DEF b, n
    <3>5. /\ evidence'[b] = <<n>> \o evidence[b]
          /\ \A a \in Actions \ {b} : evidence'[a] = evidence[a]
      BY <3>1, <3>3, <1>t DEF TypeOK
    <3>6. /\ Len(<<n>> \o evidence[b]) = 1 + Len(evidence[b])
          /\ \A j \in 1 .. 1 + Len(evidence[b]) :
               (<<n>> \o evidence[b])[j] = IF j = 1 THEN n ELSE evidence[b][j - 1]
          /\ <<n>> \o evidence[b] \in Seq(Nat)
      BY <3>3
    <3>7. \A j \in DOMAIN evidence'[b] :
            /\ j \in Nat /\ j >= 1
            /\ j = 1 => evidence'[b][j] = n
            /\ j > 1 => /\ j - 1 \in DOMAIN evidence[b]
                        /\ evidence'[b][j] = evidence[b][j - 1]
      BY <3>3, <3>5, <3>6
    <3>8. ASSUME NEW j \in DOMAIN evidence'[b], NEW k \in DOMAIN evidence'[b], j < k
          PROVE  evidence'[b][k] < evidence'[b][j]
      <4>1. /\ j \in Nat /\ k \in Nat /\ k > 1 /\ k - 1 \in DOMAIN evidence[b]
            /\ evidence'[b][k] = evidence[b][k - 1]
        BY <3>7, <3>8
      <4>2. CASE j = 1
        BY <3>4, <3>7, <4>1, <4>2
      <4>3. CASE j > 1
        <5>1. /\ j - 1 \in DOMAIN evidence[b] /\ evidence'[b][j] = evidence[b][j - 1]
              /\ j - 1 < k - 1
          BY <3>7, <3>8, <4>1, <4>3
        <5> QED
          BY <3>3, <4>1, <5>1 DEF Newest
      <4> QED
        BY <3>7, <4>1, <4>2, <4>3
    <3>9. \A a \in Actions : evidence'[a] # << >> => status'[a] # "absent"
      BY <2>1, <3>4, <3>5 DEF Newest
    <3>10. \A a \in Actions : \A j, k \in DOMAIN evidence'[a] :
             j < k => evidence'[a][k] < evidence'[a][j]
      BY <3>5, <3>8 DEF Newest
    <3> QED
      BY <2>1, <3>2, <3>9, <3>10 DEF Newest
  <2>3. CASE evidence' = evidence
    <3>1. ASSUME call'[p].at \in Acked
          PROVE  /\ status'[call'[p].act] # "absent"
                 /\ \A a \in Actions : \A j \in DOMAIN evidence[a] :
                      evidence[a][j] < call'[p].ack
      <4>1. CASE /\ call[p].at = "succeed" /\ call'[p].act = call[p].act
                 /\ call'[p].ack = call[p].ack
        <5>1. call[p].act \in Actions /\ call[p].at \in Acked
          BY <4>1, <1>t DEF CallOK, RowSteps, Acked
        <5> QED
          BY <2>1, <4>1, <5>1 DEF Newest
      <4>2. CASE /\ call'[p].ack = Len(orders) + 1
                 /\ orders' = Append(orders, call'[p].act)
        <5>1. orders \in Seq(Actions) /\ call'[p].act \in Actions
          BY <2>1, <3>1, <1>t DEF TypeOK, Moves, Follows, Acked, RowSteps
        <5>2. Len(orders') = Len(orders) + 1 /\ orders'[Len(orders) + 1] = call'[p].act
          BY <4>2, <5>1
        <5>3. orders' # orders
          BY <5>1, <5>2
        <5>4. SendAccepted(p)
          BY <2>1, <5>3 DEF Effect, data, Mark, Fill, WriteDecision, WriteSucceeded,
               RecordRun, CancelSubmitted
        <5>5. /\ call[p].at = "send" /\ call[p].act \in Actions
              /\ orders' = Append(orders, call[p].act)
          BY <5>4, <1>t DEF SendAccepted, CallOK, RowSteps
        <5>6. call'[p].act = call[p].act
          BY <5>1, <5>2, <5>5
        <5>7. status[call[p].act] = "approved"
          BY <5>5 DEF Solo, Tidy
        <5>8. \A a \in Actions : \A j \in DOMAIN evidence[a] :
                evidence[a][j] \in 1 .. Len(orders)
          BY <5>1 DEF Backed, SuccessIsBacked
        <5> QED
          BY <2>1, <4>2, <5>1, <5>5, <5>6, <5>7, <5>8
      <4> QED
        BY <2>1, <3>1, <4>1, <4>2 DEF Moves, Follows
    <3>2. ASSUME call'[p].at = "scan", NEW a \in Actions, a \notin call'[p].todo,
                 evidence[a] # << >>
          PROVE  evidence[a][1] \in asked'
      <4>1. CASE ListSubmitted(p)
        <5> DEFINE todo == {x \in Actions : status[x] # "absent"}
                   c == [call[p] EXCEPT !.at = "scan", !.todo = todo]
        <5>1. c.todo = todo
          BY <2>1 DEF Calls
        <5>2. Become(p, c)
          BY <4>1 DEF ListSubmitted
        <5> HIDE DEF c
        <5>3. call'[p].todo = todo
          BY <5>1, <5>2, <1>t DEF Become, TypeOK
        <5> QED
          BY <3>2, <5>3 DEF Newest
      <4>2. ASSUME NEW x \in Actions, CancelSubmitted(p, x)
            PROVE  evidence[a][1] \in asked'
        <5> DEFINE c == [call[p] EXCEPT !.todo = @ \ {x}]
        <5>1. c.todo = call[p].todo \ {x}
          BY <2>1 DEF Calls
        <5>2. Become(p, c) /\ call[p].at = "scan"
          BY <4>2 DEF CancelSubmitted, At
        <5> HIDE DEF c
        <5>3. call'[p].todo = call[p].todo \ {x}
          BY <5>1, <5>2, <1>t DEF Become, TypeOK
        <5>4. asked' = asked \cup (IF evidence[x] = << >> THEN {} ELSE {Head(evidence[x])})
          BY <4>2 DEF CancelSubmitted
        <5>5. CASE a = x
          <6>1. Head(evidence[a]) = evidence[a][1]
            BY <2>1, <3>2
          <6> QED
            BY <3>2, <5>4, <5>5, <6>1
        <5>6. CASE a # x
          BY <3>2, <5>2, <5>3, <5>4, <5>6 DEF Newest
        <5> QED
          BY <5>5, <5>6
      <4> QED
        BY <1>1, <3>2, <4>1, <4>2, OnlyScanSteps
    <3> QED
      BY <2>1, <2>3, <3>1, <3>2 DEF Newest
  <2> QED
    BY <2>1, <2>2, <2>3 DEF Effect, data, Mark, Fill, WriteDecision, SendAccepted,
         WriteSucceeded, CancelSubmitted
<1>2. CASE (\E a \in Actions : Elapse(a)) \/ UNCHANGED vars
  <2>1. UNCHANGED <<status, call, evidence, asked>>
    BY <1>2 DEF Elapse, vars, data
  <2> QED
    BY <2>1 DEF Newest
<1> QED
  BY <1>1, <1>2 DEF Next

LEMMA InitNewest == Init => Newest
BY DEF Init, Newest, Idle, Acked

LEMMA NewestIsAsked == Inv /\ Newest => NewestOrderAsked
<1> SUFFICES ASSUME Inv, Newest, NEW p \in Procs, call[p].at = "scan",
                    call[p].todo = {}, NEW a \in Actions, NEW j \in DOMAIN evidence[a],
                    \A k \in DOMAIN evidence[a] : evidence[a][k] <= evidence[a][j]
             PROVE  evidence[a][j] \in asked
  BY DEF NewestOrderAsked, At
<1>1. evidence[a] \in Seq(Nat) /\ evidence[a] # << >>
  BY DEF Inv, TypeOK
<1>2. 1 \in DOMAIN evidence[a] /\ j >= 1 /\ j \in Nat
  BY <1>1
<1>3. evidence[a][1] \in Nat /\ evidence[a][j] \in Nat /\ evidence[a][1] <= evidence[a][j]
  BY <1>1, <1>2
<1>4. 1 < j => evidence[a][j] < evidence[a][1]
  BY <1>2 DEF Newest
<1>5. j = 1
  BY <1>2, <1>3, <1>4
<1> QED
  BY <1>1, <1>5 DEF Newest

\* Of a single process, that may die anywhere: at the end of an activation the newest
\* recorded order of every action has been asked to be canceled, because runs are
\* listed newest first (runtime.py:2033).
THEOREM AsksNewest == ASSUME Alone PROVE Spec => []NewestOrderAsked
<1>1. Init => Inv /\ Solo /\ Backed /\ Newest
  BY InitInv, InitSolo, InitBacked, InitNewest
<1>2. Inv /\ Solo /\ Backed /\ Newest /\ [Next]_vars
      => (Inv /\ Solo /\ Backed /\ Newest)'
  BY StepInv, SoloStep, BackedStep, NewestStep
<1>3. Inv /\ Newest => NewestOrderAsked
  BY NewestIsAsked
<1> QED
  BY <1>1, <1>2, <1>3, PTL DEF Spec

=============================================================================
