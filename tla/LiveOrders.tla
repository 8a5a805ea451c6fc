----------------------------- MODULE LiveOrders -----------------------------
(***************************************************************************)
(* The live-order path of the Agent Company OS (agent_os/runtime.py): an   *)
(* order is proposed as an action row of the SQLite ledger, approved or    *)
(* rejected by the CEO, submitted to the QMT gateway, and stopped by the   *)
(* kill switch.                                                            *)
(*                                                                         *)
(* The web server runs its handlers one at a time on the event loop, but   *)
(* every `astroq agent ...` invocation and every cron tick is another OS   *)
(* process on the same ledger file, kill-switch file and broker account.   *)
(* A process therefore takes one step per ledger transaction, file access  *)
(* or gateway call; whatever it read earlier may be stale by then.         *)
(***************************************************************************)
EXTENDS Integers, Sequences, FiniteSets

CONSTANTS
  Procs,         \* OS processes that run AgentRuntime calls
  Actions,       \* identities of live_order action rows (fresh uuids)
  NoAction,      \* the action of a process that runs no call
  MaxOrders,     \* bound: orders the broker ever accepts
  MaxApprovals,  \* bound: approvals of one action a call may still be started for
  Crashes        \* may a call die (or raise) between two of its steps?

ASSUME ConstantsAssumption ==
  /\ NoAction \notin Actions
  /\ MaxOrders \in Nat
  /\ MaxApprovals \in Nat
  /\ Crashes \in BOOLEAN

VARIABLES
  status,     \* actions.status
  decision,   \* actions.approval_decision["decision"]
  due,        \* has expires_at passed?
  kill,       \* content of live_kill_switch/state.json
  orders,     \* the broker's order book: the action each order was sent for; an
              \* order id is an index
  asked,      \* the ids the broker was asked to cancel
  evidence,   \* per action: submitted reconciliations reachable through its
              \* recorded runs, newest first
  call,       \* the runtime call each process is in the middle of
  approvals,  \* history: approvals written per action
  inflight    \* history: calls past the kill check when the file was last written

data == <<status, decision, due, kill, orders, asked, evidence, approvals,
          inflight>>

vars == <<data, call>>

-----------------------------------------------------------------------------
Expirable == {"proposed", "approval_required", "approved"}
Statuses  == Expirable \cup
  {"absent", "rejected", "canceled", "expired", "failed", "blocked", "succeeded"}
Decisions == {"none", "approved", "rejected", "canceled"}
Engaged   == {"active", "empty", "corrupt"}   \* contents that block: an empty
                                              \* or unparsable file fails closed
KillFile  == {"missing", "inactive"} \cup Engaged

Steps == {"idle", "insert", "expire", "reread", "refreshed", "preview", "send",
          "block", "fail", "succeed", "record", "sweep",
          "arm", "disarm", "list", "cancelqueued", "scan"}
Ops   == {"none", "propose", "approve", "reject", "cancel", "withdraw",
          "submit", "dispatch", "expire", "activate", "deactivate"}

\* A call in progress: where it is, what it does, the action it is about, the
\* status it last read, the order id it was given, the rows left of a listing,
\* and whether it is nested in the loop of activate_live_kill_switch.
Calls == [at: Steps, op: Ops, act: Actions \cup {NoAction}, seen: Statuses,
          ack: Nat, todo: SUBSET Actions, nested: BOOLEAN]

Idle == [at |-> "idle", op |-> "none", act |-> NoAction, seen |-> "absent",
         ack |-> 0, todo |-> {}, nested |-> FALSE]

At(p, step, op) == call[p].at = step /\ call[p].op = op

\* The call of p becomes c.
Become(p, c) == call' = [call EXCEPT ![p] = c]

\* The call moves on to step s.
Go(p, s) == Become(p, [call[p] EXCEPT !.at = s])

\* The call returns; a cancellation made by the kill switch returns to its loop.
Return(p) ==
  Become(p, IF call[p].nested
            THEN [Idle EXCEPT !.at = "cancelqueued", !.op = "activate",
                              !.todo = call[p].todo]
            ELSE Idle)

\* get_action, then the test of _refresh_action_expiry: the row as read now
\* decides whether the call will write "expired" before it goes on.
ReadRow(p, op, a, nested, todo) ==
  Become(p, [at     |-> IF status[a] \in Expirable /\ due[a] THEN "expire"
                                                            ELSE "refreshed",
             op     |-> op,
             act    |-> a,
             seen   |-> status[a],
             ack    |-> 0,
             todo   |-> todo,
             nested |-> nested])

SetStatus(a, s) == status' = [status EXCEPT ![a] = s]

InFlight(q) == call[q].at \in {"preview", "send"}

-----------------------------------------------------------------------------
Init ==
  /\ status    = [a \in Actions |-> "absent"]
  /\ decision  = [a \in Actions |-> "none"]
  /\ due       = [a \in Actions |-> FALSE]
  /\ kill      = "missing"
  /\ orders    = << >>
  /\ asked     = {}
  /\ evidence  = [a \in Actions |-> << >>]
  /\ call      = [p \in Procs |-> Idle]
  /\ approvals = [a \in Actions |-> 0]
  /\ inflight  = {}

-----------------------------------------------------------------------------
(* propose_live_order: nothing is written when the switch is engaged or the *)
(* preview is blocked; otherwise the row is inserted under a fresh id.      *)

Propose(p) ==
  /\ call[p] = Idle
  /\ kill \notin Engaged
  /\ Become(p, [Idle EXCEPT !.at = "insert", !.op = "propose"])
  /\ UNCHANGED data

InsertAction(p, a) ==
  /\ At(p, "insert", "propose")
  /\ status[a] = "absent"
  /\ SetStatus(a, "approval_required")
  /\ Return(p)
  /\ UNCHANGED <<decision, due, kill, orders, asked, evidence, approvals, inflight>>

ProposalBlocked(p) ==
  /\ At(p, "insert", "propose")
  /\ Return(p)
  /\ UNCHANGED data

-----------------------------------------------------------------------------
(* Every call on one row starts with get_action and _refresh_action_expiry. *)

StartCall(p, op, a) ==
  /\ call[p] = Idle
  /\ status[a] # "absent"
  /\ op \in {"approve", "reject", "cancel", "submit", "dispatch"}
  /\ op = "approve" => approvals[a] < MaxApprovals
  /\ ReadRow(p, op, a, FALSE, {})
  /\ UNCHANGED data

\* The row the call read has expired: an UPDATE by id, whatever the row says now.
WriteExpired(p) ==
  /\ call[p].at = "expire"
  /\ SetStatus(call[p].act, "expired")
  /\ Go(p, "reread")
  /\ UNCHANGED <<decision, due, kill, orders, asked, evidence, approvals, inflight>>

Reread(p) ==
  /\ call[p].at = "reread"
  /\ Become(p, [call[p] EXCEPT !.at = "refreshed", !.seen = status[call[p].act]])
  /\ UNCHANGED data

-----------------------------------------------------------------------------
(* _decide_action: refuses only an expired row, then UPDATEs status and     *)
(* decision together.                                                       *)

Decides(p) == call[p].at = "refreshed" /\ call[p].op \in {"approve", "reject", "withdraw"}

DecisionOf(op) == IF op = "approve" THEN "approved"
                  ELSE IF op = "reject" THEN "rejected" ELSE "canceled"

RefuseExpired(p) ==
  /\ Decides(p)
  /\ call[p].seen = "expired"
  /\ Return(p)
  /\ UNCHANGED data

WriteDecision(p) ==
  LET a == call[p].act
      d == DecisionOf(call[p].op)
  IN /\ Decides(p)
     /\ call[p].seen # "expired"
     /\ SetStatus(a, d)
     /\ decision' = [decision EXCEPT ![a] = d]
     /\ approvals' = [approvals EXCEPT ![a] = IF d = "approved" THEN @ + 1 ELSE @]
     /\ Return(p)
     /\ UNCHANGED <<due, kill, orders, asked, evidence, inflight>>

\* cancel_action checks the status it read, then _decide_action reads again.
CancelGuard(p) ==
  /\ At(p, "refreshed", "cancel")
  /\ IF call[p].seen \in Expirable
     THEN ReadRow(p, "withdraw", call[p].act, call[p].nested, call[p].todo)
     ELSE Return(p)
  /\ UNCHANGED data

-----------------------------------------------------------------------------
(* expire_actions: one listing, then one unconditional UPDATE per row that  *)
(* had expired in the listing.                                              *)

ListExpired(p) ==
  /\ call[p] = Idle
  /\ Become(p, [Idle EXCEPT !.at = "sweep", !.op = "expire",
                  !.todo = {a \in Actions : status[a] \in Expirable /\ due[a]}])
  /\ UNCHANGED data

ExpireListed(p, a) ==
  /\ At(p, "sweep", "expire")
  /\ a \in call[p].todo
  /\ SetStatus(a, "expired")
  /\ Become(p, [call[p] EXCEPT !.todo = @ \ {a}])
  /\ UNCHANGED <<decision, due, kill, orders, asked, evidence, approvals, inflight>>

EndSweep(p) ==
  /\ At(p, "sweep", "expire")
  /\ call[p].todo = {}
  /\ Return(p)
  /\ UNCHANGED data

-----------------------------------------------------------------------------
(* submit_live_order_action *)

SubmitUnapproved(p) ==
  /\ At(p, "refreshed", "submit")
  /\ call[p].seen # "approved"
  /\ Return(p)
  /\ UNCHANGED data

\* Mutant: an empty or unparsable switch file fails open.
CheckParsedSwitch(p) ==
  /\ At(p, "refreshed", "submit")
  /\ call[p].seen = "approved"
  /\ Go(p, IF kill = "active" THEN "block" ELSE "preview")
  /\ UNCHANGED data

CheckKillSwitch(p) ==
  /\ At(p, "refreshed", "submit")
  /\ call[p].seen = "approved"
  /\ Go(p, IF kill \in Engaged THEN "block" ELSE "preview")
  /\ UNCHANGED data

PreviewLive(p) ==
  /\ call[p].at = "preview"
  /\ \E s \in {"send", "block"} : Go(p, s)
  /\ UNCHANGED data

\* _record_live_submission_block with update_action_status, and the refusal
\* of the fixed tool registry in dispatch_action.
WriteBlocked(p) ==
  /\ call[p].at = "block"
  /\ SetStatus(call[p].act, "blocked")
  /\ Return(p)
  /\ UNCHANGED <<decision, due, kill, orders, asked, evidence, approvals, inflight>>

\* Mutant: an order whose answer is lost is sent again.
SendUntilAcked(p) ==
  /\ call[p].at = "send"
  /\ Len(orders) < MaxOrders
  /\ orders' \in {orders \o <<call[p].act>>, orders \o <<call[p].act, call[p].act>>}
  /\ Become(p, [call[p] EXCEPT !.at = "succeed", !.ack = Len(orders')])
  /\ UNCHANGED <<status, decision, due, kill, asked, evidence, approvals, inflight>>

\* MiniQmtLiveBroker.submit_order: the gateway accepts the order, and the answer
\* either carries its id or is lost (an exception, a response without an id).
SendAccepted(p) ==
  /\ call[p].at = "send"
  /\ Len(orders) < MaxOrders
  /\ orders' = Append(orders, call[p].act)
  /\ \/ Become(p, [call[p] EXCEPT !.at = "succeed", !.ack = Len(orders) + 1])
     \/ Go(p, "fail")
  /\ UNCHANGED <<status, decision, due, kill, asked, evidence, approvals, inflight>>

\* No gateway, a blocked second preview, or a gateway that refuses.
SendRefused(p) ==
  /\ call[p].at = "send"
  /\ Go(p, "fail")
  /\ UNCHANGED data

\* Mutant: the row succeeds whatever the broker answered.
WriteFailedAsSuccess(p) ==
  /\ call[p].at = "fail"
  /\ SetStatus(call[p].act, "succeeded")
  /\ Return(p)
  /\ UNCHANGED <<decision, due, kill, orders, asked, evidence, approvals, inflight>>

WriteFailed(p) ==
  /\ call[p].at = "fail"
  /\ SetStatus(call[p].act, "failed")
  /\ Return(p)
  /\ UNCHANGED <<decision, due, kill, orders, asked, evidence, approvals, inflight>>

\* Mutant: a submitted row keeps its status.
WriteNoStatus(p) ==
  /\ call[p].at = "succeed"
  /\ Go(p, "record")
  /\ UNCHANGED data

\* Reconciliation evidence is written first, but a reader finds it only through
\* the run recorded after the status.
WriteSucceeded(p) ==
  /\ call[p].at = "succeed"
  /\ SetStatus(call[p].act, "succeeded")
  /\ Go(p, "record")
  /\ UNCHANGED <<decision, due, kill, orders, asked, evidence, approvals, inflight>>

\* Mutant: runs are listed oldest first.
RecordRunLast(p) ==
  /\ call[p].at = "record"
  /\ evidence' = [evidence EXCEPT ![call[p].act] = Append(@, call[p].ack)]
  /\ Return(p)
  /\ UNCHANGED <<status, decision, due, kill, orders, asked, approvals, inflight>>

RecordRun(p) ==
  /\ call[p].at = "record"
  /\ evidence' = [evidence EXCEPT ![call[p].act] = <<call[p].ack>> \o @]
  /\ Return(p)
  /\ UNCHANGED <<status, decision, due, kill, orders, asked, approvals, inflight>>

\* dispatch_action on a live_order row: no registry tool has that name, so an
\* approved row ends blocked and any other one leaves only a blocked run.
Dispatch(p) ==
  /\ At(p, "refreshed", "dispatch")
  /\ IF call[p].seen = "approved" THEN Go(p, "block") ELSE Return(p)
  /\ UNCHANGED data

-----------------------------------------------------------------------------
(* The kill switch. write_text truncates the file, then fills it. A process *)
(* that fills a file another one filled since the truncation overwrites it  *)
(* from the start: the tail of a longer content may stay and spoil it.      *)

FillSwitch(s) ==
  /\ kill' \in IF kill = "empty" THEN {s} ELSE {s, "corrupt"}
  /\ inflight' = {q \in Procs : InFlight(q)}

WriteSwitch(p, op) ==
  /\ call[p] = Idle
  /\ kill' = "empty"
  /\ inflight' = {q \in Procs : InFlight(q)}
  /\ Become(p, [Idle EXCEPT !.at = IF op = "activate" THEN "arm" ELSE "disarm",
                            !.op = op])
  /\ UNCHANGED <<status, decision, due, orders, asked, evidence, approvals>>

Arm(p) ==
  /\ At(p, "arm", "activate")
  /\ FillSwitch("active")
  /\ Go(p, "list")
  /\ UNCHANGED <<status, decision, due, orders, asked, evidence, approvals>>

Disarm(p) ==
  /\ At(p, "disarm", "deactivate")
  /\ FillSwitch("inactive")
  /\ Return(p)
  /\ UNCHANGED <<status, decision, due, orders, asked, evidence, approvals>>

\* Mutant: rows that are already approved are not queued any more.
ListUndecided(p) ==
  /\ At(p, "list", "activate")
  /\ Become(p, [call[p] EXCEPT !.at = "cancelqueued",
                     !.todo = {a \in Actions : status[a] = "approval_required"}])
  /\ UNCHANGED data

ListQueued(p) ==
  /\ At(p, "list", "activate")
  /\ Become(p, [call[p] EXCEPT !.at = "cancelqueued",
                               !.todo = {a \in Actions : status[a] \in Expirable}])
  /\ UNCHANGED data

\* One listed row: expire it if it is due, else cancel_action reads it afresh.
CancelQueued(p, a) ==
  /\ At(p, "cancelqueued", "activate")
  /\ a \in call[p].todo
  /\ IF due[a]
     THEN Become(p, [call[p] EXCEPT !.at = "expire", !.act = a,
                                    !.todo = @ \ {a}, !.nested = TRUE])
     ELSE ReadRow(p, "cancel", a, TRUE, call[p].todo \ {a})
  /\ UNCHANGED data

\* The refreshed row of the loop is still queued only if another process wrote
\* it between the two; then it is canceled like the others.
CancelRefreshed(p) ==
  /\ At(p, "refreshed", "activate")
  /\ IF call[p].seen \in Expirable
     THEN ReadRow(p, "cancel", call[p].act, TRUE, call[p].todo)
     ELSE Return(p)
  /\ UNCHANGED data

ListSubmitted(p) ==
  /\ At(p, "cancelqueued", "activate")
  /\ call[p].todo = {}
  /\ Become(p, [call[p] EXCEPT !.at = "scan",
                               !.todo = {a \in Actions : status[a] # "absent"}])
  /\ UNCHANGED data

\* Broker-side cancellation is asked for the newest submitted evidence of one
\* action; whether the gateway grants it is only reported, never stored.
CancelSubmitted(p, a) ==
  /\ At(p, "scan", "activate")
  /\ a \in call[p].todo
  /\ asked' = asked \cup
       (IF evidence[a] = << >> THEN {} ELSE {Head(evidence[a])})
  /\ Become(p, [call[p] EXCEPT !.todo = @ \ {a}])
  /\ UNCHANGED <<status, decision, due, kill, orders, evidence, approvals, inflight>>

EndActivation(p) ==
  /\ At(p, "scan", "activate")
  /\ call[p].todo = {}
  /\ Return(p)
  /\ UNCHANGED data

-----------------------------------------------------------------------------
(* The environment. *)

\* 900 seconds after the proposal.
Elapse(a) ==
  /\ status[a] # "absent"
  /\ ~due[a]
  /\ due' = [due EXCEPT ![a] = TRUE]
  /\ UNCHANGED <<status, decision, kill, orders, asked, evidence, call, approvals, inflight>>

\* A process dies, or an exception leaves the call where it is.
Crash(p) ==
  /\ Crashes
  /\ call[p] # Idle
  /\ Become(p, Idle)
  /\ UNCHANGED data

-----------------------------------------------------------------------------
RowStep(p, a) ==
  \/ InsertAction(p, a)
  \/ \E op \in Ops : StartCall(p, op, a)
  \/ ExpireListed(p, a)
  \/ CancelQueued(p, a)
  \/ CancelSubmitted(p, a)

DecideStep(p) ==
  \/ RefuseExpired(p) \/ WriteDecision(p) \/ CancelGuard(p)

SubmitStep(p) ==
  \/ SubmitUnapproved(p) \/ CheckKillSwitch(p) \/ PreviewLive(p)
  \/ SendAccepted(p) \/ SendRefused(p)
  \/ WriteBlocked(p) \/ WriteFailed(p) \/ WriteSucceeded(p) \/ RecordRun(p)

KillStep(p) ==
  \/ \E op \in {"activate", "deactivate"} : WriteSwitch(p, op)
  \/ Arm(p) \/ Disarm(p) \/ ListQueued(p) \/ CancelRefreshed(p)
  \/ ListSubmitted(p) \/ EndActivation(p)

ProcStep(p) ==
  \/ Propose(p) \/ ProposalBlocked(p)
  \/ WriteExpired(p) \/ Reread(p)
  \/ ListExpired(p) \/ EndSweep(p) \/ Dispatch(p)
  \/ DecideStep(p) \/ SubmitStep(p) \/ KillStep(p)
  \/ \E a \in Actions : RowStep(p, a)
  \/ Crash(p)

Next ==
  \/ \E p \in Procs : ProcStep(p)
  \/ \E a \in Actions : Elapse(a)

Spec == Init /\ [][Next]_vars

-----------------------------------------------------------------------------
(* Properties. *)

\* The ledger, switch file, order book and calls keep their shapes.
TypeOK ==
  /\ status    \in [Actions -> Statuses]
  /\ decision  \in [Actions -> Decisions]
  /\ due       \in [Actions -> BOOLEAN]
  /\ kill      \in KillFile
  /\ orders    \in Seq(Actions)
  /\ asked     \subseteq Nat
  /\ evidence  \in [Actions -> Seq(Nat)]
  /\ call      \in [Procs -> Calls]
  /\ approvals \in [Actions -> Nat]
  /\ inflight  \subseteq Procs

\* "Live broker orders require explicit CEO approval": whatever the processes
\* interleave and wherever they crash, an order at the broker was sent for an
\* action that had been approved, and an approved row carries that decision.
OrdersAuthorised ==
  /\ \A i \in DOMAIN orders : approvals[orders[i]] > 0
  /\ \A a \in Actions : status[a] = "approved" => decision[a] = "approved"

\* A row is marked succeeded only when the broker holds an order for it, and a
\* recorded reconciliation names an order of its own action, each order once.
SuccessIsBacked ==
  /\ \A a \in Actions : status[a] = "succeeded" =>
        \E i \in DOMAIN orders : orders[i] = a
  /\ \A a \in Actions : \A j \in DOMAIN evidence[a] :
        /\ evidence[a][j] \in DOMAIN orders
        /\ orders[evidence[a][j]] = a
        /\ \A k \in DOMAIN evidence[a] : evidence[a][j] = evidence[a][k] => j = k

\* While the switch is engaged only calls that had passed the check before it
\* engaged can still reach the broker: the switch lets no later call through.
SwitchStopsLaterSubmits ==
  kill \in Engaged => \A p \in Procs : InFlight(p) => p \in inflight

OrdersOf(a) == {i \in DOMAIN orders : orders[i] = a}

\* With one process and no crash, an approval pays for at most one order:
\* whatever was submitted, canceled, expired or approved again in between.
OneOrderPerApproval ==
  \A a \in Actions : Cardinality(OrdersOf(a)) <= approvals[a]

\* With one process, when activate_live_kill_switch reaches the broker scan no
\* live action is left proposed, awaiting approval or approved.
QueueIsEmptied ==
  \A p \in Procs : At(p, "scan", "activate") =>
    \A a \in Actions : status[a] \notin Expirable

\* ... and when it ends, the newest of the recorded orders of every action has
\* been asked to be canceled (the broker numbers its orders in their order).
NewestOrderAsked ==
  \A p \in Procs : At(p, "scan", "activate") /\ call[p].todo = {} =>
    \A a \in Actions : \A j \in DOMAIN evidence[a] :
      (\A k \in DOMAIN evidence[a] : evidence[a][k] <= evidence[a][j]) =>
        evidence[a][j] \in asked

\* The path implements the gate that the documents promise (ApprovalGate).
Gate == INSTANCE ApprovalGate WITH
          authorised <- {a \in Actions : approvals[a] > 0},
          placed     <- orders,
          withdrawn  <- asked

ImplementsGate == Gate!Spec

=============================================================================
