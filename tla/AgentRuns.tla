------------------------------ MODULE AgentRuns ------------------------------
(***************************************************************************)
(* Dispatch of an agent action (agent_os/runtime.py, agent_os/tools.py): a *)
(* row of the action ledger is proposed, decided by the CEO, bound to a    *)
(* command of the fixed tool registry, and executed as a child process     *)
(* whose output, end and exit become the events of a run.                  *)
(*                                                                         *)
(* As in LiveOrders a process (the web server, a CLI command, a cron tick) *)
(* takes one step per ledger transaction. Here the steps of recording a    *)
(* run are modelled too: the sequence number of an event is read in one    *)
(* transaction and used in the next.                                       *)
(***************************************************************************)
EXTENDS Integers, Sequences, FiniteSets

CONSTANTS
  Procs,         \* OS processes that run AgentRuntime calls
  Rows,          \* identities of action rows (fresh uuids)
  NoRow,         \* the row of a process that runs no call
  Tools,         \* what the registry can have for a row's tool: a subset of ToolKinds
  MaxRuns,       \* bound: runs ever opened
  MaxOutput,     \* bound: lines waiting in the queue of a command, and lines its run keeps
  MaxApprovals,  \* bound: approvals of one row a call may still be started for
  Mishaps        \* what may go wrong: a subset of {"crash", "fault", "prune"}

\* A command; one that requires an approved action; no command (or a parameter it
\* refuses); a command outside the desk's scope.
ToolKinds == {"free", "guarded", "unknown", "foreign"}

ASSUME RunsAssumption ==
  /\ NoRow \notin Rows
  /\ "free" \in Tools /\ Tools \subseteq ToolKinds
  /\ MaxRuns \in Nat
  /\ MaxOutput \in Nat
  /\ MaxApprovals \in Nat
  /\ Mishaps \subseteq {"crash", "fault", "prune"}

VARIABLES
  rows,       \* the actions table
  runs,       \* the runs and run_events tables and the child of every run
  call,       \* the runtime call each process is in the middle of
  approvals,  \* history: approvals written per row
  started,    \* history: the guarded rows whose command was started, in order
  mishaps     \* history: what has gone wrong

vars == <<rows, runs, call, approvals, started, mishaps>>

-----------------------------------------------------------------------------
Expirable == {"proposed", "approval_required", "approved"}
Ends      == {"succeeded", "failed", "blocked"}
Decisions == {"approved", "rejected", "canceled"}
Statuses  == Expirable \cup Ends \cup
             {"absent", "rejected", "canceled", "expired", "running", "pruned"}

ActionRows == [status: Statuses, approval: BOOLEAN, tool: Tools, due: BOOLEAN]

Children == {"none", "alive", "killed", "ok", "refused", "broken"}
Exited   == {"ok", "refused", "broken"}
Types    == Ends \cup {"queued", "running", "stdout", "stderr"}
Runs     == [row: Rows, status: Ends \cup {"open", "deleted"}, child: Children,
             events: Seq([sequence: Nat, type: Types])]

Steps == {"idle", "expire", "reread", "gate", "start", "spawn", "wait", "drain",
          "mark", "finish", "check", "insert", "return"}
Ops   == {"none", "dispatch", "cancel"} \cup Decisions

\* A call in progress: its step, operation and row, the status it last read (while
\* it still matters), its run (0: none yet), the outcome it will write, the events it
\* still has to record, the sequence number read for the first of them (0: not yet),
\* whether it is in the except branch, and the lines that wait in its output_queue.
Calls == [at: Steps, op: Ops, row: Rows \cup {NoRow}, seen: Statuses, run: Nat,
          outcome: Ends, emit: Seq(Types), next: Nat, caught: BOOLEAN,
          lines: Nat]

Idle == [at |-> "idle", op |-> "none", row |-> NoRow, seen |-> "absent", run |-> 0,
         outcome |-> "failed", emit |-> << >>, next |-> 0, caught |-> FALSE,
         lines |-> 0]

At(p, step) == call[p].at = step /\ call[p].emit = << >>

Become(p, c) == call' = [call EXCEPT ![p] = c]

Go(p, step) == Become(p, [call[p] EXCEPT !.at = step])

Return(p) == Become(p, Idle)

Exists(r) == rows[r].status \notin {"absent", "pruned"}

\* UPDATE actions SET status: no row, no change.
SetStatus(r, s) ==
  rows' = IF Exists(r) THEN [rows EXCEPT ![r].status = s] ELSE rows

\* Approval is needed when the risk level of the row or the tool says so.
Guarded(r) == rows[r].approval \/ rows[r].tool = "guarded"

Active(p, r) == call[p].at # "idle" /\ call[p].row = r

-----------------------------------------------------------------------------
Init ==
  /\ rows = [r \in Rows |-> [status |-> "absent", approval |-> FALSE,
                             tool |-> "free", due |-> FALSE]]
  /\ runs = << >>
  /\ call = [p \in Procs |-> Idle]
  /\ approvals = [r \in Rows |-> 0]
  /\ started = << >>
  /\ mishaps = {}

\* propose_action: a tool outside the desk's scope is refused; the rest is inserted.
Propose(r, needsApproval, tool) ==
  /\ rows[r].status = "absent"
  /\ tool # "foreign"
  /\ rows' = [rows EXCEPT ![r] =
       [status   |-> IF needsApproval THEN "approval_required" ELSE "proposed",
        approval |-> needsApproval, tool |-> tool, due |-> FALSE]]
  /\ UNCHANGED <<runs, call, approvals, started, mishaps>>

\* get_action and the test of _refresh_action_expiry, with which every call starts.
ReadRow(p, op, r) ==
  Become(p, [Idle EXCEPT !.at = IF rows[r].status \in Expirable /\ rows[r].due
                                THEN "expire" ELSE "gate",
                         !.op = op, !.row = r, !.seen = rows[r].status])

\* A run that is not yet opened counts against the bound of its call.
Unopened == {p \in Procs : call[p].op = "dispatch" /\ call[p].run = 0}

Start(p, op, r) ==
  /\ call[p] = Idle
  /\ Exists(r)
  /\ op = "dispatch" => Len(runs) + Cardinality(Unopened) < MaxRuns
  /\ op = "approved" => approvals[r] < MaxApprovals
  /\ ReadRow(p, op, r)
  /\ mishaps' = IF \E q \in Procs : Active(q, r) THEN mishaps \cup {"overlap"}
                                                 ELSE mishaps
  /\ UNCHANGED <<rows, runs, approvals, started>>

\* dispatch_safe_proposed_actions and run_autonomy_step: one row of the list passes
\* the test and is handed to dispatch_action, which reads it again.
StartSafe(p, r) ==
  /\ rows[r].status = "proposed"
  /\ ~rows[r].approval
  /\ Start(p, "dispatch", r)

WriteExpired(p) ==
  /\ At(p, "expire")
  /\ SetStatus(call[p].row, "expired")
  /\ Go(p, "reread")
  /\ UNCHANGED <<runs, approvals, started, mishaps>>

\* A row deleted in between is not found: the call goes on with what it had read.
Reread(p) ==
  /\ At(p, "reread")
  /\ Become(p, [call[p] EXCEPT !.at = "gate",
                  !.seen = IF Exists(call[p].row) THEN rows[call[p].row].status
                                                  ELSE call[p].seen])
  /\ UNCHANGED <<rows, runs, approvals, started, mishaps>>

-----------------------------------------------------------------------------
(* _decide_action and cancel_action.                                         *)

\* An expired row is not decided, and cancel_action refuses a row that has gone on.
RefuseDecision(p) ==
  /\ At(p, "gate")
  /\ \/ call[p].op \in Decisions /\ call[p].seen = "expired"
     \/ call[p].op = "cancel" /\ call[p].seen \notin Expirable
  /\ Return(p)
  /\ UNCHANGED <<rows, runs, approvals, started, mishaps>>

\* cancel_action hands over to _decide_action, which reads the row again.
CancelGuard(p) ==
  /\ At(p, "gate") /\ call[p].op = "cancel" /\ call[p].seen \in Expirable
  /\ IF Exists(call[p].row) THEN ReadRow(p, "canceled", call[p].row) ELSE Return(p)
  /\ UNCHANGED <<rows, runs, approvals, started, mishaps>>

\* update_action_decision: whatever the row has become meanwhile.
Decide(p) ==
  /\ At(p, "gate") /\ call[p].op \in Decisions /\ call[p].seen # "expired"
  /\ SetStatus(call[p].row, call[p].op)
  /\ approvals' = IF call[p].op = "approved" /\ Exists(call[p].row)
                  THEN [approvals EXCEPT ![call[p].row] = @ + 1] ELSE approvals
  /\ Return(p)
  /\ UNCHANGED <<runs, started, mishaps>>

-----------------------------------------------------------------------------
(* dispatch_action: the checks, in the order of the code.                    *)

AtGate(p) == At(p, "gate") /\ call[p].op = "dispatch"

ScopeHolds(p) == rows[call[p].row].tool # "foreign"

\* Mutant: the tool of a row is bound without asking for the approval it requires.
BindsAny(p) == rows[call[p].row].tool \in {"free", "guarded"}

\* Mutant: a failed row may be tried again.
RefusedUnlessRetried(p) ==
  \/ rows[call[p].row].approval /\ call[p].seen \notin {"approved", "failed"}
  \/ call[p].seen \in {"rejected", "canceled", "expired"}

\* Not approved, or decided against: a blocked run is recorded, the row stays.
Refused(p) ==
  \/ rows[call[p].row].approval /\ call[p].seen # "approved"
  \/ call[p].seen \in {"rejected", "canceled", "expired"}

\* AgentToolRegistry.command_for
Binds(p) ==
  \/ rows[call[p].row].tool = "free"
  \/ rows[call[p].row].tool = "guarded" /\ call[p].seen = "approved"

Refuse(p) ==
  /\ AtGate(p) /\ ScopeHolds(p) /\ Refused(p)
  /\ Become(p, [call[p] EXCEPT !.at = "check", !.seen = "absent", !.outcome = "blocked"])
  /\ UNCHANGED <<rows, runs, approvals, started, mishaps>>

\* Out of scope, or no command: the row is blocked before the run is recorded.
Block(p) ==
  /\ AtGate(p)
  /\ \/ ~ScopeHolds(p)
     \/ ~Refused(p) /\ ~Binds(p)
  /\ Become(p, [call[p] EXCEPT !.at = "mark", !.seen = "absent", !.outcome = "blocked"])
  /\ UNCHANGED <<rows, runs, approvals, started, mishaps>>

MarkBlocked(p) ==
  /\ At(p, "mark")
  /\ SetStatus(call[p].row, "blocked")
  /\ Go(p, "check")
  /\ UNCHANGED <<runs, approvals, started, mishaps>>

NewRun(r) == [row |-> r, status |-> "open", child |-> "none", events |-> << >>]

\* Mutant: the run id is derived from the row, so a second dispatch shares the run.
QueueForRow(p) ==
  LET known == {k \in DOMAIN runs : runs[k].row = call[p].row} IN
  /\ AtGate(p) /\ ScopeHolds(p) /\ ~Refused(p) /\ Binds(p)
  /\ runs' = IF known = {} THEN Append(runs, NewRun(call[p].row)) ELSE runs
  /\ Become(p, [call[p] EXCEPT !.at = "start", !.seen = "absent", !.emit = <<"queued">>,
                 !.run = IF known = {} THEN Len(runs) + 1 ELSE CHOOSE k \in known : TRUE])
  /\ UNCHANGED <<rows, approvals, started, mishaps>>

\* A fresh run id, under which the queued event is recorded first.
Queue(p) ==
  /\ AtGate(p) /\ ScopeHolds(p) /\ ~Refused(p) /\ Binds(p)
  /\ runs' = Append(runs, NewRun(call[p].row))
  /\ Become(p, [call[p] EXCEPT !.at = "start", !.seen = "absent",
                               !.run = Len(runs) + 1, !.emit = <<"queued">>])
  /\ UNCHANGED <<rows, approvals, started, mishaps>>

\* The row is set to running whatever it has become since it was read.
SetRunning(p) ==
  /\ At(p, "start")
  /\ SetStatus(call[p].row, "running")
  /\ Become(p, [call[p] EXCEPT !.at = "spawn", !.emit = <<"running">>])
  /\ UNCHANGED <<runs, approvals, started, mishaps>>

-----------------------------------------------------------------------------
(* record_run_event: next_run_event_sequence, then insert_run_event.         *)

NumberEvent(p) ==
  /\ call[p].emit # << >> /\ call[p].next = 0
  /\ Become(p, [call[p] EXCEPT !.next = Len(runs[call[p].run].events) + 1])
  /\ UNCHANGED <<rows, runs, approvals, started, mishaps>>

\* With the last event of record_run the call is over.
InsertEvent(p) ==
  /\ call[p].emit # << >> /\ call[p].next # 0
  /\ runs' = [runs EXCEPT ![call[p].run].events =
       Append(@, [sequence |-> call[p].next, type |-> Head(call[p].emit)])]
  /\ IF call[p].at = "return" /\ Len(call[p].emit) = 1
     THEN Return(p)
     ELSE Become(p, [call[p] EXCEPT !.emit = Tail(@), !.next = 0])
  /\ UNCHANGED <<rows, approvals, started, mishaps>>

-----------------------------------------------------------------------------
(* _dispatch_subprocess_action.                                              *)

Spawn(p) ==
  /\ At(p, "spawn")
  /\ runs' = [runs EXCEPT ![call[p].run].child = "alive"]
  /\ started' = IF Guarded(call[p].row) THEN Append(started, call[p].row) ELSE started
  /\ Go(p, "wait")
  /\ UNCHANGED <<rows, approvals, mishaps>>

\* Popen raises: the except branch writes a failed run.
SpawnFails(p) ==
  /\ At(p, "spawn")
  /\ Become(p, [call[p] EXCEPT !.at = "finish", !.outcome = "failed", !.caught = TRUE])
  /\ UNCHANGED <<rows, runs, approvals, started, mishaps>>

ChildOf(p) == runs[call[p].run].child

\* The child ends by itself, whether or not anyone still waits for it.
ChildExits(k, how) ==
  /\ k \in DOMAIN runs /\ runs[k].child = "alive" /\ how \in Exited
  /\ runs' = [runs EXCEPT ![k].child = how]
  /\ UNCHANGED <<rows, call, approvals, started, mishaps>>

Waiting(p) == call[p].at \in {"wait", "drain"} /\ ~call[p].caught

\* read_stream puts a line of the living child into the queue, whatever the call does.
PrintLine(p) ==
  /\ Waiting(p) /\ ChildOf(p) = "alive"
  /\ call[p].lines < MaxOutput
  /\ Become(p, [call[p] EXCEPT !.lines = @ + 1])
  /\ UNCHANGED <<rows, runs, approvals, started, mishaps>>

Printed(k) == Cardinality({i \in DOMAIN runs[k].events : runs[k].events[i].type = "stdout"})

\* The queue can be drained: in the loop, and once more when the child is gone.
Draining(p) == At(p, "drain") \/ (At(p, "finish") /\ ~call[p].caught)

\* drain_output takes a line and records it. It does so until the queue is empty, and
\* nothing else is looked at meanwhile. Bound: a run keeps the first MaxOutput lines.
Drain(p) ==
  /\ Draining(p) /\ call[p].lines > 0
  /\ Become(p, [call[p] EXCEPT !.lines = @ - 1,
       !.emit = IF Printed(call[p].run) < MaxOutput THEN <<"stdout">> ELSE << >>])
  /\ UNCHANGED <<rows, runs, approvals, started, mishaps>>

\* Mutant: any exit but 0 is a failure of its own name.
StatusByName(child) == IF child = "ok" THEN "succeeded" ELSE child

\* _dispatch_status_from_cli_result
StatusOf(child) == IF child = "ok" THEN "succeeded"
                   ELSE IF child = "refused" THEN "blocked" ELSE "failed"

\* poll() finds the child running: its output is drained next.
Poll(p) ==
  /\ At(p, "wait") /\ ChildOf(p) = "alive"
  /\ Go(p, "drain")
  /\ UNCHANGED <<rows, runs, approvals, started, mishaps>>

\* poll() sees the exit, which decides the outcome.
SeeExit(p) ==
  /\ At(p, "wait") /\ ChildOf(p) \in Exited
  /\ Become(p, [call[p] EXCEPT !.at = "finish", !.outcome = StatusOf(ChildOf(p))])
  /\ UNCHANGED <<rows, runs, approvals, started, mishaps>>

\* The deadline is tested once the queue has been found empty.
AtDeadline(p) == At(p, "drain") /\ call[p].lines = 0

\* It has not passed.
PollAgain(p) ==
  /\ AtDeadline(p)
  /\ Go(p, "wait")
  /\ UNCHANGED <<rows, runs, approvals, started, mishaps>>

\* Mutant: the deadline is noticed only when the child has ended.
TimeoutAfterExit(p) ==
  /\ AtDeadline(p) /\ ChildOf(p) \in Exited
  /\ Become(p, [call[p] EXCEPT !.at = "finish", !.outcome = "failed"])
  /\ UNCHANGED <<rows, runs, approvals, started, mishaps>>

\* Mutant: the wait ends without killing the child.
TimeoutOnly(p) ==
  /\ AtDeadline(p)
  /\ Become(p, [call[p] EXCEPT !.at = "finish", !.outcome = "failed"])
  /\ UNCHANGED <<rows, runs, approvals, started, mishaps>>

\* Mutant: a command that was killed is recorded, its row forgotten.
TimeoutRecorded(p) ==
  /\ AtDeadline(p)
  /\ runs' = [runs EXCEPT ![call[p].run].child = IF @ = "alive" THEN "killed" ELSE @]
  /\ Become(p, [call[p] EXCEPT !.at = "check", !.outcome = "failed"])
  /\ UNCHANGED <<rows, approvals, started, mishaps>>

\* It has passed: the child is killed. If it has ended since poll(), its exit
\* code is not looked at either.
Timeout(p) ==
  /\ AtDeadline(p)
  /\ runs' = [runs EXCEPT ![call[p].run].child = IF @ = "alive" THEN "killed" ELSE @]
  /\ Become(p, [call[p] EXCEPT !.at = "finish", !.outcome = "failed"])
  /\ UNCHANGED <<rows, approvals, started, mishaps>>

\* Nothing is left to drain; in the except branch the queue is not looked at.
Ended(p) == At(p, "finish") /\ (call[p].caught \/ call[p].lines = 0)

\* Mutant: the row of a refused command fails while its run is blocked.
WriteEndFailed(p) ==
  /\ Ended(p)
  /\ SetStatus(call[p].row, IF call[p].outcome = "blocked" THEN "failed" ELSE call[p].outcome)
  /\ Go(p, "check")
  /\ UNCHANGED <<runs, approvals, started, mishaps>>

WriteEnd(p) ==
  /\ Ended(p)
  /\ SetStatus(call[p].row, call[p].outcome)
  /\ Go(p, "check")
  /\ UNCHANGED <<runs, approvals, started, mishaps>>

-----------------------------------------------------------------------------
(* record_run.                                                               *)

\* get_action: with the row gone KeyError ends the call (the except branch of a
\* command updates no row and meets the same error).
FindRow(p) ==
  /\ At(p, "check")
  /\ IF Exists(call[p].row) THEN Go(p, "insert") ELSE Return(p)
  /\ UNCHANGED <<rows, runs, approvals, started, mishaps>>

\* insert_run: a blocked run gets its id here, and its reason as a stderr event.
InsertRun(p) ==
  /\ At(p, "insert")
  /\ IF call[p].run = 0
     THEN /\ runs' = Append(runs, [NewRun(call[p].row) EXCEPT !.status = "blocked"])
          /\ Become(p, [call[p] EXCEPT !.at = "return", !.run = Len(runs) + 1,
                                       !.emit = <<"stderr", "blocked">>])
     ELSE IF runs[call[p].run].status = "open"
     THEN /\ runs' = [runs EXCEPT ![call[p].run].status = call[p].outcome]
          /\ Become(p, [call[p] EXCEPT !.at = "return", !.emit = <<call[p].outcome>>])
     ELSE \* the run id is in the table: IntegrityError
          /\ Return(p)
          /\ UNCHANGED runs
  /\ UNCHANGED <<rows, approvals, started, mishaps>>

-----------------------------------------------------------------------------
(* What may go wrong.                                                        *)

\* Bound: in a behaviour one process dies, or one ledger call raises, or rows are pruned.
NoFaultYet == mishaps \cap {"crash", "fault", "prune"} = {}

\* The process dies; its child goes on.
Crash(p) ==
  /\ "crash" \in Mishaps /\ NoFaultYet
  /\ call[p] # Idle
  /\ Return(p)
  /\ mishaps' = mishaps \cup {"crash"}
  /\ UNCHANGED <<rows, runs, approvals, started>>

\* A ledger call raises (the file is locked). From Popen on the except branch is
\* entered once, without a kill of the child; elsewhere the call ends.
Covered(p) ==
  /\ call[p].run # 0 /\ ChildOf(p) # "none" /\ ~call[p].caught

Fault(p) ==
  /\ "fault" \in Mishaps /\ NoFaultYet
  /\ call[p] # Idle
  /\ IF Covered(p)
     THEN Become(p, [call[p] EXCEPT !.at = "finish", !.outcome = "failed",
                                    !.emit = << >>, !.next = 0, !.caught = TRUE,
                                    !.lines = 0])
     ELSE Return(p)
  /\ mishaps' = mishaps \cup {"fault"}
  /\ UNCHANGED <<rows, runs, approvals, started>>

\* delete_sessions: one transaction deletes the row, its runs and their events.
Prune(r) ==
  /\ "prune" \in Mishaps /\ mishaps \cap {"crash", "fault"} = {}
  /\ Exists(r)
  /\ rows' = [rows EXCEPT ![r].status = "pruned"]
  /\ runs' = [k \in DOMAIN runs |-> IF runs[k].row # r THEN runs[k] ELSE
       [runs[k] EXCEPT !.events = << >>,
                       !.status = IF @ = "open" THEN "open" ELSE "deleted"]]
  /\ mishaps' = mishaps \cup {"prune"} \cup
       (IF \E q \in Procs : Active(q, r) THEN {"overlap"} ELSE {})
  /\ UNCHANGED <<call, approvals, started>>

\* 900 seconds pass.
Elapse(r) ==
  /\ rows[r].status \in Expirable /\ ~rows[r].due
  /\ rows' = [rows EXCEPT ![r].due = TRUE]
  /\ UNCHANGED <<runs, call, approvals, started, mishaps>>

\* A new version of the registry or of the desks no longer has the tool.
Withdraw(r, tool) ==
  /\ Exists(r) /\ tool \in Tools \cap {"unknown", "foreign"} /\ rows[r].tool = "free"
  /\ rows' = [rows EXCEPT ![r].tool = tool]
  /\ UNCHANGED <<runs, call, approvals, started, mishaps>>

-----------------------------------------------------------------------------
\* The steps a call takes by itself once it has started.
Step(p) ==
  \/ WriteExpired(p) \/ Reread(p)
  \/ RefuseDecision(p) \/ CancelGuard(p) \/ Decide(p)
  \/ Refuse(p) \/ Block(p) \/ MarkBlocked(p) \/ Queue(p) \/ SetRunning(p)
  \/ NumberEvent(p) \/ InsertEvent(p)
  \/ Spawn(p) \/ SpawnFails(p)
  \/ Poll(p) \/ SeeExit(p) \/ Drain(p) \/ PollAgain(p) \/ Timeout(p) \/ WriteEnd(p)
  \/ FindRow(p) \/ InsertRun(p)

Environment ==
  \/ \E r \in Rows :
       \/ \E needsApproval \in BOOLEAN, tool \in Tools : Propose(r, needsApproval, tool)
       \/ \E tool \in Tools : Withdraw(r, tool)
       \/ Elapse(r) \/ Prune(r)
       \/ \E p \in Procs, op \in {"dispatch", "cancel", "approved", "rejected"} :
            Start(p, op, r)
       \/ \E p \in Procs : StartSafe(p, r)
  \/ \E k \in 1..MaxRuns, how \in Exited : ChildExits(k, how)
  \/ \E p \in Procs : PrintLine(p) \/ Crash(p) \/ Fault(p)

Next == (\E p \in Procs : Step(p)) \/ Environment

\* A started call is a running program: it goes on unless its process dies. Time
\* passes: a call that tests its deadline again and again (20 ms apart at least) finds in
\* the end that it has passed, which is strong fairness, as a call that drains output does
\* not test it. Nothing makes a command end or fall silent, a person decide, a row expire.
Fairness == \A p \in Procs : WF_vars(Step(p)) /\ SF_vars(Timeout(p))

Spec     == Init /\ [][Next]_vars
FairSpec == Spec /\ Fairness

-----------------------------------------------------------------------------
TypeOK ==
  /\ rows \in [Rows -> ActionRows]
  /\ runs \in Seq(Runs)
  /\ call \in [Procs -> Calls]
  /\ approvals \in [Rows -> Nat]
  /\ started \in Seq(Rows)
  /\ mishaps \subseteq {"crash", "fault", "prune", "overlap"}

\* One approval pays for one command, as long as no two calls overlap on the row.
OneCommandPerApproval ==
  "overlap" \notin mishaps =>
    \A r \in Rows : Cardinality({i \in DOMAIN started : started[i] = r}) <= approvals[r]

Kept(k) == rows[runs[k].row].status # "pruned"

\* The events of a run are numbered 1, 2, ... in the order of their insertion,
\* although the number is read in one transaction and used in another.
EventsNumbered ==
  \A k \in DOMAIN runs : Kept(k) =>
    \A i \in DOMAIN runs[k].events : runs[k].events[i].sequence = i

\* The timeline of a run reads queued, running, output, end, or it is a refusal;
\* nothing follows the end.
Timely(events) ==
  \A i \in DOMAIN events :
    /\ events[i].type = "queued"  => i = 1
    /\ events[i].type = "running" => i = 2 /\ events[1].type = "queued"
    /\ events[i].type = "stdout"  => i > 2 /\ events[2].type = "running"
    /\ events[i].type \in Ends    => i = Len(events)

TimelinesReadable ==
  EventsNumbered /\ \A k \in DOMAIN runs : Kept(k) => Timely(runs[k].events)

\* Without overlap and ledger faults, a row that no call is about and that says it
\* ended (or is blocked) says what its latest recorded run says, refusals of a dispatch
\* apart, which leave the row as it is.
EndedRuns(r) == {k \in DOMAIN runs : runs[k].row = r /\ runs[k].status \in Ends}

RowAgreesWithRun ==
  mishaps = {} =>
    \A r \in Rows :
      (rows[r].status \in Ends /\ ~\E p \in Procs : Active(p, r)) =>
        \E k \in EndedRuns(r) :
          /\ runs[k].status = rows[r].status
          /\ \A j \in EndedRuns(r) :
               j > k => runs[j].status = "blocked" /\ runs[j].child = "none"

\* A recorded run leaves no process behind, unless a ledger fault sent its call to
\* the except branch (runtime.py:1285), which does not kill the child.
NoChildOutlivesItsRun ==
  "fault" \notin mishaps =>
    \A k \in DOMAIN runs : runs[k].status \in Ends => runs[k].child # "alive"

\* Without overlap nothing is recorded for a row that memory pruning deleted.
NothingRecordedForPrunedRows ==
  "overlap" \notin mishaps =>
    \A k \in DOMAIN runs : ~Kept(k) =>
      runs[k].status \notin Ends /\ runs[k].events = << >>

\* What a reader of the ledger finds in the runs fits the rows they belong to.
RunsFitRows == RowAgreesWithRun /\ NothingRecordedForPrunedRows

\* The queue of the command on row r gets lines for ever: drain_output
\* (runtime.py:1204) never finds it empty, and the deadline behind it is never tested.
PrintsOn(r) == []<><<\E p \in Procs : call[p].row = r /\ PrintLine(p)>>_vars

\* Every call returns unless its command prints for ever: the deadline ends the wait for
\* a command that hangs.
CallsReturn ==
  \A p \in Procs, r \in Rows :
    (Active(p, r) ~> ~Active(p, r)) \/ PrintsOn(r)

\* No row says running for ever, unless its command prints for ever, or a process died
\* or a ledger call raised between the update and the except branch.
RunningEnds ==
  \A r \in Rows :
    \/ rows[r].status = "running" ~>
         (rows[r].status # "running" \/ mishaps \cap {"crash", "fault"} # {})
    \/ PrintsOn(r)

\* The same gate as for live orders: guarded commands are started for approved
\* rows only.
Gate == INSTANCE ApprovalGate WITH
          Actions    <- Rows,
          authorised <- {r \in Rows : approvals[r] > 0},
          placed     <- started,
          withdrawn  <- {}

ImplementsGate == Gate!Spec

=============================================================================
