---------------------------- MODULE PaperAccount ----------------------------
(***************************************************************************)
(* The paper account as its files hold it (broker/persistence.py) and the  *)
(* processes that share them: the daily execution                          *)
(* (scripts/execute_paper_trades.py), the submission of an approved        *)
(* paper_order action (agent_os/runtime.py), and the web server, which     *)
(* keeps one PaperBroker object for as long as it lives.                   *)
(*                                                                         *)
(* A file is replaced as a whole (os.replace), and an append to the ledger *)
(* or the NAV file holds a lock from its read to its write, so each is one *)
(* step; append_trade reads and writes without a lock and takes two. What  *)
(* a broker object trades is the subject of PaperBroker: here a trade is   *)
(* the ledger event that records it, and an account is the set of fills it *)
(* accounts for.                                                           *)
(***************************************************************************)
EXTENDS Integers, Sequences, FiniteSets

CONSTANTS
  Procs,      \* cron ticks and command-line processes
  Webs,       \* web server processes
  Actions,    \* approved paper_order action rows
  NoAction,   \* the action of a call that is not about one
  MaxOrders,  \* bound: orders ever created
  Crashes     \* may a process die between two of its steps?

ASSUME ConstantsAssumption ==
  /\ Procs \cap Webs = {}
  /\ NoAction \notin Actions
  /\ MaxOrders \in Nat
  /\ Crashes \in BOOLEAN

VARIABLES
  ledger,     \* ledger.parquet: the events, in sequence order
  state,      \* state.parquet: the account and its order counter
  trades,     \* trades.parquet
  nav,        \* the account whose value the day's row of nav.parquet holds
  row,        \* actions.status of the paper_order actions
  call,       \* the call each process is in the middle of, with its broker
  faults      \* history: did a process die in a call ("crash"), did calls of two
              \* processes overlap ("overlap"), was an order posted to the web
              \* server ("web")?

files == <<ledger, state, trades, nav, row>>
vars  == <<files, call, faults>>

-----------------------------------------------------------------------------
\* A fill is named by the place of its event in the ledger.
Filled  == {i \in DOMAIN ledger : ledger[i].kind = "filled"}
Created == {i \in DOMAIN ledger : ledger[i].kind = "created"}

Event(n, kind, a) == [order |-> n, kind |-> kind, act |-> a]

\* PaperBrokerState: positions and cash, and the counter behind order ids.
Blank == [fills |-> {}, counter |-> 0]

Steps == {"idle", "load", "trade", "match", "readtrades", "writetrades", "nav",
          "save", "succeed", "fail", "block"}

\* op is what the process runs: the daily execution, one submission, or the
\* order route of the web server.
NewCall(op, a, step, broker) ==
  [at |-> step, op |-> op, act |-> a, broker |-> broker, fill |-> 0, read |-> {}]

Idle == NewCall("none", NoAction, "idle", Blank)

\* The singleton of a web process outlives its calls.
Rest(p) == IF p \in Webs THEN NewCall("web", NoAction, "idle", call[p].broker) ELSE Idle

Become(p, c) == call' = [call EXCEPT ![p] = c]
Go(p, step)  == Become(p, [call[p] EXCEPT !.at = step])
Return(p)    == Become(p, Rest(p))

-----------------------------------------------------------------------------
Init ==
  /\ ledger    = << >>
  /\ state     = Blank
  /\ trades    = {}
  /\ nav       = {}
  /\ row       = [a \in Actions |-> "approved"]
  /\ call      = [p \in Procs \cup Webs |->
                    IF p \in Webs THEN NewCall("web", NoAction, "idle", Blank) ELSE Idle]
  /\ faults    = {}

-----------------------------------------------------------------------------
(* How a broker object comes to be. *)

Starts(p) ==
  /\ p \in Procs /\ call[p] = Idle
  /\ faults' = faults \cup (IF \E q \in Procs : call[q] # Idle THEN {"overlap"} ELSE {})

\* execute_daily
StartDaily(p) ==
  /\ Starts(p)
  /\ Become(p, NewCall("daily", NoAction, "trade", state))
  /\ UNCHANGED files

\* submit_paper_order_action: any other row leaves only the record of a blocked run.
StartSubmit(p, a) ==
  /\ Starts(p)
  /\ row[a] = "approved"
  /\ Become(p, NewCall("submit", a, "load", Blank))
  /\ UNCHANGED files

\* Mutant: the file is not read.
LoadBlank(p) ==
  /\ call[p].at = "load"
  /\ Become(p, [call[p] EXCEPT !.at = "trade", !.broker = Blank])
  /\ UNCHANGED <<files, faults>>

LoadState(p) ==
  /\ call[p].at = "load"
  /\ Become(p, [call[p] EXCEPT !.at = "trade", !.broker = state])
  /\ UNCHANGED <<files, faults>>

\* POST /api/portfolio/refresh
Refresh(w) ==
  /\ w \in Webs /\ call[w].at = "idle"
  /\ Become(w, NewCall("web", NoAction, "idle", state))
  /\ UNCHANGED <<files, faults>>

\* POST /api/portfolio/order
WebOrder(w) ==
  /\ w \in Webs /\ call[w].at = "idle"
  /\ Go(w, "trade")
  /\ faults' = faults \cup {"web"}
  /\ UNCHANGED files

-----------------------------------------------------------------------------
(* One order of a broker object. *)

\* A refusal before the match leaves no order. The daily execution goes on to
\* the next signal; a submission fails, or is blocked if its preview said so.
Refuse(p) ==
  /\ call[p].at = "trade" /\ call[p].op # "daily"
  /\ IF call[p].op = "web" THEN Return(p)
     ELSE \E step \in {"fail", "block"} : Become(p, NewCall("submit", call[p].act, step, Blank))
  /\ UNCHANGED <<files, faults>>

\* _create_pending_order and _append_order_created
CreateOrder(p) ==
  LET n == call[p].broker.counter + 1
  IN /\ call[p].at = "trade"
     /\ Cardinality(Created) < MaxOrders
     /\ ledger' = Append(ledger, Event(n, "created", call[p].act))
     /\ Become(p, [call[p] EXCEPT !.at = "match", !.broker.counter = n])
     /\ UNCHANGED <<state, trades, nav, row, faults>>

\* Mutant: a submission goes straight to the trades.
FillUnsaved(p) ==
  LET i == Len(ledger) + 1
      c == [call[p] EXCEPT !.broker.fills = @ \cup {i}, !.fill = i]
  IN /\ call[p].at = "match"
     /\ ledger' = Append(ledger, Event(call[p].broker.counter, "filled", call[p].act))
     /\ Become(p, IF call[p].op = "web" THEN [Rest(p) EXCEPT !.broker = c.broker]
                  ELSE [c EXCEPT !.at = "readtrades"])
     /\ UNCHANGED <<state, trades, nav, row, faults>>

\* _apply_fill; the daily execution then appends the trade, a submission saves
\* the account first, and the web server returns.
Fill(p) ==
  LET i == Len(ledger) + 1
      c == [call[p] EXCEPT !.broker.fills = @ \cup {i}, !.fill = i]
  IN /\ call[p].at = "match"
     /\ ledger' = Append(ledger, Event(call[p].broker.counter, "filled", call[p].act))
     /\ Become(p, IF call[p].op = "web" THEN [Rest(p) EXCEPT !.broker = c.broker]
                  ELSE [c EXCEPT !.at = IF call[p].op = "daily" THEN "readtrades"
                                                                 ELSE "save"])
     /\ UNCHANGED <<state, trades, nav, row, faults>>

\* Mutant: the position is changed before the answer of the match is looked at.
RejectHeld(p) ==
  /\ call[p].at = "match"
  /\ ledger' = Append(ledger, Event(call[p].broker.counter, "rejected", call[p].act))
  /\ IF call[p].op = "web" THEN Return(p)
     ELSE Become(p, [call[p] EXCEPT !.at = IF call[p].op = "daily" THEN "trade" ELSE "fail",
                                    !.broker.fills = @ \cup {Len(ledger) + 1}])
  /\ UNCHANGED <<state, trades, nav, row, faults>>

\* A rejection by the fill model: the order keeps its id, and of a submission
\* nothing is saved.
Reject(p) ==
  /\ call[p].at = "match"
  /\ ledger' = Append(ledger, Event(call[p].broker.counter, "rejected", call[p].act))
  /\ IF call[p].op = "web" THEN Return(p)
     ELSE Go(p, IF call[p].op = "daily" THEN "trade" ELSE "fail")
  /\ UNCHANGED <<state, trades, nav, row, faults>>

-----------------------------------------------------------------------------
(* What a call writes. The daily execution: a trade per fill, and at the    *)
(* end of the day the NAV row and the account. A submission: the account,   *)
(* the NAV row, the trade, the status of its action.                        *)

ReadTrades(p) ==
  /\ call[p].at = "readtrades"
  /\ Become(p, [call[p] EXCEPT !.at = "writetrades", !.read = trades])
  /\ UNCHANGED <<files, faults>>

\* Mutant: the file is written with the new row alone.
WriteOneTrade(p) ==
  /\ call[p].at = "writetrades"
  /\ trades' = {call[p].fill}
  /\ Become(p, NewCall(call[p].op, call[p].act,
                       IF call[p].op = "daily" THEN "trade" ELSE "succeed",
                       IF call[p].op = "daily" THEN call[p].broker ELSE Blank))
  /\ UNCHANGED <<ledger, state, nav, row, faults>>

WriteTrades(p) ==
  /\ call[p].at = "writetrades"
  /\ trades' = call[p].read \cup {call[p].fill}
  /\ Become(p, NewCall(call[p].op, call[p].act,
                       IF call[p].op = "daily" THEN "trade" ELSE "succeed",
                       IF call[p].op = "daily" THEN call[p].broker ELSE Blank))
  /\ UNCHANGED <<ledger, state, nav, row, faults>>

\* append_nav replaces the row of the same date; the daily execution calls it
\* after the last signal, with no order left for end_of_day to expire.
AppendNav(p) ==
  /\ call[p].at = IF call[p].op = "daily" THEN "trade" ELSE "nav"
  /\ nav' = call[p].broker.fills
  /\ Go(p, IF call[p].op = "daily" THEN "save" ELSE "readtrades")
  /\ UNCHANGED <<ledger, state, trades, row, faults>>

\* Mutant: the snapshot of a submission leaves the order counter out.
SaveFills(p) ==
  /\ call[p].at = "save"
  /\ state' = IF call[p].op = "daily" THEN call[p].broker
              ELSE [state EXCEPT !.fills = call[p].broker.fills]
  /\ IF call[p].op = "daily" THEN Return(p) ELSE Go(p, "nav")
  /\ UNCHANGED <<ledger, trades, nav, row, faults>>

\* save_state
SaveState(p) ==
  /\ call[p].at = "save"
  /\ state' = call[p].broker
  /\ IF call[p].op = "daily" THEN Return(p) ELSE Go(p, "nav")
  /\ UNCHANGED <<ledger, trades, nav, row, faults>>

\* Mutant: the status of a submitted action is not updated.
KeepStatus(p) ==
  /\ call[p].at \in {"succeed", "fail", "block"}
  /\ Return(p)
  /\ UNCHANGED <<files, faults>>

UpdateStatus(p) ==
  /\ call[p].at \in {"succeed", "fail", "block"}
  /\ row' = [row EXCEPT ![call[p].act] =
               IF call[p].at = "succeed" THEN "succeeded"
               ELSE IF call[p].at = "fail" THEN "failed" ELSE "blocked"]
  /\ Return(p)
  /\ UNCHANGED <<ledger, state, trades, nav, faults>>

-----------------------------------------------------------------------------
\* A process dies in a call; a web server that died loads its broker afresh.
Crash(p) ==
  /\ Crashes
  /\ call[p].at # "idle"
  /\ Become(p, IF p \in Webs THEN NewCall("web", NoAction, "idle", state) ELSE Idle)
  /\ faults' = faults \cup {"crash"}
  /\ UNCHANGED files

OrderStep(p) == Refuse(p) \/ CreateOrder(p) \/ Fill(p) \/ Reject(p)

FileStep(p) ==
  \/ ReadTrades(p) \/ WriteTrades(p) \/ AppendNav(p) \/ SaveState(p)
  \/ UpdateStatus(p)

ProcStep(p) ==
  \/ StartDaily(p) \/ LoadState(p) \/ Refresh(p) \/ WebOrder(p)
  \/ \E a \in Actions : StartSubmit(p, a)
  \/ OrderStep(p) \/ FileStep(p) \/ Crash(p)

Next == \E p \in Procs \cup Webs : ProcStep(p)

Spec == Init /\ [][Next]_vars

-----------------------------------------------------------------------------
(* Properties. *)

Events == [order: Nat, kind: {"created", "filled", "rejected"}, act: Actions \cup {NoAction}]

Calls == [at: Steps, op: {"none", "daily", "submit", "web"}, act: Actions \cup {NoAction},
          broker: [fills: SUBSET Nat, counter: Nat], fill: Nat, read: SUBSET Nat]

\* Files, rows and calls keep their shapes.
TypeOK ==
  /\ ledger \in Seq(Events)
  /\ state \in [fills: SUBSET Nat, counter: Nat]
  /\ trades \subseteq Nat
  /\ nav \subseteq Nat
  /\ row \in [Actions -> {"approved", "succeeded", "failed", "blocked"}]
  /\ call \in [Procs \cup Webs -> Calls]
  /\ faults \subseteq {"crash", "overlap", "web"}

\* Whatever overlaps, dies or is posted to the web server: the saved positions,
\* the trades and the NAV row account for fills the ledger has, and for no other.
FilesAreRecorded == state.fills \cup trades \cup nav \subseteq Filled

Quiet == \A p \in Procs : call[p].at = "idle"

\* Daily executions and submissions that neither overlap nor die leave ledger,
\* account, trades and NAV row in agreement, although the two of them write the
\* files in opposite orders.
BooksAgree ==
  Quiet /\ faults = {} =>
    /\ state.fills = Filled
    /\ trades = Filled
    /\ nav = Filled

\* ... and no two filled orders share an id, although the id of a rejected
\* submission is given out again.
FilledIdsUnique ==
  faults = {} => \A i, j \in Filled : ledger[i].order = ledger[j].order => i = j

FillsOf(a) == {i \in Filled : ledger[i].act = a}

\* Without overlap or crash an approved action is filled at most once.
OneFillPerApproval ==
  faults \subseteq {"web"} => \A a \in Actions : Cardinality(FillsOf(a)) <= 1

\* A row is marked succeeded when its fill is in the account and the trades: no
\* crash at any step, and no order of the web server, leaves it otherwise.
SucceededIsSaved ==
  "overlap" \notin faults =>
    \A a \in Actions : row[a] = "succeeded" =>
      \E i \in FillsOf(a) : i \in state.fills /\ i \in trades

\* A save never drops a fill from the account, even after crashes, unless calls
\* of two processes overlapped.
FillsNeverForgotten ==
  []["overlap" \notin faults' => state.fills \subseteq state'.fills]_vars

=============================================================================
