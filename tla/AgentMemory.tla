----------------------------- MODULE AgentMemory -----------------------------
(***************************************************************************)
(* Sessions of the Agent Company OS and what hangs on them in the ledger   *)
(* (agent_os/runtime.py, agent_os/ledger.py): messages, handoffs, work     *)
(* orders, actions, runs, evidence and autonomy programs; renaming and     *)
(* archiving, the pruning of archived sessions, and the stream that tells  *)
(* a browser that a session has changed.                                   *)
(*                                                                         *)
(* The ledger has no foreign keys: that a row belongs to a session, or a   *)
(* citation to a piece of evidence, is kept by the order of the code's     *)
(* transactions alone. A process takes one step per transaction; the       *)
(* SELECTs with which delete_sessions begins are one step.                 *)
(***************************************************************************)
EXTENDS Integers, Sequences, FiniteSets

CONSTANTS
  Procs,       \* OS processes
  Sessions,    \* session ids (fresh uuids)
  NoSession,
  Evidence,    \* evidence ids (fresh uuids)
  MaxPhases,   \* bound: phases of a program (the code caps them at 20)
  MaxRows,     \* bound: rows ever inserted below sessions
  MaxCalls     \* bound: calls ever started, beside the creation of the sessions

ASSUME MemoryAssumption ==
  /\ NoSession \notin Sessions
  /\ MaxPhases \in Nat /\ MaxRows \in Nat /\ MaxCalls \in Nat

VARIABLES
  session,    \* the sessions table
  table,      \* every row ever inserted below a session, oldest first
  evidence,   \* the evidence table: what became of each id
  program,    \* one row of the programs table
  call,       \* the call each process is in the middle of
  client,     \* what a browser that streams a session has last been sent
  calls,      \* history: calls started
  ran,        \* history: how often each phase of the program was dispatched
  unsaved,    \* history: the phases dispatched by a call that ended without saving
  overlap     \* history: has a call overlapped with another?

ledger == <<session, table, evidence, program>>
vars   == <<ledger, call, client, calls, ran, unsaved, overlap>>

-----------------------------------------------------------------------------
None == [status |-> "absent", title |-> 0, edits |-> 0]

\* title: which of two titles. edits counts the changes of updated_at.
SessionRows == [status: {"absent", "active", "archived", "deleted"},
                title: 0..1, edits: Nat]

\* "message" also stands for handoffs and work orders, which are inserted, cited and
\* deleted by session id in the same way; a run is found through its action.
TableRows == [kind: {"message", "action", "run"}, session: Sessions, action: Nat,
              cites: SUBSET Evidence, there: BOOLEAN]

Outcomes == {"succeeded", "failed", "blocked"}
Phases   == Outcomes \cup {"pending"}
Programs == [status: {"absent", "deleted", "active", "blocked", "completed"},
             session: Sessions \cup {NoSession}, current: Nat, phases: Seq(Phases)]

NoClient  == [session |-> NoSession, signature |-> << >>, rows |-> {}]
NoProgram == [status |-> "absent", session |-> NoSession, current |-> 0, phases |-> << >>]

Steps == {"idle", "write", "find", "insert", "collect", "delete",
          "plan", "phase", "dispatch"}
Ops   == {"none", "update", "message", "action", "run", "prune", "program", "create"}

\* A call: its session, the session row it will write, the row it inserts, the
\* evidence it cites or deletes, the sessions and actions it will delete, its copy of
\* the program.
Calls == [at: Steps, op: Ops, session: Sessions \cup {NoSession}, row: SessionRows,
          action: Nat, cites: SUBSET Evidence, doomed: SUBSET Sessions,
          actions: SUBSET Nat, copy: Programs]

Idle == [at |-> "idle", op |-> "none", session |-> NoSession, row |-> None,
         action |-> 0, cites |-> {}, doomed |-> {}, actions |-> {},
         copy |-> NoProgram]

At(p, step, op) == call[p].at = step /\ call[p].op = op

Become(p, c) == call' = [call EXCEPT ![p] = c]
Go(p, step)  == Become(p, [call[p] EXCEPT !.at = step])
Return(p)    == Become(p, Idle)

There(s) == session[s].status \in {"active", "archived"}

\* The rows of a session; those of its actions' runs.
RowsOf(S)   == {i \in DOMAIN table : table[i].kind # "run" /\ table[i].session \in S}
ActionsOf(S) == {i \in RowsOf(S) : table[i].kind = "action" /\ table[i].there}
RunsOf(A)   == {i \in DOMAIN table : table[i].kind = "run" /\ table[i].action \in A}
Present(I)  == {i \in I : table[i].there}
Cited(I)    == UNION {table[i].cites : i \in Present(I)}

Kept == {e \in Evidence : evidence[e] = "kept"}

\* An id that create_evidence may draw: one that nobody has named yet.
Fresh == {e \in Evidence : /\ evidence[e] = "absent"
                           /\ \A i \in DOMAIN table : e \notin table[i].cites
                           /\ \A p \in Procs : e \notin call[p].cites}

Pending(c) == {i \in DOMAIN c.phases : i > c.current /\ c.phases[i] = "pending"}

\* The phases that a call has dispatched and not yet saved.
Dispatched(p) ==
  IF call[p].op # "program" THEN {}
  ELSE {i \in DOMAIN call[p].copy.phases \cap DOMAIN program.phases :
          call[p].copy.phases[i] # "pending" /\ program.phases[i] = "pending"}

\* The call ends here: an exception, or the death of its process.
Fail(p) == Return(p) /\ unsaved' = unsaved \cup Dispatched(p)

-----------------------------------------------------------------------------
Init ==
  /\ session  = [s \in Sessions |-> None]
  /\ table    = << >>
  /\ evidence = [e \in Evidence |-> "absent"]
  /\ program  = NoProgram
  /\ call     = [p \in Procs |-> Idle]
  /\ client   = NoClient
  /\ calls    = 0
  /\ ran      = [i \in 1..MaxPhases |-> 0]
  /\ unsaved  = {}
  /\ overlap  = FALSE

\* A call starts: it counts, and it overlaps with any call in progress. Bound: the
\* sessions are there by then. Nothing refers to a session before it exists, so its
\* creation commutes with every other step.
Starting(p) ==
  /\ call[p] = Idle
  /\ \A s \in Sessions : session[s].status # "absent"
  /\ calls < MaxCalls
  /\ calls' = calls + 1
  /\ overlap' = (overlap \/ \E q \in Procs : call[q] # Idle)

CreateSession(s) ==
  /\ session[s].status = "absent"
  /\ session' = [session EXCEPT ![s] = [status |-> "active", title |-> 0, edits |-> 0]]
  /\ UNCHANGED <<table, evidence, program, call, client, calls, ran, unsaved, overlap>>

\* create_evidence: a new id. compact_context, the API and the tools call it whether
\* or not a row will ever cite the evidence.
CreateEvidence(e) ==
  /\ e \in Fresh
  /\ evidence' = [evidence EXCEPT ![e] = "kept"]
  /\ UNCHANGED <<session, table, program, call, client, calls, ran, unsaved, overlap>>

-----------------------------------------------------------------------------
(* update_session: the row is read, the given fields replaced, and all of it *)
(* written back.                                                             *)

StartUpdate(p, s, row) ==
  /\ There(s)
  /\ Starting(p)
  /\ Become(p, [Idle EXCEPT !.at = "write", !.op = "update", !.session = s, !.row = row])
  /\ UNCHANGED <<ledger, client, ran, unsaved>>

Rename(p, s) ==
  StartUpdate(p, s, [session[s] EXCEPT !.title = 1 - @])

SetSessionStatus(p, s) ==
  StartUpdate(p, s, [session[s] EXCEPT
    !.status = IF @ = "active" THEN "archived" ELSE "active"])

\* Mutant: archiving is stored as a status of its own.
WriteAnyStatus(p) ==
  /\ At(p, "write", "update")
  /\ session' = [session EXCEPT ![call[p].session] =
                   [call[p].row EXCEPT !.status = IF @ = "active" THEN "open" ELSE @]]
  /\ Return(p)
  /\ UNCHANGED <<table, evidence, program, client, calls, ran, unsaved, overlap>>

WriteSession(p) ==
  /\ At(p, "write", "update")
  /\ session' = IF There(call[p].session)
                THEN [session EXCEPT ![call[p].session] =
                        [call[p].row EXCEPT !.edits = session[call[p].session].edits + 1]]
                ELSE session
  /\ Return(p)
  /\ UNCHANGED <<table, evidence, program, client, calls, ran, unsaved, overlap>>

-----------------------------------------------------------------------------
(* add_message, create_work_order, respond_as_desk, propose_action:          *)
(* get_session, then the row.                                                *)

\* The ids that the caller cites are stored as they come: whether there is such
\* evidence, nobody asks.
StartInsert(p, s, op, cites) ==
  /\ There(s)
  /\ op \in {"message", "action"}
  /\ Cardinality(cites) <= 1
  /\ Starting(p)
  /\ Become(p, [Idle EXCEPT !.at = "find", !.op = op, !.session = s, !.cites = cites])
  /\ UNCHANGED <<ledger, client, ran, unsaved>>

\* No session: KeyError.
FindSession(p) ==
  /\ call[p].at = "find" /\ call[p].op \in {"message", "action", "program"}
  /\ IF There(call[p].session) THEN Go(p, "insert") /\ UNCHANGED unsaved ELSE Fail(p)
  /\ UNCHANGED <<ledger, client, calls, ran, overlap>>

NewRow(kind, s, action, cites) ==
  [kind |-> kind, session |-> s, action |-> action, cites |-> cites, there |-> TRUE]

\* insert_message also touches the session.
InsertRow(p) ==
  /\ call[p].at = "insert" /\ call[p].op \in {"message", "action"}
  /\ Len(table) < MaxRows
  /\ table' = Append(table, NewRow(call[p].op, call[p].session, 0, call[p].cites))
  /\ session' = IF call[p].op = "message" /\ There(call[p].session)
                THEN [session EXCEPT ![call[p].session].edits = @ + 1] ELSE session
  /\ Return(p)
  /\ UNCHANGED <<evidence, program, client, calls, ran, unsaved, overlap>>

\* record_run with artifact_refs: get_action, then insert_run.
StartRun(p, a, cites) ==
  /\ a \in DOMAIN table /\ table[a].kind = "action" /\ table[a].there
  /\ Cardinality(cites) <= 1
  /\ Starting(p)
  /\ Become(p, [Idle EXCEPT !.at = "find", !.op = "run", !.session = table[a].session,
                            !.action = a, !.cites = cites])
  /\ UNCHANGED <<ledger, client, ran, unsaved>>

FindAction(p) ==
  /\ At(p, "find", "run")
  /\ IF table[call[p].action].there THEN Go(p, "insert") ELSE Return(p)
  /\ UNCHANGED <<ledger, client, calls, ran, unsaved, overlap>>

InsertRun(p) ==
  /\ At(p, "insert", "run")
  /\ Len(table) < MaxRows
  /\ table' = Append(table, NewRow("run", call[p].session, call[p].action, call[p].cites))
  /\ Return(p)
  /\ UNCHANGED <<session, evidence, program, client, calls, ran, unsaved, overlap>>

-----------------------------------------------------------------------------
(* prune_memory: the archived sessions are listed, what hangs on them is     *)
(* collected, and all of it is deleted in one transaction.                   *)

\* Mutant: every session that is there is listed.
ListAll(p) ==
  /\ Starting(p)
  /\ Become(p, [Idle EXCEPT !.at = "collect", !.op = "prune",
                            !.doomed = {s \in Sessions : There(s)}])
  /\ UNCHANGED <<ledger, client, ran, unsaved>>

ListArchived(p) ==
  /\ Starting(p)
  /\ Become(p, [Idle EXCEPT !.at = "collect", !.op = "prune",
                            !.doomed = {s \in Sessions : session[s].status = "archived"}])
  /\ UNCHANGED <<ledger, client, ran, unsaved>>

\* Mutant: the runs of the deleted actions are forgotten.
DoomedRows(S, A) == {i \in RowsOf(S) : table[i].kind = "message"} \cup A

\* The rows of the sessions S and of the actions A.
Doomed(S, A) == {i \in RowsOf(S) : table[i].kind = "message"} \cup A \cup RunsOf(A)

\* The actions are found by session, their runs by action; evidence goes if only the
\* doomed rows cite it.
Collect(p) ==
  LET S == call[p].doomed
      A == ActionsOf(S) IN
  /\ At(p, "collect", "prune")
  /\ Become(p, [call[p] EXCEPT !.at = "delete", !.actions = A,
       !.cites = Cited(Doomed(S, A)) \ Cited(DOMAIN table \ Doomed(S, A))])
  /\ UNCHANGED <<ledger, client, calls, ran, unsaved, overlap>>

DeleteSessions(p) ==
  LET S == call[p].doomed
      I == Doomed(S, call[p].actions) IN
  /\ At(p, "delete", "prune")
  /\ session' = [s \in Sessions |->
       IF s \in S THEN [session[s] EXCEPT !.status = "deleted"] ELSE session[s]]
  /\ table' = [i \in DOMAIN table |->
       IF i \in I THEN [table[i] EXCEPT !.there = FALSE] ELSE table[i]]
  /\ evidence' = [e \in Evidence |->
       IF e \in call[p].cites \cap Kept THEN "deleted" ELSE evidence[e]]
  /\ program' = IF program.session \in S THEN [program EXCEPT !.status = "deleted"]
                                         ELSE program
  /\ Return(p)
  /\ UNCHANGED <<client, calls, ran, unsaved, overlap>>

-----------------------------------------------------------------------------
(* Autonomy programs.                                                        *)

\* create_autonomy_program: get_session, planning, then the row; no safe phase is a
\* program that starts blocked.
StartCreate(p, s) ==
  /\ There(s) /\ program.status = "absent"
  /\ Starting(p)
  /\ Become(p, [Idle EXCEPT !.at = "plan", !.op = "create", !.session = s])
  /\ UNCHANGED <<ledger, client, ran, unsaved>>

InsertProgram(p, n) ==
  /\ At(p, "plan", "create")
  /\ program.status = "absent"
  /\ program' = [status  |-> IF n > 0 THEN "active" ELSE "blocked",
                 session |-> call[p].session, current |-> 0,
                 phases  |-> [i \in 1..n |-> "pending"]]
  /\ Return(p)
  /\ UNCHANGED <<session, table, evidence, client, calls, ran, unsaved, overlap>>

\* run_autonomy_program works on the copy it reads here.
StartProgram(p) ==
  /\ program.status \notin {"absent", "deleted"}
  /\ Starting(p)
  /\ Become(p, [Idle EXCEPT !.at = "phase", !.op = "program",
                            !.session = program.session, !.copy = program])
  /\ UNCHANGED <<ledger, client, ran, unsaved>>

Stopped(c) == c.current > 0 /\ c.phases[c.current] \in {"failed", "blocked"}

First(I) == CHOOSE i \in I : \A j \in I : i <= j

\* The next pending phase gets its evidence and, as any action, its row. Bound: not
\* every new piece of evidence is one of those followed.
StartPhase(p, cites) ==
  /\ At(p, "phase", "program")
  /\ Pending(call[p].copy) # {}
  /\ call[p].action = 0 \/ ~Stopped(call[p].copy)
  /\ cites \subseteq Fresh /\ Cardinality(cites) <= 1
  /\ evidence' = [e \in Evidence |-> IF e \in cites THEN "kept" ELSE evidence[e]]
  /\ Become(p, [call[p] EXCEPT !.at = "find", !.cites = cites])
  /\ UNCHANGED <<session, table, program, client, calls, ran, unsaved, overlap>>

InsertPhaseAction(p) ==
  /\ At(p, "insert", "program")
  /\ Len(table) < MaxRows
  /\ table' = Append(table, NewRow("action", call[p].session, 0, call[p].cites))
  /\ Become(p, [call[p] EXCEPT !.at = "dispatch", !.action = Len(table) + 1,
                               !.cites = {}])
  /\ UNCHANGED <<session, evidence, program, client, calls, ran, unsaved, overlap>>

\* dispatch_action (AgentRuns), of which only the outcome of the run matters here;
\* it raises if the action is gone.
DispatchPhase(p, outcome) ==
  /\ At(p, "dispatch", "program")
  /\ IF table[call[p].action].there
     THEN LET i == First(Pending(call[p].copy)) IN
          /\ ran' = [ran EXCEPT ![i] = @ + 1]
          /\ Become(p, [call[p] EXCEPT !.at = "phase", !.copy.current = i,
                                       !.copy.phases[i] = outcome])
          /\ UNCHANGED unsaved
     ELSE Fail(p) /\ UNCHANGED ran
  /\ UNCHANGED <<ledger, client, calls, overlap>>

\* Mutant: a program that was stopped counts as completed.
StatusOptimistic(p) ==
  IF call[p].copy.current > 0 THEN "completed" ELSE call[p].copy.status

\* The status the program ends the call with (completed_with_blockers counts as
\* completed).
StatusAfter(p) ==
  LET c == call[p].copy IN
  CASE call[p].action # 0 /\ Stopped(c) -> "blocked"
    [] OTHER -> IF c.current >= Len(c.phases) THEN "completed" ELSE c.status

\* update_program writes the whole row.
SaveProgram(p) ==
  /\ At(p, "phase", "program")
  /\ \/ Pending(call[p].copy) = {}
     \/ call[p].action # 0 /\ Stopped(call[p].copy)
  /\ program' = IF program.status = "deleted" THEN program
                ELSE [call[p].copy EXCEPT !.status = StatusAfter(p)]
  /\ Return(p)
  /\ UNCHANGED <<session, table, evidence, client, calls, ran, unsaved, overlap>>

-----------------------------------------------------------------------------
(* stream_agent_session: a snapshot is sent when its signature has changed.  *)

\* Mutant: the signature is the time of the last update.
SignatureOfUpdate(s) == <<session[s].edits>>

\* session_stream_snapshot: updated_at and the counts of the session's rows. (The
\* stamp has whole seconds; edits of different seconds are told apart.)
Signature(s) == <<session[s].edits,
                  Cardinality(Present(RowsOf({s}))),
                  Cardinality(Present(RunsOf(ActionsOf({s}))))>>

Shown(s) == Present(RowsOf({s}) \cup RunsOf(ActionsOf({s})))

Snapshot(s) == [session |-> s, signature |-> Signature(s), rows |-> Shown(s)]

\* The loop sends a snapshot as it starts.
Open(s) ==
  /\ client = NoClient /\ There(s)
  /\ client' = Snapshot(s)
  /\ UNCHANGED <<ledger, call, calls, ran, unsaved, overlap>>

\* A deleted session ends the stream.
Poll ==
  LET s == client.session IN
  /\ s # NoSession
  /\ client' = IF ~There(s) THEN NoClient
               ELSE IF Signature(s) # client.signature THEN Snapshot(s) ELSE client
  /\ UNCHANGED <<ledger, call, calls, ran, unsaved, overlap>>

\* A call ends before its last step: a desk that may not propose the action, a ledger
\* call that raises, the death of the process. Of a program's call this may be after
\* some of its phases, which it then does not save.
Abort(p) ==
  /\ call[p] # Idle
  /\ Fail(p)
  /\ UNCHANGED <<ledger, client, calls, ran, overlap>>

-----------------------------------------------------------------------------
Step(p) ==
  \/ WriteSession(p) \/ FindSession(p) \/ InsertRow(p) \/ FindAction(p) \/ InsertRun(p)
  \/ Collect(p) \/ DeleteSessions(p) \/ Abort(p)
  \/ \E n \in 0..MaxPhases : InsertProgram(p, n)
  \/ InsertPhaseAction(p) \/ SaveProgram(p)
  \/ \E cites \in SUBSET Evidence : StartPhase(p, cites)
  \/ \E outcome \in Outcomes : DispatchPhase(p, outcome)

Begin(p) ==
  \/ \E s \in Sessions :
       \/ Rename(p, s) \/ SetSessionStatus(p, s)
       \/ \E op \in {"message", "action"}, cites \in SUBSET Evidence :
            StartInsert(p, s, op, cites)
       \/ StartCreate(p, s)
  \/ \E a \in 1..MaxRows, cites \in SUBSET Evidence : StartRun(p, a, cites)
  \/ ListArchived(p) \/ StartProgram(p)

Next ==
  \/ \E p \in Procs : Step(p) \/ Begin(p)
  \/ \E s \in Sessions : CreateSession(s) \/ Open(s)
  \/ \E e \in Evidence : CreateEvidence(e)
  \/ Poll

Spec == Init /\ [][Next]_vars

-----------------------------------------------------------------------------
TypeOK ==
  /\ session \in [Sessions -> SessionRows]
  /\ table \in Seq(TableRows)
  /\ evidence \in [Evidence -> {"absent", "kept", "deleted"}]
  /\ program \in Programs
  /\ call \in [Procs -> Calls]
  /\ calls \in 0..MaxCalls
  /\ ran \in [1..MaxPhases -> Nat]
  /\ unsaved \subseteq 1..MaxPhases
  /\ overlap \in BOOLEAN

Alone == ~overlap

\* No row outlives its session, no run its action, when calls do not overlap: what
\* foreign keys would guarantee, kept by the check that precedes every insert and
\* by the order in which delete_sessions collects what it deletes.
NoOrphans ==
  Alone => \A i \in Present(DOMAIN table) :
    IF table[i].kind = "run" THEN table[table[i].action].there
                             ELSE There(table[i].session)

\* Evidence goes with the last row that cites it, and never otherwise: pruning takes
\* nothing that another session's rows or runs share, and nothing is left behind that
\* only the deleted rows cited (what no row ever cited stays).
EvidenceGoes ==
  Alone' => \A e \in Kept :
    e \notin Kept' <=> e \in Cited(DOMAIN table) /\ e \notin Cited(DOMAIN table)'

\* What delete_sessions and the checks before every insert keep of the references
\* between rows, although any call may end between two of its steps: no step leaves an
\* orphan, and evidence goes as it should.
ReferencesKept == [][NoOrphans' /\ EvidenceGoes]_<<session, table, evidence>>

\* Pruning deletes archived sessions only, and a rename undoes no archiving (nor the
\* reverse): true of calls that do not overlap, since the row is read in one
\* transaction and written whole in another.
SessionsChangeAsAsked ==
  [][Alone => \A s \in Sessions :
       /\ session'[s].status = "deleted" => session[s].status \in {"archived", "deleted"}
       /\ (There(s) /\ session'[s].title # session[s].title) =>
            session'[s].status = session[s].status]_session

\* A phase is dispatched a second time only after a call that had dispatched it ended
\* without saving the program.
PhasesRunOnce == Alone => \A i \in DOMAIN ran : ran[i] <= 1 \/ i \in unsaved

\* Between its calls the program's row says which phases were dispatched, but for those
\* of such calls, and a program that is completed has none left.
ProgramTellsWhatRan ==
  (Alone /\ program.status \in {"active", "blocked", "completed"}
         /\ \A p \in Procs : call[p].op # "program") =>
    /\ \A i \in DOMAIN program.phases :
         /\ program.phases[i] # "pending" => ran[i] > 0
         /\ ran[i] > 0 => program.phases[i] # "pending" \/ i \in unsaved
    /\ program.status = "completed" => Pending(program) = {}

\* A program that is run again goes on where its row says it stopped.
ProgramGoesOn == PhasesRunOnce /\ ProgramTellsWhatRan

\* A browser whose last snapshot has the current signature has seen every row:
\* skipping equal signatures hides no insert, whatever overlaps.
SignatureTellsRows ==
  (client.session # NoSession /\ There(client.session)
     /\ client.signature = Signature(client.session)) =>
    client.rows = Shown(client.session)

=============================================================================
