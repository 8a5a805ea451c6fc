-------------------------- MODULE AgentMemoryProofs --------------------------
(* AgentMemory for any processes, sessions, evidence and bounds: the ledger keeps    *)
(* its shape, and the signature of a stream tells every row. As long as calls do not *)
(* overlap, references are kept and sessions change as asked, and a program that is   *)
(* run again goes on where its row says it stopped.                                *)
EXTENDS AgentMemory, SequenceTheorems, FiniteSetTheorems, WellFoundedInduction, TLAPS

\* What a call in progress is about.
CallFits(c) ==
  /\ c.at = "idle" => c = Idle
  /\ c.op \notin {"none", "prune"} => c.session \in Sessions
  /\ c.op = "update" => c.row.status \in {"active", "archived"}
  /\ c.op = "run" => c.action \in DOMAIN table /\ table[c.action].kind = "action"
  /\ c.at = "delete" => \A i \in c.actions : /\ i \in DOMAIN table /\ table[i].kind = "action"
                                             /\ table[i].session \in c.doomed
  /\ c.op = "program" =>
       /\ program.status # "absent" /\ c.copy.session = c.session
       /\ c.copy.status \notin {"absent", "deleted"}
       /\ DOMAIN c.copy.phases \subseteq 1..MaxPhases
       /\ c.at \in {"find", "insert", "dispatch"} => Pending(c.copy) # {}
       /\ c.at = "dispatch" => c.action \in DOMAIN table /\ table[c.action].kind = "action"

\* A row is gone only with its session, a run with its action.
RowFits(row) ==
  /\ row.kind = "run" => row.action \in DOMAIN table /\ table[row.action].kind = "action"
  /\ row.kind # "run" /\ ~row.there => session[row.session].status = "deleted"
  /\ row.kind = "run" /\ ~row.there => ~table[row.action].there

ProgramFits ==
  IF program.status = "absent" THEN program.session = NoSession
  ELSE program.session \in Sessions /\ DOMAIN program.phases \subseteq 1..MaxPhases

IsRun(i) == table[i].kind = "run"

\* What was sent is still there, and its signature counted it.
ClientFits ==
  client.session # NoSession =>
    /\ client.session \in Sessions /\ session[client.session].status # "absent"
    /\ There(client.session) =>
         /\ client.rows \subseteq Shown(client.session)
         /\ client.signature[2] = Cardinality({i \in client.rows : ~IsRun(i)})
         /\ client.signature[3] = Cardinality({i \in client.rows : IsRun(i)})

Inv ==
  /\ TypeOK
  /\ \A p \in Procs : CallFits(call[p])
  /\ \A i \in DOMAIN table : RowFits(table[i])
  /\ ProgramFits
  /\ ClientFits

EvidenceRows == [Evidence -> {"absent", "kept", "deleted"}]

-----------------------------------------------------------------------------
(* The shapes of the rows and calls.                                         *)

LEMMA Here ==
  ASSUME Inv, NEW p \in Procs
  PROVE  call[p] \in Calls /\ CallFits(call[p])
BY DEF Inv, TypeOK

LEMMA CallParts ==
  ASSUME NEW c \in Calls
  PROVE  /\ c.at \in Steps /\ c.op \in Ops /\ c.session \in Sessions \cup {NoSession}
         /\ c.row \in SessionRows /\ c.action \in Nat /\ c.cites \subseteq Evidence
         /\ c.doomed \subseteq Sessions /\ c.copy \in Programs /\ c.actions \subseteq Nat
BY DEF Calls

LEMMA ProgramParts ==
  ASSUME NEW c \in Programs
  PROVE  /\ c.status \in {"absent", "deleted", "active", "blocked", "completed"}
         /\ c.session \in Sessions \cup {NoSession} /\ c.current \in Nat
         /\ c.phases \in Seq(Phases) /\ DOMAIN c.phases \subseteq Nat
         /\ Pending(c) \subseteq DOMAIN c.phases
BY DEF Programs, Pending

LEMMA SessionParts ==
  ASSUME NEW row \in SessionRows
  PROVE  /\ row.status \in {"absent", "active", "archived", "deleted"}
         /\ row.title \in 0..1 /\ row.edits \in Nat
BY DEF SessionRows

LEMMA RowParts ==
  ASSUME NEW row \in TableRows
  PROVE  /\ row.kind \in {"message", "action", "run"} /\ row.session \in Sessions
         /\ row.action \in Nat /\ row.cites \subseteq Evidence /\ row.there \in BOOLEAN
BY DEF TableRows

LEMMA World ==
  ASSUME Inv
  PROVE  /\ session \in [Sessions -> SessionRows] /\ table \in Seq(TableRows)
         /\ Len(table) \in Nat /\ DOMAIN table = 1..Len(table)
         /\ evidence \in EvidenceRows /\ program \in Programs
         /\ calls \in 0..MaxCalls /\ ran \in [1..MaxPhases -> Nat]
         /\ unsaved \subseteq 1..MaxPhases /\ overlap \in BOOLEAN /\ call \in [Procs -> Calls]
BY DEF Inv, TypeOK, EvidenceRows

LEMMA IdleParts ==
  /\ Idle.at = "idle" /\ Idle.op = "none" /\ Idle.session = NoSession /\ Idle.row = None
  /\ Idle.action = 0 /\ Idle.cites = {} /\ Idle.doomed = {} /\ Idle.actions = {}
  /\ Idle.copy = NoProgram
BY DEF Idle

LEMMA IdleType == Idle \in Calls
<1>1. None \in SessionRows
  BY DEF None, SessionRows
<1>2. NoProgram \in Programs
  BY DEF NoProgram, Programs
<1> QED BY <1>1, <1>2 DEF Idle, Calls, Steps, Ops

LEMMA IdleFits == CallFits(Idle)
BY IdleParts DEF CallFits

\* The smallest of some numbers is one of them.
LEMMA SomeOrder == \E R : IsWellFoundedOn(R, Nat) /\ \A i, j \in Nat : i < j => <<i, j>> \in R
<1>1. \A i, j \in Nat : i < j => <<i, j>> \in OpToRel(<, Nat)
  BY DEF OpToRel
<1> QED BY <1>1, NatLessThanWellFounded

LEMMA FirstIsIn ==
  ASSUME NEW I \in SUBSET Nat, I # {}
  PROVE  First(I) \in I /\ \A j \in I : First(I) <= j
<1>1. PICK R : IsWellFoundedOn(R, Nat) /\ \A i, j \in Nat : i < j => <<i, j>> \in R
  BY SomeOrder
<1>2. \E m \in I : \A j \in I : ~(<<j, m>> \in R)
  <2>1. I \subseteq Nat
    OBVIOUS
  <2>2. IsWellFoundedOn(R, Nat)
    BY <1>1
  <2>3. \A T : T \subseteq Nat /\ T # {} => \E x \in T : \A y \in T : ~(<<y, x>> \in R)
    BY <2>2, WFMin
  <2> QED BY <2>1, <2>3
<1>3. PICK m \in I : \A j \in I : ~(<<j, m>> \in R)
  BY <1>2
<1>4. \A j \in I : m <= j
  <2> SUFFICES ASSUME NEW j \in I PROVE ~(j < m)
    OBVIOUS
  <2>1. j \in Nat /\ m \in Nat
    OBVIOUS
  <2>2. j < m => <<j, m>> \in R
    BY <1>1, <2>1
  <2> QED BY <1>3, <2>2
<1> QED BY <1>4 DEF First

-----------------------------------------------------------------------------
(* What a step leaves to the calls and rows it is not about.                 *)

SameRow(old, new) ==
  /\ new.kind = old.kind /\ new.session = old.session /\ new.action = old.action
  /\ new.cites = old.cites /\ (new.there => old.there)

TableGoesOn ==
  /\ Len(table) <= Len(table')
  /\ \A i \in 1..Len(table) : SameRow(table[i], table'[i])

SessionsGoOn ==
  \A s \in Sessions :
    /\ session[s].status = "deleted" => session'[s].status = "deleted"
    /\ session[s].status # "absent" => session'[s].status # "absent"

TypesGoOn ==
  /\ session' \in [Sessions -> SessionRows] /\ table' \in Seq(TableRows)
  /\ evidence' \in EvidenceRows /\ program' \in Programs
  /\ calls' \in 0..MaxCalls /\ ran' \in [1..MaxPhases -> Nat]
  /\ unsaved' \subseteq 1..MaxPhases /\ overlap' \in BOOLEAN

LEMMA CallFitsStays ==
  ASSUME Inv, NEW c \in Calls, CallFits(c), TableGoesOn, table' \in Seq(TableRows),
         program.status # "absent" => program'.status # "absent"
  PROVE  CallFits(c)'
<1>1. c.op = "run" => c.action \in DOMAIN table' /\ table'[c.action].kind = "action"
  BY World DEF CallFits, TableGoesOn, SameRow
<1>2. c.op = "program" /\ c.at = "dispatch" =>
        c.action \in DOMAIN table' /\ table'[c.action].kind = "action"
  BY World DEF CallFits, TableGoesOn, SameRow
<1>3. c.at = "delete" => \A i \in c.actions :
        i \in DOMAIN table' /\ table'[i].kind = "action" /\ table'[i].session \in c.doomed
  BY World DEF CallFits, TableGoesOn, SameRow
<1> QED BY <1>1, <1>2, <1>3 DEF CallFits

\* What the client has been sent stays, while its session does.
LEMMA ClientFitsStays ==
  ASSUME Inv, UNCHANGED client, TableGoesOn, SessionsGoOn,
         \A s \in Sessions : There(s)' => Shown(s) \subseteq Shown(s)'
  PROVE  ClientFits'
<1> SUFFICES ASSUME client.session # NoSession PROVE ClientFits'
  BY DEF ClientFits
<1>1. PICK s \in Sessions : s = client.session /\ session[s].status # "absent"
  BY DEF Inv, ClientFits
<1>2. session'[s].status # "absent"
  BY <1>1 DEF SessionsGoOn
<1>3. ASSUME There(s)'
      PROVE  /\ client.rows \subseteq Shown(s)'
             /\ client.signature[2] = Cardinality({i \in client.rows : ~IsRun(i)})'
             /\ client.signature[3] = Cardinality({i \in client.rows : IsRun(i)})'
  <2>1. There(s)
    <3>1. session[s].status \in {"absent", "active", "archived", "deleted"}
      BY World, SessionParts
    <3> QED BY <1>1, <1>3, <3>1 DEF SessionsGoOn, There
  <2>2. /\ client.rows \subseteq Shown(s)
        /\ client.signature[2] = Cardinality({i \in client.rows : ~IsRun(i)})
        /\ client.signature[3] = Cardinality({i \in client.rows : IsRun(i)})
    BY <1>1, <2>1 DEF Inv, ClientFits
  <2>3. client.rows \subseteq 1..Len(table)
    BY <2>2, World DEF Shown, Present, RowsOf, RunsOf
  <2>4. \A i \in client.rows : IsRun(i)' <=> IsRun(i)
    BY <2>3 DEF TableGoesOn, SameRow, IsRun
  <2>5. /\ {i \in client.rows : ~IsRun(i)}' = {i \in client.rows : ~IsRun(i)}
        /\ {i \in client.rows : IsRun(i)}' = {i \in client.rows : IsRun(i)}
    BY <2>4
  <2>6. client.rows \subseteq Shown(s)'
    BY <1>3, <2>2
  <2> QED BY <2>2, <2>5, <2>6
<1> QED BY <1>1, <1>2, <1>3 DEF ClientFits

\* A step of one process.
LEMMA GoOn ==
  ASSUME Inv, NEW p \in Procs, NEW d \in Calls, Become(p, d), CallFits(d)',
         TypesGoOn, TableGoesOn, SessionsGoOn,
         program.status # "absent" => program'.status # "absent",
         \A i \in 1..Len(table') : RowFits(table[i])', ProgramFits', UNCHANGED client,
         \A s \in Sessions : There(s)' => Shown(s) \subseteq Shown(s)'
  PROVE  Inv'
<1>1. call' \in [Procs -> Calls] /\ call'[p] = d /\ \A q \in Procs \ {p} : call'[q] = call[q]
  BY World DEF Become
<1>2. TypeOK'
  BY <1>1 DEF TypesGoOn, TypeOK, EvidenceRows
<1>3. ASSUME NEW q \in Procs PROVE CallFits(call[q])'
  <2>1. CASE q = p
    BY <1>1, <2>1 DEF CallFits
  <2>2. CASE q # p
    <3>1. PICK c \in Calls : c = call[q] /\ CallFits(c)
      BY Here
    <3>2. CallFits(c)'
      BY <3>1, CallFitsStays DEF TypesGoOn
    <3> QED BY <1>1, <2>2, <3>1, <3>2
  <2> QED BY <2>1, <2>2
<1>4. DOMAIN table' = 1..Len(table')
  BY DEF TypesGoOn
<1>5. ClientFits'
  BY ClientFitsStays
<1> QED BY <1>2, <1>3, <1>4, <1>5 DEF Inv

LEMMA LedgerAlone ==
  ASSUME Inv, UNCHANGED <<session, table>>
  PROVE  /\ TableGoesOn /\ SessionsGoOn
         /\ \A s \in Sessions : There(s)' => Shown(s) \subseteq Shown(s)'
         /\ \A i \in 1..Len(table') : RowFits(table[i])'
<1>1. TableGoesOn /\ SessionsGoOn
  BY World DEF TableGoesOn, SessionsGoOn, SameRow
<1>2. \A s \in Sessions : Shown(s)' = Shown(s)
  BY DEF Shown, Present, RowsOf, RunsOf, ActionsOf
<1>3. \A i \in 1..Len(table') : RowFits(table[i])'
  BY World DEF Inv, RowFits
<1> QED BY <1>1, <1>2, <1>3

\* A step that leaves the ledger as it is, or adds evidence to it.
LEMMA GoOnQuietly ==
  ASSUME Inv, NEW p \in Procs, NEW d \in Calls, Become(p, d), CallFits(d),
         UNCHANGED <<session, table, program, client>>,
         evidence' \in EvidenceRows, calls' \in 0..MaxCalls, ran' \in [1..MaxPhases -> Nat],
         unsaved' \subseteq 1..MaxPhases, overlap' \in BOOLEAN
  PROVE  Inv'
<1>1. CallFits(d)' /\ ProgramFits'
  BY DEF CallFits, Inv, ProgramFits
<1>2. TypesGoOn
  BY World DEF TypesGoOn
<1> QED BY <1>1, <1>2, LedgerAlone, GoOn

-----------------------------------------------------------------------------
(* One lemma for each step: the calls that begin.                            *)

LEMMA StartingTypes ==
  ASSUME Inv, NEW p \in Procs, Starting(p)
  PROVE  calls' \in 0..MaxCalls /\ overlap' \in BOOLEAN
BY World, MemoryAssumption DEF Starting

LEMMA StartUpdateKeeps ==
  ASSUME Inv, NEW p \in Procs, NEW s \in Sessions, NEW row \in SessionRows,
         row.status \in {"active", "archived"}, StartUpdate(p, s, row)
  PROVE  Inv'
<1> DEFINE next == [Idle EXCEPT !.at = "write", !.op = "update", !.session = s, !.row = row]
<1>1. next \in Calls /\ next.at = "write" /\ next.op = "update" /\ next.session = s
      /\ next.row = row
  BY IdleType DEF Idle, Calls, Steps, Ops
<1>2. Become(p, next)
  BY DEF StartUpdate
<1> HIDE DEF next
<1>3. CallFits(next)
  BY <1>1 DEF CallFits
<1> QED BY <1>1, <1>2, <1>3, World, StartingTypes, GoOnQuietly DEF StartUpdate, ledger

LEMMA UpdatesKeep ==
  ASSUME Inv, NEW p \in Procs, NEW s \in Sessions, Rename(p, s) \/ SetSessionStatus(p, s)
  PROVE  Inv'
<1>1. PICK old \in SessionRows : old = session[s]
  BY World
<1>2. old.status \in {"active", "archived"}
  BY <1>1 DEF Rename, SetSessionStatus, StartUpdate, There
<1>3. CASE Rename(p, s)
  <2> DEFINE row == [old EXCEPT !.title = 1 - @]
  <2>1. row \in SessionRows /\ row.status = old.status
    BY SessionParts DEF SessionRows
  <2>2. StartUpdate(p, s, row)
    BY <1>1, <1>3 DEF Rename
  <2> HIDE DEF row
  <2> QED BY <1>2, <2>1, <2>2, StartUpdateKeeps
<1>4. CASE SetSessionStatus(p, s)
  <2> DEFINE row == [old EXCEPT !.status = IF @ = "active" THEN "archived" ELSE "active"]
  <2>1. row \in SessionRows /\ row.status \in {"active", "archived"}
    BY SessionParts DEF SessionRows
  <2>2. StartUpdate(p, s, row)
    BY <1>1, <1>4 DEF SetSessionStatus
  <2> HIDE DEF row
  <2> QED BY <2>1, <2>2, StartUpdateKeeps
<1> QED BY <1>3, <1>4

LEMMA StartInsertKeeps ==
  ASSUME Inv, NEW p \in Procs, NEW s \in Sessions, NEW op, NEW cites \in SUBSET Evidence,
         StartInsert(p, s, op, cites)
  PROVE  Inv'
<1> DEFINE next == [Idle EXCEPT !.at = "find", !.op = op, !.session = s, !.cites = cites]
<1>1. op \in {"message", "action"} /\ Become(p, next)
  BY DEF StartInsert
<1>2. next \in Calls /\ next.at = "find" /\ next.op = op /\ next.session = s
  BY <1>1, IdleType DEF Idle, Calls, Steps, Ops
<1> HIDE DEF next
<1>3. CallFits(next)
  BY <1>1, <1>2 DEF CallFits
<1> QED BY <1>1, <1>2, <1>3, World, StartingTypes, GoOnQuietly DEF StartInsert, ledger

LEMMA StartRunKeeps ==
  ASSUME Inv, NEW p \in Procs, NEW a, NEW cites \in SUBSET Evidence, StartRun(p, a, cites)
  PROVE  Inv'
<1> DEFINE next == [Idle EXCEPT !.at = "find", !.op = "run", !.session = table[a].session,
                               !.action = a, !.cites = cites]
<1>1. a \in DOMAIN table /\ table[a].kind = "action" /\ Become(p, next)
  BY DEF StartRun
<1>2. table[a].session \in Sessions /\ a \in Nat
  BY <1>1, World, RowParts
<1>3. next \in Calls /\ next.at = "find" /\ next.op = "run" /\ next.session = table[a].session
      /\ next.action = a
  BY <1>2, IdleType DEF Idle, Calls, Steps, Ops
<1> HIDE DEF next
<1>4. CallFits(next)
  BY <1>1, <1>2, <1>3 DEF CallFits
<1> QED BY <1>1, <1>3, <1>4, World, StartingTypes, GoOnQuietly DEF StartRun, ledger

LEMMA ListArchivedKeeps ==
  ASSUME Inv, NEW p \in Procs, ListArchived(p)
  PROVE  Inv'
<1> DEFINE doomed == {s \in Sessions : session[s].status = "archived"}
           next == [Idle EXCEPT !.at = "collect", !.op = "prune", !.doomed = doomed]
<1>1. Become(p, next) /\ doomed \subseteq Sessions
  BY DEF ListArchived
<1> HIDE DEF doomed
<1>2. next \in Calls /\ next.at = "collect" /\ next.op = "prune"
  BY <1>1, IdleType DEF Idle, Calls, Steps, Ops
<1> HIDE DEF next
<1>3. CallFits(next)
  BY <1>2 DEF CallFits
<1> QED BY <1>1, <1>2, <1>3, World, StartingTypes, GoOnQuietly DEF ListArchived, ledger

LEMMA StartCreateKeeps ==
  ASSUME Inv, NEW p \in Procs, NEW s \in Sessions, StartCreate(p, s)
  PROVE  Inv'
<1> DEFINE next == [Idle EXCEPT !.at = "plan", !.op = "create", !.session = s]
<1>1. Become(p, next)
  BY DEF StartCreate
<1>2. next \in Calls /\ next.at = "plan" /\ next.op = "create" /\ next.session = s
  BY IdleType DEF Idle, Calls, Steps, Ops
<1> HIDE DEF next
<1>3. CallFits(next)
  BY <1>2 DEF CallFits
<1> QED BY <1>1, <1>2, <1>3, World, StartingTypes, GoOnQuietly DEF StartCreate, ledger

LEMMA StartProgramKeeps ==
  ASSUME Inv, NEW p \in Procs, StartProgram(p)
  PROVE  Inv'
<1> DEFINE next == [Idle EXCEPT !.at = "phase", !.op = "program",
                               !.session = program.session, !.copy = program]
<1>1. Become(p, next) /\ program.status \notin {"absent", "deleted"}
  BY DEF StartProgram
<1>2. program \in Programs /\ program.session \in Sessions
      /\ DOMAIN program.phases \subseteq 1..MaxPhases
  BY <1>1, World DEF Inv, ProgramFits
<1>3. next \in Calls /\ next.at = "phase" /\ next.op = "program"
      /\ next.session = program.session /\ next.copy = program
  BY <1>2, IdleType DEF Idle, Calls, Steps, Ops
<1> HIDE DEF next
<1>4. CallFits(next)
  BY <1>1, <1>2, <1>3 DEF CallFits
<1> QED BY <1>1, <1>3, <1>4, World, StartingTypes, GoOnQuietly DEF StartProgram, ledger

LEMMA BeginKeeps == ASSUME Inv, NEW p \in Procs, Begin(p) PROVE Inv'
BY UpdatesKeep, StartInsertKeeps, StartRunKeeps, ListArchivedKeeps, StartCreateKeeps,
   StartProgramKeeps DEF Begin

-----------------------------------------------------------------------------
(* The steps of a call that write no row.                                    *)

LEMMA FailTypes ==
  ASSUME Inv, NEW p \in Procs, Fail(p)
  PROVE  Become(p, Idle) /\ unsaved' \subseteq 1..MaxPhases
<1>1. Dispatched(p) \subseteq 1..MaxPhases
  <2>1. CallFits(call[p])
    BY Here
  <2> QED BY <2>1 DEF CallFits, Dispatched
<1> QED BY <1>1, World DEF Fail, Return

LEMMA FailKeeps ==
  ASSUME Inv, NEW p \in Procs, Fail(p), UNCHANGED <<ledger, client, calls, ran, overlap>>
  PROVE  Inv'
BY FailTypes, IdleType, IdleFits, World, GoOnQuietly DEF ledger

LEMMA ReturnKeeps ==
  ASSUME Inv, NEW p \in Procs, Return(p), UNCHANGED <<ledger, client, calls, ran, unsaved, overlap>>
  PROVE  Inv'
<1>1. Become(p, Idle)
  BY DEF Return
<1> QED BY <1>1, IdleType, IdleFits, World, GoOnQuietly DEF ledger

LEMMA GoFits ==
  ASSUME Inv, NEW c \in Calls, CallFits(c), c.at = "find"
  PROVE  LET next == [c EXCEPT !.at = "insert"] IN
         /\ next \in Calls /\ CallFits(next)
<1> DEFINE next == [c EXCEPT !.at = "insert"]
<1>1. /\ next \in Calls /\ next.at = "insert" /\ next.op = c.op /\ next.session = c.session
      /\ next.row = c.row /\ next.action = c.action /\ next.copy = c.copy
  BY DEF Calls, Steps
<1> HIDE DEF next
<1>2. CallFits(next)
  BY <1>1 DEF CallFits
<1>3. next = [c EXCEPT !.at = "insert"]
  BY DEF next
<1> QED BY <1>1, <1>2, <1>3

LEMMA FindKeeps ==
  ASSUME Inv, NEW p \in Procs, FindSession(p) \/ FindAction(p)
  PROVE  Inv'
<1>1. UNCHANGED <<ledger, client, calls, ran, overlap>> /\ call[p].at = "find"
  BY DEF FindSession, FindAction, At
<1>2. CASE Return(p) /\ UNCHANGED unsaved
  BY <1>1, <1>2, ReturnKeeps
<1>4. CASE Fail(p)
  BY <1>1, <1>4, FailKeeps
<1>3. CASE Go(p, "insert") /\ UNCHANGED unsaved
  <2> DEFINE next == [call[p] EXCEPT !.at = "insert"]
  <2>1. Become(p, next)
    BY <1>3 DEF Go
  <2>2. next \in Calls /\ CallFits(next)
    BY <1>1, Here, GoFits
  <2> HIDE DEF next
  <2> QED BY <1>1, <1>3, <2>1, <2>2, World, GoOnQuietly DEF ledger
<1> QED BY <1>2, <1>3, <1>4 DEF FindSession, FindAction

LEMMA StartPhaseKeeps ==
  ASSUME Inv, NEW p \in Procs, NEW cites \in SUBSET Evidence, StartPhase(p, cites)
  PROVE  Inv'
<1> DEFINE next == [call[p] EXCEPT !.at = "find", !.cites = cites]
<1>1. PICK c \in Calls : c = call[p] /\ CallFits(c) /\ c.op = "program" /\ Pending(c.copy) # {}
  BY Here DEF StartPhase, At
<1>2. next \in Calls /\ next.at = "find" /\ next.op = "program" /\ next.session = c.session
      /\ next.copy = c.copy
  BY <1>1 DEF Calls, Steps
<1>3. Become(p, next)
  BY DEF StartPhase
<1> HIDE DEF next
<1>4. CallFits(next)
  BY <1>1, <1>2 DEF CallFits
<1>5. evidence' \in EvidenceRows
  BY World DEF StartPhase, EvidenceRows
<1> QED BY <1>2, <1>3, <1>4, <1>5, World, GoOnQuietly DEF StartPhase

\* The next phase is one of the pending.
LEMMA NextPhase ==
  ASSUME NEW c \in Programs, Pending(c) # {}
  PROVE  /\ First(Pending(c)) \in Pending(c) /\ First(Pending(c)) \in DOMAIN c.phases
         /\ First(Pending(c)) \in Nat
         /\ \A j \in Pending(c) : First(Pending(c)) <= j
<1>1. Pending(c) \in SUBSET Nat /\ Pending(c) \subseteq DOMAIN c.phases
  BY ProgramParts
<1> QED BY <1>1, FirstIsIn

LEMMA DispatchPhaseKeeps ==
  ASSUME Inv, NEW p \in Procs, NEW outcome \in Outcomes, DispatchPhase(p, outcome)
  PROVE  Inv'
<1>1. UNCHANGED <<ledger, client, calls, overlap>>
  BY DEF DispatchPhase
<1>2. CASE Fail(p) /\ UNCHANGED ran
  BY <1>1, <1>2, FailKeeps
<1>3. CASE ~(Fail(p) /\ UNCHANGED ran)
  <2>1. PICK c \in Calls : c = call[p] /\ CallFits(c) /\ c.op = "program" /\ c.at = "dispatch"
    BY Here DEF DispatchPhase, At
  <2>2. PICK copy \in Programs : copy = c.copy
    BY CallParts
  <2>3. PICK i \in DOMAIN copy.phases : i = First(Pending(copy))
    BY <2>1, <2>2, NextPhase DEF CallFits
  <2>c. PICK d : d = [copy EXCEPT !.current = i, !.phases = [copy.phases EXCEPT ![i] = outcome]]
    OBVIOUS
  <2>d. /\ d \in Programs /\ d.status = copy.status /\ d.session = copy.session
        /\ DOMAIN d.phases = DOMAIN copy.phases
    <3>1. i \in Nat /\ outcome \in Phases /\ copy.phases \in Seq(Phases)
      BY ProgramParts DEF Phases
    <3>2. /\ d.status = copy.status /\ d.session = copy.session
          /\ d.current = i /\ d.phases = [copy.phases EXCEPT ![i] = outcome]
      BY <2>c DEF Programs
    <3>3. [copy.phases EXCEPT ![i] = outcome] \in Seq(Phases)
          /\ DOMAIN [copy.phases EXCEPT ![i] = outcome] = DOMAIN copy.phases
      BY <3>1
    <3>4. d \in Programs
      BY <2>c, <3>1, <3>2, <3>3 DEF Programs
    <3> QED BY <3>2, <3>3, <3>4
  <2> DEFINE next == [c EXCEPT !.at = "phase", !.copy.current = i,
                               !.copy.phases[i] = outcome]
  <2>4. Become(p, next) /\ ran' = [ran EXCEPT ![i] = @ + 1] /\ UNCHANGED unsaved
    BY <1>3, <2>1, <2>2, <2>3 DEF DispatchPhase
  <2>n. next = [c EXCEPT !.at = "phase", !.copy = d]
    BY <2>2, <2>c DEF Calls, Programs
  <2> HIDE DEF next
  <2>5. next \in Calls /\ next.at = "phase" /\ next.op = "program" /\ next.session = c.session
        /\ next.copy = d
    BY <2>1, <2>d, <2>n DEF Calls, Steps
  <2>6. CallFits(next)
    BY <2>1, <2>2, <2>d, <2>5 DEF CallFits
  <2>7. ran' \in [1..MaxPhases -> Nat]
    <3>1. ran \in [1..MaxPhases -> Nat] /\ i \in 1..MaxPhases
      BY <2>1, <2>2, World DEF CallFits
    <3> QED BY <2>4, <3>1
  <2> QED BY <1>1, <2>4, <2>5, <2>6, <2>7, World, GoOnQuietly DEF ledger
<1> QED BY <1>2, <1>3

LEMMA AbortKeeps == ASSUME Inv, NEW p \in Procs, Abort(p) PROVE Inv'
BY FailKeeps DEF Abort

-----------------------------------------------------------------------------
(* The steps that write the ledger.                                          *)

\* Statuses that stay, or go from active to archived and back.
LEMMA TableAlone ==
  ASSUME Inv, SessionsGoOn, UNCHANGED table
  PROVE  /\ TableGoesOn
         /\ \A s \in Sessions : There(s)' => Shown(s) \subseteq Shown(s)'
         /\ \A i \in 1..Len(table') : RowFits(table[i])'
<1>1. TableGoesOn
  BY World DEF TableGoesOn, SameRow
<1>2. \A s \in Sessions : Shown(s)' = Shown(s)
  BY DEF Shown, Present, RowsOf, RunsOf, ActionsOf
<1>3. ASSUME NEW i \in 1..Len(table') PROVE RowFits(table[i])'
  <2>1. RowFits(table[i]) /\ table[i].session \in Sessions
    BY World, RowParts DEF Inv
  <2> QED BY <2>1 DEF RowFits, SessionsGoOn
<1> QED BY <1>1, <1>2, <1>3

LEMMA RowAppended ==
  ASSUME Inv, NEW row \in TableRows, table' = Append(table, row), row.there,
         row.kind = "run" => row.action \in 1..Len(table) /\ table[row.action].kind = "action",
         \A s \in Sessions : session'[s].status = session[s].status
  PROVE  /\ table' \in Seq(TableRows) /\ Len(table') = Len(table) + 1
         /\ table'[Len(table) + 1] = row
         /\ TableGoesOn /\ SessionsGoOn
         /\ \A s \in Sessions : There(s)' => Shown(s) \subseteq Shown(s)'
         /\ \A i \in 1..Len(table') : RowFits(table[i])'
<1>1. /\ table' \in Seq(TableRows) /\ Len(table') = Len(table) + 1
      /\ table'[Len(table) + 1] = row
      /\ \A i \in 1..Len(table) : table'[i] = table[i]
  BY World
<1>2. TableGoesOn /\ SessionsGoOn
  BY <1>1, World DEF TableGoesOn, SessionsGoOn, SameRow
<1>3. DOMAIN table = 1..Len(table) /\ DOMAIN table' = 1..(Len(table) + 1) /\ Len(table) \in Nat
  BY <1>1, World
<1>4. \A s \in Sessions : Shown(s) \subseteq Shown(s)'
  <2> TAKE s \in Sessions
  <2>1. RowsOf({s}) \subseteq RowsOf({s})'
    BY <1>1, <1>3 DEF RowsOf
  <2>2. ActionsOf({s}) \subseteq ActionsOf({s})'
    BY <1>1, <1>3, <2>1 DEF ActionsOf, RowsOf
  <2>3. RunsOf(ActionsOf({s})) \subseteq RunsOf(ActionsOf({s}))'
    BY <1>1, <1>3 DEF RunsOf, ActionsOf, RowsOf
  <2>4. \A i \in Shown(s) : i \in DOMAIN table /\ table[i].there
    BY DEF Shown, Present, RowsOf, RunsOf
  <2> QED BY <1>1, <1>3, <2>1, <2>3, <2>4 DEF Shown, Present
<1>5. ASSUME NEW i \in 1..Len(table') PROVE RowFits(table[i])'
  <2>1. CASE i \in 1..Len(table)
    <3>1. RowFits(table[i]) /\ table[i].session \in Sessions /\ table'[i] = table[i]
      BY <1>1, <2>1, World, RowParts DEF Inv
    <3>2. table[i].kind = "run" => table'[table[i].action] = table[table[i].action]
                                   /\ table[i].action \in DOMAIN table'
      BY <1>1, <1>3, <3>1 DEF RowFits
    <3> QED BY <3>1, <3>2 DEF RowFits
  <2>2. CASE i = Len(table) + 1
    BY <1>1, <1>3, <2>2 DEF RowFits
  <2> QED BY <1>1, <1>3, <2>1, <2>2
<1> QED BY <1>1, <1>2, <1>4, <1>5

LEMMA ReturnsFit == ASSUME Inv, NEW p \in Procs, Return(p) PROVE Become(p, Idle) /\ CallFits(Idle)'
BY IdleParts DEF Return, CallFits

\* A row that a call inserts last, before it returns.
LEMMA LastRowKeeps ==
  ASSUME Inv, NEW p \in Procs, NEW row \in TableRows, table' = Append(table, row), row.there,
         row.kind = "run" => row.action \in 1..Len(table) /\ table[row.action].kind = "action",
         session' \in [Sessions -> SessionRows],
         \A s \in Sessions : session'[s].status = session[s].status,
         Return(p), UNCHANGED <<evidence, program, client, calls, ran, unsaved, overlap>>
  PROVE  Inv'
<1>1. ProgramFits'
  BY DEF Inv, ProgramFits
<1>2. Become(p, Idle) /\ CallFits(Idle)'
  BY ReturnsFit
<1>3. TypesGoOn /\ TableGoesOn /\ SessionsGoOn
  BY World, RowAppended DEF TypesGoOn
<1>4. /\ \A s \in Sessions : There(s)' => Shown(s) \subseteq Shown(s)'
      /\ \A i \in 1..Len(table') : RowFits(table[i])'
  BY RowAppended
<1> QED BY <1>1, <1>2, <1>3, <1>4, IdleType, GoOn

LEMMA NewRowParts ==
  ASSUME NEW kind \in {"message", "action", "run"}, NEW s \in Sessions, NEW a \in Nat,
         NEW cites \in SUBSET Evidence
  PROVE  LET row == NewRow(kind, s, a, cites) IN
         /\ row \in TableRows /\ row.kind = kind /\ row.action = a /\ row.there
         /\ row.session = s /\ row.cites = cites
BY DEF NewRow, TableRows

LEMMA InsertRowKeeps == ASSUME Inv, NEW p \in Procs, InsertRow(p) PROVE Inv'
<1>1. PICK c \in Calls : c = call[p] /\ CallFits(c) /\ c.op \in {"message", "action"}
  BY Here DEF InsertRow
<1>2. c.session \in Sessions /\ c.cites \in SUBSET Evidence
  BY <1>1, CallParts DEF CallFits
<1> DEFINE row == NewRow(c.op, c.session, 0, c.cites)
<1>3. row \in TableRows /\ row.kind # "run" /\ row.there
  <2>1. row \in TableRows /\ row.kind = c.op /\ row.there
    BY <1>1, <1>2 DEF NewRow, TableRows
  <2> QED BY <1>1, <2>1
<1>4. table' = Append(table, row)
  BY <1>1 DEF InsertRow
<1> HIDE DEF row
<1>5. session' \in [Sessions -> SessionRows]
      /\ \A s \in Sessions : session'[s].status = session[s].status
  <2>1. PICK s \in Sessions : s = c.session
    BY <1>2
  <2>2. session' = session \/ session' = [session EXCEPT ![s].edits = @ + 1]
    BY <1>1, <2>1 DEF InsertRow
  <2>3. PICK old \in SessionRows : old = session[s]
    BY World
  <2> DEFINE new == [old EXCEPT !.edits = @ + 1]
  <2>4. new \in SessionRows /\ new.status = old.status
    BY SessionParts DEF SessionRows
  <2>5. session' = session \/ session' = [session EXCEPT ![s] = new]
    BY <2>2, <2>3
  <2> HIDE DEF new
  <2> QED BY <2>3, <2>4, <2>5, World
<1> QED BY <1>3, <1>4, <1>5, LastRowKeeps DEF InsertRow

LEMMA InsertRunKeeps == ASSUME Inv, NEW p \in Procs, InsertRun(p) PROVE Inv'
<1>1. PICK c \in Calls : c = call[p] /\ CallFits(c) /\ c.op = "run"
  BY Here DEF InsertRun, At
<1>2. c.session \in Sessions /\ c.cites \in SUBSET Evidence /\ c.action \in Nat
      /\ c.action \in 1..Len(table) /\ table[c.action].kind = "action"
  BY <1>1, World, CallParts DEF CallFits
<1> DEFINE row == NewRow("run", c.session, c.action, c.cites)
<1>3. row \in TableRows /\ row.action = c.action /\ row.there
  BY <1>2 DEF NewRow, TableRows
<1>4. table' = Append(table, row)
  BY <1>1 DEF InsertRun
<1> HIDE DEF row
<1>5. session' = session
  BY DEF InsertRun
<1> QED BY <1>2, <1>3, <1>4, <1>5, World, LastRowKeeps DEF InsertRun

LEMMA InsertPhaseActionKeeps == ASSUME Inv, NEW p \in Procs, InsertPhaseAction(p) PROVE Inv'
<1>1. PICK c \in Calls : c = call[p] /\ CallFits(c) /\ c.op = "program" /\ c.at = "insert"
  BY Here DEF InsertPhaseAction, At
<1>2. c.session \in Sessions /\ c.cites \in SUBSET Evidence
  BY <1>1, World, CallParts DEF CallFits
<1> DEFINE row == NewRow("action", c.session, 0, c.cites)
<1>3. row \in TableRows /\ row.kind = "action" /\ row.there
  BY <1>2 DEF NewRow, TableRows
<1>4. table' = Append(table, row)
  BY <1>1 DEF InsertPhaseAction
<1> HIDE DEF row
<1>5. UNCHANGED <<session, evidence, program, client, calls, ran, unsaved, overlap>>
  BY DEF InsertPhaseAction
<1>6. /\ table' \in Seq(TableRows) /\ Len(table') = Len(table) + 1
      /\ table'[Len(table) + 1] = row
      /\ TableGoesOn /\ SessionsGoOn
      /\ \A s \in Sessions : There(s)' => Shown(s) \subseteq Shown(s)'
      /\ \A i \in 1..Len(table') : RowFits(table[i])'
  BY <1>3, <1>4, <1>5, RowAppended
<1>n. PICK n \in Nat : n = Len(table) + 1
  BY World
<1> DEFINE next == [c EXCEPT !.at = "dispatch", !.action = n, !.cites = {}]
<1>7. Become(p, next)
  BY <1>1, <1>n DEF InsertPhaseAction
<1>8. next \in Calls /\ next.at = "dispatch" /\ next.op = "program"
      /\ next.session = c.session /\ next.copy = c.copy /\ next.action = n
  BY <1>1 DEF Calls, Steps
<1> HIDE DEF next
<1>9. CallFits(next)'
  <2>1. n \in DOMAIN table' /\ table'[n].kind = "action"
    BY <1>3, <1>6, <1>n, World
  <2> QED BY <1>1, <1>5, <1>8, <2>1 DEF CallFits
<1>10. TypesGoOn /\ ProgramFits'
  BY <1>5, <1>6, World DEF TypesGoOn, Inv, ProgramFits
<1> QED BY <1>5, <1>6, <1>7, <1>8, <1>9, <1>10, GoOn

LEMMA WriteSessionKeeps == ASSUME Inv, NEW p \in Procs, WriteSession(p) PROVE Inv'
<1>1. PICK c \in Calls : c = call[p] /\ CallFits(c) /\ c.op = "update"
  BY Here DEF WriteSession, At
<1>2. PICK s \in Sessions : s = c.session
  BY <1>1 DEF CallFits
<1>3. PICK row \in SessionRows : row = c.row /\ row.status \in {"active", "archived"}
  BY <1>1, CallParts DEF CallFits
<1>4. session[s] \in SessionRows /\ session[s].edits \in Nat
  BY World, SessionParts
<1> DEFINE new == [row EXCEPT !.edits = session[s].edits + 1]
<1>5. new \in SessionRows /\ new.status = row.status
  BY <1>4 DEF SessionRows
<1>6. session' = IF There(s) THEN [session EXCEPT ![s] = new] ELSE session
  BY <1>1, <1>2, <1>3 DEF WriteSession
<1> HIDE DEF new
<1>7. session' \in [Sessions -> SessionRows]
  BY <1>5, <1>6, World
<1>8. SessionsGoOn
  BY <1>3, <1>5, <1>6, World DEF SessionsGoOn, There
<1>9. UNCHANGED <<table, evidence, program, client, calls, ran, unsaved, overlap>> /\ Return(p)
  BY DEF WriteSession
<1>10. TypesGoOn /\ ProgramFits'
  BY <1>7, <1>9, World DEF TypesGoOn, Inv, ProgramFits
<1> QED BY <1>8, <1>9, <1>10, TableAlone, ReturnsFit, IdleType, GoOn

LEMMA InsertProgramKeeps ==
  ASSUME Inv, NEW p \in Procs, NEW n \in 0..MaxPhases, InsertProgram(p, n)
  PROVE  Inv'
<1>1. PICK c \in Calls : c = call[p] /\ CallFits(c) /\ c.op = "create"
  BY Here DEF InsertProgram, At
<1>2. PICK s \in Sessions : s = c.session
  BY <1>1 DEF CallFits
<1> DEFINE phases == [i \in 1..n |-> "pending"]
<1>3. phases \in Seq(Phases) /\ DOMAIN phases = 1..n /\ 1..n \subseteq 1..MaxPhases
  BY MemoryAssumption DEF Phases
<1>4. PICK status \in {"active", "blocked"} :
        program' = [status |-> status, session |-> s, current |-> 0, phases |-> phases]
  BY <1>1, <1>2 DEF InsertProgram
<1> HIDE DEF phases
<1>5. program' \in Programs /\ program'.status # "absent" /\ program'.session = s
      /\ program'.phases = phases
  BY <1>3, <1>4 DEF Programs
<1>6. UNCHANGED <<session, table, evidence, client, calls, ran, unsaved, overlap>> /\ Return(p)
  BY DEF InsertProgram
<1>7. TypesGoOn /\ ProgramFits'
  BY <1>3, <1>5, <1>6, World DEF TypesGoOn, ProgramFits
<1> QED BY <1>5, <1>6, <1>7, LedgerAlone, ReturnsFit, IdleType, GoOn

LEMMA SaveProgramKeeps == ASSUME Inv, NEW p \in Procs, SaveProgram(p) PROVE Inv'
<1>1. PICK c \in Calls : c = call[p] /\ CallFits(c) /\ c.op = "program"
  BY Here DEF SaveProgram, At
<1>2. PICK copy \in Programs : copy = c.copy
  BY CallParts
<1>3. /\ copy.status \notin {"absent", "deleted"} /\ copy.session \in Sessions
      /\ DOMAIN copy.phases \subseteq 1..MaxPhases /\ program.status # "absent"
  BY <1>1, <1>2 DEF CallFits
<1>4. PICK status : status = StatusAfter(p)
  OBVIOUS
<1>5. status \in {"active", "blocked", "completed"}
  BY <1>1, <1>2, <1>3, <1>4, ProgramParts DEF StatusAfter
<1> DEFINE new == [copy EXCEPT !.status = status]
<1>6. new \in Programs /\ new.status = status /\ new.session = copy.session
      /\ new.phases = copy.phases
  BY <1>5 DEF Programs
<1>7. program' = program \/ program' = new
  BY <1>1, <1>2, <1>4 DEF SaveProgram
<1> HIDE DEF new
<1>8. program' \in Programs /\ program'.status # "absent" /\ ProgramFits'
  BY <1>3, <1>5, <1>6, <1>7, World DEF Inv, ProgramFits
<1>9. UNCHANGED <<session, table, evidence, client, calls, ran, unsaved, overlap>> /\ Return(p)
  BY DEF SaveProgram
<1>10. TypesGoOn
  BY <1>8, <1>9, World DEF TypesGoOn
<1> QED BY <1>8, <1>9, <1>10, LedgerAlone, ReturnsFit, IdleType, GoOn

-----------------------------------------------------------------------------
(* Pruning.                                                                  *)

\* What delete_sessions collects.
LEMMA CollectKeeps == ASSUME Inv, NEW p \in Procs, Collect(p) PROVE Inv'
<1>1. PICK c \in Calls : c = call[p] /\ c.op = "prune"
  BY Here DEF Collect, At
<1>2. PICK S \in SUBSET Sessions : S = c.doomed
  BY CallParts
<1>3. PICK A \in SUBSET Nat : /\ A = ActionsOf(S)
                             /\ \A i \in A : /\ i \in DOMAIN table /\ table[i].kind = "action"
                                            /\ table[i].session \in S
  <2>1. \A i \in ActionsOf(S) : /\ i \in DOMAIN table /\ table[i].kind = "action"
                                /\ table[i].session \in S
    BY DEF ActionsOf, RowsOf
  <2>2. ActionsOf(S) \in SUBSET Nat
    BY <2>1, World
  <2> QED BY <2>1, <2>2
<1>4. PICK cites \in SUBSET Evidence :
        cites = Cited(Doomed(S, A)) \ Cited(DOMAIN table \ Doomed(S, A))
  <2>1. Doomed(S, A) \subseteq DOMAIN table
    BY <1>3 DEF Doomed, RowsOf, RunsOf
  <2>2. \A i \in DOMAIN table : table[i].cites \subseteq Evidence
    BY World, RowParts
  <2> QED BY <2>1, <2>2 DEF Cited, Present
<1> DEFINE next == [c EXCEPT !.at = "delete", !.actions = A, !.cites = cites]
<1>5. Become(p, next) /\ UNCHANGED <<session, table, evidence, program, client>>
      /\ UNCHANGED <<calls, ran, unsaved, overlap>>
  BY <1>1, <1>2, <1>3, <1>4 DEF Collect, ledger
<1>6. next \in Calls /\ next.at = "delete" /\ next.op = "prune" /\ next.doomed = S
      /\ next.actions = A
  BY <1>1, <1>2 DEF Calls, Steps
<1> HIDE DEF next
<1>7. CallFits(next)
  BY <1>3, <1>6 DEF CallFits
<1> QED BY <1>5, <1>6, <1>7, World, GoOnQuietly

\* What the collected actions are, when their sessions are deleted.
ActionsFit(S, A) == \A i \in A : /\ i \in 1..Len(table) /\ table[i].kind = "action"
                                /\ table[i].session \in S

LEMMA DeletionOf ==
  ASSUME Inv, NEW p \in Procs, DeleteSessions(p)
  PROVE  \E S \in SUBSET Sessions, A \in SUBSET Nat :
           S = call[p].doomed /\ A = call[p].actions /\ ActionsFit(S, A)
<1>1. PICK c \in Calls : c = call[p] /\ CallFits(c) /\ c.at = "delete"
  BY Here DEF DeleteSessions, At
<1>2. ActionsFit(c.doomed, c.actions)
  BY <1>1, World DEF CallFits, ActionsFit
<1> QED BY <1>1, <1>2, CallParts

LEMMA DoomedParts ==
  ASSUME Inv, NEW S \in SUBSET Sessions, NEW A \in SUBSET Nat, ActionsFit(S, A)
  PROVE  /\ A \subseteq Doomed(S, A)
         /\ \A i \in Doomed(S, A) : i \in 1..Len(table)
         /\ \A i \in 1..Len(table) : table[i].kind # "run" =>
              (i \in Doomed(S, A) => table[i].session \in S)
         /\ \A i \in 1..Len(table) : table[i].kind = "message" =>
              (i \in Doomed(S, A) <=> table[i].session \in S)
         /\ \A i \in 1..Len(table) : table[i].kind = "action" =>
              (i \in Doomed(S, A) <=> i \in A)
         /\ \A i \in 1..Len(table) : table[i].kind = "run" =>
              (i \in Doomed(S, A) <=> table[i].action \in A)
BY World DEF Doomed, RowsOf, RunsOf, ActionsFit

\* What is left of the ledger.
LEMMA DeletionLeaves ==
  ASSUME Inv, NEW p \in Procs, NEW S \in SUBSET Sessions, NEW A \in SUBSET Nat,
         S = call[p].doomed, A = call[p].actions, ActionsFit(S, A), DeleteSessions(p)
  PROVE  /\ session' \in [Sessions -> SessionRows] /\ table' \in Seq(TableRows)
         /\ Len(table') = Len(table)
         /\ TableGoesOn /\ SessionsGoOn
         /\ \A s \in Sessions : session'[s].status = IF s \in S THEN "deleted"
                                                     ELSE session[s].status
         /\ \A s \in Sessions : session'[s].title = session[s].title
         /\ \A i \in 1..Len(table) : table'[i].there <=> i \notin Doomed(S, A) /\ table[i].there
<1>1. session' \in [Sessions -> SessionRows]
      /\ (\A s \in Sessions : session'[s].status = IF s \in S THEN "deleted"
                                                  ELSE session[s].status)
      /\ (\A s \in Sessions : session'[s].title = session[s].title)
  <2>1. ASSUME NEW s \in Sessions
        PROVE  [session[s] EXCEPT !.status = "deleted"] \in SessionRows
               /\ [session[s] EXCEPT !.status = "deleted"].status = "deleted"
               /\ [session[s] EXCEPT !.status = "deleted"].title = session[s].title
    <3>1. PICK row \in SessionRows : row = session[s]
      BY World
    <3> QED BY <3>1 DEF SessionRows
  <2> QED BY <2>1, World DEF DeleteSessions
<1>2. ASSUME NEW i \in 1..Len(table)
      PROVE  LET gone == [table[i] EXCEPT !.there = FALSE] IN
             /\ gone \in TableRows /\ gone.kind = table[i].kind
             /\ gone.session = table[i].session /\ gone.action = table[i].action
             /\ gone.cites = table[i].cites /\ gone.there = FALSE
  <2>1. PICK row \in TableRows : row = table[i]
    BY World
  <2> QED BY <2>1 DEF TableRows
<1>3. table' = [i \in 1..Len(table) |->
                 IF i \in Doomed(S, A) THEN [table[i] EXCEPT !.there = FALSE] ELSE table[i]]
  BY World DEF DeleteSessions
<1>4. table' \in Seq(TableRows) /\ Len(table') = Len(table)
  <2>1. table' \in [1..Len(table) -> TableRows]
    BY <1>2, <1>3, World
  <2> QED BY <2>1, World
<1>5. \A i \in 1..Len(table) :
        /\ SameRow(table[i], table'[i])
        /\ table'[i].there <=> i \notin Doomed(S, A) /\ table[i].there
  <2> TAKE i \in 1..Len(table)
  <2>0. table[i].there \in BOOLEAN
    BY World, RowParts
  <2>1. CASE i \in Doomed(S, A)
    BY <1>2, <1>3, <2>0, <2>1 DEF SameRow
  <2>2. CASE i \notin Doomed(S, A)
    BY <1>3, <2>0, <2>2 DEF SameRow
  <2> QED BY <2>1, <2>2
<1>6. TableGoesOn
  BY <1>4, <1>5, World DEF TableGoesOn
<1>7. SessionsGoOn
  BY <1>1 DEF SessionsGoOn
<1> QED BY <1>1, <1>4, <1>5, <1>6, <1>7

LEMMA DeletionKeepsShown ==
  ASSUME Inv, NEW p \in Procs, NEW S \in SUBSET Sessions, NEW A \in SUBSET Nat,
         S = call[p].doomed, A = call[p].actions, ActionsFit(S, A), DeleteSessions(p),
         NEW s \in Sessions, s \notin S
  PROVE  Shown(s) \subseteq Shown(s)'
<1>1. /\ Len(table') = Len(table) /\ table' \in Seq(TableRows)
      /\ \A i \in 1..Len(table) : SameRow(table[i], table'[i])
      /\ \A i \in 1..Len(table) : table'[i].there <=> i \notin Doomed(S, A) /\ table[i].there
  BY DeletionLeaves DEF TableGoesOn
<1>2. DOMAIN table = 1..Len(table) /\ DOMAIN table' = 1..Len(table)
  BY <1>1, World
<1>3. RowsOf({s}) = RowsOf({s})'
  BY <1>1, <1>2 DEF RowsOf, SameRow
<1>4. \A i \in RowsOf({s}) : i \notin Doomed(S, A)
  BY <1>2, DoomedParts DEF RowsOf
<1>5. \A i \in RowsOf({s}) : table'[i].there <=> table[i].there
  BY <1>1, <1>2, <1>4 DEF RowsOf
<1>6. ActionsOf({s}) \subseteq ActionsOf({s})'
  BY <1>1, <1>2, <1>3, <1>5 DEF ActionsOf, RowsOf, SameRow
<1>7. ASSUME NEW i \in RunsOf(ActionsOf({s}))
      PROVE  i \in RunsOf(ActionsOf({s}))' /\ (table'[i].there <=> table[i].there)
  <2>1. i \in 1..Len(table) /\ table[i].kind = "run" /\ table[i].action \in ActionsOf({s})
    BY <1>2 DEF RunsOf
  <2>2. table[i].action \notin A
    BY <2>1 DEF ActionsOf, RowsOf, ActionsFit
  <2>3. i \notin Doomed(S, A)
    BY <2>1, <2>2, DoomedParts
  <2>4. table'[i].kind = "run" /\ table'[i].action = table[i].action
        /\ (table'[i].there <=> table[i].there)
    BY <1>1, <2>1, <2>3 DEF SameRow
  <2>5. PICK a \in ActionsOf({s}) : a = table[i].action
    BY <2>1
  <2>6. a \in ActionsOf({s})'
    BY <1>6
  <2>7. table'[i].action \in ActionsOf({s})'
    BY <2>4, <2>5, <2>6
  <2> QED BY <1>2, <2>1, <2>4, <2>7 DEF RunsOf
<1> QED BY <1>3, <1>5, <1>7 DEF Shown, Present

LEMMA DeletionFits ==
  ASSUME Inv, NEW p \in Procs, NEW S \in SUBSET Sessions, NEW A \in SUBSET Nat,
         S = call[p].doomed, A = call[p].actions, ActionsFit(S, A), DeleteSessions(p),
         NEW i \in 1..Len(table')
  PROVE  RowFits(table[i])'
<1>1. /\ Len(table') = Len(table) /\ table' \in Seq(TableRows)
      /\ \A j \in 1..Len(table) : SameRow(table[j], table'[j])
      /\ \A j \in 1..Len(table) : table'[j].there <=> j \notin Doomed(S, A) /\ table[j].there
  BY DeletionLeaves DEF TableGoesOn
<1>2. \A s \in Sessions : session'[s].status = IF s \in S THEN "deleted"
                                               ELSE session[s].status
  BY DeletionLeaves
<1>3. DOMAIN table = 1..Len(table) /\ DOMAIN table' = 1..Len(table) /\ i \in 1..Len(table)
  BY <1>1, World
<1>4. RowFits(table[i]) /\ table[i] \in TableRows /\ table[i].session \in Sessions
  BY <1>3, World, RowParts DEF Inv
<1>5. /\ table'[i].kind = table[i].kind /\ table'[i].session = table[i].session
      /\ table'[i].action = table[i].action
  BY <1>1, <1>3 DEF SameRow
<1>6. CASE table[i].kind # "run"
  <2>1. ~table'[i].there => table[i].session \in S \/ ~table[i].there
    BY <1>1, <1>3, <1>6, DoomedParts
  <2>2. ~table'[i].there => session'[table[i].session].status = "deleted"
    BY <1>2, <1>4, <1>6, <2>1 DEF RowFits
  <2> QED BY <1>5, <1>6, <2>2 DEF RowFits
<1>7. CASE table[i].kind = "run"
  <2>1. PICK a \in 1..Len(table) : a = table[i].action /\ table[a].kind = "action"
    BY <1>3, <1>4, <1>7 DEF RowFits
  <2>2. table'[a].kind = "action"
    BY <1>1, <2>1 DEF SameRow
  <2>3. a \in A => a \in Doomed(S, A)
    BY DoomedParts
  <2>4. ~table'[i].there => a \in Doomed(S, A) \/ ~table[a].there
    BY <1>1, <1>3, <1>4, <1>7, <2>1, <2>3, DoomedParts DEF RowFits
  <2>5. ~table'[i].there => ~table'[a].there
    BY <1>1, <2>1, <2>4
  <2> QED BY <1>3, <1>5, <1>7, <2>1, <2>2, <2>5 DEF RowFits
<1> QED BY <1>6, <1>7

LEMMA DeleteSessionsKeeps == ASSUME Inv, NEW p \in Procs, DeleteSessions(p) PROVE Inv'
<1>1. PICK S \in SUBSET Sessions, A \in SUBSET Nat :
        S = call[p].doomed /\ A = call[p].actions /\ ActionsFit(S, A)
  BY DeletionOf
<1>2. /\ session' \in [Sessions -> SessionRows] /\ table' \in Seq(TableRows)
      /\ TableGoesOn /\ SessionsGoOn
  BY <1>1, DeletionLeaves
<1>3. \A i \in 1..Len(table') : RowFits(table[i])'
  BY <1>1, DeletionFits
<1>4. ASSUME NEW s \in Sessions, There(s)' PROVE Shown(s) \subseteq Shown(s)'
  <2>1. s \notin S
    BY <1>1, <1>4, DeletionLeaves DEF There
  <2> QED BY <1>1, <2>1, DeletionKeepsShown
<1>5. /\ Return(p) /\ UNCHANGED <<client, calls, ran, unsaved, overlap>>
      /\ evidence' \in EvidenceRows
      /\ program' = program \/ program' = [program EXCEPT !.status = "deleted"]
  BY World DEF DeleteSessions, EvidenceRows
<1>6. PICK old \in Programs : old = program
  BY World
<1> DEFINE new == [old EXCEPT !.status = "deleted"]
<1>7. new \in Programs /\ new.status = "deleted" /\ new.session = old.session
      /\ new.phases = old.phases
  BY DEF Programs
<1>8. program' = old \/ (program' = new /\ old.session \in Sessions)
  BY <1>1, <1>5, <1>6 DEF DeleteSessions
<1> HIDE DEF new
<1>9. /\ program' \in Programs /\ (program.status # "absent" => program'.status # "absent")
      /\ program'.session = program.session /\ program'.phases = program.phases
  BY <1>6, <1>7, <1>8
<1>10. ProgramFits'
  <2>1. CASE program' = old
    BY <1>6, <2>1 DEF Inv, ProgramFits
  <2>2. CASE program' = new /\ old.session \in Sessions
    BY <1>6, <1>7, <1>9, <2>2, MemoryAssumption DEF Inv, ProgramFits
  <2> QED BY <1>8, <2>1, <2>2
<1>11. TypesGoOn
  BY <1>2, <1>5, <1>9, World DEF TypesGoOn
<1> QED BY <1>2, <1>3, <1>4, <1>5, <1>9, <1>10, <1>11, ReturnsFit, IdleType, GoOn

-----------------------------------------------------------------------------
(* The steps of no process: a session is created, a browser streams.         *)

LEMMA CreateSessionKeeps == ASSUME Inv, NEW s \in Sessions, CreateSession(s) PROVE Inv'
<1> DEFINE new == [status |-> "active", title |-> 0, edits |-> 0]
<1>1. new \in SessionRows /\ new.status = "active"
  BY DEF SessionRows
<1>2. session' = [session EXCEPT ![s] = new] /\ session[s].status = "absent"
  BY DEF CreateSession
<1> HIDE DEF new
<1>3. session' \in [Sessions -> SessionRows] /\ SessionsGoOn
  BY <1>1, <1>2, World DEF SessionsGoOn
<1>4. UNCHANGED <<table, evidence, program, call, client, calls, ran, unsaved, overlap>>
  BY DEF CreateSession
<1>5. TypeOK'
  BY <1>3, <1>4 DEF Inv, TypeOK
<1>6. \A q \in Procs : CallFits(call[q])'
  BY <1>4 DEF Inv, CallFits
<1>7. (\A i \in 1..Len(table') : RowFits(table[i])') /\ DOMAIN table' = 1..Len(table')
  BY <1>3, <1>4, TableAlone, World
<1>8. ClientFits'
  BY <1>3, <1>4, TableAlone, ClientFitsStays
<1>9. ProgramFits'
  BY <1>4 DEF Inv, ProgramFits
<1> QED BY <1>5, <1>6, <1>7, <1>8, <1>9 DEF Inv

LEMMA CreateEvidenceKeeps == ASSUME Inv, NEW e \in Evidence, CreateEvidence(e) PROVE Inv'
<1>1. UNCHANGED <<session, table, program, call, client, calls, ran, unsaved, overlap>>
  BY DEF CreateEvidence
<1>2. evidence' \in EvidenceRows
  BY World DEF CreateEvidence, EvidenceRows
<1>3. TypeOK'
  BY <1>1, <1>2 DEF Inv, TypeOK, EvidenceRows
<1>4. \A q \in Procs : CallFits(call[q])'
  BY <1>1 DEF Inv, CallFits
<1>5. (\A i \in 1..Len(table') : RowFits(table[i])') /\ DOMAIN table' = 1..Len(table')
  BY <1>1, LedgerAlone, World
<1>6. ClientFits' /\ ProgramFits'
  BY <1>1, LedgerAlone, ClientFitsStays DEF Inv, ProgramFits
<1> QED BY <1>3, <1>4, <1>5, <1>6 DEF Inv

\* The three parts of a signature; what is shown is counted by two of them.
LEMMA SignatureCounts ==
  ASSUME Inv, NEW s \in Sessions
  PROVE  /\ Signature(s)[1] = session[s].edits
         /\ Signature(s)[2] = Cardinality({i \in Shown(s) : ~IsRun(i)})
         /\ Signature(s)[3] = Cardinality({i \in Shown(s) : IsRun(i)})
<1>1. Present(RowsOf({s})) = {i \in Shown(s) : ~IsRun(i)}
  BY DEF Shown, Present, RowsOf, RunsOf, IsRun
<1>2. Present(RunsOf(ActionsOf({s}))) = {i \in Shown(s) : IsRun(i)}
  BY DEF Shown, Present, RowsOf, RunsOf, IsRun
<1> QED BY <1>1, <1>2 DEF Signature

LEMMA SnapshotFits ==
  ASSUME Inv, NEW s \in Sessions, There(s), client' = Snapshot(s), UNCHANGED <<session, table>>
  PROVE  ClientFits'
<1>1. client'.session = s /\ client'.signature = Signature(s) /\ client'.rows = Shown(s)
  BY DEF Snapshot
<1>2. Shown(s)' = Shown(s) /\ (\A i \in Shown(s) : IsRun(i)' <=> IsRun(i))
  BY DEF Shown, Present, RowsOf, RunsOf, ActionsOf, IsRun
<1>3. session'[s].status # "absent"
  BY DEF There
<1>4. /\ {i \in client.rows : ~IsRun(i)}' = {i \in Shown(s) : ~IsRun(i)}
      /\ {i \in client.rows : IsRun(i)}' = {i \in Shown(s) : IsRun(i)}
  BY <1>1, <1>2
<1> QED BY <1>1, <1>2, <1>3, <1>4, SignatureCounts DEF ClientFits

LEMMA ClientKeeps ==
  ASSUME Inv, Poll \/ (\E s \in Sessions : Open(s))
  PROVE  Inv'
<1>1. UNCHANGED <<ledger, call, calls, ran, unsaved, overlap>>
  BY DEF Poll, Open
<1>2. UNCHANGED <<session, table, evidence, program>>
  BY <1>1 DEF ledger
<1>3. ClientFits'
  <2>1. CASE client' = client
    BY <1>2, <2>1, LedgerAlone, ClientFitsStays
  <2>2. CASE client' = NoClient
    BY <2>2 DEF NoClient, ClientFits
  <2>3. ASSUME NEW s \in Sessions, There(s), client' = Snapshot(s) PROVE ClientFits'
    BY <1>2, <2>3, SnapshotFits
  <2>4. client.session # NoSession => client.session \in Sessions
    BY DEF Inv, ClientFits
  <2> QED BY <2>1, <2>2, <2>3, <2>4 DEF Poll, Open
<1>4. TypeOK'
  BY <1>1, <1>2 DEF Inv, TypeOK
<1>5. \A q \in Procs : CallFits(call[q])'
  BY <1>1, <1>2 DEF Inv, CallFits
<1>6. (\A i \in 1..Len(table') : RowFits(table[i])') /\ DOMAIN table' = 1..Len(table')
  BY <1>2, LedgerAlone, World
<1>7. ProgramFits'
  BY <1>2 DEF Inv, ProgramFits
<1> QED BY <1>3, <1>4, <1>5, <1>6, <1>7 DEF Inv

-----------------------------------------------------------------------------

LEMMA StepKeeps == ASSUME Inv, NEW p \in Procs, Step(p) PROVE Inv'
BY WriteSessionKeeps, FindKeeps, InsertRowKeeps, InsertRunKeeps, CollectKeeps,
   DeleteSessionsKeeps, AbortKeeps, InsertProgramKeeps, InsertPhaseActionKeeps, SaveProgramKeeps, StartPhaseKeeps,
   DispatchPhaseKeeps DEF Step

LEMMA InitHolds == ASSUME Init PROVE Inv
<1>1. TypeOK
  <2>1. None \in SessionRows
    BY DEF None, SessionRows
  <2>2. NoProgram \in Programs
    BY DEF NoProgram, Programs
  <2>3. session \in [Sessions -> SessionRows] /\ program \in Programs
        /\ evidence \in [Evidence -> {"absent", "kept", "deleted"}]
    BY <2>1, <2>2 DEF Init
  <2>4. call \in [Procs -> Calls] /\ ran \in [1..MaxPhases -> Nat]
    BY IdleType DEF Init
  <2>5. table = << >> /\ unsaved = {} /\ overlap = FALSE
    BY DEF Init
  <2>7. table \in Seq(TableRows)
    BY <2>5
  <2>6. calls \in 0..MaxCalls
    BY MemoryAssumption DEF Init
  <2> QED BY <2>3, <2>4, <2>5, <2>6, <2>7 DEF TypeOK
<1>2. \A p \in Procs : CallFits(call[p])
  BY IdleParts DEF Init, CallFits
<1>3. DOMAIN table = {}
  BY DEF Init
<1> QED BY <1>1, <1>2, <1>3 DEF Init, Inv, ProgramFits, ClientFits, NoProgram, NoClient

LEMMA StutterKeeps == ASSUME Inv, UNCHANGED vars PROVE Inv'
<1>1. UNCHANGED <<session, table, evidence, program, call, client, calls, ran, unsaved, overlap>>
  BY DEF vars, ledger
<1>2. TypeOK' /\ ProgramFits'
  BY <1>1 DEF Inv, TypeOK, ProgramFits
<1>3. ClientFits'
  BY <1>1, LedgerAlone, ClientFitsStays
<1>4. \A q \in Procs : CallFits(call[q])'
  BY <1>1 DEF Inv, CallFits
<1>5. (\A i \in 1..Len(table') : RowFits(table[i])') /\ DOMAIN table' = 1..Len(table')
  BY <1>1, LedgerAlone, World
<1> QED BY <1>2, <1>3, <1>4, <1>5 DEF Inv

LEMMA NextKeeps == ASSUME Inv, [Next]_vars PROVE Inv'
BY StepKeeps, BeginKeeps, CreateSessionKeeps, CreateEvidenceKeeps, ClientKeeps, StutterKeeps
DEF Next

LEMMA AlwaysInv == Spec => []Inv
BY InitHolds, NextKeeps, PTL DEF Spec

\* The ledger's rows, the calls and the program keep their shape: a save writes a whole
\* program, a transaction whole rows.
THEOREM TypeCorrect == Spec => []TypeOK
<1>1. Inv => TypeOK
  BY DEF Inv
<1> QED BY <1>1, AlwaysInv, PTL

\* A browser whose last snapshot has the current signature has seen every row of the
\* session (stream_agent_session): what it was sent is still there while the session is,
\* so equal counts leave room for no other row.
THEOREM StreamTellsRows == Spec => []SignatureTellsRows
<1>1. Inv => SignatureTellsRows
  <2> SUFFICES ASSUME Inv, client.session # NoSession, There(client.session),
                      client.signature = Signature(client.session)
               PROVE  client.rows = Shown(client.session)
    BY DEF SignatureTellsRows
  <2>1. PICK s \in Sessions : s = client.session
    BY DEF Inv, ClientFits
  <2> DEFINE rest == {i \in Shown(s) : ~IsRun(i)}
             runs == {i \in Shown(s) : IsRun(i)}
             rest0 == {i \in client.rows : ~IsRun(i)}
             runs0 == {i \in client.rows : IsRun(i)}
  <2>2. client.rows \subseteq Shown(s) /\ Cardinality(rest) = Cardinality(rest0)
        /\ Cardinality(runs) = Cardinality(runs0)
    BY <2>1, SignatureCounts DEF Inv, ClientFits
  <2>3. IsFiniteSet(rest) /\ IsFiniteSet(runs)
    <3>1. Shown(s) \subseteq 1..Len(table) /\ Len(table) \in Nat
      BY World DEF Shown, Present, RowsOf, RunsOf
    <3>2. IsFiniteSet(1..Len(table))
      BY <3>1, FS_Interval
    <3>3. rest \in SUBSET (1..Len(table)) /\ runs \in SUBSET (1..Len(table))
      BY <3>1
    <3> QED BY <3>2, <3>3, FS_Subset
  <2>4. rest0 \in SUBSET rest /\ runs0 \in SUBSET runs
    BY <2>2
  <2>5. rest0 = rest
    BY <2>2, <2>3, <2>4, FS_Subset
  <2>6. runs0 = runs
    BY <2>2, <2>3, <2>4, FS_Subset
  <2>7. client.rows = rest0 \cup runs0 /\ Shown(s) = rest \cup runs
    BY <2>2
  <2> QED BY <2>1, <2>5, <2>6, <2>7
<1> QED BY <1>1, AlwaysInv, PTL

-----------------------------------------------------------------------------
(* References between rows, while calls do not overlap.                      *)

\* A row that is there has its session, a run its action.
RowSound(row) ==
  row.there => IF row.kind = "run" THEN table[row.action].there ELSE There(row.session)

\* A call in progress finds what it has read or been given as it left it.
CallSound(c) ==
  /\ c.op \notin {"none", "prune", "run"} => There(c.session)
  /\ c.op = "run" => table[c.action].there
  /\ c.op = "program" /\ c.at = "dispatch" => table[c.action].there
  /\ \A s \in c.doomed : session[s].status = "archived"
  /\ (c.op = "update" /\ c.row.title # session[c.session].title) =>
       c.row.status = session[c.session].status
  /\ c.at = "delete" =>
       /\ c.actions = ActionsOf(c.doomed)
       /\ c.cites = Cited(Doomed(c.doomed, c.actions))
                    \ Cited(DOMAIN table \ Doomed(c.doomed, c.actions))

ProgramSound == program.status \notin {"absent", "deleted"} => There(program.session)

Sane ==
  /\ \A p, q \in Procs : p # q => call[p] = Idle \/ call[q] = Idle
  /\ \A p \in Procs : CallSound(call[p])
  /\ \A i \in 1..Len(table) : RowSound(table[i])
  /\ ProgramSound

Sound == Alone => Sane

LEMMA IdleSound == CallSound(Idle) /\ CallSound(Idle)'
BY IdleParts DEF CallSound

LEMMA OthersIdle ==
  ASSUME Sane, NEW p \in Procs, call[p] # Idle
  PROVE  \A q \in Procs \ {p} : call[q] = Idle
BY DEF Sane

\* A call that starts without overlap starts alone.
LEMMA StartsAlone ==
  ASSUME NEW p \in Procs, Starting(p), Alone'
  PROVE  Alone /\ (\A q \in Procs : call[q] = Idle)
BY DEF Starting, Alone

\* A step of the one process that is in a call, or starts one.
LEMMA SaneGoesOn ==
  ASSUME Inv, NEW p \in Procs, NEW d \in Calls, Become(p, d),
         \A q \in Procs \ {p} : call[q] = Idle, CallSound(d)',
         \A i \in 1..Len(table') : RowSound(table[i])', ProgramSound'
  PROVE  Sane'
<1>1. call'[p] = d /\ \A q \in Procs \ {p} : call'[q] = Idle
  BY World DEF Become
<1>2. \A q, r \in Procs : q # r => call'[q] = Idle \/ call'[r] = Idle
  BY <1>1
<1>3. ASSUME NEW q \in Procs PROVE CallSound(call[q])'
  <2>1. CASE q = p
    BY <1>1, <2>1 DEF CallSound
  <2>2. CASE q # p
    <3>1. call'[q] = Idle
      BY <1>1, <2>2
    <3> QED BY <3>1, IdleSound DEF CallSound
  <2> QED BY <2>1, <2>2
<1> QED BY <1>2, <1>3 DEF Sane

\* The rows keep what they refer to.
LEMMA RowsStaySound ==
  ASSUME Inv, Sane, UNCHANGED table, \A s \in Sessions : There(s) => There(s)'
  PROVE  \A i \in 1..Len(table') : RowSound(table[i])'
<1> SUFFICES ASSUME NEW i \in 1..Len(table) PROVE RowSound(table[i])'
  OBVIOUS
<1>1. RowSound(table[i]) /\ table[i].session \in Sessions
  BY World, RowParts DEF Sane
<1> QED BY <1>1 DEF RowSound

\* A step that leaves the rows and the program as they are.
LEMMA SaneQuietly ==
  ASSUME Inv, Sane, NEW p \in Procs, NEW d \in Calls, Become(p, d),
         \A q \in Procs \ {p} : call[q] = Idle, CallSound(d)',
         UNCHANGED <<session, table, program>>
  PROVE  Sane'
<1>1. /\ \A i \in 1..Len(table') : RowSound(table[i])'
      /\ ProgramSound'
  BY RowsStaySound DEF There, Sane, ProgramSound
<1> QED BY <1>1, SaneGoesOn

-----------------------------------------------------------------------------
(* The calls that begin.                                                     *)

\* A call that has been started alone.
LEMMA SaneStart ==
  ASSUME Inv, Sound, NEW p \in Procs, Starting(p), NEW d \in Calls, Become(p, d), Alone',
         Sane => CallSound(d)', UNCHANGED <<session, table, program>>
  PROVE  Sane'
<1>1. Alone /\ (\A q \in Procs : call[q] = Idle)
  BY StartsAlone
<1>2. Sane
  BY <1>1 DEF Sound
<1> QED BY <1>1, <1>2, SaneQuietly

LEMMA StartUpdateSound ==
  ASSUME Inv, Sound, NEW p \in Procs, NEW s \in Sessions, NEW row \in SessionRows,
         StartUpdate(p, s, row), Alone',
         row.title # session[s].title => row.status = session[s].status
  PROVE  Sane'
<1> DEFINE next == [Idle EXCEPT !.at = "write", !.op = "update", !.session = s, !.row = row]
<1>1. next \in Calls /\ next.at = "write" /\ next.op = "update" /\ next.session = s
      /\ next.row = row /\ next.doomed = {}
  BY IdleType DEF Idle, Calls, Steps, Ops
<1>2. Become(p, next) /\ There(s) /\ UNCHANGED <<session, table, evidence, program>> /\ Starting(p)
  BY DEF StartUpdate, ledger
<1> HIDE DEF next
<1>3. CallSound(next)'
  BY <1>1, <1>2 DEF CallSound, There
<1> QED BY <1>1, <1>2, <1>3, SaneStart

LEMMA UpdatesSound ==
  ASSUME Inv, Sound, NEW p \in Procs, NEW s \in Sessions,
         Rename(p, s) \/ SetSessionStatus(p, s), Alone'
  PROVE  Sane'
<1>1. PICK old \in SessionRows : old = session[s]
  BY World
<1>2. CASE Rename(p, s)
  <2> DEFINE row == [old EXCEPT !.title = 1 - @]
  <2>1. row \in SessionRows /\ row.status = old.status
    BY SessionParts DEF SessionRows
  <2>2. StartUpdate(p, s, row)
    BY <1>1, <1>2 DEF Rename
  <2> HIDE DEF row
  <2> QED BY <1>1, <2>1, <2>2, StartUpdateSound
<1>3. CASE SetSessionStatus(p, s)
  <2> DEFINE row == [old EXCEPT !.status = IF @ = "active" THEN "archived" ELSE "active"]
  <2>1. row \in SessionRows /\ row.title = old.title
    BY SessionParts DEF SessionRows
  <2>2. StartUpdate(p, s, row)
    BY <1>1, <1>3 DEF SetSessionStatus
  <2> HIDE DEF row
  <2> QED BY <1>1, <2>1, <2>2, StartUpdateSound
<1> QED BY <1>2, <1>3

LEMMA StartInsertSound ==
  ASSUME Inv, Sound, NEW p \in Procs, NEW s \in Sessions, NEW op, NEW cites \in SUBSET Evidence,
         StartInsert(p, s, op, cites), Alone'
  PROVE  Sane'
<1> DEFINE next == [Idle EXCEPT !.at = "find", !.op = op, !.session = s, !.cites = cites]
<1>1. op \in {"message", "action"} /\ Become(p, next) /\ There(s) /\ Starting(p)
      /\ UNCHANGED <<session, table, program>>
  BY DEF StartInsert, ledger
<1>2. next \in Calls /\ next.at = "find" /\ next.op = op /\ next.session = s
      /\ next.doomed = {}
  BY <1>1, IdleType DEF Idle, Calls, Steps, Ops
<1> HIDE DEF next
<1>3. CallSound(next)'
  BY <1>1, <1>2 DEF CallSound, There
<1> QED BY <1>1, <1>2, <1>3, SaneStart

LEMMA StartRunSound ==
  ASSUME Inv, Sound, NEW p \in Procs, NEW a, NEW cites \in SUBSET Evidence,
         StartRun(p, a, cites), Alone'
  PROVE  Sane'
<1>1. a \in DOMAIN table /\ table[a].there /\ Starting(p)
      /\ UNCHANGED <<session, table, program>>
  BY DEF StartRun, ledger
<1>2. PICK s \in Sessions : s = table[a].session
  BY <1>1, World, RowParts
<1>n. a \in Nat
  BY <1>1, World
<1> DEFINE next == [Idle EXCEPT !.at = "find", !.op = "run", !.session = s,
                               !.action = a, !.cites = cites]
<1>3. next \in Calls /\ next.at = "find" /\ next.op = "run"
      /\ next.action = a /\ next.doomed = {}
  BY <1>n, IdleType DEF Idle, Calls, Steps, Ops
<1>4. Become(p, next)
  BY <1>2 DEF StartRun
<1> HIDE DEF next
<1>5. CallSound(next)'
  BY <1>1, <1>3 DEF CallSound
<1> QED BY <1>1, <1>3, <1>4, <1>5, SaneStart

LEMMA ListArchivedSound ==
  ASSUME Inv, Sound, NEW p \in Procs, ListArchived(p), Alone'
  PROVE  Sane'
<1>1. PICK doomed \in SUBSET Sessions : doomed = {s \in Sessions : session[s].status = "archived"}
  OBVIOUS
<1> DEFINE next == [Idle EXCEPT !.at = "collect", !.op = "prune", !.doomed = doomed]
<1>2. Become(p, next) /\ UNCHANGED <<session, table, evidence, program>> /\ Starting(p)
  BY <1>1 DEF ListArchived, ledger
<1>3. next \in Calls /\ next.at = "collect" /\ next.op = "prune" /\ next.doomed = doomed
     
  BY IdleType DEF Idle, Calls, Steps, Ops
<1> HIDE DEF next
<1>4. CallSound(next)'
  BY <1>1, <1>2, <1>3 DEF CallSound
<1> QED BY <1>2, <1>3, <1>4, SaneStart

LEMMA StartCreateSound ==
  ASSUME Inv, Sound, NEW p \in Procs, NEW s \in Sessions, StartCreate(p, s), Alone'
  PROVE  Sane'
<1> DEFINE next == [Idle EXCEPT !.at = "plan", !.op = "create", !.session = s]
<1>1. Become(p, next) /\ There(s) /\ UNCHANGED <<session, table, evidence, program>> /\ Starting(p)
  BY DEF StartCreate, ledger
<1>2. next \in Calls /\ next.at = "plan" /\ next.op = "create" /\ next.session = s
      /\ next.doomed = {}
  BY IdleType DEF Idle, Calls, Steps, Ops
<1> HIDE DEF next
<1>3. CallSound(next)'
  BY <1>1, <1>2 DEF CallSound, There
<1> QED BY <1>1, <1>2, <1>3, SaneStart

LEMMA StartProgramSound ==
  ASSUME Inv, Sound, NEW p \in Procs, StartProgram(p), Alone'
  PROVE  Sane'
<1>1. program.status \notin {"absent", "deleted"} /\ Starting(p)
      /\ UNCHANGED <<session, table, evidence, program>>
  BY DEF StartProgram, ledger
<1>2. PICK copy \in Programs : copy = program
  BY World
<1>s. PICK s \in Sessions : s = program.session
  BY <1>1 DEF Inv, ProgramFits
<1> DEFINE next == [Idle EXCEPT !.at = "phase", !.op = "program", !.session = s, !.copy = copy]
<1>3. next \in Calls /\ next.at = "phase" /\ next.op = "program"
      /\ next.session = s /\ next.doomed = {}
  BY IdleType DEF Idle, Calls, Steps, Ops
<1>4. Become(p, next)
  BY <1>2, <1>s DEF StartProgram
<1> HIDE DEF next
<1>5. Sane => CallSound(next)'
  BY <1>1, <1>s, <1>3 DEF CallSound, There, Sane, ProgramSound
<1> QED BY <1>1, <1>3, <1>4, <1>5, SaneStart

LEMMA BeginSound == ASSUME Inv, Sound, NEW p \in Procs, Begin(p), Alone' PROVE Sane'
BY UpdatesSound, StartInsertSound, StartRunSound, ListArchivedSound, StartCreateSound,
   StartProgramSound DEF Begin

-----------------------------------------------------------------------------
(* The steps of a call, alone.                                               *)

LEMMA Busy ==
  ASSUME Inv, Sound, Alone, NEW p \in Procs, call[p].at # "idle"
  PROVE  /\ Sane /\ (\A q \in Procs \ {p} : call[q] = Idle)
         /\ call[p] \in Calls /\ CallFits(call[p]) /\ CallSound(call[p])
BY Here, OthersIdle, IdleParts DEF Sound, Sane

\* A call that ends without having written a row.
LEMMA ReturnSound ==
  ASSUME Inv, Sound, Alone, NEW p \in Procs, call[p].at # "idle", Return(p),
         UNCHANGED <<session, table, program>>
  PROVE  Sane'
<1>1. Sane /\ (\A q \in Procs \ {p} : call[q] = Idle)
  BY Busy
<1>2. Become(p, Idle)
  BY DEF Return
<1> QED BY <1>1, <1>2, IdleType, IdleSound, SaneQuietly

LEMMA FindSound ==
  ASSUME Inv, Sound, Alone, NEW p \in Procs, FindSession(p) \/ FindAction(p)
  PROVE  Sane'
<1>1. UNCHANGED <<session, table, program>> /\ call[p].at = "find"
  BY DEF FindSession, FindAction, At, ledger
<1>2. PICK c \in Calls : c = call[p] /\ CallSound(c) /\ c.at = "find"
  BY <1>1, Busy
<1>3. Sane /\ (\A q \in Procs \ {p} : call[q] = Idle)
  BY <1>1, Busy
<1>4. Go(p, "insert")
  BY <1>2 DEF FindSession, FindAction, At, CallSound
<1> DEFINE next == [c EXCEPT !.at = "insert"]
<1>5. Become(p, next)
  BY <1>2, <1>4 DEF Go
<1>6. /\ next \in Calls /\ next.at = "insert" /\ next.op = c.op /\ next.session = c.session
      /\ next.row = c.row /\ next.action = c.action /\ next.doomed = c.doomed
  BY DEF Calls, Steps
<1> HIDE DEF next
<1>7. CallSound(next)'
  BY <1>1, <1>2, <1>6 DEF CallSound, There
<1> QED BY <1>1, <1>2, <1>3, <1>5, <1>6, <1>7, SaneQuietly

LEMMA StartPhaseSound ==
  ASSUME Inv, Sound, Alone, NEW p \in Procs, NEW cites \in SUBSET Evidence, StartPhase(p, cites)
  PROVE  Sane'
<1>1. UNCHANGED <<session, table, program>>
      /\ call[p].at = "phase" /\ call[p].op = "program"
  BY DEF StartPhase, At
<1>2. PICK c \in Calls : c = call[p] /\ CallSound(c) /\ c.at = "phase" /\ c.op = "program"
  BY <1>1, Busy
<1>3. Sane /\ (\A q \in Procs \ {p} : call[q] = Idle)
  BY <1>1, Busy
<1> DEFINE next == [c EXCEPT !.at = "find", !.cites = cites]
<1>4. Become(p, next)
  BY <1>2 DEF StartPhase
<1>5. /\ next \in Calls /\ next.at = "find" /\ next.op = "program" /\ next.session = c.session
      /\ next.doomed = c.doomed
  BY <1>2 DEF Calls, Steps
<1> HIDE DEF next
<1>6. CallSound(next)'
  BY <1>1, <1>2, <1>5 DEF CallSound, There
<1> QED BY <1>1, <1>3, <1>4, <1>5, <1>6, SaneQuietly

LEMMA DispatchPhaseSound ==
  ASSUME Inv, Sound, Alone, NEW p \in Procs, NEW outcome \in Outcomes, DispatchPhase(p, outcome)
  PROVE  Sane'
<1>1. UNCHANGED <<session, table, program>>
      /\ call[p].at = "dispatch" /\ call[p].op = "program"
  BY DEF DispatchPhase, At, ledger
<1>2. CASE Return(p)
  BY <1>1, <1>2, ReturnSound
<1>3. CASE ~Return(p)
  <2>1. PICK c \in Calls : c = call[p] /\ CallSound(c) /\ c.at = "dispatch" /\ c.op = "program"
    BY <1>1, Busy
  <2>2. PICK i : i = First(Pending(c.copy))
    OBVIOUS
  <2> DEFINE next == [c EXCEPT !.at = "phase", !.copy.current = i, !.copy.phases[i] = outcome]
  <2>3. Become(p, next)
    BY <1>3, <2>1, <2>2 DEF DispatchPhase, Fail
  <2>4. /\ next.at = "phase" /\ next.op = "program" /\ next.session = c.session
        /\ next.doomed = c.doomed
    BY <2>1 DEF Calls
  <2> HIDE DEF next
  <2>5. call'[p] = next
    BY <2>3, World DEF Become
  <2>6. Inv'
    BY DispatchPhaseKeeps
  <2>7. next \in Calls
    BY <2>5, <2>6, Here DEF Inv, TypeOK
  <2>9. CallSound(next)'
    BY <1>1, <2>1, <2>4 DEF CallSound, There
  <2>10. Sane /\ (\A q \in Procs \ {p} : call[q] = Idle)
    BY <1>1, Busy
  <2> QED BY <1>1, <2>1, <2>3, <2>4, <2>7, <2>9, <2>10, SaneQuietly
<1> QED BY <1>2, <1>3

LEMMA WriteSessionSound == ASSUME Inv, Sound, Alone, NEW p \in Procs, WriteSession(p) PROVE Sane'
<1>1. UNCHANGED <<table, program>> /\ Return(p)
      /\ call[p].at = "write" /\ call[p].op = "update"
  BY DEF WriteSession, At
<1>2. PICK c \in Calls : c = call[p] /\ CallFits(c) /\ CallSound(c) /\ c.at = "write"
                         /\ c.op = "update"
  BY <1>1, Busy
<1>3. PICK s \in Sessions : s = c.session
  BY <1>2 DEF CallFits
<1>4. PICK row \in SessionRows : row = c.row /\ row.status \in {"active", "archived"}
  BY <1>2, CallParts DEF CallFits
<1>e. session[s].edits \in Nat
  BY World, SessionParts
<1> DEFINE new == [row EXCEPT !.edits = session[s].edits + 1]
<1>5. session' = [session EXCEPT ![s] = new] \/ session' = session
  BY <1>2, <1>3, <1>4 DEF WriteSession
<1>6. new.status = row.status
  BY <1>e DEF SessionRows
<1> HIDE DEF new
<1>7. \A t \in Sessions : There(t) => There(t)'
  BY <1>4, <1>5, <1>6, World DEF There
<1>8. Sane /\ (\A q \in Procs \ {p} : call[q] = Idle)
  BY <1>1, Busy
<1>9. \A i \in 1..Len(table') : RowSound(table[i])'
  BY <1>1, <1>7, <1>8, RowsStaySound
<1>10. ProgramSound'
  BY <1>1, <1>7, <1>8 DEF Sane, ProgramSound, Inv, ProgramFits
<1> QED BY <1>1, <1>8, <1>9, <1>10, ReturnsFit, IdleType, IdleSound, SaneGoesOn

\* A call inserts its row.
LEMMA SaneAppend ==
  ASSUME Inv, Sound, Alone, NEW p \in Procs, call[p].at = "insert", NEW row \in TableRows,
         table' = Append(table, row), row.there,
         row.kind = "run" => row.action \in 1..Len(table) /\ table[row.action].kind = "action"
                             /\ table[row.action].there,
         row.kind # "run" => There(row.session),
         \A s \in Sessions : session'[s].status = session[s].status,
         UNCHANGED program,
         NEW d \in Calls, Become(p, d), CallSound(d)'
  PROVE  Sane'
<1>1. Sane /\ (\A q \in Procs \ {p} : call[q] = Idle) /\ CallSound(call[p])
  BY Busy
<1>2. /\ DOMAIN table' = 1..(Len(table) + 1) /\ Len(table') = Len(table) + 1
      /\ \A i \in 1..Len(table) : table'[i] = table[i]
      /\ table'[Len(table) + 1] = row /\ Len(table) \in Nat
  BY World
<1>6. ProgramSound'
  BY <1>1 DEF Sane, ProgramSound, There, Inv, ProgramFits
<1>7. ASSUME NEW i \in 1..Len(table') PROVE RowSound(table[i])'
  <2>1. CASE i \in 1..Len(table)
    <3>1. /\ RowSound(table[i]) /\ RowFits(table[i]) /\ table[i].session \in Sessions
          /\ table'[i] = table[i]
      BY <1>1, <1>2, <2>1, World, RowParts DEF Inv, Sane
    <3>2. table[i].kind = "run" => table'[table[i].action] = table[table[i].action]
      BY <1>2, <3>1, World DEF RowFits
    <3> QED BY <3>1, <3>2 DEF RowSound, There
  <2>2. CASE i = Len(table) + 1
    <3>1. row.session \in Sessions
      BY RowParts
    <3>2. row.kind = "run" => table'[row.action] = table[row.action]
      BY <1>2
    <3> QED BY <1>2, <2>2, <3>1, <3>2 DEF RowSound, There
  <2> QED BY <1>2, <2>1, <2>2
<1> QED BY <1>1, <1>6, <1>7, SaneGoesOn

LEMMA InsertRowSound == ASSUME Inv, Sound, Alone, NEW p \in Procs, InsertRow(p) PROVE Sane'
<1>1. UNCHANGED program /\ Return(p) /\ call[p].at = "insert"
      /\ call[p].op \in {"message", "action"}
  BY DEF InsertRow
<1>2. PICK c \in Calls : c = call[p] /\ CallFits(c) /\ CallSound(c) /\ c.at = "insert"
                         /\ c.op \in {"message", "action"}
  BY <1>1, Busy
<1>3. c.session \in Sessions /\ c.cites \in SUBSET Evidence /\ There(c.session)
  BY <1>2, CallParts DEF CallFits, CallSound
<1> DEFINE row == NewRow(c.op, c.session, 0, c.cites)
<1>4. row \in TableRows /\ row.kind = c.op /\ row.there /\ row.session = c.session
  BY <1>2, <1>3 DEF NewRow, TableRows
<1>5. table' = Append(table, row)
  BY <1>2 DEF InsertRow
<1> HIDE DEF row
<1>6. \A s \in Sessions : session'[s].status = session[s].status
  <2>1. PICK s \in Sessions : s = c.session
    BY <1>3
  <2>2. session' = session \/ session' = [session EXCEPT ![s].edits = @ + 1]
    BY <1>2, <2>1 DEF InsertRow
  <2>3. PICK old \in SessionRows : old = session[s]
    BY World
  <2> DEFINE new == [old EXCEPT !.edits = @ + 1]
  <2>4. new.status = old.status
    BY SessionParts DEF SessionRows
  <2>5. session' = session \/ session' = [session EXCEPT ![s] = new]
    BY <2>2, <2>3
  <2> HIDE DEF new
  <2> QED BY <2>3, <2>4, <2>5, World
<1> QED BY <1>1, <1>2, <1>3, <1>4, <1>5, <1>6, ReturnsFit, IdleType, IdleSound, SaneAppend

LEMMA InsertRunSound == ASSUME Inv, Sound, Alone, NEW p \in Procs, InsertRun(p) PROVE Sane'
<1>1. UNCHANGED <<session, program>> /\ Return(p) /\ call[p].at = "insert"
      /\ call[p].op = "run"
  BY DEF InsertRun, At
<1>2. PICK c \in Calls : c = call[p] /\ CallFits(c) /\ CallSound(c) /\ c.at = "insert"
                         /\ c.op = "run"
  BY <1>1, Busy
<1>3. c.session \in Sessions /\ c.cites \in SUBSET Evidence /\ c.action \in Nat
      /\ c.action \in 1..Len(table) /\ table[c.action].kind = "action" /\ table[c.action].there
  BY <1>2, World, CallParts DEF CallFits, CallSound
<1> DEFINE row == NewRow("run", c.session, c.action, c.cites)
<1>4. row \in TableRows /\ row.kind = "run" /\ row.there /\ row.action = c.action
  BY <1>3 DEF NewRow, TableRows
<1>5. table' = Append(table, row)
  BY <1>2 DEF InsertRun
<1> HIDE DEF row
<1> QED BY <1>1, <1>2, <1>3, <1>4, <1>5, ReturnsFit, IdleType, IdleSound, SaneAppend

LEMMA InsertPhaseActionSound ==
  ASSUME Inv, Sound, Alone, NEW p \in Procs, InsertPhaseAction(p)
  PROVE  Sane'
<1>1. UNCHANGED <<session, program>> /\ call[p].at = "insert"
      /\ call[p].op = "program"
  BY DEF InsertPhaseAction, At
<1>2. PICK c \in Calls : c = call[p] /\ CallFits(c) /\ CallSound(c) /\ c.at = "insert"
                         /\ c.op = "program"
  BY <1>1, Busy
<1>3. c.session \in Sessions /\ c.cites \in SUBSET Evidence /\ There(c.session)
  BY <1>2, CallParts DEF CallFits, CallSound
<1>n. PICK n \in Nat : n = Len(table) + 1
  BY World
<1> DEFINE row == NewRow("action", c.session, 0, c.cites)
           next == [c EXCEPT !.at = "dispatch", !.action = n, !.cites = {}]
<1>4. row \in TableRows /\ row.kind = "action" /\ row.there /\ row.session = c.session
  BY <1>3 DEF NewRow, TableRows
<1>5. table' = Append(table, row)
  BY <1>2 DEF InsertPhaseAction
<1>6. Become(p, next)
  BY <1>2, <1>n DEF InsertPhaseAction
<1>7. next \in Calls /\ next.at = "dispatch" /\ next.op = "program" /\ next.action = n
      /\ next.session = c.session /\ next.doomed = c.doomed
  BY <1>2 DEF Calls, Steps
<1> HIDE DEF row, next
<1>8. table'[n].there
  BY <1>4, <1>5, <1>n, World
<1>9. CallSound(next)'
  BY <1>1, <1>2, <1>7, <1>8 DEF CallSound, There
<1> QED BY <1>1, <1>2, <1>3, <1>4, <1>5, <1>6, <1>7, <1>9, SaneAppend

\* A step that writes the program's row.
LEMMA ProgramWritten ==
  ASSUME Inv, Sound, Alone, NEW p \in Procs, call[p].at \in {"plan", "phase"}, Return(p),
         UNCHANGED <<session, table>>, ProgramSound'
  PROVE  Sane'
<1>1. Sane /\ (\A q \in Procs \ {p} : call[q] = Idle) /\ CallSound(call[p])
  BY Busy
<1>2. \A i \in 1..Len(table') : RowSound(table[i])'
  BY <1>1, RowsStaySound DEF There
<1> QED BY <1>1, <1>2, ReturnsFit, IdleType, IdleSound, SaneGoesOn

LEMMA InsertProgramSound ==
  ASSUME Inv, Sound, Alone, NEW p \in Procs, NEW n \in 0..MaxPhases, InsertProgram(p, n)
  PROVE  Sane'
<1>1. UNCHANGED <<session, table>> /\ Return(p) /\ call[p].at = "plan"
      /\ call[p].op = "create" /\ program'.session = call[p].session
  BY DEF InsertProgram, At
<1>2. There(call[p].session)
  BY <1>1, Busy DEF CallSound
<1> QED BY <1>1, <1>2, ProgramWritten DEF ProgramSound, There

LEMMA SaveProgramSound == ASSUME Inv, Sound, Alone, NEW p \in Procs, SaveProgram(p) PROVE Sane'
<1>1. UNCHANGED <<session, table>> /\ Return(p) /\ call[p].at = "phase"
      /\ call[p].op = "program"
  BY DEF SaveProgram, At
<1>2. PICK c \in Calls : c = call[p] /\ CallFits(c) /\ CallSound(c) /\ c.op = "program"
  BY <1>1, Busy
<1>3. PICK copy \in Programs : copy = c.copy /\ There(copy.session)
  BY <1>2, CallParts DEF CallFits, CallSound
<1>4. PICK status : status = StatusAfter(p)
  OBVIOUS
<1> DEFINE new == [copy EXCEPT !.status = status]
<1>5. new.session = copy.session
  BY DEF Programs
<1>6. program' = program \/ program' = new
  BY <1>2, <1>3, <1>4 DEF SaveProgram
<1> HIDE DEF new
<1>7. ProgramSound
  BY <1>1, Busy DEF Sane
<1>8. ProgramSound'
  BY <1>1, <1>3, <1>5, <1>6, <1>7 DEF ProgramSound, There
<1> QED BY <1>1, <1>8, ProgramWritten

\* The actions that were collected are still those of the sessions.
LEMMA DeletionAlone ==
  ASSUME Inv, Sound, Alone, NEW p \in Procs, DeleteSessions(p)
  PROVE  \E S \in SUBSET Sessions, A \in SUBSET Nat :
           /\ S = call[p].doomed /\ A = call[p].actions /\ ActionsFit(S, A)
           /\ \A i : i \in A <=> i \in ActionsOf(S)
           /\ call[p].cites = Cited(Doomed(S, A)) \ Cited(DOMAIN table \ Doomed(S, A))
<1>1. PICK S \in SUBSET Sessions, A \in SUBSET Nat :
        S = call[p].doomed /\ A = call[p].actions /\ ActionsFit(S, A)
  BY DeletionOf
<1>2. CallSound(call[p]) /\ call[p].at = "delete"
  BY Busy DEF DeleteSessions, At
<1> QED BY <1>1, <1>2 DEF CallSound

LEMMA CollectSound == ASSUME Inv, Sound, Alone, NEW p \in Procs, Collect(p) PROVE Sane'
<1>1. UNCHANGED <<session, table, program>> /\ call[p].at = "collect" /\ call[p].op = "prune"
  BY DEF Collect, At, ledger
<1>2. PICK c \in Calls : c = call[p] /\ CallSound(c) /\ c.op = "prune"
  BY <1>1, Busy
<1>3. PICK A : A = ActionsOf(c.doomed)
  OBVIOUS
<1>4. PICK cites : cites = Cited(Doomed(c.doomed, A)) \ Cited(DOMAIN table \ Doomed(c.doomed, A))
  OBVIOUS
<1> DEFINE next == [c EXCEPT !.at = "delete", !.actions = A, !.cites = cites]
<1>5. Become(p, next)
  BY <1>2, <1>3, <1>4 DEF Collect
<1>6. /\ next.at = "delete" /\ next.op = "prune" /\ next.doomed = c.doomed
      /\ next.actions = A /\ next.cites = cites
  BY <1>2 DEF Calls
<1> HIDE DEF next
<1>7. next \in Calls
  <2>1. call'[p] = next /\ Inv'
    BY <1>5, World, CollectKeeps DEF Become
  <2> QED BY <2>1 DEF Inv, TypeOK
<1>8. CallSound(next)'
  <2>1. /\ ActionsOf(c.doomed)' = ActionsOf(c.doomed)
        /\ Cited(Doomed(c.doomed, A))' = Cited(Doomed(c.doomed, A))
        /\ Cited(DOMAIN table \ Doomed(c.doomed, A))' = Cited(DOMAIN table \ Doomed(c.doomed, A))
    BY <1>1 DEF ActionsOf, RowsOf, RunsOf, Doomed, Cited, Present
  <2>2. next.at = "delete" =>
          /\ next.actions = ActionsOf(next.doomed)'
          /\ next.cites = (Cited(Doomed(next.doomed, next.actions))
                           \ Cited(DOMAIN table \ Doomed(next.doomed, next.actions)))'
    BY <1>1, <1>3, <1>4, <1>6, <2>1
  <2> QED BY <1>1, <1>2, <1>6, <2>2 DEF CallSound
<1>9. Sane /\ (\A q \in Procs \ {p} : call[q] = Idle)
  BY <1>1, Busy
<1> QED BY <1>1, <1>5, <1>7, <1>8, <1>9, SaneQuietly

LEMMA DeletionSound ==
  ASSUME Inv, Sane, NEW p \in Procs, NEW S \in SUBSET Sessions, NEW A \in SUBSET Nat,
         S = call[p].doomed, A = call[p].actions, ActionsFit(S, A),
         \A i : i \in A <=> i \in ActionsOf(S), DeleteSessions(p), NEW i \in 1..Len(table')
  PROVE  RowSound(table[i])'
<1>1. /\ Len(table') = Len(table) /\ DOMAIN table = 1..Len(table)
      /\ \A j \in 1..Len(table) : SameRow(table[j], table'[j])
      /\ \A j \in 1..Len(table) : table'[j].there <=> j \notin Doomed(S, A) /\ table[j].there
  BY World, DeletionLeaves DEF TableGoesOn
<1>2. \A s \in Sessions : session'[s].status = IF s \in S THEN "deleted"
                                               ELSE session[s].status
  BY DeletionLeaves
<1> SUFFICES ASSUME table'[i].there PROVE RowSound(table[i])'
  BY DEF RowSound
<1>3. /\ i \in 1..Len(table) /\ table[i].there /\ i \notin Doomed(S, A)
      /\ RowSound(table[i]) /\ RowFits(table[i]) /\ table[i].session \in Sessions
  BY <1>1, World, RowParts DEF Sane, Inv
<1>4. /\ table'[i].kind = table[i].kind /\ table'[i].session = table[i].session
      /\ table'[i].action = table[i].action
  BY <1>1, <1>3 DEF SameRow
<1>5. CASE table[i].kind # "run"
  <2>1. table[i].session \notin S
    <3>1. table[i].kind \in {"message", "action"} /\ i \in DOMAIN table
      BY <1>1, <1>3, <1>5, World, RowParts
    <3>2. table[i].kind = "action" /\ table[i].session \in S => i \in A
      BY <1>3, <3>1 DEF ActionsOf, RowsOf
    <3> QED BY <1>3, <3>1, <3>2, DoomedParts
  <2> QED BY <1>2, <1>3, <1>4, <1>5, <2>1 DEF RowSound, There
<1>6. CASE table[i].kind = "run"
  <2>1. PICK a \in 1..Len(table) : a = table[i].action /\ table[a].kind = "action"
                                   /\ table[a].there
    BY <1>1, <1>3, <1>6 DEF RowFits, RowSound
  <2>2. a \notin A
    BY <1>3, <1>6, <2>1, DoomedParts
  <2>3. a \notin Doomed(S, A)
    BY <1>1, <2>1, <2>2, DoomedParts
  <2>4. table'[a].there
    BY <1>1, <2>1, <2>3
  <2> QED BY <1>4, <1>6, <2>1, <2>4 DEF RowSound
<1> QED BY <1>5, <1>6

LEMMA DeleteSessionsSound ==
  ASSUME Inv, Sound, Alone, NEW p \in Procs, DeleteSessions(p)
  PROVE  Sane'
<1>1. Return(p) /\ call[p].at = "delete"
  BY DEF DeleteSessions, At
<1>2. Sane /\ (\A q \in Procs \ {p} : call[q] = Idle) /\ CallSound(call[p])
  BY <1>1, Busy
<1>3. PICK S \in SUBSET Sessions, A \in SUBSET Nat :
        /\ S = call[p].doomed /\ A = call[p].actions /\ ActionsFit(S, A)
        /\ \A i : i \in A <=> i \in ActionsOf(S)
  BY DeletionAlone
<1>4. \A i \in 1..Len(table') : RowSound(table[i])'
  BY <1>2, <1>3, DeletionSound
<1>7. ProgramSound'
  <2>1. CASE program.session \in S
    <3>1. PICK old \in Programs : old = program
      BY World
    <3> DEFINE new == [old EXCEPT !.status = "deleted"]
    <3>2. new.status = "deleted"
      BY DEF Programs
    <3>3. program' = new
      BY <1>3, <2>1, <3>1 DEF DeleteSessions
    <3> HIDE DEF new
    <3> QED BY <3>2, <3>3 DEF ProgramSound
  <2>2. CASE program.session \notin S
    <3>1. program' = program
      BY <1>3, <2>2 DEF DeleteSessions
    <3>2. \A s \in Sessions \ S : There(s) => There(s)'
      BY <1>3, DeletionLeaves DEF There
    <3>3. ProgramSound /\ (program.status # "absent" => program.session \in Sessions)
      BY <1>2 DEF Sane, Inv, ProgramFits
    <3> QED BY <2>2, <3>1, <3>2, <3>3 DEF ProgramSound
  <2> QED BY <2>1, <2>2
<1> QED BY <1>1, <1>2, <1>4, <1>7, ReturnsFit, IdleType, IdleSound, SaneGoesOn

LEMMA AbortSound == ASSUME Inv, Sound, Alone, NEW p \in Procs, Abort(p) PROVE Sane'
<1>1. UNCHANGED <<session, table, program>> /\ Return(p) /\ call[p] # Idle
  BY DEF Abort, Fail, ledger
<1>2. call[p].at # "idle"
  BY <1>1, Here DEF CallFits
<1> QED BY <1>1, <1>2, ReturnSound

\* Steps of no process.
LEMMA OthersSound ==
  ASSUME Inv, Sound, Alone, UNCHANGED <<table, program, call>>,
         UNCHANGED session \/ (\E s \in Sessions : CreateSession(s))
  PROVE  Sane'
<1>1. Sane
  BY DEF Sound
<1>2. \A t \in Sessions : session[t].status # "absent" => session'[t] = session[t]
  BY World DEF CreateSession
<1>3. \A t \in Sessions : There(t) => There(t)' /\ session'[t] = session[t]
  BY <1>2 DEF There
<1>4. \A i \in 1..Len(table') : RowSound(table[i])'
  BY <1>1, <1>3, RowsStaySound
<1>5. ProgramSound'
  BY <1>1, <1>3 DEF Sane, ProgramSound, Inv, ProgramFits
<1>6. ASSUME NEW q \in Procs PROVE CallSound(call[q])'
  <2>1. PICK c \in Calls : c = call[q] /\ CallFits(c) /\ CallSound(c)
    BY <1>1, Here DEF Sane
  <2>2. /\ c.op \notin {"none", "prune", "run"} => There(c.session)' /\ session'[c.session] = session[c.session]
        /\ \A s \in c.doomed : session'[s].status = "archived"
    BY <1>2, <1>3, <2>1, CallParts DEF CallFits, CallSound
  <2>3. CallSound(c)'
    <3>1. c.at = "delete" =>
            /\ ActionsOf(c.doomed)' = ActionsOf(c.doomed)
            /\ Cited(Doomed(c.doomed, c.actions))' = Cited(Doomed(c.doomed, c.actions))
            /\ Cited(DOMAIN table \ Doomed(c.doomed, c.actions))'
                  = Cited(DOMAIN table \ Doomed(c.doomed, c.actions))
      BY DEF ActionsOf, RowsOf, RunsOf, Doomed, Cited, Present
    <3> QED BY <2>1, <2>2, <3>1 DEF CallSound
  <2> QED BY <2>1, <2>3
<1> QED BY <1>1, <1>4, <1>5, <1>6 DEF Sane

LEMMA StepSound == ASSUME Inv, Sound, Alone, NEW p \in Procs, Step(p) PROVE Sane'
BY WriteSessionSound, FindSound, InsertRowSound, InsertRunSound, CollectSound,
   DeleteSessionsSound, AbortSound, InsertProgramSound, InsertPhaseActionSound, SaveProgramSound, StartPhaseSound,
   DispatchPhaseSound DEF Step

LEMMA InitSound == ASSUME Init PROVE Sound
<1>1. /\ \A p \in Procs : call[p] = Idle
      /\ table = << >> /\ program.status = "absent"
  BY DEF Init, NoProgram
<1>2. Len(table) = 0
  BY <1>1
<1>3. \A p \in Procs : CallSound(call[p])
  BY <1>1, IdleSound
<1> QED BY <1>1, <1>2, <1>3 DEF Sound, Sane, ProgramSound

\* Calls that have not overlapped yet did not before.
LEMMA StaysAlone == ASSUME [Next]_vars, Alone' PROVE Alone
<1>1. ASSUME NEW p \in Procs, Step(p) PROVE overlap' = overlap
  BY <1>1 DEF Step, WriteSession, FindSession, InsertRow, FindAction, InsertRun, Collect,
     DeleteSessions, InsertProgram, InsertPhaseAction, SaveProgram, StartPhase, DispatchPhase,
     Abort
<1>2. ASSUME NEW p \in Procs, Begin(p) PROVE overlap => overlap'
  BY <1>2 DEF Begin, Rename, SetSessionStatus, StartUpdate, StartInsert, StartCreate,
     StartRun, ListArchived, StartProgram, Starting
<1> QED BY <1>1, <1>2 DEF Next, CreateSession, CreateEvidence, Open, Poll, vars, Alone

LEMMA SoundKept == ASSUME Inv, Sound, [Next]_vars PROVE Sound'
<1> SUFFICES ASSUME Alone' PROVE Sane'
  BY DEF Sound
<1>1. Alone
  BY StaysAlone
<1>2. ASSUME NEW s \in Sessions, CreateSession(s) PROVE Sane'
  BY <1>1, <1>2, OthersSound DEF CreateSession
<1>3. CASE Poll \/ (\E s \in Sessions : Open(s)) \/ (\E e \in Evidence : CreateEvidence(e))
           \/ UNCHANGED vars
  <2>1. UNCHANGED <<session, table, program, call>>
    BY <1>3 DEF Poll, Open, CreateEvidence, vars, ledger
  <2> QED BY <1>1, <2>1, OthersSound
<1> QED BY <1>1, <1>2, <1>3, StepSound, BeginSound DEF Next

LEMMA AlwaysSound == Spec => []Sound
BY AlwaysInv, InitSound, SoundKept, PTL DEF Spec

\* What SessionsChangeAsAsked says of a step.
ChangedAsAsked ==
  Alone => \A s \in Sessions :
    /\ session'[s].status = "deleted" => session[s].status \in {"archived", "deleted"}
    /\ (There(s) /\ session'[s].title # session[s].title) =>
         session'[s].status = session[s].status

LEMMA WriteAsAsked ==
  ASSUME Inv, Sound, NEW p \in Procs, WriteSession(p)
  PROVE  ChangedAsAsked
<1> SUFFICES ASSUME Alone PROVE ChangedAsAsked
  BY DEF ChangedAsAsked
<1>1. PICK c \in Calls : c = call[p] /\ CallFits(c) /\ CallSound(c) /\ c.op = "update"
  BY Busy DEF WriteSession, At
<1>2. PICK s \in Sessions : s = c.session
  BY <1>1 DEF CallFits
<1>3. PICK row \in SessionRows : row = c.row /\ row.status \in {"active", "archived"}
  BY <1>1, CallParts DEF CallFits
<1>e. session[s].edits \in Nat
  BY World, SessionParts
<1> DEFINE new == [row EXCEPT !.edits = session[s].edits + 1]
<1>4. session' = [session EXCEPT ![s] = new] \/ session' = session
  BY <1>1, <1>2, <1>3 DEF WriteSession
<1>5. new.status = row.status /\ new.title = row.title
  BY <1>e DEF SessionRows
<1> HIDE DEF new
<1>6. row.title # session[s].title => row.status = session[s].status
  BY <1>1, <1>2, <1>3 DEF CallSound
<1> QED BY <1>3, <1>4, <1>5, <1>6, World DEF ChangedAsAsked

LEMMA DeletionAsAsked ==
  ASSUME Inv, Sound, NEW p \in Procs, DeleteSessions(p)
  PROVE  ChangedAsAsked
<1> SUFFICES ASSUME Alone PROVE ChangedAsAsked
  BY DEF ChangedAsAsked
<1>1. PICK S \in SUBSET Sessions, A \in SUBSET Nat :
        S = call[p].doomed /\ A = call[p].actions /\ ActionsFit(S, A)
  BY DeletionOf
<1>2. \A s \in S : session[s].status = "archived"
  BY <1>1, Busy DEF DeleteSessions, At, CallSound
<1> QED BY <1>1, <1>2, DeletionLeaves DEF ChangedAsAsked

LEMMA InsertAsAsked == ASSUME Inv, NEW p \in Procs, InsertRow(p) PROVE ChangedAsAsked
<1>1. session' = session \/ session' = [session EXCEPT ![call[p].session].edits = @ + 1]
  BY DEF InsertRow
<1>2. ASSUME NEW s \in Sessions
      PROVE  session'[s].status = session[s].status /\ session'[s].title = session[s].title
  <2>1. PICK old \in SessionRows : old = session[s]
    BY World
  <2> DEFINE new == [old EXCEPT !.edits = @ + 1]
  <2>2. new.status = old.status /\ new.title = old.title
    BY DEF SessionRows
  <2>3. session'[s] = old \/ session'[s] = new
    BY <1>1, <2>1, World
  <2> HIDE DEF new
  <2> QED BY <2>1, <2>2, <2>3
<1> QED BY <1>2 DEF ChangedAsAsked

\* Pruning deletes archived sessions only, and a rename undoes no archiving, while calls
\* do not overlap (prune_memory, update_session).
THEOREM SessionsAsAsked == Spec => SessionsChangeAsAsked
<1>1. Inv /\ Sound /\ [Next]_vars => [ChangedAsAsked]_session
  <2> SUFFICES ASSUME Inv, Sound, Next, session' # session PROVE ChangedAsAsked
    BY DEF vars, ledger
  <2>1. ASSUME NEW p \in Procs, Step(p) PROVE ChangedAsAsked
    <3>1. WriteSession(p) \/ InsertRow(p) \/ DeleteSessions(p)
      BY <2>1 DEF Step, FindSession, FindAction, InsertRun, Collect, InsertProgram,
         InsertPhaseAction, SaveProgram, StartPhase, DispatchPhase, Abort, ledger
    <3> QED BY <3>1, WriteAsAsked, DeletionAsAsked, InsertAsAsked
  <2>2. ASSUME NEW p \in Procs, Begin(p) PROVE FALSE
    BY <2>2 DEF Begin, Rename, SetSessionStatus, StartUpdate, StartInsert, StartCreate,
       StartRun, ListArchived, StartProgram, ledger
  <2>3. ASSUME NEW s \in Sessions, CreateSession(s) PROVE ChangedAsAsked
    BY <2>3, World DEF CreateSession, There, ChangedAsAsked
  <2> QED BY <2>1, <2>2, <2>3 DEF Next, CreateEvidence, Open, Poll, ledger
<1> QED BY <1>1, AlwaysInv, AlwaysSound, PTL DEF Spec, SessionsChangeAsAsked, ChangedAsAsked

-----------------------------------------------------------------------------
(* Evidence, while calls do not overlap.                                     *)

LEMMA CitedAppended ==
  ASSUME Inv, NEW row \in TableRows, table' = Append(table, row), row.there
  PROVE  Cited(DOMAIN table)' = Cited(DOMAIN table) \cup row.cites
<1>1. /\ DOMAIN table = 1..Len(table) /\ DOMAIN table' = 1..(Len(table) + 1)
      /\ \A i \in 1..Len(table) : table'[i] = table[i]
      /\ table'[Len(table) + 1] = row /\ Len(table) \in Nat
      /\ DOMAIN table' = DOMAIN table \cup {Len(table) + 1}
  BY World
<1>2. ASSUME NEW e, e \in Cited(DOMAIN table)' PROVE e \in Cited(DOMAIN table) \cup row.cites
  <2>1. PICK i \in DOMAIN table' : table'[i].there /\ e \in table'[i].cites
    BY <1>2 DEF Cited, Present
  <2>2. CASE i \in DOMAIN table
    BY <1>1, <2>1, <2>2 DEF Cited, Present
  <2>3. CASE i = Len(table) + 1
    BY <1>1, <2>1, <2>3
  <2> QED BY <1>1, <2>2, <2>3
<1>3. ASSUME NEW e, e \in Cited(DOMAIN table) \cup row.cites PROVE e \in Cited(DOMAIN table)'
  <2>1. CASE e \in row.cites
    BY <1>1, <2>1 DEF Cited, Present
  <2>2. CASE e \in Cited(DOMAIN table)
    <3>1. PICK i \in DOMAIN table : table[i].there /\ e \in table[i].cites
      BY <2>2 DEF Cited, Present
    <3> QED BY <1>1, <3>1 DEF Cited, Present
  <2> QED BY <1>3, <2>1, <2>2
<1> QED BY <1>2, <1>3

\* A step that deletes no row and no evidence.
LEMMA NothingGoes ==
  ASSUME Kept \subseteq Kept', Cited(DOMAIN table) \subseteq Cited(DOMAIN table)'
  PROVE  EvidenceGoes
BY DEF EvidenceGoes

LEMMA KeptStays == ASSUME UNCHANGED evidence PROVE Kept \subseteq Kept'
BY DEF Kept

LEMMA SameCited ==
  ASSUME UNCHANGED table
  PROVE  Cited(DOMAIN table) \subseteq Cited(DOMAIN table)'
BY DEF Cited, Present

LEMMA InsertsGo ==
  ASSUME Inv, NEW p \in Procs, InsertRow(p) \/ InsertRun(p) \/ InsertPhaseAction(p)
  PROVE  EvidenceGoes
<1>1. PICK c \in Calls : c = call[p] /\ CallFits(c)
  BY Here
<1>2. \E row \in TableRows : table' = Append(table, row) /\ row.there
  <2>1. CASE InsertRow(p)
    <3>1. c.op \in {"message", "action"} /\ c.session \in Sessions /\ c.cites \in SUBSET Evidence
      BY <1>1, <2>1, CallParts DEF InsertRow, CallFits
    <3>2. table' = Append(table, NewRow(c.op, c.session, 0, c.cites))
      BY <1>1, <2>1 DEF InsertRow
    <3>3. NewRow(c.op, c.session, 0, c.cites) \in TableRows
          /\ NewRow(c.op, c.session, 0, c.cites).there
      BY <3>1 DEF NewRow, TableRows
    <3> QED BY <3>2, <3>3
  <2>2. CASE InsertRun(p)
    <3>1. c.session \in Sessions /\ c.action \in Nat /\ c.cites \in SUBSET Evidence
      BY <1>1, <2>2, CallParts DEF InsertRun, At, CallFits
    <3>2. table' = Append(table, NewRow("run", c.session, c.action, c.cites))
      BY <1>1, <2>2 DEF InsertRun
    <3>3. NewRow("run", c.session, c.action, c.cites) \in TableRows
          /\ NewRow("run", c.session, c.action, c.cites).there
      BY <3>1 DEF NewRow, TableRows
    <3> QED BY <3>2, <3>3
  <2>3. CASE InsertPhaseAction(p)
    <3>1. c.session \in Sessions /\ c.cites \in SUBSET Evidence
      BY <1>1, <2>3, CallParts DEF InsertPhaseAction, At, CallFits
    <3>2. table' = Append(table, NewRow("action", c.session, 0, c.cites))
      BY <1>1, <2>3 DEF InsertPhaseAction
    <3>3. NewRow("action", c.session, 0, c.cites) \in TableRows
          /\ NewRow("action", c.session, 0, c.cites).there
      BY <3>1 DEF NewRow, TableRows
    <3> QED BY <3>2, <3>3
  <2> QED BY <2>1, <2>2, <2>3
<1>3. PICK row \in TableRows : table' = Append(table, row) /\ row.there
  BY <1>2
<1>4. Cited(DOMAIN table) \subseteq Cited(DOMAIN table)'
  BY <1>3, CitedAppended
<1>5. UNCHANGED evidence
  BY DEF InsertRow, InsertRun, InsertPhaseAction
<1> QED BY <1>4, <1>5, KeptStays, NothingGoes

\* Evidence goes as it was collected: what the doomed rows cite and no other.
LEMMA DeletionGoes ==
  ASSUME Inv, Sound, NEW p \in Procs, DeleteSessions(p)
  PROVE  EvidenceGoes
<1> SUFFICES ASSUME Alone PROVE EvidenceGoes
  BY DEF EvidenceGoes, Alone, DeleteSessions
<1>1. PICK S \in SUBSET Sessions, A \in SUBSET Nat :
        /\ S = call[p].doomed /\ A = call[p].actions /\ ActionsFit(S, A)
        /\ call[p].cites = Cited(Doomed(S, A)) \ Cited(DOMAIN table \ Doomed(S, A))
  BY DeletionAlone
<1>2. /\ DOMAIN table' = 1..Len(table) /\ DOMAIN table = 1..Len(table)
      /\ \A i \in 1..Len(table) : table'[i].cites = table[i].cites
      /\ \A i \in 1..Len(table) : table'[i].there <=> i \notin Doomed(S, A) /\ table[i].there
  BY <1>1, World, DeletionLeaves DEF TableGoesOn, SameRow
<1>3. Cited(DOMAIN table)' = Cited(DOMAIN table \ Doomed(S, A))
  <2>1. Present(DOMAIN table)' = Present(DOMAIN table \ Doomed(S, A))
    BY <1>2 DEF Present
  <2>2. \A i \in Present(DOMAIN table \ Doomed(S, A)) : table'[i].cites = table[i].cites
    BY <1>2 DEF Present
  <2>3. {table[i].cites : i \in Present(DOMAIN table)}'
          = {table[i].cites : i \in Present(DOMAIN table \ Doomed(S, A))}
    BY <2>1, <2>2
  <2> QED BY <2>3 DEF Cited
<1>4. Cited(DOMAIN table \ Doomed(S, A)) \subseteq Cited(DOMAIN table)
  BY DEF Cited, Present
<1>5. Cited(DOMAIN table) \subseteq Cited(DOMAIN table \ Doomed(S, A)) \cup Cited(Doomed(S, A))
  BY DEF Cited, Present
<1>6. Cited(Doomed(S, A)) \subseteq Cited(DOMAIN table)
  <2>1. \A i \in Doomed(S, A) : i \in 1..Len(table)
    BY <1>1, DoomedParts
  <2>2. \A i \in Doomed(S, A) : i \in DOMAIN table
    BY <1>2, <2>1
  <2> QED BY <2>2 DEF Cited, Present
<1>7. \A e \in Kept : e \notin Kept' <=> e \in call[p].cites
  BY DEF DeleteSessions, Kept
<1> QED BY <1>1, <1>3, <1>4, <1>5, <1>6, <1>7 DEF EvidenceGoes

LEMMA EvidenceGoesInSteps == ASSUME Inv, Sound, [Next]_vars PROVE EvidenceGoes
<1>1. ASSUME NEW p \in Procs, NEW cites \in SUBSET Evidence, StartPhase(p, cites)
      PROVE  EvidenceGoes
  <2>1. Kept \subseteq Kept'
    BY <1>1 DEF StartPhase, Kept
  <2> QED BY <1>1, <2>1, SameCited, NothingGoes DEF StartPhase
<1>2. ASSUME NEW e \in Evidence, CreateEvidence(e) PROVE EvidenceGoes
  <2>1. Kept \subseteq Kept'
    BY <1>2, World DEF CreateEvidence, Kept, EvidenceRows
  <2> QED BY <1>2, <2>1, SameCited, NothingGoes DEF CreateEvidence
<1>3. CASE UNCHANGED <<table, evidence>>
  BY <1>3, SameCited, KeptStays, NothingGoes
<1>4. ASSUME NEW p \in Procs, Step(p) PROVE EvidenceGoes
  <2>1. \/ InsertRow(p) \/ InsertRun(p) \/ InsertPhaseAction(p) \/ DeleteSessions(p)
        \/ (\E cites \in SUBSET Evidence : StartPhase(p, cites))
        \/ UNCHANGED <<table, evidence>>
    BY <1>4 DEF Step, WriteSession, FindSession, FindAction, Collect, InsertProgram,
       SaveProgram, DispatchPhase, Abort, ledger
  <2> QED BY <1>1, <1>3, <2>1, InsertsGo, DeletionGoes
<1>5. ASSUME NEW p \in Procs, Begin(p) PROVE UNCHANGED <<table, evidence>>
  BY <1>5 DEF Begin, Rename, SetSessionStatus, StartUpdate, StartInsert, StartCreate,
     StartRun, ListArchived, StartProgram, ledger
<1> QED BY <1>2, <1>3, <1>4, <1>5 DEF Next, CreateSession, Open, Poll, vars, ledger

\* While calls do not overlap, no row outlives its session and no run its action, although
\* every call may end between two steps; and evidence goes with the last row that cites it
\* and never otherwise (delete_sessions takes what the doomed rows cite and no other row).
THEOREM References == Spec => ReferencesKept
<1>1. Inv /\ Sound => NoOrphans
  BY World DEF Sound, Sane, NoOrphans, Present, RowSound
<1>2. Inv /\ Sound /\ NoOrphans' /\ [Next]_vars =>
        [NoOrphans' /\ EvidenceGoes]_<<session, table, evidence>>
  BY EvidenceGoesInSteps
<1> QED BY <1>1, <1>2, AlwaysInv, AlwaysSound, PTL DEF Spec, ReferencesKept

-----------------------------------------------------------------------------
(* Programs, while calls do not overlap.                                     *)

\* The phases that a row or copy of the program says were dispatched were; it tells of
\* all that were, but for those of calls that ended without saving.
Backed(c) == \A i \in DOMAIN c.phases : c.phases[i] # "pending" => ran[i] > 0

Tells(c) == \A i \in DOMAIN c.phases : ran[i] > 0 => c.phases[i] # "pending" \/ i \in unsaved

Done(c) == c.status = "completed" => Pending(c) = {}

\* The row may lag behind what was dispatched while a call works on its copy.
GoesOn ==
  /\ \A i \in 1..MaxPhases : ran[i] <= 1 \/ i \in unsaved
  /\ program.status = "absent" => \A i \in 1..MaxPhases : ran[i] = 0
  /\ program.status \in {"active", "blocked", "completed"} =>
       /\ Done(program) /\ Backed(program)
       /\ (\E p \in Procs : call[p].op = "program") \/ Tells(program)
  /\ \A p \in Procs : call[p].op = "program" =>
       /\ Tells(call[p].copy) /\ Done(call[p].copy) /\ Backed(call[p].copy)
       /\ DOMAIN call[p].copy.phases = DOMAIN program.phases

Told == Alone => GoesOn

LEMMA Becomes ==
  ASSUME Inv, NEW p \in Procs, NEW d, Become(p, d)
  PROVE  call'[p] = d /\ \A q \in Procs \ {p} : call'[q] = call[q]
BY World DEF Become

\* A step that is not about the program, or deletes it.
LEMMA GoesOnQuietly ==
  ASSUME Inv, GoesOn, NEW p \in Procs, NEW d, Become(p, d), UNCHANGED <<ran, unsaved>>,
         program' = program \/ program'.status = "deleted", program'.phases = program.phases,
         d.op = "program" <=> call[p].op = "program",
         d.op = "program" => d.copy = call[p].copy
  PROVE  GoesOn'
<1>1. \A q \in Procs : /\ call'[q].op = "program" <=> call[q].op = "program"
                       /\ call'[q].op = "program" => call'[q].copy = call[q].copy
  BY Becomes
<1>2. ASSUME NEW q \in Procs, call'[q].op = "program"
      PROVE  (/\ Tells(call[q].copy) /\ Done(call[q].copy) /\ Backed(call[q].copy)
              /\ DOMAIN call[q].copy.phases = DOMAIN program.phases)'
  <2>1. PICK c : c = call[q].copy
    OBVIOUS
  <2>2. call'[q].copy = c /\ Tells(c) /\ Done(c) /\ Backed(c)
        /\ DOMAIN c.phases = DOMAIN program.phases
    BY <1>1, <1>2, <2>1 DEF GoesOn
  <2> QED BY <2>2 DEF Tells, Done, Pending, Backed
<1>3. CASE program' = program
  <2>1. /\ Tells(program) => Tells(program)'
        /\ Done(program) => Done(program)'
        /\ Backed(program) => Backed(program)'
    BY <1>3 DEF Tells, Done, Pending, Backed
  <2> QED BY <1>1, <1>2, <1>3, <2>1 DEF GoesOn
<1>4. CASE program'.status = "deleted"
  BY <1>2, <1>4 DEF GoesOn
<1> QED BY <1>3, <1>4

\* A call that is not a program's ends.
LEMMA OthersEnd ==
  ASSUME Inv, GoesOn, NEW p \in Procs, call[p].op # "program", Return(p),
         UNCHANGED <<ran, unsaved>>, program' = program \/ program'.status = "deleted",
         program'.phases = program.phases
  PROVE  GoesOn'
<1>1. Become(p, Idle) /\ Idle.op # "program"
  BY IdleParts DEF Return
<1> QED BY <1>1, GoesOnQuietly

\* A call that is not a program's starts.
LEMMA OthersStart ==
  ASSUME Inv, GoesOn, NEW p \in Procs, Starting(p), NEW d, Become(p, d),
         d.op # "program", UNCHANGED <<program, ran, unsaved>>
  PROVE  GoesOn'
<1>1. call[p].op # "program"
  BY IdleParts DEF Starting
<1> QED BY <1>1, GoesOnQuietly

LEMMA BeginGoesOn ==
  ASSUME Inv, Sound, Told, Alone', NEW p \in Procs, Begin(p)
  PROVE  GoesOn'
<1>1. Starting(p)
  BY DEF Begin, Rename, SetSessionStatus, StartUpdate, StartInsert, StartCreate, StartRun,
     ListArchived, StartProgram
<1>2. Alone /\ \A q \in Procs : call[q] = Idle
  BY <1>1, StartsAlone
<1>3. GoesOn
  BY <1>2 DEF Told
<1>4. ASSUME NEW s \in Sessions, NEW row, StartUpdate(p, s, row) PROVE GoesOn'
  <2> DEFINE next == [Idle EXCEPT !.at = "write", !.op = "update", !.session = s, !.row = row]
  <2>1. Become(p, next) /\ UNCHANGED <<program, ran, unsaved>>
    BY <1>4 DEF StartUpdate, ledger
  <2>2. next.op # "program"
    BY DEF Idle
  <2> HIDE DEF next
  <2> QED BY <1>1, <1>3, <2>1, <2>2, OthersStart
<1>5. ASSUME NEW s \in Sessions, NEW op, NEW cites \in SUBSET Evidence,
             StartInsert(p, s, op, cites)
      PROVE  GoesOn'
  <2> DEFINE next == [Idle EXCEPT !.at = "find", !.op = op, !.session = s, !.cites = cites]
  <2>1. Become(p, next) /\ UNCHANGED <<program, ran, unsaved>> /\ op # "program"
    BY <1>5 DEF StartInsert, ledger
  <2>2. next.op # "program"
    BY <2>1 DEF Idle
  <2> HIDE DEF next
  <2> QED BY <1>1, <1>3, <2>1, <2>2, OthersStart
<1>6. ASSUME NEW s \in Sessions, StartCreate(p, s) PROVE GoesOn'
  <2> DEFINE next == [Idle EXCEPT !.at = "plan", !.op = "create", !.session = s]
  <2>1. Become(p, next) /\ UNCHANGED <<program, ran, unsaved>>
    BY <1>6 DEF StartCreate, ledger
  <2>2. next.op # "program"
    BY DEF Idle
  <2> HIDE DEF next
  <2> QED BY <1>1, <1>3, <2>1, <2>2, OthersStart
<1>7. ASSUME NEW a, NEW cites \in SUBSET Evidence, StartRun(p, a, cites) PROVE GoesOn'
  <2>1. PICK s : s = table[a].session
    OBVIOUS
  <2> DEFINE next == [Idle EXCEPT !.at = "find", !.op = "run", !.session = s,
                                 !.action = a, !.cites = cites]
  <2>2. Become(p, next) /\ UNCHANGED <<program, ran, unsaved>>
    BY <1>7, <2>1 DEF StartRun, ledger
  <2>3. next.op # "program"
    BY DEF Idle
  <2> HIDE DEF next
  <2> QED BY <1>1, <1>3, <2>2, <2>3, OthersStart
<1>8. CASE ListArchived(p)
  <2>1. PICK doomed : doomed = {s \in Sessions : session[s].status = "archived"}
    OBVIOUS
  <2> DEFINE next == [Idle EXCEPT !.at = "collect", !.op = "prune", !.doomed = doomed]
  <2>2. Become(p, next) /\ UNCHANGED <<program, ran, unsaved>>
    BY <1>8, <2>1 DEF ListArchived, ledger
  <2>3. next.op # "program"
    BY DEF Idle
  <2> HIDE DEF next
  <2> QED BY <1>1, <1>3, <2>2, <2>3, OthersStart
<1>9. CASE StartProgram(p)
  <2>1. PICK copy \in Programs : copy = program
    BY World
  <2> DEFINE next == [Idle EXCEPT !.at = "phase", !.op = "program",
                                 !.session = copy.session, !.copy = copy]
  <2>2. Become(p, next) /\ UNCHANGED <<program, ran, unsaved>>
        /\ copy.status \in {"active", "blocked", "completed"}
    BY <1>9, <2>1, ProgramParts DEF StartProgram, ledger
  <2>3. next.op = "program" /\ next.copy = copy
    BY DEF Idle
  <2> HIDE DEF next
  <2>4. Tells(copy) /\ Done(copy) /\ Backed(copy)
    BY <1>2, <1>3, <2>1, <2>2, IdleParts DEF GoesOn
  <2>5. call'[p] = next /\ \A q \in Procs \ {p} : call'[q].op # "program"
    BY <1>2, <2>2, Becomes, IdleParts
  <2>6. Tells(copy)' /\ Done(copy)' /\ Backed(copy)'
    BY <2>2, <2>4 DEF Tells, Done, Pending, Backed
  <2>7. (/\ Tells(call[p].copy) /\ Done(call[p].copy) /\ Backed(call[p].copy)
         /\ Done(program) /\ Backed(program)
         /\ DOMAIN call[p].copy.phases = DOMAIN program.phases)'
    BY <2>1, <2>2, <2>3, <2>5, <2>6 DEF Tells, Done, Pending, Backed
  <2>8. \A q \in Procs : call'[q].op = "program" => q = p
    BY <2>5
  <2> QED BY <1>3, <2>1, <2>2, <2>3, <2>5, <2>7, <2>8 DEF GoesOn
<1> QED BY <1>4, <1>5, <1>6, <1>7, <1>8, <1>9 DEF Begin, Rename, SetSessionStatus

\* The steps of calls, and of programs, that dispatch and save nothing.
LEMMA PlainStepsGoOn ==
  ASSUME Inv, Sound, Told, Alone, NEW p \in Procs,
         \/ WriteSession(p) \/ FindSession(p) \/ InsertRow(p) \/ FindAction(p) \/ InsertRun(p)
         \/ Collect(p) \/ DeleteSessions(p) \/ InsertPhaseAction(p)
         \/ \E cites \in SUBSET Evidence : StartPhase(p, cites)
  PROVE  GoesOn'
<1>1. GoesOn
  BY DEF Told
<1>2. CASE WriteSession(p) \/ InsertRow(p) \/ InsertRun(p)
  <2>1. Return(p) /\ UNCHANGED <<program, ran, unsaved>> /\ call[p].op # "program"
    BY <1>2 DEF WriteSession, InsertRow, InsertRun, At
  <2> QED BY <1>1, <2>1, OthersEnd
<1>3. CASE DeleteSessions(p)
  <2>1. Return(p) /\ UNCHANGED <<ran, unsaved>> /\ call[p].op # "program"
    BY <1>3 DEF DeleteSessions, At
  <2>2. /\ program' = program \/ program'.status = "deleted"
        /\ program'.phases = program.phases
    <3>1. PICK old \in Programs : old = program
      BY World
    <3> DEFINE new == [old EXCEPT !.status = "deleted"]
    <3>2. new.status = "deleted" /\ new.phases = old.phases
      BY DEF Programs
    <3>3. program' = old \/ program' = new
      BY <1>3, <3>1 DEF DeleteSessions
    <3> HIDE DEF new
    <3> QED BY <3>1, <3>2, <3>3
  <2> QED BY <1>1, <2>1, <2>2, OthersEnd
<1>4. CASE FindSession(p) \/ FindAction(p)
  <2>1. PICK c \in Calls : c = call[p] /\ CallSound(c) /\ c.at = "find"
    BY <1>1, <1>4, Busy DEF FindSession, FindAction, At
  <2>2. Go(p, "insert") /\ UNCHANGED <<program, ran, unsaved>>
    BY <1>4, <2>1 DEF FindSession, FindAction, At, CallSound, ledger
  <2> DEFINE next == [c EXCEPT !.at = "insert"]
  <2>3. Become(p, next)
    BY <2>1, <2>2 DEF Go
  <2>4. next.op = c.op /\ next.copy = c.copy
    BY DEF Calls
  <2> HIDE DEF next
  <2> QED BY <1>1, <2>1, <2>2, <2>3, <2>4, GoesOnQuietly
<1>5. CASE InsertPhaseAction(p)
  <2>1. PICK c \in Calls : c = call[p] /\ UNCHANGED <<program, ran, unsaved>>
    BY <1>5, Here DEF InsertPhaseAction
  <2>2. PICK n : n = Len(table) + 1
    OBVIOUS
  <2> DEFINE next == [c EXCEPT !.at = "dispatch", !.action = n, !.cites = {}]
  <2>3. Become(p, next)
    BY <1>5, <2>1, <2>2 DEF InsertPhaseAction
  <2>4. next.op = c.op /\ next.copy = c.copy
    BY DEF Calls
  <2> HIDE DEF next
  <2> QED BY <1>1, <2>1, <2>3, <2>4, GoesOnQuietly
<1>6. ASSUME NEW cites \in SUBSET Evidence, StartPhase(p, cites) PROVE GoesOn'
  <2>1. PICK c \in Calls : c = call[p] /\ UNCHANGED <<program, ran, unsaved>>
    BY <1>6, Here DEF StartPhase
  <2> DEFINE next == [c EXCEPT !.at = "find", !.cites = cites]
  <2>2. Become(p, next)
    BY <1>6, <2>1 DEF StartPhase
  <2>3. next.op = c.op /\ next.copy = c.copy
    BY DEF Calls
  <2> HIDE DEF next
  <2> QED BY <1>1, <2>1, <2>2, <2>3, GoesOnQuietly
<1>7. CASE Collect(p)
  <2>1. PICK c \in Calls : c = call[p] /\ UNCHANGED <<program, ran, unsaved>>
    BY <1>7, Here DEF Collect, ledger
  <2>2. PICK A, cites : Become(p, [c EXCEPT !.at = "delete", !.actions = A, !.cites = cites])
    BY <1>7, <2>1 DEF Collect
  <2> DEFINE next == [c EXCEPT !.at = "delete", !.actions = A, !.cites = cites]
  <2>3. Become(p, next)
    BY <2>2
  <2>4. next.op = c.op /\ next.copy = c.copy
    BY DEF Calls
  <2> HIDE DEF next
  <2> QED BY <1>1, <2>1, <2>3, <2>4, GoesOnQuietly
<1> QED BY <1>2, <1>3, <1>4, <1>5, <1>6, <1>7

\* A call that ends before its last step: what it had dispatched of a program is told of
\* by nothing but the history.
LEMMA AbortGoesOn ==
  ASSUME Inv, Sound, Told, Alone, NEW p \in Procs, Abort(p)
  PROVE  GoesOn'
<1>1. GoesOn
  BY DEF Told
<1>2. /\ Return(p) /\ UNCHANGED <<program, ran>> /\ unsaved' = unsaved \cup Dispatched(p)
      /\ call[p] # Idle
  BY DEF Abort, Fail, ledger
<1>3. CASE call[p].op # "program"
  <2>1. unsaved' = unsaved
    BY <1>2, <1>3 DEF Dispatched
  <2> QED BY <1>1, <1>2, <1>3, <2>1, OthersEnd
<1>4. CASE call[p].op = "program"
  <2>1. \A q \in Procs \ {p} : call[q] = Idle
    <3>1. call[p].at # "idle"
      BY <1>2, Here DEF CallFits
    <3> QED BY <3>1, Busy
  <2>2. \A q \in Procs : call'[q].op # "program"
    BY <1>2, <2>1, Becomes, IdleParts DEF Return
  <2>3. PICK c : c = call[p].copy /\ Tells(c) /\ DOMAIN c.phases = DOMAIN program.phases
    BY <1>1, <1>4 DEF GoesOn
  <2>4. Tells(program)'
    <3> SUFFICES ASSUME NEW i \in DOMAIN program.phases, ran[i] > 0,
                        program.phases[i] = "pending"
                 PROVE  i \in unsaved'
      BY <1>2 DEF Tells
    <3>1. c.phases[i] # "pending" \/ i \in unsaved
      BY <2>3 DEF Tells
    <3>2. c.phases[i] # "pending" => i \in Dispatched(p)
      BY <1>4, <2>3 DEF Dispatched
    <3> QED BY <1>2, <3>1, <3>2
  <2>5. (Done(program) => Done(program)') /\ (Backed(program) => Backed(program)')
    BY <1>2 DEF Done, Pending, Backed
  <2> QED BY <1>1, <1>2, <2>2, <2>4, <2>5 DEF GoesOn
<1> QED BY <1>3, <1>4

LEMMA InsertProgramGoesOn ==
  ASSUME Inv, Sound, Told, Alone, NEW p \in Procs, NEW n \in 0..MaxPhases,
         InsertProgram(p, n)
  PROVE  GoesOn'
<1>1. GoesOn
  BY DEF Told
<1>2. /\ call[p].at = "plan" /\ call[p].op = "create" /\ program.status = "absent"
      /\ Return(p) /\ UNCHANGED <<ran, unsaved>>
  BY DEF InsertProgram, At
<1>3. \A q \in Procs \ {p} : call[q] = Idle
  BY <1>1, <1>2, Busy
<1>4. \A q \in Procs : call'[q].op # "program"
  BY <1>2, <1>3, Becomes, IdleParts DEF Return
<1>5. \A i \in 1..MaxPhases : ran[i] = 0
  BY <1>1, <1>2 DEF GoesOn
<1> DEFINE phases == [i \in 1..n |-> "pending"]
<1>6. program'.phases = phases /\ program'.status \in {"active", "blocked"}
  BY DEF InsertProgram
<1>7. DOMAIN phases \subseteq 1..MaxPhases /\ \A i \in DOMAIN phases : phases[i] = "pending"
  BY MemoryAssumption
<1> HIDE DEF phases
<1>8. Tells(program)' /\ Backed(program)'
  <2>1. \A i \in DOMAIN phases : ran'[i] = 0
    BY <1>2, <1>5, <1>7
  <2> QED BY <1>6, <1>7, <2>1 DEF Tells, Backed
<1>9. Done(program)'
  BY <1>6 DEF Done
<1> QED BY <1>1, <1>2, <1>4, <1>6, <1>8, <1>9 DEF GoesOn

LEMMA SaveProgramGoesOn ==
  ASSUME Inv, Sound, Told, Alone, NEW p \in Procs, SaveProgram(p)
  PROVE  GoesOn'
<1>1. GoesOn
  BY DEF Told
<1>2. call[p].at = "phase" /\ call[p].op = "program" /\ Return(p) /\ UNCHANGED <<ran, unsaved>>
  BY DEF SaveProgram, At
<1>3. PICK c \in Calls : /\ c = call[p] /\ CallFits(c) /\ CallSound(c) /\ c.op = "program"
                         /\ Tells(c.copy) /\ Done(c.copy) /\ Backed(c.copy)
  BY <1>1, <1>2, Busy DEF GoesOn
<1>4. PICK copy \in Programs : copy = c.copy
  BY CallParts
<1>5. \A q \in Procs \ {p} : call[q] = Idle
  BY <1>1, <1>2, Busy
<1>6. \A q \in Procs : call'[q].op # "program"
  BY <1>2, <1>5, Becomes, IdleParts DEF Return
<1>7. PICK status : status = StatusAfter(p)
  OBVIOUS
<1> DEFINE new == [copy EXCEPT !.status = status]
<1>8. new.status = status /\ new.phases = copy.phases /\ new.current = copy.current
  BY DEF Programs
<1>9. (program' = program /\ program.status = "deleted") \/ program' = new
  BY <1>3, <1>4, <1>7 DEF SaveProgram
<1> HIDE DEF new
<1>10. status = "completed" => Pending(copy) = {}
  <2>1. copy.current \in Nat /\ copy.phases \in Seq(Phases)
    BY ProgramParts
  <2>2. copy.current >= Len(copy.phases) => Pending(copy) = {}
    BY <2>1 DEF Pending
  <2>3. status = "completed" => copy.current >= Len(copy.phases) \/ copy.status = "completed"
    BY <1>3, <1>4, <1>7 DEF StatusAfter
  <2> QED BY <1>3, <1>4, <2>2, <2>3 DEF Done
<1>11. program' = new => Tells(program)' /\ Done(program)' /\ Backed(program)'
  <2> SUFFICES ASSUME program' = new PROVE Tells(program)' /\ Done(program)' /\ Backed(program)'
    OBVIOUS
  <2>1. program'.phases = copy.phases /\ program'.current = copy.current
        /\ program'.status = status
    BY <1>8
  <2>2. Tells(program)' /\ Backed(program)'
    BY <1>2, <1>3, <1>4, <2>1 DEF Tells, Backed
  <2>3. Done(program)'
    BY <1>10, <2>1 DEF Done, Pending
  <2> QED BY <2>2, <2>3
<1>12. program'.status # "absent"
  <2>1. copy.status # "absent"
    BY <1>3, <1>4 DEF CallFits
  <2>2. status # "absent"
    BY <1>3, <1>4, <1>7, <2>1 DEF StatusAfter
  <2> QED BY <1>8, <1>9, <2>2
<1> QED BY <1>1, <1>2, <1>6, <1>9, <1>11, <1>12 DEF GoesOn

LEMMA DispatchPhaseGoesOn ==
  ASSUME Inv, Sound, Told, Alone, NEW p \in Procs, NEW outcome \in Outcomes,
         DispatchPhase(p, outcome)
  PROVE  GoesOn'
<1>1. GoesOn
  BY DEF Told
<1>2. call[p].at = "dispatch" /\ call[p].op = "program" /\ UNCHANGED program
  BY DEF DispatchPhase, At, ledger
<1>3. PICK c \in Calls : /\ c = call[p] /\ CallFits(c) /\ CallSound(c) /\ c.op = "program"
                         /\ c.at = "dispatch" /\ Tells(c.copy) /\ Done(c.copy) /\ Backed(c.copy)
                         /\ DOMAIN c.copy.phases = DOMAIN program.phases
  BY <1>1, <1>2, Busy DEF GoesOn
<1>4. PICK copy \in Programs : copy = c.copy /\ Pending(copy) # {}
                               /\ DOMAIN copy.phases \subseteq 1..MaxPhases
  BY <1>3, CallParts DEF CallFits
<1>5. PICK i \in DOMAIN copy.phases : i = First(Pending(copy)) /\ i \in Pending(copy)
  BY <1>4, NextPhase
<1>6. \A q \in Procs \ {p} : call[q] = Idle
  BY <1>1, <1>2, Busy
<1>7. copy.phases[i] = "pending" /\ i \in 1..MaxPhases /\ outcome # "pending"
      /\ copy.status # "completed" /\ i \in Nat
  BY <1>3, <1>4, <1>5 DEF Pending, Outcomes, Done
<1>8. ran \in [1..MaxPhases -> Nat] /\ (ran[i] = 0 \/ i \in unsaved)
  <2>1. ran[i] \in Nat
    BY <1>7, World
  <2>2. ran[i] > 0 => i \in unsaved
    BY <1>3, <1>4, <1>5, <1>7 DEF Tells
  <2> QED BY <2>1, <2>2, World
<1>9. PICK d : d = [copy EXCEPT !.current = i, !.phases = [copy.phases EXCEPT ![i] = outcome]]
  OBVIOUS
<1>10. d.status = copy.status /\ d.current = i /\ d.phases = [copy.phases EXCEPT ![i] = outcome]
  BY <1>9 DEF Programs
<1> DEFINE next == [c EXCEPT !.at = "phase", !.copy.current = i, !.copy.phases[i] = outcome]
<1>11. Become(p, next) /\ ran' = [ran EXCEPT ![i] = @ + 1] /\ UNCHANGED unsaved
  BY <1>3, <1>4, <1>5 DEF DispatchPhase, CallSound
<1>12. next = [c EXCEPT !.at = "phase", !.copy = d]
  BY <1>4, <1>9 DEF Calls, Programs
<1> HIDE DEF next
<1>13. next.op = "program" /\ next.copy = d
  BY <1>3, <1>12 DEF Calls
<1>n. PICK n \in Nat : n = ran[i]
  BY <1>7, <1>8
<1>14. \A j \in 1..MaxPhases : ran'[j] = IF j = i THEN n + 1 ELSE ran[j]
  BY <1>7, <1>8, <1>11, <1>n
<1>15. Tells(d)' /\ Backed(d)'
  <2>1. copy.phases \in Seq(Phases)
    BY ProgramParts
  <2>2. \A j \in DOMAIN copy.phases : d.phases[j] = IF j = i THEN outcome ELSE copy.phases[j]
    BY <1>10, <2>1
  <2>3. DOMAIN d.phases = DOMAIN copy.phases
    BY <1>10, <2>1
  <2>4. ASSUME NEW j \in DOMAIN copy.phases
        PROVE  /\ ran'[j] > 0 => d.phases[j] # "pending" \/ j \in unsaved
               /\ d.phases[j] # "pending" => ran'[j] > 0
    <3>1. CASE j = i
      BY <1>7, <1>14, <2>2, <3>1
    <3>2. CASE j # i
      <4>1. ran'[j] = ran[j] /\ d.phases[j] = copy.phases[j]
        BY <1>4, <1>14, <2>2, <3>2
      <4> QED BY <1>3, <1>4, <4>1 DEF Tells, Backed
    <3> QED BY <3>1, <3>2
  <2> QED BY <1>11, <2>3, <2>4 DEF Tells, Backed
<1>16. Done(d)'
  BY <1>7, <1>10 DEF Done
<1>17. call'[p] = next /\ \A q \in Procs \ {p} : call'[q].op # "program"
  BY <1>6, <1>11, Becomes, IdleParts
<1>18. (/\ Tells(call[p].copy) /\ Done(call[p].copy) /\ Backed(call[p].copy)
        /\ DOMAIN call[p].copy.phases = DOMAIN program.phases)'
  <2>1. DOMAIN d.phases = DOMAIN program'.phases
    <3>1. copy.phases \in Seq(Phases)
      BY ProgramParts
    <3> QED BY <1>2, <1>3, <1>4, <1>10, <3>1
  <2> QED BY <1>13, <1>15, <1>16, <1>17, <2>1 DEF Tells, Done, Pending, Backed
<1>19. \A q \in Procs : call'[q].op = "program" => q = p
  BY <1>17
<1>20. \A j \in 1..MaxPhases : ran'[j] <= 1 \/ j \in unsaved'
  <2> TAKE j \in 1..MaxPhases
  <2>1. CASE j = i
    BY <1>8, <1>11, <1>14, <1>n, <2>1
  <2>2. CASE j # i
    BY <1>1, <1>11, <1>14, <2>2 DEF GoesOn
  <2> QED BY <2>1, <2>2
<1>21. program'.status # "absent"
  BY <1>2, <1>3 DEF CallFits
<1>22. (Done(program) => Done(program)') /\ (Backed(program) => Backed(program)')
  <2>1. Backed(program) => Backed(program)'
    <3> SUFFICES ASSUME Backed(program), NEW j \in DOMAIN program.phases,
                        program.phases[j] # "pending"
                 PROVE  ran'[j] > 0
      BY <1>2 DEF Backed
    <3>1. j \in 1..MaxPhases /\ ran[j] > 0 /\ ran[j] \in Nat
      BY <1>3, <1>4, <1>8 DEF Backed
    <3> QED BY <1>14, <3>1
  <2> QED BY <1>2, <2>1 DEF Done, Pending
<1> QED BY <1>1, <1>2, <1>13, <1>17, <1>18, <1>19, <1>20, <1>21, <1>22 DEF GoesOn

LEMMA StepGoesOn ==
  ASSUME Inv, Sound, Told, Alone, NEW p \in Procs, Step(p)
  PROVE  GoesOn'
BY PlainStepsGoOn, AbortGoesOn, InsertProgramGoesOn, SaveProgramGoesOn, DispatchPhaseGoesOn
DEF Step

LEMMA ElseGoesOn ==
  ASSUME Inv, GoesOn, UNCHANGED <<program, call, ran, unsaved>>
  PROVE  GoesOn'
<1>1. \A q \in Procs : /\ Tells(call[q].copy) => Tells(call[q].copy)'
                       /\ Done(call[q].copy) => Done(call[q].copy)'
                       /\ Backed(call[q].copy) => Backed(call[q].copy)'
  BY DEF Tells, Done, Pending, Backed
<1>2. /\ Tells(program) => Tells(program)'
      /\ Done(program) => Done(program)'
      /\ Backed(program) => Backed(program)'
  BY DEF Tells, Done, Pending, Backed
<1> QED BY <1>1, <1>2 DEF GoesOn

LEMMA ToldKept == ASSUME Inv, Sound, Told, [Next]_vars PROVE Told'
<1> SUFFICES ASSUME Alone' PROVE GoesOn'
  BY DEF Told
<1>0. Alone
  BY StaysAlone
<1>1. ASSUME NEW p \in Procs, Step(p) PROVE GoesOn'
  BY <1>0, <1>1, StepGoesOn
<1>2. CASE UNCHANGED <<program, call, ran, unsaved>>
  BY <1>0, <1>2, ElseGoesOn DEF Told
<1>3. \/ Poll \/ UNCHANGED vars
      \/ \E s \in Sessions : CreateSession(s) \/ Open(s)
      \/ \E e \in Evidence : CreateEvidence(e)
      => UNCHANGED <<program, call, ran, unsaved>>
  BY DEF Poll, Open, CreateSession, CreateEvidence, vars, ledger
<1> QED BY <1>1, <1>2, <1>3, BeginGoesOn DEF Next

LEMMA InitTold == ASSUME Init PROVE Told
<1>1. \A p \in Procs : call[p].op # "program"
  BY IdleParts DEF Init
<1>2. program.status = "absent" /\ \A i \in 1..MaxPhases : ran[i] = 0
  BY DEF Init, NoProgram
<1> QED BY <1>1, <1>2 DEF Told, GoesOn

LEMMA AlwaysTold == Spec => []Told
BY AlwaysInv, AlwaysSound, InitTold, ToldKept, PTL DEF Spec

\* A program that is run again goes on where its row says it stopped (run_autonomy_program):
\* while no two calls overlap, a phase is dispatched a second time only after a call that
\* had dispatched it raised or died before it saved the row, and between calls the row
\* tells of every other phase whether it was dispatched.
THEOREM ProgramsGoOn == Spec => []ProgramGoesOn
<1>1. Inv /\ Told => ProgramGoesOn
  <2> SUFFICES ASSUME Inv, Told, Alone PROVE ProgramGoesOn
    BY DEF ProgramGoesOn, PhasesRunOnce, ProgramTellsWhatRan
  <2>1. PhasesRunOnce
    BY World DEF Told, GoesOn, PhasesRunOnce
  <2>2. ProgramTellsWhatRan
    BY DEF Told, GoesOn, ProgramTellsWhatRan, Tells, Done, Backed
  <2> QED BY <2>1, <2>2 DEF ProgramGoesOn
<1> QED BY <1>1, AlwaysInv, AlwaysTold, PTL
=============================================================================
