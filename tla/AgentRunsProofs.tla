--------------------------- MODULE AgentRunsProofs ---------------------------
(* AgentRuns for any processes, rows, bounds and mishaps: guarded commands are     *)
(* started for approved rows only, the events of a run are numbered in the order   *)
(* of their insertion and tell what the run did, no recorded run leaves a process    *)
(* behind, nothing is recorded for a pruned row, and without overlap rows and runs   *)
(* agree.                                                                          *)
EXTENDS AgentRuns, SequenceTheorems, FiniteSetTheorems, TLAPS

\* The steps before a command has a run, and those after its row was updated.
Early == {"expire", "reread", "gate", "mark"}
Late  == {"finish", "check", "insert", "return"}

Pruned(r) == rows[r].status = "pruned"

\* What a call relies on about its row: it is there, and its approval, once needed and
\* seen, was written.
RowFits(c) ==
  /\ c.at = "idle" => c = Idle
  /\ c.at # "idle" => c.row \in Rows /\ rows[c.row].status # "absent"
  /\ c.at # "idle" /\ "overlap" \notin mishaps => ~Pruned(c.row)
  /\ c.seen = "approved" => c.row \in Rows /\ approvals[c.row] > 0
  /\ c.at \in {"start", "spawn"} /\ Guarded(c.row) => approvals[c.row] > 0

\* When a call has a run, and what its counters are while it records nothing.
ShapeFits(c) ==
  /\ c.run \in 0..Len(runs)
  /\ c.at \in Early => c.run = 0
  /\ c.at \in {"start", "spawn", "wait", "drain", "finish"} => c.run # 0
  /\ c.emit # << >> => c.run # 0
  /\ c.emit = << >> => c.next = 0

\* What a call relies on about its run: nobody else writes it.
RunFits(c, run) ==
  /\ run.row = c.row
  /\ c.next # 0 /\ ~Pruned(c.row) => c.next = Len(run.events) + 1
  /\ c.at \in {"start", "spawn"} => run.child = "none"
  /\ "fault" \notin mishaps =>
       /\ c.at \in Late => run.child # "alive"
       /\ c.at # "return" => run.status = "open"

Fits(c) == RowFits(c) /\ ShapeFits(c) /\ (c.run # 0 => RunFits(c, runs[c.run]))

\* A recorded run by itself.
Readable(run) ==
  /\ ~Pruned(run.row) => \A i \in DOMAIN run.events : run.events[i].sequence = i
  /\ "fault" \notin mishaps => (run.status \in Ends => run.child # "alive")
  /\ "overlap" \notin mishaps =>
       (Pruned(run.row) => run.status \notin Ends /\ run.events = << >>)

Exclusive ==
  \A p, q \in Procs : p # q /\ call[p].run # 0 => call[p].run # call[q].run

RowsVouched == \A r \in Rows : rows[r].status = "approved" => approvals[r] > 0

Inv ==
  /\ TypeOK
  /\ RowsVouched
  /\ Exclusive
  /\ \A p \in Procs : Fits(call[p])
  /\ \A k \in DOMAIN runs : Readable(runs[k])

-----------------------------------------------------------------------------
(* What a step leaves to the calls and runs it is not about.                 *)

RowsGoOn ==
  \A r \in Rows :
    /\ rows[r].status # "absent" =>
         rows'[r].status # "absent" /\ (Guarded(r)' <=> Guarded(r))
    /\ Pruned(r)' <=> Pruned(r)
    /\ approvals'[r] >= approvals[r]
    /\ rows'[r].status = "approved" => approvals'[r] > 0

\* A run as it was, or with the end of its child.
SameRun(old, new) ==
  /\ new.row = old.row /\ new.status = old.status /\ new.events = old.events
  /\ new.child = old.child \/ (old.child = "alive" /\ new.child # "alive")

\* All runs but k, and perhaps new ones.
RunsGoOn(k) ==
  /\ Len(runs) <= Len(runs')
  /\ \A j \in 1..Len(runs) : j # k => SameRun(runs[j], runs'[j])

TypesGoOn ==
  /\ rows' \in [Rows -> ActionRows]
  /\ runs' \in Seq(Runs)
  /\ approvals' \in [Rows -> Nat]
  /\ started' \in Seq(Rows)
  /\ mishaps' \subseteq {"crash", "fault", "prune", "overlap"}
  /\ mishaps \subseteq mishaps'

LEMMA RowParts ==
  ASSUME TypeOK, NEW r \in Rows
  PROVE  /\ rows[r] \in ActionRows /\ rows[r].status \in Statuses
         /\ rows[r].approval \in BOOLEAN /\ rows[r].tool \in Tools
         /\ rows[r].due \in BOOLEAN /\ approvals[r] \in Nat
BY DEF TypeOK, ActionRows

LEMMA RunParts ==
  ASSUME NEW run \in Runs
  PROVE  /\ run.row \in Rows /\ run.status \in Ends \cup {"open", "deleted"}
         /\ run.child \in Children
         /\ run.events \in Seq([sequence: Nat, type: Types])
BY DEF Runs

LEMMA CallParts ==
  ASSUME NEW c \in Calls
  PROVE  /\ c.at \in Steps /\ c.op \in Ops /\ c.row \in Rows \cup {NoRow}
         /\ c.seen \in Statuses /\ c.run \in Nat /\ c.outcome \in Ends
         /\ c.emit \in Seq(Types) /\ c.next \in Nat /\ c.caught \in BOOLEAN
         /\ c.lines \in Nat
BY DEF Calls

LEMMA IdleType == Idle \in Calls
BY DEF Idle, Calls, Steps, Ops, Statuses, Expirable, Ends, Types

LEMMA IdleParts ==
  /\ Idle.at = "idle" /\ Idle.op = "none" /\ Idle.row = NoRow /\ Idle.seen = "absent"
  /\ Idle.run = 0 /\ Idle.emit = << >> /\ Idle.next = 0
BY DEF Idle

LEMMA IdleFits == ASSUME TypeOK PROVE Fits(Idle)
<1>1. Len(runs) \in Nat
  BY DEF TypeOK
<1> QED BY <1>1, IdleParts DEF Fits, RowFits, ShapeFits, Early

LEMMA DomainOfRuns == ASSUME TypeOK PROVE DOMAIN runs = 1..Len(runs) /\ Len(runs) \in Nat
BY DEF TypeOK

\* A call keeps what it relies on while others go on.
LEMMA FitsStays ==
  ASSUME TypeOK, NEW c \in Calls, Fits(c), RowsGoOn, mishaps \subseteq mishaps',
         NEW k, RunsGoOn(k), Len(runs') \in Nat, c.run = 0 \/ c.run # k,
         approvals' \in [Rows -> Nat]
  PROVE  Fits(c)'
<1>1. RowFits(c)'
  <2>1. c.at # "idle" => c.row \in Rows
    BY DEF Fits, RowFits
  <2>2. CASE c.at = "idle"
    BY <2>2, IdleParts DEF Fits, RowFits
  <2>3. CASE c.at # "idle"
    <3>1. c.row \in Rows /\ approvals[c.row] \in Nat /\ approvals'[c.row] \in Nat
      BY <2>1, <2>3 DEF TypeOK
    <3>2. rows'[c.row].status # "absent" /\ (Guarded(c.row)' <=> Guarded(c.row))
      BY <3>1, <2>3 DEF Fits, RowFits, RowsGoOn
    <3>3. (Pruned(c.row)' <=> Pruned(c.row)) /\ approvals'[c.row] >= approvals[c.row]
      BY <3>1 DEF RowsGoOn
    <3>4. c.seen = "approved" => approvals'[c.row] > 0
      BY <3>1, <3>3 DEF Fits, RowFits
    <3>5. c.at \in {"start", "spawn"} /\ Guarded(c.row)' => approvals'[c.row] > 0
      BY <3>1, <3>2, <3>3 DEF Fits, RowFits
    <3> QED BY <2>3, <3>1, <3>2, <3>3, <3>4, <3>5 DEF Fits, RowFits
  <2> QED BY <2>2, <2>3
<1>2. ShapeFits(c)'
  BY DomainOfRuns DEF Fits, ShapeFits, RunsGoOn
<1>3. ASSUME c.run # 0 PROVE RunFits(c, runs[c.run])'
  <2>1. c.run \in 1..Len(runs)
    BY <1>3, DomainOfRuns DEF Fits, ShapeFits
  <2>2. SameRun(runs[c.run], runs'[c.run])
    BY <1>3, <2>1 DEF RunsGoOn
  <2>3. RunFits(c, runs[c.run])
    BY <1>3 DEF Fits
  <2>4. runs[c.run].row \in Rows
    BY <2>1, DomainOfRuns, RunParts DEF TypeOK
  <2>5. Pruned(c.row)' <=> Pruned(c.row)
    BY <2>3, <2>4 DEF RunFits, RowsGoOn
  <2> QED BY <2>2, <2>3, <2>5 DEF RunFits, SameRun
<1> QED BY <1>1, <1>2, <1>3 DEF Fits

LEMMA ReadableStays ==
  ASSUME TypeOK, RowsGoOn, mishaps \subseteq mishaps', NEW k, RunsGoOn(k),
         NEW j \in 1..Len(runs), j # k, Readable(runs[j])
  PROVE  Readable(runs[j])'
<1>1. SameRun(runs[j], runs'[j])
  BY DEF RunsGoOn
<1>2. runs[j].row \in Rows
  BY DomainOfRuns, RunParts DEF TypeOK
<1>3. Pruned(runs[j].row)' <=> Pruned(runs[j].row)
  BY <1>1, <1>2, runs'[j].row = runs[j].row DEF RowsGoOn, Pruned, SameRun
<1> QED BY <1>1, <1>3 DEF Readable, SameRun

-----------------------------------------------------------------------------
(* One process goes on.                                                      *)

LEMMA GoOn ==
  ASSUME Inv, NEW p \in Procs, NEW d \in Calls, Become(p, d), TypesGoOn, RowsGoOn,
         RunsGoOn(call[p].run), Fits(d)',
         d.run = 0 \/ d.run = call[p].run \/ d.run > Len(runs),
         \A j \in 1..Len(runs') : j = call[p].run \/ j > Len(runs) => Readable(runs[j])'
  PROVE  Inv'
<1>1. call' = [call EXCEPT ![p] = d] /\ call \in [Procs -> Calls]
  BY DEF Become, Inv, TypeOK
<1>2. call' \in [Procs -> Calls] /\ call'[p] = d /\ \A q \in Procs \ {p} : call'[q] = call[q]
  BY <1>1
<1>3. TypeOK'
  BY <1>2 DEF TypesGoOn, TypeOK
<1>4. RowsVouched'
  BY DEF RowsGoOn, RowsVouched
<1>5. ASSUME NEW q \in Procs, q # p PROVE Fits(call[q])'
  <2>1. PICK c \in Calls : c = call[q]
    BY <1>1
  <2>2. Fits(c) /\ (c.run = 0 \/ c.run # call[p].run)
    BY <1>5, <2>1 DEF Inv, Exclusive
  <2>3. Len(runs') \in Nat
    BY DEF TypesGoOn
  <2>4. Fits(c)'
    BY <2>2, <2>3, FitsStays DEF Inv, TypesGoOn
  <2> QED BY <1>2, <1>5, <2>1, <2>4
<1>6. \A q \in Procs : Fits(call[q])'
  BY <1>2, <1>5
<1>7. \A q \in Procs : call[q].run \in 0..Len(runs)
  BY DEF Inv, Fits, ShapeFits
<1>8. Exclusive'
  <2> SUFFICES ASSUME NEW q \in Procs, NEW s \in Procs, q # s, call'[q].run # 0
               PROVE  call'[q].run # call'[s].run
    BY DEF Exclusive
  <2>1. CASE q # p /\ s # p
    BY <1>2, <2>1 DEF Inv, Exclusive
  <2>2. CASE q = p
    BY <1>2, <1>7, <2>2, DomainOfRuns DEF Inv, Exclusive
  <2>3. CASE s = p
    BY <1>2, <1>7, <2>3, DomainOfRuns DEF Inv, Exclusive
  <2> QED BY <2>1, <2>2, <2>3
<1>9. ASSUME NEW j \in 1..Len(runs') PROVE Readable(runs[j])'
  <2>1. CASE j = call[p].run \/ j > Len(runs)
    BY <2>1
  <2>2. CASE j # call[p].run /\ j <= Len(runs)
    <3>1. j \in 1..Len(runs) /\ Readable(runs[j])
      BY <2>2, DomainOfRuns DEF Inv
    <3> QED BY <2>2, <3>1, ReadableStays DEF Inv, TypesGoOn
  <2> QED BY <2>1, <2>2, DomainOfRuns DEF Inv
<1>10. DOMAIN runs' = 1..Len(runs')
  BY DEF TypesGoOn
<1> QED BY <1>3, <1>4, <1>6, <1>8, <1>9, <1>10 DEF Inv

\* A step that leaves the runs alone.
LEMMA GoOnAlone ==
  ASSUME Inv, NEW p \in Procs, NEW d \in Calls, Become(p, d), RowsGoOn,
         UNCHANGED <<runs, started>>,
         rows' \in [Rows -> ActionRows], approvals' \in [Rows -> Nat],
         mishaps' \subseteq {"crash", "fault", "prune", "overlap"},
         mishaps \subseteq mishaps',
         Fits(d), d.run = 0 \/ d.run = call[p].run
  PROVE  Inv'
<1>1. TypesGoOn
  BY DEF TypesGoOn, Inv, TypeOK
<1>2. RunsGoOn(0) /\ RunsGoOn(call[p].run) /\ Len(runs') \in Nat
  BY DomainOfRuns DEF RunsGoOn, SameRun, Inv
<1>3. Fits(d)'
  BY <1>2, FitsStays DEF Inv
<1>4. \A j \in 1..Len(runs') : Readable(runs[j])'
  <2>1. ASSUME NEW j \in 1..Len(runs) PROVE Readable(runs[j])'
    BY <1>2, ReadableStays, DomainOfRuns DEF Inv
  <2> QED BY <2>1
<1> QED BY <1>1, <1>2, <1>3, <1>4, GoOn

LEMMA RowsAlone == ASSUME Inv, UNCHANGED <<rows, approvals>> PROVE RowsGoOn
BY RowParts DEF Inv, RowsGoOn, RowsVouched, Guarded, Pruned

\* A step that leaves rows and runs alone.
LEMMA GoOnQuietly ==
  ASSUME Inv, NEW p \in Procs, NEW d \in Calls, Become(p, d),
         UNCHANGED <<rows, runs, approvals, started>>,
         mishaps' \subseteq {"crash", "fault", "prune", "overlap"},
         mishaps \subseteq mishaps',
         Fits(d), d.run = 0 \/ d.run = call[p].run
  PROVE  Inv'
BY RowsAlone, GoOnAlone DEF Inv, TypeOK

LEMMA ReturnKeeps ==
  ASSUME Inv, NEW p \in Procs, Return(p), UNCHANGED <<rows, runs, approvals, started>>,
         mishaps' \subseteq {"crash", "fault", "prune", "overlap"},
         mishaps \subseteq mishaps'
  PROVE  Inv'
<1>1. PICK d \in Calls : d = Idle
  BY IdleType
<1>2. Fits(d) /\ d.run = 0 /\ Become(p, d)
  BY <1>1, IdleFits, IdleParts DEF Inv, Return
<1> QED BY <1>2, GoOnQuietly

\* An update of the status of a row, which may be gone.
LEMMA SetStatusGoesOn ==
  ASSUME Inv, NEW r \in Rows, NEW s \in Statuses \ {"absent", "pruned"}, SetStatus(r, s),
         approvals' \in [Rows -> Nat], \A a \in Rows : approvals'[a] >= approvals[a],
         s = "approved" /\ Exists(r) => approvals'[r] > 0
  PROVE  rows' \in [Rows -> ActionRows] /\ RowsGoOn
<1>1. rows \in [Rows -> ActionRows] /\ approvals \in [Rows -> Nat]
  BY DEF Inv, TypeOK
<1>2. CASE ~Exists(r)
  <2>1. rows' = rows
    BY <1>2 DEF SetStatus
  <2>2. \A a \in Rows : rows[a].status = "approved" => approvals'[a] > 0
    BY <1>1 DEF Inv, RowsVouched
  <2> QED BY <1>1, <2>1, <2>2 DEF RowsGoOn, Guarded, Pruned
<1>3. CASE Exists(r)
  <2>1. rows' = [rows EXCEPT ![r].status = s]
    BY <1>3 DEF SetStatus
  <2>2. rows' \in [Rows -> ActionRows]
    BY <1>1, <2>1 DEF ActionRows
  <2>3. ASSUME NEW a \in Rows
        PROVE  /\ rows'[a].approval = rows[a].approval /\ rows'[a].tool = rows[a].tool
               /\ rows'[a].status = IF a = r THEN s ELSE rows[a].status
    <3>1. CASE a = r
      <4>1. rows'[a] = [rows[r] EXCEPT !.status = s] /\ rows[r] \in ActionRows
        BY <1>1, <2>1, <3>1
      <4> QED BY <3>1, <4>1 DEF ActionRows
    <3>2. CASE a # r
      BY <1>1, <2>1, <3>2
    <3> QED BY <3>1, <3>2
  <2>4. \A a \in Rows : rows[a].status = "approved" => approvals'[a] > 0
    BY <1>1 DEF Inv, RowsVouched
  <2>5. ASSUME NEW a \in Rows
        PROVE  /\ rows[a].status # "absent" => rows'[a].status # "absent"
               /\ Guarded(a)' <=> Guarded(a)
               /\ Pruned(a)' <=> Pruned(a)
               /\ rows'[a].status = "approved" => approvals'[a] > 0
    BY <1>3, <2>3, <2>4 DEF Guarded, Pruned, Exists
  <2> QED BY <2>2, <2>5 DEF RowsGoOn
<1> QED BY <1>2, <1>3

-----------------------------------------------------------------------------
(* One lemma for each step.                                                  *)

\* What the invariant says of one process.
LEMMA Here ==
  ASSUME Inv, NEW p \in Procs
  PROVE  /\ call[p] \in Calls /\ Fits(call[p]) /\ mishaps \subseteq mishaps
         /\ mishaps \subseteq {"crash", "fault", "prune", "overlap"}
         /\ approvals \in [Rows -> Nat] /\ rows \in [Rows -> ActionRows]
BY DEF Inv, TypeOK

LEMMA ReadRowKeeps ==
  ASSUME Inv, NEW p \in Procs, NEW r \in Rows, NEW op \in Ops, Exists(r),
         ReadRow(p, op, r), UNCHANGED <<rows, runs, approvals, started>>,
         mishaps' \subseteq {"crash", "fault", "prune", "overlap"},
         mishaps \subseteq mishaps'
  PROVE  Inv'
<1> DEFINE step == IF rows[r].status \in Expirable /\ rows[r].due THEN "expire" ELSE "gate"
           next == [Idle EXCEPT !.at = step, !.op = op, !.row = r, !.seen = rows[r].status]
<1>1. step \in {"expire", "gate"} /\ rows[r].status \in Statuses
  BY RowParts DEF Inv
<1>2. Become(p, next)
  BY DEF ReadRow
<1> HIDE DEF step
<1>3. next \in Calls
  BY <1>1, IdleType DEF Calls, Steps
<1>4. /\ next.at = step /\ next.row = r /\ next.seen = rows[r].status /\ next.run = 0
      /\ next.emit = << >> /\ next.next = 0
  BY DEF Idle
<1> HIDE DEF next
<1>5. PICK d \in Calls : d = next
  BY <1>3
<1>6. RowFits(d)
  BY <1>1, <1>4, <1>5 DEF RowFits, Exists, Pruned, Inv, RowsVouched
<1>7. Fits(d) /\ d.run = 0
  BY <1>1, <1>4, <1>5, <1>6, DomainOfRuns DEF Fits, ShapeFits, Inv
<1> QED BY <1>2, <1>5, <1>7, GoOnQuietly

LEMMA StartKeeps ==
  ASSUME Inv, NEW p \in Procs, NEW r \in Rows, NEW op \in Ops, Start(p, op, r)
  PROVE  Inv'
<1>1. /\ mishaps' \subseteq {"crash", "fault", "prune", "overlap"}
      /\ mishaps \subseteq mishaps'
  BY Here DEF Start
<1> QED BY <1>1, ReadRowKeeps DEF Start

\* A step of a call that only says where it is.
LEMMA AtType ==
  ASSUME NEW c \in Calls, NEW step \in Steps
  PROVE  /\ [c EXCEPT !.at = step] \in Calls
         /\ [c EXCEPT !.at = step].at = step
         /\ [c EXCEPT !.at = step].row = c.row /\ [c EXCEPT !.at = step].seen = c.seen
         /\ [c EXCEPT !.at = step].run = c.run /\ [c EXCEPT !.at = step].emit = c.emit
         /\ [c EXCEPT !.at = step].next = c.next
BY DEF Calls

LEMMA OutcomeType ==
  Ends \subseteq Statuses \ {"absent", "pruned"} /\ Decisions \subseteq Statuses \ {"absent", "pruned"}
  /\ Ends \subseteq Types /\ "approved" \notin Ends
BY DEF Ends, Decisions, Statuses, Expirable, Types

\* The status of the row is written, and the call goes on to another step.
LEMMA WriteKeeps ==
  ASSUME Inv, NEW p \in Procs, NEW s \in Statuses \ {"absent", "pruned", "approved"},
         call[p].at # "idle", SetStatus(call[p].row, s),
         NEW d \in Calls, Become(p, d), Fits(d), d.run = call[p].run,
         UNCHANGED <<runs, approvals, started, mishaps>>
  PROVE  Inv'
<1>1. call[p].row \in Rows
  BY Here DEF Fits, RowFits
<1>2. approvals' \in [Rows -> Nat] /\ \A a \in Rows : approvals'[a] >= approvals[a]
  BY Here
<1>3. rows' \in [Rows -> ActionRows] /\ RowsGoOn
  BY <1>1, <1>2, SetStatusGoesOn
<1> QED BY <1>2, <1>3, Here, GoOnAlone

LEMMA WriteExpiredKeeps == ASSUME Inv, NEW p \in Procs, WriteExpired(p) PROVE Inv'
<1>1. PICK c \in Calls : c = call[p]
  BY Here
<1>2. PICK d \in Calls : d = [c EXCEPT !.at = "reread"]
  BY AtType DEF Steps
<1>3. Fits(c) /\ c.at = "expire"
  BY <1>1, Here DEF WriteExpired, At
<1>4. Fits(d) /\ d.run = c.run
  BY <1>2, <1>3, AtType DEF Fits, RowFits, ShapeFits, RunFits, Steps, Early, Late
<1>5. Become(p, d) /\ SetStatus(call[p].row, "expired")
  BY <1>1, <1>2 DEF WriteExpired, Go
<1>6. "expired" \in Statuses \ {"absent", "pruned", "approved"}
  BY DEF Statuses
<1> QED BY <1>1, <1>3, <1>4, <1>5, <1>6, WriteKeeps DEF WriteExpired

LEMMA RereadKeeps == ASSUME Inv, NEW p \in Procs, Reread(p) PROVE Inv'
<1> DEFINE seen == IF Exists(call[p].row) THEN rows[call[p].row].status ELSE call[p].seen
           next == [call[p] EXCEPT !.at = "gate", !.seen = seen]
<1>1. PICK c \in Calls : c = call[p]
  BY Here
<1>2. Fits(c) /\ c.at = "reread" /\ c.row \in Rows
  BY <1>1, Here DEF Reread, At, Fits, RowFits
<1>3. seen \in Statuses /\ (seen = "approved" => approvals[c.row] > 0)
  BY <1>1, <1>2, RowParts, CallParts DEF Fits, RowFits, Inv, RowsVouched
<1>4. Become(p, next)
  BY DEF Reread
<1> HIDE DEF seen
<1>5. /\ next \in Calls /\ next.at = "gate" /\ next.row = c.row /\ next.seen = seen
      /\ next.run = c.run /\ next.emit = c.emit /\ next.next = c.next
  BY <1>1, <1>3 DEF Calls, Steps
<1> HIDE DEF next
<1>6. PICK d \in Calls : d = next
  BY <1>5
<1>7. Fits(d) /\ d.run = call[p].run
  BY <1>1, <1>2, <1>3, <1>5, <1>6 DEF Fits, RowFits, ShapeFits, RunFits, Early, Late
<1> QED BY <1>4, <1>6, <1>7, Here, GoOnQuietly DEF Reread

LEMMA RefuseDecisionKeeps == ASSUME Inv, NEW p \in Procs, RefuseDecision(p) PROVE Inv'
BY Here, ReturnKeeps DEF RefuseDecision

LEMMA CancelGuardKeeps == ASSUME Inv, NEW p \in Procs, CancelGuard(p) PROVE Inv'
<1>1. call[p].row \in Rows /\ "canceled" \in Ops
  BY Here DEF CancelGuard, At, Fits, RowFits, Ops, Decisions
<1>2. CASE Exists(call[p].row) /\ ReadRow(p, "canceled", call[p].row)
  BY <1>1, <1>2, Here, ReadRowKeeps DEF CancelGuard
<1>3. CASE Return(p)
  BY <1>3, Here, ReturnKeeps DEF CancelGuard
<1> QED BY <1>2, <1>3 DEF CancelGuard

LEMMA DecideKeeps == ASSUME Inv, NEW p \in Procs, Decide(p) PROVE Inv'
<1> DEFINE r == call[p].row
           s == call[p].op
<1>1. r \in Rows /\ s \in Statuses \ {"absent", "pruned"} /\ SetStatus(r, s)
  BY Here, OutcomeType DEF Decide, At, Fits, RowFits
<1>2. approvals' = IF s = "approved" /\ Exists(r)
                   THEN [approvals EXCEPT ![r] = @ + 1] ELSE approvals
  BY DEF Decide
<1> HIDE DEF r, s
<1>3. /\ approvals' \in [Rows -> Nat] /\ \A a \in Rows : approvals'[a] >= approvals[a]
      /\ s = "approved" /\ Exists(r) => approvals'[r] > 0
  BY <1>1, <1>2, Here
<1>4. rows' \in [Rows -> ActionRows] /\ RowsGoOn
  BY <1>1, <1>3, SetStatusGoesOn
<1>5. PICK d \in Calls : d = Idle
  BY IdleType
<1>6. Fits(d) /\ d.run = 0 /\ Become(p, d)
  BY <1>5, IdleFits, IdleParts DEF Inv, Decide, Return
<1> QED BY <1>3, <1>4, <1>6, Here, GoOnAlone DEF Decide

\* A refused dispatch goes on to its record, or to the row it blocks.
LEMMA BlockedKeeps ==
  ASSUME Inv, NEW p \in Procs, AtGate(p), NEW step \in {"check", "mark"},
         Become(p, [call[p] EXCEPT !.at = step, !.seen = "absent", !.outcome = "blocked"]),
         UNCHANGED <<rows, runs, approvals, started, mishaps>>
  PROVE  Inv'
<1> DEFINE next == [call[p] EXCEPT !.at = step, !.seen = "absent", !.outcome = "blocked"]
<1>1. PICK c \in Calls : c = call[p]
  BY Here
<1>2. Fits(c) /\ c.at = "gate"
  BY <1>1, Here DEF AtGate, At
<1>3. /\ next \in Calls /\ next.at = step /\ next.row = c.row /\ next.seen = "absent"
      /\ next.run = c.run /\ next.emit = c.emit /\ next.next = c.next
  <2>1. "absent" \in Statuses /\ "blocked" \in Ends /\ step \in Steps
    BY DEF Statuses, Ends, Steps
  <2> QED BY <1>1, <2>1 DEF Calls
<1>4. Become(p, next)
  OBVIOUS
<1> HIDE DEF next
<1>5. PICK d \in Calls : d = next
  BY <1>3
<1>6. Fits(d) /\ d.run = call[p].run
  BY <1>1, <1>2, <1>3, <1>5 DEF Fits, RowFits, ShapeFits, Early
<1> QED BY <1>4, <1>5, <1>6, Here, GoOnQuietly

LEMMA RefuseKeeps == ASSUME Inv, NEW p \in Procs, Refuse(p) PROVE Inv'
BY BlockedKeeps DEF Refuse

LEMMA BlockKeeps == ASSUME Inv, NEW p \in Procs, Block(p) PROVE Inv'
BY BlockedKeeps DEF Block

LEMMA MarkBlockedKeeps == ASSUME Inv, NEW p \in Procs, MarkBlocked(p) PROVE Inv'
<1>1. PICK c \in Calls : c = call[p]
  BY Here
<1>2. PICK d \in Calls : d = [c EXCEPT !.at = "check"]
  BY AtType DEF Steps
<1>3. Fits(c) /\ c.at = "mark"
  BY <1>1, Here DEF MarkBlocked, At
<1>4. Fits(d) /\ d.run = c.run
  BY <1>2, <1>3, AtType DEF Fits, RowFits, ShapeFits, RunFits, Steps, Early, Late
<1>5. Become(p, d) /\ SetStatus(call[p].row, "blocked")
  BY <1>1, <1>2 DEF MarkBlocked, Go
<1>6. "blocked" \in Statuses \ {"absent", "pruned", "approved"}
  BY DEF Statuses, Ends
<1> QED BY <1>1, <1>3, <1>4, <1>5, <1>6, WriteKeeps DEF MarkBlocked

\* The row is set to running: the approval of a guarded row was seen before.
LEMMA SetRunningKeeps == ASSUME Inv, NEW p \in Procs, SetRunning(p) PROVE Inv'
<1> DEFINE next == [call[p] EXCEPT !.at = "spawn", !.emit = <<"running">>]
<1>1. PICK c \in Calls : c = call[p]
  BY Here
<1>2. Fits(c) /\ c.at = "start" /\ c.emit = << >>
  BY <1>1, Here DEF SetRunning, At
<1>3. /\ next \in Calls /\ next.at = "spawn" /\ next.row = c.row /\ next.seen = c.seen
      /\ next.run = c.run /\ next.emit = <<"running">> /\ next.next = c.next
  <2>1. <<"running">> \in Seq(Types) /\ "spawn" \in Steps
    BY DEF Types, Steps
  <2> QED BY <1>1, <2>1 DEF Calls
<1>4. Become(p, next) /\ SetStatus(call[p].row, "running")
  BY DEF SetRunning
<1> HIDE DEF next
<1>5. PICK d \in Calls : d = next
  BY <1>3
<1>6. Fits(d) /\ d.run = call[p].run
  BY <1>1, <1>2, <1>3, <1>5 DEF Fits, RowFits, ShapeFits, RunFits, Early, Late
<1>7. "running" \in Statuses \ {"absent", "pruned", "approved"}
  BY DEF Statuses
<1> QED BY <1>1, <1>2, <1>4, <1>5, <1>6, <1>7, WriteKeeps DEF SetRunning

LEMMA OneIsSome == ASSUME NEW x PROVE <<x>> # << >>
<1>1. Len(<<x>>) = 1 /\ Len(<< >>) = 0
  OBVIOUS
<1> QED BY <1>1

\* A fresh run: no call has it yet.
LEMMA AppendedRun ==
  ASSUME Inv, NEW run \in Runs, runs' = Append(runs, run)
  PROVE  /\ runs' \in Seq(Runs) /\ Len(runs') = Len(runs) + 1
         /\ runs'[Len(runs) + 1] = run
         /\ \A j \in 1..Len(runs) : runs'[j] = runs[j]
         /\ \A k : RunsGoOn(k)
<1>1. runs \in Seq(Runs)
  BY DEF Inv, TypeOK
<1>2. /\ runs' \in Seq(Runs) /\ Len(runs') = Len(runs) + 1
      /\ runs'[Len(runs) + 1] = run
      /\ \A j \in 1..Len(runs) : runs'[j] = runs[j]
  BY <1>1
<1> QED BY <1>1, <1>2 DEF RunsGoOn, SameRun

\* A call without a run gets a fresh one.
LEMMA FreshRunKeeps ==
  ASSUME Inv, NEW p \in Procs, call[p].run = 0, NEW run \in Runs,
         runs' = Append(runs, run), UNCHANGED <<rows, approvals, started, mishaps>>,
         Readable(run), NEW d \in Calls, Become(p, d), d.run = Len(runs) + 1,
         RowFits(d), RunFits(d, run), d.emit # << >>, d.at \notin Early
  PROVE  Inv'
<1>1. /\ runs' \in Seq(Runs) /\ Len(runs') = Len(runs) + 1 /\ Len(runs) \in Nat
      /\ runs'[Len(runs) + 1] = run /\ RunsGoOn(call[p].run)
  BY AppendedRun, DomainOfRuns DEF Inv
<1>2. TypesGoOn /\ RowsGoOn
  BY <1>1, RowsAlone DEF TypesGoOn, Inv, TypeOK
<1>3. RowFits(d)'
  BY DEF RowFits, Pruned, Guarded
<1>4. RunFits(d, runs[d.run])'
  BY <1>1 DEF RunFits, Pruned
<1>5. Fits(d)'
  BY <1>1, <1>3, <1>4 DEF Fits, ShapeFits
<1>6. ASSUME NEW j \in 1..Len(runs'), j = call[p].run \/ j > Len(runs)
      PROVE  Readable(runs[j])'
  <2>1. runs'[j] = run
    BY <1>1, <1>6
  <2> QED BY <2>1 DEF Readable, Pruned
<1> QED BY <1>1, <1>2, <1>5, <1>6, GoOn

LEMMA NewRunType ==
  ASSUME NEW r \in Rows
  PROVE  /\ NewRun(r) \in Runs /\ NewRun(r).row = r /\ NewRun(r).status = "open"
         /\ NewRun(r).child = "none" /\ NewRun(r).events = << >>
BY DEF NewRun, Runs, Children, Types

LEMMA QueueKeeps == ASSUME Inv, NEW p \in Procs, Queue(p) PROVE Inv'
<1> DEFINE next == [call[p] EXCEPT !.at = "start", !.seen = "absent",
                                  !.run = Len(runs) + 1, !.emit = <<"queued">>]
<1>1. PICK c \in Calls : c = call[p]
  BY Here
<1>2. Fits(c) /\ c.at = "gate" /\ c.emit = << >> /\ c.row \in Rows
  BY <1>1, Here DEF Queue, AtGate, At, Fits, RowFits
<1>3. PICK run \in Runs : run = NewRun(c.row)
  BY <1>2, NewRunType
<1>4. /\ next \in Calls /\ next.at = "start" /\ next.row = c.row /\ next.seen = "absent"
      /\ next.run = Len(runs) + 1 /\ next.emit = <<"queued">> /\ next.next = c.next
  <2>1. <<"queued">> \in Seq(Types) /\ "start" \in Steps /\ "absent" \in Statuses
    BY DEF Types, Steps, Statuses
  <2>2. Len(runs) + 1 \in Nat
    BY DomainOfRuns DEF Inv
  <2> QED BY <1>1, <2>1, <2>2 DEF Calls
<1>5. /\ Become(p, next) /\ runs' = Append(runs, run)
      /\ UNCHANGED <<rows, approvals, started, mishaps>>
  BY <1>1, <1>3 DEF Queue
<1>6. Guarded(c.row) => approvals[c.row] > 0
  <2>1. Guarded(c.row) => c.seen = "approved"
    BY <1>1, <1>2, RowParts DEF Queue, Refused, Binds, Guarded, Inv
  <2> QED BY <1>2, <2>1 DEF Fits, RowFits
<1> HIDE DEF next
<1>7. PICK d \in Calls : d = next
  BY <1>4
<1>8. RowFits(d)
  BY <1>2, <1>4, <1>6, <1>7 DEF Fits, RowFits
<1>9. RunFits(d, run)
  BY <1>2, <1>3, <1>4, <1>7, NewRunType DEF Fits, ShapeFits, RunFits, Late
<1>10. Readable(run)
  BY <1>2, <1>3, NewRunType DEF Readable, Ends
<1>11. c.run = 0 /\ d.run = Len(runs) + 1 /\ d.emit # << >> /\ d.at \notin Early
  BY <1>2, <1>4, <1>7, OneIsSome DEF Fits, ShapeFits, Early
<1> QED BY <1>1, <1>5, <1>7, <1>8, <1>9, <1>10, <1>11, FreshRunKeeps

\* A step that replaces the run of the call by another of the same row.
LEMMA RunKeeps ==
  ASSUME Inv, NEW p \in Procs, call[p].run # 0, NEW run \in Runs,
         runs' = [runs EXCEPT ![call[p].run] = run], run.row = call[p].row,
         UNCHANGED <<rows, approvals, mishaps>>, started' \in Seq(Rows),
         Readable(run), NEW d \in Calls, Become(p, d), RowFits(d),
         \/ d = Idle
         \/ /\ d.run = call[p].run /\ d.at \notin Early /\ RunFits(d, run)
            /\ d.emit = << >> => d.next = 0
  PROVE  Inv'
<1> DEFINE k == call[p].run
<1>1. k \in 1..Len(runs) /\ Len(runs) \in Nat /\ runs \in Seq(Runs)
  BY Here, DomainOfRuns DEF Fits, ShapeFits, Inv, TypeOK
<1>2. /\ runs' \in Seq(Runs) /\ Len(runs') = Len(runs) /\ runs'[k] = run
      /\ \A j \in 1..Len(runs) : j # k => runs'[j] = runs[j]
  BY <1>1
<1>3. TypesGoOn /\ RowsGoOn /\ RunsGoOn(k)
  BY <1>1, <1>2, RowsAlone DEF TypesGoOn, RunsGoOn, SameRun, Inv, TypeOK
<1>4. ASSUME d # Idle PROVE Fits(d)'
  <2>1. RowFits(d)'
    BY DEF RowFits, Pruned, Guarded
  <2>2. RunFits(d, runs[d.run])'
    BY <1>2, <1>4 DEF RunFits, Pruned
  <2> QED BY <1>1, <1>2, <1>4, <2>1, <2>2 DEF Fits, ShapeFits
<1>5. ASSUME d = Idle PROVE Fits(d)' /\ d.run = 0
  BY <1>1, <1>2, <1>5, IdleParts DEF Fits, RowFits, ShapeFits, Early
<1>6. ASSUME NEW j \in 1..Len(runs'), j = k \/ j > Len(runs)
      PROVE  Readable(runs[j])'
  <2>1. runs'[j] = run
    BY <1>1, <1>2, <1>6
  <2> QED BY <2>1 DEF Readable, Pruned
<1> QED BY <1>3, <1>4, <1>5, <1>6, GoOn

LEMMA NumberEventKeeps == ASSUME Inv, NEW p \in Procs, NumberEvent(p) PROVE Inv'
<1> DEFINE events == runs[call[p].run].events
           next   == [call[p] EXCEPT !.next = Len(events) + 1]
<1>1. PICK c \in Calls : c = call[p]
  BY Here
<1>2. Fits(c) /\ c.emit # << >> /\ c.run # 0
  BY <1>1, Here DEF NumberEvent, Fits, ShapeFits
<1>3. Len(events) \in Nat
  <2>1. runs[c.run] \in Runs
    BY <1>2, DomainOfRuns DEF Fits, ShapeFits, Inv, TypeOK
  <2> QED BY <1>1, <2>1, RunParts
<1>4. Become(p, next) /\ Len(events) = Len(runs[c.run].events)
  BY <1>1 DEF NumberEvent
<1> HIDE DEF events
<1>5. /\ next \in Calls /\ next.at = c.at /\ next.row = c.row /\ next.seen = c.seen
      /\ next.run = c.run /\ next.emit = c.emit /\ next.next = Len(events) + 1
  BY <1>1, <1>3 DEF Calls
<1>6. c.at # "idle"
  BY <1>2, IdleParts DEF Fits, RowFits
<1> HIDE DEF next
<1>7. PICK d \in Calls : d = next
  BY <1>5
<1>8. RowFits(d)
  BY <1>2, <1>5, <1>6, <1>7 DEF Fits, RowFits
<1>9. RunFits(d, runs[c.run])
  BY <1>2, <1>4, <1>5, <1>7 DEF Fits, RunFits
<1>10. Fits(d) /\ d.run = call[p].run
  BY <1>1, <1>2, <1>5, <1>7, <1>8, <1>9 DEF Fits, ShapeFits
<1> QED BY <1>4, <1>7, <1>10, Here, GoOnQuietly DEF NumberEvent

\* The number read in an earlier transaction is still the next one, because no other
\* call writes events of this run.
LEMMA InsertEventKeeps == ASSUME Inv, NEW p \in Procs, InsertEvent(p) PROVE Inv'
<1> DEFINE event == [sequence |-> call[p].next, type |-> Head(call[p].emit)]
           next  == [call[p] EXCEPT !.emit = Tail(@), !.next = 0]
<1>1. PICK c \in Calls : c = call[p]
  BY Here
<1>2. Fits(c) /\ c.emit # << >> /\ c.next # 0 /\ c.run # 0
  BY <1>1, Here DEF InsertEvent, Fits, ShapeFits
<1>3. PICK old \in Runs : old = runs[c.run]
  BY <1>2, DomainOfRuns DEF Fits, ShapeFits, Inv, TypeOK
<1>4. PICK run : run = [old EXCEPT !.events = Append(@, event)]
  OBVIOUS
<1>5. event \in [sequence: Nat, type: Types] /\ Tail(c.emit) \in Seq(Types)
  BY <1>1, <1>2, CallParts
<1>6. event.sequence = c.next
  BY <1>1
<1>7. runs' = [runs EXCEPT ![c.run] = run]
  BY <1>1, <1>2, <1>3, <1>4, DomainOfRuns DEF InsertEvent, Fits, ShapeFits, Inv
<1>8. UNCHANGED <<rows, approvals, started, mishaps>>
  BY DEF InsertEvent
<1>9. Become(p, next) \/ Return(p)
  BY DEF InsertEvent
<1> HIDE DEF event
<1>10. /\ run \in Runs /\ run.row = old.row /\ run.status = old.status
       /\ run.child = old.child /\ run.events = Append(old.events, event)
  <2>1. Append(old.events, event) \in Seq([sequence: Nat, type: Types])
    <3> DEFINE S == [sequence: Nat, type: Types]
    <3>1. event \in S /\ old.events \in Seq(S)
      BY <1>5, RunParts
    <3> HIDE DEF S
    <3>2. Append(old.events, event) \in Seq(S)
      BY <3>1
    <3> QED BY <3>2 DEF S
  <2> QED BY <1>4, <2>1 DEF Runs
<1>11. RunFits(c, old) /\ Readable(old)
  BY <1>2, <1>3, DomainOfRuns DEF Fits, ShapeFits, Inv
<1>12. c.at # "idle" /\ ("overlap" \notin mishaps => ~Pruned(c.row))
  BY <1>2, IdleParts DEF Fits, RowFits
<1>13. Readable(run)
  <2>1. ASSUME ~Pruned(run.row), NEW i \in DOMAIN run.events
        PROVE  run.events[i].sequence = i
    <3>1. /\ old.events \in Seq([sequence: Nat, type: Types])
          /\ c.next = Len(old.events) + 1
      BY <1>2, <1>10, <1>11, <2>1, RunParts DEF RunFits
    <3>2. CASE i = Len(old.events) + 1
      BY <1>6, <1>10, <3>1, <3>2
    <3>3. CASE i # Len(old.events) + 1
      <4>1. i \in DOMAIN old.events /\ run.events[i] = old.events[i]
        BY <1>10, <2>1, <3>1, <3>3
      <4> QED BY <1>10, <1>11, <2>1, <4>1 DEF Readable
    <3> QED BY <3>2, <3>3
  <2>2. "overlap" \notin mishaps => ~Pruned(run.row)
    BY <1>10, <1>11, <1>12 DEF RunFits
  <2> QED BY <1>10, <1>11, <2>1, <2>2 DEF Readable
<1>14. run.row = call[p].row /\ call[p].run # 0 /\ started' \in Seq(Rows)
  BY <1>1, <1>2, <1>8, <1>10, <1>11 DEF RunFits, Inv, TypeOK
<1>15. CASE Return(p)
  <2>1. PICK d \in Calls : d = Idle
    BY IdleType
  <2>2. RowFits(d) /\ Become(p, d)
    BY <1>15, <2>1, IdleFits DEF Inv, Fits, Return
  <2> QED BY <1>1, <1>7, <1>8, <1>10, <1>13, <1>14, <2>1, <2>2, RunKeeps
<1>16. CASE Become(p, next)
  <2>1. /\ next \in Calls /\ next.at = c.at /\ next.row = c.row /\ next.seen = c.seen
        /\ next.run = c.run /\ next.next = 0
    BY <1>1, <1>5 DEF Calls
  <2> HIDE DEF next
  <2>2. PICK d \in Calls : d = next
    BY <2>1
  <2>3. RowFits(d) /\ d.at \notin Early
    BY <1>2, <1>12, <2>1, <2>2 DEF Fits, RowFits, ShapeFits
  <2>4. RunFits(d, run)
    BY <1>10, <1>11, <2>1, <2>2 DEF RunFits
  <2>5. Become(p, d) /\ d.run = call[p].run /\ d.next = 0
    BY <1>1, <1>16, <2>1, <2>2
  <2> QED BY <1>1, <1>7, <1>8, <1>10, <1>13, <1>14, <2>3, <2>4, <2>5, RunKeeps
<1> QED BY <1>9, <1>15, <1>16

\* The child of a run starts, is killed, or its run is recorded: the events stay.
LEMMA RunEdited ==
  ASSUME NEW run \in Runs, NEW child \in Children, NEW status \in Ends \cup {"open", "deleted"}
  PROVE  /\ [run EXCEPT !.child = child] \in Runs
         /\ [run EXCEPT !.child = child].row = run.row
         /\ [run EXCEPT !.child = child].status = run.status
         /\ [run EXCEPT !.child = child].child = child
         /\ [run EXCEPT !.child = child].events = run.events
         /\ [run EXCEPT !.status = status] \in Runs
         /\ [run EXCEPT !.status = status].row = run.row
         /\ [run EXCEPT !.status = status].status = status
         /\ [run EXCEPT !.status = status].child = run.child
         /\ [run EXCEPT !.status = status].events = run.events
BY DEF Runs

\* The run of a call that has one.
LEMMA MyRun ==
  ASSUME Inv, NEW p \in Procs, call[p].run # 0
  PROVE  /\ call[p].run \in DOMAIN runs /\ runs[call[p].run] \in Runs
         /\ RunFits(call[p], runs[call[p].run]) /\ Readable(runs[call[p].run])
BY Here, DomainOfRuns DEF Fits, ShapeFits, Inv, TypeOK

LEMMA SpawnKeeps == ASSUME Inv, NEW p \in Procs, Spawn(p) PROVE Inv'
<1>1. PICK c \in Calls : c = call[p]
  BY Here
<1>2. PICK d \in Calls : d = [c EXCEPT !.at = "wait"]
  BY AtType DEF Steps
<1>3. Fits(c) /\ c.at = "spawn" /\ c.emit = << >> /\ c.run # 0 /\ c.row \in Rows
  BY <1>1, Here DEF Spawn, At, Fits, RowFits, ShapeFits
<1>4. PICK old \in Runs : old = runs[c.run] /\ RunFits(c, old) /\ Readable(old)
  BY <1>1, <1>3, MyRun
<1>5. "alive" \in Children
  BY DEF Children
<1>6. PICK run \in Runs : run = [old EXCEPT !.child = "alive"]
  BY <1>5, RunEdited
<1>7. runs' = [runs EXCEPT ![c.run] = run]
  BY <1>1, <1>3, <1>4, <1>6, MyRun DEF Spawn
<1>8. /\ Become(p, d) /\ UNCHANGED <<rows, approvals, mishaps>>
  BY <1>1, <1>2 DEF Spawn, Go
<1>9. started' \in Seq(Rows)
  BY <1>1, <1>3 DEF Spawn, Inv, TypeOK
<1>10. /\ run.row = old.row /\ run.status = old.status /\ run.child = "alive"
       /\ run.events = old.events
  BY <1>5, <1>6, RunEdited
<1>11. /\ d.at = "wait" /\ d.row = c.row /\ d.seen = c.seen /\ d.run = c.run
       /\ d.emit = c.emit /\ d.next = c.next
  BY <1>2, AtType DEF Steps
<1>12. Readable(run) /\ RunFits(d, run) /\ RowFits(d)
  BY <1>3, <1>4, <1>10, <1>11 DEF Readable, RunFits, Fits, RowFits, Late, Ends
<1>13. run.row = call[p].row /\ call[p].run # 0 /\ d.run = call[p].run /\ d.at \notin Early
       /\ (d.emit = << >> => d.next = 0)
  BY <1>1, <1>3, <1>4, <1>10, <1>11 DEF RunFits, Early, Fits, ShapeFits
<1> QED BY <1>1, <1>7, <1>8, <1>9, <1>12, <1>13, RunKeeps

LEMMA TimeoutKeeps == ASSUME Inv, NEW p \in Procs, Timeout(p) PROVE Inv'
<1> DEFINE next == [call[p] EXCEPT !.at = "finish", !.outcome = "failed"]
<1>1. PICK c \in Calls : c = call[p]
  BY Here
<1>2. /\ next \in Calls /\ next.at = "finish" /\ next.row = c.row /\ next.seen = c.seen
      /\ next.run = c.run /\ next.emit = c.emit /\ next.next = c.next
  BY <1>1 DEF Calls, Steps, Ends
<1>3. Fits(c) /\ c.at = "drain" /\ c.emit = << >> /\ c.run # 0
  BY <1>1, Here DEF Timeout, AtDeadline, At, Fits, ShapeFits
<1>4. PICK old \in Runs : old = runs[c.run] /\ RunFits(c, old) /\ Readable(old)
  BY <1>1, <1>3, MyRun
<1>5. PICK child \in Children : child = IF old.child = "alive" THEN "killed" ELSE old.child
  BY <1>4, RunParts DEF Children
<1>6. PICK run \in Runs : run = [old EXCEPT !.child = child]
  BY <1>5, RunEdited
<1>7. runs' = [runs EXCEPT ![c.run] = run]
  BY <1>1, <1>3, <1>4, <1>5, <1>6, MyRun DEF Timeout
<1>8. Become(p, next) /\ UNCHANGED <<rows, approvals, mishaps, started>>
  BY DEF Timeout
<1>9. started' \in Seq(Rows)
  BY <1>8 DEF Inv, TypeOK
<1> HIDE DEF next
<1>10. PICK d \in Calls : d = next
  BY <1>2
<1>11. /\ run.row = old.row /\ run.status = old.status /\ run.child # "alive"
       /\ run.events = old.events
  BY <1>5, <1>6, RunEdited
<1>12. Readable(run) /\ RunFits(d, run) /\ RowFits(d)
  BY <1>2, <1>3, <1>4, <1>10, <1>11 DEF Readable, RunFits, Fits, RowFits, Late, Ends
<1>13. run.row = call[p].row /\ call[p].run # 0 /\ d.run = call[p].run /\ d.at \notin Early
       /\ (d.emit = << >> => d.next = 0)
  BY <1>1, <1>2, <1>3, <1>4, <1>10, <1>11 DEF RunFits, Early, Fits, ShapeFits
<1> QED BY <1>1, <1>7, <1>8, <1>9, <1>10, <1>12, <1>13, RunKeeps

\* Popen raises: no child, a failed run to record.
LEMMA SpawnFailsKeeps == ASSUME Inv, NEW p \in Procs, SpawnFails(p) PROVE Inv'
<1> DEFINE next == [call[p] EXCEPT !.at = "finish", !.outcome = "failed", !.caught = TRUE]
<1>1. PICK c \in Calls : c = call[p]
  BY Here
<1>2. Fits(c) /\ c.at = "spawn" /\ c.run # 0
  BY <1>1, Here DEF SpawnFails, At, Fits, ShapeFits
<1>3. /\ next \in Calls /\ next.at = "finish" /\ next.row = c.row /\ next.seen = c.seen
      /\ next.run = c.run /\ next.emit = c.emit /\ next.next = c.next
  BY <1>1 DEF Calls, Steps, Ends
<1>4. Become(p, next) /\ UNCHANGED <<rows, runs, approvals, started, mishaps>>
  BY DEF SpawnFails
<1> HIDE DEF next
<1>5. PICK d \in Calls : d = next
  BY <1>3
<1>6. Fits(d) /\ d.run = call[p].run
  BY <1>1, <1>2, <1>3, <1>5 DEF Fits, RowFits, ShapeFits, RunFits, Early, Late
<1> QED BY <1>4, <1>5, <1>6, Here, GoOnQuietly

\* A move of a call that waits for its command, which changes neither rows nor runs.
LEMMA WaitingKeeps ==
  ASSUME Inv, NEW p \in Procs, NEW next \in Calls, Become(p, next),
         UNCHANGED <<rows, runs, approvals, started, mishaps>>,
         call[p].at \in {"wait", "drain", "finish"},
         next.at \in {"wait", "drain", "finish"},
         next.at = "finish" => call[p].at = "finish" \/ runs[call[p].run].child # "alive",
         next.row = call[p].row, next.seen = call[p].seen, next.run = call[p].run,
         next.next = call[p].next,
         next.emit = << >> => call[p].next = 0
  PROVE  Inv'
<1>1. PICK c \in Calls : c = call[p]
  BY Here
<1>2. Fits(c) /\ c.run # 0
  BY <1>1, Here DEF Fits, ShapeFits
<1>3. Fits(next) /\ next.run = call[p].run
  BY <1>1, <1>2 DEF Fits, RowFits, ShapeFits, RunFits, Early, Late
<1> QED BY <1>3, Here, GoOnQuietly

LEMMA PrintKeeps == ASSUME Inv, NEW p \in Procs, PrintLine(p) PROVE Inv'
<1> DEFINE next == [call[p] EXCEPT !.lines = @ + 1]
<1>1. call[p] \in Calls /\ (call[p].emit = << >> => call[p].next = 0)
  BY Here DEF Fits, ShapeFits
<1>2. /\ next \in Calls /\ next.at = call[p].at /\ next.row = call[p].row
      /\ next.seen = call[p].seen /\ next.run = call[p].run /\ next.emit = call[p].emit
      /\ next.next = call[p].next
  BY <1>1 DEF Calls
<1>3. Become(p, next) /\ UNCHANGED <<rows, runs, approvals, started, mishaps>>
      /\ call[p].at \in {"wait", "drain"}
  BY DEF PrintLine, Waiting
<1> HIDE DEF next
<1> QED BY <1>1, <1>2, <1>3, WaitingKeeps

LEMMA DrainKeeps == ASSUME Inv, NEW p \in Procs, Drain(p) PROVE Inv'
<1> DEFINE event == IF Printed(call[p].run) < MaxOutput THEN <<"stdout">> ELSE << >>
           next  == [call[p] EXCEPT !.lines = @ - 1, !.emit = event]
<1>1. call[p] \in Calls /\ call[p].next = 0 /\ call[p].lines > 0
      /\ call[p].at \in {"drain", "finish"}
  BY Here DEF Fits, ShapeFits, Drain, Draining, At
<1>2. event \in Seq(Types)
  BY DEF Types
<1>3. Become(p, next) /\ UNCHANGED <<rows, runs, approvals, started, mishaps>>
  BY DEF Drain
<1> HIDE DEF event
<1>5. PICK n \in Nat : n = call[p].lines - 1
  BY <1>1, CallParts
<1>4. /\ next \in Calls /\ next.at = call[p].at /\ next.row = call[p].row
      /\ next.seen = call[p].seen /\ next.run = call[p].run /\ next.next = call[p].next
  BY <1>1, <1>2, <1>5 DEF Calls
<1> HIDE DEF next
<1> QED BY <1>1, <1>3, <1>4, WaitingKeeps

LEMMA PollKeeps == ASSUME Inv, NEW p \in Procs, Poll(p) \/ PollAgain(p) PROVE Inv'
<1>1. PICK at \in {"wait", "drain"} : Go(p, at)
  BY DEF Poll, PollAgain
<1>2. /\ call[p] \in Calls /\ call[p].next = 0 /\ call[p].at \in {"wait", "drain"}
      /\ UNCHANGED <<rows, runs, approvals, started, mishaps>>
  BY Here DEF Fits, ShapeFits, Poll, PollAgain, AtDeadline, At
<1>3. PICK next \in Calls : next = [call[p] EXCEPT !.at = at]
  BY <1>2 DEF Calls, Steps
<1>4. /\ next.at = at /\ next.row = call[p].row
      /\ next.seen = call[p].seen /\ next.run = call[p].run /\ next.next = call[p].next
  BY <1>2, <1>3 DEF Calls
<1>5. Become(p, next)
  BY <1>1, <1>3 DEF Go
<1> QED BY <1>2, <1>4, <1>5, WaitingKeeps

LEMMA SeeExitKeeps == ASSUME Inv, NEW p \in Procs, SeeExit(p) PROVE Inv'
<1> DEFINE status == StatusOf(ChildOf(p))
           next   == [call[p] EXCEPT !.at = "finish", !.outcome = status]
<1>1. /\ call[p] \in Calls /\ call[p].next = 0 /\ call[p].at = "wait"
      /\ runs[call[p].run].child # "alive"
  BY Here DEF Fits, ShapeFits, SeeExit, At, ChildOf, Exited
<1>2. status \in Ends
  BY DEF StatusOf, Ends
<1>3. Become(p, next) /\ UNCHANGED <<rows, runs, approvals, started, mishaps>>
  BY DEF SeeExit
<1> HIDE DEF status
<1>4. /\ next \in Calls /\ next.at = "finish" /\ next.row = call[p].row
      /\ next.seen = call[p].seen /\ next.run = call[p].run /\ next.next = call[p].next
  BY <1>1, <1>2 DEF Calls, Steps
<1> HIDE DEF next
<1> QED BY <1>1, <1>3, <1>4, WaitingKeeps

LEMMA WriteEndKeeps == ASSUME Inv, NEW p \in Procs, WriteEnd(p) PROVE Inv'
<1>1. PICK c \in Calls : c = call[p]
  BY Here
<1>2. PICK d \in Calls : d = [c EXCEPT !.at = "check"]
  BY AtType DEF Steps
<1>3. Fits(c) /\ c.at = "finish" /\ c.outcome \in Ends
  BY <1>1, Here, CallParts DEF WriteEnd, Ended, At
<1>4. Fits(d) /\ d.run = c.run
  BY <1>2, <1>3, AtType DEF Fits, RowFits, ShapeFits, RunFits, Steps, Early, Late
<1>5. Become(p, d) /\ SetStatus(call[p].row, call[p].outcome)
  BY <1>1, <1>2 DEF WriteEnd, Go
<1>6. call[p].outcome \in Statuses \ {"absent", "pruned", "approved"}
  BY <1>1, <1>3, OutcomeType
<1> QED BY <1>1, <1>3, <1>4, <1>5, <1>6, WriteKeeps DEF WriteEnd

LEMMA FindRowKeeps == ASSUME Inv, NEW p \in Procs, FindRow(p) PROVE Inv'
<1>1. CASE Return(p)
  BY <1>1, Here, ReturnKeeps DEF FindRow
<1>2. CASE Go(p, "insert")
  <2>1. PICK c \in Calls : c = call[p]
    BY Here
  <2>2. PICK d \in Calls : d = [c EXCEPT !.at = "insert"]
    BY AtType DEF Steps
  <2>3. Fits(c) /\ c.at = "check"
    BY <2>1, Here DEF FindRow, At
  <2>4. Fits(d) /\ d.run = call[p].run /\ Become(p, d)
    BY <1>2, <2>1, <2>2, <2>3, AtType
    DEF Fits, RowFits, ShapeFits, RunFits, Steps, Early, Late, Go
  <2> QED BY <2>4, Here, GoOnQuietly DEF FindRow
<1> QED BY <1>1, <1>2 DEF FindRow

\* A refusal gets its run here: it is recorded as blocked, with its reason.
LEMMA InsertRefusalKeeps ==
  ASSUME Inv, NEW p \in Procs, At(p, "insert"), call[p].run = 0,
         runs' = Append(runs, [NewRun(call[p].row) EXCEPT !.status = "blocked"]),
         Become(p, [call[p] EXCEPT !.at = "return", !.run = Len(runs) + 1,
                                   !.emit = <<"stderr", "blocked">>]),
         UNCHANGED <<rows, approvals, started, mishaps>>
  PROVE  Inv'
<1> DEFINE next == [call[p] EXCEPT !.at = "return", !.run = Len(runs) + 1,
                                  !.emit = <<"stderr", "blocked">>]
<1>1. PICK c \in Calls : c = call[p]
  BY Here
<1>2. Fits(c) /\ c.at = "insert" /\ c.emit = << >> /\ c.run = 0 /\ c.row \in Rows
  BY <1>1, Here DEF At, Fits, RowFits
<1>3. "blocked" \in Ends \cup {"open", "deleted"} /\ "none" \in Children
  BY DEF Ends, Children
<1>4. PICK new \in Runs : new = NewRun(c.row)
  BY <1>2, NewRunType
<1>5. PICK run \in Runs : run = [new EXCEPT !.status = "blocked"]
  BY <1>3, RunEdited
<1>6. /\ run.row = c.row /\ run.status = "blocked" /\ run.child = "none"
      /\ run.events = << >>
  BY <1>2, <1>3, <1>4, <1>5, RunEdited, NewRunType
<1>7. /\ next \in Calls /\ next.at = "return" /\ next.row = c.row /\ next.seen = c.seen
      /\ next.run = Len(runs) + 1 /\ next.next = c.next
      /\ next.emit = <<"stderr", "blocked">>
  <2>1. <<"stderr", "blocked">> \in Seq(Types) /\ "return" \in Steps
    BY DEF Types, Ends, Steps
  <2>2. Len(runs) + 1 \in Nat
    BY DomainOfRuns DEF Inv
  <2> QED BY <1>1, <2>1, <2>2 DEF Calls
<1>8. Become(p, next) /\ runs' = Append(runs, run)
  BY <1>1, <1>4, <1>5
<1> HIDE DEF next
<1>9. PICK d \in Calls : d = next
  BY <1>7
<1>10. RowFits(d)
  BY <1>2, <1>7, <1>9 DEF Fits, RowFits
<1>11. RunFits(d, run)
  BY <1>2, <1>6, <1>7, <1>9 DEF Fits, ShapeFits, RunFits, Late
<1>12. "overlap" \notin mishaps => ~Pruned(c.row)
  BY <1>2 DEF Fits, RowFits
<1>13. Readable(run)
  BY <1>6, <1>12 DEF Readable, Ends
<1>14. d.emit # << >>
  <2>1. Len(<<"stderr", "blocked">>) = 2 /\ Len(<< >>) = 0
    OBVIOUS
  <2>2. d.emit = <<"stderr", "blocked">>
    BY <1>7, <1>9
  <2> QED BY <2>1, <2>2
<1>15. call[p].run = 0 /\ d.run = Len(runs) + 1 /\ d.at \notin Early
  BY <1>1, <1>2, <1>7, <1>9 DEF Early
<1> QED BY <1>8, <1>9, <1>10, <1>11, <1>13, <1>14, <1>15, FreshRunKeeps

\* A command's run is recorded: its child is gone, its row is there.
LEMMA InsertOutcomeKeeps ==
  ASSUME Inv, NEW p \in Procs, At(p, "insert"), call[p].run # 0,
         runs' = [runs EXCEPT ![call[p].run].status = call[p].outcome],
         Become(p, [call[p] EXCEPT !.at = "return", !.emit = <<call[p].outcome>>]),
         UNCHANGED <<rows, approvals, started, mishaps>>
  PROVE  Inv'
<1> DEFINE next == [call[p] EXCEPT !.at = "return", !.emit = <<call[p].outcome>>]
<1>1. PICK c \in Calls : c = call[p]
  BY Here
<1>2. Fits(c) /\ c.at = "insert" /\ c.emit = << >> /\ c.run # 0 /\ c.outcome \in Ends
  BY <1>1, Here, CallParts DEF At, Fits
<1>3. PICK old \in Runs : old = runs[c.run] /\ RunFits(c, old) /\ Readable(old)
  BY <1>1, <1>2, MyRun
<1>4. "none" \in Children
  BY DEF Children
<1>5. PICK run \in Runs : run = [old EXCEPT !.status = c.outcome]
  BY <1>2, <1>4, RunEdited
<1>6. /\ run.row = old.row /\ run.status = c.outcome /\ run.child = old.child
      /\ run.events = old.events
  BY <1>2, <1>4, <1>5, RunEdited
<1>7. runs' = [runs EXCEPT ![c.run] = run]
  BY <1>1, <1>2, <1>3, <1>5, MyRun
<1>8. /\ next \in Calls /\ next.at = "return" /\ next.row = c.row /\ next.seen = c.seen
      /\ next.run = c.run /\ next.next = c.next
  <2>1. <<c.outcome>> \in Seq(Types) /\ "return" \in Steps
    BY <1>2, OutcomeType DEF Steps
  <2> QED BY <1>1, <2>1 DEF Calls
<1>9. Become(p, next)
  OBVIOUS
<1> HIDE DEF next
<1>10. PICK d \in Calls : d = next
  BY <1>8
<1>11. RowFits(d) /\ ("overlap" \notin mishaps => ~Pruned(c.row))
  BY <1>2, <1>8, <1>10 DEF Fits, RowFits
<1>12. RunFits(d, run)
  BY <1>2, <1>3, <1>6, <1>8, <1>10 DEF RunFits, Late
<1>13. Readable(run)
  BY <1>2, <1>3, <1>6, <1>11 DEF Readable, RunFits, Late
<1>14. run.row = call[p].row /\ call[p].run # 0 /\ d.run = call[p].run /\ d.at \notin Early
       /\ (d.emit = << >> => d.next = 0) /\ started' \in Seq(Rows)
  BY <1>1, <1>2, <1>3, <1>6, <1>8, <1>10 DEF RunFits, Early, Fits, ShapeFits, Inv, TypeOK
<1> QED BY <1>1, <1>7, <1>9, <1>10, <1>11, <1>12, <1>13, <1>14, RunKeeps

LEMMA InsertRunKeeps == ASSUME Inv, NEW p \in Procs, InsertRun(p) PROVE Inv'
<1>1. CASE call[p].run = 0
  BY <1>1, InsertRefusalKeeps DEF InsertRun
<1>2. CASE call[p].run # 0 /\ runs[call[p].run].status = "open"
  BY <1>2, InsertOutcomeKeeps DEF InsertRun
<1>3. CASE call[p].run # 0 /\ runs[call[p].run].status # "open"
  BY <1>3, Here, ReturnKeeps DEF InsertRun
<1> QED BY <1>1, <1>2, <1>3

LEMMA StepKeeps == ASSUME Inv, NEW p \in Procs, Step(p) PROVE Inv'
BY WriteExpiredKeeps, RereadKeeps, RefuseDecisionKeeps, CancelGuardKeeps, DecideKeeps,
   RefuseKeeps, BlockKeeps, MarkBlockedKeeps, QueueKeeps, SetRunningKeeps,
   NumberEventKeeps, InsertEventKeeps, SpawnKeeps, SpawnFailsKeeps, DrainKeeps, PollKeeps,
   SeeExitKeeps, TimeoutKeeps, WriteEndKeeps, FindRowKeeps, InsertRunKeeps
DEF Step

-----------------------------------------------------------------------------
(* Mishaps and the steps of the environment.                                 *)

LEMMA World ==
  ASSUME Inv
  PROVE  /\ rows \in [Rows -> ActionRows] /\ approvals \in [Rows -> Nat]
         /\ runs \in Seq(Runs) /\ RowsVouched
BY DEF Inv, TypeOK

LEMMA CrashKeeps == ASSUME Inv, NEW p \in Procs, Crash(p) PROVE Inv'
<1>1. /\ mishaps' \subseteq {"crash", "fault", "prune", "overlap"}
      /\ mishaps \subseteq mishaps'
  BY Here DEF Crash
<1> QED BY <1>1, ReturnKeeps DEF Crash

\* The except branch does not kill the child: from here on runs are judged as after a
\* fault.
LEMMA FaultKeeps == ASSUME Inv, NEW p \in Procs, Fault(p) PROVE Inv'
<1> DEFINE next == [call[p] EXCEPT !.at = "finish", !.outcome = "failed",
                                  !.emit = << >>, !.next = 0, !.caught = TRUE,
                                  !.lines = 0]
<1>1. /\ mishaps' \subseteq {"crash", "fault", "prune", "overlap"}
      /\ mishaps \subseteq mishaps' /\ "fault" \in mishaps'
      /\ UNCHANGED <<rows, runs, approvals, started>>
  BY Here DEF Fault
<1>2. CASE Return(p)
  BY <1>1, <1>2, ReturnKeeps
<1>3. CASE Covered(p) /\ Become(p, next)
  <2>1. PICK c \in Calls : c = call[p]
    BY Here
  <2>2. Fits(c) /\ c.run # 0
    BY <1>3, <2>1, Here DEF Covered
  <2>3. /\ next \in Calls /\ next.at = "finish" /\ next.row = c.row
        /\ next.seen = c.seen /\ next.run = c.run /\ next.emit = << >> /\ next.next = 0
    <3>1. << >> \in Seq(Types) /\ "finish" \in Steps /\ "failed" \in Ends
      BY DEF Steps, Ends
    <3> QED BY <2>1, <3>1 DEF Calls
  <2>4. Become(p, next)
    BY <1>3
  <2> HIDE DEF next
  <2>5. PICK d \in Calls : d = next
    BY <2>3
  <2>6. c.at # "idle"
    BY <2>2, IdleParts DEF Fits, RowFits
  <2>7. RowFits(d)'
    BY <1>1, <2>2, <2>3, <2>5, <2>6 DEF Fits, RowFits, Pruned, Guarded
  <2>8. RunFits(d, runs[d.run])'
    BY <1>1, <2>2, <2>3, <2>5 DEF Fits, RunFits, Late
  <2>9. Fits(d)'
    BY <1>1, <2>2, <2>3, <2>5, <2>7, <2>8 DEF Fits, ShapeFits, Early
  <2>10. TypesGoOn /\ RowsGoOn /\ RunsGoOn(call[p].run) /\ RunsGoOn(0)
    BY <1>1, RowsAlone, DomainOfRuns DEF TypesGoOn, RunsGoOn, SameRun, Inv, TypeOK
  <2>11. \A j \in 1..Len(runs') : Readable(runs[j])'
    <3>1. ASSUME NEW j \in 1..Len(runs) PROVE Readable(runs[j])'
      BY <1>1, <2>10, ReadableStays, DomainOfRuns DEF Inv
    <3> QED BY <1>1, <3>1
  <2> QED BY <2>1, <2>3, <2>4, <2>5, <2>9, <2>10, <2>11, GoOn
<1> QED BY <1>2, <1>3 DEF Fault

\* No call takes a step: rows change, or a child ends.
LEMMA NobodyMoves ==
  ASSUME Inv, UNCHANGED <<call, approvals, started, mishaps>>,
         rows' \in [Rows -> ActionRows], RowsGoOn, runs' \in Seq(Runs),
         Len(runs') = Len(runs), RunsGoOn(0)
  PROVE  Inv'
<1>1. TypeOK' /\ approvals' \in [Rows -> Nat] /\ mishaps \subseteq mishaps'
  BY DEF Inv, TypeOK
<1>2. RowsVouched'
  BY DEF RowsGoOn, RowsVouched
<1>3. ASSUME NEW q \in Procs PROVE Fits(call[q])'
  <2>1. PICK c \in Calls : c = call[q]
    BY Here
  <2>2. Fits(c) /\ c.run \in Nat /\ Len(runs') \in Nat
    BY <2>1, Here, CallParts
  <2>3. Fits(c)'
    BY <1>1, <2>2, FitsStays DEF Inv
  <2> QED BY <2>1, <2>3
<1>4. ASSUME NEW j \in 1..Len(runs) PROVE Readable(runs[j])'
  BY <1>1, ReadableStays, DomainOfRuns DEF Inv
<1>5. DOMAIN runs' = 1..Len(runs)
  OBVIOUS
<1> QED BY <1>1, <1>2, <1>3, <1>4, <1>5 DEF Inv, Exclusive

LEMMA RunsAlone ==
  ASSUME Inv, UNCHANGED runs
  PROVE  runs' \in Seq(Runs) /\ Len(runs') = Len(runs) /\ RunsGoOn(0)
BY DomainOfRuns DEF Inv, TypeOK, RunsGoOn, SameRun

\* A row is proposed, comes due, or loses its tool: whether it is guarded is decided when
\* it is proposed.
LEMMA RowChanges ==
  ASSUME Inv, NEW r \in Rows, NEW row \in ActionRows, rows' = [rows EXCEPT ![r] = row],
         UNCHANGED <<runs, call, approvals, started, mishaps>>,
         \/ rows[r].status = "absent" /\ row.status \in {"approval_required", "proposed"}
         \/ /\ row.status = rows[r].status /\ row.approval = rows[r].approval
            /\ row.tool = "guarded" <=> rows[r].tool = "guarded"
  PROVE  Inv'
<1>1. rows' \in [Rows -> ActionRows] /\ rows'[r] = row
      /\ \A a \in Rows \ {r} : rows'[a] = rows[a]
  BY World
<1>2. ASSUME NEW a \in Rows
      PROVE  /\ rows[a].status # "absent" =>
                  rows'[a].status # "absent" /\ (Guarded(a)' <=> Guarded(a))
             /\ Pruned(a)' <=> Pruned(a)
             /\ approvals'[a] >= approvals[a]
             /\ rows'[a].status = "approved" => approvals'[a] > 0
  <2>1. approvals'[a] >= approvals[a] /\ (rows[a].status = "approved" => approvals'[a] > 0)
    BY World DEF RowsVouched
  <2>2. CASE a # r
    BY <1>1, <2>1, <2>2 DEF Guarded, Pruned
  <2>3. CASE a = r
    BY <1>1, <2>1, <2>3 DEF Guarded, Pruned
  <2> QED BY <2>2, <2>3
<1>3. RowsGoOn
  BY <1>2 DEF RowsGoOn
<1> QED BY <1>1, <1>3, RunsAlone, NobodyMoves

LEMMA ProposeKeeps ==
  ASSUME Inv, NEW r \in Rows, NEW needsApproval \in BOOLEAN, NEW tool \in Tools,
         Propose(r, needsApproval, tool)
  PROVE  Inv'
<1>1. PICK status \in {"approval_required", "proposed"} :
        status = IF needsApproval THEN "approval_required" ELSE "proposed"
  OBVIOUS
<1>2. status \in Statuses
  BY DEF Statuses, Expirable
<1>3. PICK row \in ActionRows :
        row = [status |-> status, approval |-> needsApproval, tool |-> tool, due |-> FALSE]
  BY <1>2 DEF ActionRows
<1>4. row.status = status
  BY <1>3
<1> QED BY <1>1, <1>3, <1>4, RowChanges DEF Propose

LEMMA ElapseKeeps == ASSUME Inv, NEW r \in Rows, Elapse(r) PROVE Inv'
<1>1. PICK old \in ActionRows : old = rows[r]
  BY World
<1>2. PICK row \in ActionRows : row = [old EXCEPT !.due = TRUE]
  BY DEF ActionRows
<1>3. row.status = old.status /\ row.approval = old.approval /\ row.tool = old.tool
  BY <1>2 DEF ActionRows
<1>4. rows' = [rows EXCEPT ![r] = row]
  BY <1>1, <1>2, World DEF Elapse
<1> QED BY <1>1, <1>3, <1>4, RowChanges DEF Elapse

LEMMA WithdrawKeeps ==
  ASSUME Inv, NEW r \in Rows, NEW tool \in Tools, Withdraw(r, tool) PROVE Inv'
<1>1. PICK old \in ActionRows : old = rows[r]
  BY World
<1>2. PICK row \in ActionRows : row = [old EXCEPT !.tool = tool]
  BY DEF ActionRows
<1>3. row.status = old.status /\ row.approval = old.approval /\ row.tool = tool
  BY <1>2 DEF ActionRows
<1>4. rows' = [rows EXCEPT ![r] = row]
  BY <1>1, <1>2, World DEF Withdraw
<1>5. row.tool # "guarded" /\ old.tool # "guarded"
  BY <1>1, <1>3 DEF Withdraw
<1> QED BY <1>1, <1>3, <1>4, <1>5, RowChanges DEF Withdraw

LEMMA ChildExitsKeeps == ASSUME Inv, NEW k, NEW how, ChildExits(k, how) PROVE Inv'
<1>1. how \in Children /\ how # "alive"
  BY DEF ChildExits, Exited, Children
<1>2. PICK old \in Runs : old = runs[k] /\ old.child = "alive" /\ k \in DOMAIN runs
  BY DEF ChildExits, Inv, TypeOK
<1>3. "open" \in Ends \cup {"open", "deleted"}
  OBVIOUS
<1>4. PICK run \in Runs : run = [old EXCEPT !.child = how]
  BY <1>1, <1>3, RunEdited
<1>5. SameRun(old, run)
  BY <1>1, <1>2, <1>3, <1>4, RunEdited DEF SameRun
<1>6. runs' = [runs EXCEPT ![k] = run] /\ UNCHANGED <<rows, call, approvals, started, mishaps>>
  BY <1>2, <1>4 DEF ChildExits, Inv, TypeOK
<1>7. /\ runs' \in Seq(Runs) /\ Len(runs') = Len(runs)
      /\ \A j \in 1..Len(runs) : runs'[j] = IF j = k THEN run ELSE runs[j]
  BY <1>2, <1>6 DEF Inv, TypeOK
<1>8. RunsGoOn(0)
  BY <1>2, <1>5, <1>7, DomainOfRuns DEF RunsGoOn, SameRun, Inv
<1>9. rows' \in [Rows -> ActionRows] /\ RowsGoOn
  BY <1>6, World, RowsAlone
<1> QED BY <1>6, <1>7, <1>8, <1>9, NobodyMoves

\* One transaction deletes a row with what was recorded for it.
LEMMA PruneKeeps == ASSUME Inv, NEW r \in Rows, Prune(r) PROVE Inv'
<1>1. /\ rows' = [rows EXCEPT ![r].status = "pruned"] /\ Exists(r)
      /\ UNCHANGED <<call, approvals, started>>
      /\ mishaps \subseteq mishaps' /\ mishaps' \subseteq {"crash", "fault", "prune", "overlap"}
      /\ (\E q \in Procs : Active(q, r)) => "overlap" \in mishaps'
      /\ "fault" \notin mishaps' => "fault" \notin mishaps
      /\ "overlap" \notin mishaps' => "overlap" \notin mishaps
  BY DEF Prune, Inv, TypeOK
<1>2. "pruned" \in Statuses
  BY DEF Statuses
<1>3. ASSUME NEW a \in Rows
      PROVE  /\ rows'[a] \in ActionRows
             /\ rows'[a].approval = rows[a].approval /\ rows'[a].tool = rows[a].tool
             /\ rows'[a].status = IF a = r THEN "pruned" ELSE rows[a].status
  <2>1. CASE a = r
    <3>1. rows'[a] = [rows[r] EXCEPT !.status = "pruned"] /\ rows[r] \in ActionRows
      BY <1>1, <2>1, World
    <3> QED BY <1>2, <2>1, <3>1 DEF ActionRows
  <2>2. CASE a # r
    BY <1>1, <2>2, World
  <2> QED BY <2>1, <2>2
<1>4. rows' \in [Rows -> ActionRows] /\ RowsVouched'
  <2>1. rows' \in [Rows -> ActionRows]
    <3>1. DOMAIN rows' = Rows /\ rows' = [a \in Rows |-> rows'[a]]
      BY <1>1, World
    <3> QED BY <1>3, <3>1
  <2> QED BY <1>1, <1>3, <2>1, World DEF RowsVouched
<1> DEFINE Deleted(run) == [run EXCEPT !.events = << >>,
                                     !.status = IF @ = "open" THEN "open" ELSE "deleted"]
<1>5. ASSUME NEW run \in Runs
      PROVE  /\ Deleted(run) \in Runs /\ Deleted(run).row = run.row
             /\ Deleted(run).child = run.child /\ Deleted(run).events = << >>
             /\ Deleted(run).status = IF run.status = "open" THEN "open" ELSE "deleted"
  <2>1. << >> \in Seq([sequence: Nat, type: Types])
    OBVIOUS
  <2> QED BY <2>1 DEF Runs
<1>6. runs' = [k \in DOMAIN runs |-> IF runs[k].row # r THEN runs[k] ELSE Deleted(runs[k])]
  BY DEF Prune
<1> HIDE DEF Deleted
<1>7. DOMAIN runs = 1..Len(runs) /\ Len(runs) \in Nat /\ \A k \in 1..Len(runs) : runs[k] \in Runs
  BY World, DomainOfRuns DEF Inv
<1>8. \A k \in 1..Len(runs) :
        runs'[k] = IF runs[k].row # r THEN runs[k] ELSE Deleted(runs[k])
  BY <1>6, <1>7
<1>9. runs' \in Seq(Runs) /\ Len(runs') = Len(runs) /\ DOMAIN runs' = 1..Len(runs)
  <2>1. runs' \in [1..Len(runs) -> Runs]
    BY <1>5, <1>6, <1>7
  <2> QED BY <1>7, <2>1, SeqDef
<1>10. TypeOK'
  BY <1>1, <1>4, <1>9 DEF Inv, TypeOK
<1>11. ASSUME NEW q \in Procs PROVE Fits(call[q])'
  <2>1. PICK c \in Calls : c = call[q]
    BY Here
  <2>2. Fits(c) /\ call'[q] = c
    BY <1>1, <2>1, Here
  <2>3. c.at # "idle" => c.row \in Rows /\ approvals[c.row] \in Nat
    BY <2>2, World DEF Fits, RowFits
  <2>4. c.at # "idle" /\ "overlap" \notin mishaps' => c.row # r
    BY <1>1, <2>1 DEF Active
  <2>5. RowFits(c)'
    BY <1>1, <1>3, <2>2, <2>3, <2>4 DEF Fits, RowFits, Pruned, Guarded, Exists
  <2>6. ShapeFits(c)'
    BY <1>9, <2>2 DEF Fits, ShapeFits
  <2>7. ASSUME c.run # 0 PROVE RunFits(c, runs[c.run])'
    <3>1. c.run \in 1..Len(runs) /\ RunFits(c, runs[c.run])
      BY <1>7, <2>2, <2>7 DEF Fits, ShapeFits
    <3>2. runs[c.run] \in Runs /\ runs[c.run].row = c.row /\ c.row \in Rows
      BY <1>7, <3>1, RunParts DEF RunFits
    <3>3. CASE c.row # r
      <4>1. runs'[c.run] = runs[c.run] /\ rows'[c.row].status = rows[c.row].status
        BY <1>3, <1>8, <3>1, <3>2, <3>3
      <4> QED BY <1>1, <3>1, <4>1 DEF RunFits, Pruned
    <3>4. CASE c.row = r
      <4>1. /\ runs'[c.run].row = c.row /\ runs'[c.run].child = runs[c.run].child
            /\ runs[c.run].status = "open" => runs'[c.run].status = "open"
        BY <1>5, <1>8, <3>1, <3>2, <3>4
      <4>2. Pruned(c.row)'
        BY <1>3, <3>4 DEF Pruned
      <4> QED BY <1>1, <3>1, <4>1, <4>2 DEF RunFits
    <3> QED BY <3>3, <3>4
  <2>8. Fits(c)'
    BY <2>5, <2>6, <2>7 DEF Fits
  <2> QED BY <2>2, <2>8
<1>12. ASSUME NEW k \in 1..Len(runs) PROVE Readable(runs[k])'
  <2>1. Readable(runs[k]) /\ runs[k] \in Runs /\ runs[k].row \in Rows
    BY <1>7, RunParts DEF Inv
  <2>2. CASE runs[k].row # r
    <3>1. runs'[k] = runs[k] /\ rows'[runs[k].row].status = rows[runs[k].row].status
      BY <1>3, <1>8, <2>1, <2>2
    <3> QED BY <1>1, <2>1, <3>1 DEF Readable, Pruned
  <2>3. CASE runs[k].row = r
    <3>1. /\ runs'[k].events = << >> /\ runs'[k].status \notin Ends
      BY <1>5, <1>8, <2>1, <2>3 DEF Ends
    <3>2. DOMAIN runs'[k].events = {}
      BY <3>1
    <3> QED BY <3>1, <3>2 DEF Readable
  <2> QED BY <2>2, <2>3
<1> QED BY <1>1, <1>4, <1>9, <1>10, <1>11, <1>12 DEF Inv, Exclusive

LEMMA NextKeeps == Inv /\ [Next]_vars => Inv'
<1> SUFFICES ASSUME Inv, [Next]_vars PROVE Inv'
  OBVIOUS
<1>1. CASE \E p \in Procs : Step(p)
  BY <1>1, StepKeeps
<1>2. CASE Environment
  <2>1. {"dispatch", "cancel", "approved", "rejected"} \subseteq Ops
    BY DEF Ops, Decisions
  <2>2. ASSUME NEW p \in Procs, NEW r \in Rows, StartSafe(p, r) PROVE Inv'
    BY <2>1, <2>2, StartKeeps DEF StartSafe
  <2> QED
    BY <1>2, <2>1, <2>2, ProposeKeeps, WithdrawKeeps, ElapseKeeps, PruneKeeps, StartKeeps,
       ChildExitsKeeps, PrintKeeps, CrashKeeps, FaultKeeps DEF Environment
<1>3. CASE UNCHANGED vars
  <2>1. rows' \in [Rows -> ActionRows] /\ RowsGoOn
    BY <1>3, World, RowsAlone DEF vars
  <2> QED BY <1>3, <2>1, RunsAlone, NobodyMoves DEF vars
<1> QED BY <1>1, <1>2, <1>3 DEF Next

LEMMA InitHolds == Init => Inv
<1> SUFFICES ASSUME Init PROVE Inv
  OBVIOUS
<1>1. TypeOK
  <2>1. [status |-> "absent", approval |-> FALSE, tool |-> "free", due |-> FALSE] \in ActionRows
    BY RunsAssumption DEF ActionRows, Statuses
  <2> QED BY <2>1, IdleType DEF Init, TypeOK
<1>2. \A p \in Procs : call[p] = Idle
  BY DEF Init
<1>3. \A p \in Procs : Fits(call[p])
  BY <1>1, <1>2, IdleFits
<1>4. Exclusive
  BY <1>2, IdleParts DEF Exclusive
<1>5. RowsVouched
  BY DEF Init, RowsVouched
<1> QED BY <1>1, <1>3, <1>4, <1>5 DEF Inv, Init

-----------------------------------------------------------------------------
(* Where the steps leave a call, field by field.                             *)

\* The call goes to another place, about the same row.
Goes(p, at, run, emit, outcome) ==
  /\ call' = [call EXCEPT ![p] = call'[p]]
  /\ call'[p].at = at /\ call'[p].row = call[p].row /\ call'[p].run = run
  /\ call'[p].emit = emit /\ call'[p].outcome = outcome

\* Where each step of dispatch_action leaves its call.
LEMMA Goings ==
  ASSUME Inv, NEW p \in Procs
  PROVE  LET c == call[p] IN
         /\ WriteExpired(p) => Goes(p, "reread", c.run, c.emit, c.outcome)
         /\ Reread(p) => Goes(p, "gate", c.run, c.emit, c.outcome)
         /\ MarkBlocked(p) => Goes(p, "check", c.run, c.emit, c.outcome)
         /\ Refuse(p) => Goes(p, "check", c.run, c.emit, "blocked")
         /\ Block(p) => Goes(p, "mark", c.run, c.emit, "blocked")
         /\ SpawnFails(p) => Goes(p, "finish", c.run, c.emit, "failed")
         /\ Drain(p) => \E emit \in {<< >>, <<"stdout">>} :
                          Goes(p, c.at, c.run, emit, c.outcome)
         /\ PrintLine(p) => Goes(p, c.at, c.run, c.emit, c.outcome)
         /\ Poll(p) => Goes(p, "drain", c.run, c.emit, c.outcome)
         /\ PollAgain(p) => Goes(p, "wait", c.run, c.emit, c.outcome)
         /\ SeeExit(p) => Goes(p, "finish", c.run, c.emit, StatusOf(ChildOf(p)))
         /\ Timeout(p) => Goes(p, "finish", c.run, c.emit, "failed")
         /\ WriteEnd(p) => Goes(p, "check", c.run, c.emit, c.outcome)
         /\ Spawn(p) => Goes(p, "wait", c.run, c.emit, c.outcome)
         /\ SetRunning(p) => Goes(p, "spawn", c.run, <<"running">>, c.outcome)
         /\ Queue(p) => Goes(p, "start", Len(runs) + 1, <<"queued">>, c.outcome)
         /\ NumberEvent(p) => Goes(p, c.at, c.run, c.emit, c.outcome)
<1>1. call \in [Procs -> Calls] /\ call[p] \in Calls
  BY DEF Inv, TypeOK
<1>2. ASSUME NEW d, Become(p, d) PROVE call' = [call EXCEPT ![p] = call'[p]] /\ call'[p] = d
  BY <1>1, <1>2 DEF Become
<1>3. ASSUME NEW at, Go(p, at) PROVE Goes(p, at, call[p].run, call[p].emit, call[p].outcome)
  <2> DEFINE next == [call[p] EXCEPT !.at = at]
  <2>1. /\ next.at = at /\ next.row = call[p].row /\ next.run = call[p].run
        /\ next.emit = call[p].emit /\ next.outcome = call[p].outcome
    BY <1>1 DEF Calls
  <2>2. Become(p, next)
    BY <1>3 DEF Go
  <2> HIDE DEF next
  <2> QED BY <1>2, <2>1, <2>2 DEF Goes
<1>4. ASSUME NEW at, NEW seen, NEW outcome,
             Become(p, [call[p] EXCEPT !.at = at, !.seen = seen, !.outcome = outcome])
      PROVE  Goes(p, at, call[p].run, call[p].emit, outcome)
  <2> DEFINE next == [call[p] EXCEPT !.at = at, !.seen = seen, !.outcome = outcome]
  <2>1. /\ next.at = at /\ next.row = call[p].row /\ next.run = call[p].run
        /\ next.emit = call[p].emit /\ next.outcome = outcome
    BY <1>1 DEF Calls
  <2>2. Become(p, next)
    BY <1>4
  <2> HIDE DEF next
  <2> QED BY <1>2, <2>1, <2>2 DEF Goes
<1>5. ASSUME NEW at, NEW outcome, Become(p, [call[p] EXCEPT !.at = at, !.outcome = outcome])
      PROVE  Goes(p, at, call[p].run, call[p].emit, outcome)
  <2> DEFINE next == [call[p] EXCEPT !.at = at, !.outcome = outcome]
  <2>1. /\ next.at = at /\ next.row = call[p].row /\ next.run = call[p].run
        /\ next.emit = call[p].emit /\ next.outcome = outcome
    BY <1>1 DEF Calls
  <2>2. Become(p, next)
    BY <1>5
  <2> HIDE DEF next
  <2> QED BY <1>2, <2>1, <2>2 DEF Goes
<1>6. /\ WriteExpired(p) => Goes(p, "reread", call[p].run, call[p].emit, call[p].outcome)
      /\ MarkBlocked(p) => Goes(p, "check", call[p].run, call[p].emit, call[p].outcome)
      /\ WriteEnd(p) => Goes(p, "check", call[p].run, call[p].emit, call[p].outcome)
      /\ Spawn(p) => Goes(p, "wait", call[p].run, call[p].emit, call[p].outcome)
      /\ Poll(p) => Goes(p, "drain", call[p].run, call[p].emit, call[p].outcome)
      /\ PollAgain(p) => Goes(p, "wait", call[p].run, call[p].emit, call[p].outcome)
  BY <1>3 DEF WriteExpired, MarkBlocked, WriteEnd, Spawn, Poll, PollAgain
<1>7. /\ Refuse(p) => Goes(p, "check", call[p].run, call[p].emit, "blocked")
      /\ Block(p) => Goes(p, "mark", call[p].run, call[p].emit, "blocked")
  BY <1>4 DEF Refuse, Block
<1>8. /\ SeeExit(p) => Goes(p, "finish", call[p].run, call[p].emit, StatusOf(ChildOf(p)))
      /\ Timeout(p) => Goes(p, "finish", call[p].run, call[p].emit, "failed")
  BY <1>5 DEF SeeExit, Timeout
<1>9. ASSUME Reread(p)
      PROVE  Goes(p, "gate", call[p].run, call[p].emit, call[p].outcome)
  <2> DEFINE seen == IF Exists(call[p].row) THEN rows[call[p].row].status ELSE call[p].seen
             next == [call[p] EXCEPT !.at = "gate", !.seen = seen]
  <2>1. Become(p, next)
    BY <1>9 DEF Reread
  <2> HIDE DEF seen
  <2>2. /\ next.at = "gate" /\ next.row = call[p].row /\ next.run = call[p].run
        /\ next.emit = call[p].emit /\ next.outcome = call[p].outcome
    BY <1>1 DEF Calls
  <2> HIDE DEF next
  <2> QED BY <1>2, <2>1, <2>2 DEF Goes
<1>10. ASSUME SpawnFails(p)
       PROVE  Goes(p, "finish", call[p].run, call[p].emit, "failed")
  <2> DEFINE next == [call[p] EXCEPT !.at = "finish", !.outcome = "failed", !.caught = TRUE]
  <2>1. Become(p, next)
    BY <1>10 DEF SpawnFails
  <2>2. /\ next.at = "finish" /\ next.row = call[p].row /\ next.run = call[p].run
        /\ next.emit = call[p].emit /\ next.outcome = "failed"
    BY <1>1 DEF Calls
  <2> HIDE DEF next
  <2> QED BY <1>2, <2>1, <2>2 DEF Goes
<1>11. ASSUME Drain(p)
       PROVE  \E emit \in {<< >>, <<"stdout">>} :
                Goes(p, call[p].at, call[p].run, emit, call[p].outcome)
  <2>1. PICK emit \in {<< >>, <<"stdout">>} :
          Become(p, [call[p] EXCEPT !.lines = @ - 1, !.emit = emit])
    BY <1>11 DEF Drain
  <2> DEFINE next == [call[p] EXCEPT !.lines = @ - 1, !.emit = emit]
  <2>2. /\ next.at = call[p].at /\ next.row = call[p].row /\ next.run = call[p].run
        /\ next.emit = emit /\ next.outcome = call[p].outcome
    BY <1>1 DEF Calls
  <2>3. Become(p, next)
    BY <2>1
  <2> HIDE DEF next
  <2> QED BY <1>2, <2>2, <2>3 DEF Goes
<1>15. ASSUME PrintLine(p)
       PROVE  Goes(p, call[p].at, call[p].run, call[p].emit, call[p].outcome)
  <2> DEFINE next == [call[p] EXCEPT !.lines = @ + 1]
  <2>1. Become(p, next)
    BY <1>15 DEF PrintLine
  <2>2. /\ next.at = call[p].at /\ next.row = call[p].row /\ next.run = call[p].run
        /\ next.emit = call[p].emit /\ next.outcome = call[p].outcome
    BY <1>1 DEF Calls
  <2> HIDE DEF next
  <2> QED BY <1>2, <2>1, <2>2 DEF Goes
<1>12. ASSUME SetRunning(p)
       PROVE  Goes(p, "spawn", call[p].run, <<"running">>, call[p].outcome)
  <2> DEFINE next == [call[p] EXCEPT !.at = "spawn", !.emit = <<"running">>]
  <2>1. Become(p, next)
    BY <1>12 DEF SetRunning
  <2>2. /\ next.at = "spawn" /\ next.row = call[p].row /\ next.run = call[p].run
        /\ next.emit = <<"running">> /\ next.outcome = call[p].outcome
    BY <1>1 DEF Calls
  <2> HIDE DEF next
  <2> QED BY <1>2, <2>1, <2>2 DEF Goes
<1>13. ASSUME Queue(p)
       PROVE  Goes(p, "start", Len(runs) + 1, <<"queued">>, call[p].outcome)
  <2> DEFINE next == [call[p] EXCEPT !.at = "start", !.seen = "absent",
                                    !.run = Len(runs) + 1, !.emit = <<"queued">>]
  <2>1. Become(p, next)
    BY <1>13 DEF Queue
  <2>2. /\ next.at = "start" /\ next.row = call[p].row /\ next.run = Len(runs) + 1
        /\ next.emit = <<"queued">> /\ next.outcome = call[p].outcome
    BY <1>1 DEF Calls
  <2> HIDE DEF next
  <2> QED BY <1>2, <2>1, <2>2 DEF Goes
<1>14. ASSUME NumberEvent(p)
       PROVE  Goes(p, call[p].at, call[p].run, call[p].emit, call[p].outcome)
  <2> DEFINE n    == Len(runs[call[p].run].events) + 1
             next == [call[p] EXCEPT !.next = n]
  <2>1. Become(p, next)
    BY <1>14 DEF NumberEvent
  <2> HIDE DEF n
  <2>2. /\ next.at = call[p].at /\ next.row = call[p].row /\ next.run = call[p].run
        /\ next.emit = call[p].emit /\ next.outcome = call[p].outcome
    BY <1>1 DEF Calls
  <2> HIDE DEF next
  <2> QED BY <1>2, <2>1, <2>2 DEF Goes
<1> QED
  BY <1>6, <1>7, <1>8, <1>9, <1>10, <1>11, <1>12, <1>13, <1>14, <1>15

\* The steps that are over in one of two ways.
LEMMA GoesOrReturns ==
  ASSUME Inv, NEW p \in Procs
  PROVE  LET c == call[p] IN
         /\ FindRow(p) /\ ~Return(p) => Goes(p, "insert", c.run, c.emit, c.outcome)
         /\ InsertEvent(p) /\ ~Return(p) => Goes(p, c.at, c.run, Tail(c.emit), c.outcome)
         /\ InsertRun(p) /\ c.run = 0 =>
              Goes(p, "return", Len(runs) + 1, <<"stderr", "blocked">>, c.outcome)
         /\ InsertRun(p) /\ c.run # 0 /\ ~Return(p) =>
              Goes(p, "return", c.run, <<c.outcome>>, c.outcome)
         /\ Fault(p) /\ ~Return(p) => Goes(p, "finish", c.run, << >>, "failed")
<1>1. call \in [Procs -> Calls] /\ call[p] \in Calls
  BY DEF Inv, TypeOK
<1>2. ASSUME NEW d, Become(p, d) PROVE call' = [call EXCEPT ![p] = call'[p]] /\ call'[p] = d
  BY <1>1, <1>2 DEF Become
<1>3. ASSUME FindRow(p), ~Return(p)
      PROVE  Goes(p, "insert", call[p].run, call[p].emit, call[p].outcome)
  <2> DEFINE next == [call[p] EXCEPT !.at = "insert"]
  <2>1. Become(p, next)
    BY <1>3 DEF FindRow, Go
  <2>2. /\ next.at = "insert" /\ next.row = call[p].row /\ next.run = call[p].run
        /\ next.emit = call[p].emit /\ next.outcome = call[p].outcome
    BY <1>1 DEF Calls
  <2> HIDE DEF next
  <2> QED BY <1>2, <2>1, <2>2 DEF Goes
<1>4. ASSUME InsertEvent(p), ~Return(p)
      PROVE  Goes(p, call[p].at, call[p].run, Tail(call[p].emit), call[p].outcome)
  <2> DEFINE next == [call[p] EXCEPT !.emit = Tail(@), !.next = 0]
  <2>1. Become(p, next)
    BY <1>4 DEF InsertEvent
  <2>2. /\ next.at = call[p].at /\ next.row = call[p].row /\ next.run = call[p].run
        /\ next.emit = Tail(call[p].emit) /\ next.outcome = call[p].outcome
    BY <1>1 DEF Calls
  <2> HIDE DEF next
  <2> QED BY <1>2, <2>1, <2>2 DEF Goes
<1>5. ASSUME InsertRun(p), call[p].run = 0
      PROVE  Goes(p, "return", Len(runs) + 1, <<"stderr", "blocked">>, call[p].outcome)
  <2> DEFINE next == [call[p] EXCEPT !.at = "return", !.run = Len(runs) + 1,
                                    !.emit = <<"stderr", "blocked">>]
  <2>1. Become(p, next)
    BY <1>5 DEF InsertRun
  <2>2. /\ next.at = "return" /\ next.row = call[p].row /\ next.run = Len(runs) + 1
        /\ next.emit = <<"stderr", "blocked">> /\ next.outcome = call[p].outcome
    BY <1>1 DEF Calls
  <2> HIDE DEF next
  <2> QED BY <1>2, <2>1, <2>2 DEF Goes
<1>6. ASSUME InsertRun(p), call[p].run # 0, ~Return(p)
      PROVE  Goes(p, "return", call[p].run, <<call[p].outcome>>, call[p].outcome)
  <2> DEFINE next == [call[p] EXCEPT !.at = "return", !.emit = <<call[p].outcome>>]
  <2>1. Become(p, next)
    BY <1>6 DEF InsertRun
  <2>2. /\ next.at = "return" /\ next.row = call[p].row /\ next.run = call[p].run
        /\ next.emit = <<call[p].outcome>> /\ next.outcome = call[p].outcome
    BY <1>1 DEF Calls
  <2> HIDE DEF next
  <2> QED BY <1>2, <2>1, <2>2 DEF Goes
<1>7. ASSUME Fault(p), ~Return(p) PROVE Goes(p, "finish", call[p].run, << >>, "failed")
  <2> DEFINE next == [call[p] EXCEPT !.at = "finish", !.outcome = "failed",
                                    !.emit = << >>, !.next = 0, !.caught = TRUE,
                                  !.lines = 0]
  <2>1. Become(p, next)
    BY <1>7 DEF Fault
  <2>2. /\ next.at = "finish" /\ next.row = call[p].row /\ next.run = call[p].run
        /\ next.emit = << >> /\ next.outcome = "failed"
    BY <1>1 DEF Calls
  <2> HIDE DEF next
  <2> QED BY <1>2, <2>1, <2>2 DEF Goes
<1> QED BY <1>3, <1>4, <1>5, <1>6, <1>7

-----------------------------------------------------------------------------
(* What an approval pays for.                                                *)

Count(r) == Cardinality({i \in DOMAIN started : started[i] = r})

\* As long as no two calls overlap on a row: an approved row has an approval that paid
\* for no command yet, and a call between the gate and Popen holds it.
PaidFor(c) ==
  /\ c.at = "gate" /\ c.seen = "approved" => rows[c.row].status = "approved"
  /\ c.at = "start" /\ Guarded(c.row) => rows[c.row].status = "approved"
  /\ c.at = "spawn" /\ Guarded(c.row) =>
       rows[c.row].status # "approved" /\ Count(c.row) < approvals[c.row]

RowPaid(r) ==
  /\ Count(r) <= approvals[r]
  /\ rows[r].status = "approved" => Count(r) < approvals[r]

Paid ==
  "overlap" \notin mishaps =>
    /\ \A p, q \in Procs :
         p # q /\ call[p].at # "idle" /\ call[q].at # "idle" => call[p].row # call[q].row
    /\ \A r \in Rows : RowPaid(r)
    /\ \A p \in Procs : PaidFor(call[p])

LEMMA CountType ==
  ASSUME started \in Seq(Rows), NEW r
  PROVE  /\ IsFiniteSet({i \in DOMAIN started : started[i] = r})
         /\ Count(r) \in Nat
<1>1. DOMAIN started = 1..Len(started) /\ Len(started) \in Nat
  OBVIOUS
<1>2. IsFiniteSet(1..Len(started))
  BY <1>1, FS_Interval
<1>3. {i \in DOMAIN started : started[i] = r} \subseteq 1..Len(started)
  BY <1>1
<1>4. IsFiniteSet({i \in DOMAIN started : started[i] = r})
  BY <1>2, <1>3, FS_Subset
<1> QED BY <1>4, FS_CardinalityType DEF Count

LEMMA CountAppended ==
  ASSUME started \in Seq(Rows), NEW a \in Rows, started' = Append(started, a), NEW r \in Rows
  PROVE  Count(r)' = IF r = a THEN Count(r) + 1 ELSE Count(r)
<1> DEFINE old == {i \in DOMAIN started : started[i] = r}
           new == {i \in DOMAIN started' : started'[i] = r}
           n   == Len(started) + 1
<1>1. /\ DOMAIN started = 1..Len(started) /\ Len(started) \in Nat
      /\ DOMAIN started' = 1..n /\ started'[n] = a
      /\ \A i \in 1..Len(started) : started'[i] = started[i]
  OBVIOUS
<1>2. CASE r = a
  <2>1. new = old \cup {n} /\ n \notin old
    BY <1>1, <1>2
  <2>2. IsFiniteSet(old)
    BY CountType
  <2> HIDE DEF old, new
  <2>3. Cardinality(new) = Cardinality(old) + 1
    <3>1. Cardinality(old) \in Nat
      BY <2>2, FS_CardinalityType
    <3> QED BY <2>1, <2>2, <3>1, FS_AddElement
  <2> QED BY <1>2, <2>3 DEF Count, old, new
<1>3. CASE r # a
  <2>1. new = old
    BY <1>1, <1>3
  <2> QED BY <1>3, <2>1 DEF Count
<1> QED BY <1>2, <1>3

\* A step of p about the row r: the other rows are left alone, and the calls of the
\* other processes are about them.
LEMMA PaidGoesOn ==
  ASSUME Inv, Paid, NEW p \in Procs, NEW r, NEW d \in Calls, Become(p, d),
         "overlap" \notin mishaps, "overlap" \notin mishaps',
         \A q \in Procs \ {p} : call[q].at # "idle" => call[q].row # r,
         d.at # "idle" => d.row = r,
         \A a \in Rows : a # r =>
           /\ rows'[a].status = rows[a].status /\ (Guarded(a)' <=> Guarded(a))
           /\ approvals'[a] = approvals[a] /\ Count(a)' = Count(a),
         r \in Rows => RowPaid(r)',
         PaidFor(d)'
  PROVE  Paid'
<1>1. call' = [call EXCEPT ![p] = d] /\ call \in [Procs -> Calls]
  BY DEF Become, Inv, TypeOK
<1>2. call'[p] = d /\ \A q \in Procs \ {p} : call'[q] = call[q]
  BY <1>1
<1>3. \A q, s \in Procs :
        q # s /\ call'[q].at # "idle" /\ call'[s].at # "idle" => call'[q].row # call'[s].row
  BY <1>2 DEF Paid
<1>4. ASSUME NEW a \in Rows PROVE RowPaid(a)'
  BY DEF Paid, RowPaid
<1>5. ASSUME NEW q \in Procs PROVE PaidFor(call[q])'
  <2>1. CASE q = p
    BY <1>2, <2>1 DEF PaidFor, Guarded, Count
  <2>2. CASE q # p
    <3>1. PICK c \in Calls : c = call[q]
      BY <1>1
    <3>2. c.at # "idle" => c.row \in Rows /\ c.row # r
      BY <2>2, <3>1, Here DEF Fits, RowFits
    <3>3. PaidFor(c)
      BY <3>1 DEF Paid
    <3>4. PaidFor(c)'
      BY <3>2, <3>3 DEF PaidFor
    <3> QED BY <1>2, <2>2, <3>1, <3>4
  <2> QED BY <2>1, <2>2
<1> QED BY <1>3, <1>4, <1>5 DEF Paid

\* The step of a call about its own row, which it may write, that starts nothing and
\* approves nothing.
LEMMA PaidStep ==
  ASSUME Inv, Paid, NEW p \in Procs, NEW d \in Calls, Become(p, d), call[p].at # "idle",
         "overlap" \notin mishaps', mishaps \subseteq mishaps',
         UNCHANGED <<approvals, started>>,
         \/ UNCHANGED rows
         \/ \E s \in Statuses \ {"approved"} : SetStatus(call[p].row, s),
         d.at # "idle" => d.row = call[p].row,
         PaidFor(d)'
  PROVE  Paid'
<1>1. PICK r \in Rows : r = call[p].row
  BY Here DEF Fits, RowFits
<1>2. "overlap" \notin mishaps
  OBVIOUS
<1>3. \A q \in Procs \ {p} : call[q].at # "idle" => call[q].row # r
  BY <1>1, <1>2 DEF Paid
<1>4. RowPaid(r) /\ \A a : Count(a)' = Count(a)
  BY <1>2 DEF Paid, Count
<1>d. d.at # "idle" => d.row = r
  BY <1>1
<1>5. CASE UNCHANGED rows
  <2>1. \A a \in Rows : rows'[a].status = rows[a].status /\ (Guarded(a)' <=> Guarded(a))
    BY <1>5 DEF Guarded
  <2>2. RowPaid(r)'
    BY <1>4, <1>5 DEF RowPaid
  <2> QED BY <1>2, <1>3, <1>4, <1>5, <1>d, <2>1, <2>2, PaidGoesOn
<1>6. ASSUME NEW s \in Statuses \ {"approved"}, SetStatus(r, s) PROVE Paid'
  <2>1. rows' = rows \/ rows' = [rows EXCEPT ![r].status = s]
    BY <1>6 DEF SetStatus
  <2>2. rows' # rows => rows'[r].status = s
    <3>1. rows' # rows => rows'[r] = [rows[r] EXCEPT !.status = s]
      BY <2>1, World
    <3> QED BY <3>1, World DEF ActionRows
  <2>3. \A a \in Rows : a # r => rows'[a] = rows[a]
    BY <2>1, World
  <2>4. RowPaid(r)'
    BY <1>4, <2>2 DEF RowPaid
  <2>5. \A a \in Rows : a # r =>
          rows'[a].status = rows[a].status /\ (Guarded(a)' <=> Guarded(a))
    BY <2>3 DEF Guarded
  <2> QED BY <1>2, <1>3, <1>4, <1>d, <2>4, <2>5, PaidGoesOn
<1> QED BY <1>1, <1>5, <1>6

LEMMA PaidReturn ==
  ASSUME Inv, Paid, NEW p \in Procs, Return(p), call[p].at # "idle",
         "overlap" \notin mishaps', mishaps \subseteq mishaps',
         UNCHANGED <<rows, approvals, started>>
  PROVE  Paid'
<1>1. PICK d \in Calls : d = Idle
  BY IdleType
<1>2. Become(p, d) /\ d.at = "idle" /\ PaidFor(d)'
  BY <1>1, IdleParts DEF Return, PaidFor
<1> QED BY <1>2, PaidStep

\* A step to a place where nothing is held.
LEMMA PaidAway ==
  ASSUME Inv, Inv', Paid, NEW p \in Procs, call[p].at # "idle",
         call' = [call EXCEPT ![p] = call'[p]],
         call'[p].at \notin {"gate", "start", "spawn"},
         call'[p].at # "idle" => call'[p].row = call[p].row,
         "overlap" \notin mishaps', mishaps \subseteq mishaps',
         UNCHANGED <<approvals, started>>,
         \/ UNCHANGED rows
         \/ \E s \in Statuses \ {"approved"} : SetStatus(call[p].row, s)
  PROVE  Paid'
<1>1. PICK d \in Calls : d = call'[p]
  BY DEF Inv, TypeOK
<1>2. Become(p, d) /\ d.at \notin {"gate", "start", "spawn"}
      /\ (d.at # "idle" => d.row = call[p].row)
  BY <1>1 DEF Become
<1>3. PaidFor(d)'
  BY <1>2 DEF PaidFor
<1> QED BY <1>2, <1>3, PaidStep

\* The call goes to the given place and keeps its row.
Moved(p, places) ==
  /\ call' = [call EXCEPT ![p] = call'[p]]
  /\ call'[p].at \in places
  /\ call'[p].row = call[p].row

LEMMA MovedOn ==
  ASSUME Inv, NEW p \in Procs
  PROVE  /\ WriteExpired(p) => Moved(p, {"reread"})
         /\ MarkBlocked(p) => Moved(p, {"check"})
         /\ Refuse(p) => Moved(p, {"check"})
         /\ Block(p) => Moved(p, {"mark"})
         /\ SpawnFails(p) => Moved(p, {"finish"})
         /\ Drain(p) \/ PrintLine(p) => Moved(p, {call[p].at})
         /\ Poll(p) => Moved(p, {"drain"})
         /\ PollAgain(p) => Moved(p, {"wait"})
         /\ SeeExit(p) => Moved(p, {"finish"})
         /\ Timeout(p) => Moved(p, {"finish"})
         /\ WriteEnd(p) => Moved(p, {"check"})
         /\ Spawn(p) => Moved(p, {"wait"})
         /\ SetRunning(p) => Moved(p, {"spawn"})
         /\ Queue(p) => Moved(p, {"start"})
BY Goings DEF Goes, Moved

LEMMA PaidMoved ==
  ASSUME Inv, Inv', Paid, NEW p \in Procs, call[p].at # "idle",
         Moved(p, {"reread", "mark", "wait", "drain", "finish", "check", "insert", "return"}),
         "overlap" \notin mishaps', mishaps \subseteq mishaps',
         UNCHANGED <<approvals, started>>,
         \/ UNCHANGED rows
         \/ \E s \in Statuses \ {"approved"} : SetStatus(call[p].row, s)
  PROVE  Paid'
BY PaidAway DEF Moved

\* Recording an event changes neither where a call is nor what it has seen.
LEMMA PaidRecord ==
  ASSUME Inv, Inv', Paid, NEW p \in Procs, NumberEvent(p) \/ InsertEvent(p),
         "overlap" \notin mishaps'
  PROVE  Paid'
<1>1. UNCHANGED <<rows, approvals, started, mishaps>> /\ call[p].emit # << >>
  BY DEF NumberEvent, InsertEvent
<1>2. call[p].at # "idle"
  BY <1>1, Here, IdleParts DEF Fits, RowFits
<1>3. CASE Return(p)
  BY <1>1, <1>2, <1>3, Here, PaidReturn
<1>4. CASE ~Return(p)
  <2>1. PICK c \in Calls : c = call[p]
    BY Here
  <2>2. /\ call' = [call EXCEPT ![p] = call'[p]] /\ call'[p].at = c.at
        /\ call'[p].row = c.row /\ call'[p].seen = c.seen
    <3>1. call \in [Procs -> Calls]
      BY DEF Inv, TypeOK
    <3>2. ASSUME NEW e, Become(p, e), e.at = c.at, e.row = c.row, e.seen = c.seen
          PROVE  /\ call' = [call EXCEPT ![p] = call'[p]] /\ call'[p].at = c.at
                 /\ call'[p].row = c.row /\ call'[p].seen = c.seen
      BY <3>1, <3>2 DEF Become
    <3> DEFINE numbered == [c EXCEPT !.next = Len(runs[c.run].events) + 1]
               inserted == [c EXCEPT !.emit = Tail(@), !.next = 0]
    <3>3. /\ numbered.at = c.at /\ numbered.row = c.row /\ numbered.seen = c.seen
          /\ inserted.at = c.at /\ inserted.row = c.row /\ inserted.seen = c.seen
      BY DEF Calls
    <3>4. Become(p, numbered) \/ Become(p, inserted)
      BY <1>4, <2>1 DEF NumberEvent, InsertEvent
    <3> HIDE DEF numbered, inserted
    <3> QED BY <3>2, <3>3, <3>4
  <2>3. PICK d \in Calls : d = call'[p]
    BY DEF Inv, TypeOK
  <2>4. PaidFor(c)
    BY <1>1, <2>1 DEF Paid
  <2>5. PaidFor(d)'
    BY <1>1, <2>2, <2>3, <2>4 DEF PaidFor, Guarded, Count
  <2> QED BY <1>1, <1>2, <2>1, <2>2, <2>3, <2>5, Here, PaidStep DEF Become
<1> QED BY <1>3, <1>4

\* A call that reads its row at the gate holds what it sees.
LEMMA PaidReadRow ==
  ASSUME Inv, Inv', Paid, NEW p \in Procs, NEW op, NEW r \in Rows, ReadRow(p, op, r),
         UNCHANGED <<rows, approvals, started>>,
         "overlap" \notin mishaps', mishaps \subseteq mishaps',
         \A q \in Procs \ {p} : call[q].at # "idle" => call[q].row # r
  PROVE  Paid'
<1>1. PICK d \in Calls : d = call'[p]
  BY DEF Inv, TypeOK
<1>2. /\ Become(p, d) /\ d.at \in {"expire", "gate"} /\ d.row = r
      /\ d.seen = rows[r].status
  BY <1>1 DEF ReadRow, Become, Idle, Inv, TypeOK
<1>3. PaidFor(d)'
  BY <1>2 DEF PaidFor
<1>4. RowPaid(r)'
  BY DEF Paid, RowPaid, Count
<1>5. \A a \in Rows : Guarded(a)' <=> Guarded(a)
  BY DEF Guarded
<1>6. \A a \in Rows : Count(a)' = Count(a)
  BY DEF Count
<1>7. "overlap" \notin mishaps
  OBVIOUS
<1> QED BY <1>2, <1>3, <1>4, <1>5, <1>6, <1>7, PaidGoesOn

LEMMA PaidReread ==
  ASSUME Inv, Inv', Paid, NEW p \in Procs, Reread(p), "overlap" \notin mishaps'
  PROVE  Paid'
<1> DEFINE seen == IF Exists(call[p].row) THEN rows[call[p].row].status ELSE call[p].seen
           next == [call[p] EXCEPT !.at = "gate", !.seen = seen]
<1>1. PICK c \in Calls : c = call[p]
  BY Here
<1>2. c.at = "reread" /\ UNCHANGED <<rows, approvals, started, mishaps>>
  BY <1>1 DEF Reread, At
<1>3. c.row \in Rows /\ Exists(c.row)
  BY <1>1, <1>2, Here DEF Fits, RowFits, Exists, Pruned
<1>4. /\ next.at = "gate" /\ next.row = c.row /\ next.seen = rows[c.row].status
  BY <1>1, <1>3 DEF Calls
<1>5. Become(p, next)
  BY DEF Reread
<1> HIDE DEF next
<1>6. PICK d \in Calls : d = call'[p]
  BY DEF Inv, TypeOK
<1>7. d = next /\ Become(p, d)
  BY <1>5, <1>6 DEF Become, Inv, TypeOK
<1>8. PaidFor(d)'
  BY <1>2, <1>4, <1>7 DEF PaidFor
<1> QED BY <1>1, <1>2, <1>4, <1>7, <1>8, Here, PaidStep

LEMMA PaidCancelGuard ==
  ASSUME Inv, Inv', Paid, NEW p \in Procs, CancelGuard(p), "overlap" \notin mishaps'
  PROVE  Paid'
<1>1. call[p].at # "idle" /\ UNCHANGED <<rows, approvals, started, mishaps>>
  BY DEF CancelGuard, At
<1>2. call[p].row \in Rows
  BY <1>1, Here DEF Fits, RowFits
<1>3. CASE Return(p)
  BY <1>1, <1>3, Here, PaidReturn
<1>4. CASE ReadRow(p, "canceled", call[p].row)
  <2>1. PICK r \in Rows : r = call[p].row
    BY <1>2
  <2>2. \A q \in Procs \ {p} : call[q].at # "idle" => call[q].row # r
    BY <1>1, <2>1 DEF Paid
  <2> QED BY <1>1, <1>4, <2>1, <2>2, Here, PaidReadRow
<1> QED BY <1>3, <1>4 DEF CancelGuard

\* A new approval is one more than the commands started so far.
LEMMA PaidDecide ==
  ASSUME Inv, Paid, NEW p \in Procs, Decide(p), "overlap" \notin mishaps'
  PROVE  Paid'
<1>1. PICK d \in Calls : d = Idle
  BY IdleType
<1>2. Become(p, d) /\ d.at = "idle" /\ PaidFor(d)'
  BY <1>1, IdleParts DEF Decide, Return, PaidFor
<1>3. /\ call[p].at # "idle" /\ call[p].op \in Decisions
      /\ UNCHANGED <<runs, started, mishaps>>
  BY DEF Decide, At
<1>4. PICK r \in Rows : r = call[p].row
  BY <1>3, Here DEF Fits, RowFits
<1>5. PICK s \in Statuses : s = call[p].op
  BY <1>3, OutcomeType
<1>6. /\ SetStatus(r, s)
      /\ approvals' = IF s = "approved" /\ Exists(r)
                      THEN [approvals EXCEPT ![r] = @ + 1] ELSE approvals
  BY <1>4, <1>5 DEF Decide
<1>7. \A a \in Rows : a # r => rows'[a] = rows[a] /\ approvals'[a] = approvals[a]
  BY <1>6, World DEF SetStatus
<1>8. \A a : Count(a)' = Count(a)
  BY <1>3 DEF Count
<1>9. RowPaid(r) /\ Count(r) \in Nat /\ approvals[r] \in Nat
  BY <1>3, CountType, World DEF Paid, Inv, TypeOK
<1>10. RowPaid(r)'
  <2>1. CASE ~Exists(r)
    BY <1>6, <1>8, <1>9, <2>1 DEF RowPaid, SetStatus
  <2>2. CASE Exists(r)
    <3>1. rows'[r].status = s
      <4>1. rows'[r] = [rows[r] EXCEPT !.status = s] /\ rows[r] \in ActionRows
        BY <1>6, <2>2, World DEF SetStatus
      <4> QED BY <4>1 DEF ActionRows
    <3>2. approvals'[r] = IF s = "approved" THEN approvals[r] + 1 ELSE approvals[r]
      BY <1>6, <2>2, World
    <3> QED BY <1>8, <1>9, <3>1, <3>2 DEF RowPaid
  <2> QED BY <2>1, <2>2
<1>11. \A a \in Rows : a # r =>
         rows'[a].status = rows[a].status /\ (Guarded(a)' <=> Guarded(a))
  BY <1>7 DEF Guarded
<1>12. \A q \in Procs \ {p} : call[q].at # "idle" => call[q].row # r
  BY <1>3, <1>4 DEF Paid
<1>13. "overlap" \notin mishaps
  BY <1>3
<1> QED BY <1>2, <1>7, <1>8, <1>10, <1>11, <1>12, <1>13, PaidGoesOn

\* Past the gate of a guarded row the call holds its approval.
LEMMA PaidQueue ==
  ASSUME Inv, Inv', Paid, NEW p \in Procs, Queue(p), "overlap" \notin mishaps'
  PROVE  Paid'
<1>1. /\ call[p].at = "gate" /\ UNCHANGED <<rows, approvals, started, mishaps>>
      /\ call' = [call EXCEPT ![p] = call'[p]] /\ call'[p].at = "start"
      /\ call'[p].row = call[p].row
  BY MovedOn DEF Queue, AtGate, At, Moved
<1>2. PICK d \in Calls : d = call'[p]
  BY DEF Inv, TypeOK
<1>3. PICK r \in Rows : r = call[p].row
  BY <1>1, Here DEF Fits, RowFits
<1>4. Guarded(r) => call[p].seen = "approved"
  BY <1>3, RowParts DEF Queue, Refused, Binds, Guarded, Inv
<1>5. Guarded(r) => rows[r].status = "approved"
  BY <1>1, <1>3, <1>4 DEF Paid, PaidFor
<1>6. PaidFor(d)'
  BY <1>1, <1>2, <1>3, <1>5 DEF PaidFor, Guarded
<1> QED BY <1>1, <1>2, <1>6, Here, PaidStep DEF Become

\* The approval is taken from the row.
LEMMA PaidSetRunning ==
  ASSUME Inv, Inv', Paid, NEW p \in Procs, SetRunning(p), "overlap" \notin mishaps'
  PROVE  Paid'
<1>1. /\ call[p].at = "start" /\ UNCHANGED <<approvals, started, mishaps>>
      /\ SetStatus(call[p].row, "running")
      /\ call' = [call EXCEPT ![p] = call'[p]] /\ call'[p].at = "spawn"
      /\ call'[p].row = call[p].row
  BY MovedOn DEF SetRunning, At, Moved
<1>2. PICK d \in Calls : d = call'[p]
  BY DEF Inv, TypeOK
<1>3. PICK r \in Rows : r = call[p].row
  BY <1>1, Here DEF Fits, RowFits
<1>4. Guarded(r) => Count(r) < approvals[r]
  BY <1>1, <1>3 DEF Paid, PaidFor, RowPaid
<1>5. (Guarded(r)' <=> Guarded(r)) /\ rows'[r].status # "approved"
  <2>1. CASE Exists(r)
    <3>1. rows'[r] = [rows[r] EXCEPT !.status = "running"] /\ rows[r] \in ActionRows
      BY <1>1, <1>3, <2>1, World DEF SetStatus
    <3> QED BY <3>1 DEF Guarded, ActionRows
  <2>2. CASE ~Exists(r)
    BY <1>1, <1>3, <2>2 DEF SetStatus, Guarded, Exists
  <2> QED BY <2>1, <2>2
<1>6. PaidFor(d)'
  BY <1>1, <1>2, <1>3, <1>4, <1>5 DEF PaidFor, Count
<1>7. "running" \in Statuses \ {"approved"}
  BY DEF Statuses
<1> QED BY <1>1, <1>2, <1>6, <1>7, Here, PaidStep DEF Become

\* The command of a guarded row is counted against the approval its call holds.
LEMMA PaidSpawn ==
  ASSUME Inv, Inv', Paid, NEW p \in Procs, Spawn(p), "overlap" \notin mishaps'
  PROVE  Paid'
<1>1. /\ call[p].at = "spawn" /\ UNCHANGED <<rows, approvals, mishaps>>
      /\ started' = IF Guarded(call[p].row) THEN Append(started, call[p].row) ELSE started
      /\ call' = [call EXCEPT ![p] = call'[p]] /\ call'[p].at = "wait"
      /\ call'[p].row = call[p].row
  BY MovedOn DEF Spawn, At, Moved
<1>2. CASE ~Guarded(call[p].row)
  BY <1>1, <1>2, Here, PaidAway
<1>3. CASE Guarded(call[p].row)
  <2>1. PICK d \in Calls : d = call'[p]
    BY DEF Inv, TypeOK
  <2>2. PICK r \in Rows : r = call[p].row
    BY <1>1, Here DEF Fits, RowFits
  <2>3. started \in Seq(Rows) /\ approvals[r] \in Nat
    BY World DEF Inv, TypeOK
  <2>4. \A a \in Rows : Count(a)' = IF a = r THEN Count(a) + 1 ELSE Count(a)
    BY <1>1, <1>3, <2>2, <2>3, CountAppended
  <2>5. Count(r) < approvals[r] /\ Count(r) \in Nat
    BY <1>1, <1>3, <2>2, <2>3, CountType DEF Paid, PaidFor
  <2>6. rows[r].status # "approved"
    BY <1>1, <1>3, <2>2 DEF Paid, PaidFor
  <2>7. RowPaid(r)'
    BY <1>1, <2>3, <2>4, <2>5, <2>6 DEF RowPaid
  <2>8. \A q \in Procs \ {p} : call[q].at # "idle" => call[q].row # r
    BY <1>1, <2>2 DEF Paid
  <2>9. \A a \in Rows : a # r =>
          /\ rows'[a].status = rows[a].status /\ (Guarded(a)' <=> Guarded(a))
          /\ approvals'[a] = approvals[a] /\ Count(a)' = Count(a)
    BY <1>1, <2>4 DEF Guarded
  <2>10. Become(p, d) /\ d.row = r /\ PaidFor(d)' /\ "overlap" \notin mishaps
    BY <1>1, <2>1, <2>2 DEF Become, PaidFor
  <2> QED BY <2>7, <2>8, <2>9, <2>10, PaidGoesOn
<1> QED BY <1>2, <1>3

LEMMA PaidOwnStep ==
  ASSUME Inv, Inv', Paid, NEW p \in Procs, Step(p), "overlap" \notin mishaps'
  PROVE  Paid'
<1>1. mishaps \subseteq mishaps /\ ("expired" \in Statuses \ {"approved"})
      /\ "blocked" \in Statuses \ {"approved"}
  BY DEF Statuses, Ends
<1>2. CASE WriteExpired(p)
  <2>1. /\ call[p].at # "idle" /\ UNCHANGED <<approvals, started, mishaps>>
        /\ SetStatus(call[p].row, "expired")
        /\ Moved(p, {"reread", "mark", "wait", "drain", "finish", "check", "insert", "return"})
    BY <1>2, MovedOn DEF WriteExpired, At, Moved
  <2> QED BY <1>1, <2>1, PaidMoved
<1>3. CASE MarkBlocked(p)
  <2>1. /\ call[p].at # "idle" /\ UNCHANGED <<approvals, started, mishaps>>
        /\ SetStatus(call[p].row, "blocked")
        /\ Moved(p, {"reread", "mark", "wait", "drain", "finish", "check", "insert", "return"})
    BY <1>3, MovedOn DEF MarkBlocked, At, Moved
  <2> QED BY <1>1, <2>1, PaidMoved
<1>4. CASE WriteEnd(p)
  <2>1. /\ call[p].at # "idle" /\ UNCHANGED <<approvals, started, mishaps>>
        /\ Moved(p, {"reread", "mark", "wait", "drain", "finish", "check", "insert", "return"})
    BY <1>4, MovedOn DEF WriteEnd, Ended, At, Moved
  <2>2. \E s \in Ends : SetStatus(call[p].row, s)
    BY <1>4, Here, CallParts DEF WriteEnd
  <2>3. \E s \in Statuses \ {"approved"} : SetStatus(call[p].row, s)
    BY <2>2, OutcomeType
  <2> QED BY <1>1, <2>1, <2>3, PaidMoved
<1>5. CASE \/ Refuse(p) \/ Block(p) \/ SpawnFails(p) \/ Drain(p) \/ Timeout(p)
           \/ Poll(p) \/ PollAgain(p) \/ SeeExit(p)
  <2>1. /\ call[p].at # "idle" /\ UNCHANGED <<rows, approvals, started, mishaps>>
        /\ Moved(p, {"reread", "mark", "wait", "drain", "finish", "check", "insert", "return"})
    BY <1>5, MovedOn DEF Refuse, Block, SpawnFails, Drain, Draining, Timeout, AtDeadline,
       Poll, PollAgain, SeeExit, AtGate, At, Moved
  <2> QED BY <1>1, <2>1, PaidMoved
<1>6. CASE RefuseDecision(p)
  BY <1>1, <1>6, PaidReturn DEF RefuseDecision, At
<1>7. CASE FindRow(p)
  <2>1. call[p].at = "check" /\ UNCHANGED <<rows, approvals, started, mishaps>>
    BY <1>7 DEF FindRow, At
  <2>2. CASE Return(p)
    BY <1>1, <2>1, <2>2, PaidReturn
  <2>3. CASE Go(p, "insert")
    <3>1. call' = [call EXCEPT ![p] = call'[p]] /\ call'[p].at = "insert"
          /\ call'[p].row = call[p].row
      BY <2>3, Here, AtType DEF Go, Become, Inv, TypeOK, Steps, Calls
    <3> QED BY <1>1, <2>1, <3>1, PaidAway
  <2> QED BY <1>7, <2>2, <2>3 DEF FindRow
<1>8. CASE InsertRun(p)
  <2>1. call[p].at = "insert" /\ UNCHANGED <<rows, approvals, started, mishaps>>
    BY <1>8 DEF InsertRun, At
  <2>2. CASE Return(p)
    BY <1>1, <2>1, <2>2, PaidReturn
  <2>3. CASE ~Return(p)
    <3> DEFINE refused == [call[p] EXCEPT !.at = "return", !.run = Len(runs) + 1,
                                         !.emit = <<"stderr", "blocked">>]
               ended   == [call[p] EXCEPT !.at = "return", !.emit = <<call[p].outcome>>]
    <3>1. /\ refused.at = "return" /\ refused.row = call[p].row
          /\ ended.at = "return" /\ ended.row = call[p].row
      BY Here DEF Calls
    <3>2. Become(p, refused) \/ Become(p, ended)
      BY <1>8, <2>3 DEF InsertRun
    <3> HIDE DEF refused, ended
    <3>3. call' = [call EXCEPT ![p] = call'[p]] /\ call'[p].at = "return"
          /\ call'[p].row = call[p].row
      BY <3>1, <3>2 DEF Become, Inv, TypeOK
    <3> QED BY <1>1, <2>1, <3>3, PaidAway
  <2> QED BY <2>2, <2>3
<1> QED
  BY <1>2, <1>3, <1>4, <1>5, <1>6, <1>7, <1>8, PaidReread, PaidCancelGuard, PaidDecide,
     PaidQueue, PaidSetRunning, PaidSpawn, PaidRecord DEF Step

\* Where no call moves, rows that a call is about keep their status.
LEMMA PaidNobodyMoves ==
  ASSUME Inv, Paid, UNCHANGED <<call, approvals, started>>,
         "overlap" \notin mishaps, 
         \A a \in Rows :
           \/ rows'[a].status = rows[a].status /\ (Guarded(a)' <=> Guarded(a))
           \/ /\ rows'[a].status # "approved"
              /\ \A q \in Procs : call[q].at # "idle" => call[q].row # a
  PROVE  Paid'
<1>1. \A a : Count(a)' = Count(a)
  BY DEF Count
<1>2. ASSUME NEW a \in Rows PROVE RowPaid(a)'
  BY <1>1 DEF Paid, RowPaid
<1>3. ASSUME NEW q \in Procs PROVE PaidFor(call[q])'
  <2>1. PICK c \in Calls : c = call[q]
    BY Here
  <2>2. PaidFor(c) /\ (c.at # "idle" => c.row \in Rows)
    BY <2>1, Here DEF Paid, Fits, RowFits
  <2>3. PaidFor(c)'
    BY <1>1, <2>1, <2>2 DEF PaidFor
  <2> QED BY <2>1, <2>3
<1> QED BY <1>2, <1>3 DEF Paid

LEMMA PaidByOthers ==
  ASSUME Inv, Inv', Paid, Environment, "overlap" \notin mishaps'
  PROVE  Paid'
<1>1. ASSUME NEW p \in Procs, NEW r \in Rows, NEW op, Start(p, op, r) PROVE Paid'
  <2>1. mishaps \subseteq mishaps' /\ \A q \in Procs : ~Active(q, r)
    BY <1>1 DEF Start
  <2> QED BY <1>1, <2>1, PaidReadRow DEF Start, Active
<1>2. ASSUME NEW p \in Procs, Crash(p) PROVE Paid'
  <2>1. call[p].at # "idle" /\ mishaps \subseteq mishaps'
    BY <1>2, Here DEF Crash, Fits, RowFits
  <2> QED BY <1>2, <2>1, PaidReturn DEF Crash
<1>3. ASSUME NEW p \in Procs, Fault(p) PROVE Paid'
  <2>1. call[p].at # "idle" /\ mishaps \subseteq mishaps'
        /\ UNCHANGED <<rows, approvals, started>>
    BY <1>3, Here DEF Fault, Fits, RowFits
  <2>2. CASE Return(p)
    BY <2>1, <2>2, PaidReturn
  <2>3. CASE ~Return(p)
    <3> DEFINE next == [call[p] EXCEPT !.at = "finish", !.outcome = "failed",
                                      !.emit = << >>, !.next = 0, !.caught = TRUE,
                                  !.lines = 0]
    <3>1. next.at = "finish" /\ next.row = call[p].row
      BY Here DEF Calls
    <3>2. Become(p, next)
      BY <1>3, <2>3 DEF Fault
    <3> HIDE DEF next
    <3>3. call' = [call EXCEPT ![p] = call'[p]] /\ call'[p].at = "finish"
          /\ call'[p].row = call[p].row
      BY <3>1, <3>2 DEF Become, Inv, TypeOK
    <3> QED BY <2>1, <3>3, PaidAway
  <2> QED BY <2>2, <2>3
<1>10. ASSUME NEW p \in Procs, PrintLine(p) PROVE Paid'
  <2>1. call[p].at \in {"wait", "drain"} /\ Moved(p, {call[p].at})
        /\ UNCHANGED <<rows, approvals, started, mishaps>>
    BY <1>10, MovedOn DEF PrintLine, Waiting
  <2> QED BY <2>1, PaidAway DEF Moved
<1>4. ASSUME NEW r \in Rows, Prune(r) PROVE Paid'
  <2>1. \A q \in Procs : call[q].at # "idle" => call[q].row # r
    BY <1>4 DEF Prune, Active
  <2>2. \A a \in Rows : rows'[a] = IF a = r THEN [rows[r] EXCEPT !.status = "pruned"]
                                             ELSE rows[a]
    BY <1>4, World DEF Prune
  <2>3. rows'[r].status # "approved"
    BY <2>2, World DEF ActionRows
  <2>4. "overlap" \notin mishaps
    BY <1>4 DEF Prune
  <2>5. \A a \in Rows \ {r} : rows'[a].status = rows[a].status /\ (Guarded(a)' <=> Guarded(a))
    BY <2>2 DEF Guarded
  <2> QED BY <1>4, <2>1, <2>3, <2>4, <2>5, PaidNobodyMoves DEF Prune
<1>5. ASSUME NEW r \in Rows, NEW needsApproval \in BOOLEAN, NEW tool \in Tools,
             Propose(r, needsApproval, tool)
      PROVE  Paid'
  <2>1. \A q \in Procs : call[q].at # "idle" => call[q].row # r
    BY <1>5, Here DEF Propose, Fits, RowFits
  <2>2. rows'[r].status # "approved"
    BY <1>5, World DEF Propose
  <2>3. \A a \in Rows \ {r} : rows'[a].status = rows[a].status /\ (Guarded(a)' <=> Guarded(a))
    BY <1>5, World DEF Propose, Guarded
  <2> QED BY <1>5, <2>1, <2>2, <2>3, PaidNobodyMoves DEF Propose
<1>6. ASSUME NEW r \in Rows, NEW row, rows' = [rows EXCEPT ![r] = row],
             row.status = rows[r].status, row.approval = rows[r].approval,
             row.tool = "guarded" <=> rows[r].tool = "guarded",
             UNCHANGED <<call, approvals, started, mishaps>>
      PROVE  Paid'
  <2>1. \A a \in Rows : rows'[a].status = rows[a].status /\ (Guarded(a)' <=> Guarded(a))
    BY <1>6, World DEF Guarded
  <2> QED BY <1>6, <2>1, PaidNobodyMoves
<1>7. ASSUME NEW r \in Rows, Elapse(r) PROVE Paid'
  <2>1. PICK old \in ActionRows : old = rows[r]
    BY World
  <2>2. PICK row : row = [old EXCEPT !.due = TRUE]
    OBVIOUS
  <2>3. row.status = old.status /\ row.approval = old.approval /\ row.tool = old.tool
    BY <2>2 DEF ActionRows
  <2>4. rows' = [rows EXCEPT ![r] = row]
    BY <1>7, <2>1, <2>2, World DEF Elapse
  <2> QED BY <1>6, <1>7, <2>1, <2>3, <2>4 DEF Elapse
<1>8. ASSUME NEW r \in Rows, NEW tool \in Tools, Withdraw(r, tool) PROVE Paid'
  <2>1. PICK old \in ActionRows : old = rows[r]
    BY World
  <2>2. PICK row : row = [old EXCEPT !.tool = tool]
    OBVIOUS
  <2>3. row.status = old.status /\ row.approval = old.approval /\ row.tool = tool
    BY <2>2 DEF ActionRows
  <2>4. rows' = [rows EXCEPT ![r] = row]
    BY <1>8, <2>1, <2>2, World DEF Withdraw
  <2>5. row.tool # "guarded" /\ old.tool # "guarded"
    BY <1>8, <2>1, <2>3 DEF Withdraw
  <2> QED BY <1>6, <1>8, <2>1, <2>3, <2>4, <2>5 DEF Withdraw
<1>9. ASSUME NEW k, NEW how, ChildExits(k, how) PROVE Paid'
  <2>1. \A a \in Rows : rows'[a].status = rows[a].status /\ (Guarded(a)' <=> Guarded(a))
    BY <1>9 DEF ChildExits, Guarded
  <2> QED BY <1>9, <2>1, PaidNobodyMoves DEF ChildExits
<1> QED
  BY <1>1, <1>2, <1>3, <1>4, <1>5, <1>7, <1>8, <1>9, <1>10 DEF Environment, StartSafe

LEMMA NextPaid == Inv /\ Inv' /\ Paid /\ [Next]_vars => Paid'
<1> SUFFICES ASSUME Inv, Inv', Paid, [Next]_vars, "overlap" \notin mishaps' PROVE Paid'
  BY DEF Paid
<1>1. CASE \E p \in Procs : Step(p)
  BY <1>1, PaidOwnStep
<1>2. CASE Environment
  BY <1>2, PaidByOthers
<1>3. CASE UNCHANGED vars
  <2>1. \A a \in Rows : rows'[a].status = rows[a].status /\ (Guarded(a)' <=> Guarded(a))
    BY <1>3 DEF vars, Guarded
  <2> QED BY <1>3, <2>1, PaidNobodyMoves DEF vars
<1> QED BY <1>1, <1>2, <1>3 DEF Next

LEMMA InitPaid == Init => Paid
<1> SUFFICES ASSUME Init PROVE Paid
  OBVIOUS
<1>1. \A r \in Rows : {i \in DOMAIN started : started[i] = r} = {}
  BY DEF Init
<1>2. \A r \in Rows : Count(r) = 0 /\ approvals[r] = 0 /\ rows[r].status # "approved"
  BY <1>1, FS_EmptySet DEF Count, Init
<1>3. \A r \in Rows : RowPaid(r)
  BY <1>2 DEF RowPaid
<1>4. \A p \in Procs : call[p].at = "idle"
  BY DEF Init, Idle
<1> QED BY <1>3, <1>4 DEF Paid, PaidFor

-----------------------------------------------------------------------------
(* The timeline of a run.                                                    *)

\* Queued and running are recorded, and nothing but output since.
Opened(events) ==
  /\ Len(events) >= 2 /\ events[1].type = "queued" /\ events[2].type = "running"
  /\ \A i \in DOMAIN events : i > 2 => events[i].type = "stdout"

Only(events, type) == Len(events) = 1 /\ events[1].type = type

\* Which events of its run a call has recorded, and which one it is recording.
Told(c, run) ==
  /\ c.at = "start" => \/ run.events = << >> /\ c.emit = <<"queued">>
                       \/ Only(run.events, "queued") /\ c.emit = << >>
  /\ c.at = "spawn" => \/ Only(run.events, "queued") /\ c.emit = <<"running">>
                       \/ Opened(run.events) /\ c.emit = << >>
  /\ c.at \in {"wait", "drain", "finish"} =>
       Opened(run.events) /\ c.emit \in {<< >>, <<"stdout">>}
  /\ c.at \in {"check", "insert"} => Opened(run.events) /\ c.emit = << >>
  /\ c.at = "return" =>
       \/ Opened(run.events) /\ \E end \in Ends : c.emit = <<end>>
       \/ /\ run.child = "none"
          /\ \/ run.events = << >> /\ c.emit = <<"stderr", "blocked">>
             \/ Only(run.events, "stderr") /\ c.emit = <<"blocked">>

RunTold(run) == ~Pruned(run.row) => Timely(run.events)

CallTold(c) == c.run # 0 /\ ~Pruned(c.row) => Told(c, runs[c.run])

Telling ==
  /\ \A k \in DOMAIN runs : RunTold(runs[k])
  /\ \A p \in Procs : CallTold(call[p])

LEMMA TypesDiffer ==
  /\ "queued" \notin Ends /\ "running" \notin Ends /\ "stdout" \notin Ends
  /\ "stderr" \notin Ends /\ "blocked" \in Ends
BY DEF Ends

LEMMA TimelyShort ==
  ASSUME NEW events \in Seq([sequence: Nat, type: Types]),
         events = << >> \/ Only(events, "queued") \/ Only(events, "stderr")
  PROVE  Timely(events)
BY TypesDiffer DEF Timely, Only, Ends

LEMMA TimelyOpened ==
  ASSUME NEW events \in Seq([sequence: Nat, type: Types]), Opened(events)
  PROVE  Timely(events)
<1>1. \A i \in DOMAIN events :
        /\ i \in Nat /\ i >= 1
        /\ i = 1 => events[i].type = "queued"
        /\ i = 2 => events[i].type = "running"
        /\ i > 2 => events[i].type = "stdout"
  BY DEF Opened
<1> QED BY <1>1, TypesDiffer DEF Timely, Opened

\* What one more event makes of a timeline.
LEMMA TimelyAppended ==
  ASSUME NEW S, NEW events \in Seq(S), NEW e, NEW type, e.type = type, e \in S,
         S = [sequence: Nat, type: Types]
  PROVE  LET new == Append(events, e) IN
         /\ events = << >> => Only(new, type)
         /\ Only(events, "queued") /\ type = "running" => Opened(new)
         /\ Opened(events) /\ type = "stdout" => Opened(new)
         /\ Opened(events) /\ type \in Ends => Timely(new)
         /\ Only(events, "stderr") /\ type = "blocked" => Timely(new)
<1> DEFINE new == Append(events, e)
<1>1. /\ new \in Seq(S) /\ Len(new) = Len(events) + 1 /\ new[Len(events) + 1].type = type
      /\ \A i \in 1..Len(events) : new[i] = events[i]
      /\ Len(events) \in Nat /\ DOMAIN new = 1..(Len(events) + 1)
      /\ DOMAIN events = 1..Len(events)
  <2>1. new \in Seq(S) /\ Len(new) = Len(events) + 1 /\ new[Len(events) + 1] = e
    OBVIOUS
  <2>2. \A i \in 1..Len(events) : new[i] = events[i]
    OBVIOUS
  <2> QED BY <2>1, <2>2
<1> HIDE DEF new
<1>2. events = << >> => Only(new, type)
  BY <1>1 DEF Only
<1>3. Only(events, "queued") /\ type = "running" => Opened(new)
  BY <1>1 DEF Only, Opened
<1>4. Opened(events) /\ type = "stdout" => Opened(new)
  <2> SUFFICES ASSUME Opened(events), type = "stdout" PROVE Opened(new)
    OBVIOUS
  <2>1. Len(new) >= 2 /\ new[1].type = "queued" /\ new[2].type = "running"
    BY <1>1 DEF Opened
  <2>2. ASSUME NEW i \in DOMAIN new, i > 2 PROVE new[i].type = "stdout"
    <3>1. CASE i = Len(events) + 1
      BY <1>1, <3>1
    <3>2. CASE i # Len(events) + 1
      <4>1. i \in DOMAIN events /\ new[i] = events[i]
        BY <1>1, <3>2
      <4> QED BY <2>2, <4>1 DEF Opened
    <3> QED BY <3>1, <3>2
  <2> QED BY <2>1, <2>2 DEF Opened
<1>5. Opened(events) /\ type \in Ends => Timely(new)
  <2> SUFFICES ASSUME Opened(events), type \in Ends, NEW i \in DOMAIN new
               PROVE  /\ new[i].type = "queued"  => i = 1
                      /\ new[i].type = "running" => i = 2 /\ new[1].type = "queued"
                      /\ new[i].type = "stdout"  => i > 2 /\ new[2].type = "running"
                      /\ new[i].type \in Ends    => i = Len(new)
    BY DEF Timely
  <2>1. CASE i = Len(events) + 1
    BY <1>1, <2>1, TypesDiffer
  <2>2. CASE i # Len(events) + 1
    <3>1. i \in DOMAIN events /\ new[i] = events[i]
      BY <1>1, <2>2
    <3>2. /\ new[1].type = "queued" /\ new[2].type = "running"
          /\ i = 1 \/ i = 2 \/ new[i].type = "stdout"
      BY <1>1, <3>1 DEF Opened
    <3> QED BY <1>1, <3>1, <3>2, TypesDiffer
  <2> QED BY <2>1, <2>2
<1>6. Only(events, "stderr") /\ type = "blocked" => Timely(new)
  <2> SUFFICES ASSUME Only(events, "stderr"), type = "blocked" PROVE Timely(new)
    OBVIOUS
  <2>1. Len(events) = 1 /\ new[1].type = "stderr" /\ new[2].type = "blocked"
    BY <1>1 DEF Only
  <2>2. DOMAIN new = {1, 2} /\ Len(new) = 2
    BY <1>1, <2>1
  <2> QED BY <2>1, <2>2, TypesDiffer DEF Timely
<1> QED BY <1>2, <1>3, <1>4, <1>5, <1>6 DEF new

\* A step of p: the runs of the others stay, and no row is pruned.
LEMMA TellingGoesOn ==
  ASSUME Inv, Inv', Telling, NEW p \in Procs, call' = [call EXCEPT ![p] = call'[p]],
         \A r \in Rows : Pruned(r)' <=> Pruned(r),
         RunsGoOn(call[p].run),
         \A j \in 1..Len(runs') : j = call[p].run \/ j > Len(runs) => RunTold(runs[j])',
         CallTold(call[p])'
  PROVE  Telling'
<1>1. \A q \in Procs \ {p} : call'[q] = call[q]
  BY DEF Inv, TypeOK
<1>2. ASSUME NEW j \in 1..Len(runs') PROVE RunTold(runs[j])'
  <2>1. CASE j = call[p].run \/ j > Len(runs)
    BY <2>1
  <2>2. CASE j # call[p].run /\ j <= Len(runs)
    <3>1. j \in 1..Len(runs) /\ RunTold(runs[j]) /\ SameRun(runs[j], runs'[j])
      BY <2>2, DomainOfRuns DEF Telling, RunsGoOn, Inv
    <3>2. runs[j].row \in Rows
      BY <3>1, DomainOfRuns, RunParts DEF Inv, TypeOK
    <3> QED BY <3>1, <3>2 DEF RunTold, SameRun
  <2> QED BY <2>1, <2>2, DomainOfRuns DEF Inv
<1>3. ASSUME NEW q \in Procs, q # p PROVE CallTold(call[q])'
  <2>1. PICK c \in Calls : c = call[q]
    BY Here
  <2>2. c = call'[q] /\ (c.run = 0 \/ c.run # call[p].run) /\ CallTold(c) /\ Fits(c)
    BY <1>1, <1>3, <2>1, Here DEF Inv, Exclusive, Telling
  <2>3. ASSUME c.run # 0, ~Pruned(c.row)' PROVE Told(c, runs[c.run])'
    <3>1. c.run \in 1..Len(runs)
      BY <2>2, <2>3, DomainOfRuns DEF Fits, ShapeFits, Inv
    <3>2. SameRun(runs[c.run], runs'[c.run]) /\ RunFits(c, runs[c.run])
      BY <2>2, <2>3, <3>1 DEF RunsGoOn, Fits
    <3>3. c.row \in Rows
      BY <3>1, <3>2, DomainOfRuns, RunParts DEF Inv, TypeOK, RunFits
    <3>4. Told(c, runs[c.run])
      BY <2>2, <2>3, <3>3 DEF CallTold
    <3>5. /\ runs'[c.run].events = runs[c.run].events
          /\ runs[c.run].child = "none" => runs'[c.run].child = "none"
      BY <3>2 DEF SameRun
    <3> QED BY <3>4, <3>5 DEF Told
  <2> QED BY <2>2, <2>3 DEF CallTold
<1>4. \A j \in DOMAIN runs' : RunTold(runs[j])'
  <2>1. DOMAIN runs' = 1..Len(runs')
    BY DEF Inv, TypeOK
  <2> QED BY <1>2, <2>1
<1> QED BY <1>3, <1>4 DEF Telling

\* A step that leaves the runs alone.
LEMMA TellingAlone ==
  ASSUME Inv, Inv', Telling, NEW p \in Procs, call' = [call EXCEPT ![p] = call'[p]],
         \A r \in Rows : Pruned(r)' <=> Pruned(r), UNCHANGED runs,
         CallTold(call[p])'
  PROVE  Telling'
<1>1. RunsGoOn(call[p].run)
  BY DomainOfRuns DEF RunsGoOn, SameRun, Inv
<1>2. ASSUME NEW j \in 1..Len(runs') PROVE RunTold(runs[j])'
  <2>1. runs[j].row \in Rows /\ RunTold(runs[j])
    BY <1>2, DomainOfRuns, RunParts DEF Inv, TypeOK, Telling
  <2> QED BY <2>1 DEF RunTold
<1> QED BY <1>1, <1>2, TellingGoesOn, DomainOfRuns DEF Inv

LEMMA TellingReturn ==
  ASSUME Inv, Inv', Telling, NEW p \in Procs, Return(p), UNCHANGED <<rows, runs>>
  PROVE  Telling'
<1>1. call' = [call EXCEPT ![p] = call'[p]] /\ call'[p].run = 0
  BY IdleParts DEF Return, Become, Inv, TypeOK
<1>2. CallTold(call[p])' /\ \A r \in Rows : Pruned(r)' <=> Pruned(r)
  BY <1>1 DEF CallTold, Pruned
<1> QED BY <1>1, <1>2, TellingAlone

LEMMA PrunedStays ==
  ASSUME Inv, NEW r \in Rows, NEW s, s # "pruned", SetStatus(r, s)
  PROVE  \A a \in Rows : Pruned(a)' <=> Pruned(a)
<1>1. CASE ~Exists(r)
  BY <1>1 DEF SetStatus, Pruned
<1>2. CASE Exists(r)
  <2>1. rows' = [rows EXCEPT ![r].status = s]
    BY <1>2 DEF SetStatus
  <2>2. rows'[r].status = s /\ \A a \in Rows \ {r} : rows'[a] = rows[a]
    <3>1. rows'[r] = [rows[r] EXCEPT !.status = s] /\ rows[r] \in ActionRows
      BY <2>1, World
    <3> QED BY <2>1, <3>1, World DEF ActionRows
  <2> QED BY <1>2, <2>2 DEF Pruned, Exists
<1> QED BY <1>1, <1>2

\* The own call of a step with what it told before.
LEMMA ToldBefore ==
  ASSUME Inv, Telling, NEW p \in Procs, call[p].run # 0, ~Pruned(call[p].row)
  PROVE  Told(call[p], runs[call[p].run])
BY DEF Telling, CallTold

LEMMA TellingWithoutRun ==
  ASSUME Inv, Inv', Telling, NEW p \in Procs, call' = [call EXCEPT ![p] = call'[p]],
         \A r \in Rows : Pruned(r)' <=> Pruned(r), UNCHANGED runs, call'[p].run = 0
  PROVE  Telling'
BY TellingAlone DEF CallTold

LEMMA TellingReadRow ==
  ASSUME Inv, Inv', Telling, NEW p \in Procs, NEW op, NEW r, ReadRow(p, op, r),
         UNCHANGED <<rows, runs>>
  PROVE  Telling'
<1>1. call' = [call EXCEPT ![p] = call'[p]] /\ call'[p].run = 0
  BY DEF ReadRow, Become, Idle, Inv, TypeOK
<1> QED BY <1>1, TellingWithoutRun DEF Pruned

\* The steps of a call that has no run yet.
LEMMA TellingEarly ==
  ASSUME Inv, Inv', Telling, NEW p \in Procs,
         \/ WriteExpired(p) \/ Reread(p) \/ RefuseDecision(p) \/ CancelGuard(p)
         \/ Decide(p) \/ Refuse(p) \/ Block(p) \/ MarkBlocked(p)
  PROVE  Telling'
<1>1. call[p].run = 0 /\ UNCHANGED runs
  BY Here DEF WriteExpired, Reread, RefuseDecision, CancelGuard, Decide, Refuse, Block,
     MarkBlocked, AtGate, At, Fits, ShapeFits, Early
<1>2. call[p].row \in Rows
  <2>1. call[p].at # "idle"
    BY DEF WriteExpired, Reread, RefuseDecision, CancelGuard, Decide, Refuse, Block,
       MarkBlocked, AtGate, At
  <2> QED BY <2>1, Here DEF Fits, RowFits
<1>3. CASE WriteExpired(p) \/ MarkBlocked(p)
  <2>1. SetStatus(call[p].row, "expired") \/ SetStatus(call[p].row, "blocked")
    BY <1>3 DEF WriteExpired, MarkBlocked
  <2>2. \A a \in Rows : Pruned(a)' <=> Pruned(a)
    BY <1>2, <2>1, PrunedStays
  <2> QED BY <1>1, <1>3, <2>2, Goings, TellingWithoutRun DEF Goes
<1>4. CASE Reread(p) \/ Refuse(p) \/ Block(p)
  <2>1. UNCHANGED rows
    BY <1>4 DEF Reread, Refuse, Block
  <2> QED BY <1>1, <1>4, <2>1, Goings, TellingWithoutRun DEF Goes, Pruned
<1>5. CASE RefuseDecision(p)
  BY <1>5, TellingReturn DEF RefuseDecision
<1>6. CASE CancelGuard(p)
  BY <1>6, TellingReturn, TellingReadRow DEF CancelGuard
<1>7. CASE Decide(p)
  <2>1. call' = [call EXCEPT ![p] = call'[p]] /\ call'[p].run = 0
    BY <1>7, IdleParts DEF Decide, Return, Become, Inv, TypeOK
  <2>2. SetStatus(call[p].row, call[p].op) /\ call[p].op # "pruned"
    BY <1>7 DEF Decide, Decisions
  <2>3. \A a \in Rows : Pruned(a)' <=> Pruned(a)
    BY <1>2, <2>2, PrunedStays
  <2> QED BY <1>1, <2>1, <2>3, TellingWithoutRun
<1> QED BY <1>3, <1>4, <1>5, <1>6, <1>7

\* A step after which the call is elsewhere and the run as it was.
LEMMA TellingElsewhere ==
  ASSUME Inv, Inv', Telling, NEW p \in Procs, NEW at, NEW emit, NEW outcome,
         Goes(p, at, call[p].run, emit, outcome), UNCHANGED runs,
         \A r \in Rows : Pruned(r)' <=> Pruned(r), call[p].row \in Rows,
         \A c, run : /\ Told(call[p], run)
                     /\ c.at = at /\ c.emit = emit
                     /\ call[p].at \in {"start", "spawn"} => run.child = "none"
                     => Told(c, run)
  PROVE  Telling'
<1>1. ASSUME call'[p].run # 0, ~Pruned(call[p].row)'
      PROVE  Told(call'[p], runs[call[p].run])
  <2>1. call[p].run # 0 /\ ~Pruned(call[p].row)
    <3>1. call'[p].row = call[p].row /\ call'[p].run = call[p].run
      BY DEF Goes
    <3> QED BY <1>1, <3>1 DEF Pruned
  <2>2. Told(call[p], runs[call[p].run]) /\ RunFits(call[p], runs[call[p].run])
    BY <2>1, ToldBefore, MyRun
  <2> QED BY <2>1, <2>2 DEF Goes, RunFits
<1>2. CallTold(call[p])'
  <2>1. call'[p].run = call[p].run
    BY DEF Goes
  <2> QED BY <1>1, <2>1 DEF CallTold, Told, Opened, Only
<1> QED BY <1>2, TellingAlone DEF Goes

LEMMA TellingQuiet ==
  ASSUME Inv, Inv', Telling, NEW p \in Procs,
         \/ SetRunning(p) \/ NumberEvent(p) \/ SpawnFails(p) \/ Drain(p) \/ SeeExit(p)
         \/ WriteEnd(p) \/ FindRow(p) \/ Poll(p) \/ PollAgain(p) \/ PrintLine(p)
  PROVE  Telling'
<1>1. UNCHANGED runs
  BY DEF SetRunning, NumberEvent, SpawnFails, Drain, SeeExit, WriteEnd, FindRow, Poll,
     PollAgain, PrintLine
<1>2. call[p].at # "idle" /\ call[p].row \in Rows
  <2>1. call[p].at # "idle" \/ call[p].emit # << >>
    BY DEF SetRunning, NumberEvent, SpawnFails, Drain, Draining, SeeExit, WriteEnd, Ended,
       FindRow, Poll, PollAgain, AtDeadline, PrintLine, Waiting, At
  <2> QED BY <2>1, Here, IdleParts DEF Fits, RowFits
<1>3. CASE SetRunning(p)
  <2>1. call[p].at = "start" /\ call[p].emit = << >> /\ SetStatus(call[p].row, "running")
        /\ Goes(p, "spawn", call[p].run, <<"running">>, call[p].outcome)
    BY <1>3, Goings DEF SetRunning, At
  <2>2. \A a \in Rows : Pruned(a)' <=> Pruned(a)
    BY <1>2, <2>1, PrunedStays
  <2>3. \A c, run : Told(call[p], run) /\ c.at = "spawn" /\ c.emit = <<"running">>
                      => Told(c, run)
    BY <2>1, OneIsSome DEF Told
  <2> QED BY <1>1, <1>2, <2>1, <2>2, <2>3, TellingElsewhere
<1>4. CASE NumberEvent(p)
  <2>1. Goes(p, call[p].at, call[p].run, call[p].emit, call[p].outcome) /\ UNCHANGED rows
    BY <1>4, Goings DEF NumberEvent
  <2>2. \A c, run : Told(call[p], run) /\ c.at = call[p].at /\ c.emit = call[p].emit
                      => Told(c, run)
    BY DEF Told
  <2> QED BY <1>1, <1>2, <2>1, <2>2, TellingElsewhere DEF Pruned
<1>5. CASE SpawnFails(p)
  <2>1. call[p].at = "spawn" /\ call[p].emit = << >> /\ UNCHANGED rows
        /\ Goes(p, "finish", call[p].run, call[p].emit, "failed")
    BY <1>5, Goings DEF SpawnFails, At
  <2>2. \A c, run : Told(call[p], run) /\ c.at = "finish" /\ c.emit = call[p].emit
                      => Told(c, run)
    BY <2>1, OneIsSome DEF Told
  <2> QED BY <1>1, <1>2, <2>1, <2>2, TellingElsewhere DEF Pruned
<1>6. CASE Drain(p)
  <2>1. PICK emit \in {<< >>, <<"stdout">>} :
          Goes(p, call[p].at, call[p].run, emit, call[p].outcome)
    BY <1>6, Goings
  <2>2. call[p].at \in {"drain", "finish"} /\ UNCHANGED rows
    BY <1>6 DEF Drain, Draining, At
  <2>3. \A c, run : Told(call[p], run) /\ c.at = call[p].at /\ c.emit = emit
                      => Told(c, run)
    BY <2>2 DEF Told
  <2> QED BY <1>1, <1>2, <2>1, <2>2, <2>3, TellingElsewhere DEF Pruned
<1>7. CASE Poll(p) \/ PollAgain(p) \/ SeeExit(p)
  <2>1. PICK at, outcome : /\ at \in {"wait", "drain", "finish"}
                           /\ Goes(p, at, call[p].run, call[p].emit, outcome)
    BY <1>7, Goings
  <2>2. call[p].at \in {"wait", "drain"} /\ UNCHANGED rows
    BY <1>7 DEF Poll, PollAgain, SeeExit, AtDeadline, At
  <2>3. \A c, run : Told(call[p], run) /\ c.at = at /\ c.emit = call[p].emit
                      => Told(c, run)
    <3>1. at \in {"wait", "drain", "finish"}
      BY <2>1
    <3> QED BY <2>2, <3>1 DEF Told
  <2> QED BY <1>1, <1>2, <2>1, <2>2, <2>3, TellingElsewhere DEF Pruned
<1>11. CASE PrintLine(p)
  <2>1. Goes(p, call[p].at, call[p].run, call[p].emit, call[p].outcome) /\ UNCHANGED rows
    BY <1>11, Goings DEF PrintLine
  <2>2. \A c, run : Told(call[p], run) /\ c.at = call[p].at /\ c.emit = call[p].emit
                      => Told(c, run)
    BY DEF Told
  <2> QED BY <1>1, <1>2, <2>1, <2>2, TellingElsewhere DEF Pruned
<1>8. CASE WriteEnd(p)
  <2>1. call[p].at = "finish" /\ call[p].emit = << >>
        /\ SetStatus(call[p].row, call[p].outcome)
        /\ Goes(p, "check", call[p].run, call[p].emit, call[p].outcome)
    BY <1>8, Goings DEF WriteEnd, Ended, At
  <2>2. call[p].outcome # "pruned"
    BY Here, CallParts, OutcomeType
  <2>3. \A a \in Rows : Pruned(a)' <=> Pruned(a)
    BY <1>2, <2>1, <2>2, PrunedStays
  <2>4. \A c, run : Told(call[p], run) /\ c.at = "check" /\ c.emit = call[p].emit
                      => Told(c, run)
    BY <2>1 DEF Told
  <2> QED BY <1>1, <1>2, <2>1, <2>3, <2>4, TellingElsewhere
<1>9. CASE FindRow(p) /\ Return(p)
  BY <1>9, TellingReturn DEF FindRow
<1>10. CASE FindRow(p) /\ ~Return(p)
  <2>1. call[p].at = "check" /\ call[p].emit = << >> /\ UNCHANGED rows
        /\ Goes(p, "insert", call[p].run, call[p].emit, call[p].outcome)
    BY <1>10, GoesOrReturns DEF FindRow, At
  <2>2. \A c, run : Told(call[p], run) /\ c.at = "insert" /\ c.emit = call[p].emit
                      => Told(c, run)
    BY <2>1 DEF Told
  <2> QED BY <1>1, <1>2, <2>1, <2>2, TellingElsewhere DEF Pruned
<1> QED BY <1>3, <1>4, <1>5, <1>6, <1>7, <1>8, <1>9, <1>10, <1>11

\* A fresh run has told nothing.
LEMMA TellingFresh ==
  ASSUME Inv, Inv', Telling, NEW p \in Procs, NEW run \in Runs, runs' = Append(runs, run),
         run.events = << >>, UNCHANGED rows, NEW at, NEW emit, NEW outcome,
         Goes(p, at, Len(runs) + 1, emit, outcome), call[p].run = 0,
         \A c : c.at = at /\ c.emit = emit => Told(c, run)
  PROVE  Telling'
<1>1. /\ Len(runs') = Len(runs) + 1 /\ Len(runs) \in Nat /\ runs'[Len(runs) + 1] = run
      /\ RunsGoOn(call[p].run)
  BY AppendedRun, DomainOfRuns DEF Inv
<1>2. \A r \in Rows : Pruned(r)' <=> Pruned(r)
  BY DEF Pruned
<1>3. run.events \in Seq([sequence: Nat, type: Types])
  BY RunParts
<1>4. Timely(run.events)
  BY <1>3, TimelyShort
<1>5. ASSUME NEW j \in 1..Len(runs'), j = call[p].run \/ j > Len(runs) PROVE RunTold(runs[j])'
  <2>1. runs'[j] = run
    BY <1>1, <1>5
  <2> QED BY <1>4, <2>1 DEF RunTold, Timely
<1>6. CallTold(call[p])'
  <2>1. Told(call'[p], run)
    BY DEF Goes
  <2>2. runs'[call'[p].run] = run
    BY <1>1 DEF Goes
  <2> QED BY <2>1, <2>2 DEF CallTold, Told, Opened, Only
<1> QED BY <1>1, <1>2, <1>5, <1>6, TellingGoesOn DEF Goes

\* The run of the call is changed.
LEMMA TellingChanged ==
  ASSUME Inv, Inv', Telling, NEW p \in Procs, call[p].run # 0, NEW run \in Runs,
         runs' = [runs EXCEPT ![call[p].run] = run], run.row = call[p].row, UNCHANGED rows,
         call' = [call EXCEPT ![p] = call'[p]],
         ~Pruned(call[p].row) => Timely(run.events),
         \/ call'[p].run = 0
         \/ /\ call'[p].run = call[p].run /\ call'[p].row = call[p].row
            /\ ~Pruned(call[p].row) => Told(call'[p], run)
  PROVE  Telling'
<1>1. call[p].run \in 1..Len(runs) /\ runs \in Seq(Runs) /\ Len(runs) \in Nat
  BY MyRun, DomainOfRuns DEF Inv, TypeOK
<1>2. /\ Len(runs') = Len(runs) /\ runs'[call[p].run] = run
      /\ RunsGoOn(call[p].run)
  BY <1>1 DEF RunsGoOn, SameRun
<1>3. \A r \in Rows : Pruned(r)' <=> Pruned(r)
  BY DEF Pruned
<1>4. ASSUME NEW j \in 1..Len(runs'), j = call[p].run \/ j > Len(runs) PROVE RunTold(runs[j])'
  <2>1. runs'[j] = run
    BY <1>1, <1>2, <1>4
  <2> QED BY <2>1 DEF RunTold, Timely, Pruned
<1>5. CallTold(call[p])'
  BY <1>2 DEF CallTold, Told, Opened, Only, Pruned
<1> QED BY <1>2, <1>3, <1>4, <1>5, TellingGoesOn

LEMMA RunToldBefore ==
  ASSUME Inv, Telling, NEW p \in Procs, call[p].run # 0, ~Pruned(call[p].row)
  PROVE  Timely(runs[call[p].run].events)
BY MyRun DEF Telling, RunTold, RunFits

LEMMA TellingChild ==
  ASSUME Inv, Inv', Telling, NEW p \in Procs, Spawn(p) \/ Timeout(p)
  PROVE  Telling'
<1>1. /\ call[p].run # 0 /\ call[p].emit = << >> /\ UNCHANGED rows
      /\ call[p].at \in {"spawn", "drain"}
  BY Here DEF Spawn, Timeout, AtDeadline, At, Fits, ShapeFits
<1>2. PICK old \in Runs : old = runs[call[p].run] /\ old.row = call[p].row
  BY <1>1, MyRun DEF RunFits
<1>3. PICK child \in {"alive", "killed", old.child} :
        runs' = [runs EXCEPT ![call[p].run] = [old EXCEPT !.child = child]]
  BY <1>1, <1>2, MyRun DEF Spawn, Timeout
<1>4. "open" \in Ends \cup {"open", "deleted"} /\ child \in Children
  BY <1>2, RunParts DEF Children
<1>5. PICK run \in Runs : run = [old EXCEPT !.child = child]
  BY <1>4, RunEdited
<1>6. run.row = old.row /\ run.events = old.events
  BY <1>4, <1>5, RunEdited
<1>7. /\ call' = [call EXCEPT ![p] = call'[p]] /\ call'[p].run = call[p].run
      /\ call'[p].row = call[p].row /\ call'[p].at \in {"wait", "finish"}
      /\ call'[p].emit = << >>
  BY <1>1, Goings DEF Goes
<1>8. ASSUME ~Pruned(call[p].row) PROVE Timely(run.events) /\ Told(call'[p], run)
  <2>1. Told(call[p], old) /\ Timely(old.events)
    BY <1>1, <1>2, <1>8, ToldBefore, RunToldBefore
  <2>2. Opened(old.events)
    BY <1>1, <2>1, OneIsSome DEF Told
  <2> QED BY <1>6, <1>7, <2>1, <2>2 DEF Told
<1> QED BY <1>1, <1>2, <1>3, <1>5, <1>6, <1>7, <1>8, TellingChanged

LEMMA HeadsAndTails ==
  ASSUME NEW x, NEW y
  PROVE  /\ Head(<<x>>) = x /\ Tail(<<x>>) = << >> /\ Len(<<x>>) = 1
         /\ Head(<<x, y>>) = x /\ Tail(<<x, y>>) = <<y>> /\ Len(<<x, y>>) = 2
         /\ <<x>> # << >> /\ <<x, y>> # << >>
<1>1. Tail(<<x, y>>) = <<y>>
  OBVIOUS
<1>2. Head(<<x>>) = x /\ Head(<<x, y>>) = x /\ Tail(<<x>>) = << >>
  OBVIOUS
<1>3. Len(<<x>>) = 1 /\ Len(<<x, y>>) = 2 /\ Len(<< >>) = 0
  OBVIOUS
<1> QED BY <1>1, <1>2, <1>3

\* The events of a run come in the order in which its call records them.
LEMMA TellingEvent ==
  ASSUME Inv, Inv', Telling, NEW p \in Procs, InsertEvent(p)
  PROVE  Telling'
<1> DEFINE event == [sequence |-> call[p].next, type |-> Head(call[p].emit)]
           S == [sequence: Nat, type: Types]
<1>1. PICK c \in Calls : c = call[p]
  BY Here
<1>2. /\ c.run # 0 /\ c.emit # << >> /\ UNCHANGED rows
  BY <1>1, Here DEF InsertEvent, Fits, ShapeFits
<1>3. PICK old \in Runs : old = runs[c.run] /\ old.row = c.row
  BY <1>1, <1>2, MyRun DEF RunFits
<1>4. event \in S /\ event.type = Head(c.emit) /\ old.events \in Seq(S)
  <2>1. c.next \in Nat /\ c.emit \in Seq(Types) /\ old.events \in Seq(S)
    BY <1>1, CallParts, RunParts
  <2>2. Head(c.emit) \in Types
    BY <1>2, <2>1
  <2> QED BY <1>1, <2>1, <2>2
<1>5. PICK run : run = [old EXCEPT !.events = Append(@, event)]
  OBVIOUS
<1>6. runs' = [runs EXCEPT ![c.run] = run]
  BY <1>1, <1>2, <1>3, <1>5, MyRun DEF InsertEvent
<1>7. /\ call' = [call EXCEPT ![p] = call'[p]]
      /\ \/ Return(p) /\ c.at = "return" /\ Len(c.emit) = 1 /\ call'[p].run = 0
         \/ Goes(p, c.at, c.run, Tail(c.emit), c.outcome)
            /\ ~(c.at = "return" /\ Len(c.emit) = 1)
  <2>1. CASE c.at = "return" /\ Len(c.emit) = 1
    <3>1. Return(p)
      BY <1>1, <2>1 DEF InsertEvent
    <3>2. call' = [call EXCEPT ![p] = call'[p]] /\ call'[p].run = 0
      BY <3>1, IdleParts DEF Return, Become, Inv, TypeOK
    <3> QED BY <2>1, <3>1, <3>2
  <2>2. CASE ~(c.at = "return" /\ Len(c.emit) = 1)
    <3>1. ~Return(p)
      <4> DEFINE next == [c EXCEPT !.emit = Tail(@), !.next = 0]
      <4>1. Become(p, next) /\ next.at = c.at
        BY <1>1, <2>2 DEF InsertEvent, Calls
      <4>2. c.at # "idle"
        BY <1>1, <1>2, Here, IdleParts DEF Fits, RowFits
      <4> HIDE DEF next
      <4>3. call'[p].at = c.at
        BY <4>1 DEF Become, Inv, TypeOK
      <4> QED BY <4>2, <4>3, IdleParts DEF Return, Become, Inv, TypeOK
    <3>2. Goes(p, c.at, c.run, Tail(c.emit), c.outcome)
      BY <1>1, <3>1, GoesOrReturns
    <3> QED BY <2>2, <3>2 DEF Goes
  <2> QED BY <2>1, <2>2
<1>0. S = [sequence: Nat, type: Types]
  OBVIOUS
<1> HIDE DEF event, S
<1>8. run \in Runs /\ run.row = old.row /\ run.child = old.child
      /\ run.events = Append(old.events, event)
  <2>1. Append(old.events, event) \in Seq(S)
    BY <1>4
  <2> QED BY <1>0, <1>5, <2>1 DEF Runs
<1>9. ASSUME ~Pruned(c.row)
      PROVE  /\ Timely(run.events)
             /\ call'[p].run # 0 => Told(call'[p], run)
  <2> DEFINE type == Head(c.emit)
  <2>1. Told(c, old)
    BY <1>1, <1>2, <1>3, <1>9, ToldBefore
  <2>2. run.events \in Seq(S)
    BY <1>4, <1>8
  <2>3. /\ old.events = << >> => Only(run.events, type)
        /\ Only(old.events, "queued") /\ type = "running" => Opened(run.events)
        /\ Opened(old.events) /\ type = "stdout" => Opened(run.events)
        /\ Opened(old.events) /\ type \in Ends => Timely(run.events)
        /\ Only(old.events, "stderr") /\ type = "blocked" => Timely(run.events)
    <3>1. event \in S /\ event.type = type /\ old.events \in Seq(S)
      BY <1>4
    <3> HIDE DEF type
    <3>2. LET new == Append(old.events, event) IN
          /\ old.events = << >> => Only(new, type)
          /\ Only(old.events, "queued") /\ type = "running" => Opened(new)
          /\ Opened(old.events) /\ type = "stdout" => Opened(new)
          /\ Opened(old.events) /\ type \in Ends => Timely(new)
          /\ Only(old.events, "stderr") /\ type = "blocked" => Timely(new)
      BY <1>0, <3>1, TimelyAppended
    <3> QED BY <1>8, <3>2
  <2>4. Opened(run.events) => Timely(run.events)
    BY <1>0, <2>2, TimelyOpened
  <2>5. Only(run.events, "queued") \/ Only(run.events, "stderr") => Timely(run.events)
    BY <1>0, <2>2, TimelyShort
  <2>6. c.at \in {"start", "spawn", "wait", "drain", "finish", "return"}
    <3>1. c.at # "idle" /\ c.at \notin Early
      BY <1>1, <1>2, Here, IdleParts DEF Fits, RowFits, ShapeFits
    <3>2. c.at \notin {"check", "insert"}
      BY <1>2, <2>1 DEF Told
    <3> QED BY <3>1, <3>2, CallParts DEF Steps, Early
  <2>7. CASE c.at = "start"
    <3>1. old.events = << >> /\ c.emit = <<"queued">>
      BY <1>2, <2>1, <2>7 DEF Told
    <3>2. Only(run.events, "queued") /\ Tail(c.emit) = << >>
      BY <2>3, <3>1, HeadsAndTails
    <3> QED BY <1>7, <2>5, <2>7, <3>2, <1>1 DEF Goes, Told
  <2>8. CASE c.at = "spawn"
    <3>1. Only(old.events, "queued") /\ c.emit = <<"running">>
      BY <1>2, <2>1, <2>8 DEF Told
    <3>2. Opened(run.events) /\ Tail(c.emit) = << >>
      BY <2>3, <3>1, HeadsAndTails
    <3> QED BY <1>7, <2>4, <2>8, <3>2, <1>1 DEF Goes, Told
  <2>9. CASE c.at \in {"wait", "drain", "finish"}
    <3>1. Opened(old.events) /\ c.emit = <<"stdout">>
      BY <1>2, <2>1, <2>9 DEF Told
    <3>2. Opened(run.events) /\ Tail(c.emit) = << >>
      BY <2>3, <3>1, HeadsAndTails
    <3> QED BY <1>7, <2>4, <2>9, <3>2, <1>1 DEF Goes, Told
  <2>10. CASE c.at = "return"
    <3>1. CASE Opened(old.events) /\ \E end \in Ends : c.emit = <<end>>
      <4>1. Len(c.emit) = 1 /\ type \in Ends
        BY <3>1, HeadsAndTails
      <4> QED BY <1>7, <2>3, <2>10, <3>1, <4>1
    <3>2. CASE /\ old.child = "none" /\ old.events = << >> /\ c.emit = <<"stderr", "blocked">>
      <4>1. /\ Only(run.events, "stderr") /\ Len(c.emit) = 2
            /\ Tail(c.emit) = <<"blocked">>
        BY <2>3, <3>2, HeadsAndTails
      <4>2. call'[p].at = "return" /\ call'[p].emit = <<"blocked">>
        <5>1. Goes(p, c.at, c.run, Tail(c.emit), c.outcome)
          BY <1>7, <4>1
        <5> QED BY <2>10, <4>1, <5>1 DEF Goes
      <4> QED BY <1>8, <2>5, <3>2, <4>1, <4>2 DEF Told
    <3>3. CASE Only(old.events, "stderr") /\ c.emit = <<"blocked">>
      <4>1. Len(c.emit) = 1 /\ type = "blocked"
        BY <3>3, HeadsAndTails
      <4> QED BY <1>7, <2>3, <2>10, <3>3, <4>1
    <3> QED BY <1>2, <2>1, <2>10, <3>1, <3>2, <3>3 DEF Told
  <2> QED BY <2>6, <2>7, <2>8, <2>9, <2>10
<1>10. \/ call'[p].run = 0
       \/ call'[p].run = call[p].run /\ call'[p].row = call[p].row /\ call'[p].run # 0
  BY <1>1, <1>2, <1>7 DEF Goes
<1> QED BY <1>1, <1>2, <1>3, <1>6, <1>7, <1>8, <1>9, <1>10, TellingChanged

LEMMA TellingQueue ==
  ASSUME Inv, Inv', Telling, NEW p \in Procs, Queue(p)
  PROVE  Telling'
<1>1. call[p].run = 0 /\ call[p].row \in Rows
  BY Here DEF Queue, AtGate, At, Fits, RowFits, ShapeFits, Early
<1>2. PICK run \in Runs : run = NewRun(call[p].row)
  BY <1>1, NewRunType
<1>3. run.events = << >> /\ runs' = Append(runs, run) /\ UNCHANGED rows
  BY <1>1, <1>2, NewRunType DEF Queue
<1>4. \A c : c.at = "start" /\ c.emit = <<"queued">> => Told(c, run)
  BY <1>3 DEF Told
<1> QED BY <1>1, <1>3, <1>4, Goings, TellingFresh

LEMMA TellingInsertRun ==
  ASSUME Inv, Inv', Telling, NEW p \in Procs, InsertRun(p)
  PROVE  Telling'
<1>0. UNCHANGED rows /\ call[p].at = "insert" /\ call[p].emit = << >>
  BY DEF InsertRun, At
<1>1. CASE call[p].run = 0
  <2>1. call[p].row \in Rows
    BY <1>0, Here DEF Fits, RowFits
  <2>2. PICK new \in Runs : new = NewRun(call[p].row)
    BY <2>1, NewRunType
  <2>3. "blocked" \in Ends \cup {"open", "deleted"} /\ "none" \in Children
    BY DEF Ends, Children
  <2>4. PICK run \in Runs : run = [new EXCEPT !.status = "blocked"]
    BY <2>3, RunEdited
  <2>5. run.events = << >> /\ run.child = "none" /\ runs' = Append(runs, run)
    BY <1>1, <2>1, <2>2, <2>3, <2>4, RunEdited, NewRunType DEF InsertRun
  <2>6. \A c : c.at = "return" /\ c.emit = <<"stderr", "blocked">> => Told(c, run)
    BY <2>5 DEF Told
  <2> QED BY <1>0, <1>1, <2>5, <2>6, GoesOrReturns, TellingFresh
<1>2. CASE call[p].run # 0 /\ Return(p)
  <2>1. CASE runs[call[p].run].status = "open"
    <3>1. call'[p].at = "return"
      <4> DEFINE next == [call[p] EXCEPT !.at = "return", !.emit = <<call[p].outcome>>]
      <4>1. Become(p, next) /\ next.at = "return"
        BY <1>2, <2>1, Here DEF InsertRun, Calls
      <4> HIDE DEF next
      <4> QED BY <4>1 DEF Become, Inv, TypeOK
    <3> QED BY <1>2, <3>1, IdleParts DEF Return, Become, Inv, TypeOK
  <2>2. CASE runs[call[p].run].status # "open"
    BY <1>0, <1>2, <2>2, TellingReturn DEF InsertRun
  <2> QED BY <2>1, <2>2
<1>3. CASE call[p].run # 0 /\ ~Return(p)
  <2>1. PICK old \in Runs : old = runs[call[p].run] /\ old.row = call[p].row
    BY <1>3, MyRun DEF RunFits
  <2>2. call[p].outcome \in Ends /\ "none" \in Children
    BY Here, CallParts DEF Children
  <2>3. PICK run \in Runs : run = [old EXCEPT !.status = call[p].outcome]
    BY <2>2, RunEdited
  <2>4. /\ runs' = [runs EXCEPT ![call[p].run] = run]
        /\ run.row = old.row /\ run.events = old.events
    BY <1>3, <2>1, <2>2, <2>3, MyRun, RunEdited DEF InsertRun
  <2>5. Goes(p, "return", call[p].run, <<call[p].outcome>>, call[p].outcome)
    BY <1>3, GoesOrReturns
  <2>6. ASSUME ~Pruned(call[p].row) PROVE Timely(run.events) /\ Told(call'[p], run)
    <3>1. Told(call[p], old) /\ Timely(old.events)
      BY <1>3, <2>1, <2>6, ToldBefore, RunToldBefore
    <3>2. Opened(run.events)
      BY <1>0, <2>4, <3>1 DEF Told
    <3> QED BY <2>2, <2>4, <2>5, <3>1, <3>2 DEF Told, Goes
  <2> QED BY <1>0, <1>3, <2>1, <2>4, <2>5, <2>6, TellingChanged DEF Goes
<1> QED BY <1>1, <1>2, <1>3

\* The except branch: the command was started, so its run was opened.
LEMMA TellingFault ==
  ASSUME Inv, Inv', Telling, NEW p \in Procs, Fault(p)
  PROVE  Telling'
<1>0. UNCHANGED <<rows, runs>>
  BY DEF Fault
<1>1. CASE Return(p)
  BY <1>0, <1>1, TellingReturn
<1>2. CASE ~Return(p)
  <2>1. Goes(p, "finish", call[p].run, << >>, "failed") /\ Covered(p)
    BY <1>2, GoesOrReturns DEF Fault
  <2>2. call[p].run # 0 /\ runs[call[p].run].child # "none"
    BY <2>1 DEF Covered, ChildOf
  <2>3. ASSUME ~Pruned(call[p].row) PROVE Opened(runs[call[p].run].events)
    <3>1. Told(call[p], runs[call[p].run]) /\ RunFits(call[p], runs[call[p].run])
      BY <2>2, <2>3, ToldBefore, MyRun
    <3>2. call[p].at \in {"wait", "drain", "finish", "check", "insert", "return"}
      <4>1. call[p] \in Calls /\ call[p].at \notin Early \cup {"idle", "start", "spawn"}
        BY <2>2, <3>1, Here, IdleParts DEF Fits, RowFits, ShapeFits, RunFits
      <4> QED BY <4>1, CallParts DEF Steps, Early
    <3> QED BY <2>2, <3>1, <3>2 DEF Told
  <2>4. CallTold(call[p])'
    <3>1. ASSUME ~Pruned(call[p].row)' PROVE Told(call[p], runs[call[p].run])'
      <4>1. ~Pruned(call[p].row)
        BY <1>0, <2>1, <3>1 DEF Pruned, Goes
      <4> QED BY <1>0, <2>1, <2>3, <4>1 DEF Told, Goes, Opened
    <3> QED BY <3>1 DEF CallTold
  <2> QED BY <1>0, <2>1, <2>4, TellingAlone DEF Goes, Pruned
<1> QED BY <1>1, <1>2

\* Others change rows or runs: a run that is still there tells what it told.
LEMMA TellingByOthers ==
  ASSUME Inv, Inv', Telling, UNCHANGED call, Len(runs') = Len(runs),
         \A r \in Rows : Pruned(r) => Pruned(r)',
         \A j \in 1..Len(runs) :
           /\ runs'[j].row = runs[j].row
           /\ Pruned(runs[j].row)' \/ SameRun(runs[j], runs'[j])
  PROVE  Telling'
<1>1. ASSUME NEW j \in 1..Len(runs) PROVE RunTold(runs[j])'
  <2>1. j \in DOMAIN runs /\ runs[j] \in Runs
    BY <1>1, DomainOfRuns DEF Inv, TypeOK
  <2>2. RunTold(runs[j]) /\ runs[j].row \in Rows /\ runs'[j].row = runs[j].row
    BY <1>1, <2>1, RunParts DEF Telling
  <2>3. CASE Pruned(runs[j].row)'
    BY <2>2, <2>3 DEF RunTold, Pruned
  <2>4. CASE ~Pruned(runs[j].row)' /\ SameRun(runs[j], runs'[j])
    <3>1. ~Pruned(runs[j].row)
      BY <2>2, <2>4 DEF Pruned
    <3> QED BY <2>2, <2>4, <3>1 DEF RunTold, SameRun, Timely
  <2> QED BY <1>1, <2>3, <2>4
<1>2. ASSUME NEW q \in Procs PROVE CallTold(call[q])'
  <2>1. ASSUME call[q].run # 0, ~Pruned(call[q].row)' PROVE Told(call[q], runs[call[q].run])'
    <3>1. /\ call[q].run \in 1..Len(runs) /\ runs[call[q].run].row = call[q].row
          /\ call[q].row \in Rows
      BY <2>1, MyRun, RunParts, DomainOfRuns DEF RunFits, Inv
    <3>2. ~Pruned(call[q].row)
      BY <2>1, <3>1 DEF Pruned
    <3>3. SameRun(runs[call[q].run], runs'[call[q].run])
      BY <2>1, <3>1 DEF Pruned
    <3>4. Told(call[q], runs[call[q].run])
      BY <2>1, <3>2, ToldBefore
    <3> QED BY <3>3, <3>4 DEF Told, SameRun, Opened, Only
  <2> QED BY <2>1 DEF CallTold
<1>3. DOMAIN runs' = 1..Len(runs)
  BY DEF Inv, TypeOK
<1> QED BY <1>1, <1>2, <1>3 DEF Telling

LEMMA TellingEnvironment ==
  ASSUME Inv, Inv', Telling, Environment
  PROVE  Telling'
<1>1. \A j \in 1..Len(runs) : SameRun(runs[j], runs[j])
  BY DEF SameRun
<1>2. ASSUME NEW p \in Procs, NEW r \in Rows, NEW op, Start(p, op, r) PROVE Telling'
  BY <1>2, TellingReadRow DEF Start
<1>3. ASSUME NEW p \in Procs, Crash(p) PROVE Telling'
  BY <1>3, TellingReturn DEF Crash
<1>4. ASSUME NEW r \in Rows, NEW row, rows' = [rows EXCEPT ![r] = row],
             rows[r].status # "pruned", UNCHANGED <<runs, call>>
      PROVE  Telling'
  <2>1. \A a \in Rows : Pruned(a) => Pruned(a)'
    BY <1>4, World DEF Pruned
  <2> QED BY <1>1, <1>4, <2>1, TellingByOthers
<1>5. ASSUME NEW r \in Rows, NEW needsApproval, NEW tool, Propose(r, needsApproval, tool)
      PROVE  Telling'
  BY <1>4, <1>5 DEF Propose
<1>6. ASSUME NEW r \in Rows, Elapse(r) PROVE Telling'
  <2>1. rows' = [rows EXCEPT ![r] = [rows[r] EXCEPT !.due = TRUE]]
    BY <1>6, World DEF Elapse
  <2> QED BY <1>4, <1>6, <2>1 DEF Elapse, Expirable
<1>7. ASSUME NEW r \in Rows, NEW tool, Withdraw(r, tool) PROVE Telling'
  <2>1. rows' = [rows EXCEPT ![r] = [rows[r] EXCEPT !.tool = tool]]
    BY <1>7, World DEF Withdraw
  <2> QED BY <1>4, <1>7, <2>1 DEF Withdraw, Exists
<1>8. ASSUME NEW k, NEW how, ChildExits(k, how) PROVE Telling'
  <2>1. how # "alive" /\ k \in DOMAIN runs /\ runs[k].child = "alive" /\ UNCHANGED <<rows, call>>
        /\ runs' = [runs EXCEPT ![k].child = how]
    BY <1>8 DEF ChildExits, Exited
  <2>2. runs \in Seq(Runs)
    BY World
  <2>3. Len(runs') = Len(runs)
    BY <2>1, <2>2
  <2>4. ASSUME NEW j \in 1..Len(runs) PROVE SameRun(runs[j], runs'[j])
    <3>1. runs[j] \in Runs /\ runs'[j] = IF j = k THEN [runs[j] EXCEPT !.child = how] ELSE runs[j]
      BY <2>1, <2>2
    <3> QED BY <2>1, <3>1 DEF SameRun, Runs
  <2> QED BY <2>1, <2>3, <2>4, TellingByOthers DEF Pruned, SameRun
<1>9. ASSUME NEW r \in Rows, Prune(r) PROVE Telling'
  <2> DEFINE Deleted(run) == [run EXCEPT !.events = << >>,
                                       !.status = IF @ = "open" THEN "open" ELSE "deleted"]
  <2>1. /\ rows' = [rows EXCEPT ![r].status = "pruned"] /\ UNCHANGED call
        /\ runs' = [k \in DOMAIN runs |-> IF runs[k].row # r THEN runs[k] ELSE Deleted(runs[k])]
    BY <1>9 DEF Prune
  <2>2. \A run \in Runs : Deleted(run).row = run.row
    BY DEF Runs
  <2> HIDE DEF Deleted
  <2>3. rows'[r].status = "pruned" /\ \A a \in Rows \ {r} : rows'[a] = rows[a]
    <3>1. rows'[r] = [rows[r] EXCEPT !.status = "pruned"] /\ rows[r] \in ActionRows
      BY <2>1, World
    <3> QED BY <2>1, <3>1, World DEF ActionRows
  <2>4. \A a \in Rows : Pruned(a) => Pruned(a)'
    BY <2>3 DEF Pruned
  <2>5. runs \in Seq(Runs) /\ DOMAIN runs' = DOMAIN runs /\ runs' \in Seq(Runs)
    BY <2>1, World DEF Inv, TypeOK
  <2>6. ASSUME NEW j \in 1..Len(runs)
        PROVE  /\ runs'[j].row = runs[j].row
               /\ Pruned(runs[j].row)' \/ SameRun(runs[j], runs'[j])
    <3>1. runs[j] \in Runs /\ runs'[j] = IF runs[j].row # r THEN runs[j] ELSE Deleted(runs[j])
      BY <2>1, <2>5
    <3>2. runs'[j].row = runs[j].row
      BY <2>2, <3>1
    <3> QED BY <2>3, <3>1, <3>2 DEF Pruned, SameRun
  <2>7. Len(runs') = Len(runs)
    BY <2>5
  <2> QED BY <2>1, <2>4, <2>6, <2>7, TellingByOthers
<1> QED
  BY <1>2, <1>3, <1>5, <1>6, <1>7, <1>8, <1>9, TellingFault, TellingQuiet
     DEF Environment, StartSafe

LEMMA NextTelling == Inv /\ Inv' /\ Telling /\ [Next]_vars => Telling'
<1> SUFFICES ASSUME Inv, Inv', Telling, [Next]_vars PROVE Telling'
  OBVIOUS
<1>1. ASSUME NEW p \in Procs, Step(p) PROVE Telling'
  BY <1>1, TellingEarly, TellingQuiet, TellingChild, TellingEvent, TellingQueue,
     TellingInsertRun DEF Step
<1>2. CASE UNCHANGED vars
  BY <1>2, TellingByOthers DEF vars, Pruned, SameRun
<1> QED BY <1>1, <1>2, TellingEnvironment DEF Next

LEMMA InitTelling == Init => Telling
<1> SUFFICES ASSUME Init PROVE Telling
  OBVIOUS
<1>1. runs = << >> /\ \A p \in Procs : call[p] = Idle
  BY DEF Init
<1> QED BY <1>1, IdleParts DEF Telling, CallTold

-----------------------------------------------------------------------------
(* What a row says of its runs.                                              *)

Agrees(r) ==
  \E k \in EndedRuns(r) :
    /\ runs[k].status = rows[r].status
    /\ \A j \in EndedRuns(r) : j > k => runs[j].status = "blocked" /\ runs[j].child = "none"

Settled(r) == rows[r].status \in Ends => Agrees(r)

\* What a call has yet to record of its row: its run is the latest of the row, and from
\* the update of the row to insert_run the row says what the run will say.
Owes(c) ==
  c.at # "idle" =>
    /\ c.at = "mark" => c.outcome = "blocked"
    /\ c.run # 0 => \A k \in 1..Len(runs) : runs[k].row = c.row => k <= c.run
    /\ c.at \in {"check", "insert"} /\ c.run # 0 => rows[c.row].status = c.outcome
    /\ c.at \in {"check", "insert"} /\ c.run = 0 =>
         c.outcome = "blocked" /\ (rows[c.row].status = "blocked" \/ Settled(c.row))
    /\ c.at \notin {"check", "insert"} => Settled(c.row)

\* As long as nothing went wrong.
Agreed ==
  mishaps = {} =>
    /\ \A r \in Rows : (\A p \in Procs : ~Active(p, r)) => Settled(r)
    /\ \A p \in Procs : Owes(call[p])

\* A run as far as the agreement is concerned.
RunStays(old, new) ==
  /\ new.status = old.status
  /\ old.status \in Ends /\ old.child = "none" => new.child = "none"

Harmless(run) == run.status \in Ends => run.status = "blocked" /\ run.child = "none"

\* The runs of the row r stay, and new ones do not speak for it.
RunsStay(r) ==
  /\ Len(runs) <= Len(runs')
  /\ \A j \in 1..Len(runs) :
       /\ runs'[j].row = runs[j].row
       /\ runs[j].row = r => RunStays(runs[j], runs'[j])
  /\ \A j \in 1..Len(runs') : j > Len(runs) /\ runs'[j].row = r => Harmless(runs'[j])

LEMMA SettledStays ==
  ASSUME TypeOK, TypeOK', NEW r, rows'[r].status = rows[r].status, RunsStay(r), Settled(r)
  PROVE  Settled(r)'
<1> SUFFICES ASSUME rows[r].status \in Ends PROVE Agrees(r)'
  BY DEF Settled
<1>1. /\ DOMAIN runs = 1..Len(runs) /\ DOMAIN runs' = 1..Len(runs') /\ Len(runs) <= Len(runs')
      /\ Len(runs) \in Nat /\ Len(runs') \in Nat
  BY DEF TypeOK, RunsStay
<1>2. PICK k \in EndedRuns(r) :
        /\ runs[k].status = rows[r].status
        /\ \A j \in EndedRuns(r) : j > k => runs[j].status = "blocked" /\ runs[j].child = "none"
  BY DEF Settled, Agrees
<1>3. k \in 1..Len(runs) /\ runs[k].row = r /\ runs[k].status \in Ends
  BY <1>1, <1>2 DEF EndedRuns
<1>4. runs'[k].row = r /\ runs'[k].status = runs[k].status
  BY <1>3 DEF RunsStay, RunStays
<1>5. k \in EndedRuns(r)'
  BY <1>1, <1>3, <1>4 DEF EndedRuns
<1>6. ASSUME NEW j \in EndedRuns(r)', j > k
      PROVE  runs'[j].status = "blocked" /\ runs'[j].child = "none"
  <2>1. j \in 1..Len(runs') /\ runs'[j].row = r /\ runs'[j].status \in Ends
    BY <1>1 DEF EndedRuns
  <2>2. CASE j > Len(runs)
    BY <2>1, <2>2 DEF RunsStay, Harmless
  <2>3. CASE j <= Len(runs)
    <3>1. j \in 1..Len(runs) /\ runs[j].row = r
      BY <1>1, <2>1, <2>3 DEF RunsStay
    <3>2. RunStays(runs[j], runs'[j])
      BY <3>1 DEF RunsStay
    <3>3. j \in EndedRuns(r)
      BY <1>1, <2>1, <3>1, <3>2 DEF EndedRuns, RunStays
    <3> QED BY <1>2, <1>6, <3>2, <3>3 DEF RunStays, EndedRuns
  <2> QED BY <1>1, <2>1, <2>2, <2>3
<1> QED BY <1>2, <1>4, <1>5, <1>6 DEF Agrees

LEMMA AllRunsStay ==
  ASSUME Inv, UNCHANGED runs
  PROVE  \A r : RunsStay(r)
BY DomainOfRuns DEF RunsStay, RunStays, Inv

\* A call that is about another row owes what it owed.
LEMMA OwesStays ==
  ASSUME Inv, Inv', NEW c \in Calls, Owes(c), c.at # "idle" => c.row \in Rows,
         rows'[c.row].status = rows[c.row].status, RunsStay(c.row),
         \A j \in 1..Len(runs') : j > Len(runs) => runs'[j].row # c.row
  PROVE  Owes(c)'
<1> SUFFICES ASSUME c.at # "idle" PROVE Owes(c)'
  BY DEF Owes
<1>1. Len(runs) \in Nat /\ Len(runs') \in Nat /\ TypeOK /\ TypeOK'
  BY DEF Inv, TypeOK
<1>2. Settled(c.row) => Settled(c.row)'
  BY <1>1, SettledStays
<1>3. c.run # 0 => \A k \in 1..Len(runs') : runs'[k].row = c.row => k <= c.run
  <2> SUFFICES ASSUME c.run # 0, NEW k \in 1..Len(runs'), runs'[k].row = c.row
               PROVE  k <= c.run
    OBVIOUS
  <2>1. k \in 1..Len(runs) /\ runs[k].row = c.row
    BY <1>1 DEF RunsStay
  <2> QED BY <2>1 DEF Owes
<1> QED BY <1>2, <1>3 DEF Owes

\* A step of p about the row r, which the calls of the others are not about.
LEMMA AgreedGoesOn ==
  ASSUME Inv, Inv', Agreed, mishaps = {}, NEW p \in Procs, NEW r \in Rows,
         call' = [call EXCEPT ![p] = call'[p]],
         call[p].at # "idle" => call[p].row = r,
         call'[p].at # "idle" => call'[p].row = r,
         \A q \in Procs \ {p} : call[q].at # "idle" => call[q].row # r,
         \A a \in Rows \ {r} : rows'[a].status = rows[a].status /\ RunsStay(a),
         \A j \in 1..Len(runs') : j > Len(runs) => runs'[j].row = r,
         call'[p].at = "idle" => Settled(r)',
         Owes(call[p])'
  PROVE  Agreed'
<1>1. \A q \in Procs \ {p} : call'[q] = call[q]
  BY DEF Inv, TypeOK
<1>2. ASSUME NEW a \in Rows, \A q \in Procs : ~Active(q, a)' PROVE Settled(a)'
  <2>1. CASE a = r
    <3>1. call'[p].at = "idle"
      BY <1>2, <2>1 DEF Active
    <3> QED BY <2>1, <3>1
  <2>2. CASE a # r
    <3>1. \A q \in Procs : ~Active(q, a)
      BY <1>1, <1>2, <2>2 DEF Active
    <3>2. Settled(a)
      BY <3>1 DEF Agreed
    <3> QED BY <2>2, <3>2, SettledStays DEF Inv
  <2> QED BY <2>1, <2>2
<1>3. ASSUME NEW q \in Procs, q # p PROVE Owes(call[q])'
  <2>1. PICK c \in Calls : c = call[q]
    BY Here
  <2>2. Owes(c) /\ c = call'[q]
    BY <1>1, <1>3, <2>1 DEF Agreed
  <2>3. CASE c.at = "idle"
    BY <2>2, <2>3 DEF Owes
  <2>4. CASE c.at # "idle"
    <3>1. c.row \in Rows /\ c.row # r
      BY <1>3, <2>1, <2>4, Here DEF Fits, RowFits
    <3>2. Owes(c)'
      BY <2>2, <3>1, OwesStays
    <3> QED BY <2>2, <3>2
  <2> QED BY <2>3, <2>4
<1> QED BY <1>2, <1>3 DEF Agreed

\* The row a call is about is no other call's, and it is there.
LEMMA MyRow ==
  ASSUME Inv, Paid, mishaps = {}, NEW p \in Procs, call[p].at # "idle"
  PROVE  /\ call[p].row \in Rows /\ Exists(call[p].row)
         /\ \A q \in Procs \ {p} : call[q].at # "idle" => call[q].row # call[p].row
<1>1. call[p].row \in Rows /\ Exists(call[p].row)
  BY Here DEF Fits, RowFits, Exists, Pruned
<1>2. \A q \in Procs \ {p} : call[q].at # "idle" => call[q].row # call[p].row
  BY DEF Paid
<1> QED BY <1>1, <1>2

\* The status of a row that is there is written, and nothing else.
LEMMA StatusWritten ==
  ASSUME Inv, NEW r \in Rows, Exists(r), NEW s, SetStatus(r, s)
  PROVE  rows'[r].status = s /\ \A a \in Rows \ {r} : rows'[a] = rows[a]
<1>1. rows' = [rows EXCEPT ![r].status = s]
  BY DEF SetStatus
<1>2. rows'[r] = [rows[r] EXCEPT !.status = s] /\ rows[r] \in ActionRows
  BY <1>1, World
<1> QED BY <1>1, <1>2, World DEF ActionRows

\* A step of a call that opens no run and records no end.
LEMMA AgreedAlone ==
  ASSUME Inv, Inv', Paid, Agreed, mishaps = {}, NEW p \in Procs, call[p].at # "idle",
         NEW r, r = call[p].row,
         call' = [call EXCEPT ![p] = call'[p]],
         call'[p].at # "idle" => call'[p].row = r,
         UNCHANGED rows \/ \E s \in Statuses : SetStatus(r, s),
         Len(runs') = Len(runs), \A a \in Rows : RunsStay(a),
         call'[p].at = "idle" => Settled(r)',
         Owes(call[p])'
  PROVE  Agreed'
<1>1. \A a \in Rows \ {r} : rows'[a].status = rows[a].status /\ RunsStay(a)
  BY MyRow, StatusWritten
<1>2. \A j \in 1..Len(runs') : ~(j > Len(runs))
  BY DEF Inv, TypeOK
<1> QED BY <1>1, <1>2, MyRow, AgreedGoesOn

\* A step of a call that has not updated its row, to a place where it has not either.
LEMMA AgreedOpen ==
  ASSUME Inv, Inv', Paid, Agreed, mishaps = {}, NEW p \in Procs,
         call[p].at \notin {"idle", "check", "insert"},
         call' = [call EXCEPT ![p] = call'[p]],
         \/ call'[p].at = "idle"
         \/ /\ call'[p].row = call[p].row
            /\ call'[p].run \in {0, call[p].run}
            /\ call'[p].at \notin {"mark", "check", "insert"},
         \/ UNCHANGED rows
         \/ \E s \in Statuses \ Ends : SetStatus(call[p].row, s),
         Len(runs') = Len(runs), \A a \in Rows : RunsStay(a)
  PROVE  Agreed'
<1>1. PICK r \in Rows : r = call[p].row /\ Exists(r)
  BY MyRow
<1>2. PICK c \in Calls : c = call[p] /\ Owes(c)
  BY Here DEF Agreed
<1>3. Settled(r)
  BY <1>1, <1>2 DEF Owes
<1>4. Settled(r)'
  <2>1. CASE UNCHANGED rows
    BY <1>3, <2>1, SettledStays DEF Inv
  <2>2. ASSUME NEW s \in Statuses \ Ends, SetStatus(r, s) PROVE Settled(r)'
    BY <1>1, <2>2, StatusWritten DEF Settled
  <2> QED BY <1>1, <2>1, <2>2
<1>5. Owes(call[p])'
  <2>1. CASE call'[p].at = "idle"
    BY <2>1 DEF Owes
  <2>2. CASE call'[p].at # "idle"
    <3>1. c.run # 0 => \A k \in 1..Len(runs') : runs'[k].row = r => k <= c.run
      BY <1>1, <1>2 DEF Owes, RunsStay
    <3>2. call'[p].row = r /\ call'[p].run \in {0, c.run}
          /\ call'[p].at \notin {"mark", "check", "insert"}
      BY <1>1, <1>2, <2>2
    <3> QED BY <1>4, <3>1, <3>2 DEF Owes
  <2> QED BY <2>1, <2>2
<1>6. UNCHANGED rows \/ \E s \in Statuses : SetStatus(r, s)
  BY <1>1
<1> QED BY <1>1, <1>4, <1>5, <1>6, AgreedAlone

\* A step after which the call owes what it owed.
LEMMA AgreedSame ==
  ASSUME Inv, Inv', Paid, Agreed, mishaps = {}, NEW p \in Procs, call[p].at # "idle",
         NEW at, NEW emit, Goes(p, at, call[p].run, emit, call[p].outcome),
         at = call[p].at \/ (call[p].at = "check" /\ at = "insert"),
         UNCHANGED rows, Len(runs') = Len(runs), \A a \in Rows : RunsStay(a)
  PROVE  Agreed'
<1>1. PICK r \in Rows : r = call[p].row
  BY MyRow
<1>2. PICK c \in Calls : c = call[p] /\ Owes(c)
  BY Here DEF Agreed
<1>3. Settled(r) => Settled(r)'
  BY SettledStays DEF Inv
<1>4. c.run # 0 => \A k \in 1..Len(runs') : runs'[k].row = r => k <= c.run
  BY <1>1, <1>2 DEF Owes, RunsStay
<1>5. /\ call'[p].at = at /\ call'[p].row = r /\ call'[p].run = c.run
      /\ call'[p].outcome = c.outcome
  BY <1>1, <1>2 DEF Goes
<1>6. Owes(call[p])'
  BY <1>1, <1>2, <1>3, <1>4, <1>5 DEF Owes
<1> QED BY <1>1, <1>5, <1>6, AgreedAlone DEF Goes

LEMMA AgreedReturn ==
  ASSUME Inv, Inv', Paid, Agreed, mishaps = {}, NEW p \in Procs, Return(p),
         call[p].at \notin {"idle", "check", "insert"},
         UNCHANGED rows, Len(runs') = Len(runs), \A a \in Rows : RunsStay(a)
  PROVE  Agreed'
<1>1. call' = [call EXCEPT ![p] = call'[p]] /\ call'[p].at = "idle"
  BY IdleParts DEF Return, Become, Inv, TypeOK
<1> QED BY <1>1, AgreedOpen

\* The steps before a command has a run.
LEMMA AgreedEarly ==
  ASSUME Inv, Inv', Paid, Agreed, mishaps = {}, NEW p \in Procs,
         WriteExpired(p) \/ Reread(p) \/ RefuseDecision(p) \/ CancelGuard(p) \/ Decide(p)
  PROVE  Agreed'
<1>1. call[p].at \in {"expire", "reread", "gate"} /\ UNCHANGED runs
  BY DEF WriteExpired, Reread, RefuseDecision, CancelGuard, Decide, At
<1>2. Len(runs') = Len(runs) /\ \A a \in Rows : RunsStay(a)
  BY <1>1, AllRunsStay
<1>3. CASE WriteExpired(p)
  <2>1. "expired" \in Statuses \ Ends
    BY DEF Statuses, Ends
  <2>2. SetStatus(call[p].row, "expired")
    BY <1>3 DEF WriteExpired
  <2> QED BY <1>1, <1>2, <1>3, <2>1, <2>2, Goings, AgreedOpen DEF Goes
<1>4. CASE Reread(p)
  <2>1. UNCHANGED rows
    BY <1>4 DEF Reread
  <2> QED BY <1>1, <1>2, <1>4, <2>1, Goings, AgreedOpen DEF Goes
<1>5. CASE RefuseDecision(p)
  BY <1>1, <1>2, <1>5, AgreedReturn DEF RefuseDecision
<1>6. CASE CancelGuard(p)
  <2>1. CASE Return(p)
    BY <1>1, <1>2, <1>6, <2>1, AgreedReturn DEF CancelGuard
  <2>2. CASE ReadRow(p, "canceled", call[p].row)
    <3>1. /\ call' = [call EXCEPT ![p] = call'[p]] /\ call'[p].at \in {"expire", "gate"}
          /\ call'[p].row = call[p].row /\ call'[p].run = 0
      BY <2>2 DEF ReadRow, Become, Idle, Inv, TypeOK
    <3>2. UNCHANGED rows
      BY <1>6 DEF CancelGuard
    <3> QED BY <1>1, <1>2, <3>1, <3>2, AgreedOpen
  <2> QED BY <1>6, <2>1, <2>2 DEF CancelGuard
<1>7. CASE Decide(p)
  <2>1. call' = [call EXCEPT ![p] = call'[p]] /\ call'[p].at = "idle"
    BY <1>7, IdleParts DEF Decide, Return, Become, Inv, TypeOK
  <2>2. SetStatus(call[p].row, call[p].op) /\ call[p].op \in Statuses \ Ends
    <3>1. call[p].op \in Decisions
      BY <1>7 DEF Decide
    <3>2. Decisions \subseteq Statuses \ Ends
      BY DEF Decisions, Statuses, Ends, Expirable
    <3> QED BY <1>7, <3>1, <3>2 DEF Decide
  <2> QED BY <1>1, <1>2, <2>1, <2>2, AgreedOpen
<1> QED BY <1>3, <1>4, <1>5, <1>6, <1>7

\* A dispatch that is refused leaves the row, or marks it blocked.
LEMMA AgreedRefusal ==
  ASSUME Inv, Inv', Paid, Agreed, mishaps = {}, NEW p \in Procs,
         Refuse(p) \/ Block(p) \/ MarkBlocked(p)
  PROVE  Agreed'
<1>1. /\ call[p].at \in {"gate", "mark"} /\ UNCHANGED runs
      /\ call[p].run = 0
  BY Here DEF Refuse, Block, MarkBlocked, AtGate, At, Fits, ShapeFits, Early
<1>2. Len(runs') = Len(runs) /\ \A a \in Rows : RunsStay(a)
  BY <1>1, AllRunsStay
<1>3. PICK r \in Rows : r = call[p].row /\ Exists(r)
  BY <1>1, MyRow
<1>4. PICK c \in Calls : c = call[p] /\ Owes(c)
  BY Here DEF Agreed
<1>5. Settled(r)
  BY <1>1, <1>3, <1>4 DEF Owes
<1>6. CASE Refuse(p)
  <2>1. UNCHANGED rows
    BY <1>6 DEF Refuse
  <2>2. Goes(p, "check", call[p].run, call[p].emit, "blocked")
    BY <1>6, Goings
  <2>3. Settled(r)'
    BY <1>2, <1>5, <2>1, SettledStays DEF Inv
  <2>4. Owes(call[p])'
    BY <1>1, <1>3, <2>2, <2>3 DEF Owes, Goes
  <2> QED BY <1>1, <1>2, <1>3, <2>1, <2>2, <2>4, AgreedAlone DEF Goes
<1>7. CASE Block(p)
  <2>1. UNCHANGED rows
    BY <1>7 DEF Block
  <2>2. Goes(p, "mark", call[p].run, call[p].emit, "blocked")
    BY <1>7, Goings
  <2>3. Settled(r)'
    BY <1>2, <1>5, <2>1, SettledStays DEF Inv
  <2>4. Owes(call[p])'
    BY <1>1, <1>3, <2>2, <2>3 DEF Owes, Goes
  <2> QED BY <1>1, <1>2, <1>3, <2>1, <2>2, <2>4, AgreedAlone DEF Goes
<1>8. CASE MarkBlocked(p)
  <2>1. SetStatus(r, "blocked") /\ call[p].at = "mark" /\ "blocked" \in Statuses
    BY <1>3, <1>8 DEF MarkBlocked, At, Statuses, Ends
  <2>2. Goes(p, "check", call[p].run, call[p].emit, call[p].outcome)
    BY <1>8, Goings
  <2>3. rows'[r].status = "blocked" /\ call[p].outcome = "blocked"
    BY <1>3, <1>4, <2>1, StatusWritten DEF Owes
  <2>4. Owes(call[p])'
    BY <1>1, <1>3, <2>2, <2>3 DEF Owes, Goes
  <2> QED BY <1>1, <1>2, <1>3, <2>1, <2>2, <2>4, AgreedAlone DEF Goes
<1> QED BY <1>6, <1>7, <1>8

\* The row is updated with the end of the command.
LEMMA AgreedEnd ==
  ASSUME Inv, Inv', Paid, Agreed, mishaps = {}, NEW p \in Procs, WriteEnd(p)
  PROVE  Agreed'
<1>1. call[p].at = "finish" /\ UNCHANGED runs /\ call[p].run # 0
  BY Here DEF WriteEnd, Ended, At, Fits, ShapeFits
<1>2. Len(runs') = Len(runs) /\ \A a \in Rows : RunsStay(a)
  BY <1>1, AllRunsStay
<1>3. PICK r \in Rows : r = call[p].row /\ Exists(r)
  BY <1>1, MyRow
<1>4. PICK c \in Calls : c = call[p] /\ Owes(c)
  BY Here DEF Agreed
<1>5. PICK s \in Ends : SetStatus(r, s) /\ Goes(p, "check", call[p].run, call[p].emit, s)
  <2>1. call[p].outcome \in Ends
    BY Here, CallParts
  <2> QED BY <1>3, <2>1, Goings DEF WriteEnd
<1>6. rows'[r].status = s /\ s \in Statuses
  BY <1>3, <1>5, StatusWritten, OutcomeType
<1>7. \A k \in 1..Len(runs') : runs'[k].row = r => k <= c.run
  BY <1>1, <1>3, <1>4 DEF Owes
<1>8. Owes(call[p])'
  BY <1>1, <1>3, <1>4, <1>5, <1>6, <1>7 DEF Owes, Goes
<1> QED BY <1>1, <1>2, <1>3, <1>5, <1>6, <1>8, AgreedAlone DEF Goes

\* The steps of a call that leave its row, and its run, as they are.
LEMMA AgreedQuiet ==
  ASSUME Inv, Inv', Paid, Agreed, mishaps = {}, NEW p \in Procs,
         \/ SetRunning(p) \/ SpawnFails(p) \/ Drain(p) \/ NumberEvent(p) \/ FindRow(p)
         \/ Poll(p) \/ PollAgain(p) \/ SeeExit(p) \/ PrintLine(p)
  PROVE  Agreed'
<1>1. call[p].at # "idle" /\ UNCHANGED runs
  <2>1. call[p].at # "idle" \/ call[p].emit # << >>
    BY DEF SetRunning, SpawnFails, Drain, Draining, NumberEvent, FindRow, Poll, PollAgain,
       AtDeadline, SeeExit, PrintLine, Waiting, At
  <2> QED BY <2>1, Here, IdleParts DEF Fits, RowFits, SetRunning, SpawnFails, Drain,
             NumberEvent, FindRow, Poll, PollAgain, SeeExit, PrintLine
<1>2. Len(runs') = Len(runs) /\ \A a \in Rows : RunsStay(a)
  BY <1>1, AllRunsStay
<1>3. CASE SetRunning(p)
  <2>1. "running" \in Statuses \ Ends
    BY DEF Statuses, Ends
  <2>2. SetStatus(call[p].row, "running") /\ call[p].at = "start"
    BY <1>3 DEF SetRunning, At
  <2> QED BY <1>2, <1>3, <2>1, <2>2, Goings, AgreedOpen DEF Goes
<1>4. CASE \/ SpawnFails(p) \/ Drain(p) \/ Poll(p) \/ PollAgain(p) \/ SeeExit(p)
           \/ PrintLine(p)
  <2>1. UNCHANGED rows /\ call[p].at \in {"spawn", "wait", "drain", "finish"}
    BY <1>4 DEF SpawnFails, Drain, Draining, Poll, PollAgain, AtDeadline, SeeExit, PrintLine,
       Waiting, At
  <2>2. PICK at, emit, outcome : /\ at \in {"wait", "drain", "finish"}
                                 /\ Goes(p, at, call[p].run, emit, outcome)
    <3>1. CASE Drain(p)
      <4>1. call[p].at \in {"drain", "finish"}
        BY <3>1 DEF Drain, Draining, At
      <4> QED BY <3>1, <4>1, Goings
    <3>2. CASE PrintLine(p)
      <4>1. call[p].at \in {"wait", "drain"}
        BY <3>2 DEF PrintLine, Waiting
      <4> QED BY <3>2, <4>1, Goings
    <3>3. CASE SpawnFails(p)
      BY <3>3, Goings
    <3>4. CASE Poll(p) \/ PollAgain(p) \/ SeeExit(p)
      BY <3>4, Goings
    <3> QED BY <1>4, <3>1, <3>2, <3>3, <3>4
  <2> QED BY <1>2, <2>1, <2>2, AgreedOpen DEF Goes
<1>5. CASE NumberEvent(p)
  <2>1. UNCHANGED rows
    BY <1>5 DEF NumberEvent
  <2> QED BY <1>1, <1>2, <1>5, <2>1, Goings, AgreedSame
<1>6. CASE FindRow(p)
  <2>1. UNCHANGED rows /\ call[p].at = "check" /\ ~Return(p)
    <3>1. Exists(call[p].row) /\ Go(p, "insert") /\ UNCHANGED rows /\ call[p].at = "check"
      BY <1>1, <1>6, MyRow DEF FindRow, At
    <3>2. call'[p].at = "insert"
      BY <3>1, Here, AtType DEF Go, Become, Inv, TypeOK, Steps, Calls
    <3> QED BY <3>1, <3>2, IdleParts DEF Return, Become, Inv, TypeOK
  <2> QED BY <1>1, <1>2, <1>6, <2>1, GoesOrReturns, AgreedSame
<1> QED BY <1>3, <1>4, <1>5, <1>6

\* The run of a call is changed, but not what it says of the row.
LEMMA EditedRunStays ==
  ASSUME Inv, NEW k \in 1..Len(runs), NEW run, runs' = [runs EXCEPT ![k] = run],
         run.row = runs[k].row, RunStays(runs[k], run)
  PROVE  Len(runs') = Len(runs) /\ \A a \in Rows : RunsStay(a)
<1>1. runs \in Seq(Runs) /\ Len(runs) \in Nat
  BY World, DomainOfRuns DEF Inv
<1>2. Len(runs') = Len(runs) /\ \A j \in 1..Len(runs) : runs'[j] = IF j = k THEN run ELSE runs[j]
  BY <1>1
<1> QED BY <1>1, <1>2 DEF RunsStay, RunStays

LEMMA AgreedChild ==
  ASSUME Inv, Inv', Paid, Agreed, mishaps = {}, NEW p \in Procs, Spawn(p) \/ Timeout(p)
  PROVE  Agreed'
<1>1. call[p].at \in {"spawn", "drain"} /\ call[p].run # 0 /\ UNCHANGED rows
  BY Here DEF Spawn, Timeout, AtDeadline, At, Fits, ShapeFits
<1>2. PICK k : k = call[p].run /\ k \in 1..Len(runs)
  BY <1>1, MyRun, DomainOfRuns DEF Inv
<1>3. PICK old \in Runs : old = runs[k] /\ old.status = "open"
  BY <1>1, <1>2, MyRun DEF RunFits
<1>4. PICK child \in {"alive", "killed", old.child} : runs' = [runs EXCEPT ![k] = [old EXCEPT !.child = child]]
  BY <1>2, <1>3 DEF Spawn, Timeout
<1>5. PICK run : run = [old EXCEPT !.child = child]
  OBVIOUS
<1>6. run.row = old.row /\ RunStays(old, run)
  BY <1>3, <1>5 DEF Runs, RunStays, Ends
<1>7. Len(runs') = Len(runs) /\ \A a \in Rows : RunsStay(a)
  BY <1>2, <1>3, <1>4, <1>5, <1>6, EditedRunStays
<1>8. Goes(p, call'[p].at, call[p].run, call[p].emit, call'[p].outcome)
      /\ call'[p].at \in {"wait", "finish"}
  BY Goings DEF Goes
<1> QED BY <1>1, <1>7, <1>8, AgreedOpen DEF Goes

LEMMA AgreedEvent ==
  ASSUME Inv, Inv', Paid, Agreed, mishaps = {}, NEW p \in Procs, InsertEvent(p)
  PROVE  Agreed'
<1>1. call[p].at # "idle" /\ call[p].run # 0 /\ UNCHANGED rows
  <2>1. call[p].emit # << >>
    BY DEF InsertEvent
  <2> QED BY <2>1, Here, IdleParts DEF Fits, RowFits, ShapeFits, InsertEvent
<1>2. PICK k : k = call[p].run /\ k \in 1..Len(runs)
  BY <1>1, MyRun, DomainOfRuns DEF Inv
<1>3. PICK old \in Runs : old = runs[k]
  BY <1>2, DomainOfRuns DEF Inv, TypeOK
<1>4. PICK events : runs' = [runs EXCEPT ![k] = [old EXCEPT !.events = events]]
  BY <1>2, <1>3 DEF InsertEvent
<1>5. PICK run : run = [old EXCEPT !.events = events]
  OBVIOUS
<1>6. run.row = old.row /\ RunStays(old, run)
  BY <1>5 DEF Runs, RunStays
<1>7. Len(runs') = Len(runs) /\ \A a \in Rows : RunsStay(a)
  BY <1>2, <1>3, <1>4, <1>5, <1>6, EditedRunStays
<1>8. CASE Return(p)
  <2>1. call[p].at = "return"
    <3>1. ASSUME NEW next, Become(p, next), next.at = call[p].at PROVE FALSE
      BY <1>1, <1>8, <3>1, IdleParts DEF Return, Become, Inv, TypeOK
    <3> DEFINE next == [call[p] EXCEPT !.emit = Tail(@), !.next = 0]
    <3>2. next.at = call[p].at
      BY Here DEF Calls
    <3>3. Become(p, next) \/ call[p].at = "return"
      BY DEF InsertEvent
    <3> HIDE DEF next
    <3> QED BY <3>1, <3>2, <3>3
  <2> QED BY <1>1, <1>7, <1>8, <2>1, AgreedReturn
<1>9. CASE ~Return(p)
  BY <1>1, <1>7, <1>9, GoesOrReturns, AgreedSame
<1> QED BY <1>8, <1>9

\* A call gets a fresh run, open or refused.
LEMMA AgreedFresh ==
  ASSUME Inv, Inv', Paid, Agreed, mishaps = {}, NEW p \in Procs, call[p].at # "idle",
         NEW run \in Runs, run.row = call[p].row, Harmless(run), runs' = Append(runs, run),
         UNCHANGED rows,
         NEW at, NEW emit, NEW outcome, Goes(p, at, Len(runs) + 1, emit, outcome),
         at \in {"start", "return"},
         \/ Settled(call[p].row)
         \/ run.status = "blocked" /\ rows[call[p].row].status = "blocked"
  PROVE  Agreed'
<1>1. PICK r \in Rows : r = call[p].row
  BY MyRow
<1>2. /\ Len(runs') = Len(runs) + 1 /\ Len(runs) \in Nat /\ runs'[Len(runs) + 1] = run
      /\ \A j \in 1..Len(runs) : runs'[j] = runs[j]
  BY AppendedRun, DomainOfRuns DEF Inv
<1>3. \A a \in Rows : RunsStay(a)
  BY <1>2 DEF RunsStay, RunStays
<1>4. \A j \in 1..Len(runs') : j > Len(runs) => runs'[j].row = r
  BY <1>1, <1>2
<1>5. Settled(r)'
  <2>1. CASE Settled(r)
    BY <1>3, <2>1, SettledStays DEF Inv
  <2>2. CASE run.status = "blocked" /\ rows[r].status = "blocked"
    <3>1. DOMAIN runs' = 1..(Len(runs) + 1)
      BY <1>2 DEF Inv, TypeOK
    <3>2. Len(runs) + 1 \in EndedRuns(r)'
      BY <1>1, <1>2, <2>2, <3>1 DEF EndedRuns, Ends
    <3>3. \A j \in EndedRuns(r)' : ~(j > Len(runs) + 1)
      BY <1>2, <3>1 DEF EndedRuns
    <3> QED BY <1>2, <2>2, <3>2, <3>3 DEF Settled, Agrees
  <2> QED BY <1>1, <2>1, <2>2
<1>6. Owes(call[p])'
  <2>1. \A k \in 1..Len(runs') : k <= Len(runs) + 1
    BY <1>2
  <2>2. call'[p].at = at /\ call'[p].row = r /\ call'[p].run = Len(runs) + 1
    BY <1>1 DEF Goes
  <2> QED BY <1>5, <2>1, <2>2 DEF Owes
<1>7. call' = [call EXCEPT ![p] = call'[p]] /\ call'[p].at # "idle" /\ call'[p].row = r
  BY <1>1 DEF Goes
<1>8. \A q \in Procs \ {p} : call[q].at # "idle" => call[q].row # r
  BY <1>1, MyRow
<1> QED BY <1>1, <1>3, <1>4, <1>6, <1>7, <1>8, AgreedGoesOn

LEMMA AgreedQueue ==
  ASSUME Inv, Inv', Paid, Agreed, mishaps = {}, NEW p \in Procs, Queue(p)
  PROVE  Agreed'
<1>1. call[p].at = "gate" /\ call[p].row \in Rows /\ UNCHANGED rows
  BY Here DEF Queue, AtGate, At, Fits, RowFits
<1>2. PICK run \in Runs : run = NewRun(call[p].row)
  BY <1>1, NewRunType
<1>3. run.row = call[p].row /\ Harmless(run) /\ runs' = Append(runs, run)
  BY <1>1, <1>2, NewRunType DEF Harmless, Ends, Queue
<1>4. Settled(call[p].row)
  BY <1>1 DEF Agreed, Owes
<1> QED BY <1>1, <1>3, <1>4, Goings, AgreedFresh

LEMMA AgreedInsertRun ==
  ASSUME Inv, Inv', Paid, Agreed, mishaps = {}, NEW p \in Procs, InsertRun(p)
  PROVE  Agreed'
<1>1. PICK r \in Rows : r = call[p].row
  BY MyRow DEF InsertRun, At
<1>2. PICK c \in Calls : c = call[p] /\ Owes(c) /\ c.at = "insert"
  BY Here DEF Agreed, InsertRun, At
<1>3. UNCHANGED rows
  BY DEF InsertRun
<1>4. CASE c.run = 0
  <2>1. PICK new \in Runs : new = NewRun(r)
    BY NewRunType
  <2>2. "blocked" \in Ends \cup {"open", "deleted"} /\ "none" \in Children
    BY DEF Ends, Children
  <2>3. PICK run \in Runs : run = [new EXCEPT !.status = "blocked"]
    BY <2>2, RunEdited
  <2>4. /\ run.row = r /\ Harmless(run) /\ run.status = "blocked"
        /\ runs' = Append(runs, run)
    <3>1. run.row = r /\ run.status = "blocked" /\ run.child = "none"
      BY <2>1, <2>2, <2>3, RunEdited, NewRunType
    <3> QED BY <1>1, <1>2, <1>4, <2>1, <2>3, <3>1 DEF Harmless, InsertRun
  <2>5. rows[r].status = "blocked" \/ Settled(r)
    BY <1>1, <1>2, <1>4 DEF Owes
  <2> QED BY <1>1, <1>2, <1>3, <1>4, <2>4, <2>5, GoesOrReturns, AgreedFresh
<1>5. CASE c.run # 0
  <2>1. PICK k : k = c.run /\ k \in 1..Len(runs)
    BY <1>2, <1>5, MyRun, DomainOfRuns DEF Inv
  <2>2. PICK old \in Runs : old = runs[k] /\ old.row = r /\ old.status = "open"
    BY <1>1, <1>2, <1>5, <2>1, MyRun DEF RunFits
  <2>3. c.outcome \in Ends /\ "none" \in Children
    BY <1>2, CallParts DEF Children
  <2>4. PICK run \in Runs : run = [old EXCEPT !.status = c.outcome]
    BY <2>3, RunEdited
  <2>5. run.row = r /\ run.status = c.outcome
    BY <2>2, <2>3, <2>4, RunEdited
  <2>6. runs' = [runs EXCEPT ![k] = run]
    BY <1>2, <1>5, <2>1, <2>2, <2>4 DEF InsertRun
  <2>7. /\ runs \in Seq(Runs) /\ Len(runs) \in Nat /\ Len(runs') = Len(runs)
        /\ DOMAIN runs' = 1..Len(runs)
        /\ \A j \in 1..Len(runs) : runs'[j] = IF j = k THEN run ELSE runs[j]
    BY <2>1, <2>6, World, DomainOfRuns DEF Inv
  <2>8. \A a \in Rows \ {r} : RunsStay(a)
    BY <2>1, <2>2, <2>5, <2>7 DEF RunsStay, RunStays
  <2>9. \A j \in 1..Len(runs') : runs'[j].row = r => j <= k
    BY <1>1, <1>2, <1>5, <2>1, <2>2, <2>7 DEF Owes
  <2>10. Settled(r)'
    <3>1. k \in EndedRuns(r)'
      BY <2>1, <2>3, <2>5, <2>7 DEF EndedRuns
    <3>2. \A j \in EndedRuns(r)' : ~(j > k)
      BY <2>1, <2>7, <2>9 DEF EndedRuns
    <3>3. rows'[r].status = runs'[k].status
      BY <1>1, <1>2, <1>3, <1>5, <2>1, <2>5, <2>7 DEF Owes
    <3> QED BY <3>1, <3>2, <3>3 DEF Settled, Agrees
  <2>11. Goes(p, "return", k, <<c.outcome>>, c.outcome)
    <3>1. ~Return(p)
      <4> DEFINE next == [c EXCEPT !.at = "return", !.emit = <<c.outcome>>]
      <4>1. Become(p, next) /\ next.at = "return"
        BY <1>2, <1>5, <2>1, <2>2 DEF InsertRun, Calls
      <4> HIDE DEF next
      <4> QED BY <4>1, IdleParts DEF Return, Become, Inv, TypeOK
    <3> QED BY <1>2, <1>5, <2>1, <3>1, GoesOrReturns
  <2>12. Owes(call[p])'
    BY <1>1, <1>2, <2>9, <2>10, <2>11 DEF Owes, Goes
  <2>13. \A j \in 1..Len(runs') : ~(j > Len(runs))
    BY <2>7
  <2>14. \A q \in Procs \ {p} : call[q].at # "idle" => call[q].row # r
    BY <1>1, <1>2, MyRow
  <2> QED BY <1>1, <1>2, <1>3, <2>8, <2>11, <2>12, <2>13, <2>14, AgreedGoesOn DEF Goes
<1> QED BY <1>4, <1>5

LEMMA AgreedStart ==
  ASSUME Inv, Inv', Agreed, mishaps' = {}, NEW p \in Procs, NEW op, NEW r \in Rows,
         Start(p, op, r)
  PROVE  Agreed'
<1>1. /\ \A q \in Procs : ~Active(q, r)
      /\ UNCHANGED <<rows, runs>> /\ mishaps = {} /\ call[p].at = "idle"
  BY Here, IdleParts DEF Start
<1>2. \A a : RunsStay(a)
  BY <1>1, AllRunsStay
<1>3. Settled(r)'
  BY <1>1, <1>2, SettledStays DEF Agreed, Inv
<1>4. /\ call' = [call EXCEPT ![p] = call'[p]] /\ call'[p].at \in {"expire", "gate"}
      /\ call'[p].row = r /\ call'[p].run = 0
  BY DEF Start, ReadRow, Become, Idle, Inv, TypeOK
<1>5. Owes(call[p])'
  BY <1>3, <1>4 DEF Owes
<1>6. \A j \in 1..Len(runs') : ~(j > Len(runs))
  BY <1>1 DEF Inv, TypeOK
<1> QED BY <1>1, <1>2, <1>4, <1>5, <1>6, AgreedGoesOn DEF Active

\* No call moves: rows keep their status, or have none that has ended.
LEMMA AgreedNobodyMoves ==
  ASSUME Inv, Inv', Agreed, mishaps = {}, UNCHANGED call,
         Len(runs') = Len(runs), \A a \in Rows : RunsStay(a),
         \A a \in Rows :
           \/ rows'[a].status = rows[a].status
           \/ /\ rows'[a].status \notin Ends
              /\ \A q \in Procs : call[q].at # "idle" => call[q].row # a
  PROVE  Agreed'
<1>1. ASSUME NEW a \in Rows, \A q \in Procs : ~Active(q, a)' PROVE Settled(a)'
  <2>1. Settled(a)
    BY <1>1 DEF Active, Agreed
  <2>2. CASE rows'[a].status = rows[a].status
    BY <2>1, <2>2, SettledStays DEF Inv
  <2>3. CASE rows'[a].status \notin Ends
    BY <2>3 DEF Settled
  <2> QED BY <2>2, <2>3
<1>2. ASSUME NEW q \in Procs PROVE Owes(call[q])'
  <2>1. PICK c \in Calls : c = call[q] /\ Owes(c)
    BY Here DEF Agreed
  <2>2. CASE c.at = "idle"
    BY <2>1, <2>2 DEF Owes
  <2>3. CASE c.at # "idle"
    <3>1. c.row \in Rows
      BY <2>1, <2>3, Here DEF Fits, RowFits
    <3>2. \A j \in 1..Len(runs') : ~(j > Len(runs))
      BY DEF Inv, TypeOK
    <3>3. rows'[c.row].status = rows[c.row].status
      BY <2>1, <2>3, <3>1
    <3>4. Owes(c)'
      BY <2>1, <3>1, <3>2, <3>3, OwesStays
    <3> QED BY <2>1, <3>4
  <2> QED BY <2>2, <2>3
<1> QED BY <1>1, <1>2 DEF Agreed

LEMMA AgreedByOthers ==
  ASSUME Inv, Inv', Paid, Agreed, Environment, mishaps' = {}
  PROVE  Agreed'
<1>1. ASSUME NEW r \in Rows, NEW row, rows' = [rows EXCEPT ![r] = row],
             \/ row.status = rows[r].status
             \/ row.status \notin Ends /\ rows[r].status = "absent",
             UNCHANGED <<runs, call, mishaps>>
      PROVE  Agreed'
  <2>1. \A a \in Rows : RunsStay(a)
    BY <1>1, AllRunsStay
  <2>2. rows[r].status = "absent" => \A q \in Procs : call[q].at # "idle" => call[q].row # r
    BY Here DEF Fits, RowFits
  <2>3. rows'[r].status = row.status /\ \A a \in Rows \ {r} : rows'[a] = rows[a]
    BY <1>1, World
  <2>4. \A a \in Rows :
           \/ rows'[a].status = rows[a].status
           \/ /\ rows'[a].status \notin Ends
              /\ \A q \in Procs : call[q].at # "idle" => call[q].row # a
    BY <1>1, <2>2, <2>3
  <2> QED BY <1>1, <2>1, <2>4, AgreedNobodyMoves
<1>2. ASSUME NEW r \in Rows, NEW needsApproval, NEW tool, Propose(r, needsApproval, tool)
      PROVE  Agreed'
  <2> DEFINE row == [status   |-> IF needsApproval THEN "approval_required" ELSE "proposed",
                     approval |-> needsApproval, tool |-> tool, due |-> FALSE]
  <2>1. row.status \notin Ends
    BY DEF Ends
  <2>2. rows' = [rows EXCEPT ![r] = row]
    BY <1>2 DEF Propose
  <2> HIDE DEF row
  <2> QED BY <1>1, <1>2, <2>1, <2>2 DEF Propose
<1>3. ASSUME NEW r \in Rows, Elapse(r) PROVE Agreed'
  <2>1. PICK row : row = [rows[r] EXCEPT !.due = TRUE]
    OBVIOUS
  <2>2. rows' = [rows EXCEPT ![r] = row] /\ row.status = rows[r].status
    BY <1>3, <2>1, World DEF Elapse, ActionRows
  <2> QED BY <1>1, <1>3, <2>2 DEF Elapse
<1>4. ASSUME NEW r \in Rows, NEW tool, Withdraw(r, tool) PROVE Agreed'
  <2>1. PICK row : row = [rows[r] EXCEPT !.tool = tool]
    OBVIOUS
  <2>2. rows' = [rows EXCEPT ![r] = row] /\ row.status = rows[r].status
    BY <1>4, <2>1, World DEF Withdraw, ActionRows
  <2> QED BY <1>1, <1>4, <2>2 DEF Withdraw
<1>5. ASSUME NEW k, NEW how, ChildExits(k, how) PROVE Agreed'
  <2>1. k \in 1..Len(runs) /\ runs[k].child = "alive" /\ UNCHANGED <<rows, call, mishaps>>
        /\ runs' = [runs EXCEPT ![k].child = how]
    BY <1>5, DomainOfRuns DEF ChildExits, Inv
  <2>2. PICK run : run = [runs[k] EXCEPT !.child = how]
    OBVIOUS
  <2>3. run.row = runs[k].row /\ RunStays(runs[k], run) /\ runs' = [runs EXCEPT ![k] = run]
    BY <2>1, <2>2, World DEF Runs, RunStays
  <2>4. Len(runs') = Len(runs) /\ \A a \in Rows : RunsStay(a)
    BY <2>1, <2>3, EditedRunStays
  <2> QED BY <2>1, <2>4, AgreedNobodyMoves
<1>7. mishaps = {}
  BY DEF Environment, Propose, Withdraw, Elapse, Prune, Start, StartSafe, ChildExits,
     PrintLine, Crash, Fault
<1>6. /\ \A p \in Procs : ~Crash(p) /\ ~Fault(p)
      /\ \A r \in Rows : ~Prune(r)
  BY DEF Crash, Fault, Prune
<1> QED
  BY <1>2, <1>3, <1>4, <1>5, <1>6, <1>7, AgreedStart, AgreedQuiet DEF Environment, StartSafe

LEMMA NextAgreed == Inv /\ Inv' /\ Paid /\ Agreed /\ [Next]_vars => Agreed'
<1> SUFFICES ASSUME Inv, Inv', Paid, Agreed, [Next]_vars, mishaps' = {} PROVE Agreed'
  BY DEF Agreed
<1>1. ASSUME NEW p \in Procs, Step(p) PROVE Agreed'
  <2>1. mishaps = {}
    BY <1>1 DEF Step, WriteExpired, Reread, RefuseDecision, CancelGuard, Decide, Refuse,
       Block, MarkBlocked, Queue, SetRunning, NumberEvent, InsertEvent, Spawn, SpawnFails,
       Poll, PollAgain, Drain, SeeExit, Timeout, WriteEnd, FindRow, InsertRun
  <2> QED BY <1>1, <2>1, AgreedEarly, AgreedRefusal, AgreedEnd, AgreedQuiet, AgreedChild,
             AgreedEvent, AgreedQueue, AgreedInsertRun DEF Step
<1>2. CASE UNCHANGED vars
  <2>1. \A a \in Rows : RunsStay(a)
    BY <1>2, AllRunsStay DEF vars
  <2> QED BY <1>2, <2>1, AgreedNobodyMoves DEF vars
<1> QED BY <1>1, <1>2, AgreedByOthers DEF Next

LEMMA InitAgreed == Init => Agreed
<1> SUFFICES ASSUME Init PROVE Agreed
  OBVIOUS
<1>1. /\ \A p \in Procs : call[p].at = "idle"
      /\ \A r \in Rows : rows[r].status = "absent"
  BY DEF Init, Idle
<1> QED BY <1>1 DEF Agreed, Owes, Settled, Ends

-----------------------------------------------------------------------------
(* The theorems.                                                             *)

LEMMA Invariance == Spec => []Inv
BY InitHolds, NextKeeps, PTL DEF Spec

\* The ledger, the runs and the calls keep their shapes (agent_os/runtime.py, dispatch_action), for any
\* processes, rows, bounds and mishaps.
THEOREM TypeCorrect == Spec => []TypeOK
<1>1. Inv => TypeOK
  BY DEF Inv
<1> QED BY <1>1, Invariance, PTL

\* The events of a run of a row that is still there are numbered 1, 2, ... in the order
\* of their insertion, although record_run_event reads the number in one transaction
\* and uses it in the next (agent_os/ledger.py:315): no two calls ever write events of one run.
THEOREM EventsAreNumbered == Spec => []EventsNumbered
<1>1. Inv => EventsNumbered
  BY DEF Inv, Readable, Pruned, EventsNumbered, Kept
<1> QED BY <1>1, Invariance, PTL

\* A recorded run leaves no process behind, however calls, crashes, ends of children and
\* deletions overlap, unless a ledger call raised (agent_os/runtime.py:1285).
THEOREM NoChildIsLeft == Spec => []NoChildOutlivesItsRun
<1>1. Inv => NoChildOutlivesItsRun
  BY DEF Inv, Readable, NoChildOutlivesItsRun
<1> QED BY <1>1, Invariance, PTL

\* Without overlap nothing is recorded for a row that memory pruning deleted
\* (agent_os/ledger.py:441 delete_sessions against record_run).
THEOREM PrunedRowsStayEmpty == Spec => []NothingRecordedForPrunedRows
<1>1. Inv => NothingRecordedForPrunedRows
  BY DEF Inv, Readable, Pruned, NothingRecordedForPrunedRows, Kept
<1> QED BY <1>1, Invariance, PTL

\* One approval pays for one command of a guarded row, for any processes, rows and
\* mishaps, as long as no two calls overlap on a row (dispatch_action sets the row to
\* running before it starts the command, agent_os/runtime.py:961, and only a new decision makes
\* it approved again).
THEOREM ApprovalsPayOnce == Spec => []OneCommandPerApproval
<1>1. Init => Inv /\ Paid
  BY InitHolds, InitPaid
<1>2. Inv /\ Paid /\ [Next]_vars => Inv' /\ Paid'
  BY NextKeeps, NextPaid
<1>3. Paid => OneCommandPerApproval
  BY DEF Paid, RowPaid, Count, OneCommandPerApproval
<1> QED BY <1>1, <1>2, <1>3, PTL DEF Spec

\* The timeline of a run of a row that is still there reads queued, running, output, end,
\* or it is a refusal, and nothing follows the end (agent_os/runtime.py _dispatch_subprocess_action,
\* record_run): for any processes, rows and mishaps, and however calls overlap.
THEOREM TimelinesRead == Spec => []TimelinesReadable
<1>1. Init => Inv /\ Telling
  BY InitHolds, InitTelling
<1>2. Inv /\ Telling /\ [Next]_vars => Inv' /\ Telling'
  BY NextKeeps, NextTelling
<1>3. Inv /\ Telling => TimelinesReadable
  BY DEF Inv, Readable, Pruned, EventsNumbered, Kept, Telling, RunTold, TimelinesReadable
<1> QED BY <1>1, <1>2, <1>3, PTL DEF Spec

\* As long as nothing went wrong, a row that says it ended and that no call is about says
\* what its latest recorded run says, refusals apart, although dispatch_action updates the
\* row and inserts the run in different transactions (agent_os/runtime.py record_run); and
\* nothing is recorded for a pruned row.
THEOREM RowsAndRunsAgree == Spec => []RunsFitRows
<1>1. Init => Inv /\ Paid /\ Agreed
  BY InitHolds, InitPaid, InitAgreed
<1>2. Inv /\ Paid /\ Agreed /\ [Next]_vars => Inv' /\ Paid' /\ Agreed'
  BY NextKeeps, NextPaid, NextAgreed
<1>3. Inv /\ Agreed => RunsFitRows
  <2>1. Inv => NothingRecordedForPrunedRows
    BY DEF Inv, Readable, Pruned, NothingRecordedForPrunedRows, Kept
  <2>2. Agreed => RowAgreesWithRun
    BY DEF Agreed, Settled, Agrees, RowAgreesWithRun
  <2> QED BY <2>1, <2>2 DEF RunsFitRows
<1> QED BY <1>1, <1>2, <1>3, PTL DEF Spec

LEMMA InitGate == Init => Gate!Init
BY DEF Init, Gate!Init

LEMMA StepGate == Inv /\ [Next]_vars => [Gate!Next]_(Gate!gateVars)
<1> SUFFICES ASSUME Inv, [Next]_vars PROVE [Gate!Next]_(Gate!gateVars)
  OBVIOUS
<1>1. CASE UNCHANGED <<approvals, started>>
  BY <1>1 DEF Gate!gateVars
<1>2. ASSUME NEW p \in Procs, Decide(p) PROVE [Gate!Next]_(Gate!gateVars)
  <2> DEFINE r == call[p].row
  <2>1. r \in Rows /\ UNCHANGED started
    BY <1>2, Here DEF Decide, At, Fits, RowFits
  <2>2. approvals' = approvals \/ approvals' = [approvals EXCEPT ![r] = @ + 1]
    BY <1>2 DEF Decide
  <2> HIDE DEF r
  <2>3. CASE approvals' = [approvals EXCEPT ![r] = @ + 1]
    <3>1. {a \in Rows : approvals'[a] > 0} = {a \in Rows : approvals[a] > 0} \cup {r}
      BY <2>1, <2>3, World
    <3> QED BY <2>1, <3>1 DEF Gate!Next, Gate!Authorise
  <2> QED BY <1>1, <2>1, <2>2, <2>3
<1>3. ASSUME NEW p \in Procs, Spawn(p) PROVE [Gate!Next]_(Gate!gateVars)
  <2>1. /\ call[p].row \in Rows
        /\ Guarded(call[p].row) => approvals[call[p].row] > 0
    BY <1>3, Here DEF Spawn, At, Fits, RowFits
  <2>2. CASE Guarded(call[p].row)
    BY <1>3, <2>1, <2>2 DEF Spawn, Gate!Next, Gate!Place
  <2>3. CASE ~Guarded(call[p].row)
    BY <1>1, <1>3, <2>3 DEF Spawn
  <2> QED BY <2>2, <2>3
<1>4. \/ UNCHANGED <<approvals, started>>
      \/ \E p \in Procs : Decide(p) \/ Spawn(p)
  BY DEF Next, vars, Step, Environment, WriteExpired, Reread, RefuseDecision, CancelGuard,
     Refuse, Block, MarkBlocked, Queue, SetRunning, NumberEvent, InsertEvent, SpawnFails,
     Poll, PollAgain, Drain, SeeExit, Timeout, WriteEnd, FindRow, InsertRun, Propose,
     Withdraw, Elapse, Prune, Start, StartSafe, ChildExits, PrintLine, Crash, Fault
<1> QED BY <1>1, <1>2, <1>3, <1>4

\* Dispatch implements the approval gate: a command that its row's risk level or its
\* tool guards is started only for a row that was approved at some time
\* (runtime.py dispatch_action, tools.py command_for), whatever the processes do
\* between the check and Popen, for any processes, rows and mishaps.
THEOREM CommandsPassTheGate == Spec => ImplementsGate
<1>1. Init => Inv /\ Gate!Init
  BY InitHolds, InitGate
<1>2. Inv /\ [Next]_vars => Inv' /\ [Gate!Next]_(Gate!gateVars)
  BY NextKeeps, StepGate
<1> QED BY <1>1, <1>2, PTL DEF Spec, ImplementsGate, Gate!Spec

=============================================================================
