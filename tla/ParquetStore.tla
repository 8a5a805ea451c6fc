---------------------------- MODULE ParquetStore ----------------------------
(***************************************************************************)
(* The parquet files of the DataHub (data/storage/datahub_parquet.py), the *)
(* manifest that describes them (datahub_manifest.py), and two of their    *)
(* users: logs appended to under a file lock (the research runs, the NAV   *)
(* rows) and the ledger of data repairs (data/ops/ledger_store.py,         *)
(* backfill.py), which is read and written back without one.               *)
(*                                                                         *)
(* A write fills a temporary file and replaces the target by it, so other  *)
(* processes see one step. They run between any two steps, and a process   *)
(* may die or meet a failing disk at any of its own: a write that fails    *)
(* raises, a read that fails passes for one of an empty file.              *)
(***************************************************************************)
EXTENDS Integers, FiniteSets

CONSTANTS
  Procs,
  Logs,        \* files written through append_parquet
  Ledger,      \* var/store/_backfill/ledger.parquet
  NoProc,
  Bad,         \* what is read from a damaged file
  Mishaps,     \* the faults of this instance, of those below
  MaxKey,      \* bound: repairs in the ledger, keys of a log
  LogStatuses, \* the statuses of the rows appended to the logs
  MaxCalls,    \* bound: appends and repairs together
  MaxFaults    \* bound: faults of an execution

Files == Logs \cup {Ledger}
Keys  == 1..MaxKey

ASSUME StoreAssumption ==
  /\ Ledger \notin Logs /\ NoProc \notin Procs
  /\ MaxKey \in Nat \ {0} /\ MaxCalls \in Nat /\ MaxFaults \in Nat
  /\ Mishaps \subseteq {"crash", "fault", "damage", "misread"}

VARIABLES
  file,        \* the rows of every file, or Bad; a missing file has no rows
  manifest,    \* the manifest row of every file, or Bad
  lock,        \* the holder of the .lock file of every log
  call,        \* what each process is in the middle of
  nextRun,     \* the run id the next repair is given
  reported,    \* history: the status of each repair as its caller last heard it
  retries,     \* history: the repairs that retry() started
  calls,       \* history: how many appends and repairs were called
  faults,      \* history: how many faults have happened
  mishaps      \* history: the kinds of faults and overlaps that have happened

vars == <<file, manifest, lock, call, nextRun, reported, retries, calls, faults, mishaps>>

-----------------------------------------------------------------------------
Statuses == {"none", "running", "done", "failed"}
Rows     == [status: Statuses, retry: Nat]
NoRow    == [status |-> "none", retry |-> 0]
Blank    == [k \in Keys |-> NoRow]
Tables   == [Keys -> Rows]

\* A manifest row: the rows of the frame that was written, and the content its
\* file_sha256 is the digest of. The row of a file never recorded has neither.
Records  == [rows: Tables, sum: Tables \cup {Bad}]
NoRecord == [rows |-> Blank, sum |-> Blank]

ASSUME BadAssumption ==
  /\ LogStatuses \subseteq Statuses \ {"none"}
  /\ Bad \notin Tables /\ Bad \notin [Files -> Records]

Steps == {"idle", "lock", "last", "read", "replace", "hash", "manifest", "record",
          "working"}

\* op: the function that runs; key, row: what it writes; data: the frame to write;
\* blind: its frame comes from a read that failed; sum: the digest taken; seen: the
\* manifest as read.
Calls == [at: Steps, op: {"none", "append", "start", "retry", "count", "finish"},
          f: Files, key: Keys, row: Rows, data: Tables, blind: BOOLEAN,
          sum: Tables \cup {Bad}, seen: [Files -> Records]]

Idle == [at |-> "idle", op |-> "none", f |-> Ledger, key |-> 1, row |-> NoRow,
         data |-> Blank, blind |-> FALSE, sum |-> Blank,
         seen |-> [f \in Files |-> NoRecord]]

Init ==
  /\ file     = [f \in Files |-> Blank]
  /\ manifest = [f \in Files |-> NoRecord]
  /\ lock     = [f \in Logs |-> NoProc]
  /\ call     = [p \in Procs |-> Idle]
  /\ nextRun  = 1
  /\ reported = [k \in Keys |-> "none"]
  /\ retries  = {}
  /\ calls    = 0
  /\ faults   = 0
  /\ mishaps  = {}

\* ParquetStore.read with an empty default.
Contents(f) == IF file[f] = Bad THEN Blank ELSE file[f]

Become(p, c) == call' = [call EXCEPT ![p] = c]
Goto(p, at)  == Become(p, [call[p] EXCEPT !.at = at])

Recording(p) == call[p].at \in {"hash", "manifest", "record"}
InLedger(p)  == call[p].f = Ledger /\ call[p].at \notin {"idle", "working"}

EnterLedger(p) ==
  mishaps' = mishaps \cup (IF \E q \in Procs \ {p} : InLedger(q) THEN {"ledger"} ELSE {})

-----------------------------------------------------------------------------
(* The calls.                                                                *)

NewCall(p) == call[p].at = "idle" /\ calls < MaxCalls /\ calls' = calls + 1

Append(p, f, k, status) ==
  /\ NewCall(p)
  /\ Become(p, [Idle EXCEPT !.at = "lock", !.op = "append", !.f = f, !.key = k,
                            !.row = [status |-> status, retry |-> 0]])
  /\ UNCHANGED <<file, manifest, lock, nextRun, reported, retries, faults, mishaps>>

\* A run id is a fresh uuid; they are numbered by their started_at.
NewRun(p, op, retry) ==
  /\ nextRun \in Keys
  /\ Become(p, [Idle EXCEPT !.at = "read", !.op = op, !.key = nextRun,
                            !.row = [status |-> "running", retry |-> retry]])
  /\ nextRun' = nextRun + 1

\* repair() of scripts/repair_table.py: start, the work, complete or fail.
Start(p) ==
  /\ NewCall(p)
  /\ NewRun(p, "start", 0)
  /\ EnterLedger(p)
  /\ UNCHANGED <<file, manifest, lock, reported, retries, faults>>

Retry(p) ==
  /\ NewCall(p) /\ nextRun \in Keys
  /\ Become(p, [Idle EXCEPT !.at = "last", !.op = "retry"])
  /\ EnterLedger(p)
  /\ UNCHANGED <<file, manifest, lock, nextRun, reported, retries, faults>>

RunsIn(table)     == {k \in Keys : table[k] # NoRow}
IsNewest(k, runs) == \A other \in runs : other <= k

\* last_run: the newest row by started_at. Its count is kept for the new row, which
\* start() writes with a count of 0.
ReadLastIn(p, table) ==
  LET runs == RunsIn(table) IN
  /\ call[p].at = "last"
  /\ \/ runs = {} /\ NewRun(p, "retry", 0)
     \/ \E k \in runs : IsNewest(k, runs) /\ NewRun(p, "retry", table[k].retry + 1)
  /\ UNCHANGED <<file, manifest, lock, reported, retries, calls>>

ReadLast(p) ==
  /\ ReadLastIn(p, Contents(Ledger))
  /\ UNCHANGED <<faults, mishaps>>

\* Mutant: the outcome is written in a word of its own.
FinishInWords(p, status) ==
  /\ call[p].at = "working"
  /\ Become(p, [call[p] EXCEPT !.at = "read", !.op = "finish",
                               !.row.status = IF status = "done" THEN "completed" ELSE status])
  /\ EnterLedger(p)
  /\ UNCHANGED <<file, manifest, lock, nextRun, reported, retries, calls, faults>>

Finish(p, status) ==
  /\ call[p].at = "working"
  /\ Become(p, [call[p] EXCEPT !.at = "read", !.op = "finish", !.row.status = status])
  /\ EnterLedger(p)
  /\ UNCHANGED <<file, manifest, lock, nextRun, reported, retries, calls, faults>>

-----------------------------------------------------------------------------
(* The steps of a call.                                                      *)

\* The next call of a repair, without the frame and the manifest of the last one.
Only(c) == [c EXCEPT !.data = Blank, !.blind = FALSE, !.sum = Blank,
                      !.seen = Idle.seen]

\* The end of write(): append releases its lock, start and retry go on, and what
\* complete() or fail() wrote counts as reported.
Return(p) ==
  LET c == call[p] IN
  /\ lock' = [f \in Logs |-> IF lock[f] = p THEN NoProc ELSE lock[f]]
  /\ Become(p, IF c.op \in {"append", "finish"} THEN Idle
               ELSE IF c.op = "retry" THEN Only([c EXCEPT !.at = "read", !.op = "count"])
               ELSE Only([c EXCEPT !.at = "working"]))
  /\ reported' = IF c.op \in {"start", "retry", "finish"}
                 THEN [reported EXCEPT ![c.key] = c.row.status] ELSE reported
  /\ retries' = IF c.op = "count" THEN retries \cup {c.key} ELSE retries

\* Mutant: append does not wait for the lock.
LockAnyway(p) ==
  /\ call[p].at = "lock"
  /\ lock' = [lock EXCEPT ![call[p].f] = p]
  /\ Goto(p, "read")
  /\ UNCHANGED <<file, manifest, nextRun, reported, retries, calls, faults, mishaps>>

Lock(p) ==
  /\ call[p].at = "lock"
  /\ lock[call[p].f] = NoProc
  /\ lock' = [lock EXCEPT ![call[p].f] = p]
  /\ Goto(p, "read")
  /\ UNCHANGED <<file, manifest, nextRun, reported, retries, calls, faults, mishaps>>

\* Mutant: fail() writes its error only.
RowWithError(c, table) ==
  IF c.op = "retry" THEN [c.row EXCEPT !.retry = 0]
  ELSE IF c.op = "finish" /\ c.row.status = "done" THEN [table[c.key] EXCEPT !.status = "done"]
  ELSE IF c.op = "finish" THEN table[c.key]
  ELSE IF c.op = "count" THEN [table[c.key] EXCEPT !.retry = c.row.retry]
  ELSE c.row

\* The row a call writes: start() counts no retries, complete() and fail() keep the count.
RowOf(c, table) ==
  IF c.op = "retry" THEN [c.row EXCEPT !.retry = 0]
  ELSE IF c.op = "finish" THEN [table[c.key] EXCEPT !.status = c.row.status]
  ELSE IF c.op = "count" THEN [table[c.key] EXCEPT !.retry = c.row.retry]
  ELSE c.row

\* The run is not in the file.
Missing(c, table) == c.op \in {"finish", "count"} /\ table[c.key] = NoRow

ReadIn(p, table) ==
  LET c == call[p] IN
  /\ c.at = "read"
  /\ ~Missing(c, table)
  /\ Become(p, [c EXCEPT !.at = "replace", !.blind = table # Contents(c.f),
                         !.data = [table EXCEPT ![c.key] = RowOf(c, table)]])
  /\ UNCHANGED <<file, manifest, lock, nextRun, reported, retries, calls>>

Read(p) ==
  /\ ReadIn(p, Contents(call[p].f))
  /\ UNCHANGED <<faults, mishaps>>

\* _update returns without a word, and so does retry, unless the file reads empty: there
\* is no column run_id then, and the KeyError ends the program.
ReadMissingIn(p, table) ==
  LET c == call[p] IN
  /\ c.at = "read"
  /\ Missing(c, table)
  /\ \/ ~(c.op = "count" /\ table = Blank) /\ Return(p)
     \/ /\ c.op = "count" /\ table = Blank
        /\ Become(p, Idle)
        /\ UNCHANGED <<lock, reported, retries>>
  /\ UNCHANGED <<file, manifest, nextRun, calls>>

ReadMissing(p) ==
  /\ ReadMissingIn(p, Contents(call[p].f))
  /\ UNCHANGED <<faults, mishaps>>

Replace(p) ==
  /\ call[p].at = "replace"
  /\ file' = [file EXCEPT ![call[p].f] = call[p].data]
  /\ Goto(p, "hash")
  /\ mishaps' = mishaps
       \cup (IF \E q \in Procs \ {p} : Recording(q) THEN {"manifest"} ELSE {})
  /\ UNCHANGED <<manifest, lock, nextRun, reported, retries, calls, faults>>

\* record() takes the digest of what is at the path by now.
Hash(p) ==
  /\ call[p].at = "hash"
  /\ Become(p, [call[p] EXCEPT !.at = "manifest", !.sum = file[call[p].f]])
  /\ UNCHANGED <<file, manifest, lock, nextRun, reported, retries, calls, faults, mishaps>>

ReadManifest(p) ==
  /\ call[p].at = "manifest" /\ manifest # Bad
  /\ Become(p, [call[p] EXCEPT !.at = "record", !.seen = manifest])
  /\ UNCHANGED <<file, manifest, lock, nextRun, reported, retries, calls, faults, mishaps>>

\* A manifest that cannot be read is left as it is.
ReadBadManifest(p) ==
  /\ call[p].at = "manifest" /\ manifest = Bad
  /\ Return(p)
  /\ UNCHANGED <<file, manifest, nextRun, calls, faults, mishaps>>

\* Mutant: the manifest is written with the new row alone.
WriteOneRecord(p) ==
  LET c == call[p] IN
  /\ c.at = "record"
  /\ manifest' = [Idle.seen EXCEPT ![c.f] = [rows |-> c.data, sum |-> c.sum]]
  /\ Return(p)
  /\ UNCHANGED <<file, nextRun, calls, faults, mishaps>>

WriteManifest(p) ==
  LET c == call[p] IN
  /\ c.at = "record"
  /\ manifest' = [c.seen EXCEPT ![c.f] = [rows |-> c.data, sum |-> c.sum]]
  /\ Return(p)
  /\ UNCHANGED <<file, nextRun, calls, faults, mishaps>>

-----------------------------------------------------------------------------
(* Failures.                                                                 *)

Mishap(m) ==
  /\ m \in Mishaps /\ faults < MaxFaults
  /\ faults' = faults + 1
  /\ mishaps' = mishaps \cup {m}

\* An exception while the file is written leaves it as it was. append passes it on from
\* under its lock; complete() is called where fail() answers exceptions; of the others
\* it ends the program.
FailWrite(p) ==
  LET c == call[p] IN
  /\ c.at = "replace" /\ Mishap("fault")
  /\ Become(p, IF c.op = "finish" /\ c.row.status = "done"
               THEN Only([c EXCEPT !.at = "read", !.row.status = "failed"]) ELSE Idle)
  /\ lock' = [f \in Logs |-> IF lock[f] = p THEN NoProc ELSE lock[f]]
  /\ UNCHANGED <<file, manifest, nextRun, reported, retries, calls>>

\* read() answers every exception with its empty default.
Misread(p) ==
  /\ file[call[p].f] \notin {Bad, Blank} /\ Mishap("misread")
  /\ ReadIn(p, Blank) \/ ReadMissingIn(p, Blank) \/ ReadLastIn(p, Blank)

\* record() swallows every exception.
FailRecord(p) ==
  /\ Recording(p) /\ Mishap("fault")
  /\ Return(p)
  /\ UNCHANGED <<file, manifest, nextRun, calls>>

\* The system releases the lock of a process that ends.
Crash(p) ==
  /\ call[p].at # "idle" /\ Mishap("crash")
  /\ Become(p, Idle)
  /\ lock' = [f \in Logs |-> IF lock[f] = p THEN NoProc ELSE lock[f]]
  /\ UNCHANGED <<file, manifest, nextRun, reported, retries, calls>>

\* Damage to a file that somebody is about to replace is overwritten and not modelled.
DamageFile(f) ==
  /\ \A p \in Procs : call[p].at = "replace" => call[p].f # f
  /\ Mishap("damage")
  /\ file' = [file EXCEPT ![f] = Bad]
  /\ UNCHANGED <<manifest, lock, call, nextRun, reported, retries, calls>>

DamageManifest ==
  /\ Mishap("damage")
  /\ manifest' = Bad
  /\ UNCHANGED <<file, lock, call, nextRun, reported, retries, calls>>

Step(p) ==
  \/ Lock(p) \/ ReadLast(p) \/ Read(p) \/ ReadMissing(p) \/ Replace(p)
  \/ Hash(p) \/ ReadManifest(p) \/ ReadBadManifest(p) \/ WriteManifest(p)

Next ==
  \/ \E p \in Procs :
       \/ \E f \in Logs, k \in Keys, s \in LogStatuses : Append(p, f, k, s)
       \/ Start(p) \/ Retry(p)
       \/ \E s \in {"done", "failed"} : Finish(p, s)
       \/ Step(p)
       \/ Misread(p) \/ FailWrite(p) \/ FailRecord(p) \/ Crash(p)
  \/ \E f \in Files : DamageFile(f)
  \/ DamageManifest

Spec == Init /\ [][Next]_vars

-----------------------------------------------------------------------------
(* Properties.                                                               *)

TypeOK ==
  /\ file \in [Files -> Tables \cup {Bad}]
  /\ manifest \in [Files -> Records] \cup {Bad}
  /\ lock \in [Logs -> Procs \cup {NoProc}]
  /\ call \in [Procs -> Calls]
  /\ nextRun \in 1..(MaxKey + 1)
  /\ reported \in [Keys -> Statuses]
  /\ retries \subseteq Keys
  /\ calls \in 0..MaxCalls /\ faults \in 0..MaxFaults
  /\ mishaps \subseteq Mishaps \cup {"ledger", "manifest"}

\* append_parquet loses no row as long as the file can be read: whoever appends, dies or
\* fails to write at the same time, every change of a log is one append to it, the damage
\* of its file, or the new start of an append whose own read failed.
KL == INSTANCE KeyedLogs WITH
  log    <- [f \in Logs |-> Contents(f)],
  bad    <- {f \in Logs : file[f] = Bad},
  missed <- {f \in Logs : \E p \in Procs :
               call[p].f = f /\ call[p].at = "replace" /\ call[p].blind}
ImplementsLogs == KL!Spec

\* The row counts and digest of a manifest row are of the same content: for a log even
\* while others record, as append holds its lock over the recording; for the ledger as
\* long as no two of its writers overlap.
RecordsAreOfOneFile ==
  manifest # Bad /\ "damage" \notin mishaps =>
    \A f \in Files : (f \in Logs \/ "ledger" \notin mishaps) =>
      manifest[f].rows = manifest[f].sum

\* The manifest describes every file that nobody is writing, if no recordings
\* overlapped, failed or died.
ManifestIsCurrent ==
  mishaps = {} =>
    \A f \in Files :
      (\E p \in Procs : Recording(p) /\ call[p].f = f) \/ manifest[f].rows = file[f]

\* What the manifest says of a file is true of it.
ManifestIsTrue == RecordsAreOfOneFile /\ ManifestIsCurrent

\* No two programs wrote the ledger at once, it was not damaged and no read of it failed.
Undisturbed == mishaps \cap {"ledger", "damage", "misread"} = {}

\* A repair that returned done or failed reads so in the ledger, and not as running for
\* ever, over the crashes and failing writes of this and of later repairs, if nothing
\* disturbed the ledger.
RepairsReadAsReported ==
  Undisturbed =>
    \A k \in Keys :
      reported[k] \in {"done", "failed"} => file[Ledger][k].status = reported[k]

\* A retry that returned counts one more than the newest repair before it, over crashes
\* and failing writes, if nothing disturbed the ledger.
RetriesAreCounted ==
  Undisturbed =>
    \A k \in retries :
      LET before == {l \in RunsIn(file[Ledger]) : l < k} IN
      IF before = {} THEN file[Ledger][k].retry = 0
      ELSE \E l \in before : /\ IsNewest(l, before)
                             /\ file[Ledger][k].retry = file[Ledger][l].retry + 1

\* What a program was told of its repairs is what the ledger says of them.
RepairsAreRecorded == RepairsReadAsReported /\ RetriesAreCounted

=============================================================================
