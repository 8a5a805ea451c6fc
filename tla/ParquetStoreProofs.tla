-------------------------- MODULE ParquetStoreProofs --------------------------
(* ParquetStore for any processes, logs, keys and numbers of calls and faults: it  *)
(* implements KeyedLogs, because what each process holds of a log is protected by *)
(* its lock; the manifest tells of the files what it can; and repairs are          *)
(* recorded as reported as long as nothing disturbs the ledger without a lock.     *)
EXTENDS ParquetStore, TLAPS

\* The rows a call adds its own to: none, if its read failed.
Base(c) == IF c.blind THEN Blank ELSE Contents(c.f)

\* What a process in the middle of an append relies on: it has the lock, and the frame
\* it is about to write is the log as it is now, or nothing if it failed to read it, with
\* the row of its call.
Holds(c, p) ==
  c.f \in Logs =>
    /\ c.op = "append" /\ c.row.status # "none"
    /\ c.at \notin {"idle", "last", "working"}
    /\ c.at # "lock" => lock[c.f] = p
    /\ c.at = "replace" => /\ c.data = [Base(c) EXCEPT ![c.key] = c.row]
                           /\ c.blind => file[c.f] # Bad

Types ==
  /\ file \in [Files -> Tables \cup {Bad}]
  /\ manifest \in [Files -> Records] \cup {Bad}
  /\ lock \in [Logs -> Procs \cup {NoProc}]
  /\ call \in [Procs -> Calls]
  /\ nextRun \in Nat \ {0}

Protected == \A p \in Procs : Holds(call[p], p)

Inv == Types /\ Protected

-----------------------------------------------------------------------------
(* The calls keep their shape.                                               *)

LEMMA LedgerIsNoLog == Ledger \notin Logs /\ Ledger \in Files /\ Logs \subseteq Files
BY StoreAssumption DEF Files

LEMMA RowTypes == NoRow \in Rows /\ Blank \in Tables /\ NoRecord \in Records
<1>1. NoRow \in Rows
  BY DEF NoRow, Rows, Statuses
<1>2. Blank \in Tables
  BY <1>1 DEF Blank, Tables
<1> QED BY <1>1, <1>2 DEF NoRecord, Records

LEMMA IdleType == Idle \in Calls
<1>1. 1 \in Keys
  BY StoreAssumption DEF Keys
<1>2. [f \in Files |-> NoRecord] \in [Files -> Records]
  BY RowTypes
<1> QED BY <1>1, <1>2, RowTypes, LedgerIsNoLog DEF Idle, Calls, Steps

LEMMA ContentsType ==
  ASSUME Types, NEW f \in Files PROVE Contents(f) \in Tables
BY RowTypes DEF Types, Contents

\* A call whose fields are replaced by others of their types is a call.
LEMMA AtType ==
  ASSUME NEW c \in Calls, NEW at \in Steps PROVE [c EXCEPT !.at = at] \in Calls
BY DEF Calls

LEMMA CallParts ==
  ASSUME NEW c \in Calls
  PROVE  /\ c.at \in Steps /\ c.f \in Files /\ c.key \in Keys /\ c.row \in Rows
         /\ c.data \in Tables /\ c.blind \in BOOLEAN /\ c.sum \in Tables \cup {Bad}
         /\ c.seen \in [Files -> Records]
         /\ c.op \in {"none", "append", "start", "retry", "count", "finish"}
BY DEF Calls

LEMMA OnlyType ==
  ASSUME NEW c \in Calls
  PROVE  Only(c) \in Calls /\ Only(c).f = c.f
BY RowTypes, IdleType DEF Only, Calls

LEMMA RowOfType ==
  ASSUME NEW c \in Calls, NEW table \in Tables PROVE RowOf(c, table) \in Rows
<1>1. c.row \in Rows /\ table[c.key] \in Rows
  BY DEF Calls, Tables
<1>2. [c.row EXCEPT !.retry = 0] \in Rows
  BY <1>1 DEF Rows
<1>3. [table[c.key] EXCEPT !.status = c.row.status] \in Rows
  BY <1>1 DEF Rows
<1>4. [table[c.key] EXCEPT !.retry = c.row.retry] \in Rows
  BY <1>1 DEF Rows
<1> QED BY <1>1, <1>2, <1>3, <1>4 DEF RowOf

-----------------------------------------------------------------------------
(* One process goes on.                                                      *)

\* A step of p keeps the invariant if it takes no lock from another process, changes no
\* log that another is about to write, and p may rely on what its call says.
LEMMA GoOn ==
  ASSUME NEW p \in Procs, NEW d \in Calls, Inv, Become(p, d),
         \A q \in Procs \ {p} : \A f \in Logs : lock[f] = q => lock'[f] = q,
         \A q \in Procs \ {p} : call[q].f \in Logs /\ call[q].at = "replace"
                                  => file'[call[q].f] = file[call[q].f],
         Holds(d, p)'
  PROVE  call' \in [Procs -> Calls] /\ Protected'
<1>1. call' = [call EXCEPT ![p] = d] /\ call \in [Procs -> Calls]
  BY DEF Become, Inv, Types
<1>2. call' \in [Procs -> Calls]
  BY <1>1
<1>3. ASSUME NEW q \in Procs PROVE Holds(call[q], q)'
  <2>1. CASE q = p
    <3>1. call'[q] = d /\ q = p
      BY <1>1, <2>1
    <3> QED BY <3>1 DEF Holds, Base, Contents
  <2>2. CASE q # p
    <3>1. call'[q] = call[q]
      BY <1>1, <2>2
    <3>2. Holds(call[q], q)
      BY DEF Inv, Protected
    <3>3. /\ call[q].f \in Logs /\ lock[call[q].f] = q => lock'[call[q].f] = q
          /\ call[q].f \in Logs /\ call[q].at = "replace"
               => file'[call[q].f] = file[call[q].f]
      BY <2>2
    <3> QED BY <3>1, <3>2, <3>3 DEF Holds, Base, Contents
  <2> QED BY <2>1, <2>2
<1> QED BY <1>2, <1>3 DEF Protected

\* The locks of p, and no others, are released.
LEMMA Released ==
  ASSUME NEW p \in Procs, Inv,
         lock' = [f \in Logs |-> IF lock[f] = p THEN NoProc ELSE lock[f]]
  PROVE  /\ lock' \in [Logs -> Procs \cup {NoProc}]
         /\ \A q \in Procs \ {p} : \A f \in Logs : lock[f] = q => lock'[f] = q
BY DEF Inv, Types

LEMMA IdleHolds == ASSUME NEW p PROVE Holds(Idle, p)'
BY LedgerIsNoLog DEF Holds, Idle

\* A call on the ledger relies on no lock.
LEMMA LedgerHolds == ASSUME NEW c, c.f = Ledger, NEW p PROVE Holds(c, p)'
BY LedgerIsNoLog DEF Holds

LEMMA LedgerOrLog ==
  ASSUME Inv, NEW p \in Procs, call[p].op # "append" PROVE call[p].f = Ledger
<1>1. Holds(call[p], p) /\ call[p].f \in Files
  BY CallParts DEF Inv, Protected, Types
<1> QED BY <1>1 DEF Holds, Files

\* write() ends: append is over, the calls of a repair go on with the ledger.
LEMMA ReturnKeeps ==
  ASSUME Inv, NEW p \in Procs, Return(p), file' = file
  PROVE  /\ call' \in [Procs -> Calls] /\ Protected'
         /\ lock' \in [Logs -> Procs \cup {NoProc}]
<1> DEFINE c     == call[p]
           again == [c EXCEPT !.at = "read", !.op = "count"]
           work  == [c EXCEPT !.at = "working"]
           next  == IF c.op \in {"append", "finish"} THEN Idle
                    ELSE IF c.op = "retry" THEN Only(again) ELSE Only(work)
<1>1. c \in Calls
  BY DEF Inv, Types
<1>2. Become(p, next) /\ lock' = [f \in Logs |-> IF lock[f] = p THEN NoProc ELSE lock[f]]
  BY DEF Return
<1>3. again \in Calls /\ again.f = c.f
  BY <1>1 DEF Calls, Steps
<1>4. work \in Calls /\ work.f = c.f
  BY <1>1 DEF Calls, Steps
<1> HIDE DEF again, work
<1>5. next \in Calls
  BY <1>3, <1>4, IdleType, OnlyType
<1>6. next.f = Ledger \/ next = Idle
  BY <1>1, <1>3, <1>4, OnlyType, LedgerOrLog
<1> HIDE DEF next
<1>7. PICK d \in Calls : d = next
  BY <1>5
<1>8. Holds(d, p)'
  BY <1>6, <1>7, IdleHolds, LedgerHolds
<1>9. /\ lock' \in [Logs -> Procs \cup {NoProc}]
      /\ \A q \in Procs \ {p} : \A f \in Logs : lock[f] = q => lock'[f] = q
  BY <1>2, Released
<1>10. Become(p, d)
  BY <1>2, <1>7
<1> QED BY <1>8, <1>9, <1>10, GoOn

\* A step that leaves files and locks alone.
LEMMA GoOnAlone ==
  ASSUME NEW p \in Procs, NEW d \in Calls, Inv, Become(p, d), UNCHANGED <<file, lock>>,
         Holds(d, p)
  PROVE  call' \in [Procs -> Calls] /\ Protected'
<1>1. Holds(d, p)'
  BY DEF Holds, Base, Contents
<1> QED BY <1>1, GoOn

-----------------------------------------------------------------------------
(* One lemma for each step.                                                  *)

LEMMA AppendKeeps ==
  ASSUME Inv, NEW p \in Procs, NEW f \in Logs, NEW k \in Keys, NEW s \in LogStatuses,
         Append(p, f, k, s)
  PROVE  Inv'
<1> DEFINE c == [Idle EXCEPT !.at = "lock", !.op = "append", !.f = f, !.key = k,
                            !.row = [status |-> s, retry |-> 0]]
<1>1. Become(p, c) /\ UNCHANGED <<file, manifest, lock, nextRun>>
  BY DEF Append
<1>2. s \in Statuses /\ s # "none"
  BY BadAssumption
<1>3. c \in Calls
  BY <1>2, IdleType, LedgerIsNoLog DEF Calls, Rows, Steps
<1>4. Holds(c, p)
  BY <1>2, IdleType DEF Holds, Calls
<1> HIDE DEF c
<1>5. PICK d \in Calls : d = c
  BY <1>3
<1>6. call' \in [Procs -> Calls] /\ Protected'
  BY <1>1, <1>4, <1>5, GoOnAlone
<1> QED BY <1>1, <1>6 DEF Inv, Types

\* The first step of start() and of retry() on the ledger.
LEMMA NewRunKeeps ==
  ASSUME Inv, NEW p \in Procs, NEW op \in {"start", "retry"}, NEW retry \in Nat,
         NewRun(p, op, retry), UNCHANGED <<file, manifest, lock>>
  PROVE  Inv'
<1> DEFINE c == [Idle EXCEPT !.at = "read", !.op = op, !.key = nextRun,
                            !.row = [status |-> "running", retry |-> retry]]
<1>1. Become(p, c) /\ nextRun \in Keys /\ nextRun' = nextRun + 1
  BY DEF NewRun
<1>2. c \in Calls /\ c.f = Ledger
  BY <1>1, IdleType, LedgerIsNoLog DEF Calls, Rows, Statuses, Steps, Idle
<1> HIDE DEF c
<1>3. PICK d \in Calls : d = c
  BY <1>2
<1>4. Holds(d, p)
  BY <1>2, <1>3, LedgerIsNoLog DEF Holds
<1>5. call' \in [Procs -> Calls] /\ Protected'
  BY <1>1, <1>3, <1>4, GoOnAlone
<1>6. nextRun' \in Nat \ {0}
  BY <1>1 DEF Inv, Types
<1> QED BY <1>5, <1>6 DEF Inv, Types

LEMMA StartKeeps == ASSUME Inv, NEW p \in Procs, Start(p) PROVE Inv'
BY NewRunKeeps DEF Start

LEMMA RetryKeeps == ASSUME Inv, NEW p \in Procs, Retry(p) PROVE Inv'
<1> DEFINE c == [Idle EXCEPT !.at = "last", !.op = "retry"]
<1>1. Become(p, c) /\ UNCHANGED <<file, manifest, lock, nextRun>>
  BY DEF Retry
<1>2. c \in Calls /\ c.f = Ledger
  BY IdleType DEF Calls, Steps, Idle
<1> HIDE DEF c
<1>3. PICK d \in Calls : d = c
  BY <1>2
<1>4. Holds(d, p)
  BY <1>2, <1>3, LedgerIsNoLog DEF Holds
<1>5. call' \in [Procs -> Calls] /\ Protected'
  BY <1>1, <1>3, <1>4, GoOnAlone
<1> QED BY <1>1, <1>5 DEF Inv, Types

LEMMA ReadLastRuns ==
  ASSUME Inv, NEW p \in Procs, NEW table \in Tables, ReadLastIn(p, table)
  PROVE  \E n \in Nat : NewRun(p, "retry", n)
<1>1. \A k \in RunsIn(table) : table[k].retry + 1 \in Nat
  BY DEF RunsIn, Tables, Rows
<1> QED BY <1>1 DEF ReadLastIn

LEMMA ReadLastKeeps ==
  ASSUME Inv, NEW p \in Procs, NEW table \in Tables, ReadLastIn(p, table) PROVE Inv'
<1>1. PICK n \in Nat : NewRun(p, "retry", n)
  BY ReadLastRuns
<1> QED BY <1>1, NewRunKeeps DEF ReadLastIn

LEMMA FinishKeeps ==
  ASSUME Inv, NEW p \in Procs, NEW s \in {"done", "failed"}, Finish(p, s) PROVE Inv'
<1> DEFINE c == [call[p] EXCEPT !.at = "read", !.op = "finish", !.row.status = s]
<1>1. /\ Become(p, c) /\ call[p].at = "working"
      /\ UNCHANGED <<file, manifest, lock, nextRun>>
  BY DEF Finish
<1>2. call[p] \in Calls
  BY DEF Inv, Types
<1>3. c \in Calls /\ c.f = call[p].f
  BY <1>2 DEF Calls, Steps, Rows, Statuses
<1> HIDE DEF c
<1>4. call[p].f = Ledger
  BY <1>1, <1>2, CallParts DEF Inv, Protected, Holds, Files
<1>5. PICK d \in Calls : d = c
  BY <1>3
<1>6. Holds(d, p)
  BY <1>3, <1>4, <1>5, LedgerIsNoLog DEF Holds
<1>7. call' \in [Procs -> Calls] /\ Protected'
  BY <1>1, <1>5, <1>6, GoOnAlone
<1> QED BY <1>1, <1>7 DEF Inv, Types

LEMMA LockKeeps == ASSUME Inv, NEW p \in Procs, Lock(p) PROVE Inv'
<1>0. call[p] \in Calls /\ Holds(call[p], p)
  BY DEF Inv, Types, Protected
<1>1. PICK c \in Calls : c = call[p]
  BY <1>0
<1>2. PICK d \in Calls : d = [c EXCEPT !.at = "read"]
  BY <1>1, AtType DEF Steps
<1>3. /\ Become(p, d) /\ lock' = [lock EXCEPT ![c.f] = p] /\ lock[c.f] = NoProc
      /\ UNCHANGED <<file, manifest, nextRun>>
  BY <1>1, <1>2 DEF Lock, Goto
<1>4. d.f = c.f /\ d.at = "read" /\ d.op = c.op /\ d.row = c.row
  BY <1>2 DEF Calls
<1>5. /\ lock' \in [Logs -> Procs \cup {NoProc}]
      /\ d.f \in Logs => lock'[d.f] = p
  BY <1>1, <1>3, <1>4 DEF Inv, Types
<1>6. \A q \in Procs \ {p} : \A f \in Logs : lock[f] = q => lock'[f] = q
  BY <1>1, <1>3, StoreAssumption DEF Inv, Types
<1>7. Holds(d, p)'
  BY <1>0, <1>1, <1>4, <1>5 DEF Holds
<1>8. call' \in [Procs -> Calls] /\ Protected'
  BY <1>3, <1>6, <1>7, GoOn
<1> QED BY <1>3, <1>5, <1>8 DEF Inv, Types

\* The rows that p reads: those of its file, or by a failed read none.
Seen(p, table) ==
  \/ table = Contents(call[p].f)
  \/ table = Blank /\ file[call[p].f] \notin {Bad, Blank}

Looks(p) == ReadLast(p) \/ Read(p) \/ ReadMissing(p) \/ Misread(p)

LooksAt(p, table) == ReadLastIn(p, table) \/ ReadIn(p, table) \/ ReadMissingIn(p, table)

LEMMA LastInLedger ==
  ASSUME Inv, NEW p \in Procs, call[p].at = "last" PROVE call[p].f = Ledger
<1>1. Holds(call[p], p) /\ call[p].f \in Files
  BY CallParts DEF Inv, Protected, Types
<1> QED BY <1>1 DEF Holds, Files

LEMMA LooksAtTable ==
  ASSUME Inv, NEW p \in Procs, Looks(p)
  PROVE  \E table \in Tables : Seen(p, table) /\ LooksAt(p, table)
<1>1. Contents(call[p].f) \in Tables
  BY CallParts, ContentsType DEF Inv, Types
<1>2. CASE ReadLast(p)
  <2>1. call[p].f = Ledger
    BY <1>2, LastInLedger DEF ReadLast, ReadLastIn
  <2> QED BY <1>1, <1>2, <2>1 DEF ReadLast, Seen, LooksAt
<1>3. CASE Read(p) \/ ReadMissing(p)
  BY <1>1, <1>3 DEF Read, ReadMissing, Seen, LooksAt
<1>4. CASE Misread(p)
  BY <1>4, RowTypes DEF Misread, Seen, LooksAt
<1> QED BY <1>2, <1>3, <1>4 DEF Looks

\* The frame an append is about to write is the log with its row, or this row alone.
LEMMA ReadKeeps ==
  ASSUME Inv, NEW p \in Procs, NEW table \in Tables, Seen(p, table), ReadIn(p, table)
  PROVE  Inv'
<1> DEFINE row   == RowOf(call[p], table)
           new   == [table EXCEPT ![call[p].key] = row]
           blind == table # Contents(call[p].f)
           next  == [call[p] EXCEPT !.at = "replace", !.blind = blind, !.data = new]
<1>0. call[p] \in Calls /\ Holds(call[p], p)
  BY DEF Inv, Types, Protected
<1>1. Become(p, next) /\ call[p].at = "read" /\ UNCHANGED <<file, manifest, lock, nextRun>>
  BY DEF ReadIn
<1>3. row \in Rows
  BY <1>0, RowOfType
<1>4. new \in Tables
  BY <1>3 DEF Tables
<1>5. /\ next \in Calls /\ next.f = call[p].f /\ next.at = "replace"
      /\ next.data = new /\ next.op = call[p].op /\ next.row = call[p].row
      /\ next.key = call[p].key /\ next.blind = blind
  BY <1>0, <1>4 DEF Calls, Steps
<1>6. call[p].f \in Logs => row = call[p].row
  BY <1>0 DEF Holds, RowOf
<1>7. (blind => table = Blank /\ file[call[p].f] # Bad) /\ (~blind => table = Contents(call[p].f))
  BY DEF Seen
<1> HIDE DEF next, blind
<1>8. Base(next) = table /\ (next.blind => file[next.f] # Bad)
  BY <1>5, <1>7 DEF Base
<1>9. Holds(next, p)
  BY <1>0, <1>1, <1>5, <1>6, <1>8 DEF Holds
<1>10. PICK d \in Calls : d = next
  BY <1>5
<1>11. call' \in [Procs -> Calls] /\ Protected'
  BY <1>1, <1>9, <1>10, GoOnAlone
<1> QED BY <1>1, <1>11 DEF Inv, Types

LEMMA ReadMissingKeeps ==
  ASSUME Inv, NEW p \in Procs, NEW table \in Tables, ReadMissingIn(p, table) PROVE Inv'
<1>1. UNCHANGED <<file, manifest, nextRun>>
  BY DEF ReadMissingIn
<1>2. CASE Return(p)
  BY <1>1, <1>2, ReturnKeeps DEF Inv, Types
<1>3. CASE Become(p, Idle) /\ UNCHANGED lock
  <2>1. Holds(Idle, p)
    BY LedgerIsNoLog DEF Holds, Idle
  <2>2. call' \in [Procs -> Calls] /\ Protected'
    BY <1>1, <1>3, <2>1, IdleType, GoOnAlone
  <2> QED BY <1>1, <1>3, <2>2 DEF Inv, Types
<1> QED BY <1>2, <1>3 DEF ReadMissingIn

LEMMA LooksKeep == ASSUME Inv, NEW p \in Procs, Looks(p) PROVE Inv'
<1>1. PICK table \in Tables : Seen(p, table) /\ LooksAt(p, table)
  BY LooksAtTable
<1> QED BY <1>1, ReadLastKeeps, ReadKeeps, ReadMissingKeeps DEF LooksAt

\* Only the holder of its lock writes a log.
LEMMA ReplaceKeeps == ASSUME Inv, NEW p \in Procs, Replace(p) PROVE Inv'
<1>0. call[p] \in Calls /\ Holds(call[p], p)
  BY DEF Inv, Types, Protected
<1>1. PICK c \in Calls : c = call[p]
  BY <1>0
<1>2. PICK d \in Calls : d = [c EXCEPT !.at = "hash"]
  BY <1>1, AtType DEF Steps
<1>3. /\ Become(p, d) /\ c.at = "replace" /\ file' = [file EXCEPT ![c.f] = c.data]
      /\ UNCHANGED <<manifest, lock, nextRun>>
  BY <1>1, <1>2 DEF Replace, Goto
<1>4. d.f = c.f /\ d.at = "hash" /\ d.op = c.op /\ d.row = c.row
  BY <1>2 DEF Calls
<1>5. file' \in [Files -> Tables \cup {Bad}]
  BY <1>3, CallParts DEF Inv, Types
<1>6. ASSUME NEW q \in Procs \ {p}, call[q].f \in Logs, call[q].at = "replace"
      PROVE  file'[call[q].f] = file[call[q].f]
  <2>1. lock[call[q].f] = q
    BY <1>6 DEF Inv, Protected, Holds
  <2>2. c.f \in Logs => lock[c.f] = p
    BY <1>0, <1>1, <1>3 DEF Holds
  <2>3. call[q].f # c.f
    BY <1>6, <2>1, <2>2
  <2> QED BY <1>3, <1>6, <2>3, LedgerIsNoLog DEF Inv, Types
<1>7. Holds(d, p)'
  BY <1>0, <1>1, <1>3, <1>4 DEF Holds
<1>8. call' \in [Procs -> Calls] /\ Protected'
  BY <1>3, <1>6, <1>7, GoOn
<1> QED BY <1>3, <1>5, <1>8 DEF Inv, Types

LEMMA HashKeeps == ASSUME Inv, NEW p \in Procs, Hash(p) PROVE Inv'
<1> DEFINE next == [call[p] EXCEPT !.at = "manifest", !.sum = file[call[p].f]]
<1>0. call[p] \in Calls /\ Holds(call[p], p) /\ call[p].at = "hash"
  BY DEF Inv, Types, Protected, Hash
<1>1. Become(p, next) /\ UNCHANGED <<file, manifest, lock, nextRun>>
  BY DEF Hash
<1>2. file[call[p].f] \in Tables \cup {Bad}
  BY <1>0, CallParts DEF Inv, Types
<1>3. /\ next \in Calls /\ next.f = call[p].f /\ next.at = "manifest"
      /\ next.op = call[p].op /\ next.row = call[p].row
  BY <1>0, <1>2 DEF Calls, Steps
<1>4. Holds(next, p)
  BY <1>0, <1>3 DEF Holds
<1> HIDE DEF next
<1>5. PICK d \in Calls : d = next
  BY <1>3
<1>6. call' \in [Procs -> Calls] /\ Protected'
  BY <1>1, <1>4, <1>5, GoOnAlone
<1> QED BY <1>1, <1>6 DEF Inv, Types

LEMMA ReadManifestKeeps == ASSUME Inv, NEW p \in Procs, ReadManifest(p) PROVE Inv'
<1> DEFINE next == [call[p] EXCEPT !.at = "record", !.seen = manifest]
<1>0. call[p] \in Calls /\ Holds(call[p], p) /\ call[p].at = "manifest"
  BY DEF Inv, Types, Protected, ReadManifest
<1>1. Become(p, next) /\ UNCHANGED <<file, manifest, lock, nextRun>>
  BY DEF ReadManifest
<1>2. manifest \in [Files -> Records]
  BY DEF Inv, Types, ReadManifest
<1>3. /\ next \in Calls /\ next.f = call[p].f /\ next.at = "record"
      /\ next.op = call[p].op /\ next.row = call[p].row
  BY <1>0, <1>2 DEF Calls, Steps
<1>4. Holds(next, p)
  BY <1>0, <1>3 DEF Holds
<1> HIDE DEF next
<1>5. PICK d \in Calls : d = next
  BY <1>3
<1>6. call' \in [Procs -> Calls] /\ Protected'
  BY <1>1, <1>4, <1>5, GoOnAlone
<1> QED BY <1>1, <1>6 DEF Inv, Types

LEMMA ReadBadManifestKeeps == ASSUME Inv, NEW p \in Procs, ReadBadManifest(p) PROVE Inv'
BY ReturnKeeps DEF ReadBadManifest, Inv, Types

LEMMA WriteManifestKeeps == ASSUME Inv, NEW p \in Procs, WriteManifest(p) PROVE Inv'
<1> DEFINE c == call[p]
<1>1. /\ manifest' = [c.seen EXCEPT ![c.f] = [rows |-> c.data, sum |-> c.sum]]
      /\ Return(p) /\ UNCHANGED <<file, nextRun>>
  BY DEF WriteManifest
<1>2. /\ c.seen \in [Files -> Records] /\ c.data \in Tables
      /\ c.sum \in Tables \cup {Bad}
  BY CallParts DEF Inv, Types
<1> HIDE DEF c
<1>3. manifest' \in [Files -> Records]
  BY <1>1, <1>2 DEF Records
<1> QED BY <1>1, <1>3, ReturnKeeps DEF Inv, Types

-----------------------------------------------------------------------------
(* Failures.                                                                 *)

LEMMA FailWriteKeeps == ASSUME Inv, NEW p \in Procs, FailWrite(p) PROVE Inv'
<1> DEFINE c     == call[p]
           again == [c EXCEPT !.at = "read", !.row.status = "failed"]
           next  == IF c.op = "finish" /\ c.row.status = "done" THEN Only(again) ELSE Idle
<1>0. c \in Calls
  BY DEF Inv, Types
<1>1. /\ Become(p, next) /\ UNCHANGED <<file, manifest, nextRun>>
      /\ lock' = [f \in Logs |-> IF lock[f] = p THEN NoProc ELSE lock[f]]
  BY DEF FailWrite
<1>2. again \in Calls /\ again.f = c.f
  BY <1>0 DEF Calls, Steps, Rows, Statuses
<1> HIDE DEF again
<1>3. next \in Calls
  BY <1>2, IdleType, OnlyType
<1>4. next.f = Ledger \/ next = Idle
  BY <1>0, <1>2, OnlyType, LedgerOrLog
<1> HIDE DEF next
<1>5. PICK d \in Calls : d = next
  BY <1>3
<1>6. Holds(d, p)'
  BY <1>4, <1>5, IdleHolds, LedgerHolds
<1>7. /\ lock' \in [Logs -> Procs \cup {NoProc}]
      /\ \A q \in Procs \ {p} : \A f \in Logs : lock[f] = q => lock'[f] = q
  BY <1>1, Released
<1>8. call' \in [Procs -> Calls] /\ Protected'
  BY <1>1, <1>5, <1>6, <1>7, GoOn
<1> QED BY <1>1, <1>7, <1>8 DEF Inv, Types

LEMMA FailRecordKeeps == ASSUME Inv, NEW p \in Procs, FailRecord(p) PROVE Inv'
BY ReturnKeeps DEF FailRecord, Inv, Types

LEMMA CrashKeeps == ASSUME Inv, NEW p \in Procs, Crash(p) PROVE Inv'
<1>1. /\ Become(p, Idle) /\ UNCHANGED <<file, manifest, nextRun>>
      /\ lock' = [f \in Logs |-> IF lock[f] = p THEN NoProc ELSE lock[f]]
  BY DEF Crash
<1>2. /\ lock' \in [Logs -> Procs \cup {NoProc}]
      /\ \A q \in Procs \ {p} : \A f \in Logs : lock[f] = q => lock'[f] = q
  BY <1>1, Released
<1>3. call' \in [Procs -> Calls] /\ Protected'
  BY <1>1, <1>2, IdleType, IdleHolds, GoOn
<1> QED BY <1>1, <1>2, <1>3 DEF Inv, Types

\* Damage is kept away from the file a process is about to replace.
LEMMA DamageKeeps ==
  ASSUME Inv, (\E f \in Files : DamageFile(f)) \/ DamageManifest PROVE Inv'
<1>1. ASSUME NEW f \in Files, DamageFile(f) PROVE Inv'
  <2>1. file' = [file EXCEPT ![f] = Bad] /\ UNCHANGED <<manifest, lock, call, nextRun>>
    BY <1>1 DEF DamageFile
  <2>2. ASSUME NEW p \in Procs PROVE Holds(call[p], p)'
    <3>1. Holds(call[p], p)
      BY DEF Inv, Protected
    <3>2. call[p].at = "replace" /\ call[p].f \in Logs
            => file'[call[p].f] = file[call[p].f]
      BY <1>1, <2>1, LedgerIsNoLog DEF DamageFile, Inv, Types
    <3> QED BY <2>1, <3>1, <3>2 DEF Holds, Base, Contents
  <2> QED BY <2>1, <2>2 DEF Inv, Types, Protected
<1>2. CASE DamageManifest
  BY <1>2 DEF DamageManifest, Inv, Types, Protected, Holds, Base, Contents
<1> QED BY <1>1, <1>2

LEMMA InitInv == Init => Inv
<1> SUFFICES ASSUME Init PROVE Inv
  OBVIOUS
<1>1. Types
  BY RowTypes, IdleType DEF Init, Types
<1>2. \A p \in Procs : Holds(call[p], p)
  BY LedgerIsNoLog DEF Init, Holds, Idle
<1> QED BY <1>1, <1>2 DEF Inv, Protected

LEMMA NextInv == Inv /\ [Next]_vars => Inv'
<1> SUFFICES ASSUME Inv, [Next]_vars PROVE Inv'
  OBVIOUS
<1>1. ASSUME NEW p \in Procs, Step(p) PROVE Inv'
  BY <1>1, LockKeeps, LooksKeep, ReplaceKeeps, HashKeeps, ReadManifestKeeps,
     ReadBadManifestKeeps, WriteManifestKeeps DEF Step, Looks
<1>2. ASSUME NEW p \in Procs, Misread(p) \/ FailWrite(p) \/ FailRecord(p) \/ Crash(p) PROVE Inv'
  BY <1>2, LooksKeep, FailWriteKeeps, FailRecordKeeps, CrashKeeps DEF Looks
<1>3. CASE UNCHANGED vars
  BY <1>3 DEF vars, Inv, Types, Protected, Holds, Base, Contents
<1> QED
  BY <1>1, <1>2, <1>3, AppendKeeps, StartKeeps, RetryKeeps, FinishKeeps, DamageKeeps
  DEF Next

-----------------------------------------------------------------------------
(* What the call of a process is after each of its steps.                    *)

SameCall(c, d) == d.op = c.op /\ d.f = c.f /\ d.key = c.key /\ d.row = c.row

LEMMA Becomes ==
  ASSUME Inv, NEW p \in Procs, NEW d, Become(p, d)
  PROVE  call'[p] = d /\ \A q \in Procs \ {p} : call'[q] = call[q]
BY DEF Become, Inv, Types

LEMMA Here ==
  ASSUME Inv, NEW p \in Procs
  PROVE  call[p] \in Calls /\ Holds(call[p], p)
BY DEF Inv, Types, Protected

LEMMA IdleParts == Idle.at = "idle" /\ Idle.op = "none" /\ Idle.f = Ledger
BY DEF Idle

LEMMA AppendMoves ==
  ASSUME NEW p \in Procs, NEW f \in Logs, NEW k \in Keys, NEW s \in LogStatuses,
         Append(p, f, k, s)
  PROVE  \E d \in Calls : Become(p, d) /\ d.at = "lock" /\ d.op = "append" /\ d.f = f
<1> DEFINE d == [Idle EXCEPT !.at = "lock", !.op = "append", !.f = f, !.key = k,
                            !.row = [status |-> s, retry |-> 0]]
<1>1. Become(p, d)
  BY DEF Append
<1>2. s \in Statuses
  BY BadAssumption
<1>3. d \in Calls /\ d.at = "lock" /\ d.op = "append" /\ d.f = f
  BY <1>2, IdleType, LedgerIsNoLog DEF Calls, Rows, Steps
<1> HIDE DEF d
<1> QED BY <1>1, <1>3

LEMMA NewRunMoves ==
  ASSUME Inv, NEW p \in Procs, NEW op \in {"start", "retry"}, NEW retry \in Nat,
         NewRun(p, op, retry)
  PROVE  \E d \in Calls :
           /\ Become(p, d) /\ d.at = "read" /\ d.op = op /\ d.f = Ledger
           /\ d.key = nextRun /\ d.row = [status |-> "running", retry |-> retry]
<1> DEFINE row == [status |-> "running", retry |-> retry]
<1>0. PICK k \in Keys : k = nextRun
  BY DEF NewRun
<1> DEFINE d == [Idle EXCEPT !.at = "read", !.op = op, !.key = k, !.row = row]
<1>1. Become(p, d)
  BY <1>0 DEF NewRun
<1>2. row \in Rows
  BY DEF Rows, Statuses
<1> HIDE DEF row
<1>3. d \in Calls /\ d.at = "read" /\ d.op = op /\ d.f = Ledger /\ d.key = k /\ d.row = row
  BY <1>2, IdleType, LedgerIsNoLog DEF Calls, Steps, Idle
<1> HIDE DEF d
<1> QED BY <1>0, <1>1, <1>3 DEF row

LEMMA RetryMoves ==
  ASSUME NEW p \in Procs, Retry(p)
  PROVE  \E d \in Calls : Become(p, d) /\ d.at = "last" /\ d.op = "retry" /\ d.f = Ledger
<1> DEFINE d == [Idle EXCEPT !.at = "last", !.op = "retry"]
<1>1. Become(p, d)
  BY DEF Retry
<1>2. d \in Calls /\ d.at = "last" /\ d.op = "retry" /\ d.f = Ledger
  BY IdleType DEF Calls, Steps, Idle
<1> HIDE DEF d
<1> QED BY <1>1, <1>2

LEMMA FinishMoves ==
  ASSUME Inv, NEW p \in Procs, NEW s \in {"done", "failed"}, Finish(p, s)
  PROVE  \E d \in Calls :
           /\ Become(p, d) /\ d.at = "read" /\ d.op = "finish" /\ d.f = Ledger
           /\ d.key = call[p].key /\ d.row.status = s
<1>0. PICK c \in Calls : c = call[p] /\ Holds(c, p) /\ c.at = "working"
  BY Here DEF Finish
<1> DEFINE d == [c EXCEPT !.at = "read", !.op = "finish", !.row.status = s]
<1>1. Become(p, d)
  BY <1>0 DEF Finish
<1>2. d \in Calls /\ d.at = "read" /\ d.op = "finish" /\ d.f = c.f /\ d.key = c.key
      /\ d.row.status = s
  BY <1>0 DEF Calls, Steps, Rows, Statuses
<1>3. c.f = Ledger
  BY <1>0, CallParts DEF Holds, Files
<1> HIDE DEF d
<1> QED BY <1>0, <1>1, <1>2, <1>3

LEMMA LockMoves ==
  ASSUME Inv, NEW p \in Procs, Lock(p)
  PROVE  \E d \in Calls : Become(p, d) /\ d.at = "read" /\ SameCall(call[p], d)
<1>0. PICK c \in Calls : c = call[p]
  BY Here
<1> DEFINE d == [c EXCEPT !.at = "read"]
<1>1. Become(p, d)
  BY <1>0 DEF Lock, Goto
<1>2. d \in Calls /\ d.at = "read" /\ SameCall(c, d)
  BY DEF Calls, Steps, SameCall
<1> HIDE DEF d
<1> QED BY <1>0, <1>1, <1>2

LEMMA ReadMoves ==
  ASSUME Inv, NEW p \in Procs, NEW table \in Tables, ReadIn(p, table)
  PROVE  \E d \in Calls :
           /\ Become(p, d) /\ d.at = "replace" /\ SameCall(call[p], d)
           /\ d.blind = (table # Contents(call[p].f))
           /\ d.data = [table EXCEPT ![call[p].key] = RowOf(call[p], table)]
<1>0. PICK c \in Calls : c = call[p]
  BY Here
<1>1. PICK blind \in BOOLEAN : blind = (table # Contents(c.f))
  OBVIOUS
<1>2. PICK new \in Tables : new = [table EXCEPT ![c.key] = RowOf(c, table)]
  <2>1. RowOf(c, table) \in Rows
    BY RowOfType
  <2> QED BY <2>1 DEF Tables
<1> DEFINE d == [c EXCEPT !.at = "replace", !.blind = blind, !.data = new]
<1>3. Become(p, d)
  BY <1>0, <1>1, <1>2 DEF ReadIn
<1>4. /\ d \in Calls /\ d.at = "replace" /\ SameCall(c, d) /\ d.data = new
      /\ d.blind = blind
  BY DEF Calls, Steps, SameCall
<1> HIDE DEF d
<1> QED BY <1>0, <1>1, <1>2, <1>3, <1>4

LEMMA ReplaceMoves ==
  ASSUME Inv, NEW p \in Procs, Replace(p)
  PROVE  \E d \in Calls :
           Become(p, d) /\ d.at = "hash" /\ SameCall(call[p], d) /\ d.data = call[p].data
<1>0. PICK c \in Calls : c = call[p]
  BY Here
<1> DEFINE d == [c EXCEPT !.at = "hash"]
<1>1. Become(p, d)
  BY <1>0 DEF Replace, Goto
<1>2. d \in Calls /\ d.at = "hash" /\ SameCall(c, d) /\ d.data = c.data
  BY DEF Calls, Steps, SameCall
<1> HIDE DEF d
<1> QED BY <1>0, <1>1, <1>2

LEMMA HashMoves ==
  ASSUME Inv, NEW p \in Procs, Hash(p)
  PROVE  \E d \in Calls : /\ Become(p, d) /\ d.at = "manifest" /\ SameCall(call[p], d)
                          /\ d.data = call[p].data /\ d.sum = file[call[p].f]
<1>0. PICK c \in Calls : c = call[p]
  BY Here
<1>1. PICK sum \in Tables \cup {Bad} : sum = file[c.f]
  BY CallParts DEF Inv, Types
<1> DEFINE d == [c EXCEPT !.at = "manifest", !.sum = sum]
<1>2. Become(p, d)
  BY <1>0, <1>1 DEF Hash
<1>3. d \in Calls /\ d.at = "manifest" /\ SameCall(c, d) /\ d.data = c.data /\ d.sum = sum
  BY DEF Calls, Steps, SameCall
<1> HIDE DEF d
<1> QED BY <1>0, <1>1, <1>2, <1>3

LEMMA ReadManifestMoves ==
  ASSUME Inv, NEW p \in Procs, ReadManifest(p)
  PROVE  \E d \in Calls :
           /\ Become(p, d) /\ d.at = "record" /\ SameCall(call[p], d)
           /\ d.data = call[p].data /\ d.sum = call[p].sum /\ d.seen = manifest
<1>0. PICK c \in Calls : c = call[p]
  BY Here
<1>1. PICK seen \in [Files -> Records] : seen = manifest
  BY DEF ReadManifest, Inv, Types
<1> DEFINE d == [c EXCEPT !.at = "record", !.seen = seen]
<1>2. Become(p, d)
  BY <1>0, <1>1 DEF ReadManifest
<1>3. d \in Calls /\ d.at = "record" /\ SameCall(c, d) /\ d.data = c.data /\ d.sum = c.sum
      /\ d.seen = seen
  BY DEF Calls, Steps, SameCall
<1> HIDE DEF d
<1> QED BY <1>0, <1>1, <1>2, <1>3

\* write() has ended: its call is over, or start or retry goes on.
Ended(c, d) ==
  IF c.op \in {"append", "finish"} THEN d = Idle
  ELSE /\ c.f = Ledger /\ d.f = Ledger /\ d.key = c.key /\ d.row = c.row
       /\ IF c.op = "retry" THEN d.at = "read" /\ d.op = "count"
                            ELSE d.at = "working" /\ d.op = c.op

LEMMA ReturnMoves ==
  ASSUME Inv, NEW p \in Procs, Return(p)
  PROVE  \E d \in Calls : Become(p, d) /\ Ended(call[p], d)
<1>0. PICK c \in Calls : c = call[p]
  BY Here
<1>1. CASE c.op \in {"append", "finish"}
  BY <1>0, <1>1, IdleType DEF Return, Ended
<1>2. CASE c.op = "retry"
  <2> DEFINE d == Only([c EXCEPT !.at = "read", !.op = "count"])
  <2>1. d \in Calls /\ d.at = "read" /\ d.op = "count" /\ d.f = c.f /\ d.key = c.key
        /\ d.row = c.row
    BY RowTypes, IdleType DEF Only, Calls, Steps
  <2>2. Become(p, d)
    BY <1>0, <1>2 DEF Return
  <2>3. c.f = Ledger
    BY <1>0, <1>2, LedgerOrLog
  <2> HIDE DEF d
  <2> QED BY <1>0, <1>2, <2>1, <2>2, <2>3 DEF Ended
<1>3. CASE c.op \notin {"append", "finish", "retry"}
  <2> DEFINE d == Only([c EXCEPT !.at = "working"])
  <2>1. d \in Calls /\ d.at = "working" /\ d.op = c.op /\ d.f = c.f /\ d.key = c.key
        /\ d.row = c.row
    BY RowTypes, IdleType DEF Only, Calls, Steps
  <2>2. Become(p, d)
    BY <1>0, <1>3 DEF Return
  <2>3. c.f = Ledger
    BY <1>0, <1>3, LedgerOrLog
  <2> HIDE DEF d
  <2> QED BY <1>0, <1>3, <2>1, <2>2, <2>3 DEF Ended
<1> QED BY <1>1, <1>2, <1>3

\* A failed write ends its call, or complete() is answered by fail().
LEMMA FailWriteMoves ==
  ASSUME Inv, NEW p \in Procs, FailWrite(p)
  PROVE  \E d \in Calls :
           /\ Become(p, d)
           /\ d = Idle \/ /\ call[p].op = "finish" /\ call[p].f = Ledger
                          /\ d.at = "read" /\ d.op = "finish" /\ d.f = Ledger
                          /\ d.key = call[p].key /\ d.row.status = "failed"
<1>0. PICK c \in Calls : c = call[p]
  BY Here
<1>1. CASE c.op = "finish" /\ c.row.status = "done"
  <2> DEFINE again == [c EXCEPT !.at = "read", !.row.status = "failed"]
             d == Only(again)
  <2>1. again \in Calls /\ again.at = "read" /\ again.op = "finish" /\ again.f = c.f
        /\ again.key = c.key /\ again.row.status = "failed"
    BY <1>1 DEF Calls, Steps, Rows, Statuses
  <2>2. Become(p, d)
    BY <1>0, <1>1 DEF FailWrite
  <2> HIDE DEF again
  <2>3. d \in Calls /\ d.at = "read" /\ d.op = "finish" /\ d.f = c.f
        /\ d.key = c.key /\ d.row.status = "failed"
    BY <2>1, RowTypes, IdleType DEF Only, Calls
  <2>4. c.f = Ledger
    BY <1>0, <1>1, LedgerOrLog
  <2> HIDE DEF d
  <2> QED BY <1>0, <1>1, <2>2, <2>3, <2>4
<1>2. CASE ~(c.op = "finish" /\ c.row.status = "done")
  BY <1>0, <1>2, IdleType DEF FailWrite
<1> QED BY <1>1, <1>2

\* What a look at a file leads to: a new repair, a frame to write, or the end of the call.
LEMMA LookMoves ==
  ASSUME Inv, NEW p \in Procs, Looks(p)
  PROVE  /\ UNCHANGED <<file, manifest, calls>> /\ mishaps \subseteq mishaps'
         /\ \/ /\ call[p].at = "last" /\ UNCHANGED <<lock, reported, retries>>
               /\ \E n \in Nat : NewRun(p, "retry", n)
            \/ /\ call[p].at = "read" /\ UNCHANGED <<nextRun, lock, reported, retries>>
               /\ \E d \in Calls : Become(p, d) /\ d.at = "replace" /\ SameCall(call[p], d)
            \/ call[p].at = "read" /\ UNCHANGED nextRun /\ Return(p)
            \/ /\ call[p].at = "read" /\ UNCHANGED <<nextRun, lock, reported, retries>>
               /\ Become(p, Idle)
<1>1. mishaps \subseteq mishaps'
  BY DEF Looks, ReadLast, Read, ReadMissing, Misread, Mishap
<1>2. PICK table \in Tables : LooksAt(p, table)
  BY LooksAtTable
<1>3. CASE ReadLastIn(p, table)
  BY <1>1, <1>3, ReadLastRuns DEF ReadLastIn
<1>4. CASE ReadIn(p, table)
  <2>1. PICK d \in Calls : Become(p, d) /\ d.at = "replace" /\ SameCall(call[p], d)
    BY <1>4, ReadMoves
  <2> QED BY <1>1, <1>4, <2>1 DEF ReadIn
<1>5. CASE ReadMissingIn(p, table)
  BY <1>1, <1>5 DEF ReadMissingIn
<1> QED BY <1>2, <1>3, <1>4, <1>5 DEF LooksAt

-----------------------------------------------------------------------------
(* The refinement.                                                           *)

\* The logs as their readers see them, those that are damaged, and those that a failed
\* read is about to start over.
LogsNow    == [f \in Logs |-> Contents(f)]
BadNow     == {f \in Logs : file[f] = Bad}
Blinded(c) == c.at = "replace" /\ c.blind
MissedNow  == {f \in Logs : \E p \in Procs :
                 call[p].f = f /\ call[p].at = "replace" /\ call[p].blind}

AllNow == <<LogsNow, BadNow, MissedNow>>

LEMMA InitRefines == Init => KL!Init
<1> SUFFICES ASSUME Init PROVE KL!Init
  OBVIOUS
<1>1. \A f \in Logs : file[f] = Blank /\ Blank # Bad
  BY LedgerIsNoLog, RowTypes, BadAssumption DEF Init
<1>2. \A p \in Procs : call[p].at # "replace"
  BY DEF Init, Idle
<1> QED BY <1>1, <1>2 DEF KL!Init, KL!Empty, Contents, Blank

LEMMA SameLogs == ASSUME file' = file PROVE UNCHANGED <<LogsNow, BadNow>>
BY DEF LogsNow, BadNow, Contents

\* A log has one holder, so one process at most missed it.
LEMMA OneHolder ==
  ASSUME Inv, NEW p \in Procs, NEW q \in Procs, call[p].f = call[q].f, call[p].f \in Logs,
         call[p].at \notin {"idle", "last", "working", "lock"}, call[q].at = "replace"
  PROVE  p = q
<1>1. Holds(call[p], p) /\ Holds(call[q], q)
  BY Here
<1>2. lock[call[p].f] = p
  BY <1>1 DEF Holds
<1>3. lock[call[p].f] = q
  BY <1>1 DEF Holds
<1> QED BY <1>2, <1>3

\* What p does next to its own log.
LEMMA MissedMoves ==
  ASSUME Inv, NEW p \in Procs, NEW d, Become(p, d)
  PROVE  \A f \in Logs :
           f \in MissedNow' <=> \/ d.f = f /\ Blinded(d)
                               \/ \E q \in Procs \ {p} : call[q].f = f /\ Blinded(call[q])
<1>1. \A q \in Procs : call'[q] = IF q = p THEN d ELSE call[q]
  BY Becomes
<1> QED BY <1>1 DEF MissedNow, Blinded

\* A step that writes no file and leaves p with nothing to write: it may have given up.
LEMMA OthersRefine ==
  ASSUME Inv, NEW p \in Procs, NEW d, Become(p, d), d.at # "replace", file' = file
  PROVE  [KL!Next]_AllNow
<1>1. UNCHANGED <<LogsNow, BadNow>>
  BY SameLogs
<1>2. CASE call[p].f \in Logs /\ Blinded(call[p])
  <2>1. PICK f \in Logs : f = call[p].f
    BY <1>2
  <2>2. ~\E q \in Procs \ {p} : call[q].f = f /\ Blinded(call[q])
    BY <1>2, <2>1, OneHolder DEF Blinded
  <2>3. f \in MissedNow /\ \A g \in Logs : g \in MissedNow' <=> g \in MissedNow /\ g # f
    BY <1>2, <2>1, <2>2, MissedMoves DEF MissedNow, Blinded
  <2>4. MissedNow' = MissedNow \ {f}
    BY <2>3 DEF MissedNow
  <2>5. KL!GiveUp(f)
    BY <1>1, <2>3, <2>4 DEF KL!GiveUp, LogsNow, BadNow, MissedNow, Blinded
  <2> QED BY <2>5 DEF KL!Next
<1>3. CASE ~(call[p].f \in Logs /\ Blinded(call[p]))
  <2>1. \A g \in Logs : g \in MissedNow' <=> g \in MissedNow
    BY <1>3, MissedMoves DEF MissedNow, Blinded
  <2>2. MissedNow' = MissedNow
    BY <2>1 DEF MissedNow
  <2> QED BY <1>1, <2>2 DEF AllNow
<1> QED BY <1>2, <1>3

\* An append reads its log, or misses it.
LEMMA ReadRefines ==
  ASSUME Inv, NEW p \in Procs, NEW table \in Tables, Seen(p, table), ReadIn(p, table)
  PROVE  [KL!Next]_AllNow
<1>1. PICK c \in Calls : c = call[p] /\ c.at = "read"
  BY Here DEF ReadIn
<1>2. PICK d \in Calls : /\ Become(p, d) /\ d.at = "replace" /\ SameCall(c, d)
                         /\ d.blind = (table # Contents(c.f))
  BY <1>1, ReadMoves
<1>3. UNCHANGED <<LogsNow, BadNow>>
  BY SameLogs DEF ReadIn
<1>4. CASE c.f \in Logs /\ d.blind
  <2>1. PICK f \in Logs : f = c.f
    BY <1>4
  <2>2. ~\E q \in Procs \ {p} : call[q].f = f /\ Blinded(call[q])
    BY <1>1, <2>1, OneHolder DEF Blinded
  <2>3. f \notin MissedNow
    BY <1>1, <2>1, <2>2 DEF MissedNow, Blinded
  <2>4. \A g \in Logs : g \in MissedNow' <=> g \in MissedNow \/ g = f
    BY <1>1, <1>2, <1>4, <2>1, MissedMoves DEF MissedNow, Blinded, SameCall
  <2>5. MissedNow' = MissedNow \cup {f}
    BY <2>4 DEF MissedNow
  <2>6. f \notin BadNow
    BY <1>1, <1>2, <1>4, <2>1 DEF Seen, BadNow
  <2>7. KL!Miss(f)
    BY <1>3, <2>3, <2>5, <2>6 DEF KL!Miss, LogsNow, BadNow, MissedNow, Blinded
  <2> QED BY <2>7 DEF KL!Next
<1>5. CASE ~(c.f \in Logs /\ d.blind)
  <2>1. \A g \in Logs : g \in MissedNow' <=> g \in MissedNow
    BY <1>1, <1>2, <1>5, MissedMoves DEF MissedNow, Blinded, SameCall
  <2>2. MissedNow' = MissedNow
    BY <2>1 DEF MissedNow
  <2> QED BY <1>3, <2>2 DEF AllNow
<1> QED BY <1>4, <1>5

\* A replaced log is the log with the row of one call, or that row alone if the call could
\* not read the log.
LEMMA ReplaceRefines ==
  ASSUME Inv, NEW p \in Procs, Replace(p) PROVE [KL!Next]_AllNow
<1>0. call[p] \in Calls /\ Holds(call[p], p)
  BY DEF Inv, Types, Protected
<1>1. PICK c \in Calls : c = call[p]
  BY <1>0
<1>2. c.at = "replace" /\ file' = [file EXCEPT ![c.f] = c.data]
  BY <1>1 DEF Replace
<1>3. c.f \in Files /\ c.data \in Tables /\ c.key \in Keys /\ c.row \in Rows
  BY CallParts
<1>4. PICK d \in Calls : Become(p, d) /\ d.at = "hash"
  BY ReplaceMoves
<1>5. CASE c.f \in Logs
  <2>1. PICK f \in Logs : f = c.f
    BY <1>5
  <2>2. PICK base \in Tables : base = Base(c)
    BY <1>3, RowTypes, ContentsType DEF Inv, Base
  <2>3. /\ c.data = [base EXCEPT ![c.key] = c.row] /\ c.row.status # "none"
        /\ c.blind => file[f] # Bad
    BY <1>0, <1>1, <1>2, <2>1, <2>2 DEF Holds
  <2>4. c.data # Bad
    BY <1>3, BadAssumption
  <2>5. Contents(f)' = c.data
    BY <1>2, <1>3, <2>1, <2>4 DEF Inv, Types, Contents
  <2>6. \A g \in Logs \ {f} : Contents(g)' = Contents(g)
    BY <1>2, <1>3, <2>1, LedgerIsNoLog DEF Inv, Types, Contents
  <2>7. c.data[c.key] = c.row /\ c.row # NoRow
    BY <1>3, <2>3 DEF Tables, NoRow
  <2>8. LogsNow' = [LogsNow EXCEPT ![f] = c.data]
    BY <2>5, <2>6 DEF LogsNow
  <2>9. LogsNow'[f][c.key] = c.row /\ LogsNow'[f][c.key] # NoRow
    BY <2>7, <2>8 DEF LogsNow
  <2>10. BadNow' = BadNow \ {f}
    BY <1>2, <1>3, <2>1, <2>4, LedgerIsNoLog DEF Inv, Types, BadNow
  <2>11. \A g \in Logs : g \in MissedNow' <=> g \in MissedNow /\ g # f
    <3>1. ~\E q \in Procs \ {p} : call[q].f = f /\ Blinded(call[q])
      BY <1>1, <1>2, <2>1, OneHolder DEF Blinded
    <3> QED BY <1>1, <1>4, <2>1, <3>1, MissedMoves DEF MissedNow, Blinded
  <2>12. MissedNow' = MissedNow \ {f}
    BY <2>11 DEF MissedNow
  <2>13. CASE c.blind
    <3>1. f \in MissedNow
      BY <1>1, <1>2, <2>1, <2>13 DEF MissedNow, Blinded
    <3>2. f \notin BadNow
      BY <2>3, <2>13 DEF BadNow
    <3>3. BadNow' = BadNow
      BY <2>10, <3>2
    <3>4. base = KL!Empty
      BY <2>2, <2>13 DEF Base, Blank, KL!Empty
    <3>5. LogsNow' = [LogsNow EXCEPT ![f] = [KL!Empty EXCEPT ![c.key] = LogsNow'[f][c.key]]]
      BY <2>3, <2>8, <2>9, <3>4
    <3>6. KL!StartOver(f, c.key)
      BY <2>9, <2>12, <3>1, <3>3, <3>5 DEF KL!StartOver, LogsNow, BadNow, MissedNow, Blinded
    <3> QED BY <1>3, <3>6 DEF KL!Next
  <2>14. CASE ~c.blind
    <3>1. f \notin MissedNow
      <4>1. ASSUME NEW q \in Procs, call[q].f = f, Blinded(call[q]) PROVE FALSE
        <5>1. p = q
          BY <1>1, <1>2, <2>1, <4>1, OneHolder DEF Blinded
        <5> QED BY <1>1, <2>14, <4>1, <5>1 DEF Blinded
      <4> QED BY <4>1 DEF MissedNow, Blinded
    <3>2. MissedNow' = MissedNow
      BY <2>12, <3>1
    <3>3. base = LogsNow[f]
      BY <2>1, <2>2, <2>14 DEF Base, LogsNow
    <3>4. LogsNow' = [LogsNow EXCEPT ![f][c.key] = LogsNow'[f][c.key]]
      BY <2>3, <2>8, <2>9, <3>3 DEF LogsNow
    <3>5. KL!Append(f, c.key)
      BY <2>9, <2>10, <3>1, <3>2, <3>4 DEF KL!Append, LogsNow, BadNow, MissedNow, Blinded
    <3> QED BY <1>3, <3>5 DEF KL!Next
  <2> QED BY <2>13, <2>14
<1>6. CASE c.f \notin Logs
  <2>1. \A f \in Logs : file'[f] = file[f]
    BY <1>2, <1>6, LedgerIsNoLog DEF Inv, Types
  <2>2. \A g \in Logs : g \in MissedNow' <=> g \in MissedNow
    BY <1>1, <1>4, <1>6, MissedMoves DEF MissedNow, Blinded
  <2>3. MissedNow' = MissedNow
    BY <2>2 DEF MissedNow
  <2> QED BY <2>1, <2>3 DEF AllNow, LogsNow, BadNow, Contents
<1> QED BY <1>5, <1>6

\* A damaged log counts as empty.
LEMMA DamageRefines ==
  ASSUME Inv, NEW f \in Files, DamageFile(f) PROVE [KL!Next]_AllNow
<1>1. file' = [file EXCEPT ![f] = Bad] /\ UNCHANGED call
  BY DEF DamageFile
<1>2. MissedNow' = MissedNow
  BY <1>1 DEF MissedNow, Blinded
<1>3. CASE f \in Logs /\ file[f] # Bad
  <2>1. Contents(f)' = Blank /\ \A g \in Logs \ {f} : Contents(g)' = Contents(g)
    BY <1>1, LedgerIsNoLog DEF Inv, Types, Contents
  <2>2. LogsNow' = [LogsNow EXCEPT ![f] = KL!Empty]
    BY <1>3, <2>1 DEF LogsNow, KL!Empty, Blank
  <2>3. f \notin BadNow /\ BadNow' = BadNow \cup {f}
    BY <1>1, <1>3, LedgerIsNoLog DEF Inv, Types, BadNow
  <2>4. f \notin MissedNow
    BY DEF DamageFile, MissedNow, Blinded
  <2>5. KL!Damage(f)
    BY <1>2, <2>2, <2>3, <2>4 DEF KL!Damage, LogsNow, BadNow, MissedNow, Blinded
  <2> QED BY <1>3, <2>5 DEF KL!Next
<1>4. CASE ~(f \in Logs /\ file[f] # Bad)
  <2>1. \A g \in Logs : file'[g] = file[g]
    BY <1>1, <1>4, LedgerIsNoLog DEF Inv, Types
  <2> QED BY <1>2, <2>1 DEF AllNow, LogsNow, BadNow, Contents
<1> QED BY <1>3, <1>4

\* The steps after which a process has nothing to write.
LEMMA OtherMoves ==
  ASSUME Inv, NEW p \in Procs,
         \/ \E f \in Logs, k \in Keys, s \in LogStatuses : Append(p, f, k, s)
         \/ Start(p) \/ Retry(p) \/ (\E s \in {"done", "failed"} : Finish(p, s))
         \/ Lock(p) \/ Hash(p) \/ ReadManifest(p) \/ ReadBadManifest(p) \/ WriteManifest(p)
         \/ FailWrite(p) \/ FailRecord(p) \/ Crash(p)
  PROVE  file' = file /\ \E d : Become(p, d) /\ d.at # "replace"
<1>1. file' = file
  BY DEF Append, Start, Retry, Finish, Lock, Hash, ReadManifest, ReadBadManifest,
     WriteManifest, FailWrite, FailRecord, Crash
<1>2. ASSUME NEW f \in Logs, NEW k \in Keys, NEW s \in LogStatuses, Append(p, f, k, s)
      PROVE  \E d : Become(p, d) /\ d.at # "replace"
  <2>1. PICK d \in Calls : Become(p, d) /\ d.at = "lock"
    BY <1>2, AppendMoves
  <2> QED BY <2>1
<1>3. CASE Start(p)
  <2>1. PICK d \in Calls : /\ Become(p, d) /\ d.at = "read" /\ d.op = "start" /\ d.f = Ledger
                           /\ d.key = nextRun /\ d.row = [status |-> "running", retry |-> 0]
    BY <1>3, NewRunMoves DEF Start
  <2> QED BY <1>1, <2>1
<1>4. CASE Retry(p)
  BY <1>1, <1>4, RetryMoves
<1>5. ASSUME NEW s \in {"done", "failed"}, Finish(p, s)
      PROVE  \E d : Become(p, d) /\ d.at # "replace"
  BY <1>5, FinishMoves
<1>6. CASE Lock(p) \/ Hash(p) \/ ReadManifest(p)
  BY <1>1, <1>6, LockMoves, HashMoves, ReadManifestMoves
<1>7. CASE Return(p)
  BY <1>1, <1>7, ReturnMoves, IdleParts DEF Ended
<1>8. CASE FailWrite(p) \/ Crash(p)
  BY <1>1, <1>8, FailWriteMoves, IdleParts DEF Crash
<1> QED
  BY <1>1, <1>2, <1>3, <1>4, <1>5, <1>6, <1>7, <1>8
  DEF ReadBadManifest, WriteManifest, FailRecord

LEMMA LooksRefine ==
  ASSUME Inv, NEW p \in Procs, Looks(p) PROVE [KL!Next]_AllNow
<1>1. PICK table \in Tables : Seen(p, table) /\ LooksAt(p, table)
  BY LooksAtTable
<1>2. CASE ReadLastIn(p, table)
  <2>1. PICK n \in Nat : NewRun(p, "retry", n)
    BY <1>2, ReadLastRuns
  <2>2. PICK d \in Calls : /\ Become(p, d) /\ d.at = "read" /\ d.op = "retry" /\ d.f = Ledger
                           /\ d.key = nextRun /\ d.row = [status |-> "running", retry |-> n]
    BY <2>1, NewRunMoves
  <2> QED BY <1>2, <2>2, OthersRefine DEF ReadLastIn
<1>3. CASE ReadMissingIn(p, table)
  <2>1. file' = file /\ (Return(p) \/ Become(p, Idle))
    BY <1>3 DEF ReadMissingIn
  <2>2. PICK d : Become(p, d) /\ d.at # "replace"
    BY <2>1, ReturnMoves, IdleParts DEF Ended
  <2> QED BY <2>1, <2>2, OthersRefine
<1> QED BY <1>1, <1>2, <1>3, ReadRefines DEF LooksAt

LEMMA NextRefines == Inv /\ [Next]_vars => [KL!Next]_AllNow
<1> SUFFICES ASSUME Inv, [Next]_vars PROVE [KL!Next]_AllNow
  OBVIOUS
<1>1. ASSUME NEW p \in Procs,
         \/ \E f \in Logs, k \in Keys, s \in LogStatuses : Append(p, f, k, s)
         \/ Start(p) \/ Retry(p) \/ (\E s \in {"done", "failed"} : Finish(p, s))
         \/ Lock(p) \/ Hash(p) \/ ReadManifest(p) \/ ReadBadManifest(p) \/ WriteManifest(p)
         \/ FailWrite(p) \/ FailRecord(p) \/ Crash(p)
      PROVE  [KL!Next]_AllNow
  <2>1. PICK d : Become(p, d) /\ d.at # "replace"
    BY <1>1, OtherMoves
  <2>2. file' = file
    BY <1>1, OtherMoves
  <2> QED BY <2>1, <2>2, OthersRefine
<1>2. CASE DamageManifest \/ UNCHANGED vars
  <2>1. UNCHANGED <<file, call>>
    BY <1>2 DEF DamageManifest, vars
  <2> QED BY <2>1 DEF AllNow, LogsNow, BadNow, MissedNow, Blinded, Contents
<1> QED
  BY <1>1, <1>2, LooksRefine, ReplaceRefines, DamageRefines DEF Next, Step, Looks

\* append_parquet loses no row of any log that it can read: under its lock every change
\* is one append, whatever other processes do, and whatever dies or fails to write; only
\* a damaged file or an append whose own read failed takes rows away
\* (datahub_parquet.py:61).
THEOREM AppendsLoseNothing == Spec => ImplementsLogs
<1>1. Spec => []Inv
  BY InitInv, NextInv, PTL DEF Spec
<1> QED BY <1>1, InitRefines, NextRefines, PTL
        DEF Spec, ImplementsLogs, KL!Spec, AllNow, LogsNow, BadNow, MissedNow

-----------------------------------------------------------------------------
(* The type invariant: the history and the bounds.                           *)

Bounds ==
  /\ nextRun <= MaxKey + 1 /\ reported \in [Keys -> Statuses] /\ retries \subseteq Keys
  /\ calls \in 0..MaxCalls /\ faults \in 0..MaxFaults
  /\ mishaps \subseteq Mishaps \cup {"ledger", "manifest"}

LEMMA ReturnBounds ==
  ASSUME Inv, Bounds, NEW p \in Procs, Return(p)
  PROVE  reported' \in [Keys -> Statuses] /\ retries' \subseteq Keys
<1>1. PICK c \in Calls : c = call[p]
  BY Here
<1>2. c.key \in Keys /\ c.row.status \in Statuses
  BY CallParts DEF Rows
<1>3. reported' = reported \/ reported' = [reported EXCEPT ![c.key] = c.row.status]
  BY <1>1 DEF Return
<1>4. retries' \subseteq retries \cup {c.key}
  BY <1>1 DEF Return
<1> QED BY <1>2, <1>3, <1>4 DEF Bounds

LEMMA MishapBounds ==
  ASSUME Bounds, NEW m, Mishap(m)
  PROVE  faults' \in 0..MaxFaults /\ mishaps' \subseteq Mishaps \cup {"ledger", "manifest"}
BY StoreAssumption DEF Bounds, Mishap

LEMMA StepBounds == ASSUME Inv, Bounds, NEW p \in Procs, Step(p) PROVE Bounds'
<1>1. calls' = calls /\ faults' = faults /\ mishaps' \subseteq mishaps \cup {"ledger", "manifest"}
  BY DEF Step, Lock, ReadLast, ReadLastIn, Read, ReadIn, ReadMissing, ReadMissingIn,
     Replace, Hash, ReadManifest, ReadBadManifest, WriteManifest
<1>2. nextRun' <= MaxKey + 1
  <2>1. nextRun' = nextRun \/ (nextRun \in Keys /\ nextRun' = nextRun + 1)
    BY DEF Step, Lock, ReadLast, ReadLastIn, Read, ReadIn, ReadMissing, ReadMissingIn,
       Replace, Hash, ReadManifest, ReadBadManifest, WriteManifest, NewRun
  <2> QED BY <2>1, StoreAssumption DEF Keys, Bounds
<1>3. Return(p) \/ UNCHANGED <<reported, retries>>
  BY DEF Step, Lock, ReadLast, ReadLastIn, Read, ReadIn, ReadMissing, ReadMissingIn,
     Replace, Hash, ReadManifest, ReadBadManifest, WriteManifest
<1>4. reported' \in [Keys -> Statuses] /\ retries' \subseteq Keys
  BY <1>3, ReturnBounds DEF Bounds
<1> QED BY <1>1, <1>2, <1>4 DEF Bounds

LEMMA MisreadBounds == ASSUME Inv, Bounds, NEW p \in Procs, Misread(p) PROVE Bounds'
<1>1. faults' \in 0..MaxFaults /\ mishaps' \subseteq Mishaps \cup {"ledger", "manifest"}
  BY MishapBounds DEF Misread
<1>2. nextRun' <= MaxKey + 1
  <2>1. nextRun' = nextRun \/ (nextRun \in Keys /\ nextRun' = nextRun + 1)
    BY DEF Misread, ReadLastIn, ReadIn, ReadMissingIn, NewRun
  <2> QED BY <2>1, StoreAssumption DEF Keys, Bounds
<1>3. calls' = calls /\ (Return(p) \/ UNCHANGED <<reported, retries>>)
  BY DEF Misread, ReadLastIn, ReadIn, ReadMissingIn
<1>4. reported' \in [Keys -> Statuses] /\ retries' \subseteq Keys
  BY <1>3, ReturnBounds DEF Bounds
<1> QED BY <1>1, <1>2, <1>3, <1>4 DEF Bounds

LEMMA BoundsKept == ASSUME Inv, Bounds, [Next]_vars PROVE Bounds'
<1>1. ASSUME NEW p \in Procs, NEW f \in Logs, NEW k \in Keys, NEW s \in LogStatuses,
             Append(p, f, k, s)
      PROVE  Bounds'
  BY <1>1, StoreAssumption DEF Append, NewCall, Bounds
<1>2. ASSUME NEW p \in Procs, Start(p) \/ Retry(p) PROVE Bounds'
  <2>1. calls' \in 0..MaxCalls /\ UNCHANGED <<reported, retries, faults>>
        /\ mishaps' \subseteq mishaps \cup {"ledger"}
    BY <1>2, StoreAssumption DEF Start, Retry, NewCall, EnterLedger, Bounds
  <2>2. nextRun' <= MaxKey + 1
    BY <1>2, StoreAssumption DEF Start, Retry, NewRun, Keys, Bounds
  <2> QED BY <2>1, <2>2 DEF Bounds
<1>3. ASSUME NEW p \in Procs, NEW s \in {"done", "failed"}, Finish(p, s) PROVE Bounds'
  BY <1>3 DEF Finish, EnterLedger, Bounds
<1>4. ASSUME NEW p \in Procs, FailWrite(p) \/ Crash(p) PROVE Bounds'
  BY <1>4, MishapBounds DEF FailWrite, Crash, Bounds
<1>5. ASSUME NEW p \in Procs, FailRecord(p) PROVE Bounds'
  BY <1>5, MishapBounds, ReturnBounds DEF FailRecord, Bounds
<1>6. ASSUME (\E f \in Files : DamageFile(f)) \/ DamageManifest PROVE Bounds'
  BY <1>6, MishapBounds DEF DamageFile, DamageManifest, Bounds
<1>7. CASE UNCHANGED vars
  BY <1>7 DEF vars, Bounds
<1> QED BY <1>1, <1>2, <1>3, <1>4, <1>5, <1>6, <1>7, StepBounds, MisreadBounds DEF Next

LEMMA AlwaysInv == Spec => []Inv
BY InitInv, NextInv, PTL DEF Spec

LEMMA AlwaysBounds == Spec => []Bounds
<1>1. Init => Bounds
  BY StoreAssumption DEF Init, Bounds, Statuses
<1> QED BY <1>1, AlwaysInv, BoundsKept, PTL DEF Spec

\* Files, manifest, locks and calls keep their shape, whatever fails.
THEOREM TypeCorrect == Spec => []TypeOK
<1>1. Inv /\ Bounds => TypeOK
  BY StoreAssumption DEF Inv, Types, Bounds, TypeOK
<1> QED BY <1>1, AlwaysInv, AlwaysBounds, PTL

-----------------------------------------------------------------------------
(* Who is in the ledger.                                                     *)

OneInLedger ==
  "ledger" \notin mishaps => \A p, q \in Procs : InLedger(p) /\ InLedger(q) => p = q

\* A call that works on the ledger, between its steps there.
OnLedger(c) == c.f = Ledger /\ c.at \notin {"idle", "working"}

\* A step of a process that is in the ledger, or leaves it, or enters it alone.
LEMMA LedgerGoesOn ==
  ASSUME Inv, OneInLedger, NEW p \in Procs, NEW d, Become(p, d), mishaps \subseteq mishaps',
         "ledger" \notin mishaps' /\ OnLedger(d) =>
           InLedger(p) \/ \A q \in Procs \ {p} : ~InLedger(q)
  PROVE  OneInLedger'
<1> SUFFICES ASSUME "ledger" \notin mishaps',
                    NEW q \in Procs, NEW r \in Procs, InLedger(q)', InLedger(r)'
             PROVE  q = r
  BY DEF OneInLedger
<1>1. "ledger" \notin mishaps
  OBVIOUS
<1>2. \A s \in Procs : InLedger(s)' => IF s = p THEN OnLedger(d) ELSE InLedger(s)
  BY Becomes DEF InLedger, OnLedger
<1> QED BY <1>1, <1>2 DEF OneInLedger

LEMMA EnterAlone ==
  ASSUME NEW p \in Procs, EnterLedger(p)
  PROVE  /\ mishaps \subseteq mishaps' /\ mishaps' \subseteq mishaps \cup {"ledger"}
         /\ "ledger" \notin mishaps' => \A q \in Procs \ {p} : ~InLedger(q)
BY DEF EnterLedger

\* In all other steps a process that is in the ledger after it was so before.
LEMMA StepInLedger ==
  ASSUME Inv, NEW p \in Procs,
         Step(p) \/ Misread(p) \/ FailWrite(p) \/ FailRecord(p) \/ Crash(p)
  PROVE  /\ mishaps \subseteq mishaps'
         /\ \E d \in Calls : Become(p, d) /\ (OnLedger(d) => InLedger(p))
<1>1. mishaps \subseteq mishaps'
  BY DEF Step, Lock, ReadLast, Read, ReadMissing, Replace, Hash, ReadManifest,
     ReadBadManifest, WriteManifest, Misread, FailWrite, FailRecord, Crash, Mishap
<1>2. CASE Return(p) /\ call[p].at \notin {"idle", "working"}
  BY <1>1, <1>2, ReturnMoves, IdleParts DEF Ended, OnLedger, InLedger
<1>3. CASE Lock(p) \/ Replace(p) \/ Hash(p) \/ ReadManifest(p)
  <2>1. call[p].at \notin {"idle", "working"}
    BY <1>3 DEF Lock, Replace, Hash, ReadManifest
  <2>2. PICK d \in Calls : Become(p, d) /\ SameCall(call[p], d)
    BY <1>3, LockMoves, ReplaceMoves, HashMoves, ReadManifestMoves
  <2> QED BY <1>1, <2>1, <2>2 DEF SameCall, OnLedger, InLedger
<1>4. CASE Looks(p)
  <2>1. CASE call[p].at = "last" /\ \E n \in Nat : NewRun(p, "retry", n)
    <3>1. InLedger(p)
      BY <2>1, LastInLedger DEF InLedger
    <3>2. PICK n \in Nat : NewRun(p, "retry", n)
      BY <2>1
    <3>3. PICK d \in Calls :
            /\ Become(p, d) /\ d.at = "read" /\ d.op = "retry" /\ d.f = Ledger
            /\ d.key = nextRun /\ d.row = [status |-> "running", retry |-> n]
      BY <3>2, NewRunMoves
    <3> QED BY <1>1, <3>1, <3>3
  <2>2. ASSUME call[p].at = "read", NEW d \in Calls, Become(p, d), SameCall(call[p], d)
        PROVE  OnLedger(d) => InLedger(p)
    BY <2>2 DEF SameCall, OnLedger, InLedger
  <2>3. CASE Become(p, Idle)
    BY <1>1, <2>3, IdleType, IdleParts DEF OnLedger
  <2> QED BY <1>1, <1>2, <1>4, <2>1, <2>2, <2>3, LookMoves
<1>5. CASE FailWrite(p)
  <2>1. call[p].at = "replace"
    BY <1>5 DEF FailWrite
  <2> QED BY <1>1, <1>5, <2>1, FailWriteMoves, IdleParts DEF OnLedger, InLedger
<1>6. CASE Crash(p)
  BY <1>1, <1>6, IdleType, IdleParts DEF Crash, OnLedger
<1>7. ReadBadManifest(p) \/ WriteManifest(p) \/ FailRecord(p) =>
        Return(p) /\ call[p].at \notin {"idle", "working"}
  BY DEF ReadBadManifest, WriteManifest, FailRecord, Recording
<1> QED BY <1>1, <1>2, <1>3, <1>4, <1>5, <1>6, <1>7 DEF Step, Looks

LEMMA OneInLedgerKept == ASSUME Inv, OneInLedger, [Next]_vars PROVE OneInLedger'
<1>1. ASSUME NEW p \in Procs, NEW f \in Logs, NEW k \in Keys, NEW s \in LogStatuses,
             Append(p, f, k, s)
      PROVE  OneInLedger'
  <2>1. PICK d \in Calls : Become(p, d) /\ d.f = f
    BY <1>1, AppendMoves
  <2> QED BY <1>1, <2>1, LedgerIsNoLog, LedgerGoesOn DEF OnLedger, Append
<1>2. ASSUME NEW p \in Procs, EnterLedger(p), NEW d, Become(p, d) PROVE OneInLedger'
  BY <1>2, EnterAlone, LedgerGoesOn
<1>3. ASSUME NEW p \in Procs, Start(p) \/ Retry(p) \/ (\E s \in {"done", "failed"} : Finish(p, s))
      PROVE  OneInLedger'
  <2>1. EnterLedger(p) /\ \E d : Become(p, d)
    BY <1>3 DEF Start, NewRun, Retry, Finish
  <2> QED BY <1>2, <2>1
<1>4. ASSUME NEW p \in Procs,
             Step(p) \/ Misread(p) \/ FailWrite(p) \/ FailRecord(p) \/ Crash(p)
      PROVE  OneInLedger'
  <2>1. PICK d \in Calls : Become(p, d) /\ (OnLedger(d) => InLedger(p))
    BY <1>4, StepInLedger
  <2> QED BY <1>4, <2>1, StepInLedger, LedgerGoesOn
<1>5. CASE UNCHANGED call /\ mishaps \subseteq mishaps'
  BY <1>5 DEF OneInLedger, InLedger
<1>6. DamageManifest \/ (\E f \in Files : DamageFile(f)) \/ UNCHANGED vars =>
        UNCHANGED call /\ mishaps \subseteq mishaps'
  BY DEF DamageManifest, DamageFile, vars, Mishap
<1> QED BY <1>1, <1>3, <1>4, <1>5, <1>6 DEF Next

LEMMA AlwaysOneInLedger == Spec => []OneInLedger
<1>1. Init => OneInLedger
  BY IdleParts DEF Init, OneInLedger, InLedger
<1> QED BY <1>1, AlwaysInv, OneInLedgerKept, PTL DEF Spec

-----------------------------------------------------------------------------
(* The manifest rows are of one content.                                     *)

Covered(f) == f \in Logs \/ "ledger" \notin mishaps

OfOneFile(records) == \A f \in Files : Covered(f) => records[f].rows = records[f].sum

\* What a process knows of the content it records.
CallRecords(c) ==
  /\ c.at = "record" => OfOneFile(c.seen)
  /\ Covered(c.f) => /\ c.at = "hash" => file[c.f] = c.data
                     /\ c.at \in {"manifest", "record"} => c.sum = c.data

Recorded ==
  "damage" \notin mishaps =>
    /\ manifest # Bad => OfOneFile(manifest)
    /\ \A p \in Procs : CallRecords(call[p])

LEMMA StaysOfOneFile ==
  ASSUME NEW records, OfOneFile(records), mishaps \subseteq mishaps'
  PROVE  OfOneFile(records)'
BY DEF OfOneFile, Covered

LEMMA RecordedGoesOn ==
  ASSUME Inv, Recorded, NEW p \in Procs, NEW d, Become(p, d), mishaps \subseteq mishaps',
         "damage" \notin mishaps' =>
           /\ manifest' # Bad => OfOneFile(manifest)'
           /\ CallRecords(d)'
           /\ \A q \in Procs \ {p} : call[q].at = "hash" /\ Covered(call[q].f) =>
                file'[call[q].f] = file[call[q].f]
  PROVE  Recorded'
<1> SUFFICES ASSUME "damage" \notin mishaps' PROVE Recorded'
  BY DEF Recorded
<1>1. ASSUME NEW q \in Procs PROVE CallRecords(call[q])'
  <2>1. CASE q = p
    BY <2>1, Becomes DEF CallRecords
  <2>2. CASE q # p
    <3>1. PICK c \in Calls : c = call[q] /\ CallRecords(c)
      BY Here DEF Recorded
    <3>2. c.at = "record" => OfOneFile(c.seen)'
      BY <3>1, StaysOfOneFile DEF CallRecords
    <3>3. Covered(c.f)' => Covered(c.f)
      BY DEF Covered
    <3>4. CallRecords(c)'
      BY <2>2, <3>1, <3>2, <3>3 DEF CallRecords
    <3>5. call'[q] = c
      BY <2>2, <3>1, Becomes
    <3> QED BY <3>4, <3>5
  <2> QED BY <2>1, <2>2
<1> QED BY <1>1 DEF Recorded

LEMMA RecordedQuietly ==
  ASSUME Inv, Recorded, NEW p \in Procs, NEW d, Become(p, d), mishaps \subseteq mishaps',
         UNCHANGED <<file, manifest>>, d.at \notin {"hash", "manifest", "record"}
  PROVE  Recorded'
<1>1. CallRecords(d)'
  BY DEF CallRecords
<1>2. "damage" \notin mishaps' /\ manifest' # Bad => OfOneFile(manifest)'
  BY DEF Recorded, OfOneFile, Covered
<1> QED BY <1>1, <1>2, RecordedGoesOn

\* No other process is between its write and its digest of the file.
LEMMA ReplaceRecorded ==
  ASSUME Inv, OneInLedger, Recorded, NEW p \in Procs, Replace(p)
  PROVE  Recorded'
<1>1. PICK c \in Calls : c = call[p] /\ Holds(c, p) /\ c.at = "replace"
  BY Here DEF Replace
<1>2. PICK d \in Calls : Become(p, d) /\ d.at = "hash" /\ SameCall(c, d) /\ d.data = c.data
  BY <1>1, ReplaceMoves
<1>3. file' = [file EXCEPT ![c.f] = c.data] /\ UNCHANGED manifest /\ mishaps \subseteq mishaps'
      /\ ("ledger" \in mishaps' <=> "ledger" \in mishaps)
  BY <1>1 DEF Replace
<1>4. c.f \in Files /\ file' = [file EXCEPT ![c.f] = c.data] /\ file'[c.f] = c.data
  BY <1>3, CallParts DEF Inv, Types
<1>5. CallRecords(d)'
  BY <1>2, <1>4 DEF CallRecords, SameCall
<1>6. ASSUME NEW q \in Procs \ {p}, call[q].at = "hash", Covered(call[q].f)
      PROVE  file'[call[q].f] = file[call[q].f]
  <2>1. call[q].f \in Files /\ Holds(call[q], q)
    BY Here, CallParts
  <2>2. c.f # call[q].f
    <3>1. CASE call[q].f \in Logs
      BY <1>1, <1>6, <2>1, <3>1 DEF Holds
    <3>2. CASE call[q].f = Ledger
      <4>1. "ledger" \notin mishaps
        BY <1>6, <3>2, LedgerIsNoLog DEF Covered
      <4> QED BY <1>1, <1>6, <3>2, <4>1 DEF OneInLedger, InLedger
    <3> QED BY <2>1, <3>1, <3>2 DEF Files
  <2> QED BY <1>3, <2>1, <2>2 DEF Inv, Types
<1>7. "damage" \notin mishaps' /\ manifest' # Bad => OfOneFile(manifest)'
  BY <1>3 DEF Recorded, OfOneFile, Covered
<1> QED BY <1>2, <1>3, <1>5, <1>6, <1>7, RecordedGoesOn

LEMMA HashRecorded == ASSUME Inv, Recorded, NEW p \in Procs, Hash(p) PROVE Recorded'
<1>1. PICK c \in Calls : c = call[p] /\ c.at = "hash"
  BY Here DEF Hash
<1>2. PICK d \in Calls : /\ Become(p, d) /\ d.at = "manifest" /\ SameCall(c, d)
                         /\ d.data = c.data /\ d.sum = file[c.f]
  BY <1>1, HashMoves
<1>3. UNCHANGED <<file, manifest, mishaps>>
  BY DEF Hash
<1>4. "damage" \notin mishaps' => CallRecords(d)'
  BY <1>1, <1>2, <1>3 DEF Recorded, CallRecords, SameCall, Covered
<1>5. "damage" \notin mishaps' /\ manifest' # Bad => OfOneFile(manifest)'
  BY <1>3 DEF Recorded, OfOneFile, Covered
<1> QED BY <1>2, <1>3, <1>4, <1>5, RecordedGoesOn

LEMMA ReadManifestRecorded ==
  ASSUME Inv, Recorded, NEW p \in Procs, ReadManifest(p)
  PROVE  Recorded'
<1>1. PICK c \in Calls : c = call[p] /\ c.at = "manifest"
  BY Here DEF ReadManifest
<1>2. PICK d \in Calls : /\ Become(p, d) /\ d.at = "record" /\ SameCall(c, d)
                         /\ d.data = c.data /\ d.sum = c.sum /\ d.seen = manifest
  BY <1>1, ReadManifestMoves
<1>3. UNCHANGED <<file, manifest, mishaps>> /\ manifest # Bad
  BY DEF ReadManifest
<1>4. "damage" \notin mishaps' => OfOneFile(manifest)'
  BY <1>3 DEF Recorded, OfOneFile, Covered
<1>5. "damage" \notin mishaps' => CallRecords(d)'
  BY <1>1, <1>2, <1>3, <1>4 DEF Recorded, CallRecords, SameCall, Covered, OfOneFile
<1> QED BY <1>2, <1>3, <1>4, <1>5, RecordedGoesOn

LEMMA WriteManifestRecorded ==
  ASSUME Inv, Recorded, NEW p \in Procs, WriteManifest(p)
  PROVE  Recorded'
<1>1. PICK c \in Calls : c = call[p] /\ c.at = "record"
  BY Here DEF WriteManifest
<1>2. PICK d \in Calls : Become(p, d) /\ d.at \notin {"hash", "manifest", "record"}
  BY ReturnMoves, IdleParts DEF WriteManifest, Ended
<1>3. manifest' = [c.seen EXCEPT ![c.f] = [rows |-> c.data, sum |-> c.sum]]
      /\ UNCHANGED <<file, mishaps>>
  BY <1>1 DEF WriteManifest
<1>4. "damage" \notin mishaps' => OfOneFile(manifest)'
  <2> SUFFICES ASSUME "damage" \notin mishaps', NEW f \in Files, Covered(f)'
               PROVE  manifest'[f].rows = manifest'[f].sum
    BY DEF OfOneFile
  <2>1. OfOneFile(c.seen) /\ (Covered(c.f) => c.sum = c.data) /\ Covered(f)
    BY <1>1, <1>3 DEF Recorded, CallRecords, Covered
  <2>2. c.seen \in [Files -> Records]
    BY CallParts
  <2>3. CASE f = c.f
    BY <1>3, <2>1, <2>2, <2>3
  <2>4. CASE f # c.f
    BY <1>3, <2>1, <2>2, <2>4 DEF OfOneFile
  <2> QED BY <2>3, <2>4
<1>5. CallRecords(d)'
  BY <1>2 DEF CallRecords
<1> QED BY <1>2, <1>3, <1>4, <1>5, RecordedGoesOn

\* The steps of a process that change neither file nor manifest, and record nothing.
LEMMA QuietMoves ==
  ASSUME Inv, NEW p \in Procs,
         \/ \E f \in Logs, k \in Keys, s \in LogStatuses : Append(p, f, k, s)
         \/ Start(p) \/ Retry(p) \/ (\E s \in {"done", "failed"} : Finish(p, s))
         \/ Lock(p) \/ Looks(p) \/ ReadBadManifest(p)
         \/ FailWrite(p) \/ FailRecord(p) \/ Crash(p)
  PROVE  /\ UNCHANGED <<file, manifest>> /\ mishaps \subseteq mishaps'
         /\ \E d : Become(p, d) /\ d.at \notin {"hash", "manifest", "record"}
<1>1. UNCHANGED <<file, manifest>> /\ mishaps \subseteq mishaps'
  BY LookMoves DEF Append, Start, Retry, Finish, EnterLedger, Lock, ReadBadManifest,
     FailWrite, FailRecord, Crash, Mishap
<1>2. ASSUME NEW f \in Logs, NEW k \in Keys, NEW s \in LogStatuses, Append(p, f, k, s)
      PROVE  \E d : Become(p, d) /\ d.at \notin {"hash", "manifest", "record"}
  <2>1. PICK d \in Calls : Become(p, d) /\ d.at = "lock"
    BY <1>2, AppendMoves
  <2> QED BY <2>1
<1>3. ASSUME NEW op \in {"start", "retry"}, NEW n \in Nat, NewRun(p, op, n)
      PROVE  \E d : Become(p, d) /\ d.at \notin {"hash", "manifest", "record"}
  <2>1. PICK d \in Calls :
          /\ Become(p, d) /\ d.at = "read" /\ d.op = op /\ d.f = Ledger
          /\ d.key = nextRun /\ d.row = [status |-> "running", retry |-> n]
    BY <1>3, NewRunMoves
  <2> QED BY <2>1
<1>4. CASE Looks(p)
  <2>1. CASE Return(p)
    BY <1>1, <2>1, ReturnMoves, IdleParts DEF Ended
  <2>2. CASE Become(p, Idle)
    BY <1>1, <2>2, IdleParts
  <2> QED BY <1>1, <1>3, <1>4, <2>1, <2>2, LookMoves
<1>5. CASE Retry(p)
  BY <1>1, <1>5, RetryMoves
<1>6. ASSUME NEW s \in {"done", "failed"}, Finish(p, s)
      PROVE  \E d : Become(p, d) /\ d.at \notin {"hash", "manifest", "record"}
  BY <1>6, FinishMoves
<1>7. CASE Lock(p)
  BY <1>1, <1>7, LockMoves
<1>8. CASE Return(p)
  BY <1>1, <1>8, ReturnMoves, IdleParts DEF Ended
<1>9. CASE FailWrite(p) \/ Crash(p)
  BY <1>1, <1>9, FailWriteMoves, IdleParts DEF Crash
<1> QED
  BY <1>1, <1>2, <1>3, <1>4, <1>5, <1>6, <1>7, <1>8, <1>9
  DEF Start, ReadBadManifest, FailRecord

LEMMA RecordedKept == ASSUME Inv, OneInLedger, Recorded, [Next]_vars PROVE Recorded'
<1>1. ASSUME NEW p \in Procs, NEW d, Become(p, d), mishaps \subseteq mishaps',
             UNCHANGED <<file, manifest>>, d.at \notin {"hash", "manifest", "record"}
      PROVE  Recorded'
  BY <1>1, RecordedQuietly
<1>2. CASE (\E f \in Files : DamageFile(f)) \/ DamageManifest
  BY <1>2 DEF DamageFile, DamageManifest, Mishap, Recorded
<1>3. CASE UNCHANGED vars
  BY <1>3 DEF vars, Recorded, OfOneFile, Covered, CallRecords
<1>4. ASSUME NEW p \in Procs,
         \/ \E f \in Logs, k \in Keys, s \in LogStatuses : Append(p, f, k, s)
         \/ Start(p) \/ Retry(p) \/ (\E s \in {"done", "failed"} : Finish(p, s))
         \/ Lock(p) \/ Looks(p) \/ ReadBadManifest(p)
         \/ FailWrite(p) \/ FailRecord(p) \/ Crash(p)
      PROVE  Recorded'
  BY <1>1, <1>4, QuietMoves
<1> QED BY <1>2, <1>3, <1>4, ReplaceRecorded, HashRecorded, ReadManifestRecorded,
           WriteManifestRecorded DEF Next, Step, Looks

LEMMA AlwaysRecorded == Spec => []Recorded
<1>1. Init => Recorded
  <2>1. \A f \in Files : NoRecord.rows = NoRecord.sum
    BY DEF NoRecord
  <2> QED BY <2>1, IdleParts DEF Init, Recorded, OfOneFile, CallRecords
<1> QED BY <1>1, AlwaysInv, AlwaysOneInLedger, RecordedKept, PTL DEF Spec

-----------------------------------------------------------------------------
(* The manifest rows are of the content that is there.                       *)

\* As long as nothing has gone wrong, one process at a time records, what it records is
\* what it wrote, and it has read the latest manifest.
Latest ==
  mishaps = {} =>
    /\ manifest # Bad
    /\ \A p, q \in Procs : Recording(p) /\ Recording(q) => p = q
    /\ \A p \in Procs : Recording(p) => file[call[p].f] = call[p].data
    /\ \A p \in Procs : call[p].at = "record" => call[p].seen = manifest
    /\ \A f \in Files :
         (\E p \in Procs : Recording(p) /\ call[p].f = f) \/ manifest[f].rows = file[f]

IsRecording(c) == c.at \in {"hash", "manifest", "record"}

LEMMA RecordingAfter ==
  ASSUME Inv, NEW p \in Procs, NEW d, Become(p, d)
  PROVE  /\ \A q \in Procs : Recording(q)' <=> IF q = p THEN IsRecording(d) ELSE Recording(q)
         /\ \A q \in Procs \ {p} : call'[q] = call[q]
         /\ call'[p] = d
BY Becomes DEF Recording, IsRecording

\* A step of a process that records neither before nor after it.
LEMMA LatestQuietly ==
  ASSUME Inv, Latest, NEW p \in Procs, NEW d, Become(p, d), UNCHANGED <<file, manifest>>,
         mishaps \subseteq mishaps', mishaps' = {} => ~Recording(p), ~IsRecording(d)
  PROVE  Latest'
<1> SUFFICES ASSUME mishaps' = {} PROVE Latest'
  BY DEF Latest
<1>1. mishaps = {} /\ ~Recording(p)
  OBVIOUS
<1>2. \A q \in Procs : /\ Recording(q)' <=> Recording(q)
                       /\ Recording(q) => call'[q] = call[q]
                       /\ call'[q].at = "record" => call'[q] = call[q]
  BY <1>1, RecordingAfter DEF IsRecording
<1> QED BY <1>1, <1>2 DEF Latest

LEMMA QuietBefore ==
  ASSUME Inv, NEW p \in Procs, mishaps' = {},
         \/ \E f \in Logs, k \in Keys, s \in LogStatuses : Append(p, f, k, s)
         \/ Start(p) \/ Retry(p) \/ (\E s \in {"done", "failed"} : Finish(p, s))
         \/ Lock(p) \/ Looks(p)
         \/ FailWrite(p) \/ FailRecord(p) \/ Crash(p)
  PROVE  ~Recording(p)
<1>1. ~FailWrite(p) /\ ~FailRecord(p) /\ ~Crash(p)
  BY DEF FailWrite, FailRecord, Crash, Mishap
<1>2. ASSUME Start(p) \/ Retry(p) \/ (\E f \in Logs, k \in Keys, s \in LogStatuses : Append(p, f, k, s))
      PROVE  call[p].at = "idle"
  BY <1>2 DEF Start, Retry, Append, NewCall
<1>3. ASSUME \/ (\E s \in {"done", "failed"} : Finish(p, s))
             \/ Lock(p) \/ Looks(p)
      PROVE  call[p].at \in {"working", "lock", "last", "read"}
  BY <1>3, LookMoves DEF Finish, Lock
<1> QED BY <1>1, <1>2, <1>3 DEF Recording

LEMMA ReplaceLatest == ASSUME Inv, Latest, NEW p \in Procs, Replace(p) PROVE Latest'
<1> SUFFICES ASSUME mishaps' = {} PROVE Latest'
  BY DEF Latest
<1>1. PICK c \in Calls : c = call[p]
  BY Here
<1>2. PICK d \in Calls : Become(p, d) /\ d.at = "hash" /\ SameCall(c, d) /\ d.data = c.data
  BY <1>1, ReplaceMoves
<1>3. file' = [file EXCEPT ![c.f] = c.data] /\ UNCHANGED manifest /\ mishaps = {}
      /\ \A q \in Procs \ {p} : ~Recording(q)
  BY <1>1 DEF Replace
<1>4. c.f \in Files /\ d.f = c.f /\ file'[c.f] = c.data
      /\ \A f \in Files \ {c.f} : file'[f] = file[f]
  BY <1>2, <1>3, CallParts DEF Inv, Types, SameCall
<1>5. \A q \in Procs : Recording(q)' <=> q = p
  BY <1>2, <1>3, RecordingAfter DEF IsRecording
<1>6. call'[p] = d
  BY <1>2, RecordingAfter
<1>7. ~Recording(p)
  BY DEF Replace, Recording
<1>8. \A q \in Procs : call'[q].at # "record"
  BY <1>2, <1>5, <1>6 DEF Recording
<1>9. \A f \in Files : f = d.f \/ manifest'[f].rows = file'[f]
  BY <1>3, <1>4, <1>7 DEF Latest
<1> QED BY <1>2, <1>3, <1>4, <1>5, <1>6, <1>8, <1>9 DEF Latest

\* A process goes on recording.
LEMMA RecordingGoesOn ==
  ASSUME Inv, Latest, NEW p \in Procs, Hash(p) \/ ReadManifest(p)
  PROVE  Latest'
<1> SUFFICES ASSUME mishaps' = {} PROVE Latest'
  BY DEF Latest
<1>1. UNCHANGED <<file, manifest, mishaps>> /\ Recording(p)
  BY DEF Hash, ReadManifest, Recording
<1>2. PICK d : /\ Become(p, d) /\ IsRecording(d) /\ SameCall(call[p], d) /\ d.data = call[p].data
               /\ d.at = "record" => d.seen = manifest
  <2>1. CASE Hash(p)
    <3>1. PICK d \in Calls : /\ Become(p, d) /\ d.at = "manifest" /\ SameCall(call[p], d)
                             /\ d.data = call[p].data /\ d.sum = file[call[p].f]
      BY <2>1, HashMoves
    <3> QED BY <3>1 DEF IsRecording
  <2>2. CASE ReadManifest(p)
    <3>1. PICK d \in Calls :
             /\ Become(p, d) /\ d.at = "record" /\ SameCall(call[p], d)
             /\ d.data = call[p].data /\ d.sum = call[p].sum /\ d.seen = manifest
      BY <2>2, ReadManifestMoves
    <3> QED BY <3>1 DEF IsRecording
  <2> QED BY <2>1, <2>2
<1>3. \A q \in Procs : (Recording(q)' <=> Recording(q)) /\ call'[q].f = call[q].f
                       /\ call'[q].data = call[q].data
  BY <1>1, <1>2, RecordingAfter DEF SameCall
<1>4. \A q \in Procs : call'[q].at = "record" => call'[q].seen = manifest
  BY <1>1, <1>2, RecordingAfter DEF Latest
<1> QED BY <1>1, <1>3, <1>4 DEF Latest

LEMMA WriteManifestLatest ==
  ASSUME Inv, Latest, NEW p \in Procs, WriteManifest(p)
  PROVE  Latest'
<1> SUFFICES ASSUME mishaps' = {} PROVE Latest'
  BY DEF Latest
<1>1. PICK c \in Calls : c = call[p] /\ c.at = "record"
  BY Here DEF WriteManifest
<1>2. PICK d \in Calls : Become(p, d) /\ ~IsRecording(d)
  BY ReturnMoves, IdleParts DEF WriteManifest, Ended, IsRecording
<1>3. manifest' = [c.seen EXCEPT ![c.f] = [rows |-> c.data, sum |-> c.sum]]
      /\ UNCHANGED <<file, mishaps>>
  BY <1>1 DEF WriteManifest
<1>4. /\ c.seen = manifest /\ file[c.f] = c.data /\ Recording(p)
      /\ \A q \in Procs : Recording(q) => q = p
  BY <1>1, <1>3 DEF Latest, Recording
<1>5. c.seen \in [Files -> Records] /\ c.f \in Files /\ c.data \in Tables /\ c.sum \in Tables \cup {Bad}
  BY CallParts
<1>6. \A q \in Procs : ~Recording(q)'
  BY <1>2, <1>4, RecordingAfter
<1>7. manifest' \in [Files -> Records]
  BY <1>3, <1>5 DEF Records
<1>8. manifest' # Bad
  BY <1>7, BadAssumption
<1>9. \A f \in Files : manifest'[f].rows = file'[f]
  <2> TAKE f \in Files
  <2>1. CASE f = c.f
    BY <1>3, <1>4, <1>5, <2>1
  <2>2. CASE f # c.f
    <3>1. manifest[f].rows = file[f]
      BY <1>1, <1>3, <1>4, <2>2 DEF Latest
    <3> QED BY <1>3, <1>4, <1>5, <2>2, <3>1
  <2> QED BY <2>1, <2>2
<1>10. \A q \in Procs : call'[q].at # "record"
  BY <1>6 DEF Recording
<1> QED BY <1>6, <1>8, <1>9, <1>10 DEF Latest

LEMMA LatestKept == ASSUME Inv, Latest, [Next]_vars PROVE Latest'
<1> SUFFICES ASSUME mishaps' = {} PROVE Latest'
  BY DEF Latest
<1>1. ASSUME NEW p \in Procs,
         \/ \E f \in Logs, k \in Keys, s \in LogStatuses : Append(p, f, k, s)
         \/ Start(p) \/ Retry(p) \/ (\E s \in {"done", "failed"} : Finish(p, s))
         \/ Lock(p) \/ Looks(p)
         \/ FailWrite(p) \/ FailRecord(p) \/ Crash(p)
      PROVE  Latest'
  <2>1. PICK d : Become(p, d) /\ d.at \notin {"hash", "manifest", "record"}
    BY <1>1, QuietMoves
  <2>2. UNCHANGED <<file, manifest>> /\ mishaps \subseteq mishaps' /\ ~Recording(p)
    BY <1>1, QuietMoves, QuietBefore
  <2> QED BY <2>1, <2>2, LatestQuietly DEF IsRecording
<1>2. ASSUME NEW p \in Procs, ReadBadManifest(p) PROVE FALSE
  BY <1>2 DEF ReadBadManifest, Latest
<1>3. ASSUME (\E f \in Files : DamageFile(f)) \/ DamageManifest PROVE FALSE
  BY <1>3 DEF DamageFile, DamageManifest, Mishap
<1>4. CASE UNCHANGED vars
  BY <1>4 DEF vars, Latest, Recording
<1> QED BY <1>1, <1>2, <1>3, <1>4, ReplaceLatest, RecordingGoesOn, WriteManifestLatest
        DEF Next, Step, Looks

LEMMA AlwaysLatest == Spec => []Latest
<1>1. Init => Latest
  <2> SUFFICES ASSUME Init PROVE Latest
    OBVIOUS
  <2>1. manifest \in [Files -> Records] /\ manifest # Bad
    BY RowTypes, BadAssumption DEF Init
  <2>2. \A p \in Procs : ~Recording(p) /\ call[p].at # "record"
    BY IdleParts DEF Init, Recording
  <2>3. \A f \in Files : manifest[f].rows = file[f]
    BY DEF Init, NoRecord
  <2> QED BY <2>1, <2>2, <2>3 DEF Latest
<1> QED BY <1>1, AlwaysInv, LatestKept, PTL DEF Spec

\* What the manifest says of a file is true of it: its digest and row counts are of the
\* same content, for a log whoever else records, for the ledger as long as its writers
\* do not overlap; and it is the content that is there, when nothing went wrong
\* (datahub_manifest.py: record).
THEOREM ManifestTells == Spec => []ManifestIsTrue
<1>1. Recorded => RecordsAreOfOneFile
  BY DEF Recorded, RecordsAreOfOneFile, OfOneFile, Covered
<1>2. Latest => ManifestIsCurrent
  BY DEF Latest, ManifestIsCurrent
<1>3. Recorded /\ Latest => ManifestIsTrue
  BY <1>1, <1>2 DEF ManifestIsTrue
<1> QED BY <1>3, AlwaysRecorded, AlwaysLatest, PTL

-----------------------------------------------------------------------------
(* Each repair has one process.                                              *)

Owns(c) == c.op \in {"start", "retry", "count", "finish"} /\ c.at # "last"

\* A process that works on a repair has it to itself, and its caller has not yet heard
\* how it ended.
OwnFits(c) ==
  /\ c.f = Ledger /\ c.at \notin {"idle", "last"} => Owns(c)
  /\ Owns(c) =>
       /\ c.key < nextRun
       /\ reported[c.key] \notin {"done", "failed"}
       /\ c.key \in retries => c.op = "finish" \/ c.at = "working"
       /\ c.op \in {"start", "retry"} => c.row.status = "running"
       /\ c.op = "finish" => c.row.status \in {"done", "failed"}

Owned ==
  /\ \A p \in Procs : OwnFits(call[p])
  /\ \A p, q \in Procs :
       Owns(call[p]) /\ Owns(call[q]) /\ call[p].key = call[q].key => p = q
  /\ \A k \in Keys : k >= nextRun => reported[k] = "none" /\ k \notin retries

LEMMA KeysAreNumbers == Keys \subseteq Nat /\ (Inv => nextRun \in Nat)
BY StoreAssumption DEF Keys, Inv, Types

LEMMA OwnedGoesOn ==
  ASSUME Inv, Owned, NEW p \in Procs, NEW d \in Calls, Become(p, d), OwnFits(d)',
         nextRun' \in Nat, nextRun <= nextRun',
         Owns(d) => d.key = nextRun \/ (Owns(call[p]) /\ d.key = call[p].key),
         \A k \in Keys : ~(Owns(call[p]) /\ k = call[p].key) =>
           reported'[k] = reported[k] /\ (k \in retries' <=> k \in retries)
  PROVE  Owned'
<1>1. call'[p] = d /\ \A q \in Procs \ {p} : call'[q] = call[q]
  BY Becomes
<1>2. \A q \in Procs : Owns(call[q]) => call[q].key \in Keys /\ call[q].key < nextRun
  BY Here, CallParts DEF Owned, OwnFits
<1>3. ASSUME NEW q \in Procs PROVE OwnFits(call[q])'
  <2>1. CASE q = p
    BY <1>1, <2>1 DEF OwnFits, Owns
  <2>2. CASE q # p
    <3>1. PICK c \in Calls : c = call[q] /\ OwnFits(c)
      BY Here DEF Owned
    <3>2. Owns(c) => c.key \in Keys /\ c.key < nextRun'
      <4>1. PICK k \in Keys : k = c.key
        BY CallParts
      <4>2. PICK n \in Nat : n = nextRun
        BY KeysAreNumbers
      <4>3. PICK m \in Nat : m = nextRun'
        OBVIOUS
      <4>4. n <= m
        BY <4>2, <4>3
      <4>5. Owns(c) => k < n
        BY <1>2, <3>1, <4>1, <4>2
      <4>6. Owns(c) => k < m
        BY <4>4, <4>5, KeysAreNumbers
      <4> QED BY <4>1, <4>3, <4>6
    <3>3. Owns(c) => ~(Owns(call[p]) /\ c.key = call[p].key)
      BY <2>2, <3>1 DEF Owned
    <3>4. OwnFits(c)'
      BY <3>1, <3>2, <3>3 DEF OwnFits, Owns
    <3> QED BY <1>1, <2>2, <3>1, <3>4
  <2> QED BY <2>1, <2>2
<1>4. ASSUME NEW q \in Procs, NEW r \in Procs,
             Owns(call'[q]), Owns(call'[r]), call'[q].key = call'[r].key
      PROVE  q = r
  <2>1. \A s \in Procs \ {p} : Owns(call[s]) => call[s].key # nextRun
    BY <1>2, KeysAreNumbers
  <2>2. \A s \in Procs \ {p} : Owns(d) /\ Owns(call[s]) => d.key # call[s].key
    BY <2>1 DEF Owned
  <2> QED BY <1>1, <1>4, <2>2 DEF Owned
<1>5. ASSUME NEW k \in Keys, k >= nextRun' PROVE reported'[k] = "none" /\ k \notin retries'
  <2>1. k >= nextRun
    BY <1>5, KeysAreNumbers
  <2>2. ~(Owns(call[p]) /\ k = call[p].key)
    BY <1>2, <2>1, KeysAreNumbers
  <2> QED BY <2>1, <2>2 DEF Owned
<1>6. (\A q, r \in Procs : Owns(call[q]) /\ Owns(call[r]) /\ call[q].key = call[r].key => q = r)'
  BY <1>4 DEF Owns
<1> QED BY <1>3, <1>5, <1>6 DEF Owned

\* A step of a call that starts and reports nothing.
LEMMA OwnedQuietly ==
  ASSUME Inv, Owned, NEW p \in Procs, NEW d \in Calls, Become(p, d), OwnFits(d),
         UNCHANGED <<nextRun, reported, retries>>,
         Owns(d) => Owns(call[p]) /\ d.key = call[p].key
  PROVE  Owned'
<1>1. OwnFits(d)'
  BY DEF OwnFits
<1> QED BY <1>1, KeysAreNumbers, OwnedGoesOn

LEMMA IdleOwns == ~Owns(Idle) /\ OwnFits(Idle)
BY IdleParts DEF Owns, OwnFits

LEMMA NewRunOwned ==
  ASSUME Inv, Owned, NEW p \in Procs, NEW op \in {"start", "retry"}, NEW n \in Nat,
         NewRun(p, op, n), UNCHANGED <<reported, retries>>
  PROVE  Owned'
<1>1. PICK d \in Calls :
        /\ Become(p, d) /\ d.at = "read" /\ d.op = op /\ d.f = Ledger
        /\ d.key = nextRun /\ d.row = [status |-> "running", retry |-> n]
  BY NewRunMoves
<1>2. nextRun \in Keys /\ nextRun' = nextRun + 1 /\ nextRun \in Nat
  BY KeysAreNumbers DEF NewRun
<1>3. reported[nextRun] = "none" /\ nextRun \notin retries
  BY <1>2 DEF Owned
<1>4. OwnFits(d)'
  BY <1>1, <1>2, <1>3 DEF OwnFits, Owns
<1> QED BY <1>1, <1>2, <1>4, OwnedGoesOn

LEMMA ReturnOwned ==
  ASSUME Inv, Owned, NEW p \in Procs, Return(p), UNCHANGED nextRun,
         call[p].at \notin {"idle", "last", "working"}
  PROVE  Owned'
<1>1. PICK c \in Calls : c = call[p] /\ OwnFits(c) /\ c.at \notin {"idle", "last", "working"}
  BY Here DEF Owned
<1>2. PICK d \in Calls : Become(p, d) /\ Ended(c, d)
  BY <1>1, ReturnMoves
<1>3. /\ reported' = IF c.op \in {"start", "retry", "finish"}
                     THEN [reported EXCEPT ![c.key] = c.row.status] ELSE reported
      /\ retries' = IF c.op = "count" THEN retries \cup {c.key} ELSE retries
  BY <1>1 DEF Return
<1>4. \A k \in Keys : ~(Owns(c) /\ k = c.key) =>
        reported'[k] = reported[k] /\ (k \in retries' <=> k \in retries)
  BY <1>1, <1>3 DEF Owns
<1>5. Owns(d) => Owns(c) /\ d.key = c.key
  BY <1>1, <1>2, IdleOwns DEF Ended, Owns
<1>6. OwnFits(d)'
  <2>1. CASE d = Idle
    BY <2>1, IdleParts DEF OwnFits, Owns
  <2>2. CASE c.op \notin {"append", "finish"}
    <3>1. Owns(c) /\ c.f = Ledger
      BY <1>1, <1>2, <2>2 DEF Ended, OwnFits
    <3>2. /\ d.f = Ledger /\ d.key = c.key /\ d.row = c.row
          /\ IF c.op = "retry" THEN d.at = "read" /\ d.op = "count"
                               ELSE d.at = "working" /\ d.op = c.op
      BY <1>2, <2>2 DEF Ended
    <3>3. c.op \in {"start", "retry", "count"} /\ d.op \in {"start", "count"}
      BY <2>2, <3>1, <3>2 DEF Owns
    <3>4. c.key < nextRun /\ reported'[c.key] \notin {"done", "failed"}
      <4>1. c.key \in Keys /\ reported[c.key] \notin {"done", "failed"} /\ c.key < nextRun
        BY <1>1, <3>1, CallParts DEF OwnFits
      <4>2. CASE c.op = "count"
        BY <1>3, <4>1, <4>2
      <4>3. CASE c.op \in {"start", "retry"}
        <5>1. c.row.status = "running"
          BY <1>1, <3>1, <4>3 DEF OwnFits
        <5> QED BY <1>3, <4>1, <4>3, <5>1
      <4> QED BY <3>3, <4>1, <4>2, <4>3
    <3>5. d.key \in retries' => d.at = "working"
      BY <1>1, <1>3, <3>1, <3>2, <3>3 DEF OwnFits
    <3>6. d.op \in {"start", "retry"} => d.row.status = "running"
      BY <1>1, <3>1, <3>2, <3>3 DEF OwnFits
    <3> QED BY <3>2, <3>3, <3>4, <3>5, <3>6 DEF OwnFits, Owns
  <2> QED BY <1>2, <2>1, <2>2 DEF Ended
<1> QED BY <1>1, <1>2, <1>4, <1>5, <1>6, KeysAreNumbers, OwnedGoesOn

LEMMA SameCallOwned ==
  ASSUME Inv, Owned, NEW p \in Procs, NEW d \in Calls, Become(p, d), SameCall(call[p], d),
         call[p].at \notin {"idle", "last", "working"}, d.at \notin {"idle", "last", "working"},
         UNCHANGED <<nextRun, reported, retries>>
  PROVE  Owned'
<1>1. OwnFits(call[p])
  BY DEF Owned
<1>2. OwnFits(d)
  BY <1>1 DEF OwnFits, Owns, SameCall
<1> QED BY <1>2, OwnedQuietly DEF SameCall, Owns

LEMMA OwnedKept == ASSUME Inv, Owned, [Next]_vars PROVE Owned'
<1>1. ASSUME NEW p \in Procs, NEW f \in Logs, NEW k \in Keys, NEW s \in LogStatuses,
             Append(p, f, k, s)
      PROVE  Owned'
  <2>1. PICK d \in Calls : Become(p, d) /\ d.at = "lock" /\ d.op = "append" /\ d.f = f
    BY <1>1, AppendMoves
  <2>2. OwnFits(d) /\ ~Owns(d)
    BY <2>1, LedgerIsNoLog DEF OwnFits, Owns
  <2> QED BY <1>1, <2>1, <2>2, OwnedQuietly DEF Append
<1>2. ASSUME NEW p \in Procs, Start(p) PROVE Owned'
  BY <1>2, NewRunOwned DEF Start
<1>3. ASSUME NEW p \in Procs, Retry(p) PROVE Owned'
  <2>1. PICK d \in Calls : Become(p, d) /\ d.at = "last" /\ d.op = "retry" /\ d.f = Ledger
    BY <1>3, RetryMoves
  <2>2. OwnFits(d) /\ ~Owns(d)
    BY <2>1 DEF OwnFits, Owns
  <2> QED BY <1>3, <2>1, <2>2, OwnedQuietly DEF Retry
<1>4. ASSUME NEW p \in Procs, Looks(p) PROVE Owned'
  <2>1. ASSUME NEW n \in Nat, NewRun(p, "retry", n), UNCHANGED <<reported, retries>>
        PROVE  Owned'
    BY <2>1, NewRunOwned
  <2>2. ASSUME call[p].at = "read", UNCHANGED <<nextRun, reported, retries>>,
               NEW d \in Calls, Become(p, d), d.at = "replace", SameCall(call[p], d)
        PROVE  Owned'
    BY <2>2, SameCallOwned
  <2>3. CASE call[p].at = "read" /\ UNCHANGED nextRun /\ Return(p)
    BY <2>3, ReturnOwned
  <2>4. CASE UNCHANGED <<nextRun, reported, retries>> /\ Become(p, Idle)
    BY <2>4, IdleType, IdleOwns, OwnedQuietly
  <2> QED BY <1>4, <2>1, <2>2, <2>3, <2>4, LookMoves
<1>5. ASSUME NEW p \in Procs, NEW s \in {"done", "failed"}, Finish(p, s) PROVE Owned'
  <2>1. PICK d \in Calls :
          /\ Become(p, d) /\ d.at = "read" /\ d.op = "finish" /\ d.f = Ledger
          /\ d.key = call[p].key /\ d.row.status = s
    BY <1>5, FinishMoves
  <2>2. PICK c \in Calls : c = call[p] /\ OwnFits(c) /\ c.at = "working" /\ Holds(c, p)
    BY <1>5, Here DEF Finish, Owned
  <2>3. c.f = Ledger
    BY <2>2, CallParts DEF Holds, Files
  <2>4. Owns(c)
    BY <2>2, <2>3 DEF OwnFits
  <2>5. OwnFits(d)
    BY <2>1, <2>2, <2>4 DEF OwnFits, Owns
  <2> QED BY <1>5, <2>1, <2>2, <2>4, <2>5, OwnedQuietly DEF Finish
<1>6. ASSUME NEW p \in Procs, Lock(p) \/ Replace(p) \/ Hash(p) \/ ReadManifest(p)
      PROVE  Owned'
  <2>1. UNCHANGED <<nextRun, reported, retries>>
        /\ call[p].at \notin {"idle", "last", "working"}
    BY <1>6 DEF Lock, Replace, Hash, ReadManifest
  <2>2. PICK d \in Calls : Become(p, d) /\ SameCall(call[p], d)
                           /\ d.at \notin {"idle", "last", "working"}
    BY <1>6, LockMoves, ReplaceMoves, HashMoves, ReadManifestMoves
  <2> QED BY <2>1, <2>2, SameCallOwned
<1>7. ASSUME NEW p \in Procs,
             ReadBadManifest(p) \/ WriteManifest(p) \/ FailRecord(p)
      PROVE  Owned'
  BY <1>7, ReturnOwned DEF ReadBadManifest, WriteManifest, FailRecord, Recording
<1>8. ASSUME NEW p \in Procs, FailWrite(p) PROVE Owned'
  <2>1. PICK d \in Calls :
          /\ Become(p, d)
          /\ d = Idle \/ /\ call[p].op = "finish" /\ call[p].f = Ledger
                         /\ d.at = "read" /\ d.op = "finish" /\ d.f = Ledger
                         /\ d.key = call[p].key /\ d.row.status = "failed"
    BY <1>8, FailWriteMoves
  <2>2. OwnFits(call[p]) /\ call[p].at = "replace"
    BY <1>8 DEF Owned, FailWrite
  <2>3. OwnFits(d) /\ (Owns(d) => Owns(call[p]) /\ d.key = call[p].key)
    BY <2>1, <2>2, IdleOwns DEF OwnFits, Owns
  <2> QED BY <1>8, <2>1, <2>3, OwnedQuietly DEF FailWrite
<1>9. ASSUME NEW p \in Procs, Crash(p) PROVE Owned'
  BY <1>9, IdleType, IdleOwns, OwnedQuietly DEF Crash
<1>10. CASE UNCHANGED <<call, nextRun, reported, retries>>
  BY <1>10 DEF Owned, OwnFits, Owns
<1>11. (\E f \in Files : DamageFile(f)) \/ DamageManifest \/ UNCHANGED vars =>
         UNCHANGED <<call, nextRun, reported, retries>>
  BY DEF DamageFile, DamageManifest, vars
<1> QED BY <1>1, <1>2, <1>3, <1>4, <1>5, <1>6, <1>7, <1>8, <1>9, <1>10, <1>11
        DEF Next, Step, Looks

LEMMA AlwaysOwned == Spec => []Owned
<1>1. Init => Owned
  BY IdleOwns DEF Init, Owned
<1> QED BY <1>1, AlwaysInv, OwnedKept, PTL DEF Spec

-----------------------------------------------------------------------------
(* What the ledger says of the repairs.                                      *)

RowsBefore(table, k) == {l \in RunsIn(table) : l < k}

\* n is the count that a retry has to write for repair k.
Counted(table, k, n) ==
  IF RowsBefore(table, k) = {} THEN n = 0
  ELSE \E l \in RowsBefore(table, k) :
         IsNewest(l, RowsBefore(table, k)) /\ n = table[l].retry + 1

LedgerTells(table, next, said, again) ==
  /\ table # Bad
  /\ \A k \in RunsIn(table) : k < next
  /\ \A k \in Keys : said[k] \in {"done", "failed"} => table[k].status = said[k]
  /\ \A k \in again : Counted(table, k, table[k].retry)

Early(c) == c.at \notin {"idle", "last", "working"}

\* A repair that was started has its row; what its process has written stays there; and
\* while start() or retry() runs, no younger repair has begun.
RepairFits(c, table, next) ==
  /\ c.f = Ledger /\ c.at = "replace" => c.data = [table EXCEPT ![c.key] = RowOf(c, table)]
  /\ Owns(c) /\ (c.op \in {"count", "finish"} \/ c.at = "working" \/ IsRecording(c))
       => table[c.key].status # "none"
  /\ c.op = "finish" /\ IsRecording(c) => table[c.key].status = c.row.status
  /\ c.op = "count" /\ IsRecording(c) => table[c.key].retry = c.row.retry
  /\ c.op \in {"start", "retry", "count"} /\ Early(c) => next = c.key + 1
  /\ c.op \in {"retry", "count"} /\ Early(c) => Counted(table, c.key, c.row.retry)

Repairs ==
  Undisturbed =>
    /\ LedgerTells(file[Ledger], nextRun, reported, retries)
    /\ \A p \in Procs : RepairFits(call[p], file[Ledger], nextRun)

LEMMA CountedAlike ==
  ASSUME NEW one, NEW other, NEW k, NEW n,
         \A l \in Keys : l < k => (one[l] = NoRow <=> other[l] = NoRow)
                                  /\ one[l].retry = other[l].retry
  PROVE  Counted(one, k, n) <=> Counted(other, k, n)
<1>1. RowsBefore(one, k) = RowsBefore(other, k)
  BY DEF RowsBefore, RunsIn
<1>2. \A l \in RowsBefore(one, k) : one[l].retry = other[l].retry
  BY DEF RowsBefore, RunsIn
<1> QED BY <1>1, <1>2 DEF Counted

LEMMA LedgerType == Inv => file[Ledger] \in Tables \cup {Bad}
BY LedgerIsNoLog DEF Inv, Types

\* A step of a call that changes nothing the other repairs rely on.
LEMMA RepairsGoOn ==
  ASSUME Inv, Repairs, NEW p \in Procs, NEW d, Become(p, d), mishaps \subseteq mishaps',
         file'[Ledger] = file[Ledger], UNCHANGED nextRun,
         Undisturbed => /\ RepairFits(d, file[Ledger], nextRun)
                        /\ LedgerTells(file[Ledger], nextRun, reported', retries')
  PROVE  Repairs'
<1> SUFFICES ASSUME Undisturbed' PROVE Repairs'
  BY DEF Repairs
<1>1. Undisturbed
  BY DEF Undisturbed
<1>2. \A q \in Procs : call'[q] = IF q = p THEN d ELSE call[q]
  BY Becomes
<1>3. \A q \in Procs : RepairFits(call'[q], file[Ledger], nextRun)
  BY <1>1, <1>2 DEF Repairs
<1> QED BY <1>1, <1>3 DEF Repairs

LEMMA RepairsQuietly ==
  ASSUME Inv, Repairs, NEW p \in Procs, NEW d, Become(p, d), mishaps \subseteq mishaps',
         file'[Ledger] = file[Ledger], UNCHANGED <<nextRun, reported, retries>>,
         Undisturbed => RepairFits(d, file[Ledger], nextRun)
  PROVE  Repairs'
BY RepairsGoOn DEF Repairs

LEMMA NoRepair ==
  ASSUME NEW c, NEW table, NEW next, c.f # Ledger \/ c.at # "replace",
         c.op \notin {"start", "retry", "count", "finish"}
         \/ (c.at \in {"idle", "last"} /\ c.op \notin {"count", "finish"})
  PROVE  RepairFits(c, table, next)
BY DEF RepairFits, Owns, IsRecording, Early

\* What a process writes, of the table it read, for its own repair.
LEMMA RowOfTells ==
  ASSUME NEW c \in Calls, NEW table \in Tables, OwnFits(c), Owns(c),
         c.op \in {"count", "finish"} => table[c.key].status # "none"
  PROVE  /\ RowOf(c, table).status # "none"
         /\ c.op = "finish" => /\ RowOf(c, table).status = c.row.status
                               /\ RowOf(c, table).retry = table[c.key].retry
         /\ c.op = "count" => RowOf(c, table).retry = c.row.retry
<1>1. c.row \in Rows /\ table[c.key] \in Rows
  BY DEF Calls, Tables
<1>2. CASE c.op = "start"
  BY <1>1, <1>2 DEF RowOf, OwnFits
<1>3. CASE c.op = "retry"
  <2>1. c.row.status = "running"
    BY <1>3 DEF OwnFits
  <2>2. RowOf(c, table) = [c.row EXCEPT !.retry = 0]
    BY <1>3 DEF RowOf
  <2>3. RowOf(c, table).status = c.row.status
    BY <1>1, <2>2 DEF Rows
  <2> QED BY <1>3, <2>1, <2>3
<1>4. CASE c.op = "finish"
  <2>1. c.row.status # "none"
    BY <1>4 DEF OwnFits
  <2>2. RowOf(c, table) = [table[c.key] EXCEPT !.status = c.row.status]
    BY <1>4 DEF RowOf
  <2>3. RowOf(c, table).status = c.row.status /\ RowOf(c, table).retry = table[c.key].retry
    BY <1>1, <2>2 DEF Rows
  <2> QED BY <1>4, <2>1, <2>3
<1>5. CASE c.op = "count"
  <2>1. RowOf(c, table) = [table[c.key] EXCEPT !.retry = c.row.retry]
    BY <1>5 DEF RowOf
  <2>2. RowOf(c, table).status = table[c.key].status /\ RowOf(c, table).retry = c.row.retry
    BY <1>1, <2>1 DEF Rows
  <2> QED BY <1>5, <2>2
<1> QED BY <1>2, <1>3, <1>4, <1>5 DEF Owns

LEMMA ReadRepairs == ASSUME Inv, Owned, Repairs, NEW p \in Procs, Read(p) PROVE Repairs'
<1>0. Contents(call[p].f) \in Tables
  BY Here, CallParts, ContentsType DEF Inv
<1>1. PICK c \in Calls : c = call[p] /\ c.at = "read"
  BY Here DEF Read, ReadIn
<1>2. PICK d \in Calls : /\ Become(p, d) /\ d.at = "replace" /\ SameCall(c, d)
                         /\ d.data = [Contents(c.f) EXCEPT ![c.key] = RowOf(c, Contents(c.f))]
  BY <1>0, <1>1, ReadMoves DEF Read
<1>3. ASSUME Undisturbed PROVE RepairFits(d, file[Ledger], nextRun)
  <2>1. file[Ledger] # Bad /\ RepairFits(c, file[Ledger], nextRun)
    BY <1>1, <1>3 DEF Repairs, LedgerTells
  <2>2. d.f = Ledger => d.data = [file[Ledger] EXCEPT ![d.key] = RowOf(d, file[Ledger])]
    BY <1>2, <2>1 DEF SameCall, Contents, RowOf
  <2> QED BY <1>1, <1>2, <2>1, <2>2 DEF RepairFits, SameCall, Owns, IsRecording, Early
<1> QED BY <1>2, <1>3, RepairsQuietly DEF Read, ReadIn

LEMMA HashesRepairs ==
  ASSUME Inv, Repairs, NEW p \in Procs, Hash(p) \/ ReadManifest(p) PROVE Repairs'
<1>1. PICK c \in Calls : c = call[p] /\ IsRecording(c)
  BY Here DEF Hash, ReadManifest, IsRecording
<1>2. PICK d \in Calls : Become(p, d) /\ IsRecording(d) /\ SameCall(c, d)
  BY <1>1, HashMoves, ReadManifestMoves DEF IsRecording
<1>3. ASSUME Undisturbed PROVE RepairFits(d, file[Ledger], nextRun)
  BY <1>1, <1>2, <1>3 DEF Repairs, RepairFits, SameCall, Owns, IsRecording, Early
<1> QED BY <1>2, <1>3, RepairsQuietly DEF Hash, ReadManifest

LEMMA LockRepairs == ASSUME Inv, Repairs, NEW p \in Procs, Lock(p) PROVE Repairs'
<1>1. PICK c \in Calls : c = call[p] /\ c.at = "lock"
  BY Here DEF Lock
<1>2. PICK d \in Calls : Become(p, d) /\ d.at = "read" /\ SameCall(c, d)
  BY <1>1, LockMoves
<1>3. ASSUME Undisturbed PROVE RepairFits(d, file[Ledger], nextRun)
  BY <1>1, <1>2, <1>3 DEF Repairs, RepairFits, SameCall, Owns, IsRecording, Early
<1> QED BY <1>2, <1>3, RepairsQuietly DEF Lock

\* The end of a recording, or of one that failed.
LEMMA ReturnRepairs ==
  ASSUME Inv, Owned, Repairs, NEW p \in Procs, Return(p), IsRecording(call[p]),
         UNCHANGED <<file, nextRun>>, mishaps \subseteq mishaps'
  PROVE  Repairs'
<1>1. PICK c \in Calls : c = call[p] /\ OwnFits(c) /\ IsRecording(c)
  BY Here DEF Owned
<1>2. PICK d \in Calls : Become(p, d) /\ Ended(c, d)
  BY <1>1, ReturnMoves
<1>3. /\ reported' = IF c.op \in {"start", "retry", "finish"}
                     THEN [reported EXCEPT ![c.key] = c.row.status] ELSE reported
      /\ retries' = IF c.op = "count" THEN retries \cup {c.key} ELSE retries
  BY <1>1 DEF Return
<1> SUFFICES ASSUME Undisturbed
             PROVE  /\ RepairFits(d, file[Ledger], nextRun)
                    /\ LedgerTells(file[Ledger], nextRun, reported', retries')
  BY <1>2, RepairsGoOn
<1>4. PICK table : table = file[Ledger] /\ LedgerTells(table, nextRun, reported, retries)
                   /\ RepairFits(c, table, nextRun)
  BY <1>1 DEF Repairs
<1>5. RepairFits(d, table, nextRun)
  <2>1. CASE c.op \in {"append", "finish"}
    BY <1>2, <2>1, IdleParts, NoRepair DEF Ended
  <2>2. CASE c.op \notin {"append", "finish"}
    <3>1. c.f = Ledger /\ Early(c)
      BY <1>1, <1>2, <2>2 DEF Ended, IsRecording, Early
    <3>2. Owns(c)
      BY <1>1, <3>1 DEF OwnFits, Early
    <3>3. table[c.key].status # "none"
      BY <1>1, <1>4, <3>2 DEF RepairFits
    <3> QED BY <1>2, <1>4, <2>2, <3>1, <3>2, <3>3
            DEF Ended, RepairFits, Owns, IsRecording, Early
  <2> QED BY <2>1, <2>2
<1>6. \A k \in Keys : reported'[k] \in {"done", "failed"} => table[k].status = reported'[k]
  <2>1. CASE c.op = "finish"
    <3>1. table[c.key].status = c.row.status
      BY <1>1, <1>4, <2>1 DEF RepairFits
    <3>2. \A k \in Keys : reported'[k] = reported[k] \/ (k = c.key /\ reported'[k] = c.row.status)
      BY <1>3, <2>1
    <3> QED BY <1>4, <3>1, <3>2 DEF LedgerTells
  <2>2. CASE c.op \in {"start", "retry"}
    <3>1. c.row.status = "running"
      BY <1>1, <2>2 DEF OwnFits, Owns, IsRecording
    <3>2. \A k \in Keys : reported'[k] = reported[k] \/ reported'[k] = "running"
      BY <1>3, <2>2, <3>1
    <3> QED BY <1>4, <3>2 DEF LedgerTells
  <2>3. CASE c.op \notin {"start", "retry", "finish"}
    BY <1>3, <1>4, <2>3 DEF LedgerTells
  <2> QED BY <2>1, <2>2, <2>3
<1>7. \A k \in retries' : Counted(table, k, table[k].retry)
  <2>1. c.op = "count" => Counted(table, c.key, table[c.key].retry)
    BY <1>1, <1>4 DEF RepairFits, IsRecording, Early
  <2> QED BY <1>3, <1>4, <2>1 DEF LedgerTells
<1> QED BY <1>4, <1>5, <1>6, <1>7 DEF LedgerTells

\* A repair is written by one process at a time, in the rows of no other.
LEMMA ReplaceLedgerRepairs ==
  ASSUME Inv, Bounds, OneInLedger, Owned, Repairs, NEW p \in Procs, Replace(p),
         call[p].f = Ledger
  PROVE  Repairs'
<1> SUFFICES ASSUME Undisturbed' PROVE Repairs'
  BY DEF Repairs
<1>1. Undisturbed /\ "ledger" \notin mishaps
  BY DEF Undisturbed, Replace
<1>2. PICK c \in Calls : /\ c = call[p] /\ c.at = "replace" /\ c.f = Ledger
                         /\ OwnFits(c) /\ RepairFits(c, file[Ledger], nextRun)
  BY <1>1, Here DEF Replace, Owned, Repairs
<1>3. PICK d \in Calls : Become(p, d) /\ d.at = "hash" /\ SameCall(c, d) /\ d.data = c.data
  BY <1>2, ReplaceMoves
<1>4. PICK table \in Tables : /\ table = file[Ledger]
                              /\ LedgerTells(table, nextRun, reported, retries)
  BY <1>1, LedgerType DEF Repairs, LedgerTells
<1>5. Owns(c) /\ (c.op \in {"count", "finish"} => table[c.key].status # "none")
  BY <1>2, <1>4 DEF OwnFits, RepairFits
<1>6. PICK new \in Tables : new = [table EXCEPT ![c.key] = RowOf(c, table)] /\ new = c.data
  BY <1>2, <1>4, CallParts DEF RepairFits
<1>7. /\ new[c.key] = RowOf(c, table) /\ c.key \in Keys
      /\ \A k \in Keys \ {c.key} : new[k] = table[k]
  BY <1>6, CallParts DEF Tables
<1>8. /\ new[c.key].status # "none"
      /\ c.op = "finish" => /\ new[c.key].status = c.row.status
                            /\ new[c.key].retry = table[c.key].retry
      /\ c.op = "count" => new[c.key].retry = c.row.retry
  BY <1>2, <1>5, <1>7, RowOfTells
<1>9. new[c.key] # NoRow /\ (c.op = "finish" => table[c.key] # NoRow)
  BY <1>5, <1>8 DEF NoRow
<1>10. file'[Ledger] = new /\ UNCHANGED <<nextRun, reported, retries>>
  BY <1>2, <1>6, LedgerIsNoLog DEF Replace, Inv, Types
<1>11. c.op \in {"start", "retry", "count"} => nextRun = c.key + 1
  BY <1>2 DEF RepairFits, Early
<1>12. \A n : Counted(new, c.key, n) <=> Counted(table, c.key, n)
  <2>1. \A l \in Keys : l < c.key => new[l] = table[l]
    BY <1>7, KeysAreNumbers
  <2> QED BY <2>1, CountedAlike
<1>13. RepairFits(d, new, nextRun)
  <2>1. d.op = c.op /\ d.key = c.key /\ d.row = c.row /\ Early(c)
    BY <1>2, <1>3 DEF SameCall, Early
  <2>2. c.op \in {"retry", "count"} => Counted(new, c.key, c.row.retry)
    BY <1>2, <1>4, <1>12, <2>1 DEF RepairFits
  <2> QED BY <1>3, <1>8, <1>11, <2>1, <2>2 DEF RepairFits
<1>14. ASSUME NEW q \in Procs \ {p} PROVE RepairFits(call[q], new, nextRun)
  <2>1. PICK e \in Calls : e = call[q] /\ OwnFits(e) /\ RepairFits(e, table, nextRun)
    BY <1>1, <1>4, Here DEF Owned, Repairs
  <2>2. e.op # "append" => e.f = Ledger
    BY <2>1, LedgerOrLog
  <2>3. InLedger(p) /\ ~InLedger(q)
    BY <1>1, <1>2, <1>14 DEF InLedger, OneInLedger
  <2>4. e.f = Ledger => e.at \in {"idle", "working"}
    BY <2>1, <2>3 DEF InLedger
  <2>5. Owns(e) => new[e.key] = table[e.key]
    <3>1. Owns(e) => e.key # c.key
      BY <1>2, <1>5, <1>14, <2>1 DEF Owned
    <3> QED BY <1>7, <2>1, <3>1, CallParts
  <2>6. e.op \in {"start", "retry", "count", "finish"} => e.at \in {"idle", "working"}
    BY <2>2, <2>4
  <2> QED BY <2>1, <2>4, <2>5, <2>6 DEF RepairFits, IsRecording, Early
<1>15. LedgerTells(new, nextRun, reported, retries)
  <2>1. new # Bad
    BY BadAssumption
  <2>2. \A k \in RunsIn(new) : k < nextRun
    <3>1. c.key < nextRun
      BY <1>2, <1>5 DEF OwnFits
    <3> QED BY <1>4, <1>7, <3>1 DEF RunsIn, LedgerTells
  <2>3. \A k \in Keys : reported[k] \in {"done", "failed"} => new[k].status = reported[k]
    <3>1. reported[c.key] \notin {"done", "failed"}
      BY <1>2, <1>5 DEF OwnFits
    <3> QED BY <1>4, <1>7, <3>1 DEF LedgerTells
  <2>4. ASSUME NEW k \in retries PROVE Counted(new, k, new[k].retry)
    <3>1. Counted(table, k, table[k].retry)
      BY <1>4 DEF LedgerTells
    <3>2. CASE c.op = "finish"
      <4>1. \A l \in Keys : (new[l] = NoRow <=> table[l] = NoRow) /\ new[l].retry = table[l].retry
        BY <1>7, <1>8, <1>9, <3>2
      <4>2. k \in Keys
        BY DEF Bounds
      <4>3. Counted(new, k, table[k].retry)
        BY <3>1, <4>1, CountedAlike
      <4>4. new[k].retry = table[k].retry
        BY <4>1, <4>2
      <4> QED BY <4>3, <4>4
    <3>3. CASE c.op \in {"start", "retry", "count"}
      <4>1. k # c.key
        BY <1>2, <1>5, <3>3 DEF OwnFits
      <4>2. k \in Keys /\ nextRun = c.key + 1 /\ ~(k >= nextRun)
        BY <1>11, <3>3 DEF Bounds, Owned
      <4>3. k < c.key
        <5>1. k \in Nat /\ c.key \in Nat
          BY <1>7, <4>2, KeysAreNumbers
        <5>2. ~(k >= c.key + 1)
          BY <4>2
        <5> QED BY <4>1, <5>1, <5>2
      <4>4. \A l \in Keys : l < k => new[l] = table[l]
        BY <1>7, <4>2, <4>3, KeysAreNumbers
      <4>5. Counted(new, k, table[k].retry)
        BY <3>1, <4>4, CountedAlike
      <4>6. new[k] = table[k]
        BY <1>7, <4>1, <4>2
      <4> QED BY <4>5, <4>6
    <3> QED BY <1>5, <3>2, <3>3 DEF Owns
  <2> QED BY <2>1, <2>2, <2>3, <2>4 DEF LedgerTells
<1>16. \A q \in Procs : RepairFits(call'[q], new, nextRun)
  BY <1>3, <1>13, <1>14, Becomes
<1> QED BY <1>10, <1>15, <1>16 DEF Repairs

LEMMA ReplaceLogRepairs ==
  ASSUME Inv, Repairs, NEW p \in Procs, Replace(p), call[p].f # Ledger
  PROVE  Repairs'
<1>1. PICK c \in Calls : c = call[p] /\ c.f # Ledger
  BY Here
<1>2. PICK d \in Calls : Become(p, d) /\ d.at = "hash" /\ SameCall(c, d)
  BY <1>1, ReplaceMoves
<1>3. c.op = "append"
  BY <1>1, LedgerOrLog
<1>4. RepairFits(d, file[Ledger], nextRun)
  BY <1>2, <1>3, NoRepair DEF SameCall
<1>5. file'[Ledger] = file[Ledger]
  BY <1>1, LedgerIsNoLog DEF Replace, Inv, Types
<1>6. UNCHANGED <<nextRun, reported, retries>> /\ mishaps \subseteq mishaps'
  BY DEF Replace
<1> QED BY <1>2, <1>4, <1>5, <1>6, RepairsQuietly

\* A repair begins: the newest row is of the repair before it, and nobody else is at
\* a step that says otherwise.
LEMMA NewRunRepairs ==
  ASSUME Inv, Repairs, NEW p \in Procs, NEW op \in {"start", "retry"}, NEW n \in Nat,
         NewRun(p, op, n), UNCHANGED <<file, reported, retries>>, mishaps \subseteq mishaps',
         Undisturbed' => /\ \A q \in Procs \ {p} : ~InLedger(q)
                         /\ op = "retry" =>
                              LET runs == RunsIn(file[Ledger]) IN
                              IF runs = {} THEN n = 0
                              ELSE \E k \in runs : IsNewest(k, runs) /\ n = file[Ledger][k].retry + 1
  PROVE  Repairs'
<1> SUFFICES ASSUME Undisturbed' PROVE Repairs'
  BY DEF Repairs
<1>1. Undisturbed
  BY DEF Undisturbed
<1>2. PICK d \in Calls :
        /\ Become(p, d) /\ d.at = "read" /\ d.op = op /\ d.f = Ledger
        /\ d.key = nextRun /\ d.row = [status |-> "running", retry |-> n]
  BY NewRunMoves
<1>3. PICK table : table = file[Ledger] /\ LedgerTells(table, nextRun, reported, retries)
  BY <1>1 DEF Repairs
<1>4. nextRun' = nextRun + 1 /\ nextRun \in Nat
  BY KeysAreNumbers DEF NewRun
<1>5. LedgerTells(table, nextRun', reported, retries)
  <2>1. \A k \in RunsIn(table) : k \in Nat /\ k < nextRun
    BY <1>3, KeysAreNumbers DEF LedgerTells, RunsIn
  <2>2. \A k \in RunsIn(table) : k < nextRun'
    BY <1>4, <2>1
  <2> QED BY <1>3, <2>2 DEF LedgerTells
<1>6. ASSUME NEW q \in Procs \ {p} PROVE RepairFits(call[q], table, nextRun')
  <2>1. PICK e \in Calls : e = call[q] /\ RepairFits(e, table, nextRun) /\ ~InLedger(q)
    BY <1>1, <1>3, Here DEF Repairs
  <2>2. e.op # "append" => e.f = Ledger
    BY <2>1, LedgerOrLog
  <2>3. e.op \in {"start", "retry", "count", "finish"} => e.at \in {"idle", "working"}
    BY <2>1, <2>2 DEF InLedger
  <2> QED BY <2>1, <2>3 DEF RepairFits, Early, IsRecording
<1>7. RepairFits(d, table, nextRun')
  <2>1. op = "retry" => Counted(table, nextRun, n)
    <3>1. RowsBefore(table, nextRun) = RunsIn(table)
      BY <1>3 DEF RowsBefore, LedgerTells
    <3> QED BY <1>3, <3>1 DEF Counted
  <2>2. d.key = nextRun /\ d.row.retry = n
    BY <1>2
  <2>3. d.op = "retry" => Counted(table, d.key, d.row.retry)
    BY <1>2, <2>1, <2>2
  <2> QED BY <1>2, <1>4, <2>3 DEF RepairFits, Owns, IsRecording
<1>8. \A q \in Procs : RepairFits(call'[q], table, nextRun')
  BY <1>2, <1>6, <1>7, Becomes
<1> QED BY <1>3, <1>5, <1>8 DEF Repairs

LEMMA RepairsKept ==
  ASSUME Inv, Bounds, OneInLedger, Owned, Repairs, [Next]_vars PROVE Repairs'
<1>1. ASSUME NEW p \in Procs, NEW f \in Logs, NEW k \in Keys, NEW s \in LogStatuses,
             Append(p, f, k, s)
      PROVE  Repairs'
  <2>1. PICK d \in Calls : Become(p, d) /\ d.at = "lock" /\ d.op = "append" /\ d.f = f
    BY <1>1, AppendMoves
  <2>2. RepairFits(d, file[Ledger], nextRun)
    BY <2>1, NoRepair
  <2> QED BY <1>1, <2>1, <2>2, RepairsQuietly DEF Append
<1>2. ASSUME NEW p \in Procs, Start(p) PROVE Repairs'
  <2>1. NewRun(p, "start", 0) /\ UNCHANGED <<file, reported, retries>> /\ EnterLedger(p)
    BY <1>2 DEF Start
  <2>2. "ledger" \notin mishaps' => \A q \in Procs \ {p} : ~InLedger(q)
    BY <2>1, EnterAlone
  <2>3. mishaps \subseteq mishaps'
    BY <2>1, EnterAlone
  <2> QED BY <2>1, <2>2, <2>3, NewRunRepairs DEF Undisturbed
<1>3. ASSUME NEW p \in Procs, Retry(p) PROVE Repairs'
  <2>1. PICK d \in Calls : Become(p, d) /\ d.at = "last" /\ d.op = "retry" /\ d.f = Ledger
    BY <1>3, RetryMoves
  <2>2. RepairFits(d, file[Ledger], nextRun)
    BY <2>1, NoRepair
  <2>3. mishaps \subseteq mishaps' /\ UNCHANGED <<file, nextRun, reported, retries>>
    BY <1>3, EnterAlone DEF Retry
  <2> QED BY <2>1, <2>2, <2>3, RepairsQuietly
<1>4. ASSUME NEW p \in Procs, ReadLast(p) PROVE Repairs'
  <2>1. \A k \in RunsIn(Contents(Ledger)) : Contents(Ledger)[k].retry + 1 \in Nat
    BY ContentsType, LedgerIsNoLog DEF Inv, RunsIn, Tables, Rows
  <2>2. PICK n \in Nat :
          /\ NewRun(p, "retry", n)
          /\ LET runs == RunsIn(Contents(Ledger)) IN
             IF runs = {} THEN n = 0
             ELSE \E k \in runs : IsNewest(k, runs) /\ n = Contents(Ledger)[k].retry + 1
    BY <1>4, <2>1 DEF ReadLast, ReadLastIn
  <2>3. UNCHANGED <<file, reported, retries, mishaps>> /\ InLedger(p)
    <3>1. call[p].at = "last"
      BY <1>4 DEF ReadLast, ReadLastIn
    <3>2. call[p].f = Ledger
      BY <3>1, LastInLedger
    <3> QED BY <1>4, <3>1, <3>2 DEF ReadLast, ReadLastIn, InLedger
  <2>4. ASSUME Undisturbed
        PROVE  Contents(Ledger) = file[Ledger] /\ \A q \in Procs \ {p} : ~InLedger(q)
    <3>1. file[Ledger] # Bad
      BY <2>4 DEF Repairs, LedgerTells
    <3>2. "ledger" \notin mishaps
      BY <2>4 DEF Undisturbed
    <3> QED BY <2>3, <3>1, <3>2 DEF Contents, OneInLedger
  <2>5. Undisturbed' => Undisturbed
    BY <2>3 DEF Undisturbed
  <2> QED BY <2>2, <2>3, <2>4, <2>5, NewRunRepairs
<1>5. ASSUME NEW p \in Procs, NEW s \in {"done", "failed"}, Finish(p, s) PROVE Repairs'
  <2>1. PICK d \in Calls :
          /\ Become(p, d) /\ d.at = "read" /\ d.op = "finish" /\ d.f = Ledger
          /\ d.key = call[p].key /\ d.row.status = s
    BY <1>5, FinishMoves
  <2>2. PICK c \in Calls : c = call[p] /\ OwnFits(c) /\ c.at = "working" /\ Holds(c, p)
    BY <1>5, Here DEF Finish, Owned
  <2>3. Owns(c)
    <3>1. c.f = Ledger
      BY <2>2, CallParts DEF Holds, Files
    <3> QED BY <2>2, <3>1 DEF OwnFits
  <2>4. ASSUME Undisturbed PROVE RepairFits(d, file[Ledger], nextRun)
    <3>1. file[Ledger][c.key].status # "none"
      BY <2>2, <2>3, <2>4 DEF Repairs, RepairFits
    <3> QED BY <2>1, <2>2, <3>1 DEF RepairFits, IsRecording
  <2>5. mishaps \subseteq mishaps' /\ UNCHANGED <<file, nextRun, reported, retries>>
    BY <1>5, EnterAlone DEF Finish
  <2> QED BY <2>1, <2>4, <2>5, RepairsQuietly
<1>6. ASSUME NEW p \in Procs, Replace(p) PROVE Repairs'
  BY <1>6, ReplaceLedgerRepairs, ReplaceLogRepairs
<1>7. ASSUME NEW p \in Procs, ReadMissing(p) PROVE Repairs'
  <2>1. PICK c \in Calls : c = call[p] /\ OwnFits(c) /\ c.at = "read" /\ Missing(c, Contents(c.f))
    BY <1>7, Here DEF ReadMissing, ReadMissingIn, Owned
  <2>2. c.op \in {"finish", "count"} /\ c.f = Ledger /\ Owns(c)
    BY <2>1, LedgerOrLog DEF Missing, OwnFits
  <2>3. ~Undisturbed
    <3> SUFFICES ASSUME Undisturbed PROVE FALSE
      OBVIOUS
    <3>1. file[Ledger] # Bad /\ file[Ledger][c.key].status # "none"
      BY <2>1, <2>2 DEF Repairs, LedgerTells, RepairFits
    <3>2. file[Ledger][c.key] = NoRow
      BY <2>1, <2>2, <3>1 DEF Missing, Contents
    <3> QED BY <3>1, <3>2 DEF NoRow
  <2>4. UNCHANGED mishaps
    BY <1>7 DEF ReadMissing
  <2> QED BY <2>3, <2>4 DEF Repairs, Undisturbed
<1>8. ASSUME NEW p \in Procs, ReadBadManifest(p) \/ WriteManifest(p) \/ FailRecord(p)
      PROVE  Repairs'
  BY <1>8, ReturnRepairs
     DEF ReadBadManifest, WriteManifest, FailRecord, Mishap, Recording, IsRecording
<1>9. ASSUME NEW p \in Procs, FailWrite(p) PROVE Repairs'
  <2>1. PICK d \in Calls :
          /\ Become(p, d)
          /\ d = Idle \/ /\ call[p].op = "finish" /\ call[p].f = Ledger
                         /\ d.at = "read" /\ d.op = "finish" /\ d.f = Ledger
                         /\ d.key = call[p].key /\ d.row.status = "failed"
    BY <1>9, FailWriteMoves
  <2>2. PICK c \in Calls : c = call[p] /\ OwnFits(c) /\ c.at = "replace"
    BY <1>9, Here DEF FailWrite, Owned
  <2>3. ASSUME Undisturbed PROVE RepairFits(d, file[Ledger], nextRun)
    <3>1. CASE d = Idle
      BY <3>1, IdleParts, NoRepair
    <3>2. CASE c.op = "finish" /\ c.f = Ledger /\ d.at = "read" /\ d.op = "finish"
               /\ d.key = c.key
      <4>1. Owns(c)
        BY <2>2, <3>2 DEF OwnFits
      <4>2. file[Ledger][c.key].status # "none"
        BY <2>2, <2>3, <3>2, <4>1 DEF Repairs, RepairFits
      <4> QED BY <3>2, <4>2 DEF RepairFits, IsRecording
    <3> QED BY <2>1, <2>2, <3>1, <3>2
  <2>4. mishaps \subseteq mishaps' /\ UNCHANGED <<file, nextRun, reported, retries>>
    BY <1>9 DEF FailWrite, Mishap
  <2> QED BY <2>1, <2>3, <2>4, RepairsQuietly
<1>10. ASSUME NEW p \in Procs, Crash(p) PROVE Repairs'
  <2>1. Become(p, Idle) /\ mishaps \subseteq mishaps'
        /\ UNCHANGED <<file, nextRun, reported, retries>>
    BY <1>10 DEF Crash, Mishap
  <2>2. RepairFits(Idle, file[Ledger], nextRun)
    BY IdleParts, NoRepair
  <2> QED BY <2>1, <2>2, RepairsQuietly
<1>11. ASSUME NEW f \in Files, DamageFile(f) PROVE Repairs'
  BY <1>11 DEF DamageFile, Mishap, Repairs, Undisturbed
<1>12. CASE UNCHANGED <<file, call, nextRun, reported, retries>> /\ mishaps \subseteq mishaps'
  <2>1. Undisturbed' => Undisturbed
    BY <1>12 DEF Undisturbed
  <2> QED BY <1>12, <2>1 DEF Repairs
<1>13. ASSUME NEW p \in Procs, Misread(p) PROVE Repairs'
  BY <1>13 DEF Misread, Mishap, Repairs, Undisturbed
<1>14. DamageManifest \/ UNCHANGED vars =>
         UNCHANGED <<file, call, nextRun, reported, retries>> /\ mishaps \subseteq mishaps'
  BY DEF DamageManifest, Mishap, vars
<1> QED BY <1>1, <1>2, <1>3, <1>4, <1>5, <1>6, <1>7, <1>8, <1>9, <1>10, <1>11, <1>12, <1>13,
           <1>14, LockRepairs, ReadRepairs, HashesRepairs
        DEF Next, Step

LEMMA InitRepairs == Init => Repairs
<1> SUFFICES ASSUME Init PROVE Repairs
  OBVIOUS
<1>1. file[Ledger] = Blank /\ \A k \in Keys : Blank[k] = NoRow
  BY LedgerIsNoLog DEF Init, Blank
<1>2. RunsIn(Blank) = {} /\ Blank # Bad
  BY <1>1, RowTypes, BadAssumption DEF RunsIn
<1>3. LedgerTells(Blank, nextRun, reported, retries)
  BY <1>2 DEF Init, LedgerTells
<1>4. \A p \in Procs : RepairFits(call[p], Blank, nextRun)
  BY IdleParts, NoRepair DEF Init
<1> QED BY <1>1, <1>3, <1>4 DEF Repairs

LEMMA AlwaysRepairs == Spec => []Repairs
BY InitRepairs, RepairsKept, AlwaysInv, AlwaysBounds, AlwaysOneInLedger, AlwaysOwned, PTL
   DEF Spec

\* Unless programs overlapped in the ledger, it was damaged or a read failed, what a program was told of
\* its repairs is what the ledger says of them, and every retry that returned counts one
\* more than the newest repair before it.
THEOREM RepairsTold == Spec => []RepairsAreRecorded
<1>1. Repairs => RepairsAreRecorded
  BY DEF Repairs, Undisturbed, LedgerTells, Counted, RowsBefore, RepairsAreRecorded,
         RepairsReadAsReported, RetriesAreCounted
<1> QED BY <1>1, AlwaysRepairs, PTL
=============================================================================
