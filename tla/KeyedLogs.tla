------------------------------ MODULE KeyedLogs ------------------------------
(***************************************************************************)
(* What DataHub.append_parquet promises its callers, without processes,    *)
(* locks, temporary files or a manifest: a log holds the newest row of     *)
(* every key, and an append changes the row of its key and nothing else.   *)
(* Two things take rows away: a damaged file counts as empty, and an       *)
(* append that could not read the log starts it over.                      *)
(***************************************************************************)
CONSTANTS Logs, Keys, NoRow

VARIABLES
  log,      \* the rows of every log, NoRow for a key without one
  bad,      \* the logs whose file is damaged
  missed    \* the logs that the append in progress failed to read

Empty == [k \in Keys |-> NoRow]

Init ==
  /\ log = [f \in Logs |-> Empty]
  /\ bad = {}
  /\ missed = {}

Append(f, k) ==
  /\ f \notin missed
  /\ log'[f][k] # NoRow
  /\ log' = [log EXCEPT ![f][k] = log'[f][k]]
  /\ bad' = bad \ {f}
  /\ UNCHANGED missed

Damage(f) ==
  /\ f \notin bad \cup missed
  /\ log' = [log EXCEPT ![f] = Empty]
  /\ bad' = bad \cup {f}
  /\ UNCHANGED missed

\* A failed read of a file that can be read.
Miss(f) ==
  /\ f \notin bad \cup missed
  /\ missed' = missed \cup {f}
  /\ UNCHANGED <<log, bad>>

\* The append goes on with its row alone, or ends before it writes.
StartOver(f, k) ==
  /\ f \in missed
  /\ log'[f][k] # NoRow
  /\ log' = [log EXCEPT ![f] = [Empty EXCEPT ![k] = log'[f][k]]]
  /\ missed' = missed \ {f}
  /\ UNCHANGED bad

GiveUp(f) ==
  /\ f \in missed
  /\ missed' = missed \ {f}
  /\ UNCHANGED <<log, bad>>

Next ==
  \E f \in Logs :
    \/ \E k \in Keys : Append(f, k) \/ StartOver(f, k)
    \/ Damage(f) \/ Miss(f) \/ GiveUp(f)

Spec == Init /\ [][Next]_<<log, bad, missed>>

=============================================================================
