---------------------------- MODULE RegimeTracker ----------------------------
(***************************************************************************)
(* The market regime that trading acts on (cybernetics/orchestrator.py,    *)
(* hybrid_decision.py, config.py, regime_state.py). A detection turns the  *)
(* market data into a raw regime; the tracker confirms another regime only *)
(* after it was read on min_dwell days in a row, and keeps its counting in *)
(* memory and in a state file.                                             *)
(*                                                                         *)
(* A host is an OS process with one tracker, made from the file when it is *)
(* first asked for and never read again; the threads of a host (the        *)
(* requests of the web server) share it without a lock. Of apply(), the    *)
(* branch, the write of the last key, the copy for the file and its rename *)
(* are steps of their own. Within the branch and the copy threads of one   *)
(* host could interleave even finer; the properties claim nothing of a run *)
(* in which they overlap (mishap "overlap"), so no finer step is modelled. *)
(* Threads of different hosts share only the file.                         *)
(***************************************************************************)
EXTENDS Integers, Sequences, FiniteSets

CONSTANTS
  Threads,
  Hosts,
  NoTracker,       \* what a host has before its first detection, a file before it is written
  Views,           \* what a detection may see: rule verdict and model probabilities
  NoModel,         \* the probabilities of a detection whose model failed
  Engine,          \* the configured regime_engine
  MaxDay,          \* bound: days that pass
  MaxDwell,        \* the largest configured regime_min_dwell
  Dwells,          \* the values the setting takes
  MaxEvents        \* bound: detections, ends, resets, losses and edits together

Known   == {"bull", "sideways", "bear"}
Regimes == Known \cup {"unknown"}

\* readings is history: the days the tracker counted as new, with the regime first
\* read on each. pending "none" has the code's None.
Readings == Seq([day: 1..MaxDay, raw: Regimes])
Trackers == [confirmed: Regimes, pending: Known \cup {"none"}, count: Nat,
             lastDay: 0..MaxDay, minDwell: 1..MaxDwell, readings: Readings]

ASSUME TrackerAssumption ==
  /\ Views \subseteq [bench: BOOLEAN, rule: Known, probs: [Known -> 0..100] \cup {NoModel}]
  /\ NoModel \notin [Known -> 0..100]
  /\ NoTracker \notin Hosts /\ NoTracker \notin Trackers
  /\ Engine \in {"rule_based", "hmm", "hybrid"}
  /\ MaxDay \in Nat \ {0} /\ MaxDwell \in Nat \ {0} /\ Dwells \subseteq 1..MaxDwell /\ MaxEvents \in Nat

VARIABLES
  day,         \* today
  dwell,       \* the configured regime_min_dwell
  tracker,     \* the tracker of every host
  file,        \* market_regime_state.json
  call,        \* the detection each thread is in the middle of
  events,      \* history: how many of these have happened
  mishaps      \* history: overlapping threads, readings of an earlier day

vars == <<day, dwell, tracker, file, call, events, mishaps>>

-----------------------------------------------------------------------------
Fresh == [confirmed |-> "unknown", pending |-> "none", count |-> 0, lastDay |-> 0,
          minDwell |-> 1, readings |-> << >>]

NoView == [bench |-> FALSE, rule |-> "sideways", probs |-> NoModel]

Steps == {"idle", "branch", "key", "copy", "replace"}

\* host: whose thread it is; view: what was detected; raw and day: the arguments of
\* apply(); isNew: its comparison with the last day; copy: the data for the file.
Calls == [at: Steps, host: Hosts \cup {NoTracker}, view: Views \cup {NoView},
          raw: Regimes, day: 0..MaxDay, isNew: BOOLEAN, copy: Trackers]

Idle == [at |-> "idle", host |-> NoTracker, view |-> NoView, raw |-> "unknown",
         day |-> 0, isNew |-> FALSE, copy |-> Fresh]

-----------------------------------------------------------------------------
(* _resolve_regime_decision, with probabilities in hundredths.               *)

\* max() and argmax() take the first of equal ones, in this order.
Largest(probs) ==
  IF probs["bull"] >= probs["sideways"] /\ probs["bull"] >= probs["bear"] THEN "bull"
  ELSE IF probs["sideways"] >= probs["bear"] THEN "sideways" ELSE "bear"

\* The rule's share of the vote: 1 - confidence, between 0.20 and 0.50.
RuleWeight(confidence) ==
  IF confidence > 80 THEN 20 ELSE IF confidence < 50 THEN 50 ELSE 100 - confidence

Blend(probs, rule, weight) ==
  [r \in Known |-> probs[r] * (100 - weight) + (IF r = rule THEN 100 * weight ELSE 0)]

Decision(view) ==
  LET model      == Largest(view.probs)
      confidence == view.probs[model] IN
  IF Engine = "rule_based" \/ view.probs = NoModel THEN view.rule
  ELSE IF Engine = "hmm" \/ confidence >= 80 THEN model
  ELSE Largest(Blend(view.probs, view.rule, RuleWeight(confidence)))

-----------------------------------------------------------------------------
Init ==
  /\ day = 1
  /\ dwell \in Dwells
  /\ tracker = [h \in Hosts |-> NoTracker]
  /\ file = NoTracker
  /\ call = [t \in Threads |-> Idle]
  /\ events = 0
  /\ mishaps = {}

Become(t, c) == call' = [call EXCEPT ![t] = c]

Event == events < MaxEvents /\ events' = events + 1

TrackerOf(t) == tracker[call[t].host]

\* QuantOrchestrator.detect, up to the comparison of the dates in apply(). Without 60
\* days of the benchmark the reading is unknown and dated today; else it is dated by the
\* newest of the data (today or the day before). The tracker is made from the file if the
\* host has none, and takes the setting of min_dwell.
Detect(t, h, view, asOf) ==
  /\ call[t].at = "idle"
  /\ asOf \in {day - 1, day} \ {0}
  /\ ~view.bench => asOf = day
  /\ LET known == IF tracker[h] # NoTracker THEN tracker[h]
                  ELSE IF file # NoTracker THEN file ELSE Fresh IN
     /\ tracker' = [tracker EXCEPT ![h] = [known EXCEPT !.minDwell = dwell]]
     /\ mishaps' = mishaps
          \cup (IF \E u \in Threads : call[u].host = h THEN {"overlap"} ELSE {})
          \cup (IF asOf < known.lastDay THEN {"back"} ELSE {})
     /\ Become(t, [Idle EXCEPT !.at = "branch", !.host = h, !.view = view, !.day = asOf,
                               !.raw = IF view.bench THEN Decision(view) ELSE "unknown",
                               !.isNew = asOf # known.lastDay])
  /\ Event
  /\ UNCHANGED <<day, dwell, file>>

\* Mutant: the reading that confirms a regime leaves the pending one as it is.
ConfirmOnly(tr, raw) == [tr EXCEPT !.confirmed = raw]

Confirm(tr, raw) == [tr EXCEPT !.confirmed = raw, !.pending = "none", !.count = 0]

\* Mutant: every detection counts, the second of a day too.
CountAlways(tr, raw, isNew) ==
  IF raw = "unknown" \/ tr.minDwell <= 1 \/ tr.confirmed \in {"unknown", raw}
  THEN Confirm(tr, raw)
  ELSE IF raw # tr.pending   THEN [tr EXCEPT !.pending = raw, !.count = 1]
  ELSE IF tr.count + 1 < tr.minDwell THEN [tr EXCEPT !.count = @ + 1]
  ELSE Confirm(tr, raw)

\* The branches of apply().
Count(tr, raw, isNew) ==
  IF raw = "unknown" \/ tr.minDwell <= 1 \/ tr.confirmed \in {"unknown", raw}
  THEN Confirm(tr, raw)
  ELSE IF ~isNew             THEN tr
  ELSE IF raw # tr.pending   THEN [tr EXCEPT !.pending = raw, !.count = 1]
  ELSE IF tr.count + 1 < tr.minDwell THEN [tr EXCEPT !.count = @ + 1]
  ELSE Confirm(tr, raw)

\* The branch; the history notes a reading of a new day with it.
Branch(t) ==
  LET c  == call[t]
      tr == [Count(TrackerOf(t), c.raw, c.isNew) EXCEPT
               !.readings = IF c.isNew THEN Append(@, [day |-> c.day, raw |-> c.raw])
                            ELSE @] IN
  /\ c.at = "branch"
  /\ tracker' = [tracker EXCEPT ![c.host] = tr]
  /\ Become(t, [Idle EXCEPT !.at = "key", !.host = c.host, !.day = c.day])
  /\ UNCHANGED <<day, dwell, file, events, mishaps>>

\* last_observation_key is the key of this call, whatever another thread has set.
Key(t) ==
  /\ call[t].at = "key"
  /\ tracker' = [tracker EXCEPT ![call[t].host].lastDay = call[t].day]
  /\ Become(t, [Idle EXCEPT !.at = "copy", !.host = call[t].host])
  /\ UNCHANGED <<day, dwell, file, events, mishaps>>

\* _save reads the tracker anew for the data of the file.
Copy(t) ==
  /\ call[t].at = "copy"
  /\ Become(t, [call[t] EXCEPT !.at = "replace", !.copy = TrackerOf(t)])
  /\ UNCHANGED <<day, dwell, tracker, file, events, mishaps>>

\* A file of another name was written: it is renamed over the state file.
Replace(t) ==
  /\ call[t].at = "replace"
  /\ file' = call[t].copy
  /\ Become(t, Idle)
  /\ UNCHANGED <<day, dwell, tracker, events, mishaps>>

-----------------------------------------------------------------------------
\* A host ends, in the middle of a detection or not; its next detection is a new process.
Exit(h) ==
  /\ tracker[h] # NoTracker
  /\ tracker' = [tracker EXCEPT ![h] = NoTracker]
  /\ call' = [t \in Threads |-> IF call[t].host = h THEN Idle ELSE call[t]]
  /\ Event
  /\ UNCHANGED <<day, dwell, file, mishaps>>

\* reset_regime_transition_state: the tracker, which keeps its min_dwell, and, if asked,
\* the file.
Reset(h, removePersisted) ==
  /\ tracker[h] # NoTracker
  /\ \A t \in Threads : call[t].host # h
  /\ tracker' = [tracker EXCEPT ![h] = [Fresh EXCEPT !.minDwell = tracker[h].minDwell]]
  /\ file' = IF removePersisted THEN NoTracker ELSE file
  /\ Event
  /\ UNCHANGED <<day, dwell, call, mishaps>>

\* The file is lost or cannot be parsed: _load falls back to a fresh tracker.
LoseFile ==
  /\ file # NoTracker
  /\ file' = NoTracker
  /\ Event
  /\ UNCHANGED <<day, dwell, tracker, call, mishaps>>

NewDay ==
  /\ day < MaxDay
  /\ day' = day + 1
  /\ UNCHANGED <<dwell, tracker, file, call, events, mishaps>>

\* The setting is edited; every detection reads it anew.
Configure(d) ==
  /\ d \in Dwells /\ d # dwell
  /\ dwell' = d
  /\ Event
  /\ UNCHANGED <<day, tracker, file, call, mishaps>>

Next ==
  \/ \E t \in Threads :
       \/ \E h \in Hosts, view \in Views, asOf \in 1..MaxDay : Detect(t, h, view, asOf)
       \/ Branch(t) \/ Key(t) \/ Copy(t) \/ Replace(t)
  \/ \E h \in Hosts : Exit(h) \/ \E remove \in BOOLEAN : Reset(h, remove)
  \/ LoseFile \/ NewDay
  \/ \E d \in Dwells : Configure(d)

Spec == Init /\ [][Next]_vars

-----------------------------------------------------------------------------
TypeOK ==
  /\ day \in 1..MaxDay
  /\ dwell \in 1..MaxDwell
  /\ tracker \in [Hosts -> Trackers \cup {NoTracker}]
  /\ file \in Trackers \cup {NoTracker}
  /\ call \in [Threads -> Calls]
  /\ events \in 0..MaxEvents
  /\ mishaps \subseteq {"overlap", "back"}

\* The hybrid decision is the verdict of the rules or of the model, never the third
\* regime, whatever the weights of the blend (_resolve_regime_decision).
DecisionIsAVote ==
  \A t \in Threads : call[t].at = "branch" /\ call[t].view.bench =>
    \/ call[t].raw = call[t].view.rule
    \/ call[t].view.probs # NoModel /\ call[t].raw = Largest(call[t].view.probs)

\* The last n readings all have this regime.
Latest(readings, n, raw) ==
  /\ n <= Len(readings)
  /\ \A i \in (Len(readings) - n + 1)..Len(readings) : readings[i].raw = raw

\* The last n readings are of n different days.
DifferentDays(readings, n) ==
  \A i, j \in (Len(readings) - n + 1)..Len(readings) :
    i < j => readings[i].day < readings[j].day

Alone == "overlap" \notin mishaps

Quiet == mishaps = {}

\* The count is what it says, unless threads of one host overlap: so many readings in a
\* row, the newest ones, had the pending regime, each on a day of its own if dates do not
\* go back; in every tracker and in the file that the next process starts from, however
\* the hosts overwrite it (RegimeTransitionTracker.apply, _load, _save).
CountIsEarned ==
  Alone => \A tr \in {tracker[h] : h \in Hosts} \cup {file} :
    tr # NoTracker /\ tr.pending # "none" =>
      /\ tr.count > 0
      /\ Latest(tr.readings, tr.count, tr.pending)
      /\ Quiet => DifferentDays(tr.readings, tr.count)

\* Trading is told another known regime only after min_dwell days in a row were first
\* read as that regime; across restarts, lost files and edits of the setting, unless
\* threads of one host overlap (RegimeTransitionTracker.apply).
SwitchIsEarned ==
  [][\A h \in Hosts :
       ( /\ Alone
         /\ tracker[h] # NoTracker /\ tracker'[h] # NoTracker
         /\ tracker[h].confirmed # tracker'[h].confirmed
         /\ {tracker[h].confirmed, tracker'[h].confirmed} \subseteq Known
         /\ tracker[h].minDwell > 1 ) =>
       /\ Latest(tracker'[h].readings, tracker[h].minDwell, tracker'[h].confirmed)
       /\ Quiet => DifferentDays(tracker'[h].readings, tracker[h].minDwell)]_tracker

=============================================================================
