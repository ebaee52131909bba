----------------------------- MODULE ReportLog -----------------------------
(***************************************************************************)
(* The aggregation reports of the operations service                       *)
(* (OperationWorkerTask.report and aggregate in ops/task/worker.py, the    *)
(* AggregationLog table).  Every cycle of the primary worker looks for the *)
(* row of the current hour (layer 0) and then of the current day (layer    *)
(* 1), generates it if there is none, and sends it to the supervisor; when *)
(* that succeeds, the rows that are still unreported follow in batches.    *)
(*                                                                         *)
(* A cycle runs in a thread of its own.  Two cycles overlap when one takes *)
(* longer than an interval, or when another worker became the primary      *)
(* while the old one was still in its cycle; they share nothing but the    *)
(* table and, within a process, the attributes of the task.                *)
(*                                                                         *)
(* Time is counted in slots of an hour; the last slot is the one in which  *)
(* the probability of sending reaches one.  A supervisor is connected and  *)
(* not local, node_id is set and report_disabled is not.                   *)
(***************************************************************************)
EXTENDS Naturals, Sequences, FiniteSets, SequencesExt

CONSTANTS Cycles,        \* the cycle threads
          Workers,       \* the worker processes that may be primary
          WorkerOf,      \* [Cycles -> Workers]
          FirstPrimary,  \* the worker elected first
          Slots,         \* slots of an hour
          DayHours,      \* hours of a day
          Expiry,        \* <<hourly, daily>> report expiry, in slots
          ReportBatch,     \* report_max_batch_size
          MaxClock,      \* bound: slots
          MaxLogs,       \* bound: AggregationLog rows
          MaxUpsets,     \* bound: late cycles, changes of primary, restarts
          MaxLost,       \* bound: failed requests and queries
          MaxPartial     \* bound: reports without the key "service", empty ones

ASSUME ReportAssumption ==
  /\ IsFiniteSet(Cycles) /\ WorkerOf \in [Cycles -> Workers] /\ FirstPrimary \in Workers
  /\ Slots \in Nat \ {0} /\ DayHours \in Nat \ {0} /\ ReportBatch \in Nat \ {0}
  /\ Expiry \in Seq(Nat) /\ Len(Expiry) = 2
  /\ MaxClock \in Nat /\ Slots <= MaxClock /\ MaxLogs \in Nat
  /\ MaxUpsets \in Nat /\ MaxLost \in Nat /\ MaxPartial \in Nat

VARIABLES clock,    \* time_now(), in slots
          primary,  \* the worker that is_worker_primary holds for
          memory,   \* [Workers -> _last_exec, hourly_aggregation, daily_aggregation]
          cycle,    \* [Cycles -> the call of report() in that thread]
          logs,     \* the AggregationLog table, in order of pk
          done,     \* ghost: a cycle began in this slot / every one kept to it
          budget    \* late cycles and changes so far, failures so far, odd reports

reportVars == <<clock, primary, memory, cycle, logs, done, budget>>

ReportKinds == {"full", "partial", "empty"}
None        == [to |-> 0, reported |-> FALSE]

IdleCycle == [pc |-> "idle", layer |-> 0, to |-> 0, log |-> 0, upto |-> 0, at |-> 0,
              exec |-> 0, acked |-> {}, empty |-> {}, owed |-> {}, hurt |-> FALSE]

ReportInit ==
  /\ clock = Slots
  /\ primary = FirstPrimary
  /\ memory = [w \in Workers |-> [exec |-> 0, hourly |-> None, daily |-> 0]]
  /\ cycle = [c \in Cycles |-> IdleCycle]
  /\ logs = << >>
  /\ done = [begun |-> FALSE, kept |-> TRUE]
  /\ budget = [upsets |-> 0, lost |-> 0, odd |-> 0]

Mem(c)        == memory[WorkerOf[c]]
Busy(c)       == cycle[c].pc # "idle"
CurrentHour(t) == t \div Slots
CurrentDay(t)  == CurrentHour(t) - (CurrentHour(t) % DayHours)
InPhase(c, pc) == cycle[c].pc = pc
Become(c, pc)  == cycle' = [cycle EXCEPT ![c].pc = pc]

Upset == budget.upsets < MaxUpsets /\ budget' = [budget EXCEPT !.upsets = @ + 1]
Lose  == budget.lost < MaxLost /\ budget' = [budget EXCEPT !.lost = @ + 1]

-----------------------------------------------------------------------------
(* Time and processes *)

\* An interval ends; a cycle that is still running, or none at all, is late.
TimePasses ==
  /\ clock < MaxClock
  /\ clock' = clock + 1
  /\ \/ /\ done.begun /\ \A c \in Cycles : ~Busy(c)
        /\ done' = [begun |-> FALSE, kept |-> TRUE]
        /\ UNCHANGED budget
     \/ Upset /\ done' = [begun |-> FALSE, kept |-> FALSE]
  /\ UNCHANGED <<primary, memory, cycle, logs>>

\* Another worker is elected; the old one may be in the middle of its cycle.
TakeOver(w) ==
  /\ w # primary /\ primary' = w
  /\ Upset
  /\ done' = [begun |-> FALSE, kept |-> FALSE]
  /\ UNCHANGED <<clock, memory, cycle, logs>>

\* A worker process is restarted and keeps nothing but the table.
RestartWorker(w) ==
  /\ Upset
  /\ memory' = [memory EXCEPT ![w] = [exec |-> 0, hourly |-> None, daily |-> 0]]
  /\ cycle' = [c \in Cycles |-> IF WorkerOf[c] = w THEN IdleCycle ELSE cycle[c]]
  /\ done' = [begun |-> FALSE, kept |-> FALSE]
  /\ UNCHANGED <<clock, primary, logs>>

\* start(): _last_exec is set and a thread runs the cycle of the primary.
StartCycle(c) ==
  /\ ~Busy(c) /\ WorkerOf[c] = primary /\ ~done.begun
  /\ done' = [done EXCEPT !.begun = TRUE]
  /\ memory' = [memory EXCEPT ![primary].exec = clock]
  /\ cycle' = [cycle EXCEPT ![c] = [IdleCycle EXCEPT !.pc = "find", !.to = CurrentHour(clock)]]
  /\ UNCHANGED <<clock, primary, logs, budget>>

-----------------------------------------------------------------------------
(* aggregate(layer) *)

SameLog(i, layer, to) == logs[i].layer = layer /\ logs[i].to = to
FoundLogs(layer, to)  == {i \in 1..Len(logs) : SameLog(i, layer, to)}
First(S)              == CHOOSE i \in S : \A j \in S : i <= j

\* The row becomes hourly_aggregation or daily_aggregation.
Remember(c, row) ==
  memory' = [memory EXCEPT ![WorkerOf[c]] =
    IF cycle[c].layer = 0
    THEN [@ EXCEPT !.hourly = [to |-> row.to, reported |-> row.reported]]
    ELSE [@ EXCEPT !.daily = row.to]]

\* mutant: an hour is left to the draw until it is over
WhetherToDraw(c) ==
  IF cycle[c].layer = 0
  THEN BOOLEAN
  ELSE {LET hourly == Mem(c).hourly IN
        \/ hourly.to = cycle[c].to /\ hourly.reported
        \/ hourly.to > cycle[c].to}

\* "report": the hour is sent with a probability that is one in the last slot,
\* the day once its last hour is reported or the hourly reports are ahead.
WhetherToSend(c) ==
  IF cycle[c].layer = 0
  THEN IF Mem(c).exec - cycle[c].to * Slots + 1 >= Slots THEN {TRUE} ELSE BOOLEAN
  ELSE {LET hourly == Mem(c).hourly IN
        \/ hourly.to = cycle[c].to /\ hourly.reported
        \/ hourly.to > cycle[c].to}

\* aggregate() returns: on to daily_report, or out of report()
Ended(c) == IF cycle[c].layer = 0
            THEN [IdleCycle EXCEPT !.pc = "daily", !.to = cycle[c].to]
            ELSE IdleCycle

\* What aggregate() does with a row it found or created; others are the cycles
\* after that.
Consider(c, others, i, row) ==
  /\ Remember(c, row)
  /\ \E send \in IF row.reported \/ row.kind = "empty" THEN {FALSE} ELSE WhetherToSend(c) :
       cycle' = [others EXCEPT ![c] = IF send THEN [@ EXCEPT !.pc = "send", !.log = i]
                                      ELSE Ended(c)]

\* A write of this thread changes what the batches of other threads have yet to
\* read: a row that is marked, or a new one that sorts before theirs.
Disturb(me, others) ==
  [c \in Cycles |-> IF c # me /\ cycle[c].pc = "batch"
                    THEN [others[c] EXCEPT !.hurt = TRUE] ELSE others[c]]

\* mutant: a row is created without looking for one
FindNothing(c) ==
  /\ InPhase(c, "find") /\ Become(c, "create") /\ UNCHANGED memory
  /\ UNCHANGED <<clock, primary, logs, done, budget>>

FindLog(c) ==
  /\ InPhase(c, "find")
  /\ LET found == FoundLogs(cycle[c].layer, cycle[c].to) IN
     IF found = {} THEN Become(c, "create") /\ UNCHANGED memory
     ELSE Consider(c, cycle, First(found), logs[First(found)])
  /\ UNCHANGED <<clock, primary, logs, done, budget>>

\* The report is generated and its row created; an empty one counts as reported.
CreateLog(c) ==
  /\ InPhase(c, "create") /\ Len(logs) < MaxLogs
  /\ \E kind \in ReportKinds :
       LET row == [layer |-> cycle[c].layer, to |-> cycle[c].to, kind |-> kind,
                   created |-> clock, reported |-> kind = "empty", remote |-> FALSE,
                   got |-> 0, wrong |-> FALSE]
       IN  /\ budget.odd < MaxPartial \/ kind = "full"
           /\ budget' = [budget EXCEPT !.odd = @ + IF kind = "full" THEN 0 ELSE 1]
           /\ logs' = Append(logs, row)
           /\ Consider(c, Disturb(c, cycle), Len(logs) + 1, row)
  /\ UNCHANGED <<clock, primary, done>>

\* The supervisor stores a copy of row i, under the layer it was sent with.
Receive(row, layer) ==
  [row EXCEPT !.got = @ + 1, !.wrong = @ \/ layer # row.layer]

\* report_analytics: answered with an id, answered without one, or failed
\* before or after the supervisor stored it.
SendLog(c) ==
  /\ InPhase(c, "send")
  /\ LET i == cycle[c].log
         store == logs' = [logs EXCEPT ![i] = Receive(@, cycle[c].layer)]
         answered(pc) ==
           /\ cycle' = [cycle EXCEPT ![c].pc = pc]
           /\ memory' = IF cycle[c].layer = 0
                        THEN [memory EXCEPT ![WorkerOf[c]].hourly.reported = TRUE]
                        ELSE memory
     IN  \/ store /\ answered("mark") /\ UNCHANGED <<budget, done>>
         \/ /\ store /\ Lose /\ answered("noid")
            /\ done' = [done EXCEPT !.kept = FALSE]
         \/ /\ store \/ UNCHANGED logs
            /\ Lose
            /\ cycle' = [cycle EXCEPT ![c] = Ended(c)]
            /\ done' = [done EXCEPT !.kept = FALSE]
            /\ UNCHANGED memory
  /\ UNCHANGED <<clock, primary>>

\* The row of the report that succeeded is updated by pk.
MarkLog(c) ==
  /\ cycle[c].pc \in {"mark", "noid"}
  /\ LET i  == cycle[c].log
         id == cycle[c].pc = "mark"
     IN /\ logs' = [logs EXCEPT ![i].reported = TRUE, ![i].remote = @ \/ id]
        /\ cycle' = Disturb(c, [cycle EXCEPT ![c] =
                      IF id THEN [@ EXCEPT !.pc = "missing", !.exec = Mem(c).exec] ELSE Ended(c)])
  /\ UNCHANGED <<clock, primary, memory, done, budget>>

-----------------------------------------------------------------------------
(* The missing reports *)

\* missing_reports: both layers, created within the expiry of the layer just sent
\* before the _last_exec the query was made with
Missing(c) ==
  {i \in 1..Len(logs) : /\ ~logs[i].reported /\ i # cycle[c].log
                        /\ logs[i].created + Expiry[cycle[c].layer + 1] >= cycle[c].exec}

\* order_by("to_time")
Earlier(i, j) == logs[i].to < logs[j].to \/ (logs[i].to = logs[j].to /\ i < j)

\* mutant: missing_reports[offset: batch_size]
SliceFixedEnd(c) ==
  LET all == SetToSortSeq(Missing(c), Earlier)
  IN  SubSeq(all, cycle[c].at + 1, Min({ReportBatch, Len(all)}))

\* missing_reports[offset: offset + batch_size], read anew for each batch
Slice(c) ==
  LET all == SetToSortSeq(Missing(c), Earlier)
  IN  SubSeq(all, cycle[c].at + 1, Min({cycle[c].at + ReportBatch, Len(all)}))

CountMissing(c) ==
  /\ InPhase(c, "missing")
  /\ LET ids == Missing(c) IN
     cycle' = [cycle EXCEPT ![c] =
       IF ids = {} THEN Ended(c)
       ELSE [@ EXCEPT !.pc = "batch", !.upto = Cardinality(ids), !.at = 0,
                      !.owed = ids, !.hurt = FALSE]]
  /\ UNCHANGED <<clock, primary, memory, logs, done, budget>>

\* mutant: the results are paired with all the rows of the slice
PairedWithSlice(slice, values, ok) ==
  {slice[i] : i \in {j \in 1..Len(values) : j <= Len(slice) /\ values[j] \in ok}}

\* zip(resp.result, batch_missing_reports): the rows whose result has an id
Paired(slice, values, ok) == {values[i] : i \in {j \in 1..Len(values) : values[j] \in ok}}

\* One batch: rows without "service" are set aside; the others are sent with
\* the layer and interval of the report that has just succeeded.
SendBatch(c) ==
  /\ InPhase(c, "batch")
  /\ LET slice  == Slice(c)
         rows   == Missing(c) \cap ToSet(slice)
         full   == {i \in rows : logs[i].kind = "full"}
         values == SelectSeq(slice, LAMBDA i : i \in full)
         receive(ids) ==
           logs' = [i \in 1..Len(logs) |-> IF i \in ids THEN Receive(logs[i], cycle[c].layer)
                                           ELSE logs[i]]
         advance(ids, hurt) ==
           cycle' = [cycle EXCEPT ![c].at = @ + ReportBatch, ![c].acked = @ \cup ids,
             ![c].empty = @ \cup (rows \ full), ![c].hurt = @ \/ hurt,
             ![c].pc = IF cycle[c].at + ReportBatch < cycle[c].upto THEN "batch" ELSE "settle"]
     IN  \/ receive(full) /\ advance(Paired(slice, values, full), FALSE) /\ UNCHANGED <<budget, done>>
         \/ /\ Lose /\ full # {}
            /\ done' = [done EXCEPT !.kept = FALSE]
            /\ \/ receive(full) /\ advance({}, TRUE)
               \/ UNCHANGED logs /\ advance({}, TRUE)
               \/ \E bad \in full :
                    receive(full \ {bad}) /\ advance(Paired(slice, values, full \ {bad}), TRUE)
  /\ UNCHANGED <<clock, primary, memory>>

\* bulk_update of the rows with an id; those set aside are marked as reported
Settle(c) ==
  /\ InPhase(c, "settle")
  /\ logs' = [i \in 1..Len(logs) |->
       IF i \in cycle[c].acked THEN [logs[i] EXCEPT !.reported = TRUE, !.remote = TRUE]
       ELSE IF i \in cycle[c].empty THEN [logs[i] EXCEPT !.reported = TRUE]
       ELSE logs[i]]
  /\ cycle' = Disturb(c, [cycle EXCEPT ![c] = Ended(c)])
  /\ UNCHANGED <<clock, primary, memory, done, budget>>

-----------------------------------------------------------------------------
\* daily_report: not yet for this day, and still the primary
Daily(c) ==
  /\ InPhase(c, "daily")
  /\ LET day == CurrentDay(Mem(c).exec) IN
     cycle' = [cycle EXCEPT ![c] =
       IF Mem(c).daily # day /\ WorkerOf[c] = primary
       THEN [IdleCycle EXCEPT !.pc = "find", !.layer = 1, !.to = day]
       ELSE IdleCycle]
  /\ UNCHANGED <<clock, primary, memory, logs, done, budget>>

\* A query raises: handle_func ends report().
AbortReport(c) ==
  /\ Busy(c) /\ Lose
  /\ cycle' = [cycle EXCEPT ![c] = IdleCycle]
  /\ done' = [done EXCEPT !.kept = FALSE]
  /\ UNCHANGED <<clock, primary, memory, logs>>

ReportCycle(c) ==
  \/ StartCycle(c) \/ FindLog(c) \/ CreateLog(c) \/ SendLog(c) \/ MarkLog(c)
  \/ CountMissing(c) \/ SendBatch(c) \/ Settle(c) \/ Daily(c) \/ AbortReport(c)

ReportNext ==
  \/ TimePasses
  \/ \E w \in Workers : TakeOver(w) \/ RestartWorker(w)
  \/ \E c \in Cycles : ReportCycle(c)

ReportSpec == ReportInit /\ [][ReportNext]_reportVars

-----------------------------------------------------------------------------
(* Properties *)

ReportLogType ==
  [layer: {0, 1}, to: Nat, kind: ReportKinds, created: Nat, reported: BOOLEAN,
   remote: BOOLEAN, got: Nat, wrong: BOOLEAN]

ReportTypeOK ==
  /\ clock \in 0..MaxClock
  /\ primary \in Workers
  /\ memory \in [Workers -> [exec: Nat, hourly: [to: Nat, reported: BOOLEAN], daily: Nat]]
  /\ cycle \in [Cycles -> [pc: {"idle", "find", "create", "send", "mark", "noid", "missing",
                                "batch", "settle", "daily"},
                           layer: {0, 1}, to: Nat, log: 0..Len(logs), upto: Nat, at: Nat, exec: Nat,
                           acked: SUBSET (1..Len(logs)), empty: SUBSET (1..Len(logs)),
                           owed: SUBSET (1..Len(logs)), hurt: BOOLEAN]]
  /\ logs \in Seq(ReportLogType) /\ Len(logs) <= MaxLogs
  /\ done \in [begun: BOOLEAN, kept: BOOLEAN]
  /\ budget \in [upsets: 0..MaxUpsets, lost: 0..MaxLost, odd: 0..MaxPartial]

\* A period has one row, and one more at most for every late cycle, change of
\* primary or restart: failures alone never duplicate a report, because a
\* failed or restarted cycle finds the row of the one before (worker.py:752-759).
OneLogPerPeriod ==
  \A i \in 1..Len(logs) :
    Cardinality(FoundLogs(logs[i].layer, logs[i].to)) <= 1 + budget.upsets

\* What the table calls reported the supervisor has: a row with an id, or a
\* full row with a reported_time, was stored there (models.py:1069-1070
\* "remote id is not None means the report is successful").
ReportedIsStored ==
  \A i \in 1..Len(logs) :
    logs[i].remote \/ (logs[i].reported /\ logs[i].kind = "full") => logs[i].got > 0

\* The supervisor gets a row twice only if an answer was lost, a query failed
\* after it, or two cycles ran at once.
SentOnce ==
  \A i \in 1..Len(logs) : logs[i].got <= 1 + budget.lost + budget.upsets

\* A report is stored by the supervisor if the table says so, and not again
\* without a reason (report and batch_report, worker.py).
StoredOnce == ReportedIsStored /\ SentOnce

\* When a report succeeds and the batches behind it meet no failure and no
\* other cycle, nothing that was missing and not expired stays unreported
\* (worker.py:878 "if this report is successful, we can check if there are
\* missing reports").
CatchUp ==
  [][\A c \in Cycles :
       cycle[c].pc = "settle" /\ cycle'[c].pc # "settle" /\ logs' # logs /\ ~cycle[c].hurt
         => \A i \in cycle[c].owed : logs'[i].reported]_reportVars

\* An hour does not end with its report unsent when its last cycle was on time,
\* the primary stayed and nothing failed in it.
HourIsReported ==
  [][CurrentHour(clock') # CurrentHour(clock) /\ done.kept /\ budget' = budget
       => \E i \in FoundLogs(0, CurrentHour(clock)) : logs[i].reported]_reportVars

\* The supervisor stores every row under the layer it belongs to
\* (models.py:1056-1058: layer "0: hourly", "1: daily").
LayerKept == \A i \in 1..Len(logs) : ~logs[i].wrong
=============================================================================
