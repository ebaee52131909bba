---------------------------- MODULE WorkerMetrics ----------------------------
(***************************************************************************)
(* The request counters of a worker (ops/log/worker.py): threads that      *)
(* serve requests add to them, the cycles of the worker read them, reset   *)
(* them and add what they read to the worker's row.  No lock is taken, a   *)
(* slow cycle is overlapped by the next (ops/task/worker.py:44), and the   *)
(* statement that stores may fail after the reset.                         *)
(*                                                                         *)
(* Of the counters there are two, one that every request adds to and one   *)
(* for those that fail; they are read, added and reset in this order.      *)
(***************************************************************************)
EXTENDS Naturals, FiniteSets

CONSTANTS Servants,     \* threads that serve requests
          Savers,       \* cycles that may overlap
          MaxLogged,    \* bound: requests
          MaxSaves,     \* bound: cycles
          MaxUnsaved    \* bound: statements that fail

ASSUME MetricAssumption == IsFiniteSet(Servants)

VARIABLES atomicAdd,    \* the build does not interrupt an augmented assignment
          begun,        \* how many cycles have begun
          counter,      \* _total_requests and _total_errors
          adding,       \* what each thread is at
          saving,       \* what each cycle is at
          total,        \* the Worker row
          charted,      \* requests in all the WorkerMonitor rows
          requests,     \* ghost: the requests and errors that were logged
          overlapped,   \* ghost: two cycles saved at a time
          disturbed,    \* ghost: a request was counted between a read and its reset
          unsaved       \* how many statements failed

metricVars == <<atomicAdd, begun, counter, adding, saving, total, charted,
                requests, overlapped, disturbed, unsaved>>

Counted == {"all", "errors"}
Zero    == [f \in Counted |-> 0]
Resting == [pc |-> "idle", fetched |-> 0, seen |-> Zero]

MetricInit ==
  /\ atomicAdd \in BOOLEAN /\ begun = 0
  /\ counter = Zero /\ total = Zero /\ requests = Zero /\ charted = 0
  /\ adding = [t \in Servants |-> [todo |-> {}, failed |-> FALSE, loaded |-> 0, half |-> FALSE]]
  /\ saving = [s \in Savers |-> Resting]
  /\ overlapped = FALSE /\ disturbed = FALSE /\ unsaved = 0
-----------------------------------------------------------------------------
\* A request has been served: log() adds to the counters one after the other, to
\* the errors of a request that did not fail a zero.
CountRequest(t, failed) ==
  /\ adding[t].todo = {} /\ requests["all"] < MaxLogged
  /\ adding' = [adding EXCEPT ![t].todo = Counted, ![t].failed = failed]
  /\ requests' = [f \in Counted |-> IF f = "all" \/ failed THEN requests[f] + 1 ELSE requests[f]]
  /\ UNCHANGED <<atomicAdd, begun, counter, saving, total, charted, overlapped, disturbed, unsaved>>

Adds(t, f) == IF f = "all" \/ adding[t].failed THEN 1 ELSE 0

NextOf(t) == IF "all" \in adding[t].todo THEN "all" ELSE "errors"

\* The first half of an augmented assignment.
LoadCounter(t) ==
  /\ ~atomicAdd /\ adding[t].todo # {} /\ ~adding[t].half
  /\ adding' = [adding EXCEPT ![t].loaded = counter[NextOf(t)], ![t].half = TRUE]
  /\ UNCHANGED <<atomicAdd, begun, counter, saving, total, charted, requests,
                 overlapped, disturbed, unsaved>>

\* A cycle has read this counter, and will set it to zero.
Closing(s, f) ==
  saving[s].pc \in (IF f = "all" THEN {"errors", "reset"} ELSE {"reset", "resetErrors"})

StoreCounter(t) ==
  /\ adding[t].todo # {} /\ (atomicAdd \/ adding[t].half)
  /\ LET f    == NextOf(t)
         from == IF atomicAdd THEN counter[f] ELSE adding[t].loaded
     IN /\ counter' = [counter EXCEPT ![f] = from + Adds(t, f)]
        /\ adding' = [adding EXCEPT ![t].todo = @ \ {f}, ![t].loaded = 0, ![t].half = FALSE]
        /\ disturbed' = (\/ disturbed \/ from # counter[f]
                         \/ Adds(t, f) > 0 /\ \E s \in Savers : Closing(s, f))
  /\ UNCHANGED <<atomicAdd, begun, saving, total, charted, requests, overlapped, unsaved>>
-----------------------------------------------------------------------------
Goes(s, here, there) == saving[s].pc = here /\ saving' = [saving EXCEPT ![s].pc = there]

\* update_worker: fetch() takes the requests for the chart, save() reads them again.
FetchMetrics(s) ==
  /\ saving[s].pc = "idle" /\ begun < MaxSaves /\ begun' = begun + 1
  /\ saving' = [saving EXCEPT ![s] = [Resting EXCEPT !.pc = "all", !.fetched = counter["all"]]]
  /\ overlapped' = (overlapped \/ \E other \in Savers \ {s} : saving[other].pc # "idle")
  /\ UNCHANGED <<atomicAdd, counter, adding, total, charted, requests, disturbed, unsaved>>

RetrieveMetric(s, f) ==
  /\ saving[s].pc = f
  /\ saving' = [saving EXCEPT ![s].seen[f] = counter[f],
                               ![s].pc = IF f = "all" THEN "errors" ELSE "reset"]
  /\ UNCHANGED <<atomicAdd, begun, counter, adding, total, charted, requests,
                 overlapped, disturbed, unsaved>>

ResetMetric(s, f) ==
  /\ IF f = "all" THEN Goes(s, "reset", "resetErrors") ELSE Goes(s, "resetErrors", "update")
  /\ counter' = [counter EXCEPT ![f] = 0]
  /\ UNCHANGED <<atomicAdd, begun, adding, total, charted, requests, overlapped, disturbed, unsaved>>

\* retrieve(): errors are added only together with requests.
Values(seen) == IF seen["all"] = 0 THEN Zero ELSE seen

\* Mutant: the row is set to what was read.
SavedOver(seen) == [f \in Counted |-> IF Values(seen)[f] = 0 THEN total[f] ELSE Values(seen)[f]]

\* F("requests") + requests: the database adds.
Added(seen) == [f \in Counted |-> total[f] + Values(seen)[f]]

UpdateRow(s) ==
  /\ Goes(s, "update", "record")
  /\ total' = Added(saving[s].seen)
  /\ disturbed' = (disturbed \/ Values(saving[s].seen) # saving[s].seen)
  /\ UNCHANGED <<atomicAdd, begun, counter, adding, charted, requests, overlapped, unsaved>>

\* The statement fails, with the counters reset: the cycle goes on without it.
UpdateFails(s) ==
  /\ Goes(s, "update", "idle") /\ unsaved < MaxUnsaved
  /\ unsaved' = unsaved + 1
  /\ UNCHANGED <<atomicAdd, begun, counter, adding, total, charted, requests, overlapped, disturbed>>

\* The row of the chart, unless the configuration disables it.
Record(s) ==
  /\ Goes(s, "record", "idle")
  /\ charted' = charted + saving[s].fetched
  /\ UNCHANGED <<atomicAdd, begun, counter, adding, total, requests, overlapped, disturbed, unsaved>>

MetricNext ==
  \/ \E t \in Servants :
       LoadCounter(t) \/ StoreCounter(t) \/ \E failed \in BOOLEAN : CountRequest(t, failed)
  \/ \E s \in Savers :
       \/ FetchMetrics(s) \/ UpdateRow(s) \/ UpdateFails(s) \/ Record(s)
       \/ \E f \in Counted : RetrieveMetric(s, f) \/ ResetMetric(s, f)

MetricSpec == MetricInit /\ [][MetricNext]_metricVars
-----------------------------------------------------------------------------
AtRest == /\ \A t \in Servants : adding[t].todo = {}
          /\ \A s \in Savers : saving[s].pc = "idle"

\* Cycles that do not overlap count no request twice, in the row or on the chart, if
\* additions are not interrupted; and as long as nothing was counted between a read
\* and its reset and no statement failed, no request is missing either.
CountedOnce ==
  /\ ~overlapped /\ atomicAdd => \A f \in Counted : total[f] <= requests[f]
  /\ ~overlapped /\ atomicAdd => charted <= total["all"]
  /\ ~overlapped /\ ~disturbed /\ unsaved = 0 /\ AtRest =>
       \A f \in Counted : total[f] + counter[f] = requests[f]
=============================================================================
