------------------------------ MODULE LogQueue ------------------------------
(***************************************************************************)
(* The request logs of one worker process of the operations service        *)
(* (ops/log/middleware.py).  The threads that serve requests append their  *)
(* response to store.responses_queue; passes of batch_save_logs turn the   *)
(* queue into rows.  A pass runs in the cycle thread of the worker         *)
(* (ops/task/worker.py) and in a new thread for every response that finds  *)
(* max_backlog entries in the queue.                                       *)
(*                                                                         *)
(* Each pass creates a threading.Lock of its own, so passes exclude nobody *)
(* and run interleaved.  A pass iterates the live list: it also sees what  *)
(* is appended while it runs.  No pass removes anything from the queue.    *)
(*                                                                         *)
(* Nothing fills Logger._client_responses and no log has an id yet, so     *)
(* logs_creates, logs_updates and request_logs stay empty and all the rows *)
(* of a pass go into one bulk_create.                                      *)
(***************************************************************************)
EXTENDS Naturals, Sequences, FiniteSets

CONSTANTS Responses,     \* the responses that are neither omitted nor excluded
          Flushers,      \* bound: flush threads alive at once
          Cycle,         \* the thread of the worker task
          MaxBacklog,    \* config.max_backlog
          MaxFaults      \* bound: times generate_log or the database raises

ASSUME QueueAssumption ==
  /\ Cycle \notin Flushers
  /\ MaxBacklog \in Nat /\ MaxFaults \in Nat

Threads == Flushers \cup {Cycle}
Many    == 2          \* rows are counted up to Many

VARIABLES served,  \* [Responses -> how far process_response is]
          queue,   \* store.responses_queue
          pass,    \* [Threads -> a pass of batch_save_logs]
          rows,    \* [Responses -> its ServiceLog rows, up to Many]
          owed,    \* ghost: what the queue held when the pass began
          faults   \* exceptions so far

vars == <<served, queue, pass, rows, owed, faults>>

Phases == {"idle", "generate", "bulk", "finish"}
Idle   == [pc |-> "idle", pos |-> 0, logs |-> {}]
Queued == {queue[i] : i \in 1..Len(queue)}
Stored == {r \in Responses : rows[r] > 0}

Init ==
  /\ served = [r \in Responses |-> "new"]
  /\ queue = << >>
  /\ pass = [t \in Threads |-> Idle]
  /\ rows = [r \in Responses |-> 0]
  /\ owed = [t \in Threads |-> {}]
  /\ faults = 0

Begin(t) ==
  /\ pass[t].pc = "idle"
  /\ pass' = [pass EXCEPT ![t].pc = "generate"]
  /\ owed' = [owed EXCEPT ![t] = Queued]

-----------------------------------------------------------------------------
(* process_response *)

Enqueue(r) ==
  /\ served[r] = "new"
  /\ queue' = Append(queue, r)
  /\ served' = [served EXCEPT ![r] = "appended"]
  /\ UNCHANGED <<pass, rows, owed, faults>>

CheckBacklog(r) ==
  /\ served[r] = "appended"
  /\ served' = [served EXCEPT ![r] = "done"]
  /\ IF Len(queue) >= MaxBacklog
     THEN \E t \in Flushers : Begin(t)
     ELSE UNCHANGED <<pass, owed, faults>>
  /\ UNCHANGED <<queue, rows, faults>>

BeginCycle ==
  /\ Begin(Cycle)
  /\ UNCHANGED <<served, queue, rows, faults>>

-----------------------------------------------------------------------------
(* batch_save_logs *)

Stop(t) ==
  /\ pass' = [pass EXCEPT ![t] = Idle]
  /\ owed' = [owed EXCEPT ![t] = {}]

\* One turn of "for response in queue".
Generate(t) ==
  /\ pass[t].pc = "generate" /\ pass[t].pos < Len(queue)
  /\ pass' = [pass EXCEPT ![t] = [pc |-> "generate", pos |-> @.pos + 1,
                                   logs |-> @.logs \cup {queue[@.pos + 1]}]]
  /\ UNCHANGED <<served, queue, rows, owed, faults>>

\* The list is exhausted.
Generated(t) ==
  /\ pass[t].pc = "generate" /\ pass[t].pos >= Len(queue)
  /\ IF pass[t].logs = {} THEN Stop(t)
     ELSE pass' = [pass EXCEPT ![t].pc = "bulk"] /\ UNCHANGED owed
  /\ UNCHANGED <<served, queue, rows, faults>>

\* ServiceLog.objects.bulk_create: one INSERT, no key for conflicts to be on
BulkCreate(t) ==
  /\ pass[t].pc = "bulk"
  /\ rows' = [r \in Responses |-> IF r \in pass[t].logs /\ rows[r] < Many
                                  THEN rows[r] + 1 ELSE rows[r]]
  /\ pass' = [pass EXCEPT ![t].pc = "finish", ![t].logs = {}]
  /\ UNCHANGED <<served, queue, owed, faults>>

\* mutant: the queue is emptied when the pass is over
FinishClearing(t) ==
  /\ pass[t].pc = "finish"
  /\ Stop(t)
  /\ queue' = << >>
  /\ UNCHANGED <<served, rows, faults>>

\* The updates of last_activity are behind, the connections are closed.
Finish(t) ==
  /\ pass[t].pc = "finish"
  /\ Stop(t)
  /\ UNCHANGED <<served, queue, rows, faults>>

\* generate_log or the database raises: the rest of the pass is lost.
Fail(t) ==
  /\ faults < MaxFaults /\ pass[t].pc # "idle"
  /\ faults' = faults + 1
  /\ Stop(t)
  /\ UNCHANGED <<served, queue, rows>>

-----------------------------------------------------------------------------
PassStep(t) ==
  \/ Generate(t) \/ Generated(t)
  \/ BulkCreate(t) \/ Finish(t)

Next ==
  \/ \E r \in Responses : Enqueue(r) \/ CheckBacklog(r)
  \/ BeginCycle
  \/ \E t \in Threads : PassStep(t) \/ Fail(t)

Spec == Init /\ [][Next]_vars

\* The worker task runs a cycle every worker_cycle seconds and its thread is
\* scheduled; the flush threads need no fairness.
FairSpec == Spec /\ WF_vars(BeginCycle) /\ WF_vars(PassStep(Cycle))

-----------------------------------------------------------------------------
(* Properties *)

TypeOK ==
  /\ served \in [Responses -> {"new", "appended", "done"}]
  /\ queue \in Seq(Responses)
  /\ pass \in [Threads -> [pc: Phases, pos: Nat, logs: SUBSET Responses]]
  /\ rows \in [Responses -> 0..Many]
  /\ owed \in [Threads -> SUBSET Responses]
  /\ faults \in 0..MaxFaults

\* A pass that ends without an exception has stored every response that was in
\* the queue when it began, whatever the other passes did in the meantime
\* (batch_save_logs, whose lock protects nothing).
PassCoversQueue == [][\A t \in Threads : Finish(t) => owed[t] \subseteq Stored]_vars

\* A response in the queue is stored by some later cycle, even if passes fail
\* (docs/en/guide/ops.md:68 "the request log of each process will be persisted
\* every 30 seconds by default").
StoredEventually == \A r \in Responses : (r \in Queued) ~> (r \in Stored)

=============================================================================
