--------------------------- MODULE WorkerPrimary ---------------------------
(***************************************************************************)
(* The worker processes of a service instance and the Worker table of the  *)
(* operations service (ops/task/worker.py, ops/store.py, ops/models.py).   *)
(*                                                                         *)
(* Every worker runs a task thread: each interval it updates its row,      *)
(* marks the rows of silent and dead workers as disconnected, and, if its  *)
(* row is the first of the connected ones, does the work of the primary    *)
(* (resource sync, monitors, alerts, reports) and clears old rows.  The    *)
(* table is all that the workers share; each step below is one query.      *)
(*                                                                         *)
(* Time is counted in intervals: Tick ends one.  The thread wakes once per *)
(* interval, so a Tick waits for every cycle unless it is one of the late  *)
(* ones (a blocked database, a suspended host).                            *)
(***************************************************************************)
EXTENDS Naturals, FiniteSets

CONSTANTS Pids,        \* the pids the processes of the server get
          Retention,   \* monitor.worker_retention, in intervals
          MaxStarts,   \* bound: processes started
          MaxLate      \* bound: late intervals and database errors

ASSUME PrimaryAssumption ==
  /\ Pids \subseteq Nat
  /\ Retention \in Nat /\ Retention > 2
  /\ MaxStarts \in Nat /\ MaxLate \in Nat

Silence == 2     \* intervals after which a row counts as disconnected

VARIABLES proc,    \* [Pids -> what psutil finds there]
          task,    \* [Pids -> the task thread of a worker]
          rows,    \* [Pids -> the Worker row of (server, pid)]
          starts,  \* processes started
          late     \* late intervals and database errors so far

vars == <<proc, task, rows, starts, late>>

Phases == {"sleep", "join", "refresh", "scan", "disconnect", "elect", "work"}

\* start: create_time; loaded: store.worker is set; ran: this interval's cycle
\* has begun; seen: worker_qs.exists(); dead: the pks of vanished processes
NoTask == [pc |-> "sleep", start |-> 0, loaded |-> FALSE, ran |-> FALSE,
           seen |-> FALSE, dead |-> {}]
NoRow  == [there |-> FALSE, start |-> 0, age |-> 0, connected |-> FALSE]

Init ==
  /\ proc = [p \in Pids |-> "down"]
  /\ task = [p \in Pids |-> NoTask]
  /\ rows = [p \in Pids |-> NoRow]
  /\ starts = 0 /\ late = 0

Live(p)     == proc[p] = "up"
Connected   == {p \in Pids : rows[p].there /\ rows[p].connected}
At(p, pc)   == Live(p) /\ task[p].pc = pc
Goto(p, pc) == task' = [task EXCEPT ![p].pc = pc]

-----------------------------------------------------------------------------
(* Processes *)

\* A worker starts at p, not before the ones that started earlier.
Start(p) ==
  /\ proc[p] = "down" /\ starts < MaxStarts
  /\ proc' = [proc EXCEPT ![p] = "up"]
  /\ starts' = starts + 1
  /\ \E s \in {starts, starts + 1} \ {0} : task' = [task EXCEPT ![p].start = s]
  /\ UNCHANGED <<rows, late>>

\* The pid of a worker that died goes to another program.
Reuse(p) ==
  /\ proc[p] = "down" /\ rows[p].there /\ starts < MaxStarts
  /\ proc' = [proc EXCEPT ![p] = "other"]
  /\ starts' = starts + 1
  /\ UNCHANGED <<task, rows, late>>

Die(p) ==
  /\ proc[p] # "down"
  /\ proc' = [proc EXCEPT ![p] = "down"]
  /\ task' = [task EXCEPT ![p] = NoTask]
  /\ UNCHANGED <<rows, starts, late>>

\* An interval ends.
Tick ==
  /\ \/ (\A p \in Pids : Live(p) => task[p].pc = "sleep" /\ task[p].ran) /\ UNCHANGED late
     \/ late < MaxLate /\ late' = late + 1
  /\ task' = [p \in Pids |-> [task[p] EXCEPT !.ran = FALSE]]
  /\ rows' = [p \in Pids |-> IF rows[p].there /\ rows[p].age < Retention
                             THEN [rows[p] EXCEPT !.age = @ + 1] ELSE rows[p]]
  /\ UNCHANGED <<proc, starts>>

-----------------------------------------------------------------------------
(* One cycle *)

\* The cycle begins; without a store.worker, Worker.load looks for a row.
Wake(p) ==
  /\ At(p, "sleep") /\ ~task[p].ran
  /\ task' = [task EXCEPT ![p].ran = TRUE,
                          ![p].pc = IF task[p].loaded THEN "refresh" ELSE "join",
                          ![p].seen = ~task[p].loaded /\ rows[p].there]
  /\ UNCHANGED <<proc, rows, starts, late>>

\* mutant: a row that is taken over keeps its time
JoinStale(p) ==
  /\ At(p, "join")
  /\ IF task[p].seen /\ ~rows[p].there
     THEN Goto(p, "refresh") /\ UNCHANGED rows
     ELSE /\ rows' = [rows EXCEPT ![p] = [there |-> TRUE, start |-> task[p].start,
                                          age |-> rows[p].age, connected |-> TRUE]]
          /\ task' = [task EXCEPT ![p].pc = "refresh", ![p].loaded = TRUE, ![p].seen = FALSE]
  /\ UNCHANGED <<proc, starts, late>>

\* The rest of Worker.load: the row that was seen is taken over, unless it was
\* cleared since; otherwise a row is created.
Join(p) ==
  /\ At(p, "join")
  /\ IF task[p].seen /\ ~rows[p].there
     THEN task' = [task EXCEPT ![p].pc = "refresh", ![p].seen = FALSE] /\ UNCHANGED rows
     ELSE /\ rows' = [rows EXCEPT ![p] = [there |-> TRUE, start |-> task[p].start,
                                          age |-> 0, connected |-> TRUE]]
          /\ task' = [task EXCEPT ![p].pc = "refresh", ![p].loaded = TRUE, ![p].seen = FALSE]
  /\ UNCHANGED <<proc, starts, late>>

\* store.update_worker: an update by pk, which finds nothing once the row is gone
Refresh(p) ==
  /\ At(p, "refresh")
  /\ rows' = IF task[p].loaded /\ rows[p].there
             THEN [rows EXCEPT ![p].age = 0, ![p].connected = TRUE] ELSE rows
  /\ Goto(p, "scan")
  /\ UNCHANGED <<proc, starts, late>>

\* The connected workers whose pid psutil does not find.
Scan(p) ==
  /\ At(p, "scan")
  /\ task' = [task EXCEPT ![p].pc = "disconnect",
                          ![p].dead = {q \in Connected \ {p} : proc[q] = "down"}]
  /\ UNCHANGED <<proc, rows, starts, late>>

\* mutant: only the workers found dead are disconnected
DisconnectDead(p) ==
  /\ At(p, "disconnect")
  /\ rows' = [q \in Pids |-> IF q \in task[p].dead
                             THEN [rows[q] EXCEPT !.connected = FALSE] ELSE rows[q]]
  /\ task' = [task EXCEPT ![p].pc = "elect", ![p].dead = {}]
  /\ UNCHANGED <<proc, starts, late>>

\* The silent ones and those found dead are disconnected, p itself included.
Disconnect(p) ==
  /\ At(p, "disconnect")
  /\ rows' = [q \in Pids |-> IF rows[q].age >= Silence \/ q \in task[p].dead
                             THEN [rows[q] EXCEPT !.connected = FALSE] ELSE rows[q]]
  /\ task' = [task EXCEPT ![p].pc = "elect", ![p].dead = {}]
  /\ UNCHANGED <<proc, starts, late>>

\* order_by("start_time", "pid")
Before(p, q) ==
  \/ rows[p].start < rows[q].start
  \/ rows[p].start = rows[q].start /\ p < q

\* mutant: any connected worker is primary
IsAnyConnected(p) == task[p].loaded /\ p \in Connected

\* is_worker_primary
IsPrimary(p) ==
  /\ task[p].loaded /\ p \in Connected
  /\ \A q \in Connected \ {p} : Before(p, q)

Elect(p) ==
  /\ At(p, "elect")
  /\ Goto(p, IF IsPrimary(p) THEN "work" ELSE "sleep")
  /\ UNCHANGED <<proc, rows, starts, late>>

\* The work of the primary ends with clear(), which deletes the rows that are
\* disconnected and older than worker_retention; a deleted pk never comes back.
Work(p) ==
  /\ At(p, "work")
  /\ LET old == {q \in Pids : /\ rows[q].there /\ ~rows[q].connected
                              /\ rows[q].age >= Retention}
     IN  /\ rows' = [q \in Pids |-> IF q \in old THEN NoRow ELSE rows[q]]
         /\ task' = [q \in Pids |->
              [task[q] EXCEPT !.pc = IF q = p THEN "sleep" ELSE @, !.dead = @ \ old]]
  /\ UNCHANGED <<proc, starts, late>>

\* A query raises: update_workers is caught by handle_func and the cycle goes
\* on with the election; elsewhere, store.setup included, the cycle is over.
Fail(p) ==
  /\ Live(p) /\ task[p].pc # "sleep" /\ late < MaxLate
  /\ late' = late + 1
  /\ \E pc \in IF task[p].pc \in {"scan", "disconnect"} THEN {"elect"}
               ELSE IF task[p].pc = "refresh" THEN {"elect", "sleep"} ELSE {"sleep"} :
       task' = [task EXCEPT ![p].pc = pc, ![p].seen = FALSE, ![p].dead = {}]
  /\ UNCHANGED <<proc, rows, starts>>

-----------------------------------------------------------------------------
Cycle(p) ==
  \/ Wake(p) \/ Join(p) \/ Refresh(p) \/ Scan(p)
  \/ Disconnect(p) \/ Elect(p) \/ Work(p)

Next ==
  \/ \E p \in Pids : Start(p) \/ Reuse(p) \/ Die(p) \/ Cycle(p) \/ Fail(p)
  \/ Tick

Spec == Init /\ [][Next]_vars

\* The task threads are scheduled and time passes; nothing has to start or die.
FairSpec == Spec /\ WF_vars(Tick) /\ \A p \in Pids : WF_vars(Cycle(p))

-----------------------------------------------------------------------------
(* Properties *)

TypeOK ==
  /\ proc \in [Pids -> {"down", "other", "up"}]
  /\ task \in [Pids -> [pc: Phases, start: 0..MaxStarts, loaded: BOOLEAN,
                        ran: BOOLEAN, seen: BOOLEAN, dead: SUBSET Pids]]
  /\ rows \in [Pids -> [there: BOOLEAN, start: 0..MaxStarts,
                        age: 0..Retention, connected: BOOLEAN]]
  /\ starts \in 0..MaxStarts
  /\ late \in 0..MaxLate

\* store.worker is never loaded again, so a worker whose row was cleared stays
\* out of the election for good.
Orphan(p) == Live(p) /\ task[p].loaded /\ ~rows[p].there
Serving   == {p \in Pids : Live(p) /\ ~Orphan(p)}
Working   == {p \in Pids : At(p, "work")}

\* A live worker loses its row only if its updates were late or failed for the
\* whole of worker_retention: neither taking over the row of a dead process nor the race
\* of Worker.load with clear() costs a timely worker its row (models.py:470
\* "update time as soon as Worker.load is triggered").
OrphanOnlyIfLate == \A p \in Pids : Orphan(p) => late + 1 >= Retention

\* The first of the workers S by start time and pid.
Oldest(S) == CHOOSE p \in S : \A q \in S \ {p} :
               \/ task[p].start < task[q].start
               \/ task[p].start = task[q].start /\ p < q

\* When processes stop coming and going and the intervals are kept, the oldest
\* worker that has not lost its row is the primary, for good, and nobody else
\* does the primary's work (worker.py:173-176, 683-691); and the row of a process
\* that is gone is not connected, even if its pid now belongs to another program.
OldestLeads ==
  <>[](Serving # {} => /\ IsPrimary(Oldest(Serving)) /\ Working \subseteq {Oldest(Serving)}
                       /\ \A p \in Connected : Live(p))

\* There is always another cycle of a primary, unless no worker serves.
PrimaryWorks == []<>(Serving = {} \/ Working # {})

\* The election settles on one worker, and that one does the work.
ElectionSettles == OldestLeads /\ PrimaryWorks
=============================================================================
