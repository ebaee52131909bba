---------------------------- MODULE Workers_proof ----------------------------
(***************************************************************************)
(* Proofs about the workers of an instance: the rows of their processes    *)
(* and the primary worker (WorkerPrimary), the counters of their requests  *)
(* (WorkerMetrics), and the alerts that their cycles trigger               *)
(* (AlertIncident).                                                        *)
(***************************************************************************)
EXTENDS WorkerPrimary, WorkerMetrics, AlertIncident, FiniteSetTheorems, WellFoundedInduction, TLAPS
-----------------------------------------------------------------------------
(***************************************************************************)
(* Proofs about WorkerPrimary, for any pids, retention and bounds.         *)
(* OrphanOnlyIfLate is not inductive: it needs that the row of a live      *)
(* worker is never older than the intervals that were late or failed, plus *)
(* the one that is running, and not even that one once the cycle of the    *)
(* interval is past its update (RowFresh).  Then clear() finds the row of  *)
(* a live worker only after a whole retention of late or failed intervals. *)
(***************************************************************************)

USE PrimaryAssumption

RowFresh(p) ==
  Live(p) /\ task[p].loaded /\ rows[p].there =>
    /\ rows[p].age <= late + 1
    /\ task[p].ran /\ task[p].pc \notin {"join", "refresh"} => rows[p].age <= late

WorkerOK(p) ==
  /\ ~Live(p) => ~task[p].loaded
  /\ RowFresh(p)
  /\ Orphan(p) => late + 1 >= Retention

Inv == TypeOK /\ \A p \in Pids : WorkerOK(p)

TaskType == [pc: Phases, start: 0..MaxStarts, loaded: BOOLEAN,
             ran: BOOLEAN, seen: BOOLEAN, dead: SUBSET Pids]
RowType  == [there: BOOLEAN, start: 0..MaxStarts, age: 0..Retention, connected: BOOLEAN]

\* Every variable has its type after every step.
LEMMA TypeInitial == Init => TypeOK
  BY DEF Init, TypeOK, NoTask, NoRow, Phases

\* Each step types the task threads, the rows and the counters.
LEMMA TypeStep == TypeOK /\ [Next]_vars => TypeOK'
<1> SUFFICES ASSUME TypeOK, [Next]_vars PROVE TypeOK'
  OBVIOUS
<1>0. /\ task \in [Pids -> TaskType] /\ rows \in [Pids -> RowType]
      /\ starts \in 0..MaxStarts /\ late \in 0..MaxLate
  BY DEF TypeOK, TaskType, RowType
<1> DEFINE Typed == task' \in [Pids -> TaskType] /\ rows' \in [Pids -> RowType]
<1>1. ASSUME NEW p \in Pids, Start(p) PROVE Typed
  <2>1. PICK s \in {starts, starts + 1} \ {0} : task' = [task EXCEPT ![p].start = s]
    BY <1>1 DEF Start
  <2>2. s \in 0..MaxStarts
    BY <1>0, <1>1 DEF Start
  <2>3. \A t \in TaskType : [t EXCEPT !.start = s] \in TaskType
    BY <2>2 DEF TaskType
  <2> QED BY <1>0, <1>1, <2>1, <2>3 DEF Start
<1>2. ASSUME NEW p \in Pids, Reuse(p) PROVE Typed
  BY <1>0, <1>2 DEF Reuse
<1>3. ASSUME NEW p \in Pids, Die(p) PROVE Typed
  <2>1. NoTask \in TaskType
    BY DEF NoTask, TaskType, Phases
  <2> QED BY <1>0, <1>3, <2>1 DEF Die
<1>4. ASSUME Tick PROVE Typed
  <2>1. \A t \in TaskType : [t EXCEPT !.ran = FALSE] \in TaskType
    BY DEF TaskType
  <2>2. \A r \in RowType : r.age < Retention => [r EXCEPT !.age = @ + 1] \in RowType
    BY DEF RowType
  <2>3. task' \in [Pids -> TaskType]
    BY <1>0, <1>4, <2>1 DEF Tick
  <2>4. rows' \in [Pids -> RowType]
    BY <1>0, <1>4, <2>2 DEF Tick
  <2> QED BY <2>3, <2>4
<1>5. ASSUME NEW p \in Pids, Wake(p) PROVE Typed
  <2>1. \A t \in TaskType, c \in Phases, e \in BOOLEAN :
          [t EXCEPT !.ran = TRUE, !.pc = c, !.seen = e] \in TaskType
    BY DEF TaskType
  <2>2. (~task[p].loaded /\ rows[p].there) \in BOOLEAN
    OBVIOUS
  <2>3. (IF task[p].loaded THEN "refresh" ELSE "join") \in Phases
    BY DEF Phases
  <2> QED BY <1>0, <1>5, <2>1, <2>2, <2>3 DEF Wake
<1>6. ASSUME NEW p \in Pids, Join(p) PROVE Typed
  <2>1. \A t \in TaskType : [t EXCEPT !.pc = "refresh", !.seen = FALSE] \in TaskType
    BY DEF TaskType, Phases
  <2>2. \A t \in TaskType : [t EXCEPT !.pc = "refresh", !.loaded = TRUE, !.seen = FALSE] \in TaskType
    BY DEF TaskType, Phases
  <2>3. [there |-> TRUE, start |-> task[p].start, age |-> 0, connected |-> TRUE] \in RowType
    BY <1>0 DEF TaskType, RowType
  <2>4. CASE task[p].seen /\ ~rows[p].there
    BY <1>0, <1>6, <2>1, <2>4 DEF Join
  <2>5. CASE ~(task[p].seen /\ ~rows[p].there)
    <3>1. task' = [task EXCEPT ![p].pc = "refresh", ![p].loaded = TRUE, ![p].seen = FALSE]
      BY <1>6, <2>5 DEF Join
    <3>2. task' \in [Pids -> TaskType]
      BY <1>0, <2>2, <3>1
    <3>3. rows' \in [Pids -> RowType]
      BY <1>0, <1>6, <2>3, <2>5 DEF Join
    <3> QED BY <3>2, <3>3
  <2> QED BY <2>4, <2>5
<1>7. ASSUME NEW p \in Pids, Refresh(p) PROVE Typed
  <2>1. \A t \in TaskType : [t EXCEPT !.pc = "scan"] \in TaskType
    BY DEF TaskType, Phases
  <2>2. \A r \in RowType : [r EXCEPT !.age = 0, !.connected = TRUE] \in RowType
    <3>1. 0 \in 0..Retention
      OBVIOUS
    <3> QED BY <3>1 DEF RowType
  <2> QED BY <1>0, <1>7, <2>1, <2>2 DEF Refresh, Goto
<1>8. ASSUME NEW p \in Pids, Scan(p) PROVE Typed
  <2>1. \A t \in TaskType, d \in SUBSET Pids : [t EXCEPT !.pc = "disconnect", !.dead = d] \in TaskType
    BY DEF TaskType, Phases
  <2>2. {q \in Connected \ {p} : proc[q] = "down"} \in SUBSET Pids
    BY DEF Connected
  <2> QED BY <1>0, <1>8, <2>1, <2>2 DEF Scan
<1>9. ASSUME NEW p \in Pids, Disconnect(p) PROVE Typed
  <2>1. \A t \in TaskType : [t EXCEPT !.pc = "elect", !.dead = {}] \in TaskType
    BY DEF TaskType, Phases
  <2>2. \A r \in RowType : [r EXCEPT !.connected = FALSE] \in RowType
    BY DEF RowType
  <2> QED BY <1>0, <1>9, <2>1, <2>2 DEF Disconnect
<1>10. ASSUME NEW p \in Pids, Elect(p) PROVE Typed
  <2>1. \A t \in TaskType, c \in Phases : [t EXCEPT !.pc = c] \in TaskType
    BY DEF TaskType
  <2>2. (IF IsPrimary(p) THEN "work" ELSE "sleep") \in Phases
    BY DEF Phases
  <2> QED BY <1>0, <1>10, <2>1, <2>2 DEF Elect, Goto
<1>11. ASSUME NEW p \in Pids, Work(p) PROVE Typed
  <2>1. PICK old \in SUBSET Pids :
          /\ rows' = [q \in Pids |-> IF q \in old THEN NoRow ELSE rows[q]]
          /\ task' = [q \in Pids |->
               [task[q] EXCEPT !.pc = IF q = p THEN "sleep" ELSE @, !.dead = @ \ old]]
    BY <1>11 DEF Work
  <2>2. \A t \in TaskType : \A c \in {"sleep", t.pc} : [t EXCEPT !.pc = c, !.dead = @ \ old] \in TaskType
    BY DEF TaskType, Phases
  <2>3. NoRow \in RowType
    BY DEF NoRow, RowType
  <2> QED BY <1>0, <2>1, <2>2, <2>3
<1>15. ASSUME NEW p \in Pids, Fail(p) PROVE Typed
  <2>1. PICK pc \in {"elect", "sleep"} :
          task' = [task EXCEPT ![p].pc = pc, ![p].seen = FALSE, ![p].dead = {}]
    BY <1>15 DEF Fail
  <2>2. \A t \in TaskType : [t EXCEPT !.pc = pc, !.seen = FALSE, !.dead = {}] \in TaskType
    BY DEF TaskType, Phases
  <2> QED BY <1>0, <1>15, <2>1, <2>2 DEF Fail
<1>12. ASSUME UNCHANGED vars PROVE Typed
  <2>1. task' = task /\ rows' = rows
    BY <1>12 DEF vars
  <2> QED BY <1>0, <2>1
<1> HIDE DEF Typed
<1>13. Typed
  BY <1>1, <1>2, <1>3, <1>4, <1>5, <1>6, <1>7, <1>8, <1>9, <1>10, <1>11, <1>12, <1>15
  DEF Next, Cycle
<1>14. proc' \in [Pids -> {"down", "other", "up"}] /\ starts' \in 0..MaxStarts /\ late' \in 0..MaxLate
  <2>1. ASSUME NEW p \in Pids, Start(p) \/ Reuse(p) \/ Die(p) \/ Fail(p)
      PROVE  /\ proc' \in [Pids -> {"down", "other", "up"}]
             /\ starts' \in 0..MaxStarts /\ late' \in 0..MaxLate
    <3>1. CASE Start(p) \/ Reuse(p)
      BY <3>1 DEF Start, Reuse, TypeOK
    <3>2. CASE Die(p)
      BY <3>2 DEF Die, TypeOK
    <3>3. CASE Fail(p)
      BY <3>3 DEF Fail, TypeOK
    <3> QED BY <2>1, <3>1, <3>2, <3>3
  <2>2. CASE Tick \/ UNCHANGED vars
    BY <2>2 DEF Tick, vars, TypeOK
  <2>3. ASSUME NEW p \in Pids, Cycle(p) PROVE UNCHANGED <<proc, starts, late>>
    BY <2>3 DEF Cycle, Wake, Join, Refresh, Scan, Disconnect, Elect, Work
  <2> QED BY <2>1, <2>2, <2>3 DEF Next, TypeOK
<1> QED
  BY <1>13, <1>14 DEF Typed, TypeOK, TaskType, RowType

\* The workers that do not move: their task and their proc stay.
LEMMA OthersKeep ==
  ASSUME TypeOK, TypeOK', NEW p \in Pids, WorkerOK(p),
         task'[p] = task[p], proc'[p] = proc[p], late' = late, rows'[p] = rows[p]
  PROVE  WorkerOK(p)'
  BY DEF WorkerOK, RowFresh, Orphan, Live

\* A step after the update of the cycle, which moves p only and keeps q's row.
LEMMA LaterKeeps ==
  ASSUME TypeOK, NEW p \in Pids, NEW q \in Pids, WorkerOK(q), NEW pc,
         pc \notin {"join", "refresh"}, task[p].pc \notin {"join", "refresh"},
         task'[q].pc = (IF q = p THEN pc ELSE task[q].pc),
         task'[q].loaded = task[q].loaded, task'[q].ran = task[q].ran,
         proc' = proc, late' = late, rows'[q].age = rows[q].age,
         rows'[q].there = rows[q].there
  PROVE  WorkerOK(q)'
  BY DEF WorkerOK, RowFresh, Orphan, Live

\* What was late enough stays so.
LEMMA LaterIsLater ==
  \A a, b, c \in Nat : a + 1 >= c /\ b >= a => b + 1 >= c
  OBVIOUS

\* Each step keeps WorkerOK of every worker.
LEMMA WorkerStep ==
  ASSUME Inv, [Next]_vars, NEW q \in Pids
  PROVE  WorkerOK(q)'
<1> USE DEF Inv
<1>0. TypeOK /\ TypeOK'
  BY TypeStep
<1>1. ASSUME NEW p \in Pids, Start(p) PROVE WorkerOK(q)'
  <2>1. PICK s \in {starts, starts + 1} \ {0} : task' = [task EXCEPT ![p].start = s]
    BY <1>1 DEF Start
  <2>2. CASE p = q
    <3>1. ~task'[q].loaded
      BY <1>0, <1>1, <2>1, <2>2 DEF Start, WorkerOK, Live, TypeOK
    <3> QED BY <3>1 DEF WorkerOK, RowFresh, Orphan
  <2>3. CASE p # q
    <3>1. task'[q] = task[q] /\ proc'[q] = proc[q] /\ late' = late /\ rows' = rows
      BY <1>0, <1>1, <2>1, <2>3 DEF Start, TypeOK
    <3> QED BY <1>0, <3>1, OthersKeep
  <2> QED BY <2>2, <2>3
<1>2. ASSUME NEW p \in Pids, Reuse(p) PROVE WorkerOK(q)'
  BY <1>0, <1>2 DEF Reuse, WorkerOK, RowFresh, Orphan, Live, TypeOK
<1>3. ASSUME NEW p \in Pids, Die(p) PROVE WorkerOK(q)'
  <2>1. CASE p = q
    BY <1>0, <1>3, <2>1 DEF Die, WorkerOK, RowFresh, Orphan, Live, NoTask, TypeOK
  <2>2. CASE p # q
    BY <1>0, <1>3, <2>2, OthersKeep DEF Die, TypeOK
  <2> QED BY <2>1, <2>2
<1>4. CASE Tick
  <2>1. /\ task'[q].loaded = task[q].loaded /\ task'[q].ran = FALSE
        /\ proc' = proc /\ rows'[q].there = rows[q].there
        /\ late' >= late /\ late' \in Nat /\ late \in Nat
    BY <1>0, <1>4 DEF Tick, TypeOK
  <2>2. rows[q].there => rows'[q].age <= rows[q].age + 1
    BY <1>0, <1>4 DEF Tick, TypeOK
  <2>3. Live(q) /\ task[q].loaded /\ rows[q].there => rows'[q].age <= late' + 1
    <3>1. CASE late' = late + 1
      BY <1>0, <2>2, <3>1 DEF WorkerOK, RowFresh, TypeOK
    <3>2. CASE \A p \in Pids : Live(p) => task[p].pc = "sleep" /\ task[p].ran
      BY <1>0, <2>1, <2>2, <3>2 DEF WorkerOK, RowFresh, TypeOK
    <3> QED BY <1>4, <3>1, <3>2 DEF Tick
  <2>4. Orphan(q)' => late' + 1 >= Retention
    <3> SUFFICES ASSUME Orphan(q)' PROVE late' + 1 >= Retention
      OBVIOUS
    <3>1. Orphan(q)
      BY <2>1 DEF Orphan, Live
    <3>2. late + 1 >= Retention
      BY <3>1 DEF WorkerOK
    <3>3. late \in Nat /\ late' \in Nat /\ late' >= late /\ Retention \in Nat
      BY <2>1
    <3> QED BY <3>2, <3>3, LaterIsLater
  <2> QED BY <2>1, <2>3, <2>4 DEF WorkerOK, RowFresh, Live
<1>5. ASSUME NEW p \in Pids, Wake(p) PROVE WorkerOK(q)'
  <2>1. CASE p = q
    <3>1. task'[q].pc \in {"join", "refresh"} /\ task'[q].loaded = task[q].loaded
      BY <1>0, <1>5, <2>1 DEF Wake, TypeOK
    <3> QED BY <1>0, <1>5, <3>1 DEF Wake, WorkerOK, RowFresh, Orphan, Live
  <2>2. CASE p # q
    BY <1>0, <1>5, <2>2, OthersKeep DEF Wake, TypeOK
  <2> QED BY <2>1, <2>2
<1>6. ASSUME NEW p \in Pids, Join(p) PROVE WorkerOK(q)'
  <2>1. CASE p # q
    BY <1>0, <1>6, <2>1, OthersKeep DEF Join, TypeOK
  <2>2. CASE p = q /\ task[p].seen /\ ~rows[p].there
    <3>1. task'[q].pc = "refresh" /\ task'[q].loaded = task[q].loaded
      BY <1>0, <1>6, <2>2 DEF Join, TypeOK
    <3> QED BY <1>0, <1>6, <2>2, <3>1 DEF Join, At, WorkerOK, RowFresh, Orphan, Live
  <2>3. CASE p = q /\ ~(task[p].seen /\ ~rows[p].there)
    <3>1. rows'[q].there /\ rows'[q].age = 0 /\ proc'[q] = "up" /\ late' \in Nat
      BY <1>0, <1>6, <2>3 DEF Join, At, Live, TypeOK
    <3>2. Live(q)' /\ ~Orphan(q)'
      BY <3>1 DEF Live, Orphan
    <3>3. rows'[q].age <= late' + 1 /\ rows'[q].age <= late'
      <4>1. \A n \in Nat : 0 <= n + 1 /\ 0 <= n
        OBVIOUS
      <4> QED
        BY <3>1, <4>1, Zenon
    <3>4. RowFresh(q)'
      BY <3>3 DEF RowFresh
    <3> QED BY <3>2, <3>4 DEF WorkerOK
  <2> QED BY <2>1, <2>2, <2>3
<1>7. ASSUME NEW p \in Pids, Refresh(p) PROVE WorkerOK(q)'
  <2>1. CASE p # q
    BY <1>0, <1>7, <2>1, OthersKeep DEF Refresh, Goto, TypeOK
  <2>2. CASE p = q
    <3>1. /\ task'[q].loaded = task[q].loaded /\ rows'[q].there = rows[q].there
          /\ proc' = proc /\ late' = late /\ late \in Nat
      BY <1>0, <1>7, <2>2 DEF Refresh, Goto, TypeOK
    <3>2. task[q].loaded /\ rows[q].there => rows'[q].age = 0
      BY <1>0, <1>7, <2>2 DEF Refresh, TypeOK
    <3>3. RowFresh(q)'
      BY <3>1, <3>2 DEF RowFresh, Live
    <3> QED BY <3>1, <3>3 DEF WorkerOK, Orphan, Live
  <2> QED BY <2>1, <2>2
<1>8. ASSUME NEW p \in Pids, Scan(p) PROVE WorkerOK(q)'
  <2>1. PICK d : task' = [task EXCEPT ![p].pc = "disconnect", ![p].dead = d]
    BY <1>8 DEF Scan
  <2>2. /\ task'[q].pc = (IF q = p THEN "disconnect" ELSE task[q].pc)
        /\ task'[q].loaded = task[q].loaded /\ task'[q].ran = task[q].ran
    BY <1>0, <2>1 DEF TypeOK
  <2>3. task[p].pc = "scan" /\ proc' = proc /\ late' = late /\ rows' = rows
    BY <1>8 DEF Scan, At
  <2> QED BY <1>0, <2>2, <2>3, LaterKeeps
<1>9. ASSUME NEW p \in Pids, Disconnect(p) PROVE WorkerOK(q)'
  <2>1. rows'[q].age = rows[q].age /\ rows'[q].there = rows[q].there
    BY <1>0, <1>9 DEF Disconnect, TypeOK
  <2>2. /\ task'[q].pc = (IF q = p THEN "elect" ELSE task[q].pc)
        /\ task'[q].loaded = task[q].loaded /\ task'[q].ran = task[q].ran
    BY <1>0, <1>9 DEF Disconnect, TypeOK
  <2>3. task[p].pc = "disconnect" /\ proc' = proc /\ late' = late
    BY <1>9 DEF Disconnect, At
  <2> QED BY <1>0, <2>1, <2>2, <2>3, LaterKeeps
<1>10. ASSUME NEW p \in Pids, Elect(p) PROVE WorkerOK(q)'
  <2>1. PICK pc \in {"work", "sleep"} : task' = [task EXCEPT ![p].pc = pc]
    BY <1>10 DEF Elect, Goto
  <2>2. /\ task'[q].pc = (IF q = p THEN pc ELSE task[q].pc)
        /\ task'[q].loaded = task[q].loaded /\ task'[q].ran = task[q].ran
    BY <1>0, <2>1 DEF TypeOK
  <2>3. task[p].pc = "elect" /\ proc' = proc /\ late' = late /\ rows' = rows
    BY <1>10 DEF Elect, At
  <2> QED BY <1>0, <2>2, <2>3, LaterKeeps
<1>11. ASSUME NEW p \in Pids, Work(p) PROVE WorkerOK(q)'
  <2>1. /\ task'[q].pc = (IF q = p THEN "sleep" ELSE task[q].pc)
        /\ task'[q].loaded = task[q].loaded /\ task'[q].ran = task[q].ran
        /\ proc' = proc /\ late' = late
    <3>1. PICK old : task'[q] = [task[q] EXCEPT !.pc = IF q = p THEN "sleep" ELSE task[q].pc,
                                                !.dead = task[q].dead \ old]
      BY <1>11 DEF Work
    <3>2. proc' = proc /\ late' = late
      BY <1>11 DEF Work
    <3>3. task[q] \in TaskType
      BY <1>0 DEF TypeOK, TaskType
    <3> QED
      BY <3>1, <3>2, <3>3 DEF TaskType
  <2>2. task[p].pc = "work"
    BY <1>11 DEF Work, At
  <2>3. CASE rows'[q] = rows[q]
    BY <1>0, <2>1, <2>2, <2>3, LaterKeeps
  <2>4. CASE rows[q].there /\ rows[q].age >= Retention /\ ~rows'[q].there
    BY <1>0, <2>1, <2>4 DEF WorkerOK, RowFresh, Orphan, Live, TypeOK
  <2>5. rows'[q] = rows[q] \/ (rows[q].there /\ rows[q].age >= Retention /\ ~rows'[q].there)
    BY <1>11 DEF Work, NoRow
  <2> QED BY <2>3, <2>4, <2>5
<1>12. ASSUME NEW p \in Pids, Fail(p) PROVE WorkerOK(q)'
  <2>1. PICK pc \in {"elect", "sleep"} :
          task' = [task EXCEPT ![p].pc = pc, ![p].seen = FALSE, ![p].dead = {}]
    BY <1>12 DEF Fail
  <2>2. task'[q].loaded = task[q].loaded /\ task'[q].ran = task[q].ran
    BY <1>0, <2>1 DEF TypeOK
  <2>4. proc' = proc /\ rows' = rows /\ late' = late + 1 /\ late \in Nat
    BY <1>0, <1>12 DEF Fail, TypeOK
  <2>5. Live(q) /\ task[q].loaded /\ rows[q].there => rows[q].age <= late' /\ rows[q].age \in Nat
    BY <1>0, <2>4 DEF WorkerOK, RowFresh, TypeOK
  <2>6. RowFresh(q)'
    BY <1>0, <2>2, <2>4, <2>5 DEF RowFresh, Live, TypeOK
  <2>7. Orphan(q)' => late' + 1 >= Retention
    <3> SUFFICES ASSUME Orphan(q)' PROVE late' + 1 >= Retention
      OBVIOUS
    <3>1. Orphan(q)
      BY <2>2, <2>4 DEF Orphan, Live
    <3>2. late + 1 >= Retention
      BY <3>1 DEF WorkerOK
    <3>3. late \in Nat /\ late' \in Nat /\ late' >= late /\ Retention \in Nat
      BY <2>4
    <3> QED BY <3>2, <3>3, LaterIsLater
  <2> QED BY <2>2, <2>4, <2>6, <2>7 DEF WorkerOK, Live
<1>13. CASE UNCHANGED vars
  BY <1>0, <1>13, OthersKeep DEF vars
<1> QED
  BY <1>1, <1>2, <1>3, <1>4, <1>5, <1>6, <1>7, <1>8, <1>9, <1>10, <1>11, <1>12, <1>13
  DEF Next, Cycle

\* The inductive invariant of the worker table.
THEOREM Invariant == Spec => []Inv
<1>1. Init => Inv
  BY TypeInitial DEF Inv, Init, WorkerOK, RowFresh, Orphan, Live, NoTask
<1>2. Inv /\ [Next]_vars => Inv'
  BY TypeStep, WorkerStep DEF Inv
<1> QED BY <1>1, <1>2, PTL DEF Spec

\* Every variable keeps its type, whatever starts, dies or is late.
THEOREM TypeCorrect == Spec => []TypeOK
<1>1. Inv => TypeOK
  BY DEF Inv
<1> QED BY <1>1, Invariant, PTL

\* A live worker loses its row only after a whole retention of late or failed intervals.
THEOREM LateOrphans == Spec => []OrphanOnlyIfLate
<1>1. Inv => OrphanOnlyIfLate
  BY DEF Inv, WorkerOK, OrphanOnlyIfLate
<1> QED BY <1>1, Invariant, PTL

HIDE PrimaryAssumption
-----------------------------------------------------------------------------
(***************************************************************************)
(* Proofs about WorkerMetrics, for any threads and cycles and any number   *)
(* of requests.  CountedOnce is not inductive: a request that was logged   *)
(* may be in the hands of a thread that has not added it, in a counter, in *)
(* those of a cycle that has reset the counter, or in the row.  The        *)
(* invariant accounts for it (Known and Taken): while one cycle saves at a *)
(* time each request is in one of these places at most, and in one at      *)
(* least where nothing was added between a read and its reset.             *)
(***************************************************************************)

USE MetricAssumption

SavePhases == {"idle", "all", "errors", "reset", "resetErrors", "update", "record"}
Adding     == [todo: SUBSET Counted, failed: BOOLEAN, loaded: Nat, half: BOOLEAN]
Saving     == [pc: SavePhases, fetched: Nat, seen: [Counted -> Nat]]

MetricTypeOK ==
  /\ atomicAdd \in BOOLEAN /\ overlapped \in BOOLEAN /\ disturbed \in BOOLEAN
  /\ begun \in Nat /\ unsaved \in Nat /\ charted \in Nat
  /\ counter \in [Counted -> Nat] /\ total \in [Counted -> Nat] /\ requests \in [Counted -> Nat]
  /\ adding \in [Servants -> Adding] /\ saving \in [Savers -> Saving]

\* The threads whose addition to a counter is still to come.
Waiting(f) == {t \in Servants : f \in adding[t].todo /\ Adds(t, f) = 1}

Saves(s) == saving[s].pc # "idle"

\* What a cycle has taken out of a counter and not put into the row yet.
Taken(s, f) == IF saving[s].pc \in (IF f = "all" THEN {"resetErrors", "update"} ELSE {"update"})
               THEN saving[s].seen[f] ELSE 0

\* What the row, the counter and the threads account for.
Known(f) == total[f] + counter[f] + Cardinality(Waiting(f))

OneSaves == ~overlapped => \A s, r \in Savers : Saves(s) /\ Saves(r) => s = r

NoneTwice ==
  atomicAdd /\ ~overlapped =>
    /\ \A f \in Counted : Known(f) <= requests[f]
    /\ \A s \in Savers, f \in Counted :
         /\ Known(f) + Taken(s, f) <= requests[f]
         /\ Closing(s, f) => saving[s].seen[f] <= counter[f]
    /\ charted <= total["all"]
    /\ \A s \in Savers :
         /\ saving[s].pc = "all" => saving[s].fetched <= counter["all"]
         /\ saving[s].pc \in {"errors", "reset", "resetErrors", "update"} =>
              saving[s].fetched <= saving[s].seen["all"]
         /\ saving[s].pc = "record" => charted + saving[s].fetched <= total["all"]

NoneMissing ==
  ~overlapped /\ ~disturbed /\ unsaved = 0 =>
    /\ (\A s \in Savers : ~Saves(s)) => \A f \in Counted : Known(f) = requests[f]
    /\ \A s \in Savers, f \in Counted :
         /\ Saves(s) => Known(f) + Taken(s, f) = requests[f]
         /\ Closing(s, f) => saving[s].seen[f] = counter[f]

MetricInv == MetricTypeOK /\ OneSaves /\ NoneTwice /\ NoneMissing

\* The threads that wait are counted in numbers.
LEMMA WaitingIs == ASSUME NEW f PROVE IsFiniteSet(Waiting(f)) /\ Cardinality(Waiting(f)) \in Nat
  <1>1. IsFiniteSet(Waiting(f))
    BY FS_Subset DEF Waiting
  <1> QED
    BY <1>1, FS_CardinalityType

\* One thread more or less.
LEMMA OneWaits ==
  ASSUME NEW S, IsFiniteSet(S), NEW t
  PROVE  /\ t \notin S => Cardinality(S \cup {t}) = Cardinality(S) + 1
         /\ t \in S => Cardinality(S \ {t}) = Cardinality(S) - 1
  BY FS_AddElement, FS_RemoveElement

\* The types hold when the worker starts.
LEMMA MetricInitType == MetricInit => MetricTypeOK
  <1> SUFFICES ASSUME MetricInit PROVE MetricTypeOK
    OBVIOUS
  <1>1. Zero \in [Counted -> Nat]
    BY DEF Zero
  <1>2. Resting \in Saving
    BY <1>1 DEF Resting, Saving, SavePhases
  <1>3. saving \in [Savers -> Saving]
    BY <1>2 DEF MetricInit
  <1>4. adding \in [Servants -> Adding]
    BY DEF MetricInit, Adding
  <1> QED
    BY <1>1, <1>3, <1>4 DEF MetricInit, MetricTypeOK

\* Nothing is counted, and nothing has been logged.
LEMMA MetricInitInv == MetricInit => MetricInv
  <1> SUFFICES ASSUME MetricInit PROVE MetricInv
    OBVIOUS
  <1>1. MetricTypeOK
    BY MetricInitType
  <1>2. \A f \in Counted : Waiting(f) = {}
    BY DEF MetricInit, Waiting
  <1>3. \A f \in Counted : Known(f) = 0 /\ requests[f] = 0
    BY <1>2, FS_EmptySet DEF Known, MetricInit, Zero
  <1>4. \A s \in Savers : saving[s].pc = "idle"
    BY DEF MetricInit, Resting
  <1>5. charted = 0 /\ total["all"] = 0
    BY DEF MetricInit, Zero, Counted
  <1>6. \A s \in Savers, f \in Counted : Taken(s, f) = 0 /\ ~Closing(s, f) /\ ~Saves(s)
    BY <1>4 DEF Taken, Closing, Saves
  <1>7. OneSaves
    BY <1>4 DEF OneSaves, Saves
  <1>8. NoneTwice
    BY <1>3, <1>4, <1>5, <1>6 DEF NoneTwice
  <1>9. NoneMissing
    BY <1>3, <1>6 DEF NoneMissing
  <1> QED
    BY <1>1, <1>7, <1>8, <1>9 DEF MetricInv

\* The counters a thread adds to next.
LEMMA NextIs ==
  ASSUME MetricTypeOK, NEW t \in Servants, adding[t].todo # {}
  PROVE  NextOf(t) \in Counted /\ NextOf(t) \in adding[t].todo
  BY DEF MetricTypeOK, Adding, NextOf, Counted

\* A request waits to be counted: as many more wait as there are requests more.
LEMMA CountWaits ==
  ASSUME MetricTypeOK, NEW t \in Servants, NEW failed \in BOOLEAN, CountRequest(t, failed), NEW f \in Counted
  PROVE  Known(f)' = Known(f) + (requests'[f] - requests[f])
  <1>1. /\ adding[t].todo = {} /\ UNCHANGED <<total, counter>>
        /\ adding' = [adding EXCEPT ![t].todo = Counted, ![t].failed = failed]
        /\ requests' = [g \in Counted |-> IF g = "all" \/ failed THEN requests[g] + 1 ELSE requests[g]]
    BY DEF CountRequest
  <1>2. adding \in [Servants -> Adding] /\ requests[f] \in Nat /\ total[f] \in Nat /\ counter[f] \in Nat
    BY DEF MetricTypeOK
  <1>3. /\ adding'[t].todo = Counted /\ adding'[t].failed = failed
        /\ \A u \in Servants \ {t} : adding'[u] = adding[u]
    BY <1>1, <1>2 DEF Adding
  <1>4. t \notin Waiting(f)
    BY <1>1 DEF Waiting
  <1>5. CASE f = "all" \/ failed
    <2>1. Waiting(f)' = Waiting(f) \cup {t}
      BY <1>3, <1>5 DEF Waiting, Adds
    <2>2. Cardinality(Waiting(f)') = Cardinality(Waiting(f)) + 1
      BY <1>4, <2>1, WaitingIs, OneWaits
    <2> QED
      BY <1>1, <1>2, <1>5, <2>2, WaitingIs DEF Known
  <1>6. CASE ~(f = "all" \/ failed)
    <2>1. Waiting(f)' = Waiting(f)
      BY <1>3, <1>4, <1>6 DEF Waiting, Adds
    <2> QED
      BY <1>1, <1>2, <1>6, <2>1, WaitingIs DEF Known
  <1> QED
    BY <1>5, <1>6

\* What a step of the threads leaves of the cycles.
LEMMA CyclesStay ==
  ASSUME UNCHANGED saving
  PROVE  \A s \in Savers, f \in Counted :
           /\ Taken(s, f)' = Taken(s, f) /\ Closing(s, f)' = Closing(s, f) /\ Saves(s)' = Saves(s)
  BY DEF Taken, Closing, Saves

\* A request is logged: one more is to be counted, and one more waits.
LEMMA CountInv ==
  ASSUME MetricInv, NEW t \in Servants, NEW failed \in BOOLEAN, CountRequest(t, failed)
  PROVE  MetricInv'
  <1>1. /\ UNCHANGED <<atomicAdd, begun, counter, saving, total, charted, overlapped, disturbed, unsaved>>
        /\ adding' = [adding EXCEPT ![t].todo = Counted, ![t].failed = failed]
        /\ requests' = [g \in Counted |-> IF g = "all" \/ failed THEN requests[g] + 1 ELSE requests[g]]
    BY DEF CountRequest
  <1>2. MetricTypeOK
    BY DEF MetricInv
  <1>3. MetricTypeOK'
    <2>1. adding' \in [Servants -> Adding]
      <3> DEFINE row == [adding[t] EXCEPT !.todo = Counted, !.failed = failed]
      <3>1. adding \in [Servants -> Adding]
        BY <1>2 DEF MetricTypeOK, Adding
      <3>2. adding' = [adding EXCEPT ![t] = row]
        BY <1>1, <3>1
      <3>3. row \in Adding
        <4>1. adding[t] \in Adding
          BY <3>1
        <4> QED
          BY <4>1 DEF Adding
      <3> HIDE DEF row
      <3> QED
        BY <3>1, <3>2, <3>3
    <2>2. requests' \in [Counted -> Nat]
      BY <1>1, <1>2 DEF MetricTypeOK
    <2> QED
      BY <1>1, <1>2, <2>1, <2>2 DEF MetricTypeOK
  <1>4. \A f \in Counted : Known(f)' = Known(f) + (requests'[f] - requests[f])
    BY <1>2, CountWaits
  <1>5. \A f \in Counted : /\ Known(f) \in Nat /\ requests[f] \in Nat /\ requests'[f] \in Nat
                           /\ \A s \in Savers : Taken(s, f) \in Nat
    BY <1>2, <1>3, WaitingIs DEF MetricTypeOK, Known, Taken, Saving
  <1>6. OneSaves'
    BY <1>1 DEF MetricInv, OneSaves, Saves
  <1>7. NoneTwice'
    <2> SUFFICES ASSUME atomicAdd, ~overlapped PROVE NoneTwice'
      BY <1>1 DEF NoneTwice
    <2>1. NoneTwice
      BY DEF MetricInv
    <2>2. ASSUME NEW f \in Counted
          PROVE  /\ Known(f)' <= requests'[f]
                 /\ \A s \in Savers : Known(f)' + Taken(s, f)' <= requests'[f]
      <3>1. Known(f) <= requests[f] /\ \A s \in Savers : Known(f) + Taken(s, f) <= requests[f]
        BY <2>1 DEF NoneTwice
      <3> QED
        BY <1>1, <1>4, <1>5, <3>1, CyclesStay
    <2> QED
      BY <1>1, <2>1, <2>2, CyclesStay DEF NoneTwice
  <1>8. NoneMissing'
    <2> SUFFICES ASSUME ~overlapped, ~disturbed, unsaved = 0 PROVE NoneMissing'
      BY <1>1 DEF NoneMissing
    <2>1. NoneMissing
      BY DEF MetricInv
    <2>2. ASSUME NEW f \in Counted
          PROVE  /\ (\A s \in Savers : ~Saves(s)') => Known(f)' = requests'[f]
                 /\ \A s \in Savers : Saves(s)' => Known(f)' + Taken(s, f)' = requests'[f]
      <3>1. /\ (\A s \in Savers : ~Saves(s)) => Known(f) = requests[f]
            /\ \A s \in Savers : Saves(s) => Known(f) + Taken(s, f) = requests[f]
        BY <2>1 DEF NoneMissing
      <3> QED
        BY <1>1, <1>4, <1>5, <3>1, CyclesStay
    <2> QED
      BY <1>1, <2>1, <2>2, CyclesStay DEF NoneMissing
  <1> QED
    BY <1>3, <1>6, <1>7, <1>8 DEF MetricInv

\* The first half of an addition changes nothing that is counted.
LEMMA LoadInv ==
  ASSUME MetricInv, NEW t \in Servants, LoadCounter(t)
  PROVE  MetricInv'
  <1>1. /\ UNCHANGED <<atomicAdd, begun, counter, saving, total, charted, requests,
                       overlapped, disturbed, unsaved>>
        /\ adding' = [adding EXCEPT ![t].loaded = counter[NextOf(t)], ![t].half = TRUE]
        /\ adding[t].todo # {}
    BY DEF LoadCounter
  <1>2. MetricTypeOK /\ OneSaves /\ NoneTwice /\ NoneMissing
    BY DEF MetricInv
  <1>3. counter[NextOf(t)] \in Nat
    BY <1>1, <1>2, NextIs DEF MetricTypeOK
  <1> DEFINE loaded == counter[NextOf(t)]
             next == [adding[t] EXCEPT !.loaded = loaded, !.half = TRUE]
  <1>4. adding' = [adding EXCEPT ![t] = next]
    BY <1>1
  <1> HIDE DEF loaded
  <1>5. next \in Adding /\ next.todo = adding[t].todo /\ next.failed = adding[t].failed
    BY <1>2, <1>3 DEF MetricTypeOK, Adding, loaded
  <1> HIDE DEF next
  <1>6. /\ adding' \in [Servants -> Adding]
        /\ \A u \in Servants : adding'[u].todo = adding[u].todo /\ adding'[u].failed = adding[u].failed
    BY <1>2, <1>4, <1>5 DEF MetricTypeOK
  <1>7. MetricTypeOK'
    BY <1>1, <1>2, <1>6 DEF MetricTypeOK
  <1>8. ASSUME NEW f PROVE Known(f)' = Known(f)
    <2>1. Waiting(f)' = Waiting(f)
      BY <1>6 DEF Waiting, Adds
    <2> QED
      BY <1>1, <2>1 DEF Known
  <1>9. OneSaves'
    BY <1>1, <1>2 DEF OneSaves, Saves
  <1>10. NoneTwice'
    BY <1>1, <1>2, <1>8, CyclesStay DEF NoneTwice
  <1>11. NoneMissing'
    BY <1>1, <1>2, <1>8, CyclesStay DEF NoneMissing
  <1> QED
    BY <1>7, <1>9, <1>10, <1>11 DEF MetricInv

\* An addition that is not interrupted: what waited is in the counter.
LEMMA StoreWaits ==
  ASSUME MetricTypeOK, NEW t \in Servants, StoreCounter(t),
         atomicAdd \/ adding[t].loaded = counter[NextOf(t)]
  PROVE  /\ \A f \in Counted : Known(f)' = Known(f)
         /\ \A f \in Counted : counter'[f] = counter[f] + IF f = NextOf(t) THEN Adds(t, f) ELSE 0
  <1> DEFINE g == NextOf(t)
             next == [adding[t] EXCEPT !.todo = adding[t].todo \ {g}, !.loaded = 0, !.half = FALSE]
  <1>1. g \in Counted /\ g \in adding[t].todo
    BY NextIs DEF StoreCounter
  <1>2. /\ counter' = [counter EXCEPT ![g] = counter[g] + Adds(t, g)]
        /\ adding' = [adding EXCEPT ![t] = next] /\ UNCHANGED total
    BY DEF StoreCounter
  <1>3. /\ adding[t] \in Adding /\ adding \in [Servants -> Adding]
        /\ counter \in [Counted -> Nat] /\ total \in [Counted -> Nat] /\ Adds(t, g) \in {0, 1}
    BY DEF MetricTypeOK, Adds
  <1> HIDE DEF g
  <1>4. next.todo = adding[t].todo \ {g} /\ next.failed = adding[t].failed
    BY <1>3 DEF Adding
  <1> HIDE DEF next
  <1>5. /\ adding'[t].todo = adding[t].todo \ {g} /\ adding'[t].failed = adding[t].failed
        /\ \A u \in Servants \ {t} : adding'[u] = adding[u]
    BY <1>2, <1>3, <1>4
  <1>6. ASSUME NEW f \in Counted
        PROVE  /\ Known(f)' = Known(f)
               /\ counter'[f] = counter[f] + IF f = g THEN Adds(t, f) ELSE 0
    <2>1. CASE f # g
      <3>1. Waiting(f)' = Waiting(f)
        BY <1>5, <2>1 DEF Waiting, Adds
      <3>2. counter'[f] = counter[f] /\ counter[f] \in Nat
        BY <1>2, <1>3, <2>1
      <3> QED
        BY <1>2, <2>1, <3>1, <3>2 DEF Known
    <2>2. CASE f = g /\ Adds(t, g) = 0
      <3>1. Waiting(f)' = Waiting(f)
        BY <1>5, <2>2 DEF Waiting, Adds
      <3>2. counter'[f] = counter[f] /\ counter[f] \in Nat
        BY <1>2, <1>3, <2>2
      <3> QED
        BY <1>2, <2>2, <3>1, <3>2 DEF Known
    <2>3. CASE f = g /\ Adds(t, g) = 1
      <3>1. Waiting(f)' = Waiting(f) \ {t} /\ t \in Waiting(f)
        BY <1>1, <1>5, <2>3 DEF Waiting, Adds
      <3>2. Cardinality(Waiting(f)') = Cardinality(Waiting(f)) - 1
        BY <3>1, WaitingIs, OneWaits
      <3>3. counter'[f] = counter[f] + 1 /\ counter[f] \in Nat /\ total[f] \in Nat
        BY <1>2, <1>3, <2>3
      <3> QED
        BY <1>2, <2>3, <3>2, <3>3, WaitingIs DEF Known
    <2> QED
      BY <1>3, <2>1, <2>2, <2>3
  <1> QED
    BY <1>6 DEF g

\* An addition moves a request from those that wait into the counter, or was interrupted.
LEMMA StoreInv ==
  ASSUME MetricInv, NEW t \in Servants, StoreCounter(t)
  PROVE  MetricInv'
  <1> DEFINE g == NextOf(t)
             from == IF atomicAdd THEN counter[g] ELSE adding[t].loaded
             sum == from + Adds(t, g)
             next == [adding[t] EXCEPT !.todo = adding[t].todo \ {g}, !.loaded = 0, !.half = FALSE]
  <1>1. /\ UNCHANGED <<atomicAdd, begun, saving, total, charted, requests, overlapped, unsaved>>
        /\ counter' = [counter EXCEPT ![g] = sum]
        /\ adding' = [adding EXCEPT ![t] = next]
        /\ disturbed' = (\/ disturbed \/ from # counter[g]
                         \/ Adds(t, g) > 0 /\ \E s \in Savers : Closing(s, g))
    BY DEF StoreCounter
  <1>2. MetricTypeOK /\ OneSaves /\ NoneTwice /\ NoneMissing
    BY DEF MetricInv
  <1>3. g \in Counted
    BY <1>2, NextIs DEF StoreCounter
  <1>4. MetricTypeOK'
    <2>1. adding[t] \in Adding /\ counter \in [Counted -> Nat] /\ from \in Nat /\ sum \in Nat
      BY <1>2, <1>3 DEF MetricTypeOK, Adding, Adds
    <2> HIDE DEF g, from, sum
    <2>2. next \in Adding
      BY <2>1 DEF Adding
    <2> HIDE DEF next
    <2> QED
      BY <1>1, <1>2, <2>1, <2>2 DEF MetricTypeOK
  <1>5. OneSaves'
    BY <1>1, <1>2 DEF OneSaves, Saves
  <1>6. ASSUME atomicAdd \/ adding[t].loaded = counter[g]
        PROVE  \A f \in Counted : /\ Known(f)' = Known(f) /\ counter[f] \in Nat /\ Adds(t, f) \in Nat
                                  /\ counter'[f] = counter[f] + IF f = g THEN Adds(t, f) ELSE 0
    BY <1>2, <1>6, StoreWaits DEF MetricTypeOK, Adds
  <1>7. NoneTwice'
    <2> SUFFICES ASSUME atomicAdd, ~overlapped PROVE NoneTwice'
      BY <1>1 DEF NoneTwice
    <2>1. \A f \in Counted : Known(f)' = Known(f) /\ counter'[f] >= counter[f]
                            /\ counter[f] \in Nat /\ counter'[f] \in Nat
      BY <1>2, <1>4, <1>6 DEF MetricTypeOK
    <2>2. ASSUME NEW s \in Savers, NEW f \in Counted
          PROVE  /\ Known(f)' + Taken(s, f)' <= requests'[f]
                 /\ Closing(s, f)' => saving'[s].seen[f] <= counter'[f]
      <3>1. Closing(s, f) => saving[s].seen[f] <= counter[f]
        BY <1>2 DEF NoneTwice
      <3>2. saving[s].seen[f] \in Nat
        BY <1>2 DEF MetricTypeOK, Saving
      <3>3. Known(f) + Taken(s, f) <= requests[f]
        BY <1>2 DEF NoneTwice
      <3> QED
        BY <1>1, <2>1, <3>1, <3>2, <3>3, CyclesStay
    <2>3. ASSUME NEW s \in Savers, saving'[s].pc = "all" PROVE saving'[s].fetched <= counter'["all"]
      <3>1. saving[s].fetched <= counter["all"] /\ saving[s].fetched \in Nat
        BY <1>1, <1>2, <2>3 DEF NoneTwice, MetricTypeOK, Saving
      <3>2. "all" \in Counted
        BY DEF Counted
      <3> QED
        BY <1>1, <2>1, <3>1, <3>2
    <2>4. \A f \in Counted : Known(f)' <= requests'[f]
      BY <1>1, <1>2, <2>1 DEF NoneTwice
    <2> QED
      BY <1>1, <1>2, <2>2, <2>3, <2>4 DEF NoneTwice
  <1>8. NoneMissing'
    <2> SUFFICES ASSUME ~overlapped, ~disturbed', unsaved = 0 PROVE NoneMissing'
      BY <1>1 DEF NoneMissing
    <2>1. /\ atomicAdd \/ adding[t].loaded = counter[g] 
          /\ ~disturbed /\ (Adds(t, g) > 0 => \A s \in Savers : ~Closing(s, g))
      BY <1>1
    <2>2. \A f \in Counted : Known(f)' = Known(f)
      BY <1>6, <2>1
    <2>3. ASSUME NEW s \in Savers, NEW f \in Counted, Closing(s, f)'
          PROVE  saving'[s].seen[f] = counter'[f]
      <3>1. Closing(s, f) /\ saving[s].seen[f] = counter[f]
        BY <1>1, <1>2, <2>1, <2>3, CyclesStay DEF NoneMissing
      <3>2. f = g => Adds(t, f) = 0
        BY <2>1, <3>1 DEF Adds
      <3>3. counter'[f] = counter[f]
        BY <1>6, <2>1, <3>2
      <3> QED
        BY <1>1, <3>1, <3>3
    <2> QED
      BY <1>1, <1>2, <2>1, <2>2, <2>3, CyclesStay DEF NoneMissing
  <1> QED
    BY <1>4, <1>5, <1>7, <1>8 DEF MetricInv
-----------------------------------------------------------------------------
(* The steps of a cycle, while it is the only one *)

\* The claims about one cycle.
NoneTwiceBy(s) ==
  /\ \A f \in Counted : /\ Known(f) + Taken(s, f) <= requests[f]
                        /\ Closing(s, f) => saving[s].seen[f] <= counter[f]
  /\ charted <= total["all"]
  /\ saving[s].pc = "all" => saving[s].fetched <= counter["all"]
  /\ saving[s].pc \in {"errors", "reset", "resetErrors", "update"} =>
       saving[s].fetched <= saving[s].seen["all"]
  /\ saving[s].pc = "record" => charted + saving[s].fetched <= total["all"]

NoneMissingBy(s) ==
  \A f \in Counted : /\ Known(f) + Taken(s, f) = requests[f]
                     /\ Closing(s, f) => saving[s].seen[f] = counter[f]

\* A cycle that rests has taken nothing.
LEMMA RestsAfter ==
  ASSUME MetricTypeOK', NEW f \in Counted, NEW r \in Savers
  PROVE  /\ Known(f)' \in Nat /\ Taken(r, f)' \in Nat /\ requests'[f] \in Nat
         /\ saving'[r].pc = "idle" => Taken(r, f)' = 0 /\ ~Closing(r, f)' /\ ~Saves(r)'
  <1>1. Waiting(f)' \subseteq Servants
    BY DEF Waiting
  <1>2. Cardinality(Waiting(f)') \in Nat
    BY <1>1, FS_Subset, FS_CardinalityType
  <1>3. total'[f] \in Nat /\ counter'[f] \in Nat /\ requests'[f] \in Nat /\ saving'[r].seen[f] \in Nat
    BY DEF MetricTypeOK, Saving
  <1> QED
    BY <1>2, <1>3 DEF Known, Taken, Closing, Saves

\* The claims about all cycles are those about the one that saves.
LEMMA ByOneSaver ==
  ASSUME MetricTypeOK', NEW s \in Savers, \A r \in Savers \ {s} : saving'[r].pc = "idle"
  PROVE  (NoneTwiceBy(s)' => NoneTwice') /\ (NoneMissingBy(s)' => NoneMissing')
  <1>0. \A f \in Counted, r \in Savers :
          /\ Known(f)' \in Nat /\ Taken(r, f)' \in Nat /\ requests'[f] \in Nat
          /\ saving'[r].pc = "idle" => Taken(r, f)' = 0 /\ ~Closing(r, f)' /\ ~Saves(r)'
    BY RestsAfter
  <1>1. ASSUME NoneTwiceBy(s)' PROVE NoneTwice'
    <2>1. \A f \in Counted : Known(f)' <= requests'[f]
      <3>1. ASSUME NEW f \in Counted PROVE Known(f)' <= requests'[f]
        <4>1. Known(f)' + Taken(s, f)' <= requests'[f]
          BY <1>1 DEF NoneTwiceBy
        <4> QED
          BY <4>1, <1>0
      <3> QED
        BY <3>1
    <2>2. ASSUME NEW r \in Savers \ {s}, NEW f \in Counted
          PROVE  Known(f)' + Taken(r, f)' <= requests'[f] /\ ~Closing(r, f)'
      BY <2>1, <1>0
    <2> QED
      BY <1>1, <2>1, <2>2 DEF NoneTwice, NoneTwiceBy
  <1>2. ASSUME NoneMissingBy(s)' PROVE NoneMissing'
    <2>1. ASSUME saving'[s].pc = "idle", NEW f \in Counted PROVE Known(f)' = requests'[f]
      <3>1. Known(f)' + Taken(s, f)' = requests'[f]
        BY <1>2 DEF NoneMissingBy
      <3> QED
        BY <2>1, <3>1, <1>0
    <2>2. \A r \in Savers \ {s} : ~Saves(r)' /\ \A f \in Counted : ~Closing(r, f)'
      BY DEF Saves, Closing, Counted
    <2> QED
      BY <1>2, <2>1, <2>2 DEF NoneMissing, NoneMissingBy, Saves
  <1> QED
    BY <1>1, <1>2

\* A cycle that goes on to another step, with what it has read.
LEMMA SaverMoves ==
  ASSUME MetricTypeOK, NEW s \in Savers, NEW pc \in SavePhases, saving' = [saving EXCEPT ![s].pc = pc]
  PROVE  /\ saving' \in [Savers -> Saving]
         /\ saving'[s].pc = pc /\ saving'[s].seen = saving[s].seen /\ saving'[s].fetched = saving[s].fetched
         /\ \A r \in Savers \ {s} : saving'[r] = saving[r]
  <1>1. saving \in [Savers -> Saving] /\ saving[s] \in Saving
    BY DEF MetricTypeOK
  <1> DEFINE next == [saving[s] EXCEPT !.pc = pc]
  <1>2. saving' = [saving EXCEPT ![s] = next]
    BY <1>1
  <1>3. next \in Saving /\ next.pc = pc /\ next.seen = saving[s].seen /\ next.fetched = saving[s].fetched
    BY <1>1 DEF Saving
  <1> HIDE DEF next
  <1> QED
    BY <1>1, <1>2, <1>3

\* While one saves the others rest.
LEMMA OthersRest ==
  ASSUME MetricInv, NEW s \in Savers, Saves(s), ~overlapped
  PROVE  \A r \in Savers \ {s} : saving[r].pc = "idle"
  BY DEF MetricInv, OneSaves, Saves

\* A step of the one that saves keeps it the only one.
LEMMA StaysAlone ==
  ASSUME MetricInv, NEW s \in Savers, Saves(s), UNCHANGED overlapped,
         \A r \in Savers \ {s} : saving'[r] = saving[r]
  PROVE  OneSaves'
  BY OthersRest DEF OneSaves, Saves

\* The threads are where they were.
LEMMA KnownIs ==
  ASSUME UNCHANGED adding, NEW f
  PROVE  Known(f)' = total'[f] + counter'[f] + Cardinality(Waiting(f))
  <1>1. Waiting(f)' = Waiting(f)
    BY DEF Waiting, Adds
  <1> QED
    BY <1>1 DEF Known

\* A cycle begins, and overlaps another or is the only one.
LEMMA FetchInv ==
  ASSUME MetricInv, NEW s \in Savers, FetchMetrics(s)
  PROVE  MetricInv'
  <1> DEFINE next == [Resting EXCEPT !.pc = "all", !.fetched = counter["all"]]
  <1>1. /\ UNCHANGED <<atomicAdd, counter, adding, total, charted, requests, disturbed, unsaved>>
        /\ saving[s].pc = "idle" /\ begun' = begun + 1
        /\ saving' = [saving EXCEPT ![s] = next]
        /\ overlapped' = (overlapped \/ \E other \in Savers \ {s} : saving[other].pc # "idle")
    BY DEF FetchMetrics
  <1>2. MetricTypeOK /\ OneSaves /\ NoneTwice /\ NoneMissing
    BY DEF MetricInv
  <1>3. /\ next \in Saving /\ next.pc = "all" /\ next.fetched = counter["all"]
    <2>1. Zero \in [Counted -> Nat] /\ counter["all"] \in Nat
      BY <1>2 DEF Zero, Counted, MetricTypeOK
    <2> QED
      BY <2>1 DEF Resting, Saving, SavePhases
  <1> HIDE DEF next
  <1>4. /\ saving' \in [Savers -> Saving] /\ saving'[s] = next
        /\ \A r \in Savers \ {s} : saving'[r] = saving[r]
    BY <1>1, <1>2, <1>3 DEF MetricTypeOK
  <1>5. MetricTypeOK'
    BY <1>1, <1>2, <1>4 DEF MetricTypeOK
  <1>6. ~overlapped' => ~overlapped /\ \A r \in Savers : saving[r].pc = "idle"
    BY <1>1
  <1>7. OneSaves'
    BY <1>4, <1>6 DEF OneSaves, Saves
  <1>8. \A f \in Counted : Known(f)' = Known(f)
    BY <1>1, KnownIs DEF Known
  <1>9. \A f \in Counted : Taken(s, f)' = 0 /\ ~Closing(s, f)'
    BY <1>3, <1>4 DEF Taken, Closing
  <1>10. \A f \in Counted : Known(f) \in Nat /\ requests[f] \in Nat
    BY <1>2, WaitingIs DEF Known, MetricTypeOK
  <1>11. ASSUME ~overlapped' PROVE \A r \in Savers \ {s} : saving'[r].pc = "idle"
    BY <1>4, <1>6, <1>11
  <1>12. NoneTwice'
    <2> SUFFICES ASSUME atomicAdd, ~overlapped' PROVE NoneTwice'
      BY <1>1 DEF NoneTwice
    <2>1. \A f \in Counted : Known(f) <= requests[f]
      BY <1>2, <1>6 DEF NoneTwice
    <2>2. \A f \in Counted : Known(f)' + Taken(s, f)' <= requests'[f]
      BY <1>1, <1>8, <1>9, <1>10, <2>1
    <2>3. charted' <= total'["all"]
      BY <1>1, <1>2, <1>6 DEF NoneTwice
    <2>4. saving'[s].pc = "all" /\ saving'[s].fetched <= counter'["all"]
      <3>1. counter["all"] \in Nat
        BY <1>2 DEF MetricTypeOK, Counted
      <3> QED
        BY <1>1, <1>3, <1>4, <3>1
    <2>5. NoneTwiceBy(s)'
      BY <1>9, <2>2, <2>3, <2>4 DEF NoneTwiceBy
    <2> QED
      BY <1>5, <1>11, <2>5, ByOneSaver
  <1>13. NoneMissing'
    <2> SUFFICES ASSUME ~overlapped', ~disturbed, unsaved = 0 PROVE NoneMissing'
      BY <1>1 DEF NoneMissing
    <2>1. \A f \in Counted : Known(f) = requests[f]
      BY <1>2, <1>6 DEF NoneMissing, Saves
    <2>2. \A f \in Counted : Known(f)' + Taken(s, f)' = requests'[f]
      BY <1>1, <1>8, <1>9, <1>10, <2>1
    <2>3. NoneMissingBy(s)'
      BY <1>9, <2>2 DEF NoneMissingBy
    <2> QED
      BY <1>5, <1>11, <2>3, ByOneSaver
  <1> QED
    BY <1>5, <1>7, <1>12, <1>13 DEF MetricInv

\* What a cycle reads is what the counter holds, until a thread adds to it.
LEMMA RetrieveInv ==
  ASSUME MetricInv, NEW s \in Savers, NEW g \in Counted, RetrieveMetric(s, g)
  PROVE  MetricInv'
  <1> DEFINE pc == IF g = "all" THEN "errors" ELSE "reset"
             seen == [saving[s].seen EXCEPT ![g] = counter[g]]
             next == [saving[s] EXCEPT !.seen = seen, !.pc = pc]
  <1>1. /\ UNCHANGED <<atomicAdd, begun, counter, adding, total, charted, requests,
                       overlapped, disturbed, unsaved>>
        /\ saving[s].pc = g
    BY DEF RetrieveMetric
  <1>2. MetricTypeOK /\ OneSaves /\ NoneTwice /\ NoneMissing
    BY DEF MetricInv
  <1>3. saving' = [saving EXCEPT ![s] = next]
    BY <1>2 DEF RetrieveMetric, MetricTypeOK, Saving
  <1>4. saving[s] \in Saving /\ counter \in [Counted -> Nat] /\ saving \in [Savers -> Saving]
    BY <1>2 DEF MetricTypeOK
  <1>5. /\ seen \in [Counted -> Nat] /\ seen[g] = counter[g]
        /\ \A f \in Counted \ {g} : seen[f] = saving[s].seen[f]
    BY <1>4 DEF Saving
  <1>6. pc \in SavePhases /\ pc # "idle"
    BY DEF SavePhases
  <1> HIDE DEF seen, pc
  <1>7. next \in Saving /\ next.pc = pc /\ next.seen = seen /\ next.fetched = saving[s].fetched
    BY <1>4, <1>5, <1>6 DEF Saving
  <1> HIDE DEF next
  <1>8. /\ saving' \in [Savers -> Saving] /\ saving'[s] = next
        /\ \A r \in Savers \ {s} : saving'[r] = saving[r]
    BY <1>3, <1>4, <1>7
  <1>9. MetricTypeOK'
    BY <1>1, <1>2, <1>8 DEF MetricTypeOK
  <1>10. Saves(s)
    BY <1>1 DEF Saves, Counted
  <1>11. OneSaves'
    BY <1>1, <1>8, <1>10, StaysAlone
  <1>12. \A f \in Counted : Known(f)' = Known(f) /\ Known(f) \in Nat /\ requests[f] \in Nat
    BY <1>1, <1>2, KnownIs, WaitingIs DEF Known, MetricTypeOK
  <1>13. \A f \in Counted : Taken(s, f) = 0 /\ Taken(s, f)' = 0
    BY <1>1, <1>7, <1>8 DEF Taken, Counted, pc
  <1>14. ASSUME ~overlapped PROVE \A r \in Savers \ {s} : saving'[r].pc = "idle"
    BY <1>8, <1>10, <1>14, OthersRest
  <1>15. ASSUME NEW f \in Counted, Closing(s, f)'
         PROVE  \/ f = g /\ saving'[s].seen[f] = counter'[f]
                \/ Closing(s, f) /\ saving'[s].seen[f] = saving[s].seen[f]
    BY <1>1, <1>5, <1>7, <1>8, <1>15 DEF Closing, Counted, pc
  <1>16. NoneTwice'
    <2> SUFFICES ASSUME atomicAdd, ~overlapped PROVE NoneTwice'
      BY <1>1 DEF NoneTwice
    <2>1. \A f \in Counted : /\ Known(f)' + Taken(s, f)' <= requests'[f]
                             /\ Closing(s, f)' => saving'[s].seen[f] <= counter'[f]
      <3>1. \A f \in Counted : Known(f) <= requests[f] /\ (Closing(s, f) => saving[s].seen[f] <= counter[f])
        BY <1>2 DEF NoneTwice
      <3>2. \A f \in Counted : counter[f] \in Nat
        BY <1>4
      <3> QED
        BY <1>1, <1>12, <1>13, <1>15, <3>1, <3>2
    <2>2. charted' <= total'["all"]
      BY <1>1, <1>2 DEF NoneTwice
    <2>3. saving'[s].fetched <= saving'[s].seen["all"] /\ saving'[s].pc \in {"errors", "reset"}
      <3>1. CASE g = "all"
        BY <1>1, <1>2, <1>5, <1>7, <1>8, <3>1 DEF NoneTwice, pc
      <3>2. CASE g = "errors"
        BY <1>1, <1>2, <1>5, <1>7, <1>8, <3>2 DEF NoneTwice, pc, Counted
      <3> QED
        BY <3>1, <3>2 DEF Counted
    <2>4. NoneTwiceBy(s)'
      BY <2>1, <2>2, <2>3 DEF NoneTwiceBy
    <2> QED
      BY <1>9, <1>14, <2>4, ByOneSaver
  <1>17. NoneMissing'
    <2> SUFFICES ASSUME ~overlapped, ~disturbed, unsaved = 0 PROVE NoneMissing'
      BY <1>1 DEF NoneMissing
    <2>1. \A f \in Counted : /\ Known(f)' + Taken(s, f)' = requests'[f]
                             /\ Closing(s, f)' => saving'[s].seen[f] = counter'[f]
      <3>1. \A f \in Counted : /\ Known(f) + Taken(s, f) = requests[f]
                               /\ Closing(s, f) => saving[s].seen[f] = counter[f]
        BY <1>2, <1>10 DEF NoneMissing
      <3> QED
        BY <1>1, <1>12, <1>13, <1>15, <3>1
    <2>2. NoneMissingBy(s)'
      BY <2>1 DEF NoneMissingBy
    <2> QED
      BY <1>9, <1>14, <2>2, ByOneSaver
  <1> QED
    BY <1>9, <1>11, <1>16, <1>17 DEF MetricInv

\* A reset moves what was read out of the counter, into the hands of the cycle.
LEMMA ResetInv ==
  ASSUME MetricInv, NEW s \in Savers, NEW g \in Counted, ResetMetric(s, g)
  PROVE  MetricInv'
  <1> DEFINE from == IF g = "all" THEN "reset" ELSE "resetErrors"
             to == IF g = "all" THEN "resetErrors" ELSE "update"
  <1>1. /\ UNCHANGED <<atomicAdd, begun, adding, total, charted, requests, overlapped, disturbed, unsaved>>
        /\ saving[s].pc = from /\ saving' = [saving EXCEPT ![s].pc = to]
        /\ counter' = [counter EXCEPT ![g] = 0]
    BY DEF ResetMetric, Goes
  <1>2. MetricTypeOK /\ OneSaves /\ NoneTwice /\ NoneMissing
    BY DEF MetricInv
  <1>3. to \in SavePhases
    BY DEF SavePhases
  <1> HIDE DEF to
  <1>4. /\ saving' \in [Savers -> Saving]
        /\ saving'[s].pc = to /\ saving'[s].seen = saving[s].seen /\ saving'[s].fetched = saving[s].fetched
        /\ \A r \in Savers \ {s} : saving'[r] = saving[r]
    BY <1>1, <1>2, <1>3, SaverMoves
  <1>5. /\ counter' \in [Counted -> Nat] /\ counter'[g] = 0 /\ counter[g] \in Nat
        /\ \A f \in Counted \ {g} : counter'[f] = counter[f]
    BY <1>1, <1>2 DEF MetricTypeOK
  <1>6. MetricTypeOK'
    BY <1>1, <1>2, <1>4, <1>5 DEF MetricTypeOK
  <1>7. Saves(s)
    BY <1>1 DEF Saves
  <1>8. OneSaves'
    BY <1>1, <1>4, <1>7, StaysAlone
  <1>9. ~overlapped => \A r \in Savers \ {s} : saving'[r].pc = "idle"
    BY <1>4, <1>7, OthersRest
  <1>10. Closing(s, g) /\ Taken(s, g) = 0 /\ Taken(s, g)' = saving[s].seen[g] /\ ~Closing(s, g)'
    BY <1>1, <1>4 DEF Closing, Taken, Counted, to
  <1>11. ASSUME NEW f \in Counted \ {g}
         PROVE  Taken(s, f)' = Taken(s, f) /\ (Closing(s, f)' => Closing(s, f))
    BY <1>1, <1>4, <1>11 DEF Closing, Taken, Counted, to
  <1>12. \A f \in Counted : Known(f)' = total[f] + counter'[f] + Cardinality(Waiting(f))
    BY <1>1, KnownIs
  <1>13. \A f \in Counted :
           /\ total[f] \in Nat /\ counter[f] \in Nat /\ Cardinality(Waiting(f)) \in Nat
           /\ requests[f] \in Nat /\ saving[s].seen[f] \in Nat /\ Taken(s, f) \in Nat
    BY <1>2, WaitingIs DEF MetricTypeOK, Saving, Taken
  <1>14. ASSUME NEW f \in Counted
         PROVE  /\ f = g => Known(f)' + Taken(s, f)' = Known(f) + Taken(s, f) - counter[f] + saving[s].seen[f]
                /\ f # g => Known(f)' + Taken(s, f)' = Known(f) + Taken(s, f)
                /\ Known(f) \in Nat
    BY <1>5, <1>10, <1>11, <1>12, <1>13 DEF Known
  <1>15. NoneTwice'
    <2> SUFFICES ASSUME atomicAdd, ~overlapped PROVE NoneTwice'
      BY <1>1 DEF NoneTwice
    <2>1. \A f \in Counted : /\ Known(f) + Taken(s, f) <= requests[f]
                             /\ Closing(s, f) => saving[s].seen[f] <= counter[f]
      BY <1>2 DEF NoneTwice
    <2>2. ASSUME NEW f \in Counted PROVE Known(f)' + Taken(s, f)' <= requests'[f]
      <3>1. CASE f = g
        BY <1>1, <1>10, <1>13, <1>14, <2>1, <3>1
      <3>2. CASE f # g
        BY <1>1, <1>14, <2>1, <3>2
      <3> QED
        BY <3>1, <3>2
    <2>3. ASSUME NEW f \in Counted, Closing(s, f)' PROVE saving'[s].seen[f] <= counter'[f]
      BY <1>4, <1>5, <1>10, <1>11, <2>1, <2>3
    <2>4. charted' <= total'["all"]
      BY <1>1, <1>2 DEF NoneTwice
    <2>5. saving'[s].fetched <= saving'[s].seen["all"] /\ saving'[s].pc \in {"resetErrors", "update"}
      BY <1>1, <1>2, <1>4 DEF NoneTwice, to
    <2>6. NoneTwiceBy(s)'
      BY <2>2, <2>3, <2>4, <2>5 DEF NoneTwiceBy
    <2> QED
      BY <1>6, <1>9, <2>6, ByOneSaver
  <1>16. NoneMissing'
    <2> SUFFICES ASSUME ~overlapped, ~disturbed, unsaved = 0 PROVE NoneMissing'
      BY <1>1 DEF NoneMissing
    <2>1. \A f \in Counted : /\ Known(f) + Taken(s, f) = requests[f]
                             /\ Closing(s, f) => saving[s].seen[f] = counter[f]
      BY <1>2, <1>7 DEF NoneMissing
    <2>2. ASSUME NEW f \in Counted PROVE Known(f)' + Taken(s, f)' = requests'[f]
      <3>1. CASE f = g
        BY <1>1, <1>10, <1>13, <1>14, <2>1, <3>1
      <3>2. CASE f # g
        BY <1>1, <1>14, <2>1, <3>2
      <3> QED
        BY <3>1, <3>2
    <2>3. ASSUME NEW f \in Counted, Closing(s, f)' PROVE saving'[s].seen[f] = counter'[f]
      BY <1>4, <1>5, <1>10, <1>11, <2>1, <2>3
    <2>4. NoneMissingBy(s)'
      BY <2>2, <2>3 DEF NoneMissingBy
    <2> QED
      BY <1>6, <1>9, <2>4, ByOneSaver
  <1> QED
    BY <1>6, <1>8, <1>15, <1>16 DEF MetricInv

\* retrieve() gives up to what was read, and of the requests all of it.
LEMMA ValuesIs ==
  ASSUME NEW seen \in [Counted -> Nat]
  PROVE  /\ Values(seen) \in [Counted -> Nat] /\ Values(seen)["all"] = seen["all"]
         /\ \A f \in Counted : Values(seen)[f] <= seen[f]
  BY DEF Values, Zero, Counted

\* The row receives what the cycle had taken.
LEMMA UpdateInv ==
  ASSUME MetricInv, NEW s \in Savers, UpdateRow(s)
  PROVE  MetricInv'
  <1> DEFINE seen == saving[s].seen
             values == Values(seen)
  <1>1. /\ UNCHANGED <<atomicAdd, begun, counter, adding, charted, requests, overlapped, unsaved>>
        /\ saving[s].pc = "update" /\ saving' = [saving EXCEPT ![s].pc = "record"]
        /\ total' = [f \in Counted |-> total[f] + values[f]]
        /\ disturbed' = (disturbed \/ values # seen)
    BY DEF UpdateRow, Goes, Added
  <1>2. MetricTypeOK /\ OneSaves /\ NoneTwice /\ NoneMissing
    BY DEF MetricInv
  <1>3. "record" \in SavePhases
    BY DEF SavePhases
  <1>4. /\ saving' \in [Savers -> Saving]
        /\ saving'[s].pc = "record" /\ saving'[s].fetched = saving[s].fetched
        /\ \A r \in Savers \ {s} : saving'[r] = saving[r]
    BY <1>1, <1>2, <1>3, SaverMoves
  <1>5. seen \in [Counted -> Nat] /\ saving[s].fetched \in Nat
    BY <1>2 DEF MetricTypeOK, Saving
  <1>6. values \in [Counted -> Nat] /\ values["all"] = seen["all"] /\ \A f \in Counted : values[f] <= seen[f]
    BY <1>5, ValuesIs
  <1> HIDE DEF values
  <1>7. total \in [Counted -> Nat] /\ charted \in Nat
    BY <1>2 DEF MetricTypeOK
  <1>8. total' \in [Counted -> Nat] /\ \A f \in Counted : total'[f] = total[f] + values[f]
    BY <1>1, <1>6, <1>7
  <1>9. MetricTypeOK'
    BY <1>1, <1>2, <1>4, <1>8 DEF MetricTypeOK
  <1>10. Saves(s)
    BY <1>1 DEF Saves
  <1>11. OneSaves'
    BY <1>1, <1>4, <1>10, StaysAlone
  <1>12. ~overlapped => \A r \in Savers \ {s} : saving'[r].pc = "idle"
    BY <1>4, <1>10, OthersRest
  <1>13. \A f \in Counted : Taken(s, f) = seen[f] /\ Taken(s, f)' = 0 /\ ~Closing(s, f)'
    BY <1>1, <1>4 DEF Taken, Closing, Counted
  <1>14. \A f \in Counted :
           /\ total[f] \in Nat /\ counter[f] \in Nat /\ Cardinality(Waiting(f)) \in Nat /\ requests[f] \in Nat
           /\ values[f] \in Nat /\ seen[f] \in Nat
    BY <1>2, <1>5, <1>6, WaitingIs DEF MetricTypeOK
  <1>15. \A f \in Counted : Known(f)' = Known(f) + values[f] /\ Known(f) \in Nat
    <2>1. \A f \in Counted : Known(f)' = total'[f] + counter'[f] + Cardinality(Waiting(f))
      BY <1>1, KnownIs
    <2> QED
      BY <1>1, <1>8, <1>14, <2>1 DEF Known
  <1>16. NoneTwice'
    <2> SUFFICES ASSUME atomicAdd, ~overlapped PROVE NoneTwice'
      BY <1>1 DEF NoneTwice
    <2>1. ASSUME NEW f \in Counted PROVE Known(f)' + Taken(s, f)' <= requests'[f]
      <3>1. Known(f) + Taken(s, f) <= requests[f]
        BY <1>2 DEF NoneTwice
      <3> QED
        BY <1>1, <1>6, <1>13, <1>14, <1>15, <3>1
    <2>2. charted <= total["all"] /\ saving[s].fetched <= seen["all"]
      BY <1>1, <1>2 DEF NoneTwice
    <2>3. "all" \in Counted
      BY DEF Counted
    <2>4. charted' <= total'["all"] /\ charted' + saving'[s].fetched <= total'["all"]
      BY <1>1, <1>4, <1>5, <1>6, <1>7, <1>8, <1>14, <2>2, <2>3
    <2>5. NoneTwiceBy(s)'
      BY <1>4, <1>13, <2>1, <2>4 DEF NoneTwiceBy
    <2> QED
      BY <1>9, <1>12, <2>5, ByOneSaver
  <1>17. NoneMissing'
    <2> SUFFICES ASSUME ~overlapped, ~disturbed', unsaved = 0 PROVE NoneMissing'
      BY <1>1 DEF NoneMissing
    <2>1. ASSUME NEW f \in Counted PROVE Known(f)' + Taken(s, f)' = requests'[f]
      <3>1. Known(f) + Taken(s, f) = requests[f] /\ values = seen
        BY <1>1, <1>2, <1>10 DEF NoneMissing
      <3> QED
        BY <1>1, <1>13, <1>14, <1>15, <3>1
    <2>2. NoneMissingBy(s)'
      BY <1>13, <2>1 DEF NoneMissingBy
    <2> QED
      BY <1>9, <1>12, <2>2, ByOneSaver
  <1> QED
    BY <1>9, <1>11, <1>16, <1>17 DEF MetricInv

\* A statement that fails loses requests and counts none twice.
LEMMA FailsInv ==
  ASSUME MetricInv, NEW s \in Savers, UpdateFails(s)
  PROVE  MetricInv'
  <1>1. /\ UNCHANGED <<atomicAdd, begun, counter, adding, total, charted, requests, overlapped, disturbed>>
        /\ saving[s].pc = "update" /\ saving' = [saving EXCEPT ![s].pc = "idle"]
        /\ unsaved' = unsaved + 1
    BY DEF UpdateFails, Goes
  <1>2. MetricTypeOK /\ OneSaves /\ NoneTwice /\ NoneMissing
    BY DEF MetricInv
  <1>3. "idle" \in SavePhases
    BY DEF SavePhases
  <1>4. /\ saving' \in [Savers -> Saving] /\ saving'[s].pc = "idle"
        /\ \A r \in Savers \ {s} : saving'[r] = saving[r]
    BY <1>1, <1>2, <1>3, SaverMoves
  <1>5. MetricTypeOK'
    BY <1>1, <1>2, <1>4 DEF MetricTypeOK
  <1>6. Saves(s)
    BY <1>1 DEF Saves
  <1>7. OneSaves'
    BY <1>1, <1>4, <1>6, StaysAlone
  <1>8. ~overlapped => \A r \in Savers \ {s} : saving'[r].pc = "idle"
    BY <1>4, <1>6, OthersRest
  <1>9. \A f \in Counted :
          /\ Known(f)' = Known(f) /\ Known(f) \in Nat /\ requests[f] \in Nat
          /\ Taken(s, f) \in Nat /\ Taken(s, f)' = 0 /\ ~Closing(s, f)'
    <2>1. \A f \in Counted : Known(f)' = total'[f] + counter'[f] + Cardinality(Waiting(f))
      BY <1>1, KnownIs
    <2>2. \A f \in Counted : Known(f) \in Nat /\ requests[f] \in Nat /\ Taken(s, f) \in Nat
      BY <1>2, WaitingIs DEF MetricTypeOK, Known, Taken, Saving
    <2>3. \A f \in Counted : Taken(s, f)' = 0 /\ ~Closing(s, f)'
      BY <1>4 DEF Taken, Closing
    <2> QED
      BY <1>1, <2>1, <2>2, <2>3 DEF Known
  <1>10. NoneTwice'
    <2> SUFFICES ASSUME atomicAdd, ~overlapped PROVE NoneTwice'
      BY <1>1 DEF NoneTwice
    <2>1. ASSUME NEW f \in Counted PROVE Known(f)' + Taken(s, f)' <= requests'[f]
      <3>1. Known(f) <= requests[f]
        BY <1>2 DEF NoneTwice
      <3> QED
        BY <1>1, <1>9, <3>1
    <2>2. charted' <= total'["all"]
      BY <1>1, <1>2 DEF NoneTwice
    <2>3. NoneTwiceBy(s)'
      BY <1>4, <1>9, <2>1, <2>2 DEF NoneTwiceBy
    <2> QED
      BY <1>5, <1>8, <2>3, ByOneSaver
  <1>11. NoneMissing'
    <2>1. unsaved' # 0
      BY <1>1, <1>2 DEF MetricTypeOK
    <2> QED
      BY <2>1 DEF NoneMissing
  <1> QED
    BY <1>5, <1>7, <1>10, <1>11 DEF MetricInv

\* The chart receives what was fetched, which the row has too.
LEMMA RecordInv ==
  ASSUME MetricInv, NEW s \in Savers, Record(s)
  PROVE  MetricInv'
  <1>1. /\ UNCHANGED <<atomicAdd, begun, counter, adding, total, requests, overlapped, disturbed, unsaved>>
        /\ saving[s].pc = "record" /\ saving' = [saving EXCEPT ![s].pc = "idle"]
        /\ charted' = charted + saving[s].fetched
    BY DEF Record, Goes
  <1>2. MetricTypeOK /\ OneSaves /\ NoneTwice /\ NoneMissing
    BY DEF MetricInv
  <1>3. "idle" \in SavePhases
    BY DEF SavePhases
  <1>4. /\ saving' \in [Savers -> Saving] /\ saving'[s].pc = "idle"
        /\ \A r \in Savers \ {s} : saving'[r] = saving[r]
    BY <1>1, <1>2, <1>3, SaverMoves
  <1>5. MetricTypeOK'
    <2>1. charted' \in Nat
      BY <1>1, <1>2 DEF MetricTypeOK, Saving
    <2> QED
      BY <1>1, <1>2, <1>4, <2>1 DEF MetricTypeOK
  <1>6. Saves(s)
    BY <1>1 DEF Saves
  <1>7. OneSaves'
    BY <1>1, <1>4, <1>6, StaysAlone
  <1>8. ~overlapped => \A r \in Savers \ {s} : saving'[r].pc = "idle"
    BY <1>4, <1>6, OthersRest
  <1>9. \A f \in Counted : Known(f)' = Known(f)
    BY <1>1, KnownIs DEF Known
  <1>10. \A f \in Counted : Taken(s, f) = 0 /\ Taken(s, f)' = 0 /\ ~Closing(s, f)'
    BY <1>1, <1>4 DEF Taken, Closing, Counted
  <1>11. NoneTwice'
    <2> SUFFICES ASSUME atomicAdd, ~overlapped PROVE NoneTwice'
      BY <1>1 DEF NoneTwice
    <2>1. \A f \in Counted : Known(f)' + Taken(s, f)' <= requests'[f]
      BY <1>1, <1>2, <1>9, <1>10 DEF NoneTwice
    <2>2. charted' <= total'["all"]
      BY <1>1, <1>2 DEF NoneTwice
    <2>3. NoneTwiceBy(s)'
      BY <1>4, <1>10, <2>1, <2>2 DEF NoneTwiceBy
    <2> QED
      BY <1>5, <1>8, <2>3, ByOneSaver
  <1>12. NoneMissing'
    <2> SUFFICES ASSUME ~overlapped, ~disturbed, unsaved = 0 PROVE NoneMissing'
      BY <1>1 DEF NoneMissing
    <2>1. \A f \in Counted : Known(f)' + Taken(s, f)' = requests'[f]
      BY <1>1, <1>2, <1>6, <1>9, <1>10 DEF NoneMissing
    <2>2. NoneMissingBy(s)'
      BY <1>10, <2>1 DEF NoneMissingBy
    <2> QED
      BY <1>5, <1>8, <2>2, ByOneSaver
  <1> QED
    BY <1>5, <1>7, <1>11, <1>12 DEF MetricInv
-----------------------------------------------------------------------------
\* No step breaks the invariant.
LEMMA MetricStepInv == MetricInv /\ [MetricNext]_metricVars => MetricInv'
  <1> SUFFICES ASSUME MetricInv, [MetricNext]_metricVars PROVE MetricInv'
    OBVIOUS
  <1>1. ASSUME NEW t \in Servants, LoadCounter(t) PROVE MetricInv'
    BY <1>1, LoadInv
  <1>2. ASSUME NEW t \in Servants, StoreCounter(t) PROVE MetricInv'
    BY <1>2, StoreInv
  <1>3. ASSUME NEW t \in Servants, NEW failed \in BOOLEAN, CountRequest(t, failed) PROVE MetricInv'
    BY <1>3, CountInv
  <1>4. ASSUME NEW s \in Savers, FetchMetrics(s) PROVE MetricInv'
    BY <1>4, FetchInv
  <1>5. ASSUME NEW s \in Savers, NEW f \in Counted, RetrieveMetric(s, f) PROVE MetricInv'
    BY <1>5, RetrieveInv
  <1>6. ASSUME NEW s \in Savers, NEW f \in Counted, ResetMetric(s, f) PROVE MetricInv'
    BY <1>6, ResetInv
  <1>7. ASSUME NEW s \in Savers, UpdateRow(s) PROVE MetricInv'
    BY <1>7, UpdateInv
  <1>8. ASSUME NEW s \in Savers, UpdateFails(s) PROVE MetricInv'
    BY <1>8, FailsInv
  <1>9. ASSUME NEW s \in Savers, Record(s) PROVE MetricInv'
    BY <1>9, RecordInv
  <1>10. ASSUME UNCHANGED metricVars PROVE MetricInv'
    <2>1. UNCHANGED <<atomicAdd, begun, counter, adding, saving, total, charted,
                      requests, overlapped, disturbed, unsaved>>
      BY <1>10 DEF metricVars
    <2>2. ASSUME NEW f PROVE Known(f)' = Known(f)
      BY <2>1, KnownIs DEF Known
    <2>3. MetricTypeOK' /\ OneSaves'
      BY <2>1 DEF MetricInv, MetricTypeOK, OneSaves, Saves
    <2>4. NoneTwice'
      BY <2>1, <2>2, CyclesStay DEF MetricInv, NoneTwice
    <2>5. NoneMissing'
      BY <2>1, <2>2, CyclesStay DEF MetricInv, NoneMissing
    <2> QED
      BY <2>3, <2>4, <2>5 DEF MetricInv
  <1> QED
    BY <1>1, <1>2, <1>3, <1>4, <1>5, <1>6, <1>7, <1>8, <1>9, <1>10 DEF MetricNext

\* The invariant holds of every reachable state.
LEMMA MetricInvariant == MetricSpec => []MetricInv
  BY MetricInitInv, MetricStepInv, PTL DEF MetricSpec

\* What the row and the counters count follows from what is accounted for.
LEMMA InvCounts == MetricInv => CountedOnce
  <1> SUFFICES ASSUME MetricInv PROVE CountedOnce
    OBVIOUS
  <1>1. \A f \in Counted :
          /\ total[f] \in Nat /\ counter[f] \in Nat /\ requests[f] \in Nat /\ Cardinality(Waiting(f)) \in Nat
          /\ Known(f) = total[f] + counter[f] + Cardinality(Waiting(f))
    BY WaitingIs DEF MetricInv, MetricTypeOK, Known
  <1>2. ASSUME ~overlapped, atomicAdd
        PROVE  charted <= total["all"] /\ \A f \in Counted : total[f] <= requests[f]
    <2>1. charted <= total["all"] /\ \A f \in Counted : Known(f) <= requests[f]
      BY <1>2 DEF MetricInv, NoneTwice
    <2> QED
      BY <1>1, <2>1
  <1>3. ASSUME ~overlapped, ~disturbed, unsaved = 0, AtRest, NEW f \in Counted
        PROVE  total[f] + counter[f] = requests[f]
    <2>1. Known(f) = requests[f]
      BY <1>3 DEF MetricInv, NoneMissing, Saves, AtRest
    <2>2. Waiting(f) = {}
      BY <1>3 DEF Waiting, AtRest
    <2>3. Cardinality(Waiting(f)) = 0
      BY <2>2, FS_EmptySet
    <2> QED
      BY <1>1, <1>3, <2>1, <2>3
  <1> QED
    BY <1>2, <1>3 DEF CountedOnce

\* update_worker and the loggers: the counters, the row and the cycles stay numbers.
THEOREM MetricTypes == MetricSpec => []MetricTypeOK
  <1>1. MetricInv => MetricTypeOK
    BY DEF MetricInv
  <1> QED
    BY <1>1, MetricInvariant, PTL

\* Whatever the number of threads, of cycles and of requests: cycles that do not
\* overlap count no request twice, and none is missing where nothing was added
\* between a read and its reset and no statement failed.
THEOREM RequestsCountedOnce == MetricSpec => []CountedOnce
  BY MetricInvariant, InvCounts, PTL

HIDE MetricAssumption
-----------------------------------------------------------------------------
(***************************************************************************)
(* Proofs about AlertIncident, for any threads, windows and intervals: a   *)
(* trigger opens no incident beside an open one that it could have seen,   *)
(* and alarms of one incident are min_alarm_interval apart.                *)
(***************************************************************************)

USE AlertAssumption

Calls(n) == [pc: {"idle", "get", "open", "count", "opened", "counted", "alarm", "alarmed",
                  "lookup", "compare", "recover", "notify"},
             entry: Entries, at: 0..MaxMinute, log: 0..n,
             n: Nat, alarmed: 0..MaxMinute, stale: BOOLEAN]

\* The times of an incident have come.
Dated == \A i \in Pks : incidents[i].latest <= MaxMinute /\ incidents[i].alarmed <= MaxMinute

\* A call that has found or opened its incident.
HasLog(q) == q.pc \in {"count", "opened", "counted", "alarm", "alarmed", "compare", "recover"}

\* What a call knows: its incident, one of its entry; that there is no other to continue, while nobody has
\* overtaken it; and that the interval since the alarm it has read is over.
CallOK(q, table) ==
  /\ HasLog(q) => q.log \in 1..Len(table)
  /\ q.pc = "open" /\ ~q.stale =>
       \A i \in 1..Len(table) : table[i].entry = q.entry /\ ~table[i].gone /\ ~table[i].recovered
                                 => Window # NoValue /\ table[i].latest + Window < q.at
  /\ q.pc = "count" => table[q.log].entry = q.entry
  /\ q.pc = "alarm" /\ Pause # NoValue => q.alarmed = Never \/ q.at >= q.alarmed + Pause

\* An alarm that was sent is stored, or is about to be.
ToldOK(i) ==
  /\ incidents[i].told <= minute
  /\ \/ incidents[i].told = Never \/ incidents[i].gone \/ incidents[i].told <= incidents[i].alarmed
     \/ \E u \in Watchers : In(u, "alarmed") /\ watcher[u].log = i

AlertInv ==
  /\ AlertTypeOK /\ Dated
  /\ \A t \in Watchers : CallOK(watcher[t], incidents)
  /\ \A i \in Pks : ToldOK(i)

\* The row of an incident has types that fit the clock.
LEMMA AlertTyped ==
  ASSUME AlertTypeOK
  PROVE  /\ minute \in 1..MaxMinute /\ down \in BOOLEAN /\ calls \in 0..MaxCalls
         /\ incidents \in Seq(Incident) /\ Len(incidents) \in Nat /\ Len(incidents) <= MaxIncidents
         /\ watcher \in [Watchers -> Calls(Len(incidents))]
         /\ \A i \in Pks : incidents[i] \in Incident
  BY DEF AlertTypeOK, Calls, Pks

\* A set of numbers up to n has a last.
LEMMA LastNumber ==
  ASSUME NEW n \in Nat, NEW S \in SUBSET (1..n), S # {}
  PROVE  \E i \in S : \A j \in S : i >= j
  <1> DEFINE Below == OpToRel(<, Nat)
             T == {k \in Nat : n - k \in S}
  <1>1. IsWellFoundedOn(Below, Nat)
    BY NatLessThanWellFounded DEF Below
  <1>2. \A i, j \in Nat : <<i, j>> \in Below <=> i < j
    BY DEF Below, OpToRel
  <1> HIDE DEF Below
  <1>3. \A x \in S : n - x \in Nat /\ n - (n - x) = x
    OBVIOUS
  <1>4. T \in SUBSET Nat
    OBVIOUS
  <1>5. T # {}
    <2>1. PICK x \in S : TRUE
      OBVIOUS
    <2>2. n - x \in T
      BY <1>3, <2>1
    <2> QED
      BY <2>2
  <1>6. \A x \in S : n - x \in T
    BY <1>3
  <1>7. \A k \in T : n - k \in S /\ k \in Nat
    OBVIOUS
  <1> HIDE DEF T
  <1>8. PICK k \in T : \A l \in T : <<l, k>> \notin Below
    BY <1>1, <1>4, <1>5, WFMin
  <1>9. \A l \in T : ~ (l < k) /\ l \in Nat /\ k \in Nat
    BY <1>2, <1>7, <1>8
  <1>10. n - k \in S /\ \A j \in S : n - k >= j
    <2>1. \A j \in S : ~ (n - j < k) /\ j \in Nat
      BY <1>6, <1>9
    <2> QED
      BY <1>7, <1>9, <2>1
  <1> QED
    BY <1>10

\* The log that is found is an open one of the entry; if none is, there is none within the window.
LEMMA LogFound ==
  ASSUME AlertTypeOK, NEW entry, NEW at
  PROVE  \/ /\ GetLog(entry, at) \in Pks
            /\ incidents[GetLog(entry, at)].entry = entry
         \/ /\ GetLog(entry, at) = 0
            /\ \A i \in Pks : ~(Open(i) /\ incidents[i].entry = entry /\ Within(i, at))
  <1> DEFINE found == {i \in Pks : Open(i) /\ incidents[i].entry = entry /\ Within(i, at)}
  <1>1. Len(incidents) \in Nat /\ Pks = 1..Len(incidents)
    BY AlertTyped DEF Pks
  <1>2. found \in SUBSET (1..Len(incidents))
    BY <1>1
  <1>3. GetLog(entry, at) = IF found = {} THEN 0 ELSE CHOOSE i \in found : \A j \in found : i >= j
    BY DEF GetLog
  <1>4. CASE found = {}
    BY <1>3, <1>4
  <1>5. CASE found # {}
    <2> HIDE DEF found
    <2>1. \E i \in found : \A j \in found : i >= j
      BY <1>1, <1>2, <1>5, LastNumber
    <2>2. GetLog(entry, at) \in found
      BY <1>3, <1>5, <2>1
    <2>3. \A i \in found : incidents[i].entry = entry
      BY DEF found
    <2> QED
      BY <1>1, <1>2, <2>2, <2>3
  <1> QED
    BY <1>4, <1>5

-----------------------------------------------------------------------------
\* A step of one thread that changes no incident and sends no alarm.
LEMMA CallMoves ==
  ASSUME AlertInv, NEW t \in Watchers, NEW q \in Calls(Len(incidents)), CallOK(q, incidents),
         watcher[t].pc # "alarmed", watcher' = [watcher EXCEPT ![t] = q],
         incidents' = incidents, minute' \in 1..MaxMinute, minute' >= minute, down' \in BOOLEAN,
         calls' \in 0..MaxCalls
  PROVE  AlertInv'
  <1>1. /\ watcher \in [Watchers -> Calls(Len(incidents))] /\ minute \in Nat /\ minute' \in Nat
        /\ \A i \in Pks : incidents[i] \in Incident
    BY AlertTyped DEF AlertInv
  <1>2. watcher' \in [Watchers -> Calls(Len(incidents))] /\ watcher'[t] = q
        /\ \A u \in Watchers : u # t => watcher'[u] = watcher[u]
    BY <1>1
  <1>3. AlertTypeOK' /\ Dated'
    BY <1>2 DEF AlertInv, AlertTypeOK, Calls, Dated, Pks
  <1>4. \A u \in Watchers : CallOK(watcher[u], incidents)'
    <2> TAKE u \in Watchers
    <2>1. CallOK(watcher'[u], incidents)
      BY <1>2 DEF AlertInv
    <2> QED
      BY <2>1 DEF CallOK, HasLog
  <1>5. \A i \in Pks' : ToldOK(i)'
    <2> SUFFICES ASSUME NEW i \in Pks PROVE ToldOK(i)'
      BY DEF Pks
    <2>1. ToldOK(i)
      BY DEF AlertInv
    <2>2. incidents[i].told \in Nat /\ incidents'[i] = incidents[i]
      BY <1>1 DEF Incident
    <2>3. \A u \in Watchers : In(u, "alarmed") => u # t
      BY DEF In
    <2>4. \A u \in Watchers : In(u, "alarmed") => In(u, "alarmed")' /\ watcher'[u].log = watcher[u].log
      BY <1>2, <2>3 DEF In
    <2> QED
      BY SMTT(40), <1>1, <2>1, <2>2, <2>4 DEF ToldOK
  <1> QED
    BY <1>3, <1>4, <1>5 DEF AlertInv

\* A call that is over knows nothing.
LEMMA NoCallOK ==
  ASSUME AlertTypeOK PROVE NoCall \in Calls(Len(incidents)) /\ CallOK(NoCall, incidents)
  <1>1. NoCall \in Calls(Len(incidents))
    BY AlertTyped DEF NoCall, Calls, Entries, Never
  <1> QED
    BY <1>1 DEF NoCall, CallOK, HasLog

\* A trigger of any entry begins now.
LEMMA TriggerOK ==
  ASSUME AlertTypeOK, NEW entry \in Entries
  PROVE  LET q == [NoCall EXCEPT !.pc = "get", !.entry = entry, !.at = minute]
         IN  q \in Calls(Len(incidents)) /\ CallOK(q, incidents)
  <1> DEFINE q == [NoCall EXCEPT !.pc = "get", !.entry = entry, !.at = minute]
  <1>1. NoCall \in Calls(Len(incidents)) /\ minute \in 0..MaxMinute
    BY NoCallOK, AlertTyped
  <1>2. q \in Calls(Len(incidents)) /\ q.pc = "get"
    BY <1>1 DEF Calls
  <1> QED
    BY <1>2 DEF CallOK, HasLog

\* A step that changes one incident, but not when it was last seen, and opens none again.
LEMMA RowMoves ==
  ASSUME AlertInv, NEW t \in Watchers, NEW i \in Pks, NEW row \in Incident,
         NEW q \in Calls(Len(incidents)),
         incidents' = [incidents EXCEPT ![i] = row], watcher' = [watcher EXCEPT ![t] = q],
         ~HasLog(q) \/ q.log = i, q.pc \notin {"open", "count", "alarm"},
         watcher[t].pc = "alarmed" => watcher[t].log = i,
         row.entry = incidents[i].entry, row.latest = incidents[i].latest, row.alarmed <= MaxMinute,
         row.gone \/ row.recovered \/ Open(i),
         row.told <= minute,
         row.told = Never \/ row.gone \/ row.told <= row.alarmed \/ (q.pc = "alarmed" /\ q.log = i)
           \/ \E u \in Watchers \ {t} : In(u, "alarmed") /\ watcher[u].log = i,
         minute' = minute, down' = down, calls' = calls
  PROVE  AlertInv'
  <1>1. /\ watcher \in [Watchers -> Calls(Len(incidents))] /\ minute \in Nat
        /\ incidents \in Seq(Incident) /\ Len(incidents) \in Nat /\ Len(incidents) <= MaxIncidents
        /\ \A j \in Pks : incidents[j] \in Incident
    BY AlertTyped DEF AlertInv
  <1>2. watcher' \in [Watchers -> Calls(Len(incidents))] /\ watcher'[t] = q
        /\ \A u \in Watchers : u # t => watcher'[u] = watcher[u]
    BY <1>1
  <1>3. incidents' \in Seq(Incident) /\ Len(incidents') = Len(incidents) /\ incidents'[i] = row
        /\ \A j \in Pks : j # i => incidents'[j] = incidents[j]
    BY <1>1 DEF Pks
  <1>4. Pks' = Pks /\ Pks = 1..Len(incidents)
    BY <1>3 DEF Pks
  <1>5. AlertTypeOK'
    BY <1>1, <1>2, <1>3 DEF AlertInv, AlertTypeOK, Calls
  <1>6. Dated'
    BY <1>3, <1>4 DEF AlertInv, Dated
  <1>7. \A u \in Watchers : CallOK(watcher[u], incidents)'
    <2> TAKE u \in Watchers
    <2>1. CASE u = t
      BY <1>2, <1>3, <1>4, <2>1 DEF CallOK
    <2>2. CASE u # t
      <3>1. CallOK(watcher[u], incidents) /\ watcher'[u] = watcher[u]
        BY <1>2, <2>2 DEF AlertInv
      <3>2. ASSUME NEW j \in 1..Len(incidents')
            PROVE  /\ incidents'[j].entry = incidents[j].entry /\ incidents'[j].latest = incidents[j].latest
                   /\ ~incidents'[j].gone /\ ~incidents'[j].recovered
                        => ~incidents[j].gone /\ ~incidents[j].recovered
        BY <1>3, <1>4 DEF Open
      <3> QED
        BY <1>3, <3>1, <3>2 DEF CallOK
    <2> QED
      BY <2>1, <2>2
  <1>8. \A j \in Pks' : ToldOK(j)'
    <2> SUFFICES ASSUME NEW j \in Pks PROVE ToldOK(j)'
      BY <1>4
    <2>1. CASE j = i
      <3>1. \A u \in Watchers \ {t} : In(u, "alarmed") => In(u, "alarmed")' /\ watcher'[u].log = watcher[u].log
        BY <1>2 DEF In
      <3>2. q.pc = "alarmed" => In(t, "alarmed")' /\ watcher'[t].log = q.log
        BY <1>2 DEF In
      <3> QED
        BY <1>3, <2>1, <3>1, <3>2 DEF ToldOK
    <2>2. CASE j # i
      <3>1. ToldOK(j) /\ incidents'[j] = incidents[j]
        BY <1>3, <2>2 DEF AlertInv
      <3>2. \A u \in Watchers : In(u, "alarmed") /\ watcher[u].log = j
                                  => In(u, "alarmed")' /\ watcher'[u].log = j
        BY <1>2, <2>2 DEF In
      <3> QED
        BY <3>1, <3>2 DEF ToldOK
    <2> QED
      BY <2>1, <2>2
  <1> QED
    BY <1>5, <1>6, <1>7, <1>8 DEF AlertInv

\* The incidents stay, but for the last time of those of the thread's entry, and a new one is of it.
RowsKept(t) ==
  /\ \A j \in Pks : /\ incidents'[j].entry = incidents[j].entry /\ incidents'[j].gone = incidents[j].gone
                    /\ incidents'[j].recovered = incidents[j].recovered
                    /\ incidents'[j].alarmed = incidents[j].alarmed
                    /\ incidents'[j].told = incidents[j].told
                    /\ incidents'[j].entry = watcher[t].entry \/ incidents'[j].latest = incidents[j].latest
  /\ \A j \in Pks' \ Pks : incidents'[j].entry = watcher[t].entry /\ incidents'[j].told = Never

\* A step that counts or opens an incident overtakes those that are about to open one.
LEMMA OvertakeMoves ==
  ASSUME AlertInv, NEW t \in Watchers, NEW q \in Calls(Len(incidents')),
         watcher[t].pc \in {"count", "open"}, q.pc \in {"counted", "opened"}, q.log \in Pks',
         watcher' = Overtake(t, [watcher EXCEPT ![t] = q]),
         incidents' \in Seq(Incident), Len(incidents) <= Len(incidents'), Len(incidents') <= MaxIncidents,
         Dated', RowsKept(t),
         minute' = minute, down' = down, calls' = calls
  PROVE  AlertInv'
  <1>1. /\ watcher \in [Watchers -> Calls(Len(incidents))] /\ minute \in 1..MaxMinute
        /\ Len(incidents) \in Nat /\ Len(incidents') \in Nat
    BY AlertTyped DEF AlertInv
  <1>2. watcher'[t] = q
    BY <1>1 DEF Overtake
  <1>3. ASSUME NEW u \in Watchers, u # t
        PROVE  \/ /\ watcher[u].pc = "open" /\ watcher[u].entry = watcher[t].entry
                  /\ watcher'[u] = [watcher[u] EXCEPT !.stale = TRUE]
               \/ /\ ~(watcher[u].pc = "open" /\ watcher[u].entry = watcher[t].entry)
                  /\ watcher'[u] = watcher[u]
    BY <1>1, <1>3 DEF Overtake
  <1>4. Calls(Len(incidents)) \subseteq Calls(Len(incidents'))
    <2>1. 0..Len(incidents) \subseteq 0..Len(incidents')
      BY <1>1
    <2> QED
      BY <2>1 DEF Calls
  <1>5. watcher' \in [Watchers -> Calls(Len(incidents'))]
    <2>1. watcher' = [u \in Watchers |-> watcher'[u]]
      BY DEF Overtake
    <2>2. ASSUME NEW u \in Watchers PROVE watcher'[u] \in Calls(Len(incidents'))
      <3>1. CASE u = t
        BY <1>2, <3>1
      <3>2. CASE u # t
        <4>1. watcher[u] \in Calls(Len(incidents'))
          BY <1>1, <1>4
        <4>2. [watcher[u] EXCEPT !.stale = TRUE] \in Calls(Len(incidents'))
          BY <4>1 DEF Calls
        <4> QED
          BY <1>3, <3>2, <4>1, <4>2
      <3> QED
        BY <3>1, <3>2
    <2> QED
      BY <2>1, <2>2
  <1>6. AlertTypeOK'
    BY <1>1, <1>5 DEF AlertInv, AlertTypeOK, Calls
  <1>7. \A u \in Watchers : CallOK(watcher[u], incidents)'
    <2> TAKE u \in Watchers
    <2>1. CASE u = t
      BY <1>2, <2>1 DEF CallOK, Pks
    <2>2. CASE u # t
      <3>1. CallOK(watcher[u], incidents)
        BY DEF AlertInv
      <3>2. CASE watcher[u].pc = "open" /\ watcher[u].entry = watcher[t].entry
        <4>1. watcher'[u].pc = "open" /\ watcher'[u].stale
          BY <1>1, <1>3, <2>2, <3>2 DEF Calls
        <4> QED
          BY <4>1 DEF CallOK, HasLog
      <3>3. CASE ~(watcher[u].pc = "open" /\ watcher[u].entry = watcher[t].entry)
        <4>1. watcher'[u] = watcher[u]
          BY <1>3, <2>2, <3>3
        <4>2. HasLog(watcher[u]) => watcher[u].log \in 1..Len(incidents')
          BY <1>1, <3>1 DEF CallOK
        <4>3. ASSUME watcher[u].pc = "open", ~watcher[u].stale, NEW j \in 1..Len(incidents'),
                     incidents'[j].entry = watcher[u].entry, ~incidents'[j].gone, ~incidents'[j].recovered
              PROVE  Window # NoValue /\ incidents'[j].latest + Window < watcher[u].at
          <5>1. j \in Pks' /\ incidents'[j].entry # watcher[t].entry
            BY <3>3, <4>3 DEF Pks
          <5>2. /\ j \in Pks /\ incidents'[j].latest = incidents[j].latest
                /\ incidents[j].entry = watcher[u].entry /\ ~incidents[j].gone /\ ~incidents[j].recovered
            BY <4>3, <5>1 DEF RowsKept
          <5> QED
            BY <3>1, <4>3, <5>2 DEF CallOK, Pks
        <4>4. watcher[u].pc = "count" => incidents'[watcher[u].log].entry = watcher[u].entry
          BY <3>1 DEF CallOK, HasLog, Pks, RowsKept
        <4> QED
          BY <3>1, <4>1, <4>2, <4>3, <4>4 DEF CallOK
      <3> QED
        BY <3>2, <3>3
    <2> QED
      BY <2>1, <2>2
  <1>8. ASSUME NEW j \in Pks' PROVE ToldOK(j)'
    <2>1. CASE j \in Pks
      <3>1. ToldOK(j) /\ incidents'[j].gone = incidents[j].gone /\ incidents'[j].told = incidents[j].told
            /\ incidents'[j].alarmed = incidents[j].alarmed
        BY <2>1 DEF AlertInv, RowsKept
      <3>2. ASSUME NEW u \in Watchers, In(u, "alarmed") PROVE In(u, "alarmed")' /\ watcher'[u].log = watcher[u].log
        <4>1. u # t /\ watcher[u].pc # "open"
          BY <3>2 DEF In
        <4> QED
          BY <1>3, <3>2, <4>1 DEF In
      <3> QED
        BY <3>1, <3>2 DEF ToldOK
    <2>2. CASE j \notin Pks
      BY <1>1, <2>2 DEF ToldOK, Never, RowsKept
    <2> QED
      BY <2>1, <2>2
  <1> QED
    BY <1>6, <1>7, <1>8 DEF AlertInv
-----------------------------------------------------------------------------
\* No call and no incident at the beginning.
LEMMA AlertInitInv == AlertInit => AlertInv
  <1> SUFFICES ASSUME AlertInit PROVE AlertInv
    OBVIOUS
  <1>1. AlertTypeOK
    <2>1. minute \in 1..MaxMinute /\ down \in BOOLEAN /\ calls \in 0..MaxCalls /\ incidents \in Seq(Incident)
          /\ Len(incidents) = 0 /\ Len(incidents) <= MaxIncidents
      <3>1. minute \in 1..MaxMinute /\ calls \in 0..MaxCalls
        BY DEF AlertInit
      <3>2. down \in BOOLEAN
        BY DEF AlertInit
      <3>3. incidents \in Seq(Incident) /\ Len(incidents) = 0 /\ 0 <= MaxIncidents
        BY DEF AlertInit
      <3> QED
        BY <3>1, <3>2, <3>3
    <2>3. NoCall \in Calls(Len(incidents))
      BY <2>1 DEF NoCall, Calls, Entries, Never
    <2>4. watcher \in [Watchers -> Calls(Len(incidents))]
      BY <2>3 DEF AlertInit
    <2> QED
      BY <2>1, <2>4 DEF AlertTypeOK, Calls
  <1>2. Len(incidents) = 0 /\ Pks = {}
    BY DEF AlertInit, Pks
  <1>3. \A t \in Watchers : CallOK(watcher[t], incidents)
    BY DEF AlertInit, NoCall, CallOK, HasLog
  <1> QED
    BY <1>1, <1>2, <1>3 DEF AlertInv, Dated

\* Time passes and the supervisor breaks down beside the threads.
LEMMA WorldMoves ==
  ASSUME AlertInv, MinutePasses \/ SupervisorChanges \/ UNCHANGED alertVars
  PROVE  AlertInv'
  <1>1. /\ minute' \in 1..MaxMinute /\ minute' >= minute /\ down' \in BOOLEAN /\ calls' \in 0..MaxCalls
        /\ watcher' = watcher /\ incidents' = incidents
    <2>1. minute \in 1..MaxMinute /\ down \in BOOLEAN /\ calls \in 0..MaxCalls
      BY AlertTyped DEF AlertInv
    <2>2. CASE MinutePasses
      BY <2>1, <2>2 DEF MinutePasses
    <2>3. CASE SupervisorChanges
      BY <2>1, <2>3 DEF SupervisorChanges
    <2>4. CASE UNCHANGED alertVars
      BY <2>1, <2>4 DEF alertVars
    <2> QED
      BY <2>2, <2>3, <2>4
  <1>2. AlertTypeOK' /\ Dated'
    BY <1>1 DEF AlertInv, AlertTypeOK, Dated, Pks
  <1>3. \A t \in Watchers : CallOK(watcher[t], incidents)'
    BY <1>1 DEF AlertInv, CallOK, HasLog
  <1>4. ASSUME NEW i \in Pks' PROVE ToldOK(i)'
    <2>1. i \in Pks /\ minute \in Nat /\ minute' \in Nat
      BY <1>1, AlertTyped DEF AlertInv, Pks
    <2>2. incidents[i] \in Incident /\ ToldOK(i)
      BY <2>1, AlertTyped DEF AlertInv
    <2>3. incidents[i].told \in Nat
      BY <2>2 DEF Incident
    <2> QED
      BY <1>1, <2>1, <2>2, <2>3 DEF ToldOK, In
  <1> QED
    BY <1>2, <1>3, <1>4 DEF AlertInv

\* A call that returns.
LEMMA ReturnMoves ==
  ASSUME AlertInv, NEW t \in Watchers, Return(t), watcher[t].pc # "alarmed",
         incidents' = incidents, minute' = minute, down' = down, calls' \in 0..MaxCalls
  PROVE  AlertInv'
  <1>1. NoCall \in Calls(Len(incidents)) /\ CallOK(NoCall, incidents) /\ minute \in 1..MaxMinute
        /\ down \in BOOLEAN /\ minute >= minute
    BY NoCallOK, AlertTyped DEF AlertInv
  <1> QED
    BY <1>1, CallMoves DEF Return

\* A call that triggers an entry.
LEMMA TriggerMoves ==
  ASSUME AlertInv, NEW t \in Watchers, NEW entry \in Entries, Trigger(t, entry), watcher[t].pc # "alarmed",
         incidents' = incidents, minute' = minute, down' = down, calls' \in 0..MaxCalls
  PROVE  AlertInv'
  <1> DEFINE q == [NoCall EXCEPT !.pc = "get", !.entry = entry, !.at = minute]
  <1>1. q \in Calls(Len(incidents)) /\ CallOK(q, incidents)
    BY TriggerOK DEF AlertInv
  <1>2. watcher' = [watcher EXCEPT ![t] = q]
    BY DEF Trigger
  <1>3. minute \in 1..MaxMinute /\ down \in BOOLEAN /\ minute >= minute
    BY AlertTyped DEF AlertInv
  <1> HIDE DEF q
  <1> QED
    BY <1>1, <1>2, <1>3, CallMoves

\* A call that goes on with its incident, or with none, and has read times that have come.
LEMMA GoesOn ==
  ASSUME AlertInv, NEW t \in Watchers, NEW q \in Calls(Len(incidents)), CallOK(q, incidents),
         watcher[t].pc # "alarmed", watcher' = [watcher EXCEPT ![t] = q],
         UNCHANGED <<minute, down, incidents, calls>>
  PROVE  AlertInv'
  <1>1. minute \in 1..MaxMinute /\ down \in BOOLEAN /\ minute >= minute
        /\ calls \in 0..MaxCalls
    BY AlertTyped DEF AlertInv
  <1> QED
    BY <1>1, CallMoves

\* Every step of a thread keeps the invariant: the trigger,
LEMMA TriggerSteps ==
  ASSUME AlertInv, NEW t \in Watchers,
         Check(t) \/ RequestFails(t) \/ Get(t) \/ Count(t) \/ OpenIncident(t) \/ Decide(t)
  PROVE  AlertInv'
  <1>t. /\ minute \in 1..MaxMinute /\ down \in BOOLEAN /\ calls \in 0..MaxCalls
        /\ incidents \in Seq(Incident) /\ Len(incidents) \in Nat /\ Len(incidents) <= MaxIncidents
        /\ watcher \in [Watchers -> Calls(Len(incidents))]
        /\ \A i \in Pks : incidents[i] \in Incident
    BY AlertTyped DEF AlertInv
  <1>c. CallOK(watcher[t], incidents) /\ AlertTypeOK /\ Dated
    BY DEF AlertInv
  <1>1. CASE Check(t)
    <2>0. calls' \in 0..MaxCalls /\ watcher[t].pc # "alarmed" /\ UNCHANGED <<minute, down, incidents>>
      BY <1>1, <1>t DEF Check, Begin, In
    <2>1. CASE Trigger(t, "metric")
      BY <1>t, <2>0, <2>1, TriggerMoves DEF Entries
    <2>2. CASE watcher' = [watcher EXCEPT ![t].pc = "lookup"]
      <3> DEFINE q == [watcher[t] EXCEPT !.pc = "lookup"]
      <3>1. q \in Calls(Len(incidents)) /\ q.pc = "lookup"
        BY <1>t DEF Calls
      <3>2. CallOK(q, incidents)
        BY <3>1 DEF CallOK, HasLog
      <3>3. watcher' = [watcher EXCEPT ![t] = q] /\ minute >= minute
        BY <1>t, <2>2
      <3> HIDE DEF q
      <3> QED
        BY <1>t, <2>0, <3>1, <3>2, <3>3, CallMoves
    <2> QED
      BY <1>1, <2>1, <2>2 DEF Check
  <1>2. CASE RequestFails(t)
    <2>1. calls' \in 0..MaxCalls /\ watcher[t].pc # "alarmed"
      BY <1>2, <1>t DEF RequestFails, Begin, In
    <2> QED
      BY <1>2, <2>1, TriggerMoves DEF RequestFails, Entries
  <1>3. CASE Get(t)
    <2> DEFINE i == GetLog(watcher[t].entry, watcher[t].at)
    <2>1. CASE i = 0
      <3> DEFINE q == [watcher[t] EXCEPT !.pc = "open", !.stale = FALSE]
      <3>1. q \in Calls(Len(incidents)) /\ q.pc = "open" /\ q.entry = watcher[t].entry /\ q.at = watcher[t].at
        BY <1>t DEF Calls
      <3>2. \A j \in Pks : ~(Open(j) /\ incidents[j].entry = q.entry /\ Within(j, q.at))
        BY <1>c, <1>t, <2>1, <3>1, LogFound DEF Pks
      <3>3. CallOK(q, incidents)
        <4>1. q.at \in Nat /\ \A j \in Pks : incidents[j].latest \in Nat
          <5>1. q.at \in Nat
            <6>1. watcher[t] \in Calls(Len(incidents)) /\ q.at = watcher[t].at
              BY <1>t, <3>1
            <6> HIDE DEF q
            <6> QED
              BY <6>1 DEF Calls
          <5>2. \A j \in Pks : incidents[j].latest \in Nat
            BY <1>t DEF Incident
          <5> QED
            BY <5>1, <5>2
        <4>2. Window \in Nat \cup {NoValue}
          BY DEF Window, SetupParam, AlertAssumption
        <4> HIDE DEF q
        <4> QED
          BY SMTT(40), <3>1, <3>2, <4>1, <4>2 DEF CallOK, HasLog, Open, Within, Pks
      <3>4. watcher' = [watcher EXCEPT ![t] = q] /\ watcher[t].pc # "alarmed"
            /\ UNCHANGED <<minute, down, incidents, calls>>
        BY <1>3, <1>t, <2>1 DEF Get, In
      <3> HIDE DEF q
      <3> QED
        BY <3>1, <3>3, <3>4, GoesOn
    <2>2. CASE i # 0
      <3> DEFINE q == [watcher[t] EXCEPT !.pc = "count", !.log = i, !.alarmed = incidents[i].alarmed]
      <3>1. i \in Pks /\ incidents[i].entry = watcher[t].entry
        BY <1>c, <2>2, LogFound
      <3>2. incidents[i].count \in Nat /\ incidents[i].alarmed \in 0..MaxMinute /\ i \in 0..Len(incidents)
        <4> HIDE DEF i
        <4>1. incidents[i].count \in Nat /\ incidents[i].alarmed \in Nat
          BY <1>t, <3>1 DEF Incident
        <4>2. incidents[i].alarmed <= MaxMinute
          BY <1>c, <3>1 DEF Dated
        <4>3. i \in 0..Len(incidents)
          BY <1>t, <3>1 DEF Pks
        <4> QED
          BY <4>1, <4>2, <4>3
      <3>3. watcher' = [watcher EXCEPT ![t] = q] /\ watcher[t].pc # "alarmed"
            /\ UNCHANGED <<minute, down, incidents, calls>>
        BY <1>3, <1>t, <2>2 DEF Get, In
      <3> HIDE DEF i
      <3>4. q \in Calls(Len(incidents)) /\ q.pc = "count" /\ q.log = i /\ q.entry = watcher[t].entry
        <4>1. watcher[t] \in Calls(Len(incidents))
          BY <1>t
        <4>2. q.pc = "count" /\ q.log = i /\ q.entry = watcher[t].entry
          BY <4>1 DEF Calls
        <4> QED
          BY <3>2, <4>1, <4>2 DEF Calls
      <3>5. CallOK(q, incidents)
        BY <3>1, <3>4 DEF CallOK, HasLog, Pks
      <3> HIDE DEF q
      <3> QED
        BY <3>3, <3>4, <3>5, GoesOn
    <2> QED
      BY <2>1, <2>2
  <1>4. CASE Count(t)
    <2> DEFINE i == watcher[t].log
               q == [watcher[t] EXCEPT !.pc = "counted"]
               c == incidents[i].count
               row == [incidents[i] EXCEPT !.count = IF c < MaxCount THEN c + 1 ELSE c,
                                           !.latest = watcher[t].at]
    <2>1. i \in Pks /\ watcher[t].pc = "count" /\ watcher[t].at \in 0..MaxMinute /\ watcher[t].entry \in Entries
      BY <1>4, <1>c, <1>t DEF Count, In, CallOK, HasLog, Pks, Calls
    <2>2. q \in Calls(Len(incidents)) /\ q.pc = "counted" /\ q.log = i
      BY <1>t DEF Calls
    <2>3. watcher' = Overtake(t, [watcher EXCEPT ![t] = q])
      BY <1>4, <1>t DEF Count
    <2>4. incidents' = incidents \/ incidents' = [incidents EXCEPT ![i] = row]
      BY <1>4, <1>t, <2>1 DEF Count
    <2>5. minute' = minute /\ down' = down /\ calls' = calls
      BY <1>4 DEF Count
    <2>6. /\ row \in Incident /\ row.latest <= MaxMinute
          /\ row.entry = incidents[i].entry /\ row.gone = incidents[i].gone /\ row.told = incidents[i].told
          /\ row.recovered = incidents[i].recovered /\ row.alarmed = incidents[i].alarmed
      <3> HIDE DEF i
      <3>1. incidents[i] \in Incident /\ watcher[t].at \in Nat /\ watcher[t].at <= MaxMinute
        BY <1>t, <2>1
      <3>2. (IF c < MaxCount THEN c + 1 ELSE c) \in Nat
        BY <3>1 DEF Incident
      <3> HIDE DEF c
      <3> QED
        BY <3>1, <3>2 DEF Incident
    <2>e. incidents[i].entry = watcher[t].entry
      BY <1>c, <2>1 DEF CallOK
    <2> HIDE DEF q, row, i
    <2>8. /\ incidents' \in Seq(Incident) /\ Len(incidents') = Len(incidents) /\ Pks' = Pks
          /\ incidents'[i] = incidents[i] \/ incidents'[i] = row
          /\ \A j \in Pks : j # i => incidents'[j] = incidents[j]
      <3>1. CASE incidents' = incidents
        BY <1>t, <3>1 DEF Pks
      <3>2. CASE incidents' = [incidents EXCEPT ![i] = row]
        BY <1>t, <2>1, <2>6, <3>2 DEF Pks
      <3> QED
        BY <2>4, <3>1, <3>2
    <2>9. RowsKept(t)
      BY <2>e, <2>6, <2>8 DEF RowsKept
    <2>10. Dated'
      BY <1>c, <2>6, <2>8 DEF Dated
    <2>11. /\ q \in Calls(Len(incidents')) /\ q.log \in Pks' /\ watcher[t].pc \in {"count", "open"}
           /\ q.pc \in {"counted", "opened"} /\ Len(incidents) <= Len(incidents') /\ Len(incidents') <= MaxIncidents
      BY <1>t, <2>1, <2>2, <2>8
    <2> QED
      BY <2>3, <2>5, <2>8, <2>9, <2>10, <2>11, OvertakeMoves
  <1>5. CASE OpenIncident(t)
    <2> DEFINE row == [entry |-> watcher[t].entry, time |-> minute, latest |-> minute, count |-> 1,
                       recovered |-> FALSE, gone |-> FALSE, alarmed |-> Never, told |-> Never]
               q == [watcher[t] EXCEPT !.pc = "opened", !.log = Len(incidents) + 1, !.stale = FALSE]
    <2>1. watcher[t].pc = "open" /\ watcher[t].entry \in Entries /\ Len(incidents) + 1 <= MaxIncidents
      BY SMTT(40), <1>5, <1>t DEF OpenIncident, In, Calls
    <2>2. incidents' = Append(incidents, row) /\ minute' = minute /\ down' = down /\ calls' = calls
      BY <1>5 DEF OpenIncident
    <2>3. watcher' = Overtake(t, [watcher EXCEPT ![t] = q])
      BY <1>5, <1>t DEF OpenIncident
    <2>5. row \in Incident /\ row.entry = watcher[t].entry /\ row.told = Never /\ row.latest <= MaxMinute
          /\ row.alarmed <= MaxMinute
      BY <1>t, <2>1 DEF Incident, Never
    <2> HIDE DEF row
    <2>6. /\ incidents' \in Seq(Incident) /\ Len(incidents') = Len(incidents) + 1
          /\ incidents'[Len(incidents) + 1] = row
          /\ \A j \in Pks : incidents'[j] = incidents[j]
          /\ Pks' = Pks \cup {Len(incidents) + 1} /\ Len(incidents) + 1 \notin Pks
      BY <1>t, <2>2, <2>5 DEF Pks
    <2>7. q \in Calls(Len(incidents')) /\ q.pc = "opened" /\ q.log = Len(incidents) + 1
      <3>1. 0..Len(incidents) \subseteq 0..Len(incidents') /\ Len(incidents) + 1 \in 0..Len(incidents')
        BY <1>t, <2>6
      <3>2. watcher[t] \in Calls(Len(incidents'))
        BY <1>t, <3>1 DEF Calls
      <3> QED
        BY <3>1, <3>2 DEF Calls
    <2> HIDE DEF q
    <2>8. Dated'
      BY <1>c, <2>5, <2>6 DEF Dated
    <2>9. q.log \in Pks' /\ Len(incidents) <= Len(incidents') /\ Len(incidents') <= MaxIncidents
      BY <1>t, <2>1, <2>6, <2>7
    <2>10. RowsKept(t)
      BY <2>5, <2>6 DEF RowsKept
    <2>11. /\ minute' = minute /\ down' = down /\ calls' = calls /\ incidents' \in Seq(Incident)
           /\ watcher[t].pc \in {"count", "open"} /\ q.pc \in {"counted", "opened"}
      BY <2>1, <2>2, <2>6, <2>7
    <2> QED
      BY <2>3, <2>7, <2>8, <2>9, <2>10, <2>11, OvertakeMoves
  <1>6. CASE Decide(t)
    <2>1. CASE Return(t)
      BY <1>6, <1>t, <2>1, ReturnMoves DEF Decide
    <2>2. CASE ~Return(t)
      <3> DEFINE q == [watcher[t] EXCEPT !.pc = "alarm"]
      <3>1. watcher' = [watcher EXCEPT ![t] = q] /\ watcher[t].pc \in {"opened", "counted"}
            /\ UNCHANGED <<minute, down, incidents, calls>>
            /\ (Pause = NoValue \/ watcher[t].alarmed = Never \/ watcher[t].at >= watcher[t].alarmed + Pause)
        BY <1>6, <2>2 DEF Decide, Alarming
      <3>2. q \in Calls(Len(incidents)) /\ q.pc = "alarm" /\ q.log = watcher[t].log /\ q.at = watcher[t].at
            /\ q.alarmed = watcher[t].alarmed
        BY <1>t DEF Calls
      <3> HIDE DEF q
      <3>3. CallOK(q, incidents)
        BY <1>c, <3>1, <3>2 DEF CallOK, HasLog
      <3> QED
        BY <3>1, <3>2, <3>3, GoesOn
    <2> QED
      BY <2>1, <2>2
  <1> QED
    BY <1>1, <1>2, <1>3, <1>4, <1>5, <1>6

\* the alarm, and the check of a metric that is back to normal.
LEMMA AlarmSteps ==
  ASSUME AlertInv, NEW t \in Watchers,
         Alarm(t) \/ SaveAlarm(t) \/ LookForOpen(t) \/ Compare(t) \/ Recover(t) \/ Notify(t)
  PROVE  AlertInv'
  <1>t. /\ minute \in 1..MaxMinute /\ calls \in 0..MaxCalls /\ Len(incidents) \in Nat
        /\ watcher[t] \in Calls(Len(incidents))
        /\ \A i \in Pks : incidents[i] \in Incident
    BY AlertTyped DEF AlertInv
  <1>c. /\ CallOK(watcher[t], incidents) /\ AlertTypeOK /\ Dated
        /\ \A i \in Pks : ToldOK(i)
    BY DEF AlertInv
  <1>n. NoCall \in Calls(Len(incidents)) /\ NoCall.pc = "idle"
    BY <1>c, NoCallOK DEF NoCall
  <1>l. ASSUME HasLog(watcher[t]) PROVE watcher[t].log \in Pks /\ incidents[watcher[t].log] \in Incident
    BY <1>c, <1>t, <1>l DEF CallOK, Pks
  <1> DEFINE i == watcher[t].log
  <1>f. ASSUME RequestFailed(t), watcher[t].pc # "alarmed",
               UNCHANGED <<minute, down, incidents, calls>>
        PROVE  AlertInv'
    <2>1. calls' \in 0..MaxCalls
      BY <1>f, <1>t
    <2>2. CASE Subscribed
      BY <1>f, <2>1, <2>2, TriggerMoves DEF RequestFailed, Entries
    <2>3. CASE ~Subscribed
      BY <1>f, <2>1, <2>3, ReturnMoves DEF RequestFailed
    <2> QED
      BY <2>2, <2>3
  <1>r. ASSUME Return(t), watcher[t].pc # "alarmed", UNCHANGED <<minute, down, incidents, calls>>
        PROVE  AlertInv'
    BY <1>r, <1>t, ReturnMoves
  <1>1. CASE Alarm(t)
    <2>1. CASE down /\ RequestFailed(t) /\ UNCHANGED incidents
      BY <1>1, <1>f, <2>1 DEF Alarm, In
    <2>2. CASE ~(down /\ RequestFailed(t) /\ UNCHANGED incidents)
      <3> DEFINE row == [incidents[i] EXCEPT !.told = minute]
                 q == [watcher[t] EXCEPT !.pc = "alarmed"]
      <3>1. watcher[t].pc = "alarm" /\ watcher' = [watcher EXCEPT ![t] = q]
            /\ incidents' = [incidents EXCEPT ![i] = row]
            /\ minute' = minute /\ down' = down /\ calls' = calls
        BY <1>1, <2>2 DEF Alarm, In
      <3>2. i \in Pks /\ incidents[i] \in Incident
        BY <1>l, <3>1 DEF HasLog
      <3>3. incidents[i].alarmed <= MaxMinute
        BY <1>c, <3>2 DEF Dated
      <3>4. q \in Calls(Len(incidents)) /\ q.pc = "alarmed" /\ q.log = i
        BY <1>t DEF Calls
      <3> HIDE DEF i, q
      <3>5. /\ row \in Incident /\ row.entry = incidents[i].entry /\ row.latest = incidents[i].latest
            /\ row.alarmed = incidents[i].alarmed /\ row.gone = incidents[i].gone
            /\ row.recovered = incidents[i].recovered /\ row.told = minute
        <4>1. minute \in Nat
          BY <1>t
        <4> QED
          BY <3>2, <4>1 DEF Incident
      <3>6. row.told <= minute /\ (row.gone \/ row.recovered \/ Open(i))
        BY <1>t, <3>5 DEF Open
      <3> HIDE DEF row
      <3> QED
        BY <3>1, <3>2, <3>3, <3>4, <3>5, <3>6, RowMoves
    <2> QED
      BY <2>1, <2>2
  <1>2. CASE SaveAlarm(t)
    <2> DEFINE row == IF incidents[i].gone THEN incidents[i] ELSE [incidents[i] EXCEPT !.alarmed = minute]
    <2>1. watcher[t].pc = "alarmed" /\ watcher' = [watcher EXCEPT ![t] = NoCall]
          /\ minute' = minute /\ down' = down /\ calls' = calls
      BY <1>2 DEF SaveAlarm, In, Return
    <2>2. i \in Pks /\ incidents[i] \in Incident
      BY <1>l, <2>1 DEF HasLog
    <2>3. incidents' = [incidents EXCEPT ![i] = row]
      <3>1. [incidents EXCEPT ![i] = incidents[i]] = incidents
        BY <1>c, <2>2, AlertTyped
      <3> QED
        BY <1>2, <3>1 DEF SaveAlarm
    <2>4. incidents[i].alarmed <= MaxMinute /\ incidents[i].told <= minute
      BY <1>c, <2>2 DEF Dated, ToldOK
    <2>5. watcher[t].log = i
      OBVIOUS
    <2> HIDE DEF i
    <2>6. /\ row \in Incident /\ row.entry = incidents[i].entry /\ row.latest = incidents[i].latest
          /\ row.gone = incidents[i].gone /\ row.recovered = incidents[i].recovered
          /\ row.told = incidents[i].told
          /\ row.gone \/ row.alarmed = minute
          /\ row.alarmed = incidents[i].alarmed \/ row.alarmed = minute
      <3>1. minute \in Nat
        BY <1>t
      <3>2. [incidents[i] EXCEPT !.alarmed = minute] \in Incident
        BY <2>2, <3>1 DEF Incident
      <3>3. row \in Incident
        BY <2>2, <3>2
      <3> QED
        BY <2>2, <3>1, <3>3 DEF Incident
    <2> HIDE DEF row
    <2>7. row.alarmed <= MaxMinute /\ (row.gone \/ row.told <= row.alarmed) /\ row.told <= minute
          /\ (row.gone \/ row.recovered \/ Open(i))
      BY <1>t, <2>4, <2>6 DEF Open
    <2>8. ~HasLog(NoCall) /\ NoCall.pc \notin {"open", "count", "alarm"}
      BY <1>n DEF HasLog
    <2> QED
      BY <1>n, <2>1, <2>2, <2>3, <2>5, <2>6, <2>7, <2>8, RowMoves
  <1>3. CASE LookForOpen(t)
    <2>u. UNCHANGED <<minute, down, incidents, calls>> /\ watcher[t].pc # "alarmed"
      BY <1>3 DEF LookForOpen, In
    <2> DEFINE k == GetLog("metric", minute)
    <2>1. CASE k = 0
      BY <1>3, <1>r, <2>u, <2>1 DEF LookForOpen
    <2>2. CASE k # 0
      <3> DEFINE q == [watcher[t] EXCEPT !.pc = "compare", !.log = k, !.at = incidents[k].latest,
                                         !.n = incidents[k].count, !.alarmed = incidents[k].alarmed]
      <3>1. watcher' = [watcher EXCEPT ![t] = q]
        BY <1>3, <2>2 DEF LookForOpen
      <3>2. k \in Pks
        BY <1>c, <2>2, LogFound
      <3> HIDE DEF k
      <3>3. incidents[k] \in Incident /\ incidents[k].latest <= MaxMinute /\ incidents[k].alarmed <= MaxMinute
            /\ k \in 0..Len(incidents)
        BY <1>c, <1>t, <3>2 DEF Dated, Pks
      <3>4. incidents[k].latest \in 0..MaxMinute /\ incidents[k].alarmed \in 0..MaxMinute
            /\ incidents[k].count \in Nat
        BY SMTT(40), <3>3 DEF Incident
      <3>5. q \in Calls(Len(incidents)) /\ q.pc = "compare" /\ q.log = k
        BY <1>t, <3>3, <3>4 DEF Calls
      <3> HIDE DEF q
      <3>6. CallOK(q, incidents)
        BY <3>2, <3>5 DEF CallOK, Pks
      <3> QED
        BY <2>u, <3>1, <3>5, <3>6, GoesOn
    <2> QED
      BY <2>1, <2>2
  <1>4. CASE Compare(t)
    <2>u. UNCHANGED <<minute, down, incidents, calls>> /\ watcher[t].pc = "compare"
      BY <1>4 DEF Compare, In
    <2>1. CASE Return(t)
      BY <1>r, <2>u, <2>1
    <2>2. CASE ~Return(t)
      <3> DEFINE q == [watcher[t] EXCEPT !.pc = "recover"]
      <3>1. watcher' = [watcher EXCEPT ![t] = q]
        BY <1>4, <2>2 DEF Compare
      <3>2. q \in Calls(Len(incidents)) /\ q.pc = "recover" /\ q.log = watcher[t].log
        BY <1>t DEF Calls
      <3> HIDE DEF q
      <3>3. CallOK(q, incidents)
        BY <1>c, <2>u, <3>2 DEF CallOK, HasLog
      <3> QED
        BY <2>u, <3>1, <3>2, <3>3, GoesOn
    <2> QED
      BY <2>1, <2>2
  <1>5. CASE Recover(t)
    <2>u. watcher[t].pc = "recover" /\ minute' = minute /\ down' = down /\ calls' = calls
      BY <1>5 DEF Recover, In
    <2>i. i \in Pks /\ incidents[i] \in Incident
      BY <1>l, <2>u DEF HasLog
    <2>1. CASE incidents[i].gone
      BY <1>5, <1>r, <2>u, <2>1 DEF Recover
    <2>2. CASE ~incidents[i].gone
      <3> DEFINE q == IF watcher[t].n < MinTimes \/ watcher[t].alarmed = Never THEN NoCall
                      ELSE [watcher[t] EXCEPT !.pc = "notify"]
                 row == IF watcher[t].n < MinTimes THEN [incidents[i] EXCEPT !.gone = TRUE]
                        ELSE [incidents[i] EXCEPT !.recovered = TRUE]
      <3>1. watcher' = [watcher EXCEPT ![t] = q] /\ incidents' = [incidents EXCEPT ![i] = row]
        BY <1>5, <2>2 DEF Recover, Return
      <3>2. q \in Calls(Len(incidents)) /\ q.pc \in {"idle", "notify"}
        <4>1. [watcher[t] EXCEPT !.pc = "notify"] \in Calls(Len(incidents))
              /\ [watcher[t] EXCEPT !.pc = "notify"].pc = "notify"
          BY <1>t DEF Calls
        <4> QED
          BY <1>n, <4>1
      <3>3. \A u \in Watchers : In(u, "alarmed") => u # t
        BY <2>u DEF In
      <3>4. ToldOK(i) /\ incidents[i].alarmed <= MaxMinute
        BY <1>c, <2>i DEF Dated
      <3> HIDE DEF q, i
      <3>5. /\ row \in Incident /\ row.entry = incidents[i].entry /\ row.latest = incidents[i].latest
            /\ row.alarmed = incidents[i].alarmed /\ row.told = incidents[i].told
            /\ row.gone \/ row.recovered
        BY <1>t, <2>i DEF Incident
      <3> HIDE DEF row
      <3>6. /\ row.told <= minute
            /\ \/ row.told = Never \/ row.gone \/ row.told <= row.alarmed
               \/ \E u \in Watchers \ {t} : In(u, "alarmed") /\ watcher[u].log = i
        BY <2>2, <3>3, <3>4, <3>5 DEF ToldOK
      <3>7. ~HasLog(q) /\ q.pc \notin {"open", "count", "alarm"}
        BY <3>2 DEF HasLog
      <3> QED
        BY <2>u, <2>i, <3>1, <3>2, <3>4, <3>5, <3>6, <3>7, RowMoves
    <2> QED
      BY <2>1, <2>2
  <1>6. CASE Notify(t)
    <2>1. watcher[t].pc # "alarmed" /\ UNCHANGED <<minute, down, incidents, calls>>
      BY <1>6 DEF Notify, In
    <2> QED
      BY <1>6, <1>f, <1>r, <2>1 DEF Notify
  <1> QED
    BY <1>1, <1>2, <1>3, <1>4, <1>5, <1>6

\* The invariant holds of every reachable state.
THEOREM AlertInvariant == AlertSpec => []AlertInv
  <1>1. AlertInit => AlertInv
    BY AlertInitInv
  <1>2. AlertInv /\ [AlertNext]_alertVars => AlertInv'
    <2> SUFFICES ASSUME AlertInv, [AlertNext]_alertVars PROVE AlertInv'
      OBVIOUS
    <2>1. CASE MinutePasses \/ SupervisorChanges \/ UNCHANGED alertVars
      BY <2>1, WorldMoves
    <2>2. ASSUME NEW t \in Watchers, Check(t) \/ RequestFails(t) \/ AlertStep(t) PROVE AlertInv'
      BY <2>2, TriggerSteps, AlarmSteps DEF AlertStep
    <2> QED
      BY <2>1, <2>2 DEF AlertNext
  <1> QED
    BY <1>1, <1>2, PTL DEF AlertSpec

\* The calls of the threads, the AlertLog rows and the counters stay of their types.
THEOREM AlertTypes == AlertSpec => []AlertTypeOK
  <1>1. AlertInv => AlertTypeOK
    BY DEF AlertInv
  <1> QED
    BY <1>1, AlertInvariant, PTL

\* A trigger that nobody has overtaken opens an incident only when no open one of its entry is
\* within the window, and alarms of one incident are min_alarm_interval apart unless the first
\* was on its way when the second trigger read the log (config.py:85-106, 214-217).
THEOREM IncidentsStayCompressed == AlertSpec => IncidentsCompressed
  <1> DEFINE Opens(t) == In(t, "open") /\ watcher'[t].pc = "opened" /\ ~watcher[t].stale
                           => \A i \in Pks : incidents[i].entry = watcher[t].entry /\ Open(i)
                                               => incidents[i].latest + Window < watcher[t].at
             Spaced(t, i) == \/ Pause = NoValue \/ incidents[i].told = Never
                             \/ watcher[t].at >= incidents[i].told + Pause
                             \/ incidents[i].gone \/ incidents[i].alarmed # watcher[t].alarmed
                             \/ \E u \in Watchers : In(u, "alarmed") /\ watcher[u].log = i
  <1>1. ASSUME AlertInv, NEW t \in Watchers PROVE Opens(t)
    <2>1. CallOK(watcher[t], incidents)
      BY <1>1 DEF AlertInv
    <2> QED
      BY <2>1 DEF CallOK, In, Open, Pks
  <1>2. ASSUME AlertInv, NEW t \in Watchers, In(t, "alarm") PROVE Spaced(t, watcher[t].log)
    <2> DEFINE i == watcher[t].log
    <2>1. CallOK(watcher[t], incidents) /\ i \in Pks
      BY <1>2 DEF AlertInv, CallOK, HasLog, In, Pks
    <2>2. ToldOK(i) /\ incidents[i] \in Incident /\ watcher[t] \in Calls(Len(incidents))
      BY <1>2, <2>1, AlertTyped DEF AlertInv
    <2>3. incidents[i].told \in Nat /\ incidents[i].alarmed \in Nat
      BY <2>2 DEF Incident
    <2>4. watcher[t].at \in Nat /\ watcher[t].alarmed \in Nat
      BY <2>2 DEF Calls
    <2>5. Pause = NoValue \/ Pause \in Nat
      BY DEF Pause, SetupParam
    <2>6. Pause = NoValue \/ watcher[t].alarmed = Never \/ watcher[t].at >= watcher[t].alarmed + Pause
      BY <1>2, <2>1 DEF CallOK, In
    <2> HIDE DEF i
    <2>7. CASE incidents[i].told <= incidents[i].alarmed
      <3>1. incidents[i].alarmed = watcher[t].alarmed
              => \/ Pause = NoValue \/ incidents[i].told = Never
                 \/ watcher[t].at >= incidents[i].told + Pause
        BY <2>3, <2>4, <2>5, <2>6, <2>7 DEF Never
      <3> QED
        BY <3>1 DEF i
    <2>8. CASE ~(incidents[i].told <= incidents[i].alarmed)
      <3>1. incidents[i].told = Never \/ incidents[i].gone
              \/ \E u \in Watchers : In(u, "alarmed") /\ watcher[u].log = i
        BY <2>2, <2>8 DEF ToldOK
      <3> QED
        BY <3>1 DEF i
    <2> QED
      BY <2>7, <2>8
  <1>3. AlertInv => [\A t \in Watchers : Opens(t)]_alertVars
    BY <1>1
  <1>4. AlertInv =>
          [\A t \in Watchers :
             In(t, "alarm") /\ watcher'[t].pc # "alarm" =>
               LET i == watcher[t].log IN
               \/ Pause = NoValue \/ incidents[i].told = Never \/ watcher[t].at >= incidents[i].told + Pause
               \/ incidents[i].gone \/ incidents[i].alarmed # watcher[t].alarmed
               \/ \E u \in Watchers : In(u, "alarmed") /\ watcher[u].log = i]_alertVars
    BY <1>2
  <1> QED
    BY <1>3, <1>4, AlertInvariant, PTL DEF IncidentsCompressed, OneIncident, AlarmsSpaced
=============================================================================
