---------------------------- MODULE Tables_proof ----------------------------
(***************************************************************************)
(* Proofs about the tables that the operations service keeps in step with  *)
(* a supervisor: the reports of the hours and days (ReportLog) and the     *)
(* resources of the service (ResourceSync).                                *)
(***************************************************************************)
EXTENDS ReportLog, ResourceSync, FiniteSetTheorems, SequenceTheorems, WellFoundedInduction, TLAPS
-----------------------------------------------------------------------------
(***************************************************************************)
(* Proofs about ReportLog, for any cycles, workers, intervals, expiries    *)
(* and batches: how many rows a period has, that what the table calls      *)
(* reported is stored by the supervisor, and that an hour whose cycles     *)
(* were on time does not end with its report unsent.                       *)
(***************************************************************************)

\* The start of the day an hour is in.
LEMMA DayStart == ASSUME NEW h \in Nat, NEW d \in Nat \ {0} PROVE h - (h % d) \in Nat
  OBVIOUS

\* The last slot of an hour.
LEMMA LastSlot ==
  ASSUME NEW t \in Nat, NEW d \in Nat \ {0}, (t + 1) \div d # t \div d
  PROVE  t - (t \div d) * d + 1 >= d
  OBVIOUS

\* Numbers have a first.
LEMMA FirstNumber ==
  ASSUME NEW S \in SUBSET Nat, S # {}
  PROVE  \E i \in S : \A j \in S : i <= j
  <1> DEFINE Below == OpToRel(<, Nat)
  <1>1. IsWellFoundedOn(Below, Nat)
    BY NatLessThanWellFounded DEF Below
  <1>2. \A m, n \in Nat : <<m, n>> \in Below <=> m < n
    BY DEF Below, OpToRel
  <1> HIDE DEF Below
  <1>3. PICK i \in S : \A j \in S : <<j, i>> \notin Below
    BY <1>1, WFMin
  <1>4. \A j \in S : ~ (j < i) /\ i \in Nat /\ j \in Nat
    BY <1>2, <1>3
  <1>5. \A j \in S : i <= j
    BY <1>4
  <1> QED
    BY <1>5

USE ReportAssumption

Phases == {"idle", "find", "create", "send", "mark", "noid", "missing", "batch", "settle", "daily"}

\* A cycle whose rows are among the first n.
Threads(n) ==
  [pc: Phases, layer: {0, 1}, to: Nat, log: 0..n, upto: Nat, at: Nat, exec: Nat,
   acked: SUBSET (1..n), empty: SUBSET (1..n), owed: SUBSET (1..n), hurt: BOOLEAN]

Memories == [exec: Nat, hourly: [to: Nat, reported: BOOLEAN], daily: Nat]

\* What other cycles are spared by a step: everything but the ghost of a disturbance.
Kept(c) ==
  /\ cycle'[c].pc = cycle[c].pc /\ cycle'[c].layer = cycle[c].layer
  /\ cycle'[c].to = cycle[c].to /\ cycle'[c].log = cycle[c].log
  /\ cycle'[c].acked = cycle[c].acked /\ cycle'[c].empty = cycle[c].empty

\* Rows stay what they are of; reports and copies of them are not taken back.
RowsKept ==
  /\ Len(logs') >= Len(logs)
  /\ \A i \in 1..Len(logs) :
       /\ logs'[i].layer = logs[i].layer /\ logs'[i].to = logs[i].to
       /\ logs'[i].kind = logs[i].kind
       /\ logs[i].reported => logs'[i].reported
       /\ logs[i].got > 0 => logs'[i].got > 0
-----------------------------------------------------------------------------
(* Types *)

\* The type invariant, with the threads of the cycles by the name used below.
LEMMA TypeByThreads ==
  ReportTypeOK <=>
    /\ clock \in 0..MaxClock /\ primary \in Workers
    /\ memory \in [Workers -> Memories]
    /\ cycle \in [Cycles -> Threads(Len(logs))]
    /\ logs \in Seq(ReportLogType) /\ Len(logs) <= MaxLogs
    /\ done \in [begun: BOOLEAN, kept: BOOLEAN]
    /\ budget \in [upsets: 0..MaxUpsets, lost: 0..MaxLost, odd: 0..MaxPartial]
  BY DEF ReportTypeOK, Memories, Threads, Phases

\* More rows, no fewer threads.
LEMMA ThreadsGrow ==
  ASSUME NEW n \in Nat, NEW m \in Nat, n <= m
  PROVE  Threads(n) \subseteq Threads(m)
  <1>1. 0..n \subseteq 0..m /\ SUBSET (1..n) \subseteq SUBSET (1..m)
    OBVIOUS
  <1> QED
    BY <1>1 DEF Threads

\* A cycle that rests is a thread, whatever rows there are.
LEMMA IdleType == ASSUME NEW n \in Nat PROVE IdleCycle \in Threads(n)
  BY DEF IdleCycle, Threads, Phases

\* aggregate() returns to the daily report or to the end.
LEMMA EndedType ==
  ASSUME ReportTypeOK, NEW c \in Cycles, NEW n \in Nat
  PROVE  /\ Ended(c) \in Threads(n) /\ Ended(c).pc \in {"idle", "daily"}
         /\ Ended(c).acked = {} /\ Ended(c).empty = {}
  <1>1. cycle[c].to \in Nat
    BY TypeByThreads DEF Threads
  <1> DEFINE t == cycle[c].to
  <1> HIDE DEF t
  <1>2. 0 \in 0..n /\ t \in Nat
    BY <1>1 DEF t
  <1> DEFINE q == [IdleCycle EXCEPT !.pc = "daily", !.to = t]
  <1>3. q \in Threads(n) /\ q.pc = "daily" /\ q.acked = {} /\ q.empty = {}
    BY <1>2 DEF IdleCycle, Threads, Phases
  <1>4. /\ IdleCycle \in Threads(n) /\ IdleCycle.pc = "idle"
        /\ IdleCycle.acked = {} /\ IdleCycle.empty = {}
    BY IdleType DEF IdleCycle
  <1>5. Ended(c) = IdleCycle \/ Ended(c) = q
    BY DEF Ended, t
  <1> HIDE DEF q
  <1> QED
    BY <1>3, <1>4, <1>5

\* A thread that is to look for a row.
LEMMA FoundType ==
  ASSUME NEW n \in Nat, NEW to \in Nat
  PROVE  /\ [IdleCycle EXCEPT !.pc = "find", !.to = to] \in Threads(n)
         /\ [IdleCycle EXCEPT !.pc = "find", !.to = to].pc = "find"
         /\ [IdleCycle EXCEPT !.pc = "find", !.to = to].layer = 0
         /\ [IdleCycle EXCEPT !.pc = "find", !.to = to].to = to
         /\ [IdleCycle EXCEPT !.pc = "find", !.to = to].acked = {}
         /\ [IdleCycle EXCEPT !.pc = "find", !.to = to].empty = {}
         /\ [IdleCycle EXCEPT !.pc = "find", !.layer = 1, !.to = to] \in Threads(n)
         /\ [IdleCycle EXCEPT !.pc = "find", !.layer = 1, !.to = to].pc = "find"
         /\ [IdleCycle EXCEPT !.pc = "find", !.layer = 1, !.to = to].layer = 1
         /\ [IdleCycle EXCEPT !.pc = "find", !.layer = 1, !.to = to].acked = {}
         /\ [IdleCycle EXCEPT !.pc = "find", !.layer = 1, !.to = to].empty = {}
  <1>1. 0 \in 0..n
    OBVIOUS
  <1>2. [IdleCycle EXCEPT !.pc = "find", !.to = to] \in Threads(n)
    BY <1>1 DEF IdleCycle, Threads, Phases
  <1>3. [IdleCycle EXCEPT !.pc = "find", !.layer = 1, !.to = to] \in Threads(n)
    BY <1>1 DEF IdleCycle, Threads, Phases
  <1> QED
    BY <1>2, <1>3 DEF IdleCycle

\* Hours and days of the clock are numbers.
LEMMA HourType ==
  ASSUME NEW t \in Nat PROVE CurrentHour(t) \in Nat /\ CurrentDay(t) \in Nat
  <1>1. CurrentHour(t) \in Nat
    BY DEF CurrentHour
  <1> QED
    BY <1>1, DayStart DEF CurrentDay

\* What a write of one cycle does to the others.
LEMMA DisturbIs ==
  ASSUME NEW c \in Cycles, NEW n \in Nat, NEW others \in [Cycles -> Threads(n)]
  PROVE  /\ Disturb(c, others) \in [Cycles -> Threads(n)]
         /\ Disturb(c, others)[c] = others[c]
         /\ \A d \in Cycles :
              /\ Disturb(c, others)[d].pc = others[d].pc
              /\ Disturb(c, others)[d].layer = others[d].layer
              /\ Disturb(c, others)[d].to = others[d].to
              /\ Disturb(c, others)[d].log = others[d].log
              /\ Disturb(c, others)[d].acked = others[d].acked
              /\ Disturb(c, others)[d].empty = others[d].empty
  <1> DEFINE D == Disturb(c, others)
  <1>1. \A d \in Cycles : D[d] = others[d] \/ D[d] = [others[d] EXCEPT !.hurt = TRUE]
    BY DEF Disturb
  <1>2. D[c] = others[c] /\ DOMAIN D = Cycles /\ D = [d \in Cycles |-> D[d]]
    BY DEF Disturb
  <1> HIDE DEF D
  <1>3. ASSUME NEW t \in Threads(n)
        PROVE  LET s == [t EXCEPT !.hurt = TRUE] IN
               /\ s \in Threads(n) /\ s.pc = t.pc /\ s.layer = t.layer /\ s.to = t.to
               /\ s.log = t.log /\ s.acked = t.acked /\ s.empty = t.empty
    BY DEF Threads
  <1>4. ASSUME NEW d \in Cycles
        PROVE  /\ D[d] \in Threads(n) /\ D[d].pc = others[d].pc /\ D[d].layer = others[d].layer
               /\ D[d].to = others[d].to /\ D[d].log = others[d].log
               /\ D[d].acked = others[d].acked /\ D[d].empty = others[d].empty
    <2>1. others[d] \in Threads(n)
      OBVIOUS
    <2> QED
      BY <1>1, <1>3, <2>1
  <1>5. D \in [Cycles -> Threads(n)]
    BY <1>2, <1>4
  <1> QED
    BY <1>2, <1>4, <1>5 DEF D

\* The others stay threads when a cycle writes.
LEMMA DisturbType ==
  ASSUME NEW c \in Cycles, NEW n \in Nat, NEW others \in [Cycles -> Threads(n)]
  PROVE  Disturb(c, others) \in [Cycles -> Threads(n)]
  BY DisturbIs

\* What aggregate() does with a row: it sends it, or returns.
Considered(c, n, others, i, row) ==
  /\ memory' \in [Workers -> Memories]
  /\ cycle' \in [Cycles -> Threads(n)]
  /\ \A d \in Cycles \ {c} : cycle'[d] = others[d]
  /\ \/ cycle'[c] = [others[c] EXCEPT !.pc = "send", !.log = i]
     \/ cycle'[c] = Ended(c)
  /\ ~row.reported /\ row.kind # "empty" /\ WhetherToSend(c) = {TRUE} => cycle'[c] # Ended(c)
  /\ \A w \in Workers : memory'[w].exec = memory[w].exec

\* Consider types what it changes, and ends the cycle unless it has a row to send.
LEMMA ConsiderIs ==
  ASSUME ReportTypeOK, NEW c \in Cycles, NEW n \in Nat, NEW others \in [Cycles -> Threads(n)],
         NEW i \in 1..n, NEW row \in ReportLogType, Consider(c, others, i, row)
  PROVE  Considered(c, n, others, i, row)
  <1>1. memory \in [Workers -> Memories] /\ WorkerOf[c] \in Workers /\ others[c] \in Threads(n)
    BY TypeByThreads
  <1>2. row.to \in Nat /\ row.reported \in BOOLEAN
    BY DEF ReportLogType
  <1>3. memory' \in [Workers -> Memories] /\ \A w \in Workers : memory'[w].exec = memory[w].exec
    <2>1. CASE cycle[c].layer = 0
      <3> DEFINE m == [memory[WorkerOf[c]] EXCEPT !.hourly = [to |-> row.to, reported |-> row.reported]]
      <3>1. m \in Memories /\ m.exec = memory[WorkerOf[c]].exec
        BY <1>1, <1>2 DEF Memories
      <3>2. memory' = [memory EXCEPT ![WorkerOf[c]] = m]
        BY <2>1 DEF Consider, Remember
      <3> QED
        BY <1>1, <3>1, <3>2
    <2>2. CASE cycle[c].layer # 0
      <3> DEFINE m == [memory[WorkerOf[c]] EXCEPT !.daily = row.to]
      <3>1. m \in Memories /\ m.exec = memory[WorkerOf[c]].exec
        BY <1>1, <1>2 DEF Memories
      <3>2. memory' = [memory EXCEPT ![WorkerOf[c]] = m]
        BY <2>2 DEF Consider, Remember
      <3> QED
        BY <1>1, <3>1, <3>2
    <2> QED
      BY <2>1, <2>2
  <1> DEFINE p == [others[c] EXCEPT !.pc = "send", !.log = i]
  <1>4. p \in Threads(n) /\ p.pc = "send"
    <2>1. i \in 0..n
      OBVIOUS
    <2> QED
      BY <1>1, <2>1 DEF Threads, Phases
  <1>5. Ended(c) \in Threads(n) /\ Ended(c).pc # "send"
    BY EndedType
  <1>6. PICK send \in IF row.reported \/ row.kind = "empty" THEN {FALSE} ELSE WhetherToSend(c) :
          cycle' = [others EXCEPT ![c] = IF send THEN p ELSE Ended(c)]
    BY DEF Consider
  <1> HIDE DEF p
  <1>7. cycle' \in [Cycles -> Threads(n)] /\ cycle'[c] = (IF send THEN p ELSE Ended(c))
        /\ \A d \in Cycles \ {c} : cycle'[d] = others[d]
    BY <1>4, <1>5, <1>6
  <1>8. ASSUME ~row.reported, row.kind # "empty", WhetherToSend(c) = {TRUE} PROVE cycle'[c] # Ended(c)
    BY <1>4, <1>5, <1>6, <1>7, <1>8
  <1> QED
    BY <1>3, <1>7, <1>8 DEF p, Considered

\* The types hold at the beginning: no row, no cycle, nothing in memory.
LEMMA ReportInitType == ReportInit => ReportTypeOK
  <1> SUFFICES ASSUME ReportInit PROVE ReportTypeOK
    OBVIOUS
  <1>1. logs = << >> /\ Len(logs) = 0 /\ logs \in Seq(ReportLogType)
    BY EmptySeq DEF ReportInit
  <1>2. IdleCycle \in Threads(0)
    BY IdleType
  <1>3. cycle \in [Cycles -> Threads(Len(logs))]
    BY <1>1, <1>2 DEF ReportInit
  <1>4. memory \in [Workers -> Memories]
    BY DEF ReportInit, Memories, None
  <1>5. clock \in 0..MaxClock /\ primary \in Workers /\ Len(logs) <= MaxLogs
    BY <1>1 DEF ReportInit
  <1>6. /\ done \in [begun: BOOLEAN, kept: BOOLEAN]
        /\ budget \in [upsets: 0..MaxUpsets, lost: 0..MaxLost, odd: 0..MaxPartial]
    BY DEF ReportInit
  <1> QED
    BY <1>1, <1>3, <1>4, <1>5, <1>6, TypeByThreads

\* A step of one thread, in which only it and the ghosts of others change.
LEMMA OneThread ==
  ASSUME ReportTypeOK, NEW c \in Cycles, NEW t \in Threads(Len(logs)), cycle' = [cycle EXCEPT ![c] = t]
  PROVE  /\ cycle' \in [Cycles -> Threads(Len(logs))]
         /\ cycle'[c] = t
         /\ \A d \in Cycles \ {c} : Kept(d)
  BY TypeByThreads DEF Kept

\* The same when the thread writes rows.
LEMMA OneWriter ==
  ASSUME ReportTypeOK, NEW c \in Cycles, NEW t \in Threads(Len(logs)),
         cycle' = Disturb(c, [cycle EXCEPT ![c] = t])
  PROVE  /\ cycle' \in [Cycles -> Threads(Len(logs))]
         /\ cycle'[c] = t
         /\ \A d \in Cycles \ {c} : Kept(d)
  <1> DEFINE n == Len(logs)
             others == [cycle EXCEPT ![c] = t]
  <1>1. cycle \in [Cycles -> Threads(n)] /\ n \in Nat
    BY TypeByThreads
  <1>2. cycle' = Disturb(c, others)
    OBVIOUS
  <1> HIDE DEF n
  <1>3. others \in [Cycles -> Threads(n)] /\ others[c] = t
        /\ \A d \in Cycles \ {c} : others[d] = cycle[d]
    BY <1>1 DEF n
  <1> HIDE DEF others
  <1>4. cycle' \in [Cycles -> Threads(n)]
    <2>1. \A o \in [Cycles -> Threads(n)] : Disturb(c, o) \in [Cycles -> Threads(n)]
      BY <1>1, DisturbType
    <2>2. others \in [Cycles -> Threads(n)]
      BY <1>3
    <2>3. Disturb(c, others) \in [Cycles -> Threads(n)]
      BY <2>1, <2>2
    <2> QED
      BY <1>2, <2>3
  <1>6. cycle'[c] = others[c]
    BY <1>1, <1>2, <1>3, DisturbIs
  <1>5. ASSUME NEW d \in Cycles \ {c} PROVE Kept(d)
    BY <1>1, <1>2, <1>3, DisturbIs DEF Kept
  <1> QED
    BY <1>3, <1>4, <1>5, <1>6 DEF n

\* Rows that are marked, sent or both are rows still.
LEMMA OneRow ==
  ASSUME NEW row \in ReportLogType, NEW layer \in {0, 1}, NEW remote \in BOOLEAN
  PROVE  /\ Receive(row, layer) \in ReportLogType
         /\ [row EXCEPT !.reported = TRUE, !.remote = remote] \in ReportLogType
         /\ [row EXCEPT !.reported = TRUE] \in ReportLogType
  <1> DEFINE wrong == row.wrong \/ layer # row.layer
             got == row.got + 1
  <1>0. wrong \in BOOLEAN /\ got \in Nat /\ Receive(row, layer) = [row EXCEPT !.got = got, !.wrong = wrong]
    BY DEF Receive, ReportLogType
  <1> HIDE DEF wrong, got
  <1>1. Receive(row, layer) \in ReportLogType
    BY <1>0 DEF ReportLogType
  <1>2. [row EXCEPT !.reported = TRUE, !.remote = remote] \in ReportLogType
    BY DEF ReportLogType
  <1>3. [row EXCEPT !.reported = TRUE] \in ReportLogType
    BY DEF ReportLogType
  <1> QED
    BY <1>1, <1>2, <1>3
-----------------------------------------------------------------------------
(* What each step of a cycle does *)

Spares(c) == (\A d \in Cycles \ {c} : Kept(d)) /\ RowsKept

\* A step that writes no row.
LEMMA RowsSame == ASSUME ReportTypeOK, UNCHANGED logs PROVE RowsKept
  <1>1. logs \in Seq(ReportLogType) /\ Len(logs) \in Nat
    BY TypeByThreads
  <1> QED
    BY <1>1 DEF RowsKept

\* What the query of a period finds are rows, the first of them too.
LEMMA FoundAreRows ==
  ASSUME ReportTypeOK, NEW layer, NEW to
  PROVE  /\ FoundLogs(layer, to) \subseteq 1..Len(logs)
         /\ FoundLogs(layer, to) # {} => First(FoundLogs(layer, to)) \in FoundLogs(layer, to)
  <1>1. Len(logs) \in Nat
    BY TypeByThreads
  <1>2. FoundLogs(layer, to) \subseteq 1..Len(logs) /\ FoundLogs(layer, to) \subseteq Nat
    BY <1>1 DEF FoundLogs
  <1>3. ASSUME FoundLogs(layer, to) # {} PROVE First(FoundLogs(layer, to)) \in FoundLogs(layer, to)
    <2>1. \E i \in FoundLogs(layer, to) : \A j \in FoundLogs(layer, to) : i <= j
      BY <1>2, <1>3, FirstNumber
    <2> QED
      BY <2>1 DEF First
  <1> QED
    BY <1>2, <1>3

\* A thread begins with the report of the hour.
LEMMA StartEffect ==
  ASSUME ReportTypeOK, NEW c \in Cycles, StartCycle(c)
  PROVE  /\ ReportTypeOK' /\ Spares(c) /\ UNCHANGED <<clock, primary, logs, budget>>
         /\ cycle[c].pc = "idle" /\ WorkerOf[c] = primary /\ ~done.begun
         /\ done' = [done EXCEPT !.begun = TRUE] /\ memory'[primary].exec = clock
         /\ cycle'[c].pc = "find" /\ cycle'[c].layer = 0 /\ cycle'[c].to = CurrentHour(clock)
         /\ cycle'[c].acked = {} /\ cycle'[c].empty = {}
  <1> DEFINE h == CurrentHour(clock)
             t == [IdleCycle EXCEPT !.pc = "find", !.to = h]
             n == Len(logs)
  <1>1. n \in Nat /\ clock \in Nat /\ primary \in Workers /\ memory \in [Workers -> Memories]
    BY TypeByThreads
  <1>2. h \in Nat
    BY <1>1, HourType
  <1> HIDE DEF h, n
  <1>3. /\ t \in Threads(n) /\ t.pc = "find" /\ t.layer = 0 /\ t.to = h
        /\ t.acked = {} /\ t.empty = {}
    BY <1>1, <1>2, FoundType
  <1>4. cycle' = [cycle EXCEPT ![c] = t]
    BY DEF StartCycle, h
  <1> HIDE DEF t
  <1>5. cycle' \in [Cycles -> Threads(n)] /\ cycle'[c] = t /\ \A d \in Cycles \ {c} : Kept(d)
    BY <1>3, <1>4, OneThread DEF n
  <1>6. memory' = [memory EXCEPT ![primary].exec = clock]
    BY DEF StartCycle
  <1>7. memory' \in [Workers -> Memories] /\ memory'[primary].exec = clock
    <2> DEFINE m == [memory[primary] EXCEPT !.exec = clock]
    <2>1. memory' = [memory EXCEPT ![primary] = m]
      BY <1>6
    <2>2. m \in Memories /\ m.exec = clock
      BY <1>1 DEF Memories
    <2> HIDE DEF m
    <2> QED
      BY <1>1, <2>1, <2>2
  <1>8. /\ UNCHANGED <<clock, primary, logs, budget>> /\ done' = [done EXCEPT !.begun = TRUE]
        /\ cycle[c].pc = "idle" /\ WorkerOf[c] = primary /\ ~done.begun
    BY DEF StartCycle, Busy
  <1>9. ReportTypeOK'
    BY <1>5, <1>7, <1>8, TypeByThreads DEF ReportTypeOK, Memories, Threads, Phases, n
  <1> QED
    BY <1>3, <1>5, <1>7, <1>8, <1>9, RowsSame DEF Spares, h

\* The thread is in the step after a search: it sends the row i, or is done with it.
Sends(c, i) == cycle'[c] = [cycle[c] EXCEPT !.pc = "send", !.log = i]

\* What a thread that is to send a row knows.
LEMMA SendsIs ==
  ASSUME ReportTypeOK, NEW c \in Cycles, NEW i, Sends(c, i)
  PROVE  /\ cycle'[c].pc = "send" /\ cycle'[c].log = i /\ cycle'[c].layer = cycle[c].layer
         /\ cycle'[c].to = cycle[c].to /\ cycle'[c].acked = cycle[c].acked
         /\ cycle'[c].empty = cycle[c].empty
  <1>1. cycle[c] \in Threads(Len(logs))
    BY TypeByThreads
  <1> QED
    BY <1>1 DEF Sends, Threads

\* The search: a row is found and considered, or is to be created.
LEMMA FindEffect ==
  ASSUME ReportTypeOK, NEW c \in Cycles, FindLog(c)
  PROVE  /\ ReportTypeOK' /\ Spares(c) /\ UNCHANGED <<clock, primary, logs, done, budget>>
         /\ cycle[c].pc = "find" /\ \A w \in Workers : memory'[w].exec = memory[w].exec
         /\ \/ /\ FoundLogs(cycle[c].layer, cycle[c].to) = {}
               /\ cycle'[c] = [cycle[c] EXCEPT !.pc = "create"]
            \/ \E i \in FoundLogs(cycle[c].layer, cycle[c].to) :
                 \/ Sends(c, i)
                 \/ /\ cycle'[c] = Ended(c)
                    /\ WhetherToSend(c) = {TRUE} => logs[i].reported \/ logs[i].kind = "empty"
  <1> DEFINE n == Len(logs)
             found == FoundLogs(cycle[c].layer, cycle[c].to)
  <1>1. /\ n \in Nat /\ cycle \in [Cycles -> Threads(n)] /\ logs \in Seq(ReportLogType)
        /\ memory \in [Workers -> Memories]
    BY TypeByThreads
  <1>2. UNCHANGED <<clock, primary, logs, done, budget>> /\ cycle[c].pc = "find"
    BY DEF FindLog, InPhase
  <1>3. CASE found = {}
    <2> DEFINE t == [cycle[c] EXCEPT !.pc = "create"]
    <2>1. cycle' = [cycle EXCEPT ![c] = t] /\ memory' = memory
      BY <1>1, <1>3 DEF FindLog, Become
    <2>2. t \in Threads(n)
      <3>1. cycle[c] \in Threads(n)
        BY <1>1
      <3> HIDE DEF n
      <3> QED
        BY <3>1 DEF Threads, Phases
    <2> HIDE DEF t
    <2>3. cycle' \in [Cycles -> Threads(n)] /\ cycle'[c] = t /\ \A d \in Cycles \ {c} : Kept(d)
      BY <2>1, <2>2, OneThread
    <2>4. ReportTypeOK'
      BY <1>2, <2>1, <2>3 DEF ReportTypeOK, Threads, Phases
    <2> QED
      BY <1>2, <1>3, <2>1, <2>3, <2>4, RowsSame DEF Spares, t
  <1>4. CASE found # {}
    <2> DEFINE i == First(found)
    <2>1. i \in found /\ i \in 1..n
      BY <1>4, FoundAreRows
    <2>2. Consider(c, cycle, i, logs[i])
      BY <1>4 DEF FindLog
    <2>3. logs[i] \in ReportLogType
      BY <1>1, <2>1
    <2> HIDE DEF i, n, found
    <2>4. /\ memory' \in [Workers -> Memories] /\ cycle' \in [Cycles -> Threads(n)]
          /\ \A d \in Cycles \ {c} : cycle'[d] = cycle[d]
          /\ Sends(c, i) \/ cycle'[c] = Ended(c)
          /\ ~logs[i].reported /\ logs[i].kind # "empty" /\ WhetherToSend(c) = {TRUE} => cycle'[c] # Ended(c)
          /\ \A w \in Workers : memory'[w].exec = memory[w].exec
      <3>1. \A o \in [Cycles -> Threads(n)], k \in 1..n, r \in ReportLogType :
              Consider(c, o, k, r) => Considered(c, n, o, k, r)
        BY <1>1, ConsiderIs
      <3>2. Considered(c, n, cycle, i, logs[i])
        BY <1>1, <2>1, <2>2, <2>3, <3>1
      <3> QED
        BY <3>2 DEF Considered, Sends
    <2>5. ReportTypeOK'
      BY <1>2, <2>4 DEF ReportTypeOK, Threads, Phases, Memories, n
    <2>6. Spares(c)
      BY <1>2, <2>4, RowsSame DEF Spares, Kept
    <2> QED
      BY <1>2, <2>1, <2>4, <2>5, <2>6 DEF found
  <1> QED
    BY <1>3, <1>4

\* A new row, after those there are.
LEMMA RowAdded ==
  ASSUME ReportTypeOK, NEW row \in ReportLogType, logs' = Append(logs, row)
  PROVE  /\ Len(logs) \in Nat /\ Len(logs') = Len(logs) + 1 /\ logs' \in Seq(ReportLogType)
         /\ logs'[Len(logs) + 1] = row
         /\ \A i \in 1..Len(logs) : logs'[i] = logs[i]
         /\ RowsKept
  <1>1. logs \in Seq(ReportLogType) /\ Len(logs) \in Nat
    BY TypeByThreads
  <1>2. /\ Len(logs') = Len(logs) + 1 /\ logs' \in Seq(ReportLogType) /\ logs'[Len(logs) + 1] = row
        /\ \A i \in 1..Len(logs) : logs'[i] = logs[i] /\ logs[i] \in ReportLogType
    BY <1>1
  <1> QED
    BY <1>1, <1>2 DEF RowsKept

\* A report is generated, and its row considered.
LEMMA CreateEffect ==
  ASSUME ReportTypeOK, NEW c \in Cycles, CreateLog(c)
  PROVE  /\ ReportTypeOK' /\ Spares(c) /\ UNCHANGED <<clock, primary, done>>
         /\ cycle[c].pc = "create" /\ \A w \in Workers : memory'[w].exec = memory[w].exec
         /\ budget'.upsets = budget.upsets
         /\ Len(logs') = Len(logs) + 1 /\ \A i \in 1..Len(logs) : logs'[i] = logs[i]
         /\ \E row \in ReportLogType :
              /\ logs'[Len(logs) + 1] = row /\ row.layer = cycle[c].layer /\ row.to = cycle[c].to
              /\ row.reported = (row.kind = "empty") /\ ~row.remote
              /\ \/ Sends(c, Len(logs) + 1)
                 \/ /\ cycle'[c] = Ended(c)
                    /\ WhetherToSend(c) = {TRUE} => row.kind = "empty"
  <1> DEFINE n == Len(logs)
             m == n + 1
             others == Disturb(c, cycle)
  <1>1. /\ n \in Nat /\ cycle \in [Cycles -> Threads(n)] /\ cycle[c] \in Threads(n)
        /\ clock \in Nat /\ n <= MaxLogs
    BY TypeByThreads
  <1>2. UNCHANGED <<clock, primary, done>> /\ cycle[c].pc = "create" /\ Len(logs) < MaxLogs
    BY DEF CreateLog, InPhase
  <1>3. PICK kind \in ReportKinds :
          LET row == [layer |-> cycle[c].layer, to |-> cycle[c].to, kind |-> kind,
                      created |-> clock, reported |-> kind = "empty", remote |-> FALSE,
                      got |-> 0, wrong |-> FALSE]
          IN  /\ budget.odd < MaxPartial \/ kind = "full"
              /\ budget' = [budget EXCEPT !.odd = @ + IF kind = "full" THEN 0 ELSE 1]
              /\ logs' = Append(logs, row)
              /\ Consider(c, others, m, row)
    BY DEF CreateLog
  <1> DEFINE row == [layer |-> cycle[c].layer, to |-> cycle[c].to, kind |-> kind,
                     created |-> clock, reported |-> kind = "empty", remote |-> FALSE,
                     got |-> 0, wrong |-> FALSE]
  <1>4. /\ budget.odd < MaxPartial \/ kind = "full"
        /\ budget' = [budget EXCEPT !.odd = @ + IF kind = "full" THEN 0 ELSE 1]
        /\ logs' = Append(logs, row) /\ Consider(c, others, m, row)
    BY <1>3
  <1>5. cycle[c].layer \in {0, 1} /\ cycle[c].to \in Nat
    BY <1>1 DEF Threads
  <1>6. row \in ReportLogType
    BY <1>1, <1>5 DEF ReportLogType, ReportKinds
  <1>7. /\ row.layer = cycle[c].layer /\ row.to = cycle[c].to /\ row.kind = kind
        /\ row.reported = (row.kind = "empty") /\ ~row.remote
    OBVIOUS
  <1> HIDE DEF row
  <1>8. /\ Len(logs') = m /\ logs' \in Seq(ReportLogType) /\ logs'[m] = row
        /\ (\A i \in 1..n : logs'[i] = logs[i]) /\ RowsKept
    BY <1>4, <1>6, RowAdded
  <1> HIDE DEF n
  <1>9. m \in Nat /\ n <= m /\ m \in 1..m /\ m <= MaxLogs
    BY <1>1, <1>2 DEF n
  <1> HIDE DEF m
  <1>10. others \in [Cycles -> Threads(n)] /\ others[c] = cycle[c]
         /\ \A d \in Cycles : /\ others[d].pc = cycle[d].pc /\ others[d].layer = cycle[d].layer
                              /\ others[d].to = cycle[d].to /\ others[d].log = cycle[d].log
                              /\ others[d].acked = cycle[d].acked /\ others[d].empty = cycle[d].empty
    <2>1. \A o \in [Cycles -> Threads(n)] : Disturb(c, o) \in [Cycles -> Threads(n)]
      BY <1>1, DisturbType
    <2> QED
      BY <1>1, <2>1, DisturbIs
  <1> HIDE DEF others
  <1>11. others \in [Cycles -> Threads(m)]
    <2>1. Threads(n) \subseteq Threads(m)
      BY <1>1, <1>9, ThreadsGrow
    <2> QED
      BY <1>10, <2>1
  <1>12. Considered(c, m, others, m, row)
    <2>1. \A o \in [Cycles -> Threads(m)], k \in 1..m, r \in ReportLogType :
            Consider(c, o, k, r) => Considered(c, m, o, k, r)
      BY <1>9, ConsiderIs
    <2> QED
      BY <1>4, <1>6, <1>9, <1>11, <2>1
  <1>13. \A d \in Cycles \ {c} : Kept(d)
    BY <1>10, <1>12 DEF Considered, Kept
  <1>14. budget' \in [upsets: 0..MaxUpsets, lost: 0..MaxLost, odd: 0..MaxPartial]
         /\ budget'.upsets = budget.upsets
    <2>1. budget \in [upsets: 0..MaxUpsets, lost: 0..MaxLost, odd: 0..MaxPartial]
      BY TypeByThreads
    <2> DEFINE odd == budget.odd + IF kind = "full" THEN 0 ELSE 1
    <2>2. odd \in 0..MaxPartial
      BY <1>4, <2>1
    <2>3. budget' = [budget EXCEPT !.odd = odd]
      BY <1>4
    <2> HIDE DEF odd
    <2> QED
      BY <2>1, <2>2, <2>3
  <1>15. ReportTypeOK'
    <2>1. memory' \in [Workers -> Memories] /\ cycle' \in [Cycles -> Threads(Len(logs'))]
      BY <1>8, <1>12 DEF Considered
    <2>2. clock' \in 0..MaxClock /\ primary' \in Workers /\ done' \in [begun: BOOLEAN, kept: BOOLEAN]
      BY <1>2, TypeByThreads
    <2> QED
      BY <1>8, <1>9, <1>14, <2>1, <2>2 DEF ReportTypeOK, Threads, Phases, Memories
  <1>16. \/ Sends(c, m)
         \/ /\ cycle'[c] = Ended(c)
            /\ WhetherToSend(c) = {TRUE} => row.kind = "empty"
    BY <1>7, <1>10, <1>12 DEF Considered, Sends
  <1> QED
    BY <1>2, <1>6, <1>7, <1>8, <1>12, <1>13, <1>14, <1>15, <1>16 DEF Spares, Considered, m, n

\* A cycle that has a row in hand looks after the period the row is of.
HeldOK ==
  \A c \in Cycles :
    cycle[c].pc \in {"send", "mark", "noid"} =>
      cycle[c].log \in 1..Len(logs) /\ SameLog(cycle[c].log, cycle[c].layer, cycle[c].to)

\* Rows that are sent: nothing of them changes but what the supervisor has.
RowsSent ==
  /\ Len(logs') = Len(logs)
  /\ \A i \in 1..Len(logs) :
       /\ logs'[i].reported = logs[i].reported /\ logs'[i].remote = logs[i].remote
       /\ logs'[i].kind = logs[i].kind

\* Some rows are received by the supervisor.
LEMMA ReceiveRows ==
  ASSUME ReportTypeOK, NEW ids, NEW layer \in {0, 1},
         logs' = [i \in 1..Len(logs) |-> IF i \in ids THEN Receive(logs[i], layer) ELSE logs[i]]
  PROVE  /\ logs' \in Seq(ReportLogType) /\ RowsSent /\ RowsKept
         /\ \A i \in 1..Len(logs) : i \in ids => logs'[i].got > 0
  <1> DEFINE n == Len(logs)
  <1>1. n \in Nat /\ \A i \in 1..n : logs[i] \in ReportLogType
    BY TypeByThreads
  <1>2. logs' = [i \in 1..n |-> IF i \in ids THEN Receive(logs[i], layer) ELSE logs[i]]
    OBVIOUS
  <1>3. \A row \in ReportLogType : Receive(row, layer) \in ReportLogType
    BY OneRow
  <1> HIDE DEF n
  <1>4. logs' \in [1..n -> ReportLogType] /\ DOMAIN logs' = 1..n
    BY <1>1, <1>2, <1>3
  <1>5. logs' \in Seq(ReportLogType)
    BY <1>1, <1>4, SeqDef
  <1>6. Len(logs') = n
    BY <1>1, <1>4, <1>5
  <1>7. ASSUME NEW row \in ReportLogType
        PROVE  /\ Receive(row, layer).layer = row.layer /\ Receive(row, layer).to = row.to
               /\ Receive(row, layer).kind = row.kind /\ Receive(row, layer).reported = row.reported
               /\ Receive(row, layer).remote = row.remote
               /\ Receive(row, layer).got = row.got + 1 /\ row.got \in Nat
    BY DEF Receive, ReportLogType
  <1>8. \A i \in 1..n : logs'[i] = IF i \in ids THEN Receive(logs[i], layer) ELSE logs[i]
    BY <1>2
  <1>9. ASSUME NEW i \in 1..n
        PROVE  /\ logs'[i].layer = logs[i].layer /\ logs'[i].to = logs[i].to /\ logs'[i].kind = logs[i].kind
               /\ logs'[i].reported = logs[i].reported /\ logs'[i].remote = logs[i].remote
               /\ logs[i].got > 0 \/ i \in ids => logs'[i].got > 0
    <2>1. logs[i] \in ReportLogType
      BY <1>1
    <2>2. CASE i \in ids
      <3>1. logs'[i] = Receive(logs[i], layer)
        BY <1>8, <2>2
      <3>2. logs'[i].got = logs[i].got + 1 /\ logs[i].got \in Nat
        BY <1>7, <2>1, <3>1
      <3> QED
        BY <1>7, <2>1, <3>1, <3>2
    <2>3. CASE i \notin ids
      <3>1. logs'[i] = logs[i]
        BY <1>8, <2>3
      <3> QED
        BY <1>7, <2>1, <2>3, <3>1
    <2> QED
      BY <2>2, <2>3
  <1> QED
    BY <1>1, <1>5, <1>6, <1>9 DEF RowsSent, RowsKept, n

\* A report that does not arrive leaves the rows and marks none as sent.
LEMMA NotReceived ==
  ASSUME ReportTypeOK, UNCHANGED logs
  PROVE  logs' \in Seq(ReportLogType) /\ RowsSent /\ RowsKept
  BY RowsSame, TypeByThreads DEF RowsSent

\* One row is received.
LEMMA ReceiveRow ==
  ASSUME ReportTypeOK, NEW i \in 1..Len(logs), NEW layer \in {0, 1},
         logs' = [logs EXCEPT ![i] = Receive(@, layer)]
  PROVE  /\ logs' \in Seq(ReportLogType) /\ RowsSent /\ RowsKept /\ logs'[i].got > 0
  <1>1. logs \in Seq(ReportLogType) /\ DOMAIN logs = 1..Len(logs)
    BY TypeByThreads
  <1>2. logs' = [j \in 1..Len(logs) |-> IF j \in {i} THEN Receive(logs[j], layer) ELSE logs[j]]
    BY <1>1
  <1> QED
    BY ZenonT(60), <1>2, ReceiveRows

\* A thread that goes to another phase, and one that returns from aggregate().
LEMMA PhaseIs ==
  ASSUME ReportTypeOK, NEW c \in Cycles, NEW pc \in Phases, cycle' = [cycle EXCEPT ![c].pc = pc]
  PROVE  /\ cycle' \in [Cycles -> Threads(Len(logs))] /\ \A d \in Cycles \ {c} : Kept(d)
         /\ cycle'[c] = [cycle[c] EXCEPT !.pc = pc]
         /\ cycle'[c].pc = pc /\ cycle'[c].layer = cycle[c].layer /\ cycle'[c].to = cycle[c].to
         /\ cycle'[c].log = cycle[c].log /\ cycle'[c].acked = cycle[c].acked
         /\ cycle'[c].empty = cycle[c].empty
  <1> DEFINE n == Len(logs)
             t == [cycle[c] EXCEPT !.pc = pc]
  <1>1. cycle \in [Cycles -> Threads(n)] /\ cycle[c] \in Threads(n)
    BY TypeByThreads
  <1>2. cycle' = [cycle EXCEPT ![c] = t]
    BY <1>1
  <1> HIDE DEF n
  <1>3. /\ t \in Threads(n) /\ t.pc = pc /\ t.layer = cycle[c].layer /\ t.to = cycle[c].to
        /\ t.log = cycle[c].log /\ t.acked = cycle[c].acked /\ t.empty = cycle[c].empty
    BY <1>1 DEF Threads
  <1> HIDE DEF t
  <1>4. cycle' \in [Cycles -> Threads(n)] /\ cycle'[c] = t /\ \A d \in Cycles \ {c} : Kept(d)
    BY <1>2, <1>3, OneThread DEF n
  <1> QED
    BY <1>3, <1>4 DEF n, t

\* A cycle that ends changes its own thread alone.
LEMMA EndIs ==
  ASSUME ReportTypeOK, NEW c \in Cycles, cycle' = [cycle EXCEPT ![c] = Ended(c)]
  PROVE  /\ cycle' \in [Cycles -> Threads(Len(logs))] /\ \A d \in Cycles \ {c} : Kept(d)
         /\ cycle'[c] = Ended(c)
  <1>1. Len(logs) \in Nat
    BY TypeByThreads
  <1> QED
    BY <1>1, EndedType, OneThread

\* The shared part of a step of thread c that neither adds rows nor touches the clock.
LEMMA StepType ==
  ASSUME ReportTypeOK, cycle' \in [Cycles -> Threads(Len(logs))], logs' \in Seq(ReportLogType),
         Len(logs') = Len(logs), memory' \in [Workers -> Memories], UNCHANGED <<clock, primary>>,
         done' \in [begun: BOOLEAN, kept: BOOLEAN],
         budget' \in [upsets: 0..MaxUpsets, lost: 0..MaxLost, odd: 0..MaxPartial]
  PROVE  ReportTypeOK'
  <1>1. clock \in 0..MaxClock /\ primary \in Workers /\ Len(logs) <= MaxLogs
    BY TypeByThreads
  <1> QED
    BY <1>1 DEF ReportTypeOK, Threads, Phases, Memories

\* A lost answer takes one from its bound and nothing from that of the upsets.
LEMMA LoseIs ==
  ASSUME ReportTypeOK, Lose
  PROVE  /\ budget' \in [upsets: 0..MaxUpsets, lost: 0..MaxLost, odd: 0..MaxPartial]
         /\ budget'.upsets = budget.upsets
  <1>1. budget \in [upsets: 0..MaxUpsets, lost: 0..MaxLost, odd: 0..MaxPartial]
    BY TypeByThreads
  <1> DEFINE lost == budget.lost + 1
  <1>2. lost \in 0..MaxLost /\ budget' = [budget EXCEPT !.lost = lost]
    BY <1>1 DEF Lose
  <1> HIDE DEF lost
  <1> QED
    BY <1>1, <1>2

\* What was stored is forgotten, what was begun is not.
LEMMA UnkeptIs ==
  ASSUME ReportTypeOK, done' = [done EXCEPT !.kept = FALSE]
  PROVE  done' \in [begun: BOOLEAN, kept: BOOLEAN] /\ done'.begun = done.begun /\ ~done'.kept
  <1>1. done \in [begun: BOOLEAN, kept: BOOLEAN]
    BY TypeByThreads
  <1> QED
    BY <1>1

\* A report is sent; the answer has an id, has none, or is a failure.
LEMMA SendEffect ==
  ASSUME ReportTypeOK, HeldOK, NEW c \in Cycles, SendLog(c)
  PROVE  /\ ReportTypeOK' /\ Spares(c) /\ UNCHANGED <<clock, primary>>
         /\ RowsSent /\ budget'.upsets = budget.upsets /\ done'.begun = done.begun
         /\ \A w \in Workers : memory'[w].exec = memory[w].exec
         /\ cycle[c].pc = "send"
         /\ \/ \E pc \in {"mark", "noid"} :
                 /\ cycle'[c].pc = pc /\ cycle'[c].layer = cycle[c].layer
                 /\ cycle'[c].to = cycle[c].to /\ cycle'[c].log = cycle[c].log
                 /\ cycle'[c].acked = cycle[c].acked /\ cycle'[c].empty = cycle[c].empty
                 /\ logs'[cycle[c].log].got > 0
                 /\ (done'.kept => done.kept)
            \/ cycle'[c] = Ended(c) /\ ~done'.kept
  <1> DEFINE i == cycle[c].log
             layer == cycle[c].layer
             store == logs' = [logs EXCEPT ![i] = Receive(@, layer)]
  <1>1. UNCHANGED <<clock, primary>> /\ cycle[c].pc = "send"
    BY DEF SendLog, InPhase
  <1>2. i \in 1..Len(logs) /\ layer \in {0, 1}
    <2>1. cycle[c] \in Threads(Len(logs))
      BY TypeByThreads
    <2> QED
      BY <1>1, <2>1 DEF HeldOK, Threads
  <1>3. store => /\ logs' \in Seq(ReportLogType) /\ RowsSent /\ RowsKept /\ logs'[i].got > 0
    BY <1>2, ReceiveRow
  <1>4. ASSUME memory' = IF cycle[c].layer = 0 THEN [memory EXCEPT ![WorkerOf[c]].hourly.reported = TRUE]
                         ELSE memory
        PROVE  memory' \in [Workers -> Memories] /\ \A w \in Workers : memory'[w].exec = memory[w].exec
    <2>1. memory \in [Workers -> Memories] /\ WorkerOf[c] \in Workers
      BY TypeByThreads
    <2>2. CASE cycle[c].layer # 0
      BY <1>4, <2>1, <2>2
    <2>3. CASE cycle[c].layer = 0
      <3> DEFINE m == [memory[WorkerOf[c]] EXCEPT !.hourly = [memory[WorkerOf[c]].hourly EXCEPT !.reported = TRUE]]
      <3>1. memory' = [memory EXCEPT ![WorkerOf[c]] = m]
        BY <1>4, <2>3
      <3>2. m \in Memories /\ m.exec = memory[WorkerOf[c]].exec
        BY ZenonT(60), <2>1 DEF Memories
      <3> HIDE DEF m
      <3> QED
        BY <2>1, <3>1, <3>2
    <2> QED
      BY <2>2, <2>3
  <1>5. \/ /\ store /\ cycle' = [cycle EXCEPT ![c].pc = "mark"]
           /\ memory' = IF cycle[c].layer = 0 THEN [memory EXCEPT ![WorkerOf[c]].hourly.reported = TRUE]
                        ELSE memory
           /\ UNCHANGED <<budget, done>>
        \/ /\ store /\ cycle' = [cycle EXCEPT ![c].pc = "noid"]
           /\ memory' = IF cycle[c].layer = 0 THEN [memory EXCEPT ![WorkerOf[c]].hourly.reported = TRUE]
                        ELSE memory
           /\ Lose /\ done' = [done EXCEPT !.kept = FALSE]
        \/ /\ store \/ UNCHANGED logs
           /\ Lose /\ cycle' = [cycle EXCEPT ![c] = Ended(c)]
           /\ done' = [done EXCEPT !.kept = FALSE] /\ UNCHANGED memory
    BY DEF SendLog
  <1> HIDE DEF store, i, layer
  <1>6. ASSUME NEW pc \in {"mark", "noid"}, store, cycle' = [cycle EXCEPT ![c].pc = pc],
               memory' = IF cycle[c].layer = 0 THEN [memory EXCEPT ![WorkerOf[c]].hourly.reported = TRUE]
                         ELSE memory,
               UNCHANGED <<budget, done>> \/ (Lose /\ done' = [done EXCEPT !.kept = FALSE])
        PROVE  /\ ReportTypeOK' /\ Spares(c) /\ RowsSent
               /\ budget'.upsets = budget.upsets /\ done'.begun = done.begun /\ (done'.kept => done.kept)
               /\ \A w \in Workers : memory'[w].exec = memory[w].exec
               /\ cycle'[c].pc = pc /\ cycle'[c].layer = cycle[c].layer
               /\ cycle'[c].to = cycle[c].to /\ cycle'[c].log = cycle[c].log
               /\ cycle'[c].acked = cycle[c].acked /\ cycle'[c].empty = cycle[c].empty
               /\ logs'[i].got > 0
    <2>1. /\ budget' \in [upsets: 0..MaxUpsets, lost: 0..MaxLost, odd: 0..MaxPartial]
          /\ done' \in [begun: BOOLEAN, kept: BOOLEAN]
          /\ budget'.upsets = budget.upsets /\ done'.begun = done.begun /\ (done'.kept => done.kept)
      BY <1>6, LoseIs, UnkeptIs, TypeByThreads
    <2>2. pc \in Phases
      BY DEF Phases
    <2>3. /\ cycle' \in [Cycles -> Threads(Len(logs))] /\ \A d \in Cycles \ {c} : Kept(d)
          /\ cycle'[c].pc = pc /\ cycle'[c].layer = cycle[c].layer
          /\ cycle'[c].to = cycle[c].to /\ cycle'[c].log = cycle[c].log
          /\ cycle'[c].acked = cycle[c].acked /\ cycle'[c].empty = cycle[c].empty
      BY <1>6, <2>2, PhaseIs
    <2>4. ReportTypeOK'
      BY <1>1, <1>3, <1>4, <1>6, <2>1, <2>3, StepType DEF RowsSent
    <2> QED
      BY <1>3, <1>4, <1>6, <2>1, <2>3, <2>4 DEF Spares
  <1>7. ASSUME store \/ UNCHANGED logs, Lose, cycle' = [cycle EXCEPT ![c] = Ended(c)],
               done' = [done EXCEPT !.kept = FALSE], UNCHANGED memory
        PROVE  /\ ReportTypeOK' /\ Spares(c) /\ RowsSent
               /\ budget'.upsets = budget.upsets /\ done'.begun = done.begun /\ ~done'.kept
               /\ \A w \in Workers : memory'[w].exec = memory[w].exec
               /\ cycle'[c] = Ended(c)
    <2>1. logs' \in Seq(ReportLogType) /\ RowsSent /\ RowsKept
      BY <1>3, <1>7, NotReceived
    <2>2. /\ budget' \in [upsets: 0..MaxUpsets, lost: 0..MaxLost, odd: 0..MaxPartial]
          /\ done' \in [begun: BOOLEAN, kept: BOOLEAN]
          /\ budget'.upsets = budget.upsets /\ done'.begun = done.begun /\ ~done'.kept
      BY <1>7, LoseIs, UnkeptIs
    <2>3. /\ cycle' \in [Cycles -> Threads(Len(logs))] /\ \A d \in Cycles \ {c} : Kept(d)
          /\ cycle'[c] = Ended(c)
      BY <1>7, EndIs
    <2>4. memory' \in [Workers -> Memories]
      BY <1>7, TypeByThreads
    <2>5. ReportTypeOK'
      BY <1>1, <2>1, <2>2, <2>3, <2>4, StepType DEF RowsSent
    <2> QED
      BY <1>7, <2>1, <2>2, <2>3, <2>5 DEF Spares
  <1>8. CASE /\ store /\ cycle' = [cycle EXCEPT ![c].pc = "mark"]
             /\ memory' = IF cycle[c].layer = 0 THEN [memory EXCEPT ![WorkerOf[c]].hourly.reported = TRUE]
                          ELSE memory
             /\ UNCHANGED <<budget, done>>
    BY <1>1, <1>6, <1>8 DEF i
  <1>9. CASE /\ store /\ cycle' = [cycle EXCEPT ![c].pc = "noid"]
             /\ memory' = IF cycle[c].layer = 0 THEN [memory EXCEPT ![WorkerOf[c]].hourly.reported = TRUE]
                          ELSE memory
             /\ Lose /\ done' = [done EXCEPT !.kept = FALSE]
    BY <1>1, <1>6, <1>9 DEF i
  <1>10. CASE /\ store \/ UNCHANGED logs
              /\ Lose /\ cycle' = [cycle EXCEPT ![c] = Ended(c)]
              /\ done' = [done EXCEPT !.kept = FALSE] /\ UNCHANGED memory
    BY <1>1, <1>7, <1>10
  <1> QED
    BY <1>5, <1>8, <1>9, <1>10

\* The row of the report is marked.
LEMMA MarkEffect ==
  ASSUME ReportTypeOK, HeldOK, NEW c \in Cycles, MarkLog(c)
  PROVE  /\ ReportTypeOK' /\ Spares(c) /\ UNCHANGED <<clock, primary, memory, done, budget>>
         /\ cycle[c].pc \in {"mark", "noid"}
         /\ Len(logs') = Len(logs) /\ logs'[cycle[c].log].reported
         /\ \A j \in 1..Len(logs) : /\ logs'[j].got = logs[j].got /\ logs'[j].kind = logs[j].kind
                                    /\ j # cycle[c].log => logs'[j] = logs[j]
         /\ cycle'[c].pc \in {"missing", "idle", "daily"}
         /\ cycle'[c].acked \subseteq cycle[c].acked /\ cycle'[c].empty \subseteq cycle[c].empty
  <1> DEFINE n == Len(logs)
             i == cycle[c].log
             id == cycle[c].pc = "mark"
             remote == logs[i].remote \/ id
             row == [logs[i] EXCEPT !.reported = TRUE, !.remote = remote]
  <1>1. /\ n \in Nat /\ logs \in Seq(ReportLogType) /\ cycle[c] \in Threads(n) /\ DOMAIN logs = 1..n
        /\ Mem(c).exec \in Nat
    BY SMTT(40), TypeByThreads DEF Mem, Memories
  <1>2. UNCHANGED <<clock, primary, memory, done, budget>> /\ cycle[c].pc \in {"mark", "noid"}
    BY DEF MarkLog
  <1>3. i \in 1..n /\ logs[i] \in ReportLogType
    BY <1>1, <1>2 DEF HeldOK
  <1>4. row \in ReportLogType /\ row.reported /\ row.layer = logs[i].layer /\ row.to = logs[i].to
        /\ row.kind = logs[i].kind /\ row.got = logs[i].got
    <2>1. remote \in BOOLEAN
      BY <1>3 DEF ReportLogType
    <2> HIDE DEF remote
    <2> QED
      BY <1>3, <2>1 DEF ReportLogType
  <1>5. logs' = [logs EXCEPT ![i] = row]
    BY DEF MarkLog
  <1> HIDE DEF row, n
  <1>6. logs' \in Seq(ReportLogType) /\ Len(logs') = n /\ logs'[i] = row
        /\ \A j \in 1..n : j # i => logs'[j] = logs[j]
    BY <1>1, <1>3, <1>4, <1>5, ExceptSeq
  <1>7. RowsKept
    <2>1. ASSUME NEW j \in 1..n
          PROVE  /\ logs'[j].layer = logs[j].layer /\ logs'[j].to = logs[j].to
                 /\ logs'[j].kind = logs[j].kind /\ logs'[j].got = logs[j].got
                 /\ logs[j].reported => logs'[j].reported
      <3>1. CASE j = i
        BY <1>4, <1>6, <3>1
      <3>2. CASE j # i
        BY <1>6, <3>2
      <3> QED
        BY <3>1, <3>2
    <2> QED
      BY <1>1, <1>6, <2>1 DEF RowsKept, n
  <1> DEFINE next == IF id THEN [cycle[c] EXCEPT !.pc = "missing", !.exec = Mem(c).exec] ELSE Ended(c)
  <1>8. /\ next \in Threads(n) /\ next.pc \in {"missing", "idle", "daily"}
        /\ next.acked \subseteq cycle[c].acked /\ next.empty \subseteq cycle[c].empty
    <2>1. CASE id
      <3>1. next = [cycle[c] EXCEPT !.pc = "missing", !.exec = Mem(c).exec]
        BY <2>1
      <3> DEFINE exec == Mem(c).exec
      <3>2. exec \in Nat
        BY <1>1
      <3> HIDE DEF exec
      <3>3. LET t == [cycle[c] EXCEPT !.pc = "missing", !.exec = exec] IN
            t \in Threads(n) /\ t.pc = "missing" /\ t.acked = cycle[c].acked /\ t.empty = cycle[c].empty
        BY <1>1, <3>2 DEF Threads, Phases
      <3> QED
        BY <3>1, <3>3 DEF exec
    <2>2. CASE ~id
      <3>1. next = Ended(c)
        BY <2>2
      <3> HIDE DEF next
      <3>2. Ended(c) \in Threads(n) /\ Ended(c).pc \in {"idle", "daily"} /\ Ended(c).acked = {} /\ Ended(c).empty = {}
        BY <1>1, EndedType
      <3> QED
        BY <3>1, <3>2
    <2> QED
      BY <2>1, <2>2
  <1>9. cycle' = Disturb(c, [cycle EXCEPT ![c] = next])
    BY DEF MarkLog
  <1> HIDE DEF next
  <1>10. /\ cycle' \in [Cycles -> Threads(n)] /\ cycle'[c] = next /\ \A d \in Cycles \ {c} : Kept(d)
    <2>1. \A t \in Threads(n) : cycle' = Disturb(c, [cycle EXCEPT ![c] = t]) =>
            cycle' \in [Cycles -> Threads(n)] /\ cycle'[c] = t /\ \A d \in Cycles \ {c} : Kept(d)
      BY OneWriter DEF n
    <2> QED
      BY <1>8, <1>9, <2>1
  <1>11. ReportTypeOK'
    <2>1. /\ memory' \in [Workers -> Memories] /\ done' \in [begun: BOOLEAN, kept: BOOLEAN]
          /\ budget' \in [upsets: 0..MaxUpsets, lost: 0..MaxLost, odd: 0..MaxPartial]
      BY <1>2, TypeByThreads
    <2> QED
      BY <1>2, <1>6, <1>10, <2>1, StepType DEF n
  <1> QED
    BY <1>2, <1>3, <1>4, <1>6, <1>7, <1>8, <1>10, <1>11 DEF Spares, n

\* The missing reports are counted.
LEMMA CountEffect ==
  ASSUME ReportTypeOK, NEW c \in Cycles, CountMissing(c)
  PROVE  /\ ReportTypeOK' /\ Spares(c) /\ UNCHANGED <<clock, primary, memory, logs, done, budget>>
         /\ cycle[c].pc = "missing" /\ cycle'[c].pc \in {"batch", "idle", "daily"}
         /\ cycle'[c].acked \subseteq cycle[c].acked /\ cycle'[c].empty \subseteq cycle[c].empty
  <1> DEFINE n == Len(logs)
             ids == Missing(c)
             upto == Cardinality(ids)
             next == IF ids = {} THEN Ended(c)
                     ELSE [cycle[c] EXCEPT !.pc = "batch", !.upto = upto, !.at = 0, !.owed = ids, !.hurt = FALSE]
  <1>1. n \in Nat /\ cycle[c] \in Threads(n) /\ logs \in Seq(ReportLogType)
    BY TypeByThreads
  <1>2. UNCHANGED <<clock, primary, memory, logs, done, budget>> /\ cycle[c].pc = "missing"
        /\ cycle' = [cycle EXCEPT ![c] = next]
    BY DEF CountMissing, InPhase
  <1>3. ids \subseteq 1..n
    BY DEF Missing
  <1> HIDE DEF ids, n
  <1>4. upto \in Nat
    <2>1. IsFiniteSet(1..n)
      BY <1>1, FS_Interval
    <2>2. IsFiniteSet(ids)
      BY <1>3, <2>1, FS_Subset
    <2> QED
      BY <2>2, FS_CardinalityType
  <1> HIDE DEF upto
  <1>5. /\ next \in Threads(n) /\ next.pc \in {"batch", "idle", "daily"}
        /\ next.acked \subseteq cycle[c].acked /\ next.empty \subseteq cycle[c].empty
    <2>1. CASE ids = {}
      <3>1. next = Ended(c)
        BY <2>1
      <3> HIDE DEF next
      <3>2. Ended(c) \in Threads(n) /\ Ended(c).pc \in {"idle", "daily"} /\ Ended(c).acked = {} /\ Ended(c).empty = {}
        BY <1>1, EndedType
      <3> QED
        BY <3>1, <3>2
    <2>2. CASE ids # {}
      <3>1. next = [cycle[c] EXCEPT !.pc = "batch", !.upto = upto, !.at = 0, !.owed = ids, !.hurt = FALSE]
        BY <2>2
      <3>2. LET t == [cycle[c] EXCEPT !.pc = "batch", !.upto = upto, !.at = 0, !.owed = ids, !.hurt = FALSE] IN
            t \in Threads(n) /\ t.pc = "batch" /\ t.acked = cycle[c].acked /\ t.empty = cycle[c].empty
        BY <1>1, <1>3, <1>4 DEF Threads, Phases
      <3> QED
        BY <3>1, <3>2
    <2> QED
      BY <2>1, <2>2
  <1> HIDE DEF next
  <1>6. /\ cycle' \in [Cycles -> Threads(n)] /\ cycle'[c] = next /\ \A d \in Cycles \ {c} : Kept(d)
    BY <1>2, <1>5, OneThread DEF n
  <1>7. ReportTypeOK'
    <2>1. /\ memory' \in [Workers -> Memories] /\ done' \in [begun: BOOLEAN, kept: BOOLEAN]
          /\ budget' \in [upsets: 0..MaxUpsets, lost: 0..MaxLost, odd: 0..MaxPartial]
      BY <1>2, TypeByThreads
    <2> QED
      BY <1>1, <1>2, <1>6, <2>1, StepType DEF n
  <1> QED
    BY <1>2, <1>5, <1>6, <1>7, RowsSame DEF Spares

\* The acknowledged rows of a batch are rows that it sent.
LEMMA PairedSent == ASSUME NEW slice, NEW values, NEW ok PROVE Paired(slice, values, ok) \subseteq ok
  BY DEF Paired

\* One batch: rows are sent, and those that were are acknowledged; rows without a
\* report are set aside.
LEMMA BatchEffect ==
  ASSUME ReportTypeOK, NEW c \in Cycles, SendBatch(c)
  PROVE  /\ ReportTypeOK' /\ Spares(c) /\ UNCHANGED <<clock, primary, memory>>
         /\ RowsSent /\ budget'.upsets = budget.upsets /\ done'.begun = done.begun
         /\ (done'.kept => done.kept)
         /\ cycle[c].pc = "batch" /\ cycle'[c].pc \in {"batch", "settle"}
         /\ \E ids, bare \in SUBSET (1..Len(logs)) :
              /\ cycle'[c].acked = cycle[c].acked \cup ids
              /\ cycle'[c].empty = cycle[c].empty \cup bare
              /\ \A i \in ids : logs'[i].got > 0
              /\ \A i \in bare : logs[i].kind # "full"
  <1> DEFINE n == Len(logs)
             slice  == Slice(c)
             rows   == Missing(c) \cap ToSet(slice)
             full   == {i \in rows : logs[i].kind = "full"}
             values == SelectSeq(slice, LAMBDA i : i \in full)
             layer  == cycle[c].layer
             receive(ids) ==
               logs' = [i \in 1..Len(logs) |-> IF i \in ids THEN Receive(logs[i], layer) ELSE logs[i]]
             advance(ids, hurt) ==
               cycle' = [cycle EXCEPT ![c].at = @ + ReportBatch, ![c].acked = @ \cup ids,
                 ![c].empty = @ \cup (rows \ full), ![c].hurt = @ \/ hurt,
                 ![c].pc = IF cycle[c].at + ReportBatch < cycle[c].upto THEN "batch" ELSE "settle"]
  <1>1. n \in Nat /\ cycle \in [Cycles -> Threads(n)] /\ cycle[c] \in Threads(n) /\ layer \in {0, 1}
    <2>1. n \in Nat /\ cycle \in [Cycles -> Threads(n)] /\ cycle[c] \in Threads(n)
      BY TypeByThreads
    <2> HIDE DEF n
    <2> QED
      BY <2>1 DEF Threads
  <1>2. /\ cycle[c].pc = "batch" /\ UNCHANGED <<clock, primary, memory>>
        /\ \/ receive(full) /\ advance(Paired(slice, values, full), FALSE) /\ UNCHANGED <<budget, done>>
           \/ /\ Lose /\ full # {}
              /\ done' = [done EXCEPT !.kept = FALSE]
              /\ \/ receive(full) /\ advance({}, TRUE)
                 \/ UNCHANGED logs /\ advance({}, TRUE)
                 \/ \E bad \in full :
                      receive(full \ {bad}) /\ advance(Paired(slice, values, full \ {bad}), TRUE)
    BY DEF SendBatch, InPhase
  <1>3. rows \subseteq 1..n /\ full \subseteq rows /\ \A i \in rows \ full : logs[i].kind # "full"
    BY DEF Missing
  <1> HIDE DEF slice, rows, full, values, layer
  \* in each case the acknowledged rows are among those received
  <1> HIDE DEF n
  <1> DEFINE Sent(ids) == \/ \E sent \in SUBSET full : ids \subseteq sent /\ receive(sent)
                          \/ ids = {} /\ UNCHANGED logs
  <1>4. PICK ids \in SUBSET (1..n), hurt \in BOOLEAN : advance(ids, hurt) /\ Sent(ids)
    <2> HIDE DEF advance, receive
    <2>1. CASE receive(full) /\ advance(Paired(slice, values, full), FALSE)
      <3>1. Paired(slice, values, full) \subseteq full
        BY PairedSent
      <3>2. Sent(Paired(slice, values, full)) /\ Paired(slice, values, full) \in SUBSET (1..n)
        BY <1>3, <2>1, <3>1
      <3> QED
        BY <2>1, <3>2
    <2>2. CASE receive(full) /\ advance({}, TRUE)
      <3>1. Sent({})
        BY <2>2
      <3> QED
        BY <2>2, <3>1
    <2>3. CASE UNCHANGED logs /\ advance({}, TRUE)
      <3>1. Sent({})
        BY <2>3
      <3> QED
        BY <2>3, <3>1
    <2>4. CASE \E bad \in full :
                 receive(full \ {bad}) /\ advance(Paired(slice, values, full \ {bad}), TRUE)
      <3>1. PICK bad \in full :
              receive(full \ {bad}) /\ advance(Paired(slice, values, full \ {bad}), TRUE)
        BY <2>4
      <3> DEFINE ids == Paired(slice, values, full \ {bad})
      <3>2. ids \subseteq full \ {bad} /\ full \ {bad} \in SUBSET full
        BY PairedSent
      <3>3. Sent(ids) /\ ids \in SUBSET (1..n)
        BY <1>3, <3>1, <3>2
      <3> QED
        BY <3>1, <3>3
    <2> QED
      BY <1>2, <2>1, <2>2, <2>3, <2>4 DEF advance, receive
  <1>5. /\ logs' \in Seq(ReportLogType) /\ RowsSent /\ RowsKept
        /\ ids \subseteq 1..n /\ \A i \in ids : logs'[i].got > 0
    <2>1. CASE ids = {} /\ UNCHANGED logs
      BY <2>1, NotReceived
    <2>2. ASSUME NEW sent \in SUBSET full, ids \subseteq sent, receive(sent)
          PROVE  /\ logs' \in Seq(ReportLogType) /\ RowsSent /\ RowsKept
                 /\ ids \subseteq 1..n /\ \A i \in ids : logs'[i].got > 0
      <3>1. /\ logs' \in Seq(ReportLogType) /\ RowsSent /\ RowsKept
            /\ \A i \in 1..n : i \in sent => logs'[i].got > 0
        BY <1>1, <2>2, ReceiveRows DEF n
      <3> QED
        BY <1>3, <2>2, <3>1
    <2> QED
      BY <1>4, <2>1, <2>2
  <1> DEFINE at == cycle[c].at + ReportBatch
             acked == cycle[c].acked \cup ids
             bare == rows \ full
             empty == cycle[c].empty \cup bare
             spoilt == cycle[c].hurt \/ hurt
             pc == IF at < cycle[c].upto THEN "batch" ELSE "settle"
             t == [cycle[c] EXCEPT !.at = at, !.acked = acked, !.empty = empty, !.hurt = spoilt, !.pc = pc]
  <1>6. cycle' = [cycle EXCEPT ![c] = t]
    BY <1>1, <1>4
  <1>7. /\ at \in Nat /\ acked \in SUBSET (1..n) /\ empty \in SUBSET (1..n) /\ spoilt \in BOOLEAN
        /\ pc \in {"batch", "settle"} /\ bare \in SUBSET (1..n)
    <2>1. /\ cycle[c].at \in Nat /\ cycle[c].acked \in SUBSET (1..n) /\ cycle[c].empty \in SUBSET (1..n)
          /\ cycle[c].hurt \in BOOLEAN
      BY <1>1 DEF Threads
    <2>2. at \in Nat
      BY <2>1
    <2>3. bare \in SUBSET (1..n)
      BY <1>3
    <2>4. acked \in SUBSET (1..n) /\ empty \in SUBSET (1..n)
      BY <2>1, <2>3
    <2>5. spoilt \in BOOLEAN
      BY <2>1, <1>4
    <2> QED
      BY <2>2, <2>3, <2>4, <2>5
  <1> HIDE DEF at, acked, empty, spoilt, pc, bare, n
  <1>8. t \in Threads(n) /\ t.pc = pc /\ t.acked = acked /\ t.empty = empty
    BY <1>1, <1>7 DEF Threads, Phases
  <1> HIDE DEF t
  <1>9. cycle' \in [Cycles -> Threads(n)] /\ cycle'[c] = t /\ \A d \in Cycles \ {c} : Kept(d)
    BY <1>6, <1>8, OneThread DEF n
  <1>10. /\ budget' \in [upsets: 0..MaxUpsets, lost: 0..MaxLost, odd: 0..MaxPartial]
         /\ done' \in [begun: BOOLEAN, kept: BOOLEAN] /\ memory' \in [Workers -> Memories]
         /\ budget'.upsets = budget.upsets /\ done'.begun = done.begun /\ (done'.kept => done.kept)
    BY <1>2, LoseIs, UnkeptIs, TypeByThreads
  <1>11. ReportTypeOK'
    BY <1>2, <1>5, <1>9, <1>10, StepType DEF RowsSent, n
  <1>12. \A i \in bare : logs[i].kind # "full"
    BY <1>3 DEF bare
  <1> QED
    BY <1>2, <1>5, <1>7, <1>8, <1>9, <1>10, <1>11, <1>12 DEF Spares, acked, empty, n

\* The rows of all the batches are marked.
LEMMA SettleEffect ==
  ASSUME ReportTypeOK, NEW c \in Cycles, Settle(c)
  PROVE  /\ ReportTypeOK' /\ Spares(c) /\ UNCHANGED <<clock, primary, memory, done, budget>>
         /\ cycle[c].pc = "settle" /\ cycle'[c] = Ended(c)
         /\ Len(logs') = Len(logs)
         /\ \A i \in 1..Len(logs) :
              /\ logs'[i].got = logs[i].got /\ logs'[i].kind = logs[i].kind
              /\ \/ i \in cycle[c].acked
                 \/ i \in cycle[c].empty /\ logs'[i].remote = logs[i].remote /\ logs'[i].reported
                 \/ logs'[i] = logs[i]
  <1> DEFINE n == Len(logs)
             one(row) == [row EXCEPT !.reported = TRUE, !.remote = TRUE]
             two(row) == [row EXCEPT !.reported = TRUE]
  <1>1. /\ n \in Nat /\ logs \in Seq(ReportLogType) /\ cycle \in [Cycles -> Threads(n)]
        /\ \A i \in 1..n : logs[i] \in ReportLogType
    BY TypeByThreads
  <1>2. /\ UNCHANGED <<clock, primary, memory, done, budget>> /\ cycle[c].pc = "settle"
        /\ cycle' = Disturb(c, [cycle EXCEPT ![c] = Ended(c)])
        /\ logs' = [i \in 1..n |-> IF i \in cycle[c].acked THEN one(logs[i])
                                   ELSE IF i \in cycle[c].empty THEN two(logs[i]) ELSE logs[i]]
    BY DEF Settle, InPhase
  <1>3. ASSUME NEW row \in ReportLogType
        PROVE  /\ one(row) \in ReportLogType /\ two(row) \in ReportLogType
               /\ one(row).layer = row.layer /\ one(row).to = row.to /\ one(row).kind = row.kind
               /\ one(row).got = row.got /\ one(row).reported
               /\ two(row).layer = row.layer /\ two(row).to = row.to /\ two(row).kind = row.kind
               /\ two(row).got = row.got /\ two(row).reported /\ two(row).remote = row.remote
               /\ row.got \in Nat
    BY DEF ReportLogType
  <1> HIDE DEF n, one, two
  <1>4. logs' \in [1..n -> ReportLogType] /\ DOMAIN logs' = 1..n
    BY <1>1, <1>2, <1>3
  <1>5. logs' \in Seq(ReportLogType)
    BY <1>1, <1>4, SeqDef
  <1>6. Len(logs') = n
    BY <1>1, <1>4, <1>5
  <1>7. ASSUME NEW i \in 1..n
        PROVE  /\ logs'[i].layer = logs[i].layer /\ logs'[i].to = logs[i].to
               /\ logs'[i].got = logs[i].got /\ logs'[i].kind = logs[i].kind /\ logs[i].got \in Nat
               /\ logs[i].reported => logs'[i].reported
               /\ \/ i \in cycle[c].acked
                  \/ i \in cycle[c].empty /\ logs'[i].remote = logs[i].remote /\ logs'[i].reported
                  \/ logs'[i] = logs[i]
    <2>1. logs[i] \in ReportLogType
      BY <1>1
    <2>2. CASE i \in cycle[c].acked
      <3>1. logs'[i] = one(logs[i])
        BY <1>2, <2>2
      <3> QED
        BY <1>3, <2>1, <2>2, <3>1
    <2>3. CASE i \notin cycle[c].acked /\ i \in cycle[c].empty
      <3>1. logs'[i] = two(logs[i])
        BY <1>2, <2>3
      <3> QED
        BY <1>3, <2>1, <2>3, <3>1
    <2>4. CASE i \notin cycle[c].acked /\ i \notin cycle[c].empty
      <3>1. logs'[i] = logs[i]
        BY <1>2, <2>4
      <3> QED
        BY <1>3, <2>1, <3>1
    <2> QED
      BY <2>2, <2>3, <2>4
  <1>8. RowsKept
    BY <1>1, <1>6, <1>7 DEF RowsKept, n
  <1>9. cycle' \in [Cycles -> Threads(n)] /\ cycle'[c] = Ended(c) /\ \A d \in Cycles \ {c} : Kept(d)
    <2>1. \A t \in Threads(n) : cycle' = Disturb(c, [cycle EXCEPT ![c] = t]) =>
            cycle' \in [Cycles -> Threads(n)] /\ cycle'[c] = t /\ \A d \in Cycles \ {c} : Kept(d)
      BY OneWriter DEF n
    <2>2. Ended(c) \in Threads(n)
      BY <1>1, EndedType
    <2> QED
      BY <1>2, <2>1, <2>2
  <1>10. ReportTypeOK'
    <2>1. /\ memory' \in [Workers -> Memories] /\ done' \in [begun: BOOLEAN, kept: BOOLEAN]
          /\ budget' \in [upsets: 0..MaxUpsets, lost: 0..MaxLost, odd: 0..MaxPartial]
      BY <1>2, TypeByThreads
    <2> QED
      BY <1>2, <1>5, <1>6, <1>9, <2>1, StepType DEF n
  <1> QED
    BY <1>2, <1>6, <1>7, <1>8, <1>9, <1>10 DEF Spares, n

\* The report of the day, or none.
LEMMA DailyEffect ==
  ASSUME ReportTypeOK, NEW c \in Cycles, Daily(c)
  PROVE  /\ ReportTypeOK' /\ Spares(c) /\ UNCHANGED <<clock, primary, memory, logs, done, budget>>
         /\ cycle[c].pc = "daily" /\ cycle'[c].pc \in {"idle", "find"}
         /\ (cycle'[c].pc = "find" => cycle'[c].layer = 1)
         /\ cycle'[c].acked = {} /\ cycle'[c].empty = {}
  <1> DEFINE n == Len(logs)
             day == CurrentDay(Mem(c).exec)
             t == [IdleCycle EXCEPT !.pc = "find", !.layer = 1, !.to = day]
  <1>1. n \in Nat /\ Mem(c).exec \in Nat
    <2>1. n \in Nat /\ memory \in [Workers -> Memories] /\ WorkerOf[c] \in Workers
      BY TypeByThreads
    <2> QED
      BY <2>1 DEF Mem, Memories
  <1>2. day \in Nat
    BY <1>1, HourType
  <1>3. /\ UNCHANGED <<clock, primary, memory, logs, done, budget>> /\ cycle[c].pc = "daily"
        /\ \/ cycle' = [cycle EXCEPT ![c] = t]
           \/ cycle' = [cycle EXCEPT ![c] = IdleCycle]
    BY DEF Daily, InPhase
  <1> HIDE DEF n, day
  <1>4. t \in Threads(n) /\ t.pc = "find" /\ t.layer = 1 /\ t.acked = {} /\ t.empty = {}
    BY <1>1, <1>2, FoundType
  <1> HIDE DEF t
  <1>5. IdleCycle \in Threads(n) /\ IdleCycle.pc = "idle" /\ IdleCycle.acked = {} /\ IdleCycle.empty = {}
    BY <1>1, IdleType DEF IdleCycle
  <1>6. /\ cycle' \in [Cycles -> Threads(n)] /\ \A d \in Cycles \ {c} : Kept(d)
        /\ cycle'[c] = t \/ cycle'[c] = IdleCycle
    BY <1>3, <1>4, <1>5, OneThread DEF n
  <1>7. ReportTypeOK'
    <2>1. /\ memory' \in [Workers -> Memories] /\ done' \in [begun: BOOLEAN, kept: BOOLEAN]
          /\ budget' \in [upsets: 0..MaxUpsets, lost: 0..MaxLost, odd: 0..MaxPartial]
          /\ logs' \in Seq(ReportLogType)
      BY <1>3, TypeByThreads
    <2> QED
      BY <1>3, <1>6, <2>1, StepType DEF n
  <1> QED
    BY <1>3, <1>4, <1>5, <1>6, <1>7, RowsSame DEF Spares

\* A cycle that a query ends.
LEMMA AbortEffect ==
  ASSUME ReportTypeOK, NEW c \in Cycles, AbortReport(c)
  PROVE  /\ ReportTypeOK' /\ Spares(c) /\ UNCHANGED <<clock, primary, memory, logs>>
         /\ budget'.upsets = budget.upsets /\ done'.begun = done.begun /\ ~done'.kept
         /\ cycle[c].pc # "idle" /\ cycle'[c] = IdleCycle
  <1>1. /\ UNCHANGED <<clock, primary, memory, logs>> /\ cycle[c].pc # "idle" /\ Lose
        /\ cycle' = [cycle EXCEPT ![c] = IdleCycle] /\ done' = [done EXCEPT !.kept = FALSE]
    BY DEF AbortReport, Busy
  <1>2. IdleCycle \in Threads(Len(logs))
    BY TypeByThreads, IdleType
  <1>3. /\ cycle' \in [Cycles -> Threads(Len(logs))] /\ \A d \in Cycles \ {c} : Kept(d)
        /\ cycle'[c] = IdleCycle
    BY <1>1, <1>2, OneThread
  <1>4. /\ budget' \in [upsets: 0..MaxUpsets, lost: 0..MaxLost, odd: 0..MaxPartial]
        /\ done' \in [begun: BOOLEAN, kept: BOOLEAN] /\ memory' \in [Workers -> Memories]
        /\ logs' \in Seq(ReportLogType)
        /\ budget'.upsets = budget.upsets /\ done'.begun = done.begun /\ ~done'.kept
    BY <1>1, LoseIs, UnkeptIs, TypeByThreads
  <1>5. ReportTypeOK'
    BY <1>1, <1>3, <1>4, StepType
  <1> QED
    BY <1>1, <1>3, <1>4, <1>5, RowsSame DEF Spares

\* An upset is counted.
LEMMA UpsetIs ==
  ASSUME ReportTypeOK, Upset
  PROVE  /\ budget' \in [upsets: 0..MaxUpsets, lost: 0..MaxLost, odd: 0..MaxPartial]
         /\ budget'.upsets = budget.upsets + 1 /\ budget' # budget
  <1>1. budget \in [upsets: 0..MaxUpsets, lost: 0..MaxLost, odd: 0..MaxPartial]
    BY TypeByThreads
  <1> DEFINE upsets == budget.upsets + 1
  <1>2. upsets \in 0..MaxUpsets /\ budget' = [budget EXCEPT !.upsets = upsets] /\ upsets # budget.upsets
    BY <1>1 DEF Upset
  <1> HIDE DEF upsets
  <1>3. budget'.upsets = upsets /\ budget' \in [upsets: 0..MaxUpsets, lost: 0..MaxLost, odd: 0..MaxPartial]
    BY <1>1, <1>2
  <1>4. budget' # budget
    BY <1>2, <1>3
  <1> QED
    BY <1>3, <1>4 DEF upsets

\* The slot ends in time, or a worker or a cycle is late: a cycle goes on or is gone.
OnTime == /\ done.begun /\ (\A c \in Cycles : ~Busy(c)) /\ clock' = clock + 1
          /\ done' = [begun |-> FALSE, kept |-> TRUE] /\ UNCHANGED <<primary, memory, cycle, logs, budget>>
Late   == /\ budget'.upsets = budget.upsets + 1 /\ budget' # budget /\ UNCHANGED logs
          /\ done' = [begun |-> FALSE, kept |-> FALSE]
          /\ \A c \in Cycles : Kept(c) \/ cycle'[c] = IdleCycle

\* What time, a new primary and a restart do: no row changes, and a cycle is left alone or stops.
LEMMA WorldEffect ==
  ASSUME ReportTypeOK, TimePasses \/ \E w \in Workers : TakeOver(w) \/ RestartWorker(w)
  PROVE  ReportTypeOK' /\ RowsKept /\ (OnTime \/ Late)
  <1>1. /\ clock \in 0..MaxClock /\ primary \in Workers /\ memory \in [Workers -> Memories]
        /\ cycle \in [Cycles -> Threads(Len(logs))] /\ logs \in Seq(ReportLogType) /\ Len(logs) <= MaxLogs
        /\ budget \in [upsets: 0..MaxUpsets, lost: 0..MaxLost, odd: 0..MaxPartial] /\ Len(logs) \in Nat
    BY TypeByThreads
  <1>2. CASE TimePasses
    <2>1. clock' \in 0..MaxClock /\ UNCHANGED <<primary, memory, cycle, logs>> /\ clock' = clock + 1
      BY <1>1, <1>2 DEF TimePasses
    <2>2. OnTime \/ (Upset /\ done' = [begun |-> FALSE, kept |-> FALSE])
      BY <1>2 DEF TimePasses, OnTime
    <2>3. CASE OnTime
      <3>1. ReportTypeOK'
        BY <1>1, <2>1, <2>3 DEF ReportTypeOK, OnTime, Memories, Threads, Phases
      <3> QED
        BY <2>1, <2>3, <3>1, RowsSame
    <2>4. CASE Upset /\ done' = [begun |-> FALSE, kept |-> FALSE]
      <3>1. budget' \in [upsets: 0..MaxUpsets, lost: 0..MaxLost, odd: 0..MaxPartial]
            /\ budget'.upsets = budget.upsets + 1 /\ budget' # budget
        BY <2>4, UpsetIs
      <3>2. ReportTypeOK'
        BY <1>1, <2>1, <2>4, <3>1 DEF ReportTypeOK, Memories, Threads, Phases
      <3> QED
        BY <2>1, <2>4, <3>1, <3>2, RowsSame DEF Late, Kept
    <2> QED
      BY <2>2, <2>3, <2>4
  <1>3. ASSUME NEW w \in Workers, TakeOver(w) PROVE ReportTypeOK' /\ RowsKept /\ Late
    <2>1. /\ UNCHANGED <<clock, memory, cycle, logs>> /\ primary' = w /\ Upset
          /\ done' = [begun |-> FALSE, kept |-> FALSE]
      BY <1>3 DEF TakeOver
    <2>2. budget' \in [upsets: 0..MaxUpsets, lost: 0..MaxLost, odd: 0..MaxPartial]
          /\ budget'.upsets = budget.upsets + 1 /\ budget' # budget
      BY <2>1, UpsetIs
    <2>3. ReportTypeOK'
      BY <1>1, <2>1, <2>2 DEF ReportTypeOK, Memories, Threads, Phases
    <2> QED
      BY <2>1, <2>2, <2>3, RowsSame DEF Late, Kept
  <1>4. ASSUME NEW w \in Workers, RestartWorker(w) PROVE ReportTypeOK' /\ RowsKept /\ Late
    <2> DEFINE blank == [exec |-> 0, hourly |-> None, daily |-> 0]
    <2>1. /\ UNCHANGED <<clock, primary, logs>> /\ Upset /\ done' = [begun |-> FALSE, kept |-> FALSE]
          /\ memory' = [memory EXCEPT ![w] = blank]
          /\ cycle' = [c \in Cycles |-> IF WorkerOf[c] = w THEN IdleCycle ELSE cycle[c]]
      BY <1>4 DEF RestartWorker
    <2>2. budget' \in [upsets: 0..MaxUpsets, lost: 0..MaxLost, odd: 0..MaxPartial]
          /\ budget'.upsets = budget.upsets + 1 /\ budget' # budget
      BY <2>1, UpsetIs
    <2>3. blank \in Memories
      BY DEF Memories, None
    <2> HIDE DEF blank
    <2>4. memory' \in [Workers -> Memories]
      BY <1>1, <2>1, <2>3
    <2>5. cycle' \in [Cycles -> Threads(Len(logs))]
      BY <1>1, <2>1, IdleType
    <2>6. ReportTypeOK'
      BY <1>1, <2>1, <2>2, <2>4, <2>5 DEF ReportTypeOK, Memories, Threads, Phases
    <2>7. \A c \in Cycles : Kept(c) \/ cycle'[c] = IdleCycle
      BY <2>1 DEF Kept
    <2> QED
      BY <2>1, <2>2, <2>6, <2>7, RowsSame DEF Late
  <1> QED
    BY <1>2, <1>3, <1>4
-----------------------------------------------------------------------------
(* Rows in hand *)

\* A thread that found no row is to create one.
LEMMA CreatesIs ==
  ASSUME ReportTypeOK, NEW c \in Cycles, cycle'[c] = [cycle[c] EXCEPT !.pc = "create"]
  PROVE  /\ cycle'[c].pc = "create" /\ cycle'[c].layer = cycle[c].layer
         /\ cycle'[c].to = cycle[c].to /\ cycle'[c].acked = cycle[c].acked
         /\ cycle'[c].empty = cycle[c].empty
  <1>1. cycle[c] \in Threads(Len(logs))
    BY TypeByThreads
  <1> QED
    BY <1>1 DEF Threads

\* The ends of aggregate(), whatever the thread was.
LEMMA EndedIs ==
  ASSUME ReportTypeOK, NEW c \in Cycles
  PROVE  Ended(c).pc \in {"idle", "daily"} /\ Ended(c).acked = {} /\ Ended(c).empty = {}
  <1>1. 0 \in Nat
    OBVIOUS
  <1> QED
    BY <1>1, EndedType

\* What every step of a cycle has in common.
LEMMA CycleEffect ==
  ASSUME ReportTypeOK, HeldOK, NEW c \in Cycles, ReportCycle(c)
  PROVE  /\ ReportTypeOK' /\ Spares(c) /\ UNCHANGED <<clock, primary>>
         /\ budget'.upsets = budget.upsets /\ (done'.kept => done.kept)
         /\ \/ cycle[c].pc # "idle" /\ done'.begun = done.begun
            \/ cycle[c].pc = "idle" /\ ~done.begun /\ done'.begun
  <1>0. done \in [begun: BOOLEAN, kept: BOOLEAN]
    BY TypeByThreads
  <1>1. CASE StartCycle(c)
    BY <1>0, <1>1, StartEffect
  <1>2. CASE FindLog(c)
    BY <1>2, FindEffect
  <1>3. CASE CreateLog(c)
    BY <1>3, CreateEffect
  <1>4. CASE SendLog(c)
    <2>1. cycle[c].pc = "send" /\ (done'.kept => done.kept)
      BY <1>4, SendEffect
    <2> QED
      BY <1>4, <2>1, SendEffect
  <1>5. CASE MarkLog(c)
    BY <1>5, MarkEffect
  <1>6. CASE CountMissing(c)
    BY <1>6, CountEffect
  <1>7. CASE SendBatch(c)
    BY <1>7, BatchEffect
  <1>8. CASE Settle(c)
    BY <1>8, SettleEffect
  <1>9. CASE Daily(c)
    BY <1>9, DailyEffect
  <1>10. CASE AbortReport(c)
    BY <1>10, AbortEffect
  <1> QED
    BY <1>1, <1>2, <1>3, <1>4, <1>5, <1>6, <1>7, <1>8, <1>9, <1>10 DEF ReportCycle

\* A row stays of its period, so only the thread that moves can lose hold of one.
LEMMA HeldByOthers ==
  ASSUME ReportTypeOK, HeldOK, NEW c \in Cycles, Spares(c),
         cycle'[c].pc \in {"send", "mark", "noid"} =>
           /\ cycle'[c].log \in 1..Len(logs')
           /\ logs'[cycle'[c].log].layer = cycle'[c].layer /\ logs'[cycle'[c].log].to = cycle'[c].to
  PROVE  HeldOK'
  <1>1. Len(logs) \in Nat
    BY TypeByThreads
  <1>2. Len(logs') >= Len(logs)
    BY DEF Spares, RowsKept
  <1>3. ASSUME NEW d \in Cycles \ {c}, cycle'[d].pc \in {"send", "mark", "noid"}
        PROVE  /\ cycle'[d].log \in 1..Len(logs')
               /\ logs'[cycle'[d].log].layer = cycle'[d].layer /\ logs'[cycle'[d].log].to = cycle'[d].to
    <2>1. Kept(d)
      BY DEF Spares
    <2>2. cycle[d].log \in 1..Len(logs) /\ SameLog(cycle[d].log, cycle[d].layer, cycle[d].to)
      BY <1>3, <2>1 DEF HeldOK, Kept
    <2>3. /\ logs'[cycle[d].log].layer = logs[cycle[d].log].layer
          /\ logs'[cycle[d].log].to = logs[cycle[d].log].to
      BY <2>2 DEF Spares, RowsKept
    <2>4. cycle'[d].log = cycle[d].log /\ cycle'[d].layer = cycle[d].layer /\ cycle'[d].to = cycle[d].to
      BY <2>1 DEF Kept
    <2> QED
      BY <1>1, <1>2, <2>2, <2>3, <2>4 DEF SameLog
  <1> QED
    BY <1>3 DEF HeldOK, SameLog

\* A search hands the thread a row of its period.
LEMMA FindHolds ==
  ASSUME ReportTypeOK, HeldOK, NEW c \in Cycles, FindLog(c)
  PROVE  HeldOK'
  <1>1. Spares(c) /\ UNCHANGED logs
    BY FindEffect
  <1>2. CASE cycle'[c] = [cycle[c] EXCEPT !.pc = "create"]
    <2>1. cycle'[c].pc = "create"
      BY <1>2, CreatesIs
    <2> QED
      BY <1>1, <2>1, HeldByOthers
  <1>3. CASE cycle'[c] = Ended(c)
    <2>1. cycle'[c].pc \in {"idle", "daily"}
      BY <1>3, EndedIs
    <2> QED
      BY <1>1, <2>1, HeldByOthers
  <1>4. ASSUME NEW i \in FoundLogs(cycle[c].layer, cycle[c].to), Sends(c, i) PROVE HeldOK'
    <2>1. cycle'[c].log = i /\ cycle'[c].layer = cycle[c].layer /\ cycle'[c].to = cycle[c].to
      BY <1>4, SendsIs
    <2>2. i \in 1..Len(logs) /\ logs[i].layer = cycle[c].layer /\ logs[i].to = cycle[c].to
      BY DEF FoundLogs, SameLog
    <2> QED
      BY <1>1, <2>1, <2>2, HeldByOthers
  <1> QED
    BY <1>2, <1>3, <1>4, FindEffect

\* A row that is created is of the period of its thread.
LEMMA CreateHolds ==
  ASSUME ReportTypeOK, HeldOK, NEW c \in Cycles, CreateLog(c)
  PROVE  HeldOK'
  <1>1. Spares(c) /\ Len(logs) \in Nat /\ Len(logs') = Len(logs) + 1
    <2>1. Len(logs) \in Nat
      BY TypeByThreads
    <2> QED
      BY <2>1, CreateEffect
  <1>2. PICK row \in ReportLogType :
          /\ logs'[Len(logs) + 1] = row /\ row.layer = cycle[c].layer /\ row.to = cycle[c].to
          /\ Sends(c, Len(logs) + 1) \/ cycle'[c] = Ended(c)
    BY CreateEffect
  <1>3. CASE cycle'[c] = Ended(c)
    <2>1. cycle'[c].pc \in {"idle", "daily"}
      BY <1>3, EndedIs
    <2> QED
      BY <1>1, <2>1, HeldByOthers
  <1>4. CASE Sends(c, Len(logs) + 1)
    <2> DEFINE i == Len(logs) + 1
    <2>1. cycle'[c].log = i /\ cycle'[c].layer = cycle[c].layer /\ cycle'[c].to = cycle[c].to
      BY <1>4, SendsIs
    <2>2. i \in 1..Len(logs')
      BY <1>1
    <2> QED
      BY <1>1, <1>2, <2>1, <2>2, HeldByOthers
  <1> QED
    BY <1>2, <1>3, <1>4

\* The row that was sent is the row that is marked.
LEMMA SendHolds ==
  ASSUME ReportTypeOK, HeldOK, NEW c \in Cycles, SendLog(c)
  PROVE  HeldOK'
  <1>1. /\ Spares(c) /\ Len(logs') = Len(logs) /\ cycle[c].pc = "send"
        /\ \/ /\ cycle'[c].layer = cycle[c].layer
              /\ cycle'[c].to = cycle[c].to /\ cycle'[c].log = cycle[c].log
           \/ cycle'[c] = Ended(c)
    BY SendEffect DEF RowsSent
  <1>2. CASE cycle'[c] = Ended(c)
    <2>1. cycle'[c].pc \in {"idle", "daily"}
      BY <1>2, EndedIs
    <2> QED
      BY <1>1, <2>1, HeldByOthers
  <1>3. CASE cycle'[c].layer = cycle[c].layer /\ cycle'[c].to = cycle[c].to /\ cycle'[c].log = cycle[c].log
    <2>1. cycle[c].log \in 1..Len(logs) /\ SameLog(cycle[c].log, cycle[c].layer, cycle[c].to)
      BY <1>1 DEF HeldOK
    <2>2. /\ logs'[cycle[c].log].layer = cycle[c].layer /\ logs'[cycle[c].log].to = cycle[c].to
      BY <1>1, <2>1 DEF Spares, RowsKept, SameLog
    <2> QED
      BY <1>1, <1>3, <2>1, <2>2, HeldByOthers
  <1> QED
    BY <1>1, <1>2, <1>3

\* In the other steps the thread has no row in hand.
LEMMA CycleHolds ==
  ASSUME ReportTypeOK, HeldOK, NEW c \in Cycles, ReportCycle(c)
  PROVE  HeldOK'
  <1> DEFINE free == cycle'[c].pc \notin {"send", "mark", "noid"}
  <1>1. CASE StartCycle(c)
    <2>1. free
      BY <1>1, StartEffect
    <2> QED
      BY <1>1, <2>1, CycleEffect, HeldByOthers
  <1>2. CASE FindLog(c)
    BY <1>2, FindHolds
  <1>3. CASE CreateLog(c)
    BY <1>3, CreateHolds
  <1>4. CASE SendLog(c)
    BY <1>4, SendHolds
  <1>5. CASE MarkLog(c)
    <2>1. free
      BY <1>5, MarkEffect
    <2> QED
      BY <1>5, <2>1, CycleEffect, HeldByOthers
  <1>6. CASE CountMissing(c)
    <2>1. free
      BY <1>6, CountEffect
    <2> QED
      BY <1>6, <2>1, CycleEffect, HeldByOthers
  <1>7. CASE SendBatch(c)
    <2>1. free
      BY <1>7, BatchEffect
    <2> QED
      BY <1>7, <2>1, CycleEffect, HeldByOthers
  <1>8. CASE Settle(c)
    <2>1. free
      BY <1>8, SettleEffect, EndedIs
    <2> QED
      BY <1>8, <2>1, CycleEffect, HeldByOthers
  <1>9. CASE Daily(c)
    <2>1. free
      BY <1>9, DailyEffect
    <2> QED
      BY <1>9, <2>1, CycleEffect, HeldByOthers
  <1>10. CASE AbortReport(c)
    <2>1. free
      BY <1>10, AbortEffect DEF IdleCycle
    <2> QED
      BY <1>10, <2>1, CycleEffect, HeldByOthers
  <1> QED
    BY <1>1, <1>2, <1>3, <1>4, <1>5, <1>6, <1>7, <1>8, <1>9, <1>10 DEF ReportCycle

\* Time and workers take threads away, and hand them nothing.
LEMMA WorldHolds ==
  ASSUME ReportTypeOK, HeldOK, UNCHANGED logs, \A c \in Cycles : Kept(c) \/ cycle'[c] = IdleCycle
  PROVE  HeldOK'
  BY DEF HeldOK, SameLog, Kept, IdleCycle
-----------------------------------------------------------------------------
(* Cycles at a time *)

Running == {c \in Cycles : Busy(c)}

\* Two cycles run at once only after something was late, changed or restarted.
PaceOK == Cardinality(Running) + (IF done.begun THEN 0 ELSE 1) <= 1 + budget.upsets

\* One more is at most one more.
LEMMA OneMore ==
  ASSUME NEW S, IsFiniteSet(S), NEW x
  PROVE  IsFiniteSet(S \cup {x}) /\ Cardinality(S \cup {x}) <= Cardinality(S) + 1
  <1>1. Cardinality(S) \in Nat
    BY FS_CardinalityType
  <1>2. Cardinality(S \cup {x}) = IF x \in S THEN Cardinality(S) ELSE Cardinality(S) + 1
    BY FS_AddElement
  <1>3. IsFiniteSet(S \cup {x})
    BY FS_AddElement
  <1> QED
    BY <1>1, <1>2, <1>3

\* Fewer are not more.
LEMMA NoMore ==
  ASSUME NEW S, IsFiniteSet(S), NEW T \in SUBSET S
  PROVE  /\ IsFiniteSet(T) /\ Cardinality(T) \in Nat /\ Cardinality(S) \in Nat
         /\ Cardinality(T) <= Cardinality(S)
  BY FS_Subset, FS_CardinalityType

\* The threads that run can be counted.
LEMMA RunningIs ==
  ASSUME ReportTypeOK
  PROVE  /\ IsFiniteSet(Running) /\ Cardinality(Running) \in Nat
         /\ \A S \in SUBSET Running : IsFiniteSet(S) /\ Cardinality(S) \in Nat
                                    /\ Cardinality(S) <= Cardinality(Running)
         /\ \A c \in Cycles : /\ IsFiniteSet(Running \cup {c})
                              /\ Cardinality(Running \cup {c}) <= Cardinality(Running) + 1
  <1>1. IsFiniteSet(Running)
    BY FS_Subset DEF Running
  <1>2. Cardinality(Running) \in Nat
    BY <1>1, FS_CardinalityType
  <1>3. ASSUME NEW S \in SUBSET Running
        PROVE  IsFiniteSet(S) /\ Cardinality(S) \in Nat /\ Cardinality(S) <= Cardinality(Running)
    BY <1>1, <1>3, FS_Subset, FS_CardinalityType
  <1>4. ASSUME NEW c \in Cycles
        PROVE  IsFiniteSet(Running \cup {c}) /\ Cardinality(Running \cup {c}) <= Cardinality(Running) + 1
    BY <1>1, OneMore
  <1> QED
    BY <1>1, <1>2, <1>3, <1>4

\* Fewer busy threads, a lower count.
LEMMA FewerRun ==
  ASSUME ReportTypeOK, \A c \in Cycles : Busy(c)' => Busy(c)
  PROVE  Cardinality(Running)' \in Nat /\ Cardinality(Running)' <= Cardinality(Running)
  <1>1. Running' \in SUBSET Running
    BY DEF Running
  <1>2. \A S \in SUBSET Running : Cardinality(S) \in Nat /\ Cardinality(S) <= Cardinality(Running)
    BY RunningIs
  <1>3. Cardinality(Running') \in Nat /\ Cardinality(Running') <= Cardinality(Running)
    BY <1>1, <1>2
  <1> QED
    BY <1>3

\* At the beginning no cycle is ahead of the clock.
LEMMA PaceInit == ReportInit => PaceOK
  <1> SUFFICES ASSUME ReportInit PROVE PaceOK
    OBVIOUS
  <1>1. Running = {}
    BY DEF ReportInit, Running, Busy, IdleCycle
  <1>2. Cardinality(Running) = 0
    BY <1>1, FS_EmptySet
  <1> QED
    BY <1>2 DEF PaceOK, ReportInit

\* A step of a cycle keeps the pace.
LEMMA CyclePace ==
  ASSUME ReportTypeOK, HeldOK, PaceOK, NEW c \in Cycles, ReportCycle(c)
  PROVE  PaceOK'
  <1>1. /\ Spares(c) /\ budget'.upsets = budget.upsets
        /\ \/ cycle[c].pc # "idle" /\ done'.begun = done.begun
           \/ cycle[c].pc = "idle" /\ ~done.begun /\ done'.begun
    BY CycleEffect
  <1>2. /\ Cardinality(Running) \in Nat /\ budget.upsets \in Nat
        /\ done \in [begun: BOOLEAN, kept: BOOLEAN]
    <2>1. Cardinality(Running) \in Nat
      BY RunningIs
    <2> QED
      BY <2>1, TypeByThreads
  <1>3. \A d \in Cycles \ {c} : Busy(d)' => Busy(d)
    BY <1>1 DEF Spares, Kept, Busy
  <1>4. CASE cycle[c].pc # "idle" /\ done'.begun = done.begun
    <2>1. \A d \in Cycles : Busy(d)' => Busy(d)
      BY <1>3, <1>4 DEF Busy
    <2>2. Cardinality(Running)' \in Nat /\ Cardinality(Running)' <= Cardinality(Running)
      BY <2>1, FewerRun
    <2> QED
      BY <1>1, <1>2, <1>4, <2>2 DEF PaceOK
  <1>5. CASE cycle[c].pc = "idle" /\ ~done.begun /\ done'.begun
    <2>1. Running' \in SUBSET (Running \cup {c})
      BY <1>3 DEF Running
    <2>2. IsFiniteSet(Running \cup {c}) /\ Cardinality(Running \cup {c}) <= Cardinality(Running) + 1
      BY RunningIs
    <2>3. /\ Cardinality(Running') <= Cardinality(Running \cup {c})
          /\ Cardinality(Running') \in Nat /\ Cardinality(Running \cup {c}) \in Nat
      BY <2>1, <2>2, FS_Subset, FS_CardinalityType
    <2>4. Cardinality(Running') <= Cardinality(Running) + 1
      BY <1>2, <2>2, <2>3
    <2>5. Cardinality(Running)' = Cardinality(Running')
      OBVIOUS
    <2> QED
      BY <1>1, <1>2, <1>5, <2>3, <2>4 DEF PaceOK
  <1> QED
    BY <1>1, <1>4, <1>5

\* So do time, a new primary and a restart.
LEMMA WorldPace ==
  ASSUME ReportTypeOK, PaceOK, OnTime \/ Late
  PROVE  PaceOK'
  <1>1. /\ Cardinality(Running) \in Nat /\ budget.upsets \in Nat
        /\ done \in [begun: BOOLEAN, kept: BOOLEAN]
    <2>1. Cardinality(Running) \in Nat
      BY RunningIs
    <2> QED
      BY <2>1, TypeByThreads
  <1>2. CASE OnTime
    <2>1. Running' = {}
      BY <1>2 DEF OnTime, Running, Busy
    <2>2. Cardinality(Running') = 0
      BY <2>1, FS_EmptySet
    <2>3. budget' = budget
      BY <1>2 DEF OnTime
    <2>4. 0 + (IF done'.begun THEN 0 ELSE 1) <= 1 + budget'.upsets
      BY <1>1, <2>3
    <2> QED
      BY <2>2, <2>4 DEF PaceOK
  <1>3. CASE Late
    <2>1. \A c \in Cycles : Busy(c)' => Busy(c)
      BY <1>3 DEF Late, Kept, Busy, IdleCycle
    <2>2. Cardinality(Running)' \in Nat /\ Cardinality(Running)' <= Cardinality(Running)
      BY <2>1, FewerRun
    <2>3. budget'.upsets = budget.upsets + 1 /\ ~done'.begun
      BY <1>3 DEF Late
    <2> QED
      BY <1>1, <2>2, <2>3 DEF PaceOK
  <1> QED
    BY <1>2, <1>3
-----------------------------------------------------------------------------
(* Rows of a period *)

\* The threads that have found no row of a period and are about to create one.
Makers(layer, to) == {c \in Cycles : InPhase(c, "create") /\ cycle[c].layer = layer /\ cycle[c].to = to}

\* The rows of a period and those to come are no more than the cycles that ran at once.
EachOK ==
  \A layer \in {0, 1}, to \in Nat :
    Cardinality(FoundLogs(layer, to)) + Cardinality(Makers(layer, to)) <= 1 + budget.upsets

\* Both are counted in numbers.
LEMMA PeriodIsFinite ==
  ASSUME ReportTypeOK, NEW layer, NEW to
  PROVE  /\ IsFiniteSet(FoundLogs(layer, to)) /\ Cardinality(FoundLogs(layer, to)) \in Nat
         /\ IsFiniteSet(Makers(layer, to)) /\ Cardinality(Makers(layer, to)) \in Nat
  <1>1. Len(logs) \in Nat
    BY TypeByThreads
  <1>2. IsFiniteSet(1..Len(logs))
    BY <1>1, FS_Interval
  <1>3. IsFiniteSet(FoundLogs(layer, to))
    BY <1>2, FS_Subset DEF FoundLogs
  <1>4. IsFiniteSet(Makers(layer, to))
    BY FS_Subset DEF Makers
  <1> QED
    BY <1>3, <1>4, FS_CardinalityType

\* Rows stay of their period.
LEMMA SamePeriods ==
  ASSUME ReportTypeOK, RowsKept, Len(logs') = Len(logs), NEW layer, NEW to
  PROVE  FoundLogs(layer, to)' = FoundLogs(layer, to)
  BY DEF RowsKept, FoundLogs, SameLog

\* A step that adds no row and makes no thread a maker.
LEMMA NoMoreMakers ==
  ASSUME ReportTypeOK, ReportTypeOK', EachOK, RowsKept, Len(logs') = Len(logs),
         budget'.upsets >= budget.upsets,
         \A c \in Cycles : Kept(c) \/ cycle'[c].pc # "create"
  PROVE  EachOK'
  <1> SUFFICES ASSUME NEW layer \in {0, 1}, NEW to \in Nat
               PROVE  (Cardinality(FoundLogs(layer, to)) + Cardinality(Makers(layer, to)) <= 1 + budget.upsets)'
    BY DEF EachOK
  <1>1. FoundLogs(layer, to)' = FoundLogs(layer, to)
    BY SamePeriods
  <1>2. Makers(layer, to)' \subseteq Makers(layer, to)
    BY DEF Makers, InPhase, Kept
  <1>3. /\ Cardinality(FoundLogs(layer, to)) \in Nat
        /\ IsFiniteSet(Makers(layer, to)) /\ Cardinality(Makers(layer, to)) \in Nat
    BY PeriodIsFinite
  <1> DEFINE M == Makers(layer, to)
  <1>4. Cardinality(M') <= Cardinality(M) /\ Cardinality(M') \in Nat
    <2>1. \A S \in SUBSET M : IsFiniteSet(S) /\ Cardinality(S) <= Cardinality(M) /\ Cardinality(S) \in Nat
      BY <1>3, FS_Subset, FS_CardinalityType
    <2> HIDE DEF M
    <2> QED
      BY <1>2, <2>1 DEF M
  <1>5. budget.upsets \in Nat /\ budget'.upsets \in Nat
    BY DEF ReportTypeOK
  <1>6. Cardinality(FoundLogs(layer, to)) + Cardinality(M) <= 1 + budget.upsets
    BY DEF EachOK
  <1>7. Cardinality(FoundLogs(layer, to)') = Cardinality(FoundLogs(layer, to))
    BY <1>1
  <1> QED
    BY <1>3, <1>4, <1>5, <1>6, <1>7

\* At the beginning there is no row, and no cycle has sent one.
LEMMA EachInit == ReportInit => EachOK
  <1> SUFFICES ASSUME ReportInit, NEW layer \in {0, 1}, NEW to \in Nat
               PROVE  Cardinality(FoundLogs(layer, to)) + Cardinality(Makers(layer, to)) <= 1 + budget.upsets
    BY DEF EachOK
  <1>1. FoundLogs(layer, to) = {} /\ Makers(layer, to) = {}
    BY EmptySeq DEF ReportInit, FoundLogs, Makers, InPhase, IdleCycle
  <1> QED
    BY <1>1, FS_EmptySet DEF ReportInit

\* A thread becomes a maker when there is no row: then those that make one are
\* among the threads that run.
LEMMA FindEach ==
  ASSUME ReportTypeOK, ReportTypeOK', EachOK, PaceOK', NEW c \in Cycles, FindLog(c)
  PROVE  EachOK'
  <1>1. Spares(c) /\ UNCHANGED <<logs, budget>>
    BY FindEffect
  <1>2. CASE cycle'[c].pc # "create"
    <2>1. \A d \in Cycles : Kept(d) \/ cycle'[d].pc # "create"
      BY <1>1, <1>2 DEF Spares
    <2>2. budget.upsets \in Nat
      BY DEF ReportTypeOK
    <2> QED
      BY <1>1, <2>1, <2>2, NoMoreMakers DEF Spares
  <1>3. CASE cycle'[c].pc = "create"
    <2>1. FoundLogs(cycle[c].layer, cycle[c].to) = {} /\ cycle'[c] = [cycle[c] EXCEPT !.pc = "create"]
      BY <1>3, FindEffect, SendsIs, EndedIs
    <2>2. cycle'[c].layer = cycle[c].layer /\ cycle'[c].to = cycle[c].to
      BY <2>1, CreatesIs
    <2> SUFFICES ASSUME NEW layer \in {0, 1}, NEW to \in Nat
                 PROVE  (Cardinality(FoundLogs(layer, to)) + Cardinality(Makers(layer, to)) <= 1 + budget.upsets)'
      BY DEF EachOK
    <2>3. FoundLogs(layer, to)' = FoundLogs(layer, to)
      BY <1>1, SamePeriods DEF Spares
    <2>4. CASE layer = cycle[c].layer /\ to = cycle[c].to
      <3>1. FoundLogs(layer, to)' = {}
        BY <2>1, <2>3, <2>4
      <3>2. Makers(layer, to)' \in SUBSET Running'
        BY DEF Makers, Running, Busy, InPhase
      <3>3. \A S \in SUBSET Cycles : \A T \in SUBSET S :
              /\ Cardinality(S) \in Nat /\ Cardinality(T) \in Nat /\ Cardinality(T) <= Cardinality(S)
        <4>1. \A S \in SUBSET Cycles : IsFiniteSet(S)
          BY FS_Subset
        <4> QED
          BY <4>1, NoMore
      <3>4. Cardinality(Makers(layer, to)') <= Cardinality(Running') /\ Cardinality(Makers(layer, to)') \in Nat
            /\ Cardinality(Running') \in Nat
        <4>1. Running' \in SUBSET Cycles
          BY DEF Running
        <4> QED
          BY <3>2, <3>3, <4>1
      <3>5. Cardinality(Running') + (IF done'.begun THEN 0 ELSE 1) <= 1 + budget'.upsets
        BY DEF PaceOK
      <3>6. budget'.upsets \in Nat
        BY DEF ReportTypeOK
      <3>7. Cardinality(FoundLogs(layer, to)') = 0
        BY <3>1, FS_EmptySet
      <3> QED
        BY <3>4, <3>5, <3>6, <3>7
    <2>5. CASE ~(layer = cycle[c].layer /\ to = cycle[c].to)
      <3>1. Makers(layer, to)' \in SUBSET Makers(layer, to)
        BY <1>1, <2>2, <2>5 DEF Makers, InPhase, Spares, Kept
      <3>2. /\ Cardinality(FoundLogs(layer, to)) \in Nat
            /\ IsFiniteSet(Makers(layer, to)) /\ Cardinality(Makers(layer, to)) \in Nat
        BY PeriodIsFinite
      <3> DEFINE M == Makers(layer, to)
      <3>3. Cardinality(M') <= Cardinality(M) /\ Cardinality(M') \in Nat
        <4>1. \A S \in SUBSET M : IsFiniteSet(S) /\ Cardinality(S) <= Cardinality(M) /\ Cardinality(S) \in Nat
          BY <3>2, FS_Subset, FS_CardinalityType
        <4> HIDE DEF M
        <4> QED
          BY <3>1, <4>1 DEF M
      <3>4. Cardinality(FoundLogs(layer, to)) + Cardinality(M) <= 1 + budget.upsets
        BY DEF EachOK
      <3>5. budget.upsets \in Nat /\ budget' = budget
        BY <1>1 DEF ReportTypeOK
      <3>6. Cardinality(FoundLogs(layer, to)') = Cardinality(FoundLogs(layer, to))
        BY <2>3
      <3> QED
        BY <3>2, <3>3, <3>4, <3>5, <3>6
    <2> QED
      BY <2>4, <2>5
  <1> QED
    BY <1>2, <1>3

\* A maker makes its row: one maker less, one row more.
LEMMA CreateEach ==
  ASSUME ReportTypeOK, ReportTypeOK', EachOK, NEW c \in Cycles, CreateLog(c)
  PROVE  EachOK'
  <1> DEFINE n == Len(logs)
  <1>1. /\ Spares(c) /\ cycle[c].pc = "create" /\ budget'.upsets = budget.upsets
        /\ Len(logs') = n + 1
    BY CreateEffect
  <1>2. PICK row \in ReportLogType :
          /\ logs'[n + 1] = row /\ row.layer = cycle[c].layer /\ row.to = cycle[c].to
          /\ Sends(c, n + 1) \/ cycle'[c] = Ended(c)
    BY CreateEffect
  <1>3. cycle'[c].pc # "create"
    BY <1>2, SendsIs, EndedIs
  <1>4. n \in Nat /\ budget.upsets \in Nat
    BY DEF ReportTypeOK
  <1> SUFFICES ASSUME NEW layer \in {0, 1}, NEW to \in Nat
               PROVE  (Cardinality(FoundLogs(layer, to)) + Cardinality(Makers(layer, to)) <= 1 + budget.upsets)'
    BY DEF EachOK
  <1> DEFINE M == Makers(layer, to)
             F == FoundLogs(layer, to)
  <1>5. IsFiniteSet(F) /\ Cardinality(F) \in Nat /\ IsFiniteSet(M) /\ Cardinality(M) \in Nat
    BY PeriodIsFinite
  <1>6. Cardinality(F) + Cardinality(M) <= 1 + budget.upsets
    BY DEF EachOK
  <1>7. \A i \in 1..n : logs'[i].layer = logs[i].layer /\ logs'[i].to = logs[i].to
    BY <1>1 DEF Spares, RowsKept
  <1>8. /\ \A S \in SUBSET M : IsFiniteSet(S) /\ Cardinality(S) <= Cardinality(M) /\ Cardinality(S) \in Nat
        /\ c \in M => Cardinality(M \ {c}) = Cardinality(M) - 1
        /\ n + 1 \notin F => Cardinality(F \cup {n + 1}) = Cardinality(F) + 1
    <2> HIDE DEF M, F
    <2> QED
      BY <1>5, FS_Subset, FS_CardinalityType, FS_RemoveElement, FS_AddElement
  <1>9. CASE layer = cycle[c].layer /\ to = cycle[c].to
    <2>1. F' = F \cup {n + 1} /\ n + 1 \notin F
      BY <1>1, <1>2, <1>4, <1>7, <1>9 DEF FoundLogs, SameLog
    <2>2. M' \in SUBSET (M \ {c}) /\ c \in M
      BY <1>1, <1>3, <1>9 DEF Makers, InPhase, Spares, Kept
    <2> HIDE DEF M, F
    <2>3. Cardinality(F') = Cardinality(F) + 1
      BY <1>8, <2>1
    <2>4. Cardinality(M') <= Cardinality(M) - 1 /\ Cardinality(M') \in Nat
      <3>1. M \ {c} \in SUBSET M
        OBVIOUS
      <3>2. IsFiniteSet(M \ {c})
        BY <1>8, <3>1
      <3>3. Cardinality(M') <= Cardinality(M \ {c}) /\ Cardinality(M') \in Nat
        BY <2>2, <3>2, FS_Subset, FS_CardinalityType
      <3> QED
        BY <1>8, <2>2, <3>3
    <2>5. Cardinality(F') + Cardinality(M') <= 1 + budget'.upsets
      BY <1>1, <1>4, <1>5, <1>6, <2>3, <2>4
    <2> QED
      BY <2>5 DEF M, F
  <1>10. CASE ~(layer = cycle[c].layer /\ to = cycle[c].to)
    <2>1. F' = F
      BY <1>1, <1>2, <1>4, <1>7, <1>10 DEF FoundLogs, SameLog
    <2>2. M' \in SUBSET M
      BY <1>1, <1>3 DEF Makers, InPhase, Spares, Kept
    <2> HIDE DEF M, F
    <2>3. Cardinality(F') = Cardinality(F)
      BY <2>1
    <2>4. Cardinality(M') <= Cardinality(M) /\ Cardinality(M') \in Nat
      BY <1>8, <2>2
    <2>5. Cardinality(F') + Cardinality(M') <= 1 + budget'.upsets
      BY <1>1, <1>4, <1>5, <1>6, <2>3, <2>4
    <2> QED
      BY <2>5 DEF M, F
  <1> QED
    BY <1>9, <1>10

\* In the other steps rows and makers are what they were, or fewer.
LEMMA CycleEach ==
  ASSUME ReportTypeOK, ReportTypeOK', HeldOK, EachOK, PaceOK', NEW c \in Cycles, ReportCycle(c)
  PROVE  EachOK'
  <1> DEFINE calm == Len(logs') = Len(logs) /\ cycle'[c].pc # "create"
  <1>1. ASSUME calm PROVE EachOK'
    <2>1. Spares(c) /\ budget'.upsets = budget.upsets
      BY CycleEffect
    <2>2. \A d \in Cycles : Kept(d) \/ cycle'[d].pc # "create"
      BY <1>1, <2>1 DEF Spares
    <2>3. budget.upsets \in Nat
      BY DEF ReportTypeOK
    <2> QED
      BY <1>1, <2>1, <2>2, <2>3, NoMoreMakers DEF Spares
  <1>2. CASE StartCycle(c)
    <2>1. calm
      BY <1>2, StartEffect
    <2> QED
      BY <1>1, <2>1
  <1>3. CASE FindLog(c)
    BY <1>3, FindEach
  <1>4. CASE CreateLog(c)
    BY <1>4, CreateEach
  <1>5. CASE SendLog(c)
    <2>1. calm
      BY <1>5, SendEffect, EndedIs DEF RowsSent
    <2> QED
      BY <1>1, <2>1
  <1>6. CASE MarkLog(c)
    <2>1. calm
      BY <1>6, MarkEffect
    <2> QED
      BY <1>1, <2>1
  <1>7. CASE CountMissing(c)
    <2>1. calm
      BY <1>7, CountEffect
    <2> QED
      BY <1>1, <2>1
  <1>8. CASE SendBatch(c)
    <2>1. calm
      BY <1>8, BatchEffect DEF RowsSent
    <2> QED
      BY <1>1, <2>1
  <1>9. CASE Settle(c)
    <2>1. calm
      BY <1>9, SettleEffect, EndedIs
    <2> QED
      BY <1>1, <2>1
  <1>10. CASE Daily(c)
    <2>1. calm
      BY <1>10, DailyEffect
    <2> QED
      BY <1>1, <2>1
  <1>11. CASE AbortReport(c)
    <2>1. calm
      BY <1>11, AbortEffect DEF IdleCycle
    <2> QED
      BY <1>1, <2>1
  <1> QED
    BY <1>2, <1>3, <1>4, <1>5, <1>6, <1>7, <1>8, <1>9, <1>10, <1>11 DEF ReportCycle

\* Time and workers make no rows.
LEMMA WorldEach ==
  ASSUME ReportTypeOK, ReportTypeOK', EachOK, RowsKept, OnTime \/ Late
  PROVE  EachOK'
  <1>1. UNCHANGED logs
    BY DEF OnTime, Late
  <1>2. budget'.upsets >= budget.upsets
    <2>1. budget.upsets \in Nat
      BY DEF ReportTypeOK
    <2>2. budget' = budget \/ budget'.upsets = budget.upsets + 1
      BY DEF OnTime, Late
    <2> QED
      BY <2>1, <2>2
  <1>3. \A c \in Cycles : Kept(c) \/ cycle'[c].pc # "create"
    BY DEF OnTime, Late, Kept, IdleCycle
  <1> QED
    BY <1>1, <1>2, <1>3, NoMoreMakers
-----------------------------------------------------------------------------
(* What the supervisor has *)

\* What a thread is about to mark was received by the supervisor, or has no report in it.
ThreadStored(c) ==
  /\ cycle[c].pc \in {"mark", "noid"} => logs[cycle[c].log].got > 0
  /\ \A i \in cycle[c].acked : logs[i].got > 0
  /\ \A i \in cycle[c].empty : logs[i].kind # "full"

EmptyIsReported == \A i \in 1..Len(logs) : logs[i].kind = "empty" => logs[i].reported

StoredOK == ReportedIsStored /\ EmptyIsReported /\ \A c \in Cycles : ThreadStored(c)

\* At the beginning there is no row to store.
LEMMA StoredInit == ReportInit => StoredOK
  <1> SUFFICES ASSUME ReportInit PROVE StoredOK
    OBVIOUS
  <1>1. Len(logs) = 0
    BY EmptySeq DEF ReportInit
  <1>2. \A c \in Cycles : cycle[c] = IdleCycle
    BY DEF ReportInit
  <1> QED
    BY <1>1, <1>2 DEF StoredOK, ReportedIsStored, EmptyIsReported, ThreadStored, IdleCycle

\* The supervisor takes nothing back: rows to be marked stay fit for it.
LEMMA FitStay ==
  ASSUME ReportTypeOK, RowsKept, NEW d \in Cycles, ThreadStored(d)
  PROVE  /\ \A i \in cycle[d].acked : logs'[i].got > 0
         /\ \A i \in cycle[d].empty : logs'[i].kind # "full"
  <1>1. cycle[d].acked \subseteq 1..Len(logs) /\ cycle[d].empty \subseteq 1..Len(logs)
    <2>1. cycle[d] \in Threads(Len(logs))
      BY TypeByThreads
    <2> QED
      BY <2>1 DEF Threads
  <1>2. ASSUME NEW i \in cycle[d].acked PROVE logs'[i].got > 0
    <2>1. i \in 1..Len(logs) /\ logs[i].got > 0
      BY <1>1 DEF ThreadStored
    <2> QED
      BY <2>1 DEF RowsKept
  <1>3. ASSUME NEW i \in cycle[d].empty PROVE logs'[i].kind # "full"
    <2>1. i \in 1..Len(logs) /\ logs[i].kind # "full"
      BY <1>1 DEF ThreadStored
    <2> QED
      BY <2>1 DEF RowsKept
  <1> QED
    BY <1>2, <1>3

\* What a thread is about to mark stays stored while others move.
LEMMA ThreadStays ==
  ASSUME ReportTypeOK, HeldOK, RowsKept, NEW d \in Cycles, ThreadStored(d), Kept(d)
  PROVE  ThreadStored(d)'
  <1>1. /\ \A i \in cycle'[d].acked : logs'[i].got > 0
        /\ \A i \in cycle'[d].empty : logs'[i].kind # "full"
    BY FitStay DEF Kept
  <1>2. ASSUME cycle'[d].pc \in {"mark", "noid"} PROVE logs'[cycle'[d].log].got > 0
    <2>1. cycle'[d].log = cycle[d].log /\ cycle[d].pc \in {"mark", "noid"}
      BY <1>2 DEF Kept
    <2>2. cycle[d].log \in 1..Len(logs) /\ logs[cycle[d].log].got > 0
      BY <2>1 DEF HeldOK, ThreadStored
    <2> QED
      BY <2>1, <2>2 DEF RowsKept
  <1> QED
    BY <1>1, <1>2 DEF ThreadStored

\* A step that spares the others keeps all of it if the rows and the thread keep theirs.
LEMMA StoredByOthers ==
  ASSUME ReportTypeOK, HeldOK, StoredOK, NEW c \in Cycles, Spares(c),
         ReportedIsStored', EmptyIsReported', ThreadStored(c)'
  PROVE  StoredOK'
  <1>1. \A d \in Cycles \ {c} : ThreadStored(d)'
    BY ThreadStays DEF Spares, StoredOK
  <1> QED
    BY <1>1 DEF StoredOK

\* Rows that are sent or left alone.
LEMMA SentIsStored ==
  ASSUME ReportTypeOK, StoredOK, RowsKept, RowsSent
  PROVE  ReportedIsStored' /\ EmptyIsReported'
  <1>1. Len(logs) \in Nat /\ \A i \in 1..Len(logs) : logs[i] \in ReportLogType
    BY TypeByThreads
  <1>2. \A i \in 1..Len(logs) : logs[i].got > 0 => logs'[i].got > 0
    BY DEF RowsKept
  <1> QED
    BY <1>2 DEF StoredOK, ReportedIsStored, EmptyIsReported, RowsSent

\* A thread with fewer rows to mark.
LEMMA ThreadDrops ==
  ASSUME ReportTypeOK, StoredOK, RowsKept, NEW c \in Cycles,
         cycle'[c].pc \notin {"mark", "noid"},
         cycle'[c].acked \subseteq cycle[c].acked, cycle'[c].empty \subseteq cycle[c].empty
  PROVE  ThreadStored(c)'
  <1>1. /\ \A i \in cycle[c].acked : logs'[i].got > 0
        /\ \A i \in cycle[c].empty : logs'[i].kind # "full"
    BY FitStay DEF StoredOK
  <1>2. /\ \A i \in cycle'[c].acked : logs'[i].got > 0
        /\ \A i \in cycle'[c].empty : logs'[i].kind # "full"
    BY <1>1
  <1> QED
    BY <1>2 DEF ThreadStored

\* A new row is stored nowhere yet, and reported only when it is empty.
LEMMA CreateStores ==
  ASSUME ReportTypeOK, HeldOK, StoredOK, NEW c \in Cycles, CreateLog(c)
  PROVE  StoredOK'
  <1> DEFINE n == Len(logs)
  <1>1. Spares(c) /\ cycle[c].pc = "create" /\ Len(logs') = n + 1 /\ \A i \in 1..n : logs'[i] = logs[i]
    BY CreateEffect
  <1>2. PICK row \in ReportLogType :
          /\ logs'[n + 1] = row /\ row.reported = (row.kind = "empty") /\ ~row.remote
          /\ Sends(c, n + 1) \/ cycle'[c] = Ended(c)
    BY CreateEffect
  <1>3. n \in Nat
    BY TypeByThreads
  <1> HIDE DEF n
  <1>4. \A i \in 1..Len(logs') : i \in 1..n \/ i = n + 1
    BY <1>1, <1>3
  <1>5. ReportedIsStored'
    BY <1>1, <1>2, <1>4 DEF StoredOK, ReportedIsStored, n
  <1>6. EmptyIsReported'
    BY <1>1, <1>2, <1>4 DEF StoredOK, EmptyIsReported, n
  <1>7. /\ cycle'[c].pc \notin {"mark", "noid"}
        /\ cycle'[c].acked \subseteq cycle[c].acked /\ cycle'[c].empty \subseteq cycle[c].empty
    BY <1>2, SendsIs, EndedIs
  <1>8. ThreadStored(c)'
    BY <1>1, <1>7, ThreadDrops DEF Spares
  <1> QED
    BY <1>1, <1>5, <1>6, <1>8, StoredByOthers

\* A report that was answered is stored.
LEMMA SendStores ==
  ASSUME ReportTypeOK, HeldOK, StoredOK, NEW c \in Cycles, SendLog(c)
  PROVE  StoredOK'
  <1>1. Spares(c) /\ RowsSent
    BY SendEffect
  <1>2. ReportedIsStored' /\ EmptyIsReported'
    BY <1>1, SentIsStored DEF Spares
  <1>3. CASE cycle'[c] = Ended(c)
    <2>1. /\ cycle'[c].pc \notin {"mark", "noid"}
          /\ cycle'[c].acked \subseteq cycle[c].acked /\ cycle'[c].empty \subseteq cycle[c].empty
      BY <1>3, EndedIs
    <2>2. ThreadStored(c)'
      BY <1>1, <2>1, ThreadDrops DEF Spares
    <2> QED
      BY <1>1, <1>2, <2>2, StoredByOthers
  <1>4. CASE /\ cycle'[c].log = cycle[c].log /\ logs'[cycle[c].log].got > 0
             /\ cycle'[c].acked = cycle[c].acked /\ cycle'[c].empty = cycle[c].empty
    <2>1. /\ \A i \in cycle[c].acked : logs'[i].got > 0
          /\ \A i \in cycle[c].empty : logs'[i].kind # "full"
      BY <1>1, FitStay DEF StoredOK, Spares
    <2>2. ThreadStored(c)'
      BY <1>4, <2>1 DEF ThreadStored
    <2> QED
      BY <1>1, <1>2, <2>2, StoredByOthers
  <1> QED
    BY <1>3, <1>4, SendEffect

\* The row that is marked was received.
LEMMA MarkStores ==
  ASSUME ReportTypeOK, HeldOK, StoredOK, NEW c \in Cycles, MarkLog(c)
  PROVE  StoredOK'
  <1> DEFINE i == cycle[c].log
  <1>1. /\ Spares(c) /\ cycle[c].pc \in {"mark", "noid"}
        /\ Len(logs') = Len(logs) /\ logs'[i].reported
        /\ \A j \in 1..Len(logs) : /\ logs'[j].got = logs[j].got /\ logs'[j].kind = logs[j].kind
                                   /\ j # i => logs'[j] = logs[j]
        /\ cycle'[c].pc \in {"missing", "idle", "daily"}
        /\ cycle'[c].acked \subseteq cycle[c].acked /\ cycle'[c].empty \subseteq cycle[c].empty
    BY MarkEffect
  <1>2. logs[i].got > 0 /\ i \in 1..Len(logs)
    BY <1>1 DEF StoredOK, ThreadStored, HeldOK
  <1> HIDE DEF i
  <1>3. ReportedIsStored'
    BY <1>1, <1>2 DEF StoredOK, ReportedIsStored
  <1>4. EmptyIsReported'
    BY <1>1, <1>2 DEF StoredOK, EmptyIsReported
  <1>5. ThreadStored(c)'
    BY <1>1, ThreadDrops DEF Spares
  <1> QED
    BY <1>1, <1>3, <1>4, <1>5, StoredByOthers

\* The rows of a batch are acknowledged when they were received.
LEMMA BatchStores ==
  ASSUME ReportTypeOK, HeldOK, StoredOK, NEW c \in Cycles, SendBatch(c)
  PROVE  StoredOK'
  <1>1. Spares(c) /\ RowsSent /\ cycle'[c].pc \in {"batch", "settle"}
    BY BatchEffect
  <1>2. PICK ids, bare \in SUBSET (1..Len(logs)) :
          /\ cycle'[c].acked = cycle[c].acked \cup ids
          /\ cycle'[c].empty = cycle[c].empty \cup bare
          /\ \A i \in ids : logs'[i].got > 0
          /\ \A i \in bare : logs[i].kind # "full"
    BY BatchEffect
  <1>3. ReportedIsStored' /\ EmptyIsReported'
    BY <1>1, SentIsStored DEF Spares
  <1>4. /\ \A i \in cycle[c].acked : logs'[i].got > 0
        /\ \A i \in cycle[c].empty : logs'[i].kind # "full"
    BY <1>1, FitStay DEF StoredOK, Spares
  <1>5. \A i \in bare : logs'[i].kind # "full"
    BY <1>1, <1>2 DEF RowsSent
  <1>6. \A i \in cycle'[c].acked : logs'[i].got > 0
    BY <1>2, <1>4
  <1>7. \A i \in cycle'[c].empty : logs'[i].kind # "full"
    BY <1>2, <1>4, <1>5
  <1>8. ThreadStored(c)'
    BY <1>1, <1>6, <1>7 DEF ThreadStored
  <1> QED
    BY <1>1, <1>3, <1>8, StoredByOthers

\* The rows that are settled were acknowledged, or have no report in them.
LEMMA SettleStores ==
  ASSUME ReportTypeOK, HeldOK, StoredOK, NEW c \in Cycles, Settle(c)
  PROVE  StoredOK'
  <1>1. Spares(c) /\ cycle'[c] = Ended(c) /\ Len(logs') = Len(logs)
    BY SettleEffect
  <1>2. \A i \in 1..Len(logs) :
          /\ logs'[i].got = logs[i].got /\ logs'[i].kind = logs[i].kind
          /\ \/ i \in cycle[c].acked
             \/ i \in cycle[c].empty /\ logs'[i].remote = logs[i].remote /\ logs'[i].reported
             \/ logs'[i] = logs[i]
    BY SettleEffect
  <1>3. ThreadStored(c)
    BY DEF StoredOK
  <1>4. ReportedIsStored'
    BY <1>1, <1>2, <1>3 DEF StoredOK, ReportedIsStored, ThreadStored
  <1>5. EmptyIsReported'
    <2>1. \A i \in 1..Len(logs) : logs[i].reported => logs'[i].reported
      BY <1>1 DEF Spares, RowsKept
    <2> QED
      BY <1>1, <1>2, <2>1 DEF StoredOK, EmptyIsReported
  <1>6. ThreadStored(c)'
    BY <1>1, EndedIs, ThreadDrops DEF Spares
  <1> QED
    BY <1>1, <1>4, <1>5, <1>6, StoredByOthers

\* The other steps write no row and leave the thread no more to mark.
LEMMA CycleStores ==
  ASSUME ReportTypeOK, HeldOK, StoredOK, NEW c \in Cycles, ReportCycle(c)
  PROVE  StoredOK'
  <1> DEFINE calm == /\ UNCHANGED logs /\ cycle'[c].pc \notin {"mark", "noid"}
                     /\ cycle'[c].acked \subseteq cycle[c].acked
                     /\ cycle'[c].empty \subseteq cycle[c].empty
  <1>1. ASSUME calm PROVE StoredOK'
    <2>1. Spares(c) /\ RowsSent
      BY <1>1, CycleEffect, NotReceived
    <2>2. ReportedIsStored' /\ EmptyIsReported'
      BY <2>1, SentIsStored DEF Spares
    <2>3. ThreadStored(c)'
      BY <1>1, <2>1, ThreadDrops DEF Spares
    <2> QED
      BY <2>1, <2>2, <2>3, StoredByOthers
  <1>2. CASE StartCycle(c)
    <2>1. calm
      BY <1>2, StartEffect
    <2> QED
      BY <1>1, <2>1
  <1>3. CASE FindLog(c)
    <2>1. UNCHANGED logs
      BY <1>3, FindEffect
    <2>2. \/ cycle'[c] = [cycle[c] EXCEPT !.pc = "create"] \/ cycle'[c] = Ended(c)
          \/ \E i \in FoundLogs(cycle[c].layer, cycle[c].to) : Sends(c, i)
      BY <1>3, FindEffect
    <2>3. calm
      BY <2>1, <2>2, CreatesIs, EndedIs, SendsIs
    <2> QED
      BY <1>1, <2>3
  <1>4. CASE CreateLog(c)
    BY <1>4, CreateStores
  <1>5. CASE SendLog(c)
    BY <1>5, SendStores
  <1>6. CASE MarkLog(c)
    BY <1>6, MarkStores
  <1>7. CASE CountMissing(c)
    <2>1. calm
      BY <1>7, CountEffect
    <2> QED
      BY <1>1, <2>1
  <1>8. CASE SendBatch(c)
    BY <1>8, BatchStores
  <1>9. CASE Settle(c)
    BY <1>9, SettleStores
  <1>10. CASE Daily(c)
    <2>1. calm
      BY <1>10, DailyEffect
    <2> QED
      BY <1>1, <2>1
  <1>11. CASE AbortReport(c)
    <2>1. calm
      BY <1>11, AbortEffect DEF IdleCycle
    <2> QED
      BY <1>1, <2>1
  <1> QED
    BY <1>2, <1>3, <1>4, <1>5, <1>6, <1>7, <1>8, <1>9, <1>10, <1>11 DEF ReportCycle

\* Time and workers write no row.
LEMMA WorldStores ==
  ASSUME ReportTypeOK, HeldOK, StoredOK, RowsKept, OnTime \/ Late
  PROVE  StoredOK'
  <1>1. UNCHANGED logs
    BY DEF OnTime, Late
  <1>2. ReportedIsStored' /\ EmptyIsReported'
    BY <1>1, NotReceived, SentIsStored
  <1>3. ASSUME NEW d \in Cycles PROVE ThreadStored(d)'
    <2>1. Kept(d) \/ cycle'[d] = IdleCycle
      BY DEF OnTime, Late, Kept
    <2>2. CASE Kept(d)
      BY <2>2, ThreadStays DEF StoredOK
    <2>3. CASE cycle'[d] = IdleCycle
      BY <2>3 DEF ThreadStored, IdleCycle
    <2> QED
      BY <2>1, <2>2, <2>3
  <1> QED
    BY <1>2, <1>3 DEF StoredOK
-----------------------------------------------------------------------------
(* The last cycle of an hour *)

LastOne    == CurrentHour(clock + 1) # CurrentHour(clock)
HourIsSent == \E i \in FoundLogs(0, CurrentHour(clock)) : logs[i].reported

\* A thread that is about to report the current hour.
Due(c) ==
  /\ cycle[c].layer = 0 /\ cycle[c].to = CurrentHour(clock)
  /\ cycle[c].pc \in {"find", "create", "send", "mark", "noid"}

\* While everything keeps to its time there is one cycle, the primary's, and it
\* began in this slot.
Alone ==
  /\ \A c, d \in Cycles : Busy(c) /\ Busy(d) => c = d
  /\ \A c \in Cycles : Busy(c) => done.begun /\ WorkerOf[c] = primary
  /\ done.begun => memory[primary].exec = clock

HourOK ==
  done.kept => Alone /\ (done.begun /\ LastOne => HourIsSent \/ \E c \in Cycles : Due(c))

\* At the beginning no hour is over.
LEMMA HourInit == ReportInit => HourOK
  BY DEF ReportInit, HourOK, Alone, Busy, IdleCycle

\* A reported row stays one.
LEMMA HourStaysSent ==
  ASSUME ReportTypeOK, RowsKept, UNCHANGED clock, HourIsSent
  PROVE  HourIsSent'
  <1>1. PICK i \in FoundLogs(0, CurrentHour(clock)) : logs[i].reported
    BY DEF HourIsSent
  <1>2. /\ i \in 1..Len(logs) /\ logs[i].layer = 0 /\ logs[i].to = CurrentHour(clock)
        /\ Len(logs) \in Nat
    BY TypeByThreads DEF FoundLogs, SameLog
  <1>3. /\ i \in 1..Len(logs') /\ logs'[i].layer = 0 /\ logs'[i].to = CurrentHour(clock)
        /\ logs'[i].reported
    BY <1>1, <1>2 DEF RowsKept
  <1> QED
    BY <1>3 DEF HourIsSent, FoundLogs, SameLog

\* In the last slot the report of the hour is not left to the draw.
LEMMA SurelySends ==
  ASSUME ReportTypeOK, NEW c \in Cycles, cycle[c].layer = 0, cycle[c].to = CurrentHour(clock),
         WorkerOf[c] = primary, memory[primary].exec = clock, LastOne
  PROVE  WhetherToSend(c) = {TRUE}
  <1>1. clock \in Nat
    BY TypeByThreads
  <1>2. clock - (clock \div Slots) * Slots + 1 >= Slots
    BY <1>1, LastSlot DEF LastOne, CurrentHour
  <1> QED
    BY <1>2 DEF WhetherToSend, Mem, CurrentHour

\* The step of the thread that has the hour to report.
LEMMA DueMoves ==
  ASSUME ReportTypeOK, HeldOK, EmptyIsReported, NEW c \in Cycles, ReportCycle(c), Due(c),
         WorkerOf[c] = primary, memory[primary].exec = clock, LastOne, done'.kept
  PROVE  HourIsSent' \/ Due(c)'
  <1>1. UNCHANGED clock /\ Spares(c)
    BY CycleEffect
  <1>2. ASSUME cycle'[c].layer = cycle[c].layer, cycle'[c].to = cycle[c].to,
               cycle'[c].pc \in {"find", "create", "send", "mark", "noid"}
        PROVE  Due(c)'
    BY <1>1, <1>2 DEF Due
  <1>3. WhetherToSend(c) = {TRUE}
    BY SurelySends DEF Due
  <1>4. CASE FindLog(c)
    <2>1. CASE cycle'[c] = [cycle[c] EXCEPT !.pc = "create"]
      BY <1>2, <2>1, CreatesIs
    <2>2. ASSUME NEW i \in FoundLogs(cycle[c].layer, cycle[c].to), Sends(c, i) PROVE Due(c)'
      BY <1>2, <2>2, SendsIs
    <2>3. ASSUME NEW i \in FoundLogs(cycle[c].layer, cycle[c].to),
                 logs[i].reported \/ logs[i].kind = "empty"
          PROVE  HourIsSent'
      <3>1. logs[i].reported
        BY <2>3 DEF EmptyIsReported, FoundLogs
      <3>2. HourIsSent
        BY <3>1 DEF HourIsSent, Due
      <3> QED
        BY <1>1, <3>2, HourStaysSent DEF Spares
    <2> QED
      BY <1>3, <1>4, <2>1, <2>2, <2>3, FindEffect
  <1>5. CASE CreateLog(c)
    <2> DEFINE n == Len(logs)
    <2>1. PICK row \in ReportLogType :
            /\ logs'[n + 1] = row /\ row.layer = cycle[c].layer /\ row.to = cycle[c].to
            /\ row.reported = (row.kind = "empty")
            /\ \/ Sends(c, n + 1)
               \/ cycle'[c] = Ended(c) /\ (WhetherToSend(c) = {TRUE} => row.kind = "empty")
      BY <1>5, CreateEffect
    <2>2. CASE Sends(c, n + 1)
      BY <1>2, <2>2, SendsIs
    <2>3. CASE row.kind = "empty"
      <3>1. n \in Nat /\ Len(logs') = n + 1
        <4>1. n \in Nat
          BY TypeByThreads
        <4> QED
          BY <1>5, <4>1, CreateEffect
      <3>2. logs'[n + 1].layer = 0 /\ logs'[n + 1].to = CurrentHour(clock) /\ logs'[n + 1].reported
        BY <2>1, <2>3 DEF Due
      <3>3. n + 1 \in FoundLogs(0, CurrentHour(clock))'
        BY <1>1, <3>1, <3>2 DEF FoundLogs, SameLog
      <3> QED
        BY <3>2, <3>3 DEF HourIsSent
    <2> QED
      BY <1>3, <2>1, <2>2, <2>3
  <1>6. CASE SendLog(c)
    <2>1. \E pc \in {"mark", "noid"} :
            cycle'[c].pc = pc /\ cycle'[c].layer = cycle[c].layer /\ cycle'[c].to = cycle[c].to
      BY <1>6, SendEffect
    <2> QED
      BY <1>2, <2>1
  <1>7. CASE MarkLog(c)
    <2> DEFINE i == cycle[c].log
    <2>1. i \in 1..Len(logs) /\ logs[i].layer = 0 /\ logs[i].to = CurrentHour(clock)
      BY <1>7, MarkEffect DEF HeldOK, SameLog, Due
    <2>2. Len(logs') = Len(logs) /\ logs'[i].reported
      BY <1>7, MarkEffect
    <2>3. logs'[i].layer = 0 /\ logs'[i].to = CurrentHour(clock)
      BY <1>1, <2>1 DEF Spares, RowsKept
    <2>4. i \in FoundLogs(0, CurrentHour(clock))'
      BY <1>1, <2>1, <2>2, <2>3 DEF FoundLogs, SameLog
    <2> QED
      BY <2>2, <2>4 DEF HourIsSent
  <1>8. ~StartCycle(c) /\ ~CountMissing(c) /\ ~SendBatch(c) /\ ~Settle(c) /\ ~Daily(c)
    BY DEF Due, StartCycle, Busy, CountMissing, SendBatch, Settle, Daily, InPhase
  <1>9. ~AbortReport(c)
    BY AbortEffect
  <1> QED
    BY <1>4, <1>5, <1>6, <1>7, <1>8, <1>9 DEF ReportCycle

\* A cycle that began keeps the time it began at in the memory of its worker.
LEMMA ExecStays ==
  ASSUME ReportTypeOK, HeldOK, NEW c \in Cycles, ReportCycle(c), cycle[c].pc # "idle"
  PROVE  \A w \in Workers : memory'[w].exec = memory[w].exec
  <1>1. ~StartCycle(c)
    BY DEF StartCycle, Busy
  <1>2. CASE FindLog(c)
    BY <1>2, FindEffect
  <1>3. CASE CreateLog(c)
    BY <1>3, CreateEffect
  <1>4. CASE SendLog(c)
    BY <1>4, SendEffect
  <1>5. CASE UNCHANGED memory
    BY <1>5
  <1> QED
    BY <1>1, <1>2, <1>3, <1>4, <1>5
    DEF ReportCycle, MarkLog, CountMissing, SendBatch, Settle, Daily, AbortReport

\* A step of a cycle leaves the hour reported, or to the one thread that is to report it.
LEMMA CycleHour ==
  ASSUME ReportTypeOK, HeldOK, EmptyIsReported, HourOK, NEW c \in Cycles, ReportCycle(c)
  PROVE  HourOK'
  <1> SUFFICES ASSUME done'.kept
               PROVE  Alone' /\ (done'.begun /\ LastOne' => HourIsSent' \/ \E d \in Cycles : Due(d)')
    BY DEF HourOK
  <1>1. /\ Spares(c) /\ UNCHANGED <<clock, primary>> /\ done.kept
        /\ \/ cycle[c].pc # "idle" /\ done'.begun = done.begun
           \/ cycle[c].pc = "idle" /\ ~done.begun /\ done'.begun
    BY CycleEffect
  <1>2. Alone /\ (done.begun /\ LastOne => HourIsSent \/ \E d \in Cycles : Due(d))
    BY <1>1 DEF HourOK
  <1>3. primary \in Workers
    BY TypeByThreads
  <1>4. \A d \in Cycles \ {c} : Busy(d)' <=> Busy(d)
    BY <1>1 DEF Spares, Kept, Busy
  <1>5. CASE cycle[c].pc # "idle" /\ done'.begun = done.begun
    <2>1. Busy(c) /\ done.begun /\ WorkerOf[c] = primary /\ memory[primary].exec = clock
      BY <1>2, <1>5 DEF Alone, Busy
    <2>2. \A d \in Cycles : Busy(d)' => d = c
      BY <1>2, <1>4, <2>1 DEF Alone
    <2>3. memory'[primary].exec = memory[primary].exec
      BY <1>3, <1>5, ExecStays
    <2>4. Alone'
      BY <1>1, <1>5, <2>1, <2>2, <2>3 DEF Alone
    <2>5. ASSUME LastOne' PROVE HourIsSent' \/ \E d \in Cycles : Due(d)'
      <3>1. LastOne
        BY <1>1, <2>5 DEF LastOne, CurrentHour
      <3>2. CASE HourIsSent
        BY <1>1, <3>2, HourStaysSent DEF Spares
      <3>3. ASSUME NEW d \in Cycles, Due(d) PROVE HourIsSent' \/ Due(c)'
        <4>1. d = c
          BY <1>2, <2>1, <3>3 DEF Alone, Busy, Due
        <4> QED
          BY <2>1, <3>1, <3>3, <4>1, DueMoves
      <3> QED
        BY <1>2, <2>1, <3>1, <3>2, <3>3
    <2> QED
      BY <2>4, <2>5
  <1>6. CASE cycle[c].pc = "idle" /\ ~done.begun /\ done'.begun
    <2>1. StartCycle(c)
      <3>1. ASSUME ~StartCycle(c) PROVE cycle[c].pc # "idle"
        BY <3>1 DEF ReportCycle, FindLog, CreateLog, SendLog, MarkLog, CountMissing, SendBatch,
           Settle, Daily, AbortReport, InPhase, Busy
      <3> QED
        BY <1>6, <3>1
    <2>2. /\ WorkerOf[c] = primary /\ memory'[primary].exec = clock
          /\ cycle'[c].pc = "find" /\ cycle'[c].layer = 0 /\ cycle'[c].to = CurrentHour(clock)
      BY <2>1, StartEffect
    <2>3. \A d \in Cycles : Busy(d)' => d = c
      BY <1>2, <1>4, <1>6 DEF Alone
    <2>4. Alone'
      BY <1>1, <1>6, <2>2, <2>3 DEF Alone
    <2>5. Due(c)'
      BY <1>1, <2>2 DEF Due
    <2> QED
      BY <2>4, <2>5
  <1> QED
    BY <1>1, <1>5, <1>6

\* A slot that ended in time left no thread behind; after anything else nothing is promised.
LEMMA WorldHour ==
  ASSUME OnTime \/ Late
  PROVE  HourOK'
  <1>1. CASE OnTime
    BY <1>1 DEF OnTime, HourOK, Alone, Busy
  <1>2. CASE Late
    BY <1>2 DEF Late, HourOK
  <1> QED
    BY <1>1, <1>2
-----------------------------------------------------------------------------
(* The invariant and the theorems *)

ReportInv == ReportTypeOK /\ HeldOK /\ PaceOK /\ EachOK /\ StoredOK /\ HourOK

\* All of the invariant at the beginning.
LEMMA ReportInitInv == ReportInit => ReportInv
  <1> SUFFICES ASSUME ReportInit PROVE ReportInv
    OBVIOUS
  <1>1. HeldOK
    BY DEF ReportInit, HeldOK, IdleCycle
  <1> QED
    BY <1>1, ReportInitType, PaceInit, EachInit, StoredInit, HourInit DEF ReportInv

\* No step breaks the invariant.
LEMMA ReportStepInv == ReportInv /\ [ReportNext]_reportVars => ReportInv'
  <1> SUFFICES ASSUME ReportInv, [ReportNext]_reportVars PROVE ReportInv'
    OBVIOUS
  <1>1. ReportTypeOK /\ HeldOK /\ PaceOK /\ EachOK /\ StoredOK /\ HourOK
    BY DEF ReportInv
  <1>2. ASSUME NEW c \in Cycles, ReportCycle(c) PROVE ReportInv'
    <2>1. ReportTypeOK' /\ HeldOK'
      BY <1>1, <1>2, CycleEffect, CycleHolds
    <2>2. PaceOK'
      BY <1>1, <1>2, CyclePace
    <2>3. EachOK'
      BY <1>1, <1>2, <2>1, <2>2, CycleEach
    <2>4. StoredOK'
      BY <1>1, <1>2, CycleStores
    <2>5. HourOK'
      BY <1>1, <1>2, CycleHour DEF StoredOK
    <2> QED
      BY <2>1, <2>2, <2>3, <2>4, <2>5 DEF ReportInv
  <1>3. ASSUME TimePasses \/ \E w \in Workers : TakeOver(w) \/ RestartWorker(w) PROVE ReportInv'
    <2>1. ReportTypeOK' /\ RowsKept /\ (OnTime \/ Late)
      BY <1>1, <1>3, WorldEffect
    <2>2. HeldOK'
      <3>1. UNCHANGED logs /\ \A c \in Cycles : Kept(c) \/ cycle'[c] = IdleCycle
        BY <2>1 DEF OnTime, Late, Kept
      <3> QED
        BY <1>1, <3>1, WorldHolds
    <2>3. PaceOK'
      BY <1>1, <2>1, WorldPace
    <2>4. EachOK'
      BY <1>1, <2>1, WorldEach
    <2>5. StoredOK'
      BY <1>1, <2>1, WorldStores
    <2>6. HourOK'
      BY <2>1, WorldHour
    <2> QED
      BY <2>1, <2>2, <2>3, <2>4, <2>5, <2>6 DEF ReportInv
  <1>4. CASE UNCHANGED reportVars
    <2>1. UNCHANGED <<clock, primary, memory, cycle, logs, done, budget>>
      BY <1>4 DEF reportVars
    <2>2. ReportTypeOK'
      BY <1>1, <2>1 DEF ReportTypeOK
    <2>3. HeldOK'
      BY <1>1, <2>1 DEF HeldOK, SameLog
    <2>4. PaceOK'
      BY <1>1, <2>1 DEF PaceOK, Running, Busy
    <2>5. EachOK'
      BY ZenonT(60), <1>1, <2>1 DEF EachOK, FoundLogs, SameLog, Makers, InPhase
    <2>6. StoredOK'
      BY <1>1, <2>1 DEF StoredOK, ReportedIsStored, EmptyIsReported, ThreadStored
    <2>7. HourOK'
      BY <1>1, <2>1 DEF HourOK, Alone, Busy, LastOne, CurrentHour, HourIsSent, FoundLogs, SameLog, Due
    <2> QED
      BY <2>2, <2>3, <2>4, <2>5, <2>6, <2>7 DEF ReportInv
  <1> QED
    BY <1>2, <1>3, <1>4 DEF ReportNext

\* The invariant holds of every reachable state.
LEMMA ReportInvariant == ReportSpec => []ReportInv
  BY ReportInitInv, ReportStepInv, PTL DEF ReportSpec

\* The state of the reports is well typed; a counted row is a row of the table.
THEOREM ReportTypes == ReportSpec => []ReportTypeOK
  <1>1. ReportInv => ReportTypeOK
    BY DEF ReportInv
  <1> QED
    BY <1>1, ReportInvariant, PTL

\* An hour or a day has one report, and one more at most for every late cycle,
\* change of primary and restart (aggregate looks for the row before it makes one).
THEOREM PeriodsHaveOneLog == ReportSpec => []OneLogPerPeriod
  <1>1. ReportInv => OneLogPerPeriod
    <2> SUFFICES ASSUME ReportInv, NEW i \in 1..Len(logs)
                 PROVE  Cardinality(FoundLogs(logs[i].layer, logs[i].to)) <= 1 + budget.upsets
      BY DEF OneLogPerPeriod
    <2> DEFINE layer == logs[i].layer
               to == logs[i].to
    <2>1. ReportTypeOK /\ EachOK
      BY DEF ReportInv
    <2>2. layer \in {0, 1} /\ to \in Nat
      <3>1. logs[i] \in ReportLogType
        BY <2>1, TypeByThreads
      <3> QED
        BY <3>1 DEF ReportLogType
    <2> HIDE DEF layer, to
    <2>3. Cardinality(FoundLogs(layer, to)) + Cardinality(Makers(layer, to)) <= 1 + budget.upsets
      BY <2>1, <2>2 DEF EachOK
    <2>4. /\ Cardinality(FoundLogs(layer, to)) \in Nat /\ Cardinality(Makers(layer, to)) \in Nat
      BY <2>1, PeriodIsFinite
    <2>5. budget.upsets \in Nat
      BY <2>1 DEF ReportTypeOK
    <2>6. Cardinality(FoundLogs(layer, to)) <= 1 + budget.upsets
      BY <2>3, <2>4, <2>5
    <2> QED
      BY <2>6 DEF layer, to
  <1> QED
    BY <1>1, ReportInvariant, PTL

\* What the table calls reported the supervisor has (models.py "remote id is not
\* None means the report is successful"), whatever was lost, restarted or overlapped.
THEOREM ReportedLogsAreStored == ReportSpec => []ReportedIsStored
  <1>1. ReportInv => ReportedIsStored
    BY DEF ReportInv, StoredOK
  <1> QED
    BY <1>1, ReportInvariant, PTL

\* An hour whose last cycle was on time, met no failure and kept its primary does not
\* end with its report unsent (WhetherToSend reaches one in the last slot).
THEOREM HoursAreReported == ReportSpec => HourIsReported
  <1>1. ReportInv /\ [ReportNext]_reportVars =>
          [CurrentHour(clock') # CurrentHour(clock) /\ done.kept /\ budget' = budget
             => \E i \in FoundLogs(0, CurrentHour(clock)) : logs[i].reported]_reportVars
    <2> SUFFICES ASSUME ReportInv, ReportNext, CurrentHour(clock') # CurrentHour(clock), done.kept,
                        budget' = budget
                 PROVE  HourIsSent
      BY DEF HourIsSent
    <2>1. ReportTypeOK /\ HeldOK /\ HourOK
      BY DEF ReportInv
    <2>2. ASSUME NEW c \in Cycles, ReportCycle(c) PROVE FALSE
      <3>1. clock' = clock
        BY <2>1, <2>2, CycleEffect
      <3> QED
        BY <3>1 DEF CurrentHour
    <2>3. OnTime \/ Late
      BY <2>1, <2>2, WorldEffect DEF ReportNext
    <2>4. done.begun /\ (\A c \in Cycles : ~Busy(c)) /\ clock' = clock + 1
      BY <2>3 DEF OnTime, Late
    <2>5. LastOne
      BY <2>4 DEF LastOne
    <2>6. \A c \in Cycles : ~Due(c)
      BY <2>4 DEF Due, Busy
    <2> QED
      BY <2>1, <2>4, <2>5, <2>6 DEF HourOK
  <1> QED
    BY <1>1, ReportInvariant, PTL DEF ReportSpec, HourIsReported

HIDE ReportAssumption
-----------------------------------------------------------------------------
(***************************************************************************)
(* Proofs about ResourceSync, for any processes, releases and bounds: how  *)
(* many rows an ident has, that the row of an instance lives, and that a   *)
(* sync leaves the table as the supervisor was told it is.  A setup or     *)
(* sync may add one row of an ident at most, and only one that began while *)
(* another was at work adds to what there is: so the rows that count and   *)
(* the processes that may add one are counted together (Paced), but for a  *)
(* process that may add one and, because of the rows it found, will not.   *)
(***************************************************************************)

USE SyncAssumption

SyncRow == [ident: Idents, remote: BOOLEAN, deleted: BOOLEAN]

Saving == {"etag", "map", "plan", "update", "create", "delete"}

\* A process whose rows are among the first n.
Doing(n) ==
  [pc: {"down", "find", "make", "ready", "load", "upload"} \cup Saving,
   release: DOMAIN Releases, held: 0..n, force: BOOLEAN, read: Data, data: Data,
   mapped: SUBSET (1..n), update: SUBSET (1..n), alone: BOOLEAN]

AtWork(q) == q.pc \notin {"down", "ready"}

Told(q) == Releases[q.release] \cup {"instance"}

\* A remote id is for good, and an instance that has one lives; a row is deleted only where
\* there is one with a remote id.
TableOK(rows) ==
  \A i \in 1..Len(rows) :
    /\ ~rows[i].remote => rows[i].ident = "instance"
    /\ rows[i].remote /\ rows[i].ident = "instance" => ~rows[i].deleted
    /\ rows[i].deleted => \E j \in 1..Len(rows) : rows[j].ident = rows[i].ident /\ rows[j].remote

\* The rows S are of different idents.
OnePerIdent(S, rows) == \A i, j \in S : rows[i].ident = rows[j].ident => i = j

\* What a process knows of the table, whatever others write.
KnowsOK(q, rows) ==
  /\ q.pc \notin {"down", "find", "make"} => q.held # 0
  /\ q.held # 0 => rows[q.held].ident = "instance"
  /\ q.pc \in {"upload"} \cup Saving => q.data.idents = Told(q)
  /\ q.pc = "plan" => OnePerIdent(q.mapped, rows) /\ \A i \in q.mapped : rows[i].remote
  /\ q.pc \in {"update", "create"} =>
       OnePerIdent(q.update, rows) /\ \A i \in q.update : rows[i].ident \in q.data.idents
  /\ q.pc = "create" => \A i \in q.update : rows[i].remote /\ (q.alone => ~rows[i].deleted)
  /\ q.pc = "delete" =>
       \A e \in q.data.idents : \E i \in 1..Len(rows) :
         rows[i].ident = e /\ rows[i].remote /\ (q.alone => ~rows[i].deleted)

\* Who is alone, and how often somebody was not.
AloneOK ==
  /\ \A p, r \in Processes : Working(p) /\ process[p].alone /\ r # p => ~Working(r)
  /\ count.overlap = 0 => \A p \in Processes : Working(p) => process[p].alone
  /\ count.overlap <= count.syncs + count.setups

\* What the etag says while nothing failed and nobody met.
EtagOK ==
  count.breaks = 0 /\ count.overlap = 0 =>
    /\ \A p \in Processes :
         /\ Now(p, "load") => process[p].read = etag
         /\ Now(p, "etag") => uploaded = process[p].data
         /\ process[p].pc \in Saving \ {"etag"} => uploaded = process[p].data /\ etag = process[p].data
    /\ (\A p \in Processes : process[p].pc \notin Saving) =>
         uploaded = etag /\ \A e \in etag.idents : \E i \in RowsOf(e) : Live(i) /\ resources[i].remote

\* The instance lives while nobody met.
InstanceLives == count.overlap = 0 => \A i \in RowsOf("instance") : Live(i)

\* The rows of an ident that count.
Counts(e) == {i \in RowsOf(e) : Live(i) \/ resources[i].remote}

\* A process that may still add to the rows of e that count,
MayAdd(q, e, rows) ==
  \/ q.pc \in {"load", "upload", "etag", "map", "plan"}
  \/ q.pc \in {"find", "make"} /\ e = "instance"
  \/ q.pc = "update" /\ e \in q.data.idents
  \/ q.pc = "create" /\ e \in q.data.idents /\ \A i \in q.update : rows[i].ident # e

\* but will not, because of the rows there are.
WillNot(q, e, rows) ==
  \/ q.pc = "find" /\ \E i \in 1..Len(rows) : rows[i].ident = e /\ ~rows[i].deleted
  \/ q.pc \in {"load", "upload", "etag", "map"} /\ \E i \in 1..Len(rows) : rows[i].ident = e
  \/ q.pc = "plan" /\ \/ \E i \in q.mapped : rows[i].ident = e
                      \/ /\ \E i \in 1..Len(rows) : rows[i].ident = e /\ ~rows[i].remote
                         /\ \A i \in 1..Len(rows) : rows[i].ident = e /\ ~rows[i].remote => ~rows[i].deleted
  \/ q.pc = "update" /\ \E i \in q.update : rows[i].ident = e /\ (rows[i].remote \/ ~rows[i].deleted)

Adders(e) == {p \in Processes : MayAdd(process[p], e, resources)}

Within(c, n, overlap, blocked) == c + n <= 1 + overlap \/ (c + n <= 2 + overlap /\ blocked)

\* The rows of e that count and the processes that may add one, for one overlap each and
\* one; or for one more while a process that may add one will not.
Paced(e) ==
  Within(Cardinality(Counts(e)), Cardinality(Adders(e)), count.overlap,
         \E p \in Adders(e) : WillNot(process[p], e, resources))

SyncInv ==
  /\ SyncTypeOK /\ TableOK(resources)
  /\ \A p \in Processes : KnowsOK(process[p], resources)
  /\ AloneOK /\ EtagOK /\ InstanceLives
  /\ \A e \in Idents : Paced(e)
\* What the types say.
LEMMA SyncTyped ==
  ASSUME SyncTypeOK
  PROVE  /\ release \in DOMAIN Releases /\ etag \in Data /\ uploaded \in Data
         /\ resources \in Seq(SyncRow) /\ Len(resources) \in Nat /\ Len(resources) <= MaxResources
         /\ process \in [Processes -> Doing(Len(resources))]
         /\ \A i \in ResourceIds : resources[i] \in SyncRow
         /\ count \in [syncs: Nat, setups: Nat, deploys: Nat, breaks: Nat, overlap: Nat]
         /\ ResourceIds = 1..Len(resources)
  <1>1. process \in [Processes -> Doing(Len(resources))]
    BY DEF SyncTypeOK, Doing, Saving, ResourceIds
  <1>2. resources \in Seq(SyncRow) /\ Len(resources) \in Nat /\ Len(resources) <= MaxResources
    BY DEF SyncTypeOK, SyncRow
  <1>3. count \in [syncs: Nat, setups: Nat, deploys: Nat, breaks: Nat, overlap: Nat]
    BY DEF SyncTypeOK
  <1>4. \A i \in ResourceIds : resources[i] \in SyncRow
    BY <1>2 DEF ResourceIds
  <1> QED
    BY <1>1, <1>2, <1>3, <1>4 DEF SyncTypeOK, ResourceIds

\* Rows and processes are finitely many.
LEMMA FinitelyMany ==
  SyncTypeOK =>
    \A e : /\ IsFiniteSet(Counts(e)) /\ Cardinality(Counts(e)) \in Nat
           /\ IsFiniteSet(Adders(e)) /\ Cardinality(Adders(e)) \in Nat
  <1> SUFFICES ASSUME SyncTypeOK, NEW e
               PROVE  /\ IsFiniteSet(Counts(e)) /\ Cardinality(Counts(e)) \in Nat
                      /\ IsFiniteSet(Adders(e)) /\ Cardinality(Adders(e)) \in Nat
    OBVIOUS
  <1>1. IsFiniteSet(1..Len(resources))
    <2>1. Len(resources) \in Nat
      BY SyncTyped
    <2> QED
      BY <2>1, FS_Interval
  <1>2. Counts(e) \in SUBSET (1..Len(resources))
    BY DEF Counts, RowsOf, ResourceIds
  <1>3. IsFiniteSet(Counts(e))
    BY <1>1, <1>2, FS_Subset
  <1>4. Adders(e) \in SUBSET Processes
    BY DEF Adders
  <1>5. IsFiniteSet(Adders(e))
    BY <1>4, FS_Subset
  <1> QED
    BY <1>3, <1>5, FS_CardinalityType

\* And after a step.
LEMMA FinitelyManyNext ==
  SyncTypeOK' => \A e : Cardinality(Counts(e)') \in Nat /\ Cardinality(Adders(e)') \in Nat
  <1>1. SyncTypeOK => \A e : Cardinality(Counts(e)) \in Nat /\ Cardinality(Adders(e)) \in Nat
    BY FinitelyMany
  <1>2. (SyncTypeOK => \A e : Cardinality(Counts(e)) \in Nat /\ Cardinality(Adders(e)) \in Nat)'
    BY <1>1, PTL
  <1> QED
    BY <1>2

\* Less than before is within the bound,
LEMMA PaceDrops ==
  ASSUME SyncTypeOK, SyncTypeOK', NEW e, Paced(e), count'.overlap = count.overlap,
         Cardinality(Counts(e)') + Cardinality(Adders(e)') < Cardinality(Counts(e)) + Cardinality(Adders(e))
  PROVE  Paced(e)'
  <1>1. /\ Cardinality(Counts(e)) \in Nat /\ Cardinality(Adders(e)) \in Nat
        /\ Cardinality(Counts(e)') \in Nat /\ Cardinality(Adders(e)') \in Nat /\ count.overlap \in Nat
    BY FinitelyMany, FinitelyManyNext, SyncTyped
  <1> DEFINE c == Cardinality(Counts(e))
             n == Cardinality(Adders(e))
             b == \E p \in Adders(e) : WillNot(process[p], e, resources)
  <1>2. Within(c, n, count.overlap, b)
    BY DEF Paced
  <1>3. c' + n' <= 1 + count'.overlap
    BY <1>1, <1>2 DEF Within
  <1> QED
    BY <1>3 DEF Paced, Within

\* What is not above something below a bound is not above the bound.
LEMMA NotAbove ==
  \A c, n, d, m, o \in Nat : d + m <= c + n =>
    (c + n <= 1 + o => d + m <= 1 + o) /\ (c + n <= 2 + o => d + m <= 2 + o)
  OBVIOUS

\* and so is as much as before, while the process that will not add stays one.
LEMMA PaceKeeps ==
  ASSUME SyncTypeOK, SyncTypeOK', NEW e, Paced(e), count'.overlap = count.overlap,
         Cardinality(Counts(e)') + Cardinality(Adders(e)') <= Cardinality(Counts(e)) + Cardinality(Adders(e)),
         \A p \in Adders(e) : WillNot(process[p], e, resources)
                                => p \in Adders(e)' /\ WillNot(process[p], e, resources)'
  PROVE  Paced(e)'
  <1> DEFINE c == Cardinality(Counts(e))
             n == Cardinality(Adders(e))
             b == \E p \in Adders(e) : WillNot(process[p], e, resources)
  <1>1. c \in Nat /\ n \in Nat /\ c' \in Nat /\ n' \in Nat /\ count.overlap \in Nat
    BY FinitelyMany, FinitelyManyNext, SyncTyped
  <1>2. Within(c, n, count.overlap, b)
    BY DEF Paced
  <1>3. b => b'
    OBVIOUS
  <1>4. c' + n' <= c + n
    OBVIOUS
  <1> HIDE DEF c, n, b
  <1>5. /\ c + n <= 1 + count.overlap => c' + n' <= 1 + count.overlap
        /\ c + n <= 2 + count.overlap => c' + n' <= 2 + count.overlap
    BY <1>1, <1>4, NotAbove, Zenon
  <1>6. Within(c', n', count.overlap, b')
    BY <1>2, <1>3, <1>5 DEF Within
  <1> QED
    BY <1>6 DEF Paced, c, n, b

\* The processes that may add, when one of them is done or none is.
LEMMA AddersMove ==
  ASSUME SyncTypeOK, NEW e, NEW p \in Processes,
         \A r \in Processes \ {p} : MayAdd(process[r], e, resources)' <=> MayAdd(process[r], e, resources),
         MayAdd(process[p], e, resources)' => MayAdd(process[p], e, resources)
  PROVE  /\ ~MayAdd(process[p], e, resources) \/ MayAdd(process[p], e, resources)' => Adders(e)' = Adders(e)
         /\ MayAdd(process[p], e, resources) /\ ~MayAdd(process[p], e, resources)' =>
              /\ Adders(e)' = Adders(e) \ {p}
              /\ Cardinality(Adders(e)') = Cardinality(Adders(e)) - 1
  <1>1. ~MayAdd(process[p], e, resources) \/ MayAdd(process[p], e, resources)' => Adders(e)' = Adders(e)
    BY DEF Adders
  <1>2. ASSUME MayAdd(process[p], e, resources), ~MayAdd(process[p], e, resources)'
        PROVE  Adders(e)' = Adders(e) \ {p} /\ Cardinality(Adders(e)') = Cardinality(Adders(e)) - 1
    <2>1. Adders(e)' = Adders(e) \ {p} /\ p \in Adders(e)
      BY <1>2 DEF Adders
    <2>2. IsFiniteSet(Adders(e))
      BY FinitelyMany
    <2> QED
      BY <2>1, <2>2, FS_RemoveElement
  <1> QED
    BY <1>1, <1>2
-----------------------------------------------------------------------------
\* Rows stay what they are of, and keep their remote ids.
Grown ==
  /\ Len(resources) <= Len(resources')
  /\ \A i \in 1..Len(resources) : /\ resources'[i].ident = resources[i].ident
                                  /\ resources[i].remote => resources'[i].remote

\* What another process knows stays true when one that is at work writes.
LEMMA OthersKnow ==
  ASSUME SyncInv, NEW p \in Processes, NEW r \in Processes \ {p}, process'[r] = process[r], Grown, Working(p)
  PROVE  KnowsOK(process[r], resources)'
  <1> DEFINE q == process[r]
  <1>1. q \in Doing(Len(resources)) /\ Len(resources) \in Nat
    BY SyncTyped DEF SyncInv
  <1>2. KnowsOK(q, resources)
    BY DEF SyncInv
  <1>3. AtWork(q) => ~q.alone
    BY DEF SyncInv, AloneOK, Working, AtWork
  <1>4. Len(resources') \in Nat \/ Len(resources') >= Len(resources)
    BY DEF Grown
  <1>5. q.mapped \subseteq 1..Len(resources) /\ q.update \subseteq 1..Len(resources) /\ q.held \in 0..Len(resources)
    BY <1>1 DEF Doing
  <1> HIDE DEF q
  <1>6. KnowsOK(q, resources')
    <2>1. q.pc \notin {"down", "find", "make"} => q.held # 0
      BY <1>2 DEF KnowsOK
    <2>2. q.held # 0 => resources'[q.held].ident = "instance"
      BY <1>1, <1>2, <1>5 DEF KnowsOK, Grown
    <2>3. q.pc \in {"upload"} \cup Saving => q.data.idents = Told(q)
      BY <1>2 DEF KnowsOK
    <2>4. q.pc = "plan" => OnePerIdent(q.mapped, resources') /\ \A i \in q.mapped : resources'[i].remote
      BY SMTT(40), <1>2, <1>5 DEF KnowsOK, Grown, OnePerIdent
    <2>5. q.pc \in {"update", "create"} =>
            OnePerIdent(q.update, resources') /\ \A i \in q.update : resources'[i].ident \in q.data.idents
      BY SMTT(40), <1>2, <1>5 DEF KnowsOK, Grown, OnePerIdent
    <2>6. q.pc = "create" => \A i \in q.update : resources'[i].remote /\ ~q.alone
      BY <1>2, <1>3, <1>5 DEF KnowsOK, Grown, AtWork
    <2>7. ASSUME q.pc = "delete", NEW e \in q.data.idents
          PROVE  \E i \in 1..Len(resources') : resources'[i].ident = e /\ resources'[i].remote /\ ~q.alone
      <3>1. PICK i \in 1..Len(resources) : resources[i].ident = e /\ resources[i].remote
        BY <1>2, <2>7 DEF KnowsOK
      <3>2. ~q.alone
        BY <1>3, <2>7 DEF AtWork
      <3>3. i \in 1..Len(resources')
        BY <1>1, <1>4 DEF Grown
      <3> QED
        BY <3>1, <3>2, <3>3 DEF Grown
    <2> QED
      BY <2>1, <2>2, <2>3, <2>4, <2>5, <2>6, <2>7 DEF KnowsOK
  <1> QED
    BY <1>6 DEF q

\* What another process may add does not depend on new rows.
LEMMA OthersMayAdd ==
  ASSUME SyncTypeOK, NEW e, NEW r \in Processes, process'[r] = process[r], Grown
  PROVE  MayAdd(process[r], e, resources)' <=> MayAdd(process[r], e, resources)
  <1>1. process[r].update \subseteq 1..Len(resources)
    BY SyncTyped DEF Doing
  <1> QED
    BY <1>1 DEF MayAdd, Grown

\* Only a process at work may add rows.
LEMMA BusyAdds == ASSUME NEW q, NEW e, NEW rows, MayAdd(q, e, rows) PROVE AtWork(q)
  BY DEF MayAdd, AtWork

\* A step of one process that writes no row and counts no overlap.
LEMMA ProcessMoves ==
  ASSUME SyncInv, NEW p \in Processes, NEW q \in Doing(Len(resources)), process' = [process EXCEPT ![p] = q],
         resources' = resources, release' \in DOMAIN Releases, etag' \in Data, uploaded' \in Data,
         count' \in [syncs: 0..MaxSyncs, setups: 0..MaxSetups, deploys: 0..MaxDeploys,
                     breaks: 0..MaxBreaks, overlap: 0..MaxSyncs + MaxSetups],
         count'.overlap = count.overlap, count'.syncs = count.syncs, count'.setups = count.setups,
         KnowsOK(q, resources), AtWork(q) => Working(p) /\ q.alone = process[p].alone, EtagOK',
         \A e \in Idents : MayAdd(q, e, resources) =>
           /\ MayAdd(process[p], e, resources)
           /\ WillNot(process[p], e, resources) => WillNot(q, e, resources)
  PROVE  SyncInv'
  <1>1. /\ process \in [Processes -> Doing(Len(resources))] /\ SyncTypeOK
        /\ resources \in Seq(SyncRow) /\ Len(resources) <= MaxResources
    BY SyncTyped DEF SyncInv
  <1>2. /\ process' \in [Processes -> Doing(Len(resources))] /\ process'[p] = q
        /\ \A r \in Processes \ {p} : process'[r] = process[r]
    BY <1>1
  <1>3. \A r \in Processes : KnowsOK(process[r], resources)'
    <2>1. \A r \in Processes : KnowsOK(process'[r], resources)
      BY <1>2 DEF SyncInv
    <2> QED
      BY <2>1
  <1>4. SyncTypeOK'
    <2>1. \A r \in Processes : process'[r].pc = "ready" => process'[r].held # 0
      BY <1>3 DEF KnowsOK
    <2> QED
      BY <1>1, <1>2, <2>1 DEF SyncTypeOK, Doing, Saving, ResourceIds, SyncRow, Now
  <1>5. TableOK(resources)' /\ InstanceLives'
    BY DEF SyncInv, InstanceLives, RowsOf, ResourceIds, Live
  <1>6. AloneOK'
    <2>1. \A r \in Processes : Working(r)' => Working(r) /\ process'[r].alone = process[r].alone
      BY <1>2 DEF Working, AtWork
    <2> QED
      BY <2>1 DEF SyncInv, AloneOK
  <1>7. ASSUME NEW e \in Idents PROVE Paced(e)'
    <2>1. Counts(e)' = Counts(e)
      BY DEF Counts, RowsOf, ResourceIds, Live
    <2>2. \A r \in Processes \ {p} : MayAdd(process[r], e, resources)' <=> MayAdd(process[r], e, resources)
      BY <1>2
    <2>3. MayAdd(process[p], e, resources)' <=> MayAdd(q, e, resources)
      BY <1>2
    <2>4. CASE MayAdd(process[p], e, resources) /\ ~MayAdd(q, e, resources)
      <3>1. Cardinality(Adders(e)') = Cardinality(Adders(e)) - 1
        BY <1>1, <2>2, <2>3, <2>4, AddersMove
      <3>2. Cardinality(Adders(e)) \in Nat /\ Cardinality(Counts(e)) \in Nat
        BY <1>1, FinitelyMany
      <3>3. Cardinality(Counts(e)') + Cardinality(Adders(e)') < Cardinality(Counts(e)) + Cardinality(Adders(e))
        BY SMTT(40), <2>1, <3>1, <3>2
      <3> QED
        BY <1>1, <1>4, <3>3, PaceDrops DEF SyncInv
    <2>5. CASE ~(MayAdd(process[p], e, resources) /\ ~MayAdd(q, e, resources))
      <3>1. Adders(e)' = Adders(e)
        BY <1>1, <2>2, <2>3, <2>5, AddersMove
      <3>2. Cardinality(Adders(e)) \in Nat /\ Cardinality(Counts(e)) \in Nat
        BY <1>1, FinitelyMany
      <3>3. Cardinality(Counts(e)') + Cardinality(Adders(e)') <= Cardinality(Counts(e)) + Cardinality(Adders(e))
        BY <2>1, <3>1, <3>2
      <3>4. ASSUME NEW r \in Adders(e), WillNot(process[r], e, resources)
            PROVE  r \in Adders(e)' /\ WillNot(process[r], e, resources)'
        <4>1. WillNot(process'[r], e, resources)
          <5>1. CASE r = p
            BY <1>2, <2>3, <3>1, <3>4, <5>1 DEF Adders
          <5>2. CASE r # p
            BY <1>2, <3>4, <5>2 DEF Adders
          <5> QED
            BY <5>1, <5>2
        <4> QED
          BY <3>1, <4>1
      <3> QED
        BY <1>1, <1>4, <3>3, <3>4, PaceKeeps DEF SyncInv
    <2> QED
      BY <2>4, <2>5
  <1> QED
    BY <1>3, <1>4, <1>5, <1>6, <1>7 DEF SyncInv
\* Numbers up to n have a last.
LEMMA LastNumber ==
  ASSUME NEW n \in Nat, NEW S \in SUBSET (1..n), S # {}
  PROVE  \E i \in S : \A j \in S : i >= j
  <1> DEFINE T == {k \in Nat : n - k \in S}
  <1>1. \A x \in S : n - x \in T /\ n - (n - x) = x
    OBVIOUS
  <1>2. T \in SUBSET Nat /\ T # {}
    <2>1. PICK x \in S : TRUE
      OBVIOUS
    <2> QED
      BY <1>1, <2>1
  <1>3. \A k \in T : n - k \in S /\ k \in Nat
    OBVIOUS
  <1> HIDE DEF T
  <1>4. PICK k \in T : \A l \in T : k <= l
    BY <1>2, FirstNumber
  <1>5. \A j \in S : n - j >= k /\ j \in Nat
    BY <1>1, <1>4
  <1>6. \A j \in S : n - k >= j
    BY <1>3, <1>4, <1>5
  <1> QED
    BY <1>3, <1>4, <1>6

\* The first row of a set is in it.
LEMMA LeastIsIn == ASSUME NEW S \in SUBSET Nat, S # {} PROVE LeastOf(S) \in S
  BY FirstNumber DEF LeastOf

-----------------------------------------------------------------------------
\* The etag is right if the step leaves it, what was uploaded and the rows alone.
LEMMA EtagKept ==
  ASSUME SyncInv, NEW p \in Processes, NEW q, process' = [process EXCEPT ![p] = q],
         UNCHANGED <<resources, etag, uploaded, count>>,
         q.pc \in Saving <=> process[p].pc \in Saving,
         q.pc \in Saving => q.data = process[p].data /\ (q.pc = "etag" <=> process[p].pc = "etag"),
         q.pc = "load" => q.read = etag
  PROVE  EtagOK'
  <1>1. process'[p] = q /\ \A r \in Processes \ {p} : process'[r] = process[r]
    BY SyncTyped DEF SyncInv
  <1>2. SUFFICES ASSUME count.breaks = 0, count.overlap = 0
                 PROVE  /\ \A r \in Processes :
                             /\ Now(r, "load")' => process'[r].read = etag
                             /\ Now(r, "etag")' => uploaded = process'[r].data
                             /\ process'[r].pc \in Saving \ {"etag"} =>
                                  uploaded = process'[r].data /\ etag = process'[r].data
                        /\ (\A r \in Processes : process'[r].pc \notin Saving) =>
                             uploaded = etag /\ \A e \in etag.idents : \E i \in RowsOf(e) : Live(i) /\ resources[i].remote
    BY DEF EtagOK, RowsOf, ResourceIds, Live
  <1>3. \A r \in Processes :
             /\ Now(r, "load") => process[r].read = etag
             /\ Now(r, "etag") => uploaded = process[r].data
             /\ process[r].pc \in Saving \ {"etag"} => uploaded = process[r].data /\ etag = process[r].data
    BY <1>2 DEF SyncInv, EtagOK
  <1>4. ASSUME NEW r \in Processes
        PROVE  /\ Now(r, "load")' => process'[r].read = etag
               /\ Now(r, "etag")' => uploaded = process'[r].data
               /\ process'[r].pc \in Saving \ {"etag"} => uploaded = process'[r].data /\ etag = process'[r].data
    <2>1. CASE r = p
      BY <1>1, <1>3, <2>1 DEF Now, Saving
    <2>2. CASE r # p
      BY <1>1, <1>3, <2>2 DEF Now
    <2> QED
      BY <2>1, <2>2
  <1>5. ASSUME \A r \in Processes : process'[r].pc \notin Saving
        PROVE  uploaded = etag /\ \A e \in etag.idents : \E i \in RowsOf(e) : Live(i) /\ resources[i].remote
    <2>1. \A r \in Processes : process[r].pc \notin Saving
      BY <1>1, <1>5
    <2> QED
      BY <1>2, <2>1 DEF SyncInv, EtagOK
  <1> QED
    BY <1>4, <1>5

\* Processes that are not at work know nothing, but which row they hold.
LEMMA RestedOK ==
  ASSUME SyncInv, NEW q \in Doing(Len(resources)), q.held # 0, resources[q.held].ident = "instance"
  PROVE  Rested(q) \in Doing(Len(resources)) /\ KnowsOK(Rested(q), resources) /\ Rested(q).pc = "ready"
  <1>1. NoProcess \in Doing(Len(resources)) /\ Len(resources) \in Nat
    BY SyncTyped DEF SyncInv, NoProcess, Doing, Saving, NoData, Data
  <1>2. q.release \in DOMAIN Releases /\ q.held \in 0..Len(resources)
    BY DEF Doing
  <1>3. Rested(q) \in Doing(Len(resources)) /\ Rested(q).pc = "ready" /\ Rested(q).held = q.held
    BY <1>1, <1>2 DEF Rested, Doing
  <1> QED
    BY <1>3 DEF KnowsOK, Saving

\* A process that is down knows nothing.
LEMMA NoProcessOK ==
  ASSUME SyncInv
  PROVE  NoProcess \in Doing(Len(resources)) /\ KnowsOK(NoProcess, resources) /\ NoProcess.pc = "down"
  <1>1. NoProcess \in Doing(Len(resources))
    BY SyncTyped DEF SyncInv, NoProcess, Doing, Saving, NoData, Data
  <1> QED
    BY <1>1 DEF NoProcess, KnowsOK, Saving

\* The counts have their types.
LEMMA CountTyped ==
  ASSUME SyncTypeOK
  PROVE  count \in [syncs: 0..MaxSyncs, setups: 0..MaxSetups, deploys: 0..MaxDeploys,
                    breaks: 0..MaxBreaks, overlap: 0..MaxSyncs + MaxSetups]
  BY DEF SyncTypeOK

\* A process that ends its setup or sync, or its run.
LEMMA EndsMoves ==
  ASSUME SyncInv, NEW p \in Processes, NEW q \in Doing(Len(resources)), KnowsOK(q, resources), ~AtWork(q),
         process' = [process EXCEPT ![p] = q], resources' = resources, release' = release,
         etag' \in Data, uploaded' \in Data, EtagOK',
         count' \in [syncs: 0..MaxSyncs, setups: 0..MaxSetups, deploys: 0..MaxDeploys,
                     breaks: 0..MaxBreaks, overlap: 0..MaxSyncs + MaxSetups],
         count'.overlap = count.overlap, count'.syncs = count.syncs, count'.setups = count.setups
  PROVE  SyncInv'
  <1>1. \A e \in Idents : ~MayAdd(q, e, resources)
    BY BusyAdds
  <1>2. release' \in DOMAIN Releases
    BY SyncTyped DEF SyncInv
  <1> QED
    BY <1>1, <1>2, ProcessMoves

\* A deployment changes no process that runs.
LEMMA DeployStep == ASSUME SyncInv, NEW r \in DOMAIN Releases, Deploy(r) PROVE SyncInv'
  <1>1. /\ SyncTypeOK /\ process' = process /\ resources' = resources /\ etag' = etag /\ uploaded' = uploaded
        /\ release' \in DOMAIN Releases /\ count' = [count EXCEPT !.deploys = count.deploys + 1]
        /\ count.deploys < MaxDeploys
    BY DEF Deploy, SyncInv
  <1>2. /\ count'.overlap = count.overlap /\ count'.breaks = count.breaks
        /\ count'.syncs = count.syncs /\ count'.setups = count.setups
        /\ count' \in [syncs: 0..MaxSyncs, setups: 0..MaxSetups, deploys: 0..MaxDeploys,
                       breaks: 0..MaxBreaks, overlap: 0..MaxSyncs + MaxSetups]
    <2>1. count.deploys + 1 \in 0..MaxDeploys
      BY <1>1, CountTyped
    <2> QED
      BY <1>1, <2>1, CountTyped
  <1>3. SyncTypeOK'
    BY <1>1, <1>2 DEF SyncTypeOK, ResourceIds, Now
  <1>4. TableOK(resources)' /\ (\A p \in Processes : KnowsOK(process[p], resources)')
    BY <1>1 DEF SyncInv
  <1>5. AloneOK' /\ InstanceLives'
    BY <1>1, <1>2 DEF SyncInv, AloneOK, InstanceLives, Working, RowsOf, ResourceIds, Live
  <1>6. EtagOK'
    BY <1>1, <1>2 DEF SyncInv, EtagOK, Now, RowsOf, ResourceIds, Live
  <1>7. \A e \in Idents : Paced(e)'
    BY <1>1, <1>2 DEF SyncInv, Paced, Counts, Adders, RowsOf, ResourceIds, Live
  <1> QED
    BY <1>3, <1>4, <1>5, <1>6, <1>7 DEF SyncInv
-----------------------------------------------------------------------------
(* The steps that write no row *)

\* While nobody met, a process that is at work is the only one.
LEMMA OnlyOne ==
  ASSUME SyncInv, count.overlap = 0, NEW p \in Processes, Working(p), NEW r \in Processes \ {p}
  PROVE  ~Working(r)
  BY DEF SyncInv, AloneOK

\* get_current_instance: without a row that lives a process will make one.
LEMMA FindStep == ASSUME SyncInv, NEW p \in Processes, FindInstance(p) PROVE SyncInv'
  <1> DEFINE found == {i \in RowsOf("instance") : Live(i)}
             q == IF found = {} THEN [process[p] EXCEPT !.pc = "make"]
                  ELSE Rested([process[p] EXCEPT !.held = LeastOf(found)])
  <1>1. /\ SyncTypeOK /\ process[p] \in Doing(Len(resources)) /\ KnowsOK(process[p], resources)
        /\ release \in DOMAIN Releases /\ etag \in Data /\ uploaded \in Data /\ Len(resources) \in Nat
    BY SyncTyped DEF SyncInv
  <1>2. /\ process[p].pc = "find" /\ process' = [process EXCEPT ![p] = q]
        /\ UNCHANGED <<release, resources, etag, uploaded, count>>
    BY DEF FindInstance, Now
  <1>3. CASE found = {}
    <2>1. q \in Doing(Len(resources)) /\ q.pc = "make" /\ q.held = process[p].held /\ q.alone = process[p].alone
      BY <1>1, <1>3 DEF Doing
    <2>2. \A i \in 1..Len(resources) : resources[i].ident = "instance" => resources[i].deleted
      BY <1>3 DEF RowsOf, ResourceIds, Live
    <2> HIDE DEF q
    <2>3. KnowsOK(q, resources)
      BY <1>1, <2>1 DEF KnowsOK, Saving
    <2>4. EtagOK'
      BY <1>2, <2>1, EtagKept DEF Saving
    <2>5. \A e \in Idents : MayAdd(q, e, resources) =>
            MayAdd(process[p], e, resources) /\ ~WillNot(process[p], e, resources)
      BY <1>2, <2>1, <2>2 DEF MayAdd, WillNot
    <2>6. Working(p)
      BY <1>2 DEF Working
    <2> QED
      BY <1>1, <1>2, <2>1, <2>3, <2>4, <2>5, <2>6, CountTyped, ProcessMoves
  <1>4. CASE found # {}
    <2> DEFINE h == [process[p] EXCEPT !.held = LeastOf(found)]
    <2>1. LeastOf(found) \in 1..Len(resources) /\ resources[LeastOf(found)].ident = "instance"
      <3>1. found \in SUBSET Nat /\ found # {}
        BY <1>1, <1>4 DEF RowsOf, ResourceIds
      <3>2. \A i \in found : i \in 1..Len(resources) /\ resources[i].ident = "instance"
        BY DEF RowsOf, ResourceIds
      <3> HIDE DEF found
      <3> QED
        BY <3>1, <3>2, LeastIsIn
    <2> HIDE DEF found
    <2>2. h \in Doing(Len(resources)) /\ h.held = LeastOf(found) /\ LeastOf(found) # 0
      BY SMTT(40), <1>1, <2>1 DEF Doing
    <2>3. q = Rested(h)
      BY <1>4 DEF found
    <2> HIDE DEF h, q
    <2>4. q \in Doing(Len(resources)) /\ KnowsOK(q, resources) /\ q.pc = "ready"
      BY <2>1, <2>2, <2>3, RestedOK
    <2>5. EtagOK'
      BY <1>2, <2>4, EtagKept DEF Saving
    <2> QED
      BY <1>1, <1>2, <2>4, <2>5, CountTyped, EndsMoves DEF AtWork
  <1> QED
    BY <1>3, <1>4

\* A sync that ends.
LEMMA RestStep ==
  ASSUME SyncInv, NEW p \in Processes, Rest(p), process[p].pc \in {"load", "upload"},
         UNCHANGED <<release, resources, etag, uploaded, count>>
  PROVE  SyncInv'
  <1> DEFINE q == Rested(process[p])
  <1>1. /\ SyncTypeOK /\ process[p] \in Doing(Len(resources)) /\ KnowsOK(process[p], resources)
        /\ etag \in Data /\ uploaded \in Data
    BY SyncTyped DEF SyncInv
  <1>2. process' = [process EXCEPT ![p] = q]
    BY DEF Rest
  <1>3. q \in Doing(Len(resources)) /\ KnowsOK(q, resources) /\ q.pc = "ready"
    BY <1>1, RestedOK DEF KnowsOK
  <1> HIDE DEF q
  <1>4. EtagOK'
    BY <1>2, <1>3, EtagKept DEF Saving
  <1> QED
    BY <1>1, <1>2, <1>3, <1>4, CountTyped, EndsMoves DEF AtWork

\* get_resources: the data are what the release tells.
LEMMA LoadStep == ASSUME SyncInv, NEW p \in Processes, LoadResources(p) PROVE SyncInv'
  <1> DEFINE data == [idents |-> Releases[process[p].release] \cup {"instance"},
                      known  |-> \E i \in RowsOf("instance") : Live(i) /\ resources[i].remote]
             q == [process[p] EXCEPT !.pc = "upload", !.data = data, !.force = FALSE, !.read = NoData]
  <1>1. /\ SyncTypeOK /\ process[p] \in Doing(Len(resources)) /\ KnowsOK(process[p], resources)
        /\ release \in DOMAIN Releases /\ etag \in Data /\ uploaded \in Data
    BY SyncTyped DEF SyncInv
  <1>2. process[p].pc = "load" /\ UNCHANGED <<release, resources, etag, uploaded, count>>
    BY DEF LoadResources, Now
  <1>3. CASE Rest(p)
    BY <1>2, <1>3, RestStep
  <1>4. CASE ~Rest(p)
    <2>1. process' = [process EXCEPT ![p] = q]
      BY <1>4 DEF LoadResources, Rest
    <2>2. data \in Data /\ NoData \in Data /\ data.idents = Told(process[p])
      <3>1. Releases[process[p].release] \subseteq Endpoints
        BY <1>1 DEF Doing, Endpoints
      <3> QED
        BY <3>1 DEF Data, NoData, Idents, Told
    <2> HIDE DEF data
    <2>3. /\ q \in Doing(Len(resources)) /\ q.pc = "upload" /\ q.held = process[p].held
          /\ q.alone = process[p].alone /\ q.data = data /\ q.release = process[p].release
      BY <1>1, <2>2 DEF Doing
    <2> HIDE DEF q
    <2>4. KnowsOK(q, resources)
      BY <1>1, <1>2, <2>2, <2>3 DEF KnowsOK, Told, Saving
    <2>5. EtagOK'
      BY <1>2, <2>1, <2>3, EtagKept DEF Saving
    <2>6. \A e \in Idents : /\ MayAdd(process[p], e, resources)
                            /\ WillNot(process[p], e, resources) => WillNot(q, e, resources)
      BY <1>2, <2>3 DEF MayAdd, WillNot
    <2>7. Working(p)
      BY <1>2 DEF Working
    <2> QED
      BY <1>1, <1>2, <2>1, <2>3, <2>4, <2>5, <2>6, <2>7, CountTyped, ProcessMoves
  <1> QED
    BY <1>3, <1>4

\* upload_resources: while nobody met, the supervisor has what the process holds.
LEMMA UploadStep == ASSUME SyncInv, NEW p \in Processes, Upload(p) PROVE SyncInv'
  <1> DEFINE q == [process[p] EXCEPT !.pc = "etag"]
  <1>1. /\ SyncTypeOK /\ process[p] \in Doing(Len(resources)) /\ KnowsOK(process[p], resources)
        /\ release \in DOMAIN Releases /\ etag \in Data /\ process \in [Processes -> Doing(Len(resources))]
    BY SyncTyped DEF SyncInv
  <1>2. /\ process[p].pc = "upload" /\ uploaded' = process[p].data
        /\ UNCHANGED <<release, resources, etag, count>>
    BY DEF Upload, Now
  <1>3. CASE Rest(p) /\ uploaded = process[p].data
    BY <1>2, <1>3, RestStep
  <1>4. CASE ~(Rest(p) /\ uploaded = process[p].data)
    <2>1. process' = [process EXCEPT ![p] = q]
      BY <1>4 DEF Upload, Proceed
    <2>2. /\ q \in Doing(Len(resources)) /\ q.pc = "etag" /\ q.held = process[p].held
          /\ q.alone = process[p].alone /\ q.data = process[p].data /\ q.release = process[p].release
      BY <1>1 DEF Doing, Saving
    <2>3. process[p].data \in Data
      BY <1>1 DEF Doing
    <2> HIDE DEF q
    <2>4. KnowsOK(q, resources)
      BY <1>1, <1>2, <2>2 DEF KnowsOK, Told, Saving
    <2>5. Working(p)
      BY <1>2 DEF Working
    <2>6. EtagOK'
      <3>1. process'[p] = q /\ \A r \in Processes \ {p} : process'[r] = process[r]
        BY <1>1, <2>1
      <3>2. ASSUME count.overlap = 0, NEW r \in Processes \ {p} PROVE process[r].pc \in {"down", "ready"}
        BY <2>5, <3>2, OnlyOne DEF Working
      <3> QED
        BY <1>2, <2>2, <3>1, <3>2 DEF EtagOK, Now, Saving
    <2>7. \A e \in Idents : /\ MayAdd(process[p], e, resources)
                            /\ WillNot(process[p], e, resources) => WillNot(q, e, resources)
      BY <1>2, <2>2 DEF MayAdd, WillNot
    <2> QED
      BY <1>1, <1>2, <2>1, <2>2, <2>3, <2>4, <2>5, <2>6, <2>7, CountTyped, ProcessMoves
  <1> QED
    BY <1>3, <1>4

\* While nobody met, the etag is then the digest of what the supervisor has.
LEMMA EtagStep == ASSUME SyncInv, NEW p \in Processes, SaveEtag(p) PROVE SyncInv'
  <1> DEFINE q == [process[p] EXCEPT !.pc = "map"]
  <1>1. /\ SyncTypeOK /\ process[p] \in Doing(Len(resources)) /\ KnowsOK(process[p], resources)
        /\ release \in DOMAIN Releases /\ uploaded \in Data /\ process \in [Processes -> Doing(Len(resources))]
    BY SyncTyped DEF SyncInv
  <1>2. /\ process[p].pc = "etag" /\ etag' = process[p].data /\ process' = [process EXCEPT ![p] = q]
        /\ UNCHANGED <<release, resources, uploaded, count>>
    BY DEF SaveEtag, Now, Proceed
  <1>3. /\ q \in Doing(Len(resources)) /\ q.pc = "map" /\ q.held = process[p].held
        /\ q.alone = process[p].alone /\ q.data = process[p].data /\ q.release = process[p].release
    BY <1>1 DEF Doing, Saving
  <1>4. process[p].data \in Data
    BY <1>1 DEF Doing
  <1> HIDE DEF q
  <1>5. KnowsOK(q, resources)
    BY <1>1, <1>2, <1>3 DEF KnowsOK, Told, Saving
  <1>6. Working(p)
    BY <1>2 DEF Working
  <1>7. EtagOK'
    <2>1. process'[p] = q /\ \A r \in Processes \ {p} : process'[r] = process[r]
      BY <1>1, <1>2
    <2>2. ASSUME count.overlap = 0, NEW r \in Processes \ {p} PROVE process[r].pc \in {"down", "ready"}
      BY <1>6, <2>2, OnlyOne DEF Working
    <2>3. count.breaks = 0 /\ count.overlap = 0 => uploaded = process[p].data
      BY <1>2 DEF SyncInv, EtagOK, Now
    <2> QED
      BY <1>2, <1>3, <2>1, <2>2, <2>3 DEF EtagOK, Now, Saving
  <1>8. \A e \in Idents : /\ MayAdd(process[p], e, resources)
                          /\ WillNot(process[p], e, resources) => WillNot(q, e, resources)
    BY <1>2, <1>3 DEF MayAdd, WillNot
  <1> QED
    BY <1>1, <1>2, <1>3, <1>4, <1>5, <1>6, <1>7, <1>8, CountTyped, ProcessMoves
\* remote_pk_map: an ident with a remote row is in the map, one without has rows that live.
LEMMA MapStep == ASSUME SyncInv, NEW p \in Processes, ReadMap(p) PROVE SyncInv'
  <1> DEFINE remote == {i \in 1..Len(resources) : resources[i].remote}
             mapped == {i \in remote : \A j \in remote : resources[j].ident = resources[i].ident => i >= j}
             q == [process[p] EXCEPT !.pc = "plan", !.mapped = mapped]
  <1>1. /\ SyncTypeOK /\ process[p] \in Doing(Len(resources)) /\ KnowsOK(process[p], resources)
        /\ release \in DOMAIN Releases /\ uploaded \in Data /\ etag \in Data /\ Len(resources) \in Nat
        /\ process \in [Processes -> Doing(Len(resources))]
    BY SyncTyped DEF SyncInv
  <1>2. /\ process[p].pc = "map" /\ process' = [process EXCEPT ![p] = q]
        /\ UNCHANGED <<release, resources, etag, uploaded, count>>
    BY <1>1 DEF ReadMap, Now, ResourceIds
  <1>3. OnePerIdent(mapped, resources) /\ \A i \in mapped : i \in 1..Len(resources) /\ resources[i].remote
    <2>1. \A i, j \in mapped : resources[i].ident = resources[j].ident => i >= j /\ j >= i /\ i \in Nat /\ j \in Nat
      BY <1>1
    <2>2. \A i \in mapped : i \in 1..Len(resources) /\ resources[i].remote
      OBVIOUS
    <2> HIDE DEF remote, mapped
    <2>3. \A i, j \in mapped : resources[i].ident = resources[j].ident => i = j
      BY <2>1
    <2> QED
      BY <2>2, <2>3 DEF OnePerIdent
  <1>4. ASSUME NEW i \in remote PROVE \E k \in mapped : resources[k].ident = resources[i].ident
    <2> DEFINE S == {j \in remote : resources[j].ident = resources[i].ident}
    <2>1. S \in SUBSET (1..Len(resources)) /\ S # {}
      OBVIOUS
    <2>2. \A k \in S : k \in remote /\ resources[k].ident = resources[i].ident
      OBVIOUS
    <2>3. \A j \in remote : resources[j].ident = resources[i].ident => j \in S
      OBVIOUS
    <2> HIDE DEF S
    <2>4. PICK k \in S : \A j \in S : k >= j
      BY <1>1, <2>1, LastNumber
    <2>5. k \in mapped
      BY <2>2, <2>3, <2>4
    <2> QED
      BY <2>2, <2>4, <2>5
  <1>5. mapped \in SUBSET (1..Len(resources))
    OBVIOUS
  <1>6. \A i \in 1..Len(resources) : resources[i].remote => i \in remote
    OBVIOUS
  <1> HIDE DEF remote, mapped
  <1>7. /\ q \in Doing(Len(resources)) /\ q.pc = "plan" /\ q.held = process[p].held /\ q.mapped = mapped
        /\ q.alone = process[p].alone /\ q.data = process[p].data /\ q.release = process[p].release
    BY <1>1, <1>5 DEF Doing, Saving
  <1> HIDE DEF q
  <1>8. KnowsOK(q, resources)
    BY <1>1, <1>2, <1>3, <1>7 DEF KnowsOK, Told, Saving
  <1>9. Working(p)
    BY <1>2 DEF Working
  <1>10. EtagOK'
    BY <1>2, <1>7, EtagKept DEF Saving
  <1>11. ASSUME NEW e \in Idents
         PROVE  /\ MayAdd(process[p], e, resources)
                /\ WillNot(process[p], e, resources) => WillNot(q, e, resources)
    <2>1. MayAdd(process[p], e, resources)
      BY <1>2 DEF MayAdd
    <2>2. ASSUME WillNot(process[p], e, resources) PROVE WillNot(q, e, resources)
      <3>1. PICK i \in 1..Len(resources) : resources[i].ident = e
        BY <1>2, <2>2 DEF WillNot
      <3>2. CASE \E j \in 1..Len(resources) : resources[j].ident = e /\ resources[j].remote
        BY <1>4, <1>6, <1>7, <3>2 DEF WillNot
      <3>3. CASE ~ \E j \in 1..Len(resources) : resources[j].ident = e /\ resources[j].remote
        <4>1. \A j \in 1..Len(resources) : resources[j].ident = e => ~resources[j].remote /\ ~resources[j].deleted
          BY <3>3 DEF SyncInv, TableOK
        <4> QED
          BY <1>7, <3>1, <4>1 DEF WillNot
      <3> QED
        BY <3>2, <3>3
    <2> QED
      BY <2>1, <2>2
  <1> QED
    BY <1>1, <1>2, <1>7, <1>8, <1>9, <1>10, <1>11, CountTyped, ProcessMoves

\* One row of an ident is to be updated, and if the map has none or there is a row that lives, it is that.
LEMMA PlanStep == ASSUME SyncInv, NEW p \in Processes, Plan(p) PROVE SyncInv'
  <1> DEFINE idents == process[p].data.idents
             mapped == {i \in process[p].mapped : resources[i].ident \in idents}
             rest   == idents \ {resources[i].ident : i \in mapped}
             local(ident) == {i \in RowsOf(ident) : ~resources[i].remote}
             first(ident) == LET S == {i \in RowsOf(ident) : ~resources[i].remote}
                             IN  IF S = {} THEN {} ELSE {LeastOf(S)}
             rows == mapped \cup UNION {first(e) : e \in rest}
             q == [process[p] EXCEPT !.pc = "update", !.mapped = {}, !.update = rows]
  <1>1. /\ SyncTypeOK /\ process[p] \in Doing(Len(resources)) /\ KnowsOK(process[p], resources)
        /\ release \in DOMAIN Releases /\ uploaded \in Data /\ etag \in Data /\ Len(resources) \in Nat
        /\ process \in [Processes -> Doing(Len(resources))] /\ process[p].mapped \subseteq 1..Len(resources)
    BY SyncTyped DEF SyncInv, Doing
  <1>2. /\ process[p].pc = "plan" /\ process' = [process EXCEPT ![p] = q]
        /\ UNCHANGED <<release, resources, etag, uploaded, count>>
    BY <1>1 DEF Plan, Now
  <1>3. ASSUME NEW e, local(e) # {}
        PROVE  /\ first(e) = {LeastOf(local(e))} /\ LeastOf(local(e)) \in 1..Len(resources)
               /\ resources[LeastOf(local(e))].ident = e /\ ~resources[LeastOf(local(e))].remote
    <2>1. local(e) \in SUBSET Nat
      BY <1>1 DEF RowsOf, ResourceIds
    <2>2. \A i \in local(e) : i \in 1..Len(resources) /\ resources[i].ident = e /\ ~resources[i].remote
      BY DEF RowsOf, ResourceIds
    <2>3. first(e) = {LeastOf(local(e))}
      BY <1>3
    <2> HIDE DEF local, first
    <2> QED
      BY <1>3, <2>1, <2>2, <2>3, LeastIsIn
  <1>4. \A e : local(e) = {} => first(e) = {}
    OBVIOUS
  <1> HIDE DEF local, first
  <1>5. ASSUME NEW i \in rows
        PROVE  /\ i \in 1..Len(resources) /\ resources[i].ident \in idents
               /\ i \in mapped \/ (resources[i].ident \in rest /\ i = LeastOf(local(resources[i].ident)))
    <2>1. CASE i \in mapped
      BY <1>1, <2>1
    <2>2. CASE i \notin mapped
      <3>1. PICK e \in rest : i \in first(e)
        BY <2>2
      <3>2. local(e) # {}
        BY <1>4, <3>1
      <3> QED
        BY <1>3, <3>1, <3>2
    <2> QED
      BY <2>1, <2>2
  <1>6. ASSUME NEW i \in rows, NEW j \in rows, resources[i].ident = resources[j].ident PROVE i = j
    <2>1. CASE i \in mapped /\ j \in mapped
      BY <1>1, <1>2, <1>6, <2>1 DEF KnowsOK, OnePerIdent
    <2>2. CASE i \notin mapped \/ j \notin mapped
      <3>1. resources[i].ident \in rest
        BY <1>5, <1>6, <2>2
      <3>2. i \notin mapped /\ j \notin mapped
        BY <1>6, <3>1
      <3> QED
        BY <1>5, <1>6, <3>2
    <2> QED
      BY <2>1, <2>2
  <1>7. rows \in SUBSET (1..Len(resources))
    BY <1>5
  <1>8. /\ \A i \in process[p].mapped : resources[i].ident \in idents => i \in rows
        /\ \A e \in rest : \A i \in first(e) : i \in rows
    OBVIOUS
  <1>9. \A e \in idents : e \in rest \/ \E i \in mapped : resources[i].ident = e
    OBVIOUS
  <1>10. \A e : \A i \in 1..Len(resources) : resources[i].ident = e /\ ~resources[i].remote => i \in local(e)
    BY DEF local, RowsOf, ResourceIds
  <1>11. \A i \in mapped : i \in process[p].mapped
    OBVIOUS
  <1> HIDE DEF rows, rest, mapped
  <1>12. /\ q \in Doing(Len(resources)) /\ q.pc = "update" /\ q.held = process[p].held /\ q.update = rows
         /\ q.alone = process[p].alone /\ q.data = process[p].data /\ q.release = process[p].release
    BY <1>1, <1>7 DEF Doing, Saving
  <1> HIDE DEF q
  <1>13. KnowsOK(q, resources)
    <2>1. OnePerIdent(rows, resources) /\ \A i \in rows : resources[i].ident \in q.data.idents
      BY <1>5, <1>6, <1>12 DEF OnePerIdent
    <2> QED
      BY <1>1, <1>2, <1>12, <2>1 DEF KnowsOK, Told, Saving
  <1>14. Working(p)
    BY <1>2 DEF Working
  <1>15. EtagOK'
    BY <1>2, <1>12, EtagKept DEF Saving
  <1>16. ASSUME NEW e \in Idents, MayAdd(q, e, resources)
         PROVE  /\ MayAdd(process[p], e, resources)
                /\ WillNot(process[p], e, resources) => WillNot(q, e, resources)
    <2>1. MayAdd(process[p], e, resources)
      BY <1>2 DEF MayAdd
    <2>2. e \in idents
      BY <1>12, <1>16 DEF MayAdd
    <2>3. ASSUME WillNot(process[p], e, resources) PROVE WillNot(q, e, resources)
      <3>1. CASE \E i \in process[p].mapped : resources[i].ident = e
        <4>1. PICK i \in process[p].mapped : resources[i].ident = e
          BY <3>1
        <4>2. i \in rows /\ resources[i].remote
          BY <1>1, <1>2, <1>8, <2>2, <4>1 DEF KnowsOK
        <4> QED
          BY <1>12, <4>1, <4>2 DEF WillNot
      <3>2. CASE ~ \E i \in process[p].mapped : resources[i].ident = e
        <4>1. /\ \E i \in 1..Len(resources) : resources[i].ident = e /\ ~resources[i].remote
              /\ \A i \in 1..Len(resources) : resources[i].ident = e /\ ~resources[i].remote => ~resources[i].deleted
          BY <1>2, <2>3, <3>2 DEF WillNot
        <4>2. local(e) # {}
          BY <1>10, <4>1
        <4>3. e \in rest
          BY <1>9, <1>11, <2>2, <3>2
        <4>4. LeastOf(local(e)) \in rows
          BY <1>3, <1>8, <4>2, <4>3
        <4> QED
          BY <1>3, <1>12, <4>1, <4>2, <4>4 DEF WillNot
      <3> QED
        BY <3>1, <3>2
    <2> QED
      BY <2>1, <2>3
  <1> QED
    BY <1>1, <1>2, <1>12, <1>13, <1>14, <1>15, <1>16, CountTyped, ProcessMoves

\* A process that exits knows nothing.
LEMMA ExitStep == ASSUME SyncInv, NEW p \in Processes, ExitProcess(p) PROVE SyncInv'
  <1>1. SyncTypeOK /\ etag \in Data /\ uploaded \in Data
    BY SyncTyped DEF SyncInv
  <1>2. /\ process[p].pc = "ready" /\ process' = [process EXCEPT ![p] = NoProcess]
        /\ UNCHANGED <<release, resources, etag, uploaded, count>>
    BY DEF ExitProcess, Now
  <1>3. NoProcess \in Doing(Len(resources)) /\ KnowsOK(NoProcess, resources) /\ NoProcess.pc = "down"
    BY NoProcessOK
  <1>4. EtagOK'
    BY <1>2, <1>3, EtagKept DEF Saving
  <1> QED
    BY <1>1, <1>2, <1>3, <1>4, CountTyped, EndsMoves DEF AtWork

\* A process that fails or is killed adds no row any more.
LEMMA BreakStep ==
  ASSUME SyncInv, NEW p \in Processes, NEW pc \in {"ready", "down"}, BreakSync(p, pc) PROVE SyncInv'
  <1> DEFINE q == IF pc = "down" THEN NoProcess ELSE Rested(process[p])
  <1>1. /\ SyncTypeOK /\ etag \in Data /\ uploaded \in Data /\ process[p] \in Doing(Len(resources))
        /\ KnowsOK(process[p], resources) /\ process[p].data \in Data
    BY SyncTyped DEF SyncInv, Doing
  <1>2. /\ process' = [process EXCEPT ![p] = q]
        /\ pc = "ready" => process[p].held # 0
        /\ UNCHANGED <<release, resources, etag>> /\ uploaded' \in {uploaded, process[p].data}
        /\ count.breaks < MaxBreaks /\ count' = [count EXCEPT !.breaks = count.breaks + 1]
    BY DEF BreakSync
  <1>3. q \in Doing(Len(resources)) /\ KnowsOK(q, resources) /\ q.pc \in {"ready", "down"}
    <2>1. CASE pc = "down"
      BY <2>1, NoProcessOK
    <2>2. CASE pc = "ready"
      <3>1. process[p].held # 0 /\ resources[process[p].held].ident = "instance"
        BY <1>1, <1>2, <2>2 DEF KnowsOK
      <3>2. q = Rested(process[p])
        BY <2>2
      <3> QED
        BY <1>1, <3>1, <3>2, RestedOK
    <2> QED
      BY <2>1, <2>2
  <1> HIDE DEF q
  <1>4. /\ count'.overlap = count.overlap /\ count'.breaks = count.breaks + 1
        /\ count'.syncs = count.syncs /\ count'.setups = count.setups
        /\ count' \in [syncs: 0..MaxSyncs, setups: 0..MaxSetups, deploys: 0..MaxDeploys,
                       breaks: 0..MaxBreaks, overlap: 0..MaxSyncs + MaxSetups]
    <2>1. count.breaks + 1 \in 0..MaxBreaks
      BY <1>1, <1>2, CountTyped
    <2> QED
      BY <1>1, <1>2, <2>1, CountTyped
  <1>5. EtagOK'
    <2>1. count'.breaks # 0
      BY <1>1, <1>4, CountTyped
    <2> QED
      BY <2>1 DEF EtagOK
  <1>6. uploaded' \in Data /\ etag' \in Data /\ release' = release /\ resources' = resources /\ ~AtWork(q)
    BY <1>1, <1>2, <1>3 DEF AtWork
  <1> QED
    BY <1>2, <1>3, <1>4, <1>5, <1>6, EndsMoves
-----------------------------------------------------------------------------
(* The steps that begin a setup or a sync *)

\* There are no more overlaps than setups and syncs.
LEMMA MoreOverlap ==
  \A o, m, s, t, x, y \in Nat : o <= s + t /\ m <= 1 /\ x + y = s + t + 1 =>
    /\ o + m <= x + y
    /\ x <= MaxSyncs /\ y <= MaxSetups => o + m \in 0..MaxSyncs + MaxSetups
  OBVIOUS

\* A process that begins and meets others has one overlap more, one that meets none is the
\* only one that may add, and finds the row there is.
LEMMA BeginMoves ==
  ASSUME SyncInv, NEW p \in Processes, ~Working(p), NEW q \in Doing(Len(resources)),
         KnowsOK(q, resources), q.pc \in {"find", "load"}, q.pc = "load" => q.read = etag,
         NEW name \in {"syncs", "setups"}, Counted(p, name, q),
         count[name] < IF name = "syncs" THEN MaxSyncs ELSE MaxSetups,
         UNCHANGED <<release, resources, etag, uploaded>>
  PROVE  SyncInv'
  <1> DEFINE alone == \A r \in Processes \ {p} : ~Working(r)
             more == IF alone THEN 0 ELSE 1
  <1>1. /\ process \in [Processes -> Doing(Len(resources))] /\ SyncTypeOK
        /\ resources \in Seq(SyncRow) /\ Len(resources) <= MaxResources
        /\ release \in DOMAIN Releases /\ etag \in Data /\ uploaded \in Data
    BY SyncTyped DEF SyncInv
  <1>2. /\ count' = [count EXCEPT ![name] = @ + 1, !.overlap = @ + more]
        /\ process' = [r \in Processes |-> IF r = p THEN [q EXCEPT !.alone = alone]
                                           ELSE [process[r] EXCEPT !.alone = @ /\ alone]]
    BY DEF Counted
  <1>3. alone \in BOOLEAN /\ more \in 0..1 /\ (alone <=> more = 0)
    OBVIOUS
  <1>4. /\ process'[p] \in Doing(Len(resources)) /\ process'[p].pc = q.pc /\ process'[p].read = q.read
        /\ process'[p].held = q.held /\ process'[p].alone = alone
    BY <1>2, <1>3 DEF Doing
  <1>5. ASSUME NEW r \in Processes \ {p}
        PROVE  /\ process'[r] \in Doing(Len(resources)) /\ process'[r].pc = process[r].pc
               /\ process'[r].held = process[r].held /\ process'[r].release = process[r].release
               /\ process'[r].read = process[r].read /\ process'[r].data = process[r].data
               /\ process'[r].mapped = process[r].mapped /\ process'[r].update = process[r].update
               /\ process'[r].alone = (process[r].alone /\ alone)
    <2>1. process'[r] = [process[r] EXCEPT !.alone = @ /\ alone] /\ process[r] \in Doing(Len(resources))
      BY <1>1, <1>2
    <2>2. (process[r].alone /\ alone) \in BOOLEAN
      BY <1>3
    <2> QED
      BY <2>1, <2>2 DEF Doing
  <1>6. /\ count'.overlap = count.overlap + more /\ count'.breaks = count.breaks
        /\ count'.syncs + count'.setups = count.syncs + count.setups + 1
        /\ count'.syncs \in 0..MaxSyncs /\ count'.setups \in 0..MaxSetups
        /\ count' \in [syncs: Nat, setups: Nat, deploys: 0..MaxDeploys, breaks: 0..MaxBreaks, overlap: Nat]
    <2>1. count \in [syncs: 0..MaxSyncs, setups: 0..MaxSetups, deploys: 0..MaxDeploys,
                     breaks: 0..MaxBreaks, overlap: 0..MaxSyncs + MaxSetups]
      BY <1>1, CountTyped
    <2>2. CASE name = "syncs"
      <3> DEFINE k == count.syncs + 1
                 o == count.overlap + more
      <3>1. count' = [count EXCEPT !.syncs = k, !.overlap = o]
        BY <1>2, <2>1, <2>2
      <3>2. count.syncs < MaxSyncs
        BY <2>2
      <3> HIDE DEF more
      <3>3. k \in 0..MaxSyncs /\ o \in Nat
        BY <1>3, <2>1, <3>2
      <3>4. k + count.setups = count.syncs + count.setups + 1
        BY <2>1
      <3> HIDE DEF k, o
      <3>5. count'.syncs = k /\ count'.overlap = o /\ count'.setups = count.setups /\ count'.breaks = count.breaks
        BY <2>1, <3>1
      <3>6. count' \in [syncs: Nat, setups: Nat, deploys: 0..MaxDeploys, breaks: 0..MaxBreaks, overlap: Nat]
        <4>1. count \in [syncs: Nat, setups: Nat, deploys: 0..MaxDeploys, breaks: 0..MaxBreaks, overlap: Nat]
          BY <2>1
        <4>2. k \in Nat
          BY <3>3
        <4> QED
          BY <3>1, <3>3, <4>1, <4>2
      <3>7. count'.overlap = count.overlap + more
        BY <3>5 DEF o
      <3>8. count'.syncs + count'.setups = count.syncs + count.setups + 1
        <4>1. k + count.setups = count.setups + k
          BY <2>1, <3>3
        <4> QED
          BY <3>4, <3>5, <4>1, Zenon
      <3> QED
        BY <2>1, <3>3, <3>5, <3>6, <3>7, <3>8
    <2>3. CASE name = "setups"
      <3> DEFINE k == count.setups + 1
                 o == count.overlap + more
      <3>1. count' = [count EXCEPT !.setups = k, !.overlap = o]
        BY <1>2, <2>1, <2>3
      <3>2. count.setups < MaxSetups
        BY <2>3
      <3> HIDE DEF more
      <3>3. k \in 0..MaxSetups /\ o \in Nat
        BY SMTT(40), <1>3, <2>1, <3>2
      <3>4. k + count.syncs = count.syncs + count.setups + 1
        BY <2>1
      <3> HIDE DEF k, o
      <3>5. count'.setups = k /\ count'.overlap = o /\ count'.syncs = count.syncs /\ count'.breaks = count.breaks
        BY <2>1, <3>1
      <3>6. count' \in [syncs: Nat, setups: Nat, deploys: 0..MaxDeploys, breaks: 0..MaxBreaks, overlap: Nat]
        <4>1. count \in [syncs: Nat, setups: Nat, deploys: 0..MaxDeploys, breaks: 0..MaxBreaks, overlap: Nat]
          BY <2>1
        <4>2. k \in Nat
          BY <3>3
        <4> QED
          BY <3>1, <3>3, <4>1, <4>2
      <3>7. count'.overlap = count.overlap + more
        BY <3>5 DEF o
      <3>8. count'.syncs + count'.setups = count.syncs + count.setups + 1
        <4>1. k + count.syncs = count.syncs + k
          BY <2>1, <3>3
        <4> QED
          BY <3>4, <3>5, <4>1, Zenon
      <3> QED
        BY <2>1, <3>3, <3>5, <3>6, <3>7, <3>8
    <2> QED
      BY <2>2, <2>3
  <1>7. \A r \in Processes : process'[r].alone => alone
    BY <1>4, <1>5
  <1>8. alone => \A r \in Processes : ~Working(r)
    OBVIOUS
  <1> HIDE DEF more, alone
  <1>9. count.overlap \in Nat /\ count.overlap <= count.syncs + count.setups /\ count.syncs \in Nat /\ count.setups \in Nat
    BY <1>1, CountTyped DEF SyncInv, AloneOK
  <1>10. count'.overlap = 0 => alone /\ count.overlap = 0
    BY SMTT(40), <1>3, <1>6, <1>9
  <1>11. \A r \in Processes : KnowsOK(process[r], resources)'
    <2>1. KnowsOK(process'[p], resources)
      BY <1>4 DEF KnowsOK, Saving
    <2>2. ASSUME NEW r \in Processes \ {p} PROVE KnowsOK(process'[r], resources)
      <3>1. KnowsOK(process[r], resources)
        BY DEF SyncInv
      <3> DEFINE x == process[r]
                 y == process'[r]
      <3>2. /\ y.pc = x.pc /\ y.held = x.held /\ y.release = x.release /\ y.data = x.data
            /\ y.mapped = x.mapped /\ y.update = x.update /\ (y.alone => x.alone)
        BY <1>5
      <3> HIDE DEF x, y
      <3>3. KnowsOK(x, resources) => KnowsOK(y, resources)
        BY <3>2 DEF KnowsOK, Told
      <3> QED
        BY <3>1, <3>3 DEF x, y
    <2> QED
      BY <2>1, <2>2
  <1>12. SyncTypeOK'
    <2>1. process' \in [Processes -> Doing(Len(resources))]
      BY <1>2, <1>4, <1>5
    <2>2. \A r \in Processes : process'[r].pc = "ready" => process'[r].held # 0
      BY <1>11 DEF KnowsOK
    <2>3. count'.overlap \in 0..MaxSyncs + MaxSetups
      <3>1. count'.syncs \in Nat /\ count'.setups \in Nat /\ count'.syncs <= MaxSyncs /\ count'.setups <= MaxSetups
        BY <1>6
      <3>2. more \in Nat /\ more <= 1
        BY <1>3
      <3> QED
        <4>1. count'.syncs + count'.setups = count.syncs + count.setups + 1
          BY <1>6
        <4>2. count.overlap + more \in 0..MaxSyncs + MaxSetups
          BY <1>9, <3>1, <3>2, <4>1, MoreOverlap, ZenonT(40)
        <4> QED
          BY <1>6, <4>2, Zenon
    <2>4. count' \in [syncs: 0..MaxSyncs, setups: 0..MaxSetups, deploys: 0..MaxDeploys,
                      breaks: 0..MaxBreaks, overlap: 0..MaxSyncs + MaxSetups]
      BY <1>6, <2>3
    <2> QED
      BY SMTT(40), <1>1, <2>1, <2>2, <2>4 DEF SyncTypeOK, Doing, Saving, ResourceIds, SyncRow, Now
  <1>13. TableOK(resources)' /\ InstanceLives'
    BY <1>10 DEF SyncInv, InstanceLives, RowsOf, ResourceIds, Live
  <1>14. AloneOK'
    <2>1. ASSUME NEW r \in Processes \ {p} PROVE Working(r)' <=> Working(r)
      BY <1>5 DEF Working
    <2>2. ASSUME NEW a \in Processes, NEW r \in Processes, Working(a)', process'[a].alone, r # a PROVE ~Working(r)'
      <3>1. a = p
        BY <1>7, <1>8, <2>1, <2>2
      <3> QED
        BY <1>7, <1>8, <2>1, <2>2, <3>1
    <2>3. ASSUME count'.overlap = 0, NEW a \in Processes, Working(a)' PROVE process'[a].alone
      <3>1. a = p
        BY <1>8, <1>10, <2>1, <2>3
      <3> QED
        BY <1>4, <1>10, <2>3, <3>1
    <2>4. count'.overlap <= count'.syncs + count'.setups
      <3>1. count'.syncs \in Nat /\ count'.setups \in Nat
        BY <1>6
      <3>2. more \in Nat /\ more <= 1
        BY <1>3
      <3> QED
        <4>1. count'.syncs + count'.setups = count.syncs + count.setups + 1
          BY <1>6
        <4>2. count.overlap + more <= count'.syncs + count'.setups
          BY <1>9, <3>1, <3>2, <4>1, MoreOverlap, ZenonT(40)
        <4> QED
          BY <1>6, <4>2, Zenon
    <2> QED
      BY <2>2, <2>3, <2>4 DEF AloneOK
  <1>15. EtagOK'
    <2>1. ASSUME count'.breaks = 0, count'.overlap = 0, NEW r \in Processes
          PROVE  process[r].pc \in {"down", "ready"} /\ (r # p => process'[r].pc \in {"down", "ready"})
      BY <1>5, <1>8, <1>10, <2>1 DEF Working
    <2>2. ASSUME count'.breaks = 0, count'.overlap = 0
          PROVE  uploaded = etag /\ \A e \in etag.idents : \E i \in RowsOf(e) : Live(i) /\ resources[i].remote
      <3>1. \A r \in Processes : process[r].pc \notin Saving
        BY <2>1, <2>2 DEF Saving
      <3> QED
        BY <1>6, <1>10, <2>2, <3>1 DEF SyncInv, EtagOK
    <2>3. ASSUME count'.breaks = 0, count'.overlap = 0, NEW r \in Processes
          PROVE  process'[r].pc \notin Saving /\ (process'[r].pc = "load" => process'[r].read = etag)
      BY <1>4, <2>1, <2>3 DEF Saving
    <2> QED
      BY <2>2, <2>3 DEF EtagOK, Now, RowsOf, ResourceIds, Live, Saving
  <1>16. ASSUME NEW e \in Idents PROVE Paced(e)'
    <2> DEFINE c == Cardinality(Counts(e))
               n == Cardinality(Adders(e))
               b == \E r \in Adders(e) : WillNot(process[r], e, resources)
    <2>1. c' = c /\ c \in Nat /\ n \in Nat /\ n' \in Nat
      BY <1>1, <1>12, FinitelyMany, FinitelyManyNext DEF Counts, RowsOf, ResourceIds, Live
    <2>2. ASSUME NEW r \in Processes \ {p}
          PROVE  /\ MayAdd(process[r], e, resources)' <=> MayAdd(process[r], e, resources)
                 /\ WillNot(process[r], e, resources)' <=> WillNot(process[r], e, resources)
      BY <1>5 DEF MayAdd, WillNot
    <2>3. ~MayAdd(process[p], e, resources)
      BY BusyAdds DEF Working, AtWork
    <2>4. IsFiniteSet(Adders(e)) /\ p \notin Adders(e) /\ Adders(e) \subseteq Processes
      BY <1>1, <2>3, FinitelyMany DEF Adders
    <2>5. b => b'
      <3>1. ASSUME NEW r \in Adders(e), WillNot(process[r], e, resources)
            PROVE  r \in Adders(e)' /\ WillNot(process[r], e, resources)'
        <4>1. r \in Processes \ {p} /\ MayAdd(process[r], e, resources)
          BY <2>4, <3>1 DEF Adders
        <4> QED
          BY <2>2, <3>1, <4>1 DEF Adders
      <3> QED
        BY <3>1
    <2>6. Within(c, n, count.overlap, b)
      BY DEF SyncInv, Paced
    <2>7. CASE ~MayAdd(process[p], e, resources)'
      <3>1. Adders(e)' = Adders(e)
        BY <2>2, <2>3, <2>7 DEF Adders
      <3>2. n' = n
        BY <3>1
      <3> HIDE DEF c, n, b
      <3>3. Within(c, n, count.overlap + more, b)
        BY SMTT(40), <1>3, <1>9, <2>1, <2>6 DEF Within
      <3>4. Within(c, n, count.overlap, b)'
        BY <1>6, <2>1, <2>5, <3>2, <3>3 DEF Within
      <3> QED
        BY <3>4 DEF Paced, c, n, b
    <2>8. CASE MayAdd(process[p], e, resources)'
      <3>1. Adders(e)' = Adders(e) \cup {p}
        BY <2>2, <2>3, <2>8 DEF Adders
      <3>2. n' = n + 1
        BY <2>4, <3>1, FS_AddElement
      <3>3. CASE ~alone
        <4>1. count'.overlap = count.overlap + 1
          BY <1>3, <1>6, <3>3
        <4> HIDE DEF c, n, b
        <4>2. Within(c, n + 1, count.overlap + 1, b)
          BY <1>9, <2>1, <2>6 DEF Within
        <4>3. Within(c, n, count.overlap, b)'
          BY <2>1, <2>5, <3>2, <4>1, <4>2 DEF Within
        <4> QED
          BY <4>3 DEF Paced, c, n, b
      <3>4. CASE alone
        <4>1. count'.overlap = count.overlap
          BY <1>3, <1>6, <1>9, <3>4
        <4>2. Adders(e) = {}
          BY <1>8, <3>4, BusyAdds DEF Adders, Working, AtWork
        <4>3. n = 0 /\ ~b
          BY <4>2, FS_EmptySet
        <4>4. c <= 1 + count.overlap
          BY <1>9, <2>1, <2>6, <4>3 DEF Within
        <4>5. CASE Counts(e) = {}
          <5>1. c = 0
            BY <4>5, FS_EmptySet
          <5> HIDE DEF c, n, b
          <5>2. Within(c, n + 1, count.overlap, b)
            BY <1>9, <4>3, <5>1 DEF Within
          <5>3. Within(c, n, count.overlap, b)'
            BY <2>1, <2>5, <3>2, <4>1, <5>2 DEF Within
          <5> QED
            BY <5>3 DEF Paced, c, n, b
        <4>6. CASE Counts(e) # {}
          <5>1. PICK i \in 1..Len(resources) : resources[i].ident = e /\ (~resources[i].deleted \/ resources[i].remote)
            BY <4>6 DEF Counts, RowsOf, ResourceIds, Live
          <5>2. q.pc = "find" => e = "instance"
            BY <1>4, <2>8 DEF MayAdd
          <5>3. q.pc = "find" => ~resources[i].deleted
            BY <5>1, <5>2 DEF SyncInv, TableOK
          <5>4. WillNot(process'[p], e, resources)
            BY <1>4, <5>1, <5>3 DEF WillNot
          <5>5. b'
            BY <3>1, <5>4
          <5> HIDE DEF c, n, b
          <5>6. c + (n + 1) <= 2 + count.overlap
            BY <1>9, <2>1, <4>3, <4>4
          <5>7. Within(c, n, count.overlap, b)'
            BY <2>1, <3>2, <4>1, <5>5, <5>6 DEF Within
          <5> QED
            BY <5>7 DEF Paced, c, n, b
        <4> QED
          BY <4>5, <4>6
      <3> QED
        BY <3>3, <3>4
    <2> QED
      BY <2>7, <2>8
  <1> QED
    BY <1>11, <1>12, <1>13, <1>14, <1>15, <1>16 DEF SyncInv

\* store.setup begins.
LEMMA StartStep == ASSUME SyncInv, NEW p \in Processes, StartProcess(p) PROVE SyncInv'
  <1> DEFINE q == [NoProcess EXCEPT !.pc = "find", !.release = release]
  <1>1. release \in DOMAIN Releases
    BY SyncTyped DEF SyncInv
  <1>2. NoProcess \in Doing(Len(resources)) /\ NoProcess.held = 0
    BY NoProcessOK DEF NoProcess
  <1>3. q \in Doing(Len(resources)) /\ q.pc = "find" /\ q.held = 0
    BY <1>1, <1>2 DEF Doing
  <1>4. /\ process[p].pc = "down" /\ count.setups < MaxSetups /\ Counted(p, "setups", q)
        /\ UNCHANGED <<release, resources, etag, uploaded>>
    BY DEF StartProcess, Now
  <1> HIDE DEF q
  <1>5. KnowsOK(q, resources)
    BY <1>3 DEF KnowsOK, Saving
  <1> QED
    BY <1>3, <1>4, <1>5, BeginMoves DEF Working

\* sync_resources begins.
LEMMA BeginStep ==
  ASSUME SyncInv, NEW p \in Processes, NEW force \in BOOLEAN, BeginSync(p, force) PROVE SyncInv'
  <1> DEFINE q == [process[p] EXCEPT !.pc = "load", !.force = force, !.read = etag]
  <1>1. process[p] \in Doing(Len(resources)) /\ etag \in Data /\ KnowsOK(process[p], resources)
    BY SyncTyped DEF SyncInv
  <1>2. /\ q \in Doing(Len(resources)) /\ q.pc = "load" /\ q.held = process[p].held
        /\ q.read = etag
    BY <1>1 DEF Doing
  <1>3. /\ process[p].pc = "ready" /\ count.syncs < MaxSyncs /\ Counted(p, "syncs", q)
        /\ UNCHANGED <<release, resources, etag, uploaded>>
    BY DEF BeginSync, Now
  <1> HIDE DEF q
  <1>4. KnowsOK(q, resources)
    BY <1>1, <1>2, <1>3 DEF KnowsOK, Saving
  <1> QED
    BY <1>2, <1>3, <1>4, BeginMoves DEF Working
-----------------------------------------------------------------------------
(* The steps that write rows *)

\* What such a step leaves as it is.
LEMMA WriteMoves ==
  ASSUME SyncInv, NEW p \in Processes, Working(p), resources' \in Seq(SyncRow), Len(resources') <= MaxResources,
         Grown, NEW q \in Doing(Len(resources')), process' = [process EXCEPT ![p] = q],
         KnowsOK(q, resources'), AtWork(q) => q.alone = process[p].alone, UNCHANGED <<release, etag, uploaded, count>>
  PROVE  /\ SyncTypeOK' /\ (\A r \in Processes : KnowsOK(process[r], resources)') /\ AloneOK'
         /\ process'[p] = q /\ \A r \in Processes \ {p} : process'[r] = process[r]
  <1>1. /\ process \in [Processes -> Doing(Len(resources))] /\ SyncTypeOK /\ Len(resources) \in Nat
        /\ release \in DOMAIN Releases /\ etag \in Data /\ uploaded \in Data
    BY SyncTyped DEF SyncInv
  <1>2. process'[p] = q /\ \A r \in Processes \ {p} : process'[r] = process[r]
    BY <1>1
  <1>3. Len(resources') \in Nat /\ Len(resources) <= Len(resources')
    BY DEF Grown
  <1>4. ASSUME NEW r \in Processes PROVE process'[r] \in Doing(Len(resources'))
    <2>1. CASE r = p
      BY <1>2, <2>1
    <2>2. CASE r # p
      <3> DEFINE n == Len(resources)
                 m == Len(resources')
      <3>1. 0..n \subseteq 0..m /\ 1..n \subseteq 1..m
        BY <1>1, <1>3
      <3>2. process'[r] \in Doing(n)
        BY <1>1, <1>2, <2>2
      <3> HIDE DEF n, m
      <3>3. process'[r] \in Doing(m)
        BY <3>1, <3>2 DEF Doing
      <3> QED
        BY <3>3 DEF m
    <2> QED
      BY <2>1, <2>2
  <1>5. process' \in [Processes -> Doing(Len(resources'))]
    BY <1>1, <1>4
  <1>6. \A r \in Processes : KnowsOK(process[r], resources)'
    <2>1. KnowsOK(process'[p], resources')
      BY <1>2
    <2>2. \A r \in Processes \ {p} : KnowsOK(process[r], resources)'
      BY <1>2, OthersKnow
    <2> QED
      BY <2>1, <2>2
  <1>7. SyncTypeOK'
    <2>1. \A r \in Processes : process'[r].pc = "ready" => process'[r].held # 0
      BY <1>6 DEF KnowsOK
    <2> QED
      BY <1>1, <1>5, <2>1 DEF SyncTypeOK, Doing, Saving, ResourceIds, SyncRow, Now
  <1>8. AloneOK'
    <2>1. \A r \in Processes : Working(r)' => Working(r) /\ process'[r].alone = process[r].alone
      BY <1>2 DEF Working, AtWork
    <2> QED
      BY <2>1 DEF SyncInv, AloneOK
  <1> QED
    BY <1>2, <1>6, <1>7, <1>8

\* As many rows more that count as processes less that may add one.
LEMMA WritePace ==
  ASSUME SyncTypeOK, SyncTypeOK', NEW e, Paced(e), NEW p \in Processes, Grown, count'.overlap = count.overlap,
         \A r \in Processes \ {p} : process'[r] = process[r],
         MayAdd(process[p], e, resources)' => MayAdd(process[p], e, resources),
         Cardinality(Counts(e)') <= Cardinality(Counts(e))
           + IF MayAdd(process[p], e, resources) /\ ~MayAdd(process[p], e, resources)' THEN 1 ELSE 0,
         MayAdd(process[p], e, resources) => ~WillNot(process[p], e, resources),
         \A r \in Processes \ {p} : MayAdd(process[r], e, resources) /\ WillNot(process[r], e, resources)
                                      => WillNot(process[r], e, resources')
  PROVE  Paced(e)'
  <1>1. \A r \in Processes \ {p} : MayAdd(process[r], e, resources)' <=> MayAdd(process[r], e, resources)
    BY OthersMayAdd
  <1>2. /\ Cardinality(Counts(e)) \in Nat /\ Cardinality(Adders(e)) \in Nat
        /\ Cardinality(Counts(e)') \in Nat /\ Cardinality(Adders(e)') \in Nat
    BY FinitelyMany, FinitelyManyNext
  <1>3. Cardinality(Counts(e)') + Cardinality(Adders(e)') <= Cardinality(Counts(e)) + Cardinality(Adders(e))
    <2>1. CASE MayAdd(process[p], e, resources) /\ ~MayAdd(process[p], e, resources)'
      <3>1. Cardinality(Adders(e)') = Cardinality(Adders(e)) - 1
        BY <1>1, <2>1, AddersMove
      <3>2. Cardinality(Counts(e)') <= Cardinality(Counts(e)) + 1
        BY <2>1
      <3> QED
        BY <1>2, <3>1, <3>2
    <2>2. CASE ~(MayAdd(process[p], e, resources) /\ ~MayAdd(process[p], e, resources)')
      <3>1. Adders(e)' = Adders(e)
        BY <1>1, <2>2, AddersMove
      <3>2. Cardinality(Counts(e)') <= Cardinality(Counts(e)) + 0
        BY <2>2
      <3> QED
        BY <1>2, <3>1, <3>2
    <2> QED
      BY <2>1, <2>2
  <1>4. ASSUME NEW r \in Adders(e), WillNot(process[r], e, resources)
        PROVE  r \in Adders(e)' /\ WillNot(process[r], e, resources)'
    <2>1. r \in Processes /\ MayAdd(process[r], e, resources)
      BY DEF Adders
    <2>2. r \in Processes \ {p}
      BY <1>4, <2>1
    <2> QED
      BY <1>1, <1>4, <2>1, <2>2 DEF Adders
  <1> QED
    BY <1>3, <1>4, PaceKeeps

\* A row that counted does not any more.
LEMMA WriteDrops ==
  ASSUME SyncTypeOK, SyncTypeOK', NEW e, Paced(e), NEW p \in Processes, Grown, count'.overlap = count.overlap,
         \A r \in Processes \ {p} : process'[r] = process[r],
         MayAdd(process[p], e, resources)' => MayAdd(process[p], e, resources),
         Cardinality(Counts(e)') < Cardinality(Counts(e))
           + IF MayAdd(process[p], e, resources) /\ ~MayAdd(process[p], e, resources)' THEN 1 ELSE 0
  PROVE  Paced(e)'
  <1>1. \A r \in Processes \ {p} : MayAdd(process[r], e, resources)' <=> MayAdd(process[r], e, resources)
    BY OthersMayAdd
  <1>2. /\ Cardinality(Counts(e)) \in Nat /\ Cardinality(Adders(e)) \in Nat
        /\ Cardinality(Counts(e)') \in Nat /\ Cardinality(Adders(e)') \in Nat
    BY FinitelyMany, FinitelyManyNext
  <1>3. Cardinality(Counts(e)') + Cardinality(Adders(e)') < Cardinality(Counts(e)) + Cardinality(Adders(e))
    <2>1. CASE MayAdd(process[p], e, resources) /\ ~MayAdd(process[p], e, resources)'
      <3>1. Cardinality(Adders(e)') = Cardinality(Adders(e)) - 1
        BY <1>1, <2>1, AddersMove
      <3>2. Cardinality(Counts(e)') < Cardinality(Counts(e)) + 1
        BY <2>1
      <3> QED
        BY <1>2, <3>1, <3>2
    <2>2. CASE ~(MayAdd(process[p], e, resources) /\ ~MayAdd(process[p], e, resources)')
      <3>1. Adders(e)' = Adders(e)
        BY <1>1, <2>2, AddersMove
      <3>2. Cardinality(Counts(e)') < Cardinality(Counts(e)) + 0
        BY <2>2
      <3> QED
        BY <1>2, <3>1, <3>2
    <2> QED
      BY <2>1, <2>2
  <1> QED
    BY <1>3, PaceDrops

\* A set with one member more has one more at most.
LEMMA OneAtMost ==
  ASSUME NEW S, IsFiniteSet(S), NEW x
  PROVE  Cardinality(S \cup {x}) <= Cardinality(S) + 1
  <1>1. Cardinality(S) \in Nat
    BY FS_CardinalityType
  <1>2. Cardinality(S) <= Cardinality(S) + 1 /\ Cardinality(S) + 1 <= Cardinality(S) + 1
    BY <1>1
  <1>3. CASE x \in S
    <2>1. S \cup {x} = S
      BY <1>3
    <2> QED
      BY <1>2, <2>1, Zenon
  <1>4. CASE x \notin S
    <2>1. Cardinality(S \cup {x}) = Cardinality(S) + 1
      BY <1>4, FS_AddElement
    <2> QED
      BY <1>2, <2>1, Zenon
  <1> QED
    BY <1>3, <1>4, Zenon

\* New rows that live, one of an ident at most, of a process that might have added it.
LEMMA AppendPace ==
  ASSUME SyncTypeOK, SyncTypeOK', NEW e, Paced(e), NEW p \in Processes, count'.overlap = count.overlap,
         \A r \in Processes \ {p} : process'[r] = process[r],
         Len(resources) <= Len(resources'), \A i \in 1..Len(resources) : resources'[i] = resources[i],
         \A i \in 1..Len(resources') : i \notin 1..Len(resources) => ~resources'[i].deleted,
         \A i, j \in 1..Len(resources') : i \notin 1..Len(resources) /\ j \notin 1..Len(resources)
                                          /\ resources'[i].ident = resources'[j].ident => i = j,
         \A i \in 1..Len(resources') : i \notin 1..Len(resources) /\ resources'[i].ident = e
                                       => MayAdd(process[p], e, resources),
         ~MayAdd(process[p], e, resources)', process[p].pc \in {"make", "create"}
  PROVE  Paced(e)'
  <1>1. Grown /\ Len(resources) \in Nat /\ Len(resources') \in Nat
    <2>1. Len(resources) \in Nat /\ Len(resources') \in Nat
      BY SMTT(40) DEF SyncTypeOK
    <2> QED
      BY <2>1 DEF Grown
  <1>2. 1..Len(resources) \subseteq 1..Len(resources')
    BY <1>1
  <1>3. /\ Counts(e) = {i \in 1..Len(resources) : resources[i].ident = e /\ (~resources[i].deleted \/ resources[i].remote)}
        /\ Counts(e)' = {i \in 1..Len(resources') : resources'[i].ident = e /\ (~resources'[i].deleted \/ resources'[i].remote)}
    BY DEF Counts, RowsOf, ResourceIds, Live
  <1>4. IsFiniteSet(Counts(e)) /\ Cardinality(Counts(e)) \in Nat
    BY FinitelyMany
  <1>5. /\ Counts(e)' = Counts(e) \/ \E i : Counts(e)' = Counts(e) \cup {i}
        /\ ~MayAdd(process[p], e, resources) => Counts(e)' = Counts(e)
    <2>1. CASE \E i \in 1..Len(resources') : i \notin 1..Len(resources) /\ resources'[i].ident = e
      <3>1. PICK i \in 1..Len(resources') : i \notin 1..Len(resources) /\ resources'[i].ident = e
        BY <2>1
      <3>2. Counts(e)' = Counts(e) \cup {i}
        BY <1>2, <1>3, <3>1
      <3> QED
        BY <3>1, <3>2
    <2>2. CASE ~ \E i \in 1..Len(resources') : i \notin 1..Len(resources) /\ resources'[i].ident = e
      BY <1>2, <1>3, <2>2
    <2> QED
      BY <2>1, <2>2
  <1>6. Cardinality(Counts(e)') <= Cardinality(Counts(e))
           + IF MayAdd(process[p], e, resources) /\ ~MayAdd(process[p], e, resources)' THEN 1 ELSE 0
    <2>1. CASE Counts(e)' = Counts(e)
      BY <1>4, <2>1
    <2>2. CASE Counts(e)' # Counts(e)
      <3>1. PICK i : Counts(e)' = Counts(e) \cup {i}
        BY <1>5, <2>2
      <3>2. Cardinality(Counts(e)') <= Cardinality(Counts(e)) + 1
        <4>1. Cardinality(Counts(e) \cup {i}) <= Cardinality(Counts(e)) + 1
          BY <1>4, OneAtMost
        <4> QED
          BY <3>1, <4>1, Zenon
      <3>3. MayAdd(process[p], e, resources)
        BY <1>5, <2>2
      <3> QED
        BY <3>2, <3>3
    <2> QED
      BY <2>1, <2>2
  <1>7. ~WillNot(process[p], e, resources)
    BY DEF WillNot
  <1>8. ASSUME NEW r \in Processes \ {p}, MayAdd(process[r], e, resources), WillNot(process[r], e, resources)
        PROVE  WillNot(process[r], e, resources')
    <2> DEFINE x == process[r]
    <2>1. x.mapped \subseteq 1..Len(resources) /\ x.update \subseteq 1..Len(resources) /\ WillNot(x, e, resources)
      BY <1>8, SyncTyped DEF Doing
    <2> HIDE DEF x
    <2>2. WillNot(x, e, resources')
      BY <1>2, <2>1 DEF WillNot
    <2> QED
      BY <2>2 DEF x
  <1> QED
    BY <1>1, <1>6, <1>7, <1>8, WritePace
\* The etag stays right while rows are only added or brought to life.
LEMMA EtagStays ==
  ASSUME SyncInv, NEW p \in Processes, Working(p), process'[p].pc \in Saving => process[p].pc \in Saving \ {"etag"},
         process'[p].pc \notin Saving => process[p].pc \notin Saving, process'[p].pc \notin {"load", "etag"},
         process'[p].pc \in Saving => process'[p].data = process[p].data,
         \A r \in Processes \ {p} : process'[r] = process[r],
         Grown, Len(resources) \in Nat, Len(resources') \in Nat,
         \A i \in 1..Len(resources) : ~resources[i].deleted => ~resources'[i].deleted,
         \A i \in 1..Len(resources') : i \notin 1..Len(resources) => ~resources'[i].deleted,
         UNCHANGED <<etag, uploaded, count>>
  PROVE  EtagOK' /\ InstanceLives'
  <1>2. \A i \in 1..Len(resources) : i \in 1..Len(resources')
    BY DEF Grown
  <1>3. InstanceLives'
    <2>1. ASSUME count.overlap = 0, NEW i \in 1..Len(resources'), resources'[i].ident = "instance"
          PROVE  ~resources'[i].deleted
      <3>1. CASE i \in 1..Len(resources)
        <4>1. resources[i].ident = "instance"
          BY <2>1, <3>1 DEF Grown
        <4>2. ~resources[i].deleted
          BY <2>1, <3>1, <4>1 DEF SyncInv, InstanceLives, RowsOf, ResourceIds, Live
        <4> QED
          BY <3>1, <4>2
      <3> QED
        BY <3>1
    <2> QED
      BY <2>1 DEF InstanceLives, RowsOf, ResourceIds, Live
  <1>4. ASSUME count.breaks = 0, count.overlap = 0
        PROVE  /\ \A r \in Processes :
                    /\ process'[r].pc # "load" /\ process'[r].pc # "etag"
                    /\ process'[r].pc \in Saving \ {"etag"} => uploaded = process'[r].data /\ etag = process'[r].data
               /\ (\A r \in Processes : process'[r].pc \notin Saving) =>
                    uploaded = etag /\ \A e \in etag.idents :
                      \E i \in 1..Len(resources') : resources'[i].ident = e /\ ~resources'[i].deleted /\ resources'[i].remote
    <2>1. ASSUME NEW r \in Processes \ {p} PROVE process'[r].pc \in {"down", "ready"} /\ process[r].pc \notin Saving
      <3>1. process[r].pc \in {"down", "ready"} /\ process'[r] = process[r]
        BY <1>4, OnlyOne DEF Working
      <3> QED
        BY <3>1 DEF Saving
    <2>2. process[p].pc \in Saving \ {"etag"} => uploaded = process[p].data /\ etag = process[p].data
      BY <1>4 DEF SyncInv, EtagOK
    <2>3. ASSUME \A r \in Processes : process'[r].pc \notin Saving
          PROVE  uploaded = etag /\ \A e \in etag.idents :
                   \E i \in 1..Len(resources') : resources'[i].ident = e /\ ~resources'[i].deleted /\ resources'[i].remote
      <3>1. uploaded = etag /\ \A e \in etag.idents : \E i \in RowsOf(e) : Live(i) /\ resources[i].remote
        BY <1>4, <2>1, <2>3 DEF SyncInv, EtagOK
      <3>2. \A e : \A i \in RowsOf(e) : Live(i) /\ resources[i].remote =>
              /\ i \in 1..Len(resources') /\ resources'[i].ident = e
              /\ ~resources'[i].deleted /\ resources'[i].remote
        BY <1>2 DEF RowsOf, ResourceIds, Live, Grown
      <3> QED
        BY <3>1, <3>2
    <2> QED
      BY <2>1, <2>2, <2>3 DEF Saving
  <1>5. EtagOK'
    BY <1>4 DEF EtagOK, Now, RowsOf, ResourceIds, Live
  <1> QED
    BY <1>3, <1>5

\* The instance that is made is the one row that the process might have added.
LEMMA MakeStep == ASSUME SyncInv, NEW p \in Processes, MakeInstance(p) PROVE SyncInv'
  <1> DEFINE row == [ident |-> "instance", remote |-> FALSE, deleted |-> FALSE]
             n == Len(resources) + 1
             h == [process[p] EXCEPT !.held = n]
             q == Rested(h)
  <1>1. /\ process[p] \in Doing(Len(resources)) /\ SyncTypeOK /\ Len(resources) \in Nat
        /\ resources \in Seq(SyncRow) /\ process \in [Processes -> Doing(Len(resources))]
    BY SyncTyped DEF SyncInv
  <1>2. /\ process[p].pc = "make" /\ Len(resources) < MaxResources /\ resources' = Append(resources, row)
        /\ process' = [process EXCEPT ![p] = q] /\ UNCHANGED <<release, etag, uploaded, count>>
    BY DEF MakeInstance, Now
  <1>3. row \in SyncRow /\ row.ident = "instance" /\ ~row.deleted /\ ~row.remote
    BY DEF SyncRow, Idents
  <1> HIDE DEF row
  <1>4. /\ resources' \in Seq(SyncRow) /\ Len(resources') = n /\ resources'[n] = row
        /\ \A i \in 1..Len(resources) : resources'[i] = resources[i]
    BY <1>1, <1>2, <1>3, AppendProperties
  <1>5. /\ n \in Nat /\ n \in 1..n /\ n # 0 /\ Len(resources) <= n /\ n <= MaxResources
        /\ \A i \in 1..n : i \in 1..Len(resources) \/ i = n
        /\ \A i \in 1..Len(resources) : i \in 1..n
        /\ n \notin 1..Len(resources)
    BY <1>1, <1>2
  <1>6. /\ q \in Doing(n) /\ q.pc = "ready" /\ q.held = n
    <2> DEFINE m == Len(resources)
    <2>1. 0..m \subseteq 0..n /\ 1..m \subseteq 1..n /\ n \in 0..n /\ 0 \in 0..n
      BY <1>1, <1>5
    <2>2. NoProcess \in Doing(m)
      BY NoProcessOK
    <2> HIDE DEF n, m
    <2>3. NoProcess \in Doing(n)
      BY <2>1, <2>2 DEF Doing
    <2>4. h.held = n /\ h.release = process[p].release /\ process[p].release \in DOMAIN Releases
      BY <1>1 DEF Doing
    <2> HIDE DEF h
    <2> QED
      BY <2>1, <2>3, <2>4 DEF Rested, Doing
  <1> HIDE DEF n, q
  <1>7. KnowsOK(q, resources')
    BY <1>3, <1>4, <1>5, <1>6 DEF KnowsOK, Saving
  <1>8. Grown
    BY <1>4, <1>5 DEF Grown
  <1>9. Working(p) /\ ~AtWork(q)
    BY <1>2, <1>6 DEF Working, AtWork
  <1>10. /\ SyncTypeOK' /\ (\A r \in Processes : KnowsOK(process[r], resources)') /\ AloneOK'
         /\ process'[p] = q /\ \A r \in Processes \ {p} : process'[r] = process[r]
    BY <1>2, <1>4, <1>5, <1>6, <1>7, <1>8, <1>9, WriteMoves
  <1>11. TableOK(resources')
    <2>1. TableOK(resources)
      BY DEF SyncInv
    <2> QED
      BY SMTT(40), <1>3, <1>4, <1>5, <2>1 DEF TableOK
  <1>12. EtagOK' /\ InstanceLives'
    <2>1. process'[p].pc \notin Saving /\ process[p].pc \notin Saving
      BY <1>2, <1>6, <1>10 DEF Saving
    <2> QED
      BY <1>1, <1>2, <1>3, <1>4, <1>5, <1>6, <1>8, <1>9, <1>10, <2>1, EtagStays
  <1>13. ASSUME NEW e \in Idents PROVE Paced(e)'
    <2>1. ~MayAdd(process[p], e, resources)'
      BY <1>6, <1>10 DEF MayAdd
    <2>2. e = "instance" => MayAdd(process[p], e, resources)
      BY <1>2 DEF MayAdd
    <2>3. Paced(e)
      BY DEF SyncInv
    <2>4. \A i \in 1..Len(resources') : i \notin 1..Len(resources) => i = n
      BY <1>4, <1>5
    <2> QED
      BY <1>1, <1>2, <1>3, <1>4, <1>5, <1>10, <2>1, <2>2, <2>3, <2>4, AppendPace
  <1> QED
    BY <1>10, <1>11, <1>12, <1>13 DEF SyncInv
\* The new rows are one of each ident.
LEMMA CreatedOnce ==
  ASSUME NEW U, IsFiniteSet(U), NEW new \in Created(U, TRUE)
  PROVE  /\ Cardinality(U) \in Nat /\ new \in [1..Cardinality(U) -> [ident: U, remote: {TRUE}, deleted: {FALSE}]]
         /\ \A e \in U : \E n \in 1..Cardinality(U) : new[n].ident = e
         /\ \A i, j \in 1..Cardinality(U) : new[i].ident = new[j].ident => i = j
  <1> DEFINE k == Cardinality(U)
             f == [n \in 1..k |-> new[n].ident]
  <1>1. k \in Nat
    BY FS_CardinalityType
  <1>2. new \in [1..k -> [ident: U, remote: {TRUE}, deleted: {FALSE}]] /\ \A e \in U : \E n \in 1..k : new[n].ident = e
    BY DEF Created
  <1>3. \A n \in 1..k : f[n] = new[n].ident
    OBVIOUS
  <1>4. f \in Surjection(1..k, U)
    BY <1>2 DEF Surjection
  <1>5. IsFiniteSet(1..k) /\ Cardinality(1..k) = k
    BY <1>1, FS_Interval
  <1> HIDE DEF f
  <1>6. f \in Injection(1..k, U)
    BY <1>4, <1>5, FS_Surjection
  <1>7. \A i, j \in 1..k : f[i] = f[j] => i = j
    BY <1>6 DEF Injection, IsInjective
  <1>8. ASSUME NEW i \in 1..k, NEW j \in 1..k, new[i].ident = new[j].ident PROVE i = j
    BY <1>3, <1>7, <1>8
  <1> QED
    BY <1>1, <1>2, <1>8

\* bulk_create: one row for each ident without one to update.
LEMMA CreateStep == ASSUME SyncInv, NEW p \in Processes, CreateMissing(p) PROVE SyncInv'
  <1> DEFINE U == Unmapped(p)
             n == Len(resources)
             k == Cardinality(U)
             q == [process[p] EXCEPT !.pc = "delete", !.update = {}]
  <1>1. /\ process[p] \in Doing(n) /\ SyncTypeOK /\ n \in Nat /\ KnowsOK(process[p], resources)
        /\ resources \in Seq(SyncRow) /\ process \in [Processes -> Doing(n)]
        /\ process[p].data \in Data /\ process[p].update \subseteq 1..n
    BY SyncTyped DEF SyncInv, Doing
  <1>2. /\ process[p].pc = "create" /\ n + k <= MaxResources
        /\ process' = [process EXCEPT ![p] = q] /\ UNCHANGED <<release, etag, uploaded, count>>
    BY <1>1 DEF CreateMissing, Now
  <1>3. PICK new \in Created(U, TRUE) : resources' = resources \o new
    BY DEF CreateMissing
  <1>4. U \subseteq Idents /\ IsFiniteSet(U) /\ U \subseteq process[p].data.idents
    <2>1. process[p].data.idents = Releases[process[p].release] \cup {"instance"}
      BY <1>1, <1>2 DEF KnowsOK, Saving, Told
    <2>2. IsFiniteSet(Releases[process[p].release])
      BY <1>1 DEF Doing
    <2>3. IsFiniteSet(process[p].data.idents)
      BY <2>1, <2>2, FS_AddElement
    <2>4. U \subseteq process[p].data.idents /\ process[p].data.idents \subseteq Idents
      BY <1>1 DEF Unmapped, Data
    <2> QED
      BY <2>3, <2>4, FS_Subset
  <1>5. /\ k \in Nat /\ new \in [1..k -> [ident: U, remote: {TRUE}, deleted: {FALSE}]]
        /\ \A e \in U : \E i \in 1..k : new[i].ident = e
        /\ \A i, j \in 1..k : new[i].ident = new[j].ident => i = j
    BY <1>3, <1>4, CreatedOnce
  <1>6. \A i \in 1..k : new[i] \in SyncRow /\ new[i].remote /\ ~new[i].deleted /\ new[i].ident \in U
    BY <1>4, <1>5 DEF SyncRow
  <1>7. new \in Seq(SyncRow) /\ Len(new) = k
    <2>1. new \in [1..k -> SyncRow]
      BY <1>5, <1>6
    <2> QED
      BY <1>5, <2>1, LenProperties
  <1>8. \A e \in process[p].data.idents : e \in U \/ \E i \in process[p].update : resources[i].ident = e
    BY DEF Unmapped
  <1>9. \A e \in U : e \in process[p].data.idents /\ \A i \in process[p].update : resources[i].ident # e
    BY DEF Unmapped
  <1> HIDE DEF U, k
  <1>10. /\ resources' \in Seq(SyncRow) /\ Len(resources') = n + k
         /\ \A i \in 1..n + k : resources'[i] = IF i <= n THEN resources[i] ELSE new[i - n]
    BY <1>1, <1>3, <1>7, ConcatProperties
  <1> DEFINE m == n + k
  <1>11. /\ m \in Nat /\ n <= m /\ \A i \in 1..n : i \in 1..m /\ i <= n
         /\ \A i \in 1..m : i \notin 1..n => i - n \in 1..k /\ ~(i <= n)
         /\ \A i \in 1..k : i + n \in 1..m /\ i + n \notin 1..n /\ (i + n) - n = i
         /\ \A i, j \in 1..m : i - n = j - n => i = j
    BY <1>1, <1>5
  <1>12. /\ \A i \in 1..n : resources'[i] = resources[i]
         /\ \A i \in 1..m : i \notin 1..n => resources'[i] = new[i - n]
         /\ \A i \in 1..k : resources'[i + n] = new[i]
    BY <1>10, <1>11
  <1>13. Len(resources') = m /\ m <= MaxResources
    BY <1>2, <1>10
  <1>14. /\ q \in Doing(n) /\ q.pc = "delete" /\ q.held = process[p].held
         /\ q.alone = process[p].alone /\ q.data = process[p].data /\ q.release = process[p].release
    BY <1>1 DEF Doing, Saving
  <1>15. q \in Doing(m)
    <2>1. 0..n \subseteq 0..m /\ 1..n \subseteq 1..m
      BY <1>1, <1>11
    <2> HIDE DEF n, m, q
    <2> QED
      BY <1>14, <2>1 DEF Doing
  <1> HIDE DEF m, q
  <1>16. KnowsOK(q, resources')
    <2>1. q.held # 0 => resources'[q.held].ident = "instance"
      <3>1. q.held \in 0..n
        BY <1>14 DEF Doing
      <3> QED
        BY <1>1, <1>12, <1>14, <3>1 DEF KnowsOK
    <2>2. ASSUME NEW e \in q.data.idents
          PROVE  \E i \in 1..Len(resources') :
                   resources'[i].ident = e /\ resources'[i].remote /\ (q.alone => ~resources'[i].deleted)
      <3>1. CASE e \in U
        <4>1. PICK i \in 1..k : new[i].ident = e
          BY <1>5, <3>1
        <4> QED
          BY <1>6, <1>11, <1>12, <1>13, <4>1
      <3>2. CASE e \notin U
        <4>1. PICK i \in process[p].update : resources[i].ident = e
          BY <1>8, <1>14, <2>2, <3>2
        <4>2. resources[i].remote /\ (q.alone => ~resources[i].deleted) /\ i \in 1..n
          BY <1>1, <1>2, <1>14 DEF KnowsOK
        <4> QED
          BY <1>11, <1>12, <1>13, <4>1, <4>2
      <3> QED
        BY <3>1, <3>2
    <2> QED
      BY <1>1, <1>2, <1>14, <2>1, <2>2 DEF KnowsOK, Saving, Told
  <1>17. Grown
    BY <1>11, <1>12, <1>13 DEF Grown
  <1>18. Working(p)
    BY <1>2 DEF Working
  <1>19. /\ SyncTypeOK' /\ (\A r \in Processes : KnowsOK(process[r], resources)') /\ AloneOK'
         /\ process'[p] = q /\ \A r \in Processes \ {p} : process'[r] = process[r]
    BY <1>2, <1>10, <1>13, <1>14, <1>15, <1>16, <1>17, <1>18, WriteMoves
  <1>20. \A i \in 1..Len(resources') : i \notin 1..Len(resources) =>
           resources'[i].remote /\ ~resources'[i].deleted /\ resources'[i].ident \in U
    <2>1. ASSUME NEW i \in 1..m, i \notin 1..n
          PROVE  resources'[i].remote /\ ~resources'[i].deleted /\ resources'[i].ident \in U
      <3>1. resources'[i] = new[i - n] /\ i - n \in 1..k
        BY <1>11, <1>12, <2>1
      <3> QED
        BY <1>6, <3>1
    <2> QED
      BY <1>13, <2>1
  <1>21. TableOK(resources')
    <2>1. TableOK(resources)
      BY DEF SyncInv
    <2>2. ASSUME NEW i \in 1..m
          PROVE  /\ ~resources'[i].remote => resources'[i].ident = "instance"
                 /\ resources'[i].remote /\ resources'[i].ident = "instance" => ~resources'[i].deleted
                 /\ resources'[i].deleted => \E j \in 1..m : resources'[j].ident = resources'[i].ident /\ resources'[j].remote
      <3>1. CASE i \in 1..n
        BY <1>11, <1>12, <2>1, <3>1 DEF TableOK
      <3>2. CASE i \notin 1..n
        BY <1>13, <1>20, <3>2
      <3> QED
        BY <3>1, <3>2
    <2> QED
      BY <1>13, <2>2 DEF TableOK
  <1>22. EtagOK' /\ InstanceLives'
    <2>1. process'[p].pc \in Saving \ {"etag"} /\ process[p].pc \in Saving \ {"etag"} /\ process'[p].data = process[p].data
      BY <1>2, <1>14, <1>19 DEF Saving
    <2>2. process'[p].pc \notin {"load", "etag"}
      BY <1>14, <1>19
    <2>3. \A i \in 1..Len(resources) : ~resources[i].deleted => ~resources'[i].deleted
      BY <1>12
    <2>4. Len(resources') \in Nat
      BY <1>11, <1>13
    <2> QED
      BY <1>1, <1>2, <1>17, <1>18, <1>19, <1>20, <2>1, <2>2, <2>3, <2>4, EtagStays
  <1>23. ASSUME NEW e \in Idents PROVE Paced(e)'
    <2>1. ~MayAdd(process[p], e, resources)'
      BY <1>14, <1>19 DEF MayAdd
    <2>2. e \in U => MayAdd(process[p], e, resources)
      BY <1>2, <1>9 DEF MayAdd
    <2>3. Paced(e)
      BY DEF SyncInv
    <2>4. \A i, j \in 1..Len(resources') : i \notin 1..Len(resources) /\ j \notin 1..Len(resources)
                                          /\ resources'[i].ident = resources'[j].ident => i = j
      BY <1>5, <1>11, <1>12, <1>13
    <2>5. Len(resources) <= Len(resources') /\ \A i \in 1..Len(resources) : resources'[i] = resources[i]
      BY <1>11, <1>12, <1>13
    <2>6. \A i \in 1..Len(resources') : i \notin 1..Len(resources) => ~resources'[i].deleted
      BY <1>20
    <2>7. \A i \in 1..Len(resources') : i \notin 1..Len(resources) /\ resources'[i].ident = e
                                       => MayAdd(process[p], e, resources)
      BY <1>20, <2>2
    <2> QED
      BY <1>1, <1>2, <1>19, <2>1, <2>3, <2>4, <2>5, <2>6, <2>7, AppendPace
  <1> QED
    BY <1>19, <1>21, <1>22, <1>23 DEF SyncInv
\* bulk_update: a row that did not count is the one that the process might have added.
LEMMA UpdateStep == ASSUME SyncInv, NEW p \in Processes, Update(p) PROVE SyncInv'
  <1> DEFINE n == Len(resources)
             upd == process[p].update
             q == [process[p] EXCEPT !.pc = "create"]
  <1>1. /\ process[p] \in Doing(n) /\ SyncTypeOK /\ n \in Nat /\ n <= MaxResources /\ KnowsOK(process[p], resources)
        /\ resources \in Seq(SyncRow) /\ process \in [Processes -> Doing(n)] /\ upd \subseteq 1..n
        /\ \A i \in 1..n : resources[i] \in SyncRow
    BY SyncTyped DEF SyncInv, Doing, ResourceIds
  <1>2. /\ process[p].pc = "update" /\ process' = [process EXCEPT ![p] = q] /\ UNCHANGED <<release, etag, uploaded, count>>
        /\ resources' = [i \in 1..n |-> IF i \in upd THEN [resources[i] EXCEPT !.remote = TRUE, !.deleted = FALSE]
                                        ELSE resources[i]]
    BY <1>1 DEF Update, Now, Proceed, ResourceIds
  <1>3. ASSUME NEW i \in 1..n
        PROVE  /\ resources'[i] \in SyncRow /\ resources'[i].ident = resources[i].ident
               /\ i \in upd => resources'[i].remote /\ ~resources'[i].deleted
               /\ i \notin upd => resources'[i] = resources[i]
    <2>1. CASE i \in upd
      <3>1. resources'[i] = [resources[i] EXCEPT !.remote = TRUE, !.deleted = FALSE]
        BY <1>2, <2>1
      <3> QED
        BY <1>1, <2>1, <3>1 DEF SyncRow
    <2>2. CASE i \notin upd
      <3>1. resources'[i] = resources[i]
        BY <1>2, <2>2
      <3> QED
        BY <1>1, <2>2, <3>1
    <2> QED
      BY <2>1, <2>2
  <1>4. resources' \in Seq(SyncRow) /\ Len(resources') = n
    <2>1. resources' \in [1..n -> SyncRow]
      BY <1>2, <1>3
    <2> QED
      BY <1>1, <2>1, LenProperties
  <1>5. /\ q \in Doing(n) /\ q.pc = "create" /\ q.held = process[p].held /\ q.update = upd
        /\ q.alone = process[p].alone /\ q.data = process[p].data /\ q.release = process[p].release
    BY <1>1 DEF Doing, Saving
  <1>6. /\ OnePerIdent(upd, resources)
        /\ \A i \in upd : i \in 1..n /\ resources[i].ident \in process[p].data.idents
    BY <1>1, <1>2 DEF KnowsOK
  <1> HIDE DEF n, upd, q
  <1>7. KnowsOK(q, resources')
    <2>1. q.held # 0 => resources'[q.held].ident = "instance"
      <3>1. q.held \in 0..n
        BY <1>5 DEF Doing
      <3> QED
        BY <1>1, <1>3, <1>5, <3>1 DEF KnowsOK
    <2>2. OnePerIdent(q.update, resources') /\ \A i \in q.update : resources'[i].ident \in q.data.idents
      BY <1>3, <1>5, <1>6 DEF OnePerIdent
    <2>3. \A i \in q.update : resources'[i].remote /\ (q.alone => ~resources'[i].deleted)
      BY <1>3, <1>5, <1>6
    <2>4. q.data.idents = Told(q)
      BY <1>1, <1>2, <1>5 DEF KnowsOK, Saving, Told
    <2>5. q.held # 0
      BY <1>1, <1>2, <1>5 DEF KnowsOK
    <2> QED
      BY <1>5, <2>1, <2>2, <2>3, <2>4, <2>5 DEF KnowsOK
  <1>8. Grown
    <2>1. Len(resources) <= Len(resources')
      BY <1>1, <1>4 DEF n
    <2>2. \A i \in 1..n : /\ resources'[i].ident = resources[i].ident
                          /\ resources[i].remote => resources'[i].remote
      BY <1>3
    <2> QED
      BY <2>1, <2>2 DEF Grown, n
  <1>9. Working(p)
    BY <1>2 DEF Working
  <1>10. /\ SyncTypeOK' /\ (\A r \in Processes : KnowsOK(process[r], resources)') /\ AloneOK'
         /\ process'[p] = q /\ \A r \in Processes \ {p} : process'[r] = process[r]
    BY <1>1, <1>2, <1>4, <1>5, <1>7, <1>8, <1>9, WriteMoves
  <1>11. TableOK(resources')
    <2>1. TableOK(resources)
      BY DEF SyncInv
    <2>2. ASSUME NEW i \in 1..n
          PROVE  /\ ~resources'[i].remote => resources'[i].ident = "instance"
                 /\ resources'[i].remote /\ resources'[i].ident = "instance" => ~resources'[i].deleted
                 /\ resources'[i].deleted => \E j \in 1..n : resources'[j].ident = resources'[i].ident /\ resources'[j].remote
      <3>1. CASE i \in upd
        BY <1>3, <3>1
      <3>2. CASE i \notin upd
        <4>1. resources'[i] = resources[i]
          BY <1>3, <3>2
        <4>2. ASSUME resources[i].deleted
              PROVE  \E j \in 1..n : resources'[j].ident = resources[i].ident /\ resources'[j].remote
          <5>1. PICK j \in 1..n : resources[j].ident = resources[i].ident /\ resources[j].remote
            BY <2>1, <4>2 DEF TableOK, n
          <5> QED
            BY <1>3, <5>1
        <4> QED
          BY <2>1, <4>1, <4>2 DEF TableOK, n
      <3> QED
        BY <3>1, <3>2
    <2> QED
      BY <1>4, <2>2 DEF TableOK
  <1>12. EtagOK' /\ InstanceLives'
    <2>1. process'[p].pc \in Saving \ {"etag"} /\ process[p].pc \in Saving \ {"etag"} /\ process'[p].data = process[p].data
      BY <1>2, <1>5, <1>10 DEF Saving
    <2>2. process'[p].pc \notin {"load", "etag"}
      BY <1>5, <1>10
    <2>3. \A i \in 1..Len(resources) : ~resources[i].deleted => ~resources'[i].deleted
      BY <1>3 DEF n
    <2>4. Len(resources') \in Nat /\ Len(resources) \in Nat /\ \A i \in 1..Len(resources') : i \in 1..Len(resources)
      BY <1>1, <1>4 DEF n
    <2> QED
      BY <1>2, <1>8, <1>9, <1>10, <2>1, <2>2, <2>3, <2>4, EtagStays
  <1>13. ASSUME NEW e \in Idents PROVE Paced(e)'
    <2>1. /\ Counts(e) = {i \in 1..n : resources[i].ident = e /\ (~resources[i].deleted \/ resources[i].remote)}
          /\ Counts(e)' = {i \in 1..n : resources'[i].ident = e /\ (~resources'[i].deleted \/ resources'[i].remote)}
      BY <1>4 DEF Counts, RowsOf, ResourceIds, Live, n
    <2>2. MayAdd(process[p], e, resources) <=> e \in process[p].data.idents
      BY <1>2 DEF MayAdd
    <2>3. MayAdd(process[p], e, resources)' <=> e \in process[p].data.idents /\ \A i \in upd : resources[i].ident # e
      <3>1. MayAdd(q, e, resources') <=> e \in process[p].data.idents /\ \A i \in upd : resources'[i].ident # e
        BY <1>5 DEF MayAdd
      <3>2. \A i \in upd : resources'[i].ident = resources[i].ident
        BY <1>3, <1>6
      <3> QED
        BY <1>10, <3>1, <3>2
    <2>4. Paced(e) /\ IsFiniteSet(Counts(e)) /\ Cardinality(Counts(e)) \in Nat
      BY <1>1, FinitelyMany DEF SyncInv
    <2>5. WillNot(process[p], e, resources) => \E i \in upd : resources[i].ident = e /\ (resources[i].remote \/ ~resources[i].deleted)
      BY <1>2 DEF WillNot, upd
    <2>6. ASSUME NEW r \in Processes
          PROVE  process[r].mapped \subseteq 1..n /\ process[r].update \subseteq 1..n
      BY <1>1 DEF Doing
    <2>7. CASE \A i \in upd : resources[i].ident # e
      <3>1. \A i \in 1..n : resources[i].ident = e \/ resources'[i].ident = e => resources'[i] = resources[i]
        BY <1>3, <2>7
      <3>2. Counts(e)' = Counts(e)
        BY <1>3, <2>1, <3>1
      <3>3. ASSUME NEW r \in Processes \ {p}, WillNot(process[r], e, resources) PROVE WillNot(process[r], e, resources')
        <4> DEFINE x == process[r]
        <4>1. x.mapped \subseteq 1..n /\ x.update \subseteq 1..n /\ WillNot(x, e, resources)
          BY <2>6, <3>3
        <4> HIDE DEF x
        <4>2. WillNot(x, e, resources')
          BY <1>3, <1>4, <3>1, <4>1 DEF WillNot, n
        <4> QED
          BY <4>2 DEF x
      <3>4. ~WillNot(process[p], e, resources)
        BY <2>5, <2>7
      <3>5. MayAdd(process[p], e, resources)' <=> MayAdd(process[p], e, resources)
        BY <2>2, <2>3, <2>7
      <3>6. Cardinality(Counts(e)') <= Cardinality(Counts(e)) + 0
        BY <2>4, <3>2
      <3> QED
        BY <1>1, <1>2, <1>8, <1>10, <2>4, <3>3, <3>4, <3>5, <3>6, WritePace
    <2>8. CASE \E i \in upd : resources[i].ident = e
      <3>1. PICK i \in upd : resources[i].ident = e
        BY <2>8
      <3>2. i \in 1..n /\ e \in process[p].data.idents /\ \A j \in upd : resources[j].ident = e => j = i
        BY <1>6, <3>1 DEF OnePerIdent
      <3>3. MayAdd(process[p], e, resources) /\ ~MayAdd(process[p], e, resources)'
        BY <2>2, <2>3, <3>1, <3>2
      <3>4. \A j \in 1..n : j # i /\ (resources[j].ident = e \/ resources'[j].ident = e) => resources'[j] = resources[j]
        BY <1>3, <3>2
      <3>5. Counts(e)' = Counts(e) \cup {i}
        BY <1>3, <2>1, <3>1, <3>2, <3>4
      <3>6. CASE i \in Counts(e)
        <4>1. Counts(e)' = Counts(e)
          BY <3>5, <3>6
        <4>2. Cardinality(Counts(e)') < Cardinality(Counts(e)) + 1
          BY <2>4, <4>1
        <4> QED
          BY <1>1, <1>2, <1>8, <1>10, <2>4, <3>3, <4>2, WriteDrops
      <3>7. CASE i \notin Counts(e)
        <4>1. resources[i].deleted /\ ~resources[i].remote
          BY <2>1, <3>1, <3>2, <3>7
        <4>2. Cardinality(Counts(e)') <= Cardinality(Counts(e)) + 1
          <5>1. Cardinality(Counts(e) \cup {i}) <= Cardinality(Counts(e)) + 1
            BY <2>4, OneAtMost
          <5> QED
            BY <3>5, <5>1, Zenon
        <4>3. ~WillNot(process[p], e, resources)
          BY <2>5, <3>2, <4>1
        <4>4. ASSUME NEW r \in Processes \ {p}, WillNot(process[r], e, resources) PROVE WillNot(process[r], e, resources')
          <5> DEFINE x == process[r]
          <5>1. x.mapped \subseteq 1..n /\ x.update \subseteq 1..n /\ WillNot(x, e, resources)
            BY <2>6, <4>4
          <5> HIDE DEF x
          <5>2. \A j \in 1..n : ~resources[j].deleted => ~resources'[j].deleted
            BY <1>3
          <5>3. \A j \in 1..n : resources[j].remote => resources'[j].remote
            BY <1>3
          <5>4. WillNot(x, e, resources')
            BY <1>3, <1>4, <3>1, <3>2, <4>1, <5>1, <5>2, <5>3 DEF WillNot, n
          <5> QED
            BY <5>4 DEF x
        <4> QED
          BY <1>1, <1>2, <1>8, <1>10, <2>4, <3>3, <4>2, <4>3, <4>4, WritePace
      <3> QED
        BY <3>6, <3>7
    <2> QED
      BY <2>7, <2>8
  <1> QED
    BY <1>10, <1>11, <1>12, <1>13 DEF SyncInv
\* The rows that are deleted counted only if they were live without a remote id.
LEMMA DeleteStep == ASSUME SyncInv, NEW p \in Processes, DeleteRest(p) PROVE SyncInv'
  <1> DEFINE n == Len(resources)
             idents == process[p].data.idents
             keep == {i \in 1..n : resources[i].remote /\ resources[i].ident \in idents}
             q == Rested(process[p])
  <1>1. /\ process[p] \in Doing(n) /\ SyncTypeOK /\ n \in Nat /\ n <= MaxResources /\ KnowsOK(process[p], resources)
        /\ resources \in Seq(SyncRow) /\ process \in [Processes -> Doing(n)]
        /\ \A i \in 1..n : resources[i] \in SyncRow
    BY SyncTyped DEF SyncInv, ResourceIds
  <1>2. /\ process[p].pc = "delete" /\ process' = [process EXCEPT ![p] = q] /\ UNCHANGED <<release, etag, uploaded, count>>
        /\ resources' = [i \in 1..n |-> IF resources[i].remote /\ resources[i].ident \in idents THEN resources[i]
                                        ELSE [resources[i] EXCEPT !.deleted = TRUE]]
    BY DEF DeleteRest, Now, Rest, ResourceIds
  <1>3. ASSUME NEW i \in 1..n
        PROVE  /\ resources'[i] \in SyncRow /\ resources'[i].ident = resources[i].ident
               /\ resources'[i].remote = resources[i].remote
               /\ i \in keep => resources'[i] = resources[i]
               /\ i \notin keep => resources'[i].deleted
    <2>1. CASE i \in keep
      <3>1. resources'[i] = resources[i]
        BY <1>2, <2>1
      <3> QED
        BY <1>1, <2>1, <3>1
    <2>2. CASE i \notin keep
      <3>1. resources'[i] = [resources[i] EXCEPT !.deleted = TRUE]
        BY <1>2, <2>2
      <3> QED
        BY <1>1, <2>2, <3>1 DEF SyncRow
    <2> QED
      BY <2>1, <2>2
  <1>4. resources' \in Seq(SyncRow) /\ Len(resources') = n
    <2>1. resources' \in [1..n -> SyncRow]
      BY <1>2, <1>3
    <2> QED
      BY <1>1, <2>1, LenProperties
  <1>5. process[p].held # 0 /\ resources[process[p].held].ident = "instance"
    BY <1>1, <1>2 DEF KnowsOK
  <1>6. q \in Doing(n) /\ KnowsOK(q, resources) /\ q.pc = "ready" /\ q.held = process[p].held
    <2>1. q \in Doing(n) /\ KnowsOK(q, resources) /\ q.pc = "ready"
      BY <1>1, <1>5, RestedOK
    <2>2. q.held = process[p].held
      BY DEF Rested, NoProcess
    <2> QED
      BY <2>1, <2>2
  <1>7. "instance" \in idents
    BY <1>1, <1>2 DEF KnowsOK, Saving, Told
  <1>8. \A e \in idents : \E i \in keep : resources[i].ident = e /\ (process[p].alone => ~resources[i].deleted)
    <2>1. ASSUME NEW e \in idents PROVE \E i \in keep : resources[i].ident = e /\ (process[p].alone => ~resources[i].deleted)
      <3>1. PICK i \in 1..n : resources[i].ident = e /\ resources[i].remote /\ (process[p].alone => ~resources[i].deleted)
        BY <1>1, <1>2, <2>1 DEF KnowsOK
      <3> QED
        BY <3>1
    <2> QED
      BY <2>1
  <1>9. \A i \in 1..n : i \in keep <=> resources[i].remote /\ resources[i].ident \in idents
    OBVIOUS
  <1>10. \A i \in keep : i \in 1..n
    OBVIOUS
  <1> HIDE DEF n, keep, q
  <1>11. KnowsOK(q, resources')
    <2>1. q.held \in 0..n
      BY <1>6 DEF Doing
    <2>2. resources'[q.held].ident = "instance"
      BY <1>1, <1>3, <1>5, <1>6, <2>1
    <2> QED
      BY <1>6, <2>2 DEF KnowsOK, Saving
  <1>12. Grown
    <2>1. Len(resources) <= Len(resources')
      BY <1>1, <1>4 DEF n
    <2>2. \A i \in 1..n : /\ resources'[i].ident = resources[i].ident
                          /\ resources[i].remote => resources'[i].remote
      BY <1>3
    <2> QED
      BY <2>1, <2>2 DEF Grown, n
  <1>13. Working(p) /\ ~AtWork(q)
    BY <1>2, <1>6 DEF Working, AtWork
  <1>14. /\ SyncTypeOK' /\ (\A r \in Processes : KnowsOK(process[r], resources)') /\ AloneOK'
         /\ process'[p] = q /\ \A r \in Processes \ {p} : process'[r] = process[r]
    BY <1>1, <1>2, <1>4, <1>6, <1>11, <1>12, <1>13, WriteMoves
  <1>15. TableOK(resources)
    BY DEF SyncInv
  <1>16. TableOK(resources')
    <2>1. ASSUME NEW i \in 1..n
          PROVE  /\ ~resources'[i].remote => resources'[i].ident = "instance"
                 /\ resources'[i].remote /\ resources'[i].ident = "instance" => ~resources'[i].deleted
                 /\ resources'[i].deleted => \E j \in 1..n : resources'[j].ident = resources'[i].ident /\ resources'[j].remote
      <3>1. ~resources[i].remote => resources[i].ident = "instance"
        BY <1>15 DEF TableOK, n
      <3>2. resources[i].remote /\ resources[i].ident = "instance" => ~resources'[i].deleted
        BY <1>3, <1>7, <1>9, <1>15 DEF TableOK, n
      <3>3. \E j \in 1..n : resources[j].ident = resources[i].ident /\ resources[j].remote
        <4>1. CASE resources[i].remote
          BY <4>1
        <4>2. CASE ~resources[i].remote
          BY <1>7, <1>8, <1>9, <1>10, <3>1, <4>2
        <4> QED
          BY <4>1, <4>2
      <3> QED
        BY <1>3, <3>1, <3>2, <3>3
    <2> QED
      BY <1>4, <2>1 DEF TableOK
  <1>17. InstanceLives'
    <2>1. ASSUME count.overlap = 0, NEW i \in 1..n, resources[i].ident = "instance" PROVE ~resources'[i].deleted
      <3>1. PICK k \in keep : resources[k].ident = "instance"
        BY <1>7, <1>8
      <3>2. i \in Counts("instance") /\ k \in Counts("instance")
        BY <1>9, <1>10, <2>1, <3>1 DEF SyncInv, InstanceLives, Counts, RowsOf, ResourceIds, Live, n
      <3>3. Adders("instance") = {}
        <4>1. \A r \in Processes \ {p} : ~MayAdd(process[r], "instance", resources)
          BY <1>13, <2>1, OnlyOne, BusyAdds DEF Working, AtWork
        <4>2. ~MayAdd(process[p], "instance", resources)
          BY <1>2 DEF MayAdd
        <4> QED
          BY <4>1, <4>2 DEF Adders
      <3>4. /\ Cardinality(Counts("instance")) \in Nat /\ IsFiniteSet(Counts("instance"))
            /\ Cardinality(Adders("instance")) = 0
        BY <1>1, <3>3, FinitelyMany, FS_EmptySet
      <3>5. Cardinality(Counts("instance")) <= 1
        <4>1. Paced("instance")
          BY DEF SyncInv, Idents
        <4> QED
          BY <2>1, <3>3, <3>4, <4>1 DEF Paced, Within
      <3>6. i = k
        <4>1. ASSUME i # k PROVE FALSE
          <5>1. {i, k} \subseteq Counts("instance")
            BY <3>2
          <5>2. IsFiniteSet({i, k}) /\ Cardinality({i, k}) = 2
            <6>1. IsFiniteSet({i}) /\ Cardinality({i}) = 1
              BY FS_Singleton
            <6>2. {i, k} = {i} \cup {k} /\ k \notin {i}
              BY <4>1
            <6>3. IsFiniteSet({i} \cup {k}) /\ Cardinality({i} \cup {k}) = Cardinality({i}) + 1
              BY <6>1, <6>2, FS_AddElement
            <6> QED
              BY <6>1, <6>2, <6>3
          <5>3. 2 <= Cardinality(Counts("instance"))
            BY <3>4, <5>1, <5>2, FS_Subset
          <5> QED
            BY <3>4, <3>5, <5>3
        <4> QED
          BY <4>1
      <3> QED
        BY <1>3, <2>1, <3>6 DEF SyncInv, InstanceLives, RowsOf, ResourceIds, Live, n
    <2>2. count.overlap = 0 => \A i \in 1..n : resources'[i].ident = "instance" => ~resources'[i].deleted
      BY <1>3, <2>1
    <2>3. count' = count
      BY <1>2
    <2> QED
      BY <1>4, <2>2, <2>3 DEF InstanceLives, RowsOf, ResourceIds, Live
  <1>18. EtagOK'
    <2>1. ASSUME count.breaks = 0, count.overlap = 0
          PROVE  /\ uploaded = process[p].data /\ etag = process[p].data /\ process[p].alone
                 /\ \A r \in Processes \ {p} : process'[r].pc \in {"down", "ready"}
      <3>1. process[p].alone
        BY <1>13, <2>1 DEF SyncInv, AloneOK
      <3>2. \A r \in Processes \ {p} : process'[r].pc \in {"down", "ready"}
        BY <1>13, <1>14, <2>1, OnlyOne DEF Working
      <3>3. uploaded = process[p].data /\ etag = process[p].data
        BY <1>2, <2>1 DEF SyncInv, EtagOK, Saving
      <3> QED
        BY <3>1, <3>2, <3>3
    <2>2. ASSUME count.breaks = 0, count.overlap = 0, NEW e \in etag.idents
          PROVE  \E i \in 1..n : resources'[i].ident = e /\ ~resources'[i].deleted /\ resources'[i].remote
      <3>1. PICK i \in keep : resources[i].ident = e /\ ~resources[i].deleted
        BY <1>8, <2>1, <2>2
      <3> QED
        BY <1>3, <1>9, <1>10, <3>1
    <2>3. process'[p].pc = "ready"
      BY <1>6, <1>14
    <2>4. ASSUME count'.breaks = 0, count'.overlap = 0
          PROVE  /\ count.breaks = 0 /\ count.overlap = 0 /\ uploaded' = etag'
                 /\ \A r \in Processes : process'[r].pc \in {"down", "ready"}
                 /\ \A e \in etag'.idents : \E i \in 1..n : resources'[i].ident = e /\ ~resources'[i].deleted /\ resources'[i].remote
      BY <1>2, <2>1, <2>2, <2>3, <2>4
    <2> QED
      BY <1>4, <2>4 DEF EtagOK, Now, RowsOf, ResourceIds, Live, Saving
  <1>19. ASSUME NEW e \in Idents PROVE Paced(e)'
    <2>1. /\ Counts(e) = {i \in 1..n : resources[i].ident = e /\ (~resources[i].deleted \/ resources[i].remote)}
          /\ Counts(e)' = {i \in 1..n : resources'[i].ident = e /\ (~resources'[i].deleted \/ resources'[i].remote)}
      BY <1>4 DEF Counts, RowsOf, ResourceIds, Live, n
    <2>2. ~MayAdd(process[p], e, resources) /\ ~MayAdd(process[p], e, resources)'
      BY <1>2, <1>6, <1>14 DEF MayAdd
    <2>3. Paced(e) /\ IsFiniteSet(Counts(e)) /\ Cardinality(Counts(e)) \in Nat
      BY <1>1, FinitelyMany DEF SyncInv
    <2>4. Counts(e)' \subseteq Counts(e)
      BY <1>3, <2>1
    <2>5. CASE \E i \in 1..n : resources[i].ident = e /\ ~resources[i].deleted /\ ~resources[i].remote
      <3>1. PICK i \in 1..n : resources[i].ident = e /\ ~resources[i].deleted /\ ~resources[i].remote
        BY <2>5
      <3>2. i \in Counts(e) /\ i \notin Counts(e)'
        BY <1>3, <1>9, <2>1, <3>1
      <3>3. /\ Cardinality(Counts(e)') <= Cardinality(Counts(e))
            /\ Cardinality(Counts(e)') = Cardinality(Counts(e)) => Counts(e)' = Counts(e)
        BY <2>3, <2>4, FS_Subset
      <3>4. Cardinality(Counts(e)') \in Nat
        BY <1>14, FinitelyManyNext
      <3>5. Cardinality(Counts(e)') < Cardinality(Counts(e)) + 0
        BY <2>3, <3>2, <3>3, <3>4
      <3> QED
        BY <1>1, <1>2, <1>12, <1>14, <2>2, <2>3, <3>5, WriteDrops
    <2>6. CASE ~ \E i \in 1..n : resources[i].ident = e /\ ~resources[i].deleted /\ ~resources[i].remote
      <3>1. Counts(e)' = Counts(e)
        BY <1>3, <2>1, <2>6
      <3>2. Cardinality(Counts(e)') <= Cardinality(Counts(e)) + 0
        BY <2>3, <3>1
      <3>3. ASSUME NEW r \in Processes \ {p}, MayAdd(process[r], e, resources), WillNot(process[r], e, resources)
            PROVE  WillNot(process[r], e, resources')
        <4> DEFINE x == process[r]
        <4>1. /\ x.mapped \subseteq 1..n /\ x.update \subseteq 1..n
              /\ WillNot(x, e, resources) /\ MayAdd(x, e, resources)
          BY <1>1, <3>3 DEF Doing
        <4> HIDE DEF x
        <4>2. x.pc = "find" => \A i \in 1..n : resources[i].ident = e /\ ~resources[i].deleted => i \in keep
          BY <1>7, <1>9, <2>6, <4>1 DEF MayAdd
        <4>3. x.pc = "plan" => \E i \in x.mapped : resources[i].ident = e
          BY <2>6, <4>1 DEF WillNot, n
        <4>4. x.pc = "update" => \E i \in x.update : resources[i].ident = e /\ resources[i].remote
          BY <2>6, <4>1 DEF WillNot
        <4>5. CASE x.pc = "find"
          <5>1. PICK i \in 1..n : resources[i].ident = e /\ ~resources[i].deleted
            BY <4>1, <4>5 DEF WillNot, n
          <5> QED
            BY <1>3, <1>4, <4>2, <4>5, <5>1 DEF WillNot, x
        <4>6. CASE x.pc \in {"load", "upload", "etag", "map"}
          <5>1. PICK i \in 1..n : resources[i].ident = e
            BY <4>1, <4>6 DEF WillNot, n
          <5> QED
            BY <1>3, <1>4, <4>6, <5>1 DEF WillNot, x
        <4>7. CASE x.pc = "plan"
          BY <1>3, <4>1, <4>3, <4>7 DEF WillNot, x
        <4>8. CASE x.pc = "update"
          BY <1>3, <4>1, <4>4, <4>8 DEF WillNot, x
        <4> QED
          BY <4>1, <4>5, <4>6, <4>7, <4>8 DEF WillNot
      <3> QED
        BY <1>1, <1>2, <1>12, <1>14, <2>2, <2>3, <3>2, <3>3, WritePace
    <2> QED
      BY <2>5, <2>6
  <1> QED
    BY <1>14, <1>16, <1>17, <1>18, <1>19 DEF SyncInv
-----------------------------------------------------------------------------
(* The theorems *)

\* There is no row at first.
LEMMA SyncStarts == SyncInit => SyncInv
  <1> SUFFICES ASSUME SyncInit PROVE SyncInv
    OBVIOUS
  <1>1. /\ resources = << >> /\ Len(resources) = 0 /\ 1..Len(resources) = {} /\ ResourceIds = {}
        /\ \A p \in Processes : process[p] = NoProcess
        /\ etag = NoData /\ uploaded = NoData
        /\ count = [syncs |-> 0, setups |-> 0, deploys |-> 0, breaks |-> 0, overlap |-> 0]
    BY DEF SyncInit, ResourceIds
  <1>2. NoProcess.pc = "down" /\ NoProcess.held = 0 /\ NoData.idents = {}
    BY DEF NoProcess, NoData
  <1>3. \A p \in Processes : process[p].pc = "down" /\ process[p].held = 0
    BY <1>1, <1>2
  <1>4. SyncTypeOK
    <2>1. NoProcess \in Doing(0) /\ NoData \in Data
      BY DEF NoProcess, Doing, Saving, NoData, Data
    <2>2. process \in [Processes -> Doing(Len(resources))]
      BY <1>1, <2>1 DEF SyncInit
    <2>3. MaxSyncs \in Nat /\ MaxSetups \in Nat /\ MaxDeploys \in Nat /\ MaxBreaks \in Nat /\ MaxResources \in Nat
      BY DEF SyncAssumption
    <2>4. count \in [syncs: 0..MaxSyncs, setups: 0..MaxSetups, deploys: 0..MaxDeploys,
                     breaks: 0..MaxBreaks, overlap: 0..MaxSyncs + MaxSetups]
      BY <1>1, <2>3
    <2>5. resources \in Seq(SyncRow) /\ Len(resources) <= MaxResources
      BY <1>1, <2>3
    <2>6. release \in DOMAIN Releases /\ etag \in Data /\ uploaded \in Data
      BY <1>1, <2>1 DEF SyncInit
    <2> QED
      BY <1>3, <2>2, <2>4, <2>5, <2>6 DEF SyncTypeOK, Doing, Saving, ResourceIds, SyncRow, Now
  <1>5. TableOK(resources) /\ InstanceLives /\ \A e : RowsOf(e) = {}
    BY <1>1 DEF TableOK, InstanceLives, RowsOf, ResourceIds
  <1>6. \A p \in Processes : KnowsOK(process[p], resources)
    BY <1>3 DEF KnowsOK, Saving
  <1>7. AloneOK
    BY <1>1, <1>3 DEF AloneOK, Working
  <1>8. EtagOK
    BY <1>1, <1>2, <1>3 DEF EtagOK, Now, Saving
  <1>9. ASSUME NEW e PROVE Paced(e)
    <2>1. Counts(e) = {} /\ Adders(e) = {}
      BY <1>3, <1>5 DEF Counts, Adders, MayAdd
    <2>2. Cardinality(Counts(e)) = 0 /\ Cardinality(Adders(e)) = 0
      BY <2>1, FS_EmptySet
    <2> QED
      BY <1>1, <2>2 DEF Paced, Within
  <1> QED
    BY <1>4, <1>5, <1>6, <1>7, <1>8, <1>9 DEF SyncInv

\* Every step keeps the invariant.
LEMMA SyncStays == SyncInv /\ [SyncNext]_syncVars => SyncInv'
  <1> SUFFICES ASSUME SyncInv, [SyncNext]_syncVars PROVE SyncInv'
    OBVIOUS
  <1>1. CASE UNCHANGED syncVars
    <2>1. UNCHANGED <<release, process, resources, etag, uploaded, count>>
      BY <1>1 DEF syncVars
    <2>2. SyncTypeOK'
      BY <2>1 DEF SyncInv, SyncTypeOK, Now, ResourceIds
    <2>3. TableOK(resources)' /\ (\A p \in Processes : KnowsOK(process[p], resources)') /\ AloneOK'
      BY <2>1 DEF SyncInv, AloneOK, Working
    <2>4. EtagOK' /\ InstanceLives'
      BY <2>1 DEF SyncInv, EtagOK, InstanceLives, Now, RowsOf, ResourceIds, Live
    <2>5. \A e \in Idents : Paced(e)'
      BY <2>1 DEF SyncInv, Paced, Counts, Adders, RowsOf, ResourceIds, Live
    <2> QED
      BY <2>2, <2>3, <2>4, <2>5 DEF SyncInv
  <1>2. CASE \E r \in DOMAIN Releases : Deploy(r)
    BY <1>2, DeployStep
  <1>3. ASSUME NEW p \in Processes, SyncStep(p) PROVE SyncInv'
    BY <1>3, FindStep, MakeStep, LoadStep, UploadStep, EtagStep, MapStep, PlanStep, UpdateStep, CreateStep, DeleteStep
       DEF SyncStep
  <1>4. ASSUME NEW p \in Processes, StartProcess(p) \/ ExitProcess(p) PROVE SyncInv'
    BY <1>4, StartStep, ExitStep
  <1>5. ASSUME NEW p \in Processes, NEW force \in BOOLEAN, BeginSync(p, force) PROVE SyncInv'
    BY <1>5, BeginStep
  <1>6. ASSUME NEW p \in Processes, NEW pc \in {"ready", "down"}, BreakSync(p, pc) PROVE SyncInv'
    BY <1>6, BreakStep
  <1> QED
    BY <1>1, <1>2, <1>3, <1>4, <1>5, <1>6 DEF SyncNext

\* It holds throughout.
LEMMA SyncRuns == SyncSpec => []SyncInv
  BY SyncStarts, SyncStays, PTL DEF SyncSpec

\* What a starting process, a worker and "meta sync" write has its types (ops/store.py,
\* ops/spv/resources.py).
THEOREM SyncTypes == SyncSpec => []SyncTypeOK
  <1>1. SyncInv => SyncTypeOK
    BY DEF SyncInv
  <1> QED
    BY <1>1, SyncRuns, PTL

\* An ident has one row more that is live or known to the supervisor for each time setups
\* or syncs met, and the row a process holds is not deleted while none did, whatever the
\* number of processes, releases, failures and deployments (store.setup, save_resources).
THEOREM RowsStaySettled == SyncSpec => []RowsSettled
  <1>1. SyncInv => RowsSettled
    <2> SUFFICES ASSUME SyncInv PROVE RowsSettled
      OBVIOUS
    <2>1. SyncTypeOK /\ count.overlap \in Nat /\ process \in [Processes -> Doing(Len(resources))] /\ Len(resources) \in Nat
      BY SyncTyped DEF SyncInv
    <2>2. ASSUME NEW e \in Idents PROVE Cardinality(Counts(e)) <= 1 + count.overlap
      <3>1. /\ Cardinality(Counts(e)) \in Nat /\ Cardinality(Adders(e)) \in Nat /\ IsFiniteSet(Adders(e))
        BY <2>1, FinitelyMany
      <3>2. Adders(e) # {} => Cardinality(Adders(e)) # 0
        BY <3>1, FS_EmptySet
      <3> DEFINE c == Cardinality(Counts(e))
                 n == Cardinality(Adders(e))
      <3>3. c + n <= 1 + count.overlap \/ (c + n <= 2 + count.overlap /\ n # 0)
        BY <3>2 DEF SyncInv, Paced, Within
      <3> HIDE DEF c, n
      <3>4. c <= 1 + count.overlap
        BY <2>1, <3>1, <3>3 DEF c, n
      <3> QED
        BY <3>4 DEF c
    <2>3. OneRowPerIdent
      BY <2>2 DEF OneRowPerIdent, Counts
    <2>4. ASSUME count.overlap = 0, NEW p \in Processes, process[p].held # 0 PROVE Live(process[p].held)
      <3>1. process[p].held \in 1..Len(resources)
        BY <2>1, <2>4 DEF Doing
      <3>2. resources[process[p].held].ident = "instance"
        BY <2>4 DEF SyncInv, KnowsOK
      <3> QED
        BY <2>4, <3>1, <3>2 DEF SyncInv, InstanceLives, RowsOf, ResourceIds
    <2>5. HeldRowLives
      BY <2>4 DEF HeldRowLives
    <2> QED
      BY <2>3, <2>5 DEF RowsSettled
  <1> QED
    BY <1>1, SyncRuns, PTL

\* A process moves in its own steps, and those that begin or break count.
LEMMA OwnSteps ==
  ASSUME SyncInv, SyncNext, NEW p \in Processes, process'[p].pc # process[p].pc, count' = count
  PROVE  SyncStep(p) \/ ExitProcess(p)
  <1>1. process \in [Processes -> Doing(Len(resources))] /\ SyncTypeOK
    BY SyncTyped DEF SyncInv
  <1>2. count \in [syncs: 0..MaxSyncs, setups: 0..MaxSetups, deploys: 0..MaxDeploys,
                   breaks: 0..MaxBreaks, overlap: 0..MaxSyncs + MaxSetups]
    BY <1>1, CountTyped
  <1>3. /\ count.syncs + 1 # count.syncs /\ count.setups + 1 # count.setups
        /\ count.deploys + 1 # count.deploys /\ count.breaks + 1 # count.breaks
    BY <1>2
  <1>4. ASSUME NEW r \in DOMAIN Releases, Deploy(r) PROVE FALSE
    BY <1>2, <1>3, <1>4 DEF Deploy
  <1>5. ASSUME NEW r \in Processes, StartProcess(r) PROVE FALSE
    <2>1. count'.setups = count.setups + 1
      BY <1>2, <1>5 DEF StartProcess, Counted
    <2> QED
      BY <1>3, <2>1
  <1>6. ASSUME NEW r \in Processes, NEW force \in BOOLEAN, BeginSync(r, force) PROVE FALSE
    <2>1. count'.syncs = count.syncs + 1
      BY <1>2, <1>6 DEF BeginSync, Counted
    <2> QED
      BY <1>3, <2>1
  <1>7. ASSUME NEW r \in Processes, NEW pc \in {"ready", "down"}, BreakSync(r, pc) PROVE FALSE
    <2>1. count'.breaks = count.breaks + 1
      BY <1>2, <1>7 DEF BreakSync
    <2> QED
      BY <1>3, <2>1
  <1>8. ASSUME NEW r \in Processes, SyncStep(r) \/ ExitProcess(r) PROVE r = p
    <2>1. SUFFICES ASSUME r # p PROVE process'[p] = process[p]
      OBVIOUS
    <2>2. CASE ExitProcess(r)
      BY <1>1, <2>1, <2>2 DEF ExitProcess
    <2>3. CASE FindInstance(r)
      BY <1>1, <2>1, <2>3 DEF FindInstance
    <2>4. CASE MakeInstance(r)
      BY <1>1, <2>1, <2>4 DEF MakeInstance
    <2>5. CASE LoadResources(r)
      BY <1>1, <2>1, <2>5 DEF LoadResources
    <2>6. CASE Upload(r)
      BY <1>1, <2>1, <2>6 DEF Upload, Proceed, Rest
    <2>7. CASE SaveEtag(r) \/ Update(r)
      BY <1>1, <2>1, <2>7 DEF SaveEtag, Update, Proceed
    <2>8. CASE ReadMap(r)
      BY <1>1, <2>1, <2>8 DEF ReadMap
    <2>9. CASE Plan(r)
      BY <1>1, <2>1, <2>9 DEF Plan
    <2>10. CASE CreateMissing(r)
      BY <1>1, <2>1, <2>10 DEF CreateMissing
    <2>11. CASE DeleteRest(r)
      BY <1>1, <2>1, <2>11 DEF DeleteRest, Rest
    <2> QED
      BY <1>8, <2>2, <2>3, <2>4, <2>5, <2>6, <2>7, <2>8, <2>9, <2>10, <2>11 DEF SyncStep
  <1> QED
    BY <1>4, <1>5, <1>6, <1>7, <1>8 DEF SyncNext

\* A sync that meets no other leaves the live rows of exactly what it uploaded, and one
\* that ends because nothing changed leaves the table right while none failed or met
\* (sync_resources, save_resources).
THEOREM TableFollowsSync == SyncSpec => TableFollows
  <1>1. SyncInv /\ [SyncNext]_syncVars => [\A p \in Processes : SavedAloneIsExact(p) /\ IdenticalIsSynced(p)]_syncVars
    <2> SUFFICES ASSUME SyncInv, SyncNext, NEW p \in Processes PROVE SavedAloneIsExact(p) /\ IdenticalIsSynced(p)
      OBVIOUS
    <2>1. /\ SyncTypeOK /\ resources \in Seq(SyncRow) /\ \A i \in 1..Len(resources) : resources[i] \in SyncRow
      BY SyncTyped DEF SyncInv, ResourceIds
    <2>2. KnowsOK(process[p], resources)
      BY DEF SyncInv
    <2>3. ASSUME Now(p, "delete"), process'[p].pc = "ready", process[p].alone, count' = count
          PROVE  LET live == {i \in ResourceIds : ~resources'[i].deleted} IN
                 /\ {resources[i].ident : i \in live} = process[p].data.idents
                 /\ \A i \in live : resources[i].remote
      <3>1. DeleteRest(p)
        <4>1. SyncStep(p) \/ ExitProcess(p)
          BY <2>3, OwnSteps DEF Now
        <4> QED
          BY <2>3, <4>1 DEF SyncStep, ExitProcess, FindInstance, MakeInstance, LoadResources, Upload, SaveEtag,
                            ReadMap, Plan, Update, CreateMissing, Now
      <3> DEFINE live == {i \in ResourceIds : ~resources'[i].deleted}
      <3>2. \A i \in 1..Len(resources) :
              /\ resources[i].remote /\ resources[i].ident \in process[p].data.idents => resources'[i] = resources[i]
              /\ ~(resources[i].remote /\ resources[i].ident \in process[p].data.idents) => resources'[i].deleted
        BY <2>1, <3>1 DEF DeleteRest, ResourceIds, SyncRow
      <3>3. \A i \in live : i \in 1..Len(resources) /\ resources[i].remote /\ resources[i].ident \in process[p].data.idents
        BY <3>2 DEF ResourceIds
      <3>4. ASSUME NEW e \in process[p].data.idents PROVE \E i \in live : resources[i].ident = e
        <4>1. PICK i \in 1..Len(resources) : resources[i].ident = e /\ resources[i].remote /\ ~resources[i].deleted
          BY <2>2, <2>3, <3>4 DEF KnowsOK, Now
        <4> QED
          BY <3>2, <4>1 DEF ResourceIds
      <3> QED
        BY <3>3, <3>4
    <2>4. ASSUME process[p].pc \in {"load", "upload"}, process'[p].pc = "ready", count' = count,
                 count.breaks = 0, count.overlap = 0, NEW e \in Releases[process[p].release] \cup {"instance"}
          PROVE  \E i \in RowsOf(e) : Live(i) /\ resources[i].remote
      <3>1. LoadResources(p) \/ Upload(p)
        <4>1. SyncStep(p) \/ ExitProcess(p)
          BY <2>4, OwnSteps
        <4> QED
          BY <2>4, <4>1 DEF SyncStep, ExitProcess, FindInstance, MakeInstance, DeleteRest, SaveEtag,
                            ReadMap, Plan, Update, CreateMissing, Now
      <3>2. \A r \in Processes : process[r].pc \notin Saving
        <4>1. Working(p)
          BY <2>4 DEF Working
        <4> QED
          BY <2>4, <4>1, OnlyOne DEF Working, Saving
      <3>3. uploaded = etag /\ \A x \in etag.idents : \E i \in RowsOf(x) : Live(i) /\ resources[i].remote
        BY <2>4, <3>2 DEF SyncInv, EtagOK
      <3>4. e \in etag.idents
        <4>1. CASE LoadResources(p)
          <5>1. process[p].pc = "load" /\ process[p].read = etag
            BY <2>4, <4>1 DEF LoadResources, Now, SyncInv, EtagOK
          <5>2. process[p].read.idents = Releases[process[p].release] \cup {"instance"}
            <6> DEFINE data == [idents |-> Releases[process[p].release] \cup {"instance"},
                                known  |-> \E i \in RowsOf("instance") : Live(i) /\ resources[i].remote]
            <6>1. CASE process[p].read = data
              BY <6>1
            <6>2. CASE process[p].read # data
              <7>1. process' = [process EXCEPT ![p] = [process[p] EXCEPT !.pc = "upload", !.data = data,
                                                                         !.force = FALSE, !.read = NoData]]
                BY <4>1, <6>2 DEF LoadResources
              <7>2. process[p] \in Doing(Len(resources)) /\ process \in [Processes -> Doing(Len(resources))]
                BY <2>1, SyncTyped
              <7> HIDE DEF data
              <7>3. process'[p].pc = "upload"
                BY <7>1, <7>2 DEF Doing
              <7> QED
                BY <2>4, <7>3
            <6> QED
              BY <6>1, <6>2
          <5> QED
            BY <2>4, <5>1, <5>2
        <4>2. CASE Upload(p)
          <5>1. process[p].pc = "upload" /\ process[p].data.idents = Releases[process[p].release] \cup {"instance"}
            BY <2>2, <4>2 DEF Upload, Now, KnowsOK, Told
          <5>2. uploaded = process[p].data
            <6>1. process \in [Processes -> Doing(Len(resources))]
              BY <2>1, SyncTyped
            <6>2. ~Proceed(p, "etag")
              BY <2>4, <6>1 DEF Proceed, Doing
            <6> QED
              BY <4>2, <6>2 DEF Upload
          <5> QED
            BY <2>4, <3>3, <5>1, <5>2
        <4> QED
          BY <3>1, <4>1, <4>2
      <3> QED
        BY <3>3, <3>4
    <2> QED
      BY <2>3, <2>4 DEF SavedAloneIsExact, IdenticalIsSynced
  <1> QED
    BY <1>1, SyncRuns, PTL DEF SyncSpec, TableFollows
=============================================================================
