---------------------------- MODULE Threads_proof ----------------------------
(***************************************************************************)
(* Proofs about what the threads of one process do: the queue of request   *)
(* logs (LogQueue), the lock of cache keys (KeyLock), and the retries of a *)
(* client call that its thread waits for (RetryChain).                     *)
(***************************************************************************)
EXTENDS LogQueue, KeyLock, RetryChain, FiniteSetTheorems, SequenceTheorems,
        WellFoundedInduction, TLAPS
-----------------------------------------------------------------------------
(***************************************************************************)
(* Proofs about LogQueue, for any number of responses and flush threads.   *)
(* The argument for PassCoversQueue is PassInv: what a pass owes is in its *)
(* batch or still ahead of it in the queue, then in its batch, then in the *)
(* table; it holds because no step shortens the queue or removes a row.    *)
(***************************************************************************)

USE QueueAssumption

Covered(t, r) ==
  r \in pass[t].logs \/ \E i \in 1..Len(queue) : i > pass[t].pos /\ queue[i] = r

PassOK(t) ==
  /\ pass[t].pc = "idle"     => pass[t].pos = 0
  /\ pass[t].pc = "generate" => \A r \in owed[t] : Covered(t, r)
  /\ pass[t].pc = "bulk"     => owed[t] \subseteq pass[t].logs
  /\ pass[t].pc = "finish"   => owed[t] \subseteq Stored

PassInv == \A t \in Threads : PassOK(t)

Inv == TypeOK /\ PassInv

\* The steps of a flush thread and of the cycle thread type the same way.
LEMMA BeginTypes ==
  ASSUME TypeOK, NEW t \in Threads, Begin(t)
  PROVE  /\ pass' \in [Threads -> [pc: Phases, pos: Nat, logs: SUBSET Responses]]
         /\ owed' \in [Threads -> SUBSET Responses]
<1>1. Queued \in SUBSET Responses
  BY DEF TypeOK, Queued
<1>2. pass' \in [Threads -> [pc: Phases, pos: Nat, logs: SUBSET Responses]]
  BY DEF TypeOK, Begin, Phases
<1> QED BY <1>1, <1>2 DEF TypeOK, Begin

\* Ending a pass types the same way for every thread.
LEMMA StopTypes ==
  ASSUME TypeOK, NEW t \in Threads, Stop(t)
  PROVE  /\ pass' \in [Threads -> [pc: Phases, pos: Nat, logs: SUBSET Responses]]
         /\ owed' \in [Threads -> SUBSET Responses]
  BY DEF TypeOK, Stop, Idle, Phases

\* Every variable has its type, whatever the threads interleave.
LEMMA TypeInitial == Init => TypeOK
  BY DEF Init, TypeOK, Idle, Phases, Many

\* Each step keeps the types.
LEMMA TypeStep == TypeOK /\ [Next]_vars => TypeOK'
<1> SUFFICES ASSUME TypeOK, [Next]_vars PROVE TypeOK'
  OBVIOUS
<1>1. ASSUME NEW r \in Responses, Enqueue(r) PROVE TypeOK'
  BY <1>1 DEF TypeOK, Enqueue
<1>2. ASSUME NEW r \in Responses, CheckBacklog(r) PROVE TypeOK'
  <2>1. served' \in [Responses -> {"new", "appended", "done"}]
    BY <1>2 DEF TypeOK, CheckBacklog
  <2>2. CASE \E t \in Flushers : Begin(t)
    BY <1>2, <2>1, <2>2, BeginTypes DEF TypeOK, CheckBacklog, Threads
  <2>3. CASE UNCHANGED <<pass, owed>>
    BY <1>2, <2>1, <2>3 DEF TypeOK, CheckBacklog
  <2> QED BY <1>2, <2>2, <2>3 DEF CheckBacklog
<1>3. ASSUME BeginCycle PROVE TypeOK'
  BY <1>3, BeginTypes DEF TypeOK, BeginCycle, Threads
<1>4. ASSUME NEW t \in Threads, Generate(t) PROVE TypeOK'
  <2>1. queue[pass[t].pos + 1] \in Responses
    BY <1>4 DEF TypeOK, Generate
  <2> DEFINE moved == [pc |-> "generate", pos |-> pass[t].pos + 1,
                       logs |-> pass[t].logs \cup {queue[pass[t].pos + 1]}]
  <2>2. moved \in [pc: Phases, pos: Nat, logs: SUBSET Responses]
    BY <2>1 DEF TypeOK, Phases
  <2>3. pass' = [pass EXCEPT ![t] = moved]
    BY <1>4 DEF TypeOK, Generate
  <2>4. pass' \in [Threads -> [pc: Phases, pos: Nat, logs: SUBSET Responses]]
    BY <2>2, <2>3 DEF TypeOK
  <2> QED BY <1>4, <2>4 DEF TypeOK, Generate
<1>5. ASSUME NEW t \in Threads, Generated(t) PROVE TypeOK'
  <2>1. CASE Stop(t)
    BY <1>5, <2>1, StopTypes DEF TypeOK, Generated
  <2>2. CASE pass' = [pass EXCEPT ![t].pc = "bulk"] /\ UNCHANGED owed
    BY <1>5, <2>2 DEF TypeOK, Generated, Phases
  <2> QED BY <1>5, <2>1, <2>2 DEF Generated
<1>6. ASSUME NEW t \in Threads, BulkCreate(t) PROVE TypeOK'
  <2>1. rows' \in [Responses -> 0..Many]
    BY <1>6 DEF TypeOK, BulkCreate, Many
  <2> QED BY ZenonT(60), <1>6, <2>1 DEF TypeOK, BulkCreate, Phases
<1>7. ASSUME NEW t \in Threads, Finish(t) PROVE TypeOK'
  BY <1>7, StopTypes DEF TypeOK, Finish
<1>8. ASSUME NEW t \in Threads, Fail(t) PROVE TypeOK'
  BY <1>8, StopTypes DEF TypeOK, Fail
<1>9. CASE UNCHANGED vars
  BY <1>9 DEF TypeOK, vars
<1> QED
  BY <1>1, <1>2, <1>3, <1>4, <1>5, <1>6, <1>7, <1>8, <1>9 DEF Next, PassStep

\* The queue only grows, and its prefix stays; a row is never removed.
LEMMA Growth ==
  ASSUME TypeOK, [Next]_vars
  PROVE  /\ Len(queue') >= Len(queue)
         /\ \A i \in 1..Len(queue) : queue'[i] = queue[i]
         /\ Stored \subseteq Stored'
<1>1. ASSUME NEW r \in Responses, Enqueue(r)
      PROVE Len(queue') >= Len(queue) /\ (\A i \in 1..Len(queue) : queue'[i] = queue[i]) /\ rows' = rows
  BY <1>1 DEF Enqueue, TypeOK
<1>2. ASSUME NEW t \in Threads, BulkCreate(t)
      PROVE queue' = queue /\ Stored \subseteq Stored'
  <2>1. ASSUME NEW r \in Responses, rows[r] > 0 PROVE rows'[r] > 0
    <3>1. rows[r] \in 0..2
      BY DEF TypeOK, Many
    <3>2. rows'[r] = IF r \in pass[t].logs /\ rows[r] < 2 THEN rows[r] + 1 ELSE rows[r]
      BY <1>2 DEF BulkCreate, Many
    <3> QED BY <2>1, <3>1, <3>2
  <2> QED BY <1>2, <2>1 DEF BulkCreate, Stored
<1>3. ASSUME UNCHANGED <<queue, rows>>
      PROVE  Len(queue') >= Len(queue) /\ (\A i \in 1..Len(queue) : queue'[i] = queue[i]) /\ Stored' = Stored
  BY <1>3 DEF Stored, TypeOK
<1>4. ASSUME NEW r \in Responses, CheckBacklog(r) PROVE UNCHANGED <<queue, rows>>
  BY <1>4 DEF CheckBacklog
<1>5. ASSUME NEW t \in Threads,
             Generate(t) \/ Generated(t) \/ Finish(t) \/ Fail(t)
      PROVE  UNCHANGED <<queue, rows>>
  BY <1>5 DEF Generate, Generated, Finish, Fail
<1>6. ASSUME BeginCycle \/ UNCHANGED vars PROVE UNCHANGED <<queue, rows>>
  BY <1>6 DEF BeginCycle, vars
<1>7. CASE \E r \in Responses : Enqueue(r)
  BY <1>7, <1>1 DEF Stored
<1>8. CASE \E t \in Threads : BulkCreate(t)
  BY <1>8, <1>2 DEF TypeOK
<1>9. CASE UNCHANGED <<queue, rows>>
  BY <1>9, <1>3
<1> QED
  BY <1>4, <1>5, <1>6, <1>7, <1>8, <1>9 DEF Next, PassStep

\* What holds of a thread that does not move survives the steps of the others.
LEMMA OthersKeep ==
  ASSUME TypeOK, PassInv, [Next]_vars, NEW t \in Threads,
         pass'[t] = pass[t], owed'[t] = owed[t]
  PROVE  PassOK(t)'
<1>1. TypeOK'
  BY TypeStep
<1>2. ASSUME NEW r \in owed[t], Covered(t, r) PROVE Covered(t, r)'
  <2>1. CASE r \in pass[t].logs
    BY <2>1 DEF Covered
  <2>2. CASE \E i \in 1..Len(queue) : i > pass[t].pos /\ queue[i] = r
    <3>1. PICK i \in 1..Len(queue) : i > pass[t].pos /\ queue[i] = r
      BY <2>2
    <3>2. i \in 1..Len(queue') /\ queue'[i] = r
      <4>1. Len(queue) \in Nat /\ Len(queue') \in Nat
        BY <1>1 DEF TypeOK
      <4> QED BY <3>1, <4>1, Growth
    <3> QED BY <3>1, <3>2 DEF Covered
  <2> QED BY <1>2, <2>1, <2>2 DEF Covered
<1> QED
  BY <1>2, Growth DEF PassInv, PassOK

\* PassInv is preserved: the thread that moves keeps its own part.
LEMMA PassStepInv == TypeOK /\ PassInv /\ [Next]_vars => PassInv'
<1> SUFFICES ASSUME TypeOK, PassInv, [Next]_vars PROVE PassInv'
  OBVIOUS
<1> SUFFICES ASSUME NEW t \in Threads PROVE PassOK(t)'
  BY DEF PassInv
<1> SUFFICES /\ pass'[t].pc = "idle"     => pass'[t].pos = 0
             /\ pass'[t].pc = "generate" => \A r \in owed'[t] : Covered(t, r)'
             /\ pass'[t].pc = "bulk"     => owed'[t] \subseteq pass'[t].logs
             /\ pass'[t].pc = "finish"   => owed'[t] \subseteq Stored'
  BY DEF PassOK
<1> DEFINE Kept == pass'[t] = pass[t] /\ owed'[t] = owed[t]
<1>1. CASE Kept
  BY <1>1, OthersKeep DEF PassOK
<1>2. ASSUME NEW u \in Threads, Begin(u), UNCHANGED queue, u = t
      PROVE  /\ pass'[t].pc = "generate"
             /\ \A r \in owed'[t] : Covered(t, r)'
  <2>1. pass'[t].pc = "generate" /\ pass'[t].pos = 0 /\ owed'[t] = Queued
    BY <1>2 DEF Begin, TypeOK, PassInv, PassOK
  <2>2. ASSUME NEW r \in Queued PROVE Covered(t, r)'
    <3>1. PICK i \in 1..Len(queue) : queue[i] = r
      BY DEF Queued
    <3> QED BY <1>2, <2>1, <3>1 DEF Covered
  <2> QED BY <2>1, <2>2
<1>3. ASSUME Stop(t) PROVE pass'[t].pc = "idle" /\ pass'[t].pos = 0
  BY <1>3 DEF Stop, Idle, TypeOK
<1>4. CASE Generate(t)
  <2>1. /\ pass'[t].pc = "generate" /\ pass'[t].pos = pass[t].pos + 1
        /\ pass'[t].logs = pass[t].logs \cup {queue[pass[t].pos + 1]}
        /\ queue' = queue /\ owed' = owed
    BY <1>4 DEF Generate, TypeOK
  <2>2. ASSUME NEW r \in owed[t] PROVE Covered(t, r)'
    <3>1. Covered(t, r)
      BY <1>4 DEF Generate, PassInv, PassOK
    <3>2. ASSUME NEW i \in 1..Len(queue), i > pass[t].pos, queue[i] = r PROVE Covered(t, r)'
      <4>1. pass[t].pos \in Nat
        BY DEF TypeOK
      <4>2. CASE i = pass[t].pos + 1
        BY <2>1, <3>2, <4>2 DEF Covered
      <4>3. CASE i > pass[t].pos + 1
        BY <2>1, <3>2, <4>3 DEF Covered
      <4> QED BY <3>2, <4>1, <4>2, <4>3
    <3> QED BY <2>1, <3>1, <3>2 DEF Covered
  <2> QED BY <2>1, <2>2
<1>5. CASE Generated(t)
  <2>1. CASE pass[t].logs = {}
    BY <1>3, <1>5, <2>1 DEF Generated
  <2>2. CASE pass[t].logs # {}
    <3>1. /\ pass'[t].pc = "bulk" /\ pass'[t].logs = pass[t].logs /\ owed' = owed
      BY <1>5, <2>2 DEF Generated, TypeOK
    <3>2. owed[t] \subseteq pass[t].logs
      BY <1>5 DEF Generated, PassInv, PassOK, Covered, TypeOK
    <3> QED BY <3>1, <3>2
  <2> QED BY <2>1, <2>2
<1>6. CASE BulkCreate(t)
  <2>1. pass'[t].pc = "finish" /\ owed' = owed
    BY <1>6 DEF BulkCreate, TypeOK
  <2>2. owed[t] \subseteq pass[t].logs
    BY <1>6 DEF BulkCreate, PassInv, PassOK
  <2>3. pass[t].logs \subseteq Stored'
    BY SMTT(40), <1>6 DEF BulkCreate, TypeOK, Stored, Many
  <2> QED BY <2>1, <2>2, <2>3
<1>7. ASSUME NEW u \in Threads, u # t, Stop(u) PROVE Kept
  BY <1>7 DEF Stop, TypeOK
<1>8. ASSUME NEW u \in Threads, u # t, Begin(u) PROVE Kept
  BY <1>8 DEF Begin, TypeOK
<1>9. ASSUME NEW u \in Threads, u # t, PassStep(u) \/ Fail(u) PROVE Kept
  <2>1. CASE Generate(u) \/ BulkCreate(u)
    BY <1>9, <2>1 DEF Generate, BulkCreate, TypeOK
  <2>2. CASE Generated(u)
    BY <1>9, <2>2, <1>7 DEF Generated, TypeOK
  <2>3. CASE Finish(u) \/ Fail(u)
    BY <1>9, <2>3, <1>7 DEF Finish, Fail
  <2> QED BY <1>9, <2>1, <2>2, <2>3 DEF PassStep
<1>10. CASE PassStep(t) \/ Fail(t)
  <2>1. CASE Finish(t) \/ Fail(t)
    BY <2>1, <1>3 DEF Finish, Fail
  <2> QED BY <1>10, <2>1, <1>4, <1>5, <1>6 DEF PassStep
<1>11. CASE \E r \in Responses : Enqueue(r)
  BY <1>11, <1>1 DEF Enqueue
<1>12. CASE \E r \in Responses : CheckBacklog(r)
  <2>1. CASE UNCHANGED <<pass, owed>>
    BY <2>1, <1>1
  <2>2. CASE \E u \in Flushers : Begin(u) /\ UNCHANGED queue
    BY <2>2, <1>1, <1>2, <1>8 DEF Threads
  <2> QED BY <1>12, <2>1, <2>2 DEF CheckBacklog
<1>13. CASE BeginCycle
  BY <1>13, <1>1, <1>2, <1>8 DEF BeginCycle, Threads
<1>14. CASE UNCHANGED vars
  BY <1>14, <1>1 DEF vars
<1> QED
  BY <1>1, <1>9, <1>10, <1>11, <1>12, <1>13, <1>14 DEF Next

\* Every variable keeps its type: a pass holds only responses of the queue.
THEOREM TypeCorrect == Spec => []TypeOK
  BY TypeInitial, TypeStep, PTL DEF Spec

\* The inductive invariant of the passes.
THEOREM PassInvariant == Spec => []Inv
<1>1. Init => Inv
  BY TypeInitial DEF Init, Inv, PassInv, PassOK, Idle
<1>2. Inv /\ [Next]_vars => Inv'
  BY TypeStep, PassStepInv DEF Inv
<1> QED
  BY <1>1, <1>2, PTL DEF Spec

\* A pass that ends without an exception has stored everything that was in the
\* queue when it began, whatever the passes beside it did.
THEOREM PassesCoverTheQueue == Spec => PassCoversQueue
<1>1. Inv => [\A t \in Threads : Finish(t) => owed[t] \subseteq Stored]_vars
  BY DEF Inv, PassInv, PassOK, Finish
<1> QED
  BY <1>1, PassInvariant, PTL DEF PassCoversQueue

HIDE QueueAssumption
-----------------------------------------------------------------------------
(***************************************************************************)
(* Proofs about KeyLock, for any set of lockers and any finite set of      *)
(* keys: what a locker got stays locked for it until its timeout, so that  *)
(* two bodies hold the same key only after an expiry, and never without a  *)
(* lock_timeout.                                                           *)
(***************************************************************************)

USE LockAssumption

Places == [pc: {"out", "acquire", "body"}, scope: Seq(LockKeys), block: BOOLEAN,
           targets: SUBSET LockKeys]

\* A locker that is outside has nothing, one that is inside has entered; what
\* expired under a locker is forgotten when it leaves, and only timed locks expire.
OutsideHasNothing ==
  \A c \in Lockers :
    /\ Is(c, "out")  => locker[c].at.targets = {} /\ \A k \in LockKeys : <<c, k>> \notin lost
    /\ ~Is(c, "out") => locker[c].entries \in 1..MaxEnters

LockInv ==
  /\ LockTypeOK
  /\ OutsideHasNothing
  /\ ~Timed => lost = {}
  /\ TargetsAreLocked
-----------------------------------------------------------------------------
\* The keys of a with statement are a sequence, and there is at least one.
LEMMA ScopesType == ASSUME NEW scope \in Scopes PROVE scope \in Seq(LockKeys) /\ scope # << >>
  <1>1. Cardinality(LockKeys) \in Nat
    BY FS_CardinalityType
  <1>2. PICK n \in 1..Cardinality(LockKeys) : scope \in [1..n -> LockKeys]
    BY DEF Scopes
  <1>3. n \in Nat \ {0}
    BY <1>1, <1>2
  <1> QED
    BY <1>2, <1>3

\* Being done with a key is the one step to the next key or into the body.
LEMMA DoneType ==
  ASSUME NEW place \in Places, place.scope # << >>, NEW got \in SUBSET LockKeys
  PROVE  /\ Done(place, got) \in Places
         /\ Done(place, got).targets = place.targets \cup got
         /\ Done(place, got).pc \in {"acquire", "body"}
         /\ Done(place, got).pc = "acquire" <=> Done(place, got).scope # << >>
         /\ Head(place.scope) \in LockKeys
  <1> DEFINE s == place.scope
  <1>1. s \in Seq(LockKeys) /\ s # << >>
    BY DEF Places
  <1> HIDE DEF s
  <1>2. Head(s) \in LockKeys /\ Tail(s) \in Seq(LockKeys) /\ Len(Tail(s)) = Len(s) - 1
    BY <1>1
  <1>3. Len(s) = 1 <=> Tail(s) = << >>
    <2>1. Tail(s) # << >> => Len(Tail(s)) \in Nat \ {0}
      BY <1>2, EmptySeq
    <2>2. ASSUME Tail(s) = << >> PROVE Len(Tail(s)) = 0
      <3>1. Len(<< >>) = 0
        BY EmptySeq
      <3> QED
        BY <2>2, <3>1, Zenon
    <2>3. Len(s) \in Nat
      BY <1>1
    <2> HIDE DEF s
    <2>4. Len(Tail(s)) = 0 <=> Len(s) = 1
      BY <1>2, <2>3
    <2> QED
      BY <2>1, <2>2, <2>4
  <1> QED
    BY <1>1, <1>2, <1>3 DEF Done, Places, s

\* What it means for lockers to be typed, by their places.
LEMMA LockTypeByPlace ==
  LockTypeOK <=>
    /\ lease \in [LockKeys -> {NoToken} \cup (Lockers \X (1..MaxEnters))]
    /\ locker \in [Lockers -> [entries: 0..MaxEnters, at: Places]]
    /\ \A c \in Lockers : Is(c, "acquire") <=> locker[c].at.scope # << >>
    /\ lost \subseteq Lockers \X LockKeys
  BY DEF LockTypeOK, Places

\* Nobody is inside at first (the cache is empty).
LEMMA LockInitInv == LockInit => LockInv
  <1> SUFFICES ASSUME LockInit PROVE LockInv
    OBVIOUS
  <1>1. Outside \in Places
    BY DEF Outside, Places
  <1>2. LockTypeOK
    BY <1>1, LockTypeByPlace DEF LockInit, Is, Outside
  <1> QED
    BY <1>2 DEF LockInit, LockInv, OutsideHasNothing, TargetsAreLocked, Is, Outside

\* A locker that goes to a typed place keeps the lockers typed; the others stay.
LEMMA Moved ==
  ASSUME LockTypeOK, NEW c \in Lockers, NEW place \in Places, NEW n \in 0..MaxEnters,
         place.pc = "acquire" <=> place.scope # << >>,
         locker' = [locker EXCEPT ![c] = [entries |-> n, at |-> place]]
  PROVE  /\ locker' \in [Lockers -> [entries: 0..MaxEnters, at: Places]]
         /\ \A d \in Lockers : Is(d, "acquire")' <=> locker'[d].at.scope # << >>
         /\ locker'[c].at = place /\ locker'[c].entries = n
         /\ \A d \in Lockers \ {c} : locker'[d] = locker[d]
  <1>1. [entries |-> n, at |-> place] \in [entries: 0..MaxEnters, at: Places]
    OBVIOUS
  <1>2. locker \in [Lockers -> [entries: 0..MaxEnters, at: Places]]
    BY LockTypeByPlace
  <1>3. locker' \in [Lockers -> [entries: 0..MaxEnters, at: Places]]
    BY <1>1, <1>2
  <1>4. locker'[c] = [entries |-> n, at |-> place] /\ \A d \in Lockers \ {c} : locker'[d] = locker[d]
    BY <1>2
  <1>5. \A d \in Lockers : Is(d, "acquire") <=> locker[d].at.scope # << >>
    BY LockTypeByPlace
  <1> QED
    BY <1>3, <1>4, <1>5 DEF Is

\* Changing only the place of a locker is going there with the same entries.
LEMMA SameEntries ==
  ASSUME LockTypeOK, NEW c \in Lockers, NEW place, locker' = [locker EXCEPT ![c].at = place]
  PROVE  /\ locker' = [locker EXCEPT ![c] = [entries |-> locker[c].entries, at |-> place]]
         /\ locker[c].entries \in 0..MaxEnters
  <1>1. locker[c] \in [entries: 0..MaxEnters, at: Places]
    BY LockTypeByPlace
  <1>2. [locker[c] EXCEPT !.at = place] = [entries |-> locker[c].entries, at |-> place]
    BY <1>1
  <1>3. locker' = [locker EXCEPT ![c] = [locker[c] EXCEPT !.at = place]]
    OBVIOUS
  <1> QED
    BY <1>1, <1>2, <1>3

\* Every step of the lockers, the server and the clock keeps the invariant.
LEMMA LockStepInv == ASSUME LockInv, [LockNext]_lockVars PROVE LockInv'
  <1> USE DEF LockInv
  <1>p. /\ lease \in [LockKeys -> {NoToken} \cup (Lockers \X (1..MaxEnters))]
        /\ lost \subseteq Lockers \X LockKeys
        /\ \A c \in Lockers : /\ locker[c].at \in Places /\ locker[c].entries \in 0..MaxEnters
                              /\ locker[c].at.targets \in SUBSET LockKeys
    BY LockTypeByPlace DEF Places
  <1>o. Outside \in Places /\ Outside.pc = "out" /\ Outside.targets = {} /\ Outside.scope = << >>
    BY DEF Outside, Places
  <1>1. ASSUME NEW c \in Lockers, NEW scope \in Scopes, NEW block \in BOOLEAN,
               Enter(c, scope, block)
        PROVE  LockInv'
    <2> DEFINE place == [pc |-> "acquire", scope |-> scope, block |-> block, targets |-> {}]
               n == locker[c].entries + 1
    <2>1. place \in Places /\ place.pc = "acquire" /\ place.scope # << >> /\ place.targets = {}
      BY ScopesType DEF Places
    <2>2. n \in 1..MaxEnters /\ n \in 0..MaxEnters
      BY <1>1, <1>p DEF Enter
    <2>3. locker' = [locker EXCEPT ![c] = [entries |-> n, at |-> place]]
      BY <1>1 DEF Enter
    <2>4. Is(c, "out") /\ UNCHANGED <<lease, lost>>
      BY <1>1 DEF Enter
    <2> HIDE DEF place, n
    <2>5. /\ locker' \in [Lockers -> [entries: 0..MaxEnters, at: Places]]
          /\ \A d \in Lockers : Is(d, "acquire")' <=> locker'[d].at.scope # << >>
          /\ locker'[c].at = place /\ locker'[c].entries = n
          /\ \A d \in Lockers \ {c} : locker'[d] = locker[d]
      BY <2>1, <2>2, <2>3, Moved
    <2>6. LockTypeOK'
      BY <1>p, <2>4, <2>5, LockTypeByPlace DEF LockTypeOK, Places
    <2>7. OutsideHasNothing' /\ (~Timed => lost' = {})
      BY <2>1, <2>2, <2>4, <2>5 DEF OutsideHasNothing, Is
    <2>8. TargetsAreLocked'
      BY <2>1, <2>4, <2>5 DEF TargetsAreLocked, Token
    <2> QED
      BY <2>6, <2>7, <2>8
  <1>2. ASSUME NEW c \in Lockers, Acquire(c) PROVE LockInv'
    <2> DEFINE k == Head(locker[c].at.scope)
               place == Done(locker[c].at, {k})
               n == locker[c].entries
    <2>1. Is(c, "acquire") /\ locker[c].at.scope # << >> /\ n \in 1..MaxEnters
      BY <1>2 DEF Acquire, LockTypeOK, OutsideHasNothing, Is
    <2>2. k \in LockKeys
      BY <1>p, <2>1, DoneType
    <2>3. /\ place \in Places /\ place.targets = locker[c].at.targets \cup {k}
          /\ place.pc \in {"acquire", "body"} /\ (place.pc = "acquire" <=> place.scope # << >>)
      BY <1>p, <2>1, <2>2, DoneType
    <2>4. /\ locker' = [locker EXCEPT ![c] = [entries |-> n, at |-> place]]
          /\ n \in 0..MaxEnters
      BY <1>2, SameEntries DEF Acquire
    <2>5. lease[k] = NoToken /\ lease' = [lease EXCEPT ![k] = <<c, n>>] /\ lost' = lost
      BY <1>2 DEF Acquire, Token
    <2> HIDE DEF k, place, n
    <2>6. /\ locker' \in [Lockers -> [entries: 0..MaxEnters, at: Places]]
          /\ \A d \in Lockers : Is(d, "acquire")' <=> locker'[d].at.scope # << >>
          /\ locker'[c].at = place /\ locker'[c].entries = n
          /\ \A d \in Lockers \ {c} : locker'[d] = locker[d]
      BY <2>3, <2>4, Moved
    <2>7. lease' \in [LockKeys -> {NoToken} \cup (Lockers \X (1..MaxEnters))]
      BY <1>p, <2>1, <2>5
    <2>8. LockTypeOK'
      BY <1>p, <2>5, <2>6, <2>7 DEF LockTypeOK, Places
    <2>9. OutsideHasNothing' /\ (~Timed => lost' = {})
      BY <2>1, <2>3, <2>5, <2>6 DEF OutsideHasNothing, Is
    <2>10. ASSUME NEW d \in Lockers, NEW l \in LockKeys, l \in locker'[d].at.targets
           PROVE  lease'[l] = Token(d)' \/ <<d, l>> \in lost'
      <3>1. CASE l = k /\ d = c
        BY <1>p, <2>2, <2>5, <2>6, <3>1 DEF Token
      <3>2. CASE ~(l = k /\ d = c)
        <4>1. l \in locker[d].at.targets /\ Token(d)' = Token(d)
          BY <2>3, <2>6, <2>10, <3>2 DEF Token, n
        <4>2. lease[l] = Token(d) \/ <<d, l>> \in lost
          BY <4>1 DEF TargetsAreLocked
        <4>3. lease[l] = Token(d) /\ <<d, l>> \notin lost => l # k
          <5>1. ~Is(d, "out")
            BY <4>1 DEF OutsideHasNothing
          <5>2. Token(d) # NoToken
            BY <5>1 DEF OutsideHasNothing, Token, NoToken
          <5> QED
            BY <2>5, <5>2
        <4> QED
          BY <1>p, <2>2, <2>5, <4>1, <4>2, <4>3
      <3> QED
        BY <3>1, <3>2
    <2>11. TargetsAreLocked'
      BY <2>10 DEF TargetsAreLocked
    <2> QED
      BY <2>8, <2>9, <2>11
  <1>3. ASSUME NEW c \in Lockers, Skip(c) PROVE LockInv'
    <2> DEFINE place == Done(locker[c].at, {})
               n == locker[c].entries
    <2>1. Is(c, "acquire") /\ locker[c].at.scope # << >> /\ n \in 1..MaxEnters
      BY <1>3 DEF Skip, LockTypeOK, OutsideHasNothing, Is
    <2>2. /\ place \in Places /\ place.targets = locker[c].at.targets
          /\ place.pc \in {"acquire", "body"} /\ (place.pc = "acquire" <=> place.scope # << >>)
      <3>1. {} \in SUBSET LockKeys /\ locker[c].at.targets \cup {} = locker[c].at.targets
        OBVIOUS
      <3> QED
        BY <1>p, <2>1, <3>1, DoneType
    <2>3. /\ locker' = [locker EXCEPT ![c] = [entries |-> n, at |-> place]]
          /\ n \in 0..MaxEnters
      BY <1>3, SameEntries DEF Skip
    <2>4. UNCHANGED <<lease, lost>>
      BY <1>3 DEF Skip
    <2> HIDE DEF place, n
    <2>5. /\ locker' \in [Lockers -> [entries: 0..MaxEnters, at: Places]]
          /\ \A d \in Lockers : Is(d, "acquire")' <=> locker'[d].at.scope # << >>
          /\ locker'[c].at = place /\ locker'[c].entries = n
          /\ \A d \in Lockers \ {c} : locker'[d] = locker[d]
      BY <2>2, <2>3, Moved
    <2>6. LockTypeOK'
      BY <1>p, <2>4, <2>5 DEF LockTypeOK, Places
    <2>7. OutsideHasNothing' /\ (~Timed => lost' = {})
      BY <2>1, <2>2, <2>4, <2>5 DEF OutsideHasNothing, Is
    <2>8. TargetsAreLocked'
      BY <2>2, <2>4, <2>5 DEF TargetsAreLocked, Token, n
    <2> QED
      BY <2>6, <2>7, <2>8
  <1>4. ASSUME NEW c \in Lockers, locker' = [locker EXCEPT ![c].at = Outside],
               lost' = {t \in lost : t[1] # c},
               lease' \in [LockKeys -> {NoToken} \cup (Lockers \X (1..MaxEnters))],
               \A d \in Lockers \ {c}, k \in LockKeys : lease[k] = Token(d) => lease'[k] = lease[k]
        PROVE  LockInv'
    <2>1. /\ locker' = [locker EXCEPT ![c] = [entries |-> locker[c].entries, at |-> Outside]]
          /\ locker[c].entries \in 0..MaxEnters
      BY <1>4, SameEntries
    <2>2. /\ locker' \in [Lockers -> [entries: 0..MaxEnters, at: Places]]
          /\ \A d \in Lockers : Is(d, "acquire")' <=> locker'[d].at.scope # << >>
          /\ locker'[c].at = Outside
          /\ \A d \in Lockers \ {c} : locker'[d] = locker[d]
      BY <1>o, <2>1, Moved
    <2>3. LockTypeOK'
      BY <1>p, <1>4, <2>2 DEF LockTypeOK, Places
    <2>4. OutsideHasNothing' /\ (~Timed => lost' = {})
      <3>1. \A k \in LockKeys : <<c, k>> \notin lost'
        BY <1>4
      <3>2. lost' \subseteq lost
        BY <1>4
      <3> QED
        BY <1>o, <2>2, <3>1, <3>2 DEF OutsideHasNothing, Is
    <2>5. ASSUME NEW d \in Lockers, NEW k \in LockKeys, k \in locker'[d].at.targets
          PROVE  lease'[k] = Token(d)' \/ <<d, k>> \in lost'
      <3>1. d # c /\ k \in locker[d].at.targets /\ Token(d)' = Token(d)
        BY <1>o, <2>2, <2>5 DEF Token
      <3>2. lease[k] = Token(d) \/ <<d, k>> \in lost
        BY <3>1 DEF TargetsAreLocked
      <3>3. <<d, k>> \in lost => <<d, k>> \in lost'
        BY <1>4, <3>1
      <3> QED
        BY <1>4, <3>1, <3>2, <3>3
    <2> QED
      BY <2>3, <2>4, <2>5 DEF TargetsAreLocked
  <1>5. ASSUME NEW c \in Lockers, TooLate(c) PROVE LockInv'
    BY <1>p, <1>4, <1>5 DEF TooLate
  <1>6. ASSUME NEW c \in Lockers, Leave(c) PROVE LockInv'
    <2>1. lease' \in [LockKeys -> {NoToken} \cup (Lockers \X (1..MaxEnters))]
      BY <1>p, <1>6 DEF Leave
    <2>2. ASSUME NEW d \in Lockers \ {c}, NEW k \in LockKeys, lease[k] = Token(d)
          PROVE  lease'[k] = lease[k]
      <3>1. ~Mine(c, k)
        BY <2>2 DEF Mine, Token
      <3> QED
        BY <1>6, <3>1 DEF Leave
    <2> QED
      BY <1>4, <1>6, <2>1, <2>2 DEF Leave
  <1>7. ASSUME NEW k \in LockKeys, Expire(k) PROVE LockInv'
    <2>1. /\ Timed /\ lease[k] # NoToken /\ lease' = [lease EXCEPT ![k] = NoToken]
          /\ locker' = locker /\ lost \subseteq lost'
          /\ \A t \in lost' \ lost : t = <<lease[k][1], k>> /\ \E c \in Lockers : Mine(c, k) /\ ~Is(c, "out")
      BY <1>7 DEF Expire
    <2>2. lease' \in [LockKeys -> {NoToken} \cup (Lockers \X (1..MaxEnters))]
      BY <1>p, <2>1
    <2>3. \A t \in lost' \ lost : \E c \in Lockers : t = <<c, k>> /\ ~Is(c, "out")
      BY <2>1 DEF Mine, Token
    <2>4. lost' \subseteq Lockers \X LockKeys
      BY <1>p, <2>3
    <2>5. LockTypeOK'
      BY <2>1, <2>2, <2>4 DEF LockTypeOK, Is
    <2>6. OutsideHasNothing' /\ (~Timed => lost' = {})
      BY <2>1, <2>3 DEF OutsideHasNothing, Is
    <2>7. ASSUME NEW d \in Lockers, NEW l \in LockKeys, l \in locker'[d].at.targets
          PROVE  lease'[l] = Token(d)' \/ <<d, l>> \in lost'
      <3>1. (lease[l] = Token(d) \/ <<d, l>> \in lost) /\ Token(d)' = Token(d)
        BY <2>1, <2>7 DEF TargetsAreLocked, Token
      <3>2. CASE l # k
        BY <1>p, <2>1, <3>1, <3>2
      <3>3. CASE l = k /\ lease[k] = Token(d)
        <4>1. Mine(d, k) /\ ~Is(d, "out") /\ lease[k][1] = d
          BY <2>1, <2>7, <3>3 DEF Mine, Token, OutsideHasNothing
        <4> QED
          BY <1>7, <3>3, <4>1 DEF Expire
      <3> QED
        BY <2>1, <3>1, <3>2, <3>3
    <2> QED
      BY <2>5, <2>6, <2>7 DEF TargetsAreLocked
  <1>8. CASE UNCHANGED lockVars
    BY <1>8 DEF lockVars, LockTypeOK, OutsideHasNothing, TargetsAreLocked, Is, Token
  <1> QED
    BY <1>1, <1>2, <1>3, <1>5, <1>6, <1>7, <1>8 DEF LockNext

\* The invariant holds in every reachable state.
LEMMA LockInvariant == LockSpec => []LockInv
  <1>1. LockInit => LockInv
    BY LockInitInv
  <1>2. LockInv /\ [LockNext]_lockVars => LockInv'
    BY LockStepInv
  <1> QED
    BY <1>1, <1>2, PTL DEF LockSpec

\* The state has its type.
THEOREM LockTypes == LockSpec => []LockTypeOK
  <1>1. LockInv => LockTypeOK
    BY DEF LockInv
  <1> QED
    BY <1>1, LockInvariant, PTL

\* What a locker got is locked for it until its timeout (RedisLock.__enter__,
\* __exit__ and the expiry of redis).
THEOREM TargetsStayLocked == LockSpec => []TargetsAreLocked
  <1>1. LockInv => TargetsAreLocked
    BY DEF LockInv
  <1> QED
    BY <1>1, LockInvariant, PTL

\* Two lockers have the same key only if the lock of one of them expired; so never
\* without a lock_timeout.
NeverBoth ==
  \A c, d \in Lockers, k \in LockKeys :
     c # d /\ k \in locker[c].at.targets \cap locker[d].at.targets
       => Timed /\ {<<c, k>>, <<d, k>>} \cap lost # {}

\* The locks exclude each other as far as the timeout lets them.
THEOREM MutualExclusion == LockSpec => []NeverBoth
  <1>1. ASSUME LockInv, NEW c \in Lockers, NEW d \in Lockers, NEW k \in LockKeys, c # d,
               k \in locker[c].at.targets, k \in locker[d].at.targets
        PROVE  Timed /\ {<<c, k>>, <<d, k>>} \cap lost # {}
    <2>1. Token(c) # Token(d)
      BY <1>1 DEF Token
    <2>2. <<c, k>> \in lost \/ <<d, k>> \in lost
      BY <1>1, <2>1 DEF LockInv, TargetsAreLocked
    <2> QED
      BY <1>1, <2>2 DEF LockInv
  <1>2. LockInv => NeverBoth
    BY <1>1 DEF NeverBoth
  <1> QED
    BY <1>2, LockInvariant, PTL
HIDE LockAssumption
-----------------------------------------------------------------------------
(***************************************************************************)
(* Proofs about RetryChain, for any number of layers, any place of the     *)
(* RetryPlugin among them and any of its options: how often the server is  *)
(* reached, until when a call lasts, and what a Retry-After in seconds is  *)
(* worth.                                                                  *)
(***************************************************************************)

USE ChainAssumption

R == RetryLayer
-----------------------------------------------------------------------------
(* Types *)

\* An element of retry_interval is a number of ticks.
LEMMA IntervalType ==
  ASSUME ChainTypeOK PROVE Interval \in Nat
  <1> DEFINE s == plugin.retry_interval
             i == ctx.retry_index + 1
  <1>1. s \in Seq(Nat) /\ i \in Nat \ {0}
    BY DEF ChainTypeOK, PluginType
  <1> HIDE DEF s, i
  <1>2. ASSUME s # << >> PROVE s[Least(Len(s), i)] \in Nat
    <2>1. Len(s) \in Nat \ {0}
      BY <1>1, <1>2, EmptySeq
    <2>2. Least(Len(s), i) \in 1..Len(s)
      BY <1>1, <2>1 DEF Least
    <2> QED
      BY <1>1, <2>2, ElementOfSeq
  <1> QED
    BY <1>2 DEF Interval, s, i

\* retry_delta_ratio takes off, or adds, no more than there is.
LEMMA DeltaFacts ==
  ASSUME ChainTypeOK, NEW n \in Nat PROVE Delta(n) \in 0..n
  <1> DEFINE x == plugin.retry_delta_ratio * n
  <1>1. plugin.retry_delta_ratio \in 0..100
    BY DEF ChainTypeOK, PluginType
  <1>2. x \in Nat /\ x <= 100 * n
    BY <1>1
  <1> HIDE DEF x
  <1>3. x \div 100 \in 0..n
    BY <1>2
  <1> QED
    BY <1>3 DEF Delta, x

\* What a wait may become: an integer, and for a natural number one not shorter by more
\* than Delta.
LEMMA SpreadFacts ==
  ASSUME ChainTypeOK, NEW n \in Int, NEW w \in Spread(n)
  PROVE  w \in Int /\ (n \in Nat => w \in Nat /\ w >= n - Delta(n)) /\ (n = 0 => w = 0)
  <1>1. Gap(0, n) \in Nat /\ (n \in Nat => Gap(0, n) = n)
    BY DEF Gap
  <1>2. Delta(Gap(0, n)) \in 0..Gap(0, n)
    BY <1>1, DeltaFacts
  <1>3. w \in (n - Delta(Gap(0, n)))..(n + Delta(Gap(0, n)))
    BY DEF Spread
  <1>4. w \in Int /\ (n \in Nat => Delta(n) \in 0..n /\ w \in (n - Delta(n))..(n + Delta(n)))
    BY <1>1, <1>2, <1>3
  <1> QED
    BY <1>4

\* What a layer makes of its loop keeps the types.
LEMMA LoopType ==
  ASSUME ChainTypeOK, NEW l \in Layers, NEW r \in Answers
  PROVE  /\ Return(l, r) => at' \in 0..(N + 1) /\ phase' = "response"
                            /\ loop' \in [Layers -> 0..(MaxLoops - 1)] /\ result' \in Answers
         /\ Raise(l, r) => at' \in 0..(N + 1) /\ phase' = "error"
                           /\ loop' \in [Layers -> 0..(MaxLoops - 1)] /\ result' \in Answers
         /\ Catch(l, r) => at' = l /\ phase' = "error"
                           /\ loop' \in [Layers -> 0..(MaxLoops - 1)] /\ result' \in Answers
         /\ CallInner(l) => at' \in 0..(N + 1) /\ phase' = "request"
                            /\ loop' \in [Layers -> 0..(MaxLoops - 1)] /\ result' \in Answers
         /\ Again(l) => at' \in 0..(N + 1) /\ phase' \in {"request", "error"}
                        /\ loop' \in [Layers -> 0..(MaxLoops - 1)] /\ result' \in Answers
  <1>1. /\ l \in 1..N /\ l + 1 \in 0..(N + 1) /\ l - 1 \in 0..(N + 1)
        /\ loop \in [Layers -> 0..(MaxLoops - 1)] /\ result \in Answers
        /\ 0 \in 0..(MaxLoops - 1)
    BY DEF ChainTypeOK, Layers
  <1>2. Plain("ok") \in Answers /\ Plain("MaxRetriesExceed") \in Answers
    BY DEF Plain, Answers, Exceptions
  <1>3. ASSUME NEW ph, NEW x \in Answers, LeaveLayer(l, ph, x)
        PROVE  at' = l + 1 /\ phase' = ph /\ result' \in Answers
               /\ loop' \in [Layers -> 0..(MaxLoops - 1)]
    BY <1>1, <1>3 DEF LeaveLayer
  <1>4. CallInner(l) => loop' \in [Layers -> 0..(MaxLoops - 1)]
    BY <1>1 DEF CallInner, Layers
  <1>5. ASSUME Again(l)
        PROVE  at' \in 0..(N + 1) /\ phase' \in {"request", "error"}
               /\ loop' \in [Layers -> 0..(MaxLoops - 1)] /\ result' \in Answers
    <2>1. CASE loop[l] + 1 >= MaxLoops
      BY <1>1, <1>2, <1>3, <1>5, <2>1 DEF Again, Raise
    <2>2. CASE ~(loop[l] + 1 >= MaxLoops)
      <3>1. loop[l] \in 0..(MaxLoops - 1) /\ loop[l] + 1 \in 0..(MaxLoops - 1)
        BY <1>1, <2>2 DEF Layers
      <3> QED
        BY <1>1, <1>2, <1>5, <2>2, <3>1 DEF Again
    <2> QED
      BY <2>1, <2>2
  <1> QED
    BY <1>1, <1>3, <1>4, <1>5 DEF Return, Raise, Catch, CallInner

\* The types hold when a call begins.
LEMMA ChainInitType == ChainInit => ChainTypeOK
  <1> SUFFICES ASSUME ChainInit PROVE ChainTypeOK
    OBVIOUS
  <1>1. plugin \in PluginType /\ 0 \in 0..(MaxLoops - 1) /\ N \in 0..(N + 1)
    BY DEF ChainInit
  <1>2. Plain("ok") \in Answers
    BY DEF Plain, Answers
  <1> QED
    BY <1>1, <1>2 DEF ChainInit, ChainTypeOK, Layers

\* A step of any layer keeps the types.
LEMMA ChainStepType == ASSUME ChainTypeOK, [ChainNext]_chainVars PROVE ChainTypeOK'
  <1>t. /\ plugin \in PluginType /\ idempotent \in BOOLEAN /\ at \in 0..(N + 1)
        /\ loop \in [Layers -> 0..(MaxLoops - 1)] /\ result \in Answers /\ answered \in Answers
        /\ ctx \in [retry_index: 0..(MaxLoops - 1), timeout: {NoTimeout} \cup Nat]
        /\ now \in 0..MaxTime /\ sends \in Nat /\ notBefore \in Nat
    BY DEF ChainTypeOK
  <1>p. \A w \in {"ok", "bad"} \cup Exceptions : Plain(w) \in Answers
    BY DEF Plain, Answers
  <1>c. \A l \in Layers : Published(l) \in [retry_index: 0..(MaxLoops - 1), timeout: {NoTimeout} \cup Nat]
    BY <1>t DEF Published
  <1>d. ASSUME NEW l \in Layers, NEW r \in Answers, NEW w \in Spread(Wait(r)), NEW keep, NEW late,
               Decide(l, r, w, keep, late)
        PROVE  now' \in 0..MaxTime
    <2>1. Wait(r) \in Int
      BY IntervalType DEF Wait, Answers
    <2>2. Slept(w) \in Nat
      BY <2>1, SpreadFacts DEF Slept
    <2> QED
      BY <1>d, <1>t, <2>2 DEF Decide
  <1>1. ASSUME NEW l \in Layers, HookRequest(l) PROVE ChainTypeOK'
    <2>1. /\ ctx' \in [retry_index: 0..(MaxLoops - 1), timeout: {NoTimeout} \cup Nat]
          /\ UNCHANGED <<plugin, idempotent, now, sends, answered, notBefore>>
      BY <1>1, <1>c DEF HookRequest, opts, seen
    <2>2. CASE CallInner(l)
      BY <1>t, <2>1, <2>2, LoopType DEF ChainTypeOK
    <2>3. ASSUME NEW w \in {"ok", "bad"}, at' = l, phase' = "response", result' = Plain(w), UNCHANGED loop
          PROVE  ChainTypeOK'
      BY <1>t, <1>p, <2>1, <2>3 DEF ChainTypeOK, Layers
    <2>4. CASE Catch(l, Failure)
      BY <1>t, <1>p, <2>1, <2>4, LoopType DEF ChainTypeOK, Failure, Exceptions, Layers
    <2> QED
      BY <1>1, <2>2, <2>3, <2>4 DEF HookRequest
  <1>2. ASSUME NEW l \in Layers, HookResponse(l) PROVE ChainTypeOK'
    <2>1. UNCHANGED <<plugin, idempotent, ctx, now, sends, answered, notBefore>>
      BY <1>2 DEF HookResponse, opts, seen
    <2>2. Return(l, result) \/ Again(l) \/ Catch(l, Failure)
      BY <1>2 DEF HookResponse
    <2>3. at' \in 0..(N + 1) /\ phase' \in {"request", "response", "error"}
          /\ loop' \in [Layers -> 0..(MaxLoops - 1)] /\ result' \in Answers
      BY <1>t, <1>p, <2>2, LoopType DEF Failure, Exceptions, Layers
    <2> QED
      BY <1>t, <2>1, <2>3 DEF ChainTypeOK
  <1>3. ASSUME NEW l \in Layers, HookError(l) PROVE ChainTypeOK'
    <2>1. UNCHANGED <<plugin, idempotent, ctx, now, sends, answered, notBefore>>
      BY <1>3 DEF HookError, opts, seen
    <2>2. Raise(l, result) \/ Raise(l, Failure) \/ Return(l, Plain("ok")) \/ Again(l)
      BY <1>3 DEF HookError
    <2>3. at' \in 0..(N + 1) /\ phase' \in {"request", "response", "error"}
          /\ loop' \in [Layers -> 0..(MaxLoops - 1)] /\ result' \in Answers
      BY <1>t, <1>p, <2>2, LoopType DEF Failure, Exceptions
    <2> QED
      BY <1>t, <2>1, <2>3 DEF ChainTypeOK
  <1>4. ASSUME NEW l \in Layers, RetryRequest(l) PROVE ChainTypeOK'
    <2>1. UNCHANGED <<plugin, idempotent, now, sends, answered, notBefore>>
      BY <1>4 DEF RetryRequest, opts, seen
    <2>2. NextTimeouts \subseteq {NoTimeout} \cup Nat
      <3>1. \A to \in Spread(plugin.retry_timeout) : to \in Nat
        BY SpreadFacts DEF ChainTypeOK, PluginType
      <3> QED
        BY <1>t, <3>1 DEF NextTimeouts, Gap, Limit, PluginType
    <2>3. ctx' \in [retry_index: 0..(MaxLoops - 1), timeout: {NoTimeout} \cup Nat]
      BY <1>4, <1>c, <2>2 DEF RetryRequest
    <2>4. \/ CallInner(l)
          \/ Catch(l, Plain("MaxRetriesExceed")) \/ Catch(l, Plain("MaxRetriesTimeoutExceed"))
      BY <1>4 DEF RetryRequest
    <2>5. at' \in 0..(N + 1) /\ phase' \in {"request", "response", "error"}
          /\ loop' \in [Layers -> 0..(MaxLoops - 1)] /\ result' \in Answers
      BY <1>t, <1>p, <2>4, LoopType DEF Exceptions, Layers
    <2> QED
      BY <1>t, <2>1, <2>3, <2>5 DEF ChainTypeOK
  <1>5. ASSUME NEW l \in Layers, RetryResponse(l) PROVE ChainTypeOK'
    <2>1. UNCHANGED <<plugin, idempotent, ctx, sends, answered, notBefore>>
      BY <1>5 DEF RetryResponse, opts, seen
    <2>2. now' \in 0..MaxTime
      <3>1. Read(result) \in Answers
        BY <1>t DEF Read, Plain, Answers
      <3> QED
        BY <1>5, <1>d, <1>t, <3>1 DEF RetryResponse
    <2>3. \/ Return(l, result) \/ Again(l)
          \/ Catch(l, Plain("ValueError")) \/ Catch(l, Plain("MaxRetriesTimeoutExceed"))
      BY <1>5 DEF RetryResponse, Decide
    <2>4. at' \in 0..(N + 1) /\ phase' \in {"request", "response", "error"}
          /\ loop' \in [Layers -> 0..(MaxLoops - 1)] /\ result' \in Answers
      BY <1>t, <1>p, <2>3, LoopType DEF Exceptions, Layers
    <2> QED
      BY <1>t, <2>1, <2>2, <2>4 DEF ChainTypeOK
  <1>6. ASSUME NEW l \in Layers, RetryError(l) PROVE ChainTypeOK'
    <2>1. UNCHANGED <<plugin, idempotent, ctx, sends, answered, notBefore>>
      BY <1>6 DEF RetryError, opts, seen
    <2>2. Plain(result.what) \in Answers
      BY <1>t DEF Plain, Answers
    <2>3. now' \in 0..MaxTime
      BY <1>6, <1>d, <2>2 DEF RetryError
    <2>4. Raise(l, result) \/ Again(l) \/ Raise(l, Plain("MaxRetriesTimeoutExceed"))
      BY <1>6 DEF RetryError, Decide
    <2>5. at' \in 0..(N + 1) /\ phase' \in {"request", "response", "error"}
          /\ loop' \in [Layers -> 0..(MaxLoops - 1)] /\ result' \in Answers
      BY <1>t, <1>p, <2>4, LoopType DEF Exceptions
    <2> QED
      BY <1>t, <2>1, <2>3, <2>5 DEF ChainTypeOK
  <1>7. ASSUME Send PROVE ChainTypeOK'
    <2>1. Patience \in Int /\ 1 \in 0..(N + 1)
      BY <1>t DEF Patience, Least, NoTimeout
    <2>2. PICK d \in 0..Patience, w \in {"ok", "bad", "failure"}, f \in Headers, k \in 0..MaxAfter :
            /\ now + d <= MaxTime
            /\ result' = [what |-> w, form |-> f, after |-> k]
            /\ now' = now + d /\ answered' = result' /\ notBefore' = now' + k - Delta(k)
            /\ phase' = IF w = "failure" THEN "error" ELSE "response"
      BY <1>7 DEF Send
    <2>3. result' \in Answers
      BY <2>2 DEF Answers, Headers, Exceptions
    <2>4. now' \in 0..MaxTime /\ notBefore' \in Nat
      BY <1>t, <2>1, <2>2, DeltaFacts
    <2>5. UNCHANGED <<plugin, idempotent, loop, ctx>> /\ at' = 1 /\ sends' = sends + 1
      BY <1>7 DEF Send, opts
    <2> QED
      BY <1>t, <2>1, <2>2, <2>3, <2>4, <2>5 DEF ChainTypeOK
  <1>8. CASE UNCHANGED chainVars
    BY <1>8 DEF chainVars, ChainTypeOK
  <1> QED
    BY <1>1, <1>2, <1>3, <1>4, <1>5, <1>6, <1>7, <1>8 DEF ChainNext, Step, ChainDone

\* Every state is typed.
THEOREM ChainTypes == ChainSpec => []ChainTypeOK
  BY ChainInitType, ChainStepType, PTL DEF ChainSpec
-----------------------------------------------------------------------------
(* A step of a layer is one of four moves: it calls the layer inside, it   *)
(* keeps the call and turns to an answer or an error, it hands one of      *)
(* these to the layer outside, or it starts its loop again.                *)

\* The sleep of the RetryPlugin ends before the limit of the whole call.
Sleeps(l) ==
  /\ now' >= now
  /\ now' > now => l = R /\ phase # "request" /\ (Limit # 0 => now' <= Limit)

Descends(l) ==
  /\ at = l /\ phase = "request" /\ CallInner(l)
  /\ now' = now
  /\ l # R => ctx'.timeout = ctx.timeout
  /\ l = R => /\ loop[l] < plugin.max_retries
              /\ ~TimeIsUp(loop[l], now)
              /\ ctx'.timeout \in NextTimeouts

Stays(l) ==
  /\ at = l /\ at' = l /\ phase' \in {"response", "error"} /\ UNCHANGED loop
  /\ Sleeps(l)
  /\ l = R => /\ phase' = "error"
              /\ \/ result'.what \in GivenUp
                 \/ phase = "response" /\ result.form = "date" /\ result.what \notin GivenUp

Leaves(l) ==
  /\ at = l /\ at' = l + 1 /\ phase' \in {"response", "error"}
  /\ phase # "request"
  /\ loop' = [loop EXCEPT ![l] = 0]
  /\ Sleeps(l)

Repeatable == plugin.retry_on_idempotent_only => idempotent

\* The seconds of a header, less what retry_delta_ratio may take off.
Due(r) == r.after - Delta(r.after)

Repeats(l) ==
  /\ at = l /\ at' = l /\ phase # "request" /\ phase' = "request"
  /\ loop[l] + 1 < MaxLoops /\ loop' = [loop EXCEPT ![l] = @ + 1]
  /\ Sleeps(l)
  /\ l # R => plugin.hooks_retry
  /\ l = R => /\ Repeatable /\ result.what \notin GivenUp
              /\ phase = "response" /\ plugin.retry_after_headers /\ result.form = "seconds"
                   => now' >= now + Due(result)

Move(l) == /\ Descends(l) \/ Stays(l) \/ Leaves(l) \/ Repeats(l)
           /\ UNCHANGED <<opts, seen>>

\* To ask for a retry starts the loop again, or gives up at the loop limit.
LEMMA AgainMoves ==
  ASSUME ChainTypeOK, NEW l \in Layers, at = l, phase # "request", Again(l), Sleeps(l),
         l # R => plugin.hooks_retry,
         l = R => /\ Repeatable /\ result.what \notin GivenUp
                  /\ phase = "response" /\ plugin.retry_after_headers /\ result.form = "seconds"
                       => now' >= now + Due(result)
  PROVE  Leaves(l) \/ Repeats(l)
  <1>1. loop[l] \in Int /\ MaxLoops \in Int
    BY DEF ChainTypeOK
  <1>2. CASE loop[l] + 1 >= MaxLoops
    BY <1>2 DEF Again, Raise, LeaveLayer, Leaves
  <1>3. CASE ~(loop[l] + 1 >= MaxLoops)
    BY <1>1, <1>3 DEF Again, Repeats
  <1> QED
    BY <1>2, <1>3

\* What the RetryPlugin decides is to keep what it got, or to sleep in time.
LEMMA DecideMoves ==
  ASSUME ChainTypeOK, NEW l \in Layers, NEW r \in Answers, NEW w \in Spread(Wait(r)),
         NEW keep, NEW late, Decide(l, r, w, keep, late), l = R, phase # "request"
  PROVE  /\ Sleeps(l)
         /\ \/ keep
            \/ late
            \/ /\ Again(l) /\ Repeatable /\ r.what \notin GivenUp
               /\ r.form = "seconds" => now' >= now + Due(r)
  <1>1. Interval \in Nat /\ now \in Nat /\ Limit \in Nat /\ r.after \in Nat
    BY IntervalType DEF ChainTypeOK, Limit, PluginType, Answers
  <1>w. Wait(r) \in Int
    BY <1>1 DEF Wait
  <1>2. w \in Int /\ Slept(w) \in Nat /\ (Wait(r) = 0 => w = 0)
    BY <1>w, SpreadFacts DEF Slept
  <1>3. CASE (~MayRetry(r) \/ CannotWait(r, w)) /\ keep /\ UNCHANGED now
    BY <1>1, <1>3 DEF Sleeps
  <1>4. CASE /\ MayRetry(r) /\ ~CannotWait(r, w) /\ now' = now + Slept(w)
             /\ IF TimeIsUp(ctx.retry_index, now') THEN late ELSE Again(l)
    <2>1. Repeatable /\ r.what \notin GivenUp
      BY <1>4 DEF MayRetry, WhetherRetry, Repeatable
    <2>2. ASSUME r.form = "seconds" PROVE now' >= now + Due(r)
      <3>1. Wait(r) \in Nat /\ (r.after > 0 => Wait(r) = r.after)
        BY <1>1, <2>2 DEF Wait
      <3>2. w \in Nat /\ w >= Wait(r) - Delta(Wait(r)) /\ Slept(w) = w
        BY <3>1, SpreadFacts DEF Slept
      <3>3. Delta(r.after) \in 0..r.after
        BY <1>1, DeltaFacts
      <3>4. CASE r.after > 0
        BY <1>1, <1>4, <3>1, <3>2, <3>3, <3>4 DEF Due
      <3>5. CASE r.after = 0
        BY <1>1, <1>4, <3>2, <3>3, <3>5 DEF Due
      <3> QED
        BY <1>1, <3>4, <3>5
    <2>3. ASSUME now' > now, Limit # 0 PROVE now' <= Limit
      <3>1. w > 0 /\ Slept(w) = w
        BY <1>1, <1>2, <1>4, <2>3 DEF Slept
      <3>2. ~(r.after = 0 /\ plugin.retry_interval = << >>)
        BY <1>1, <1>2, <3>1 DEF Wait, Interval
      <3>3. now + w <= Limit
        BY <1>1, <1>2, <1>4, <2>3, <3>2 DEF CannotWait, Unlimited
      <3> QED
        BY <1>4, <3>1, <3>3
    <2>4. Sleeps(l)
      BY <1>1, <1>2, <1>4, <2>3 DEF Sleeps
    <2> QED
      BY <1>4, <2>1, <2>2, <2>4
  <1> QED
    BY <1>3, <1>4 DEF Decide

\* Every step of a layer is one of the moves.
LEMMA StepMoves == ASSUME ChainTypeOK, NEW l \in Layers, Step(l) PROVE Move(l)
  <1>t. /\ now \in Nat /\ l \in Nat /\ result \in Answers
        /\ loop \in [Layers -> 0..(MaxLoops - 1)] /\ plugin.max_retries \in Nat
    BY DEF ChainTypeOK, Layers, PluginType
  <1>s. UNCHANGED now => Sleeps(l)
    BY <1>t DEF Sleeps
  <1>g. Plain("MaxRetriesExceed").what \in GivenUp /\ Plain("MaxRetriesTimeoutExceed").what \in GivenUp
    BY DEF Plain, GivenUp
  <1>1. CASE HookRequest(l)
    <2>1. ctx'.timeout = ctx.timeout /\ UNCHANGED <<opts, seen>> /\ at = l /\ phase = "request" /\ l # R
      BY <1>1, <1>t DEF HookRequest, Published, R, ChainTypeOK
    <2>2. UNCHANGED now
      BY <1>1 DEF HookRequest
    <2>3. CallInner(l) => Descends(l)
      BY <2>1, <2>2 DEF Descends
    <2>4. ~CallInner(l) => Stays(l)
      BY <1>1, <1>s, <2>1, <2>2 DEF HookRequest, Catch, Stays
    <2> QED
      BY <2>1, <2>3, <2>4 DEF Move
  <1>2. CASE HookResponse(l)
    <2>1. UNCHANGED <<opts, seen>> /\ at = l /\ phase = "response" /\ l # R /\ Sleeps(l)
      BY <1>2, <1>s DEF HookResponse, R
    <2>2. Return(l, result) => Leaves(l)
      BY <2>1 DEF Return, LeaveLayer, Leaves
    <2>3. Catch(l, Failure) => Stays(l)
      BY <2>1 DEF Catch, Stays
    <2>4. plugin.hooks_retry /\ Again(l) => Leaves(l) \/ Repeats(l)
      BY <2>1, AgainMoves
    <2> QED
      BY <1>2, <2>1, <2>2, <2>3, <2>4 DEF Move, HookResponse
  <1>3. CASE HookError(l)
    <2>1. UNCHANGED <<opts, seen>> /\ at = l /\ phase = "error" /\ l # R /\ Sleeps(l)
      BY <1>3, <1>s DEF HookError, R
    <2>2. Raise(l, result) \/ Raise(l, Failure) \/ Return(l, Plain("ok")) => Leaves(l)
      BY <2>1 DEF Return, Raise, LeaveLayer, Leaves
    <2>3. plugin.hooks_retry /\ Again(l) => Leaves(l) \/ Repeats(l)
      BY <2>1, AgainMoves
    <2> QED
      BY <1>3, <2>1, <2>2, <2>3 DEF Move, HookError
  <1>4. CASE RetryRequest(l)
    <2>1. UNCHANGED <<opts, seen>> /\ at = l /\ phase = "request" /\ l = R /\ UNCHANGED now
      BY <1>4 DEF RetryRequest, R
    <2>2. Catch(l, Plain("MaxRetriesExceed")) \/ Catch(l, Plain("MaxRetriesTimeoutExceed")) => Stays(l)
      BY <1>s, <1>g, <2>1 DEF Catch, Stays
    <2>3. ASSUME ~OutOfRetries(l), ~TimeIsUp(loop[l], now),
                 NEW to \in NextTimeouts, ctx' = [Published(l) EXCEPT !.timeout = to], CallInner(l)
          PROVE  Descends(l)
      <3>1. ctx'.timeout = to
        BY <2>3 DEF Published, ChainTypeOK
      <3>2. loop[l] < plugin.max_retries
        BY <1>t, <2>3 DEF OutOfRetries
      <3> QED
        BY <2>1, <2>3, <3>1, <3>2 DEF Descends
    <2> QED
      BY <1>4, <2>1, <2>2, <2>3 DEF Move, RetryRequest
  <1>5. CASE RetryResponse(l)
    <2>1. UNCHANGED <<opts, seen>> /\ at = l /\ phase = "response" /\ l = R
      BY <1>5 DEF RetryResponse, R
    <2> DEFINE r == Read(result)
    <2>2. /\ r \in Answers /\ r.what = result.what
          /\ r.form = "date" => result.form = "date"
          /\ plugin.retry_after_headers => r = result
      BY <1>t DEF Read, Plain, Answers
    <2>3. PICK w \in Spread(Wait(r)) :
            \/ MayRetry(r) /\ HeaderFails(r, w) /\ Catch(l, Plain("ValueError")) /\ UNCHANGED now
            \/ Decide(l, r, w, Return(l, result), Catch(l, Plain("MaxRetriesTimeoutExceed")))
      BY <1>5 DEF RetryResponse
    <2> HIDE DEF r
    <2>4. CASE MayRetry(r) /\ HeaderFails(r, w) /\ Catch(l, Plain("ValueError")) /\ UNCHANGED now
      BY <1>s, <2>1, <2>2, <2>4 DEF Catch, Stays, HeaderFails, MayRetry, Move
    <2>5. CASE Decide(l, r, w, Return(l, result), Catch(l, Plain("MaxRetriesTimeoutExceed")))
      <3>1. Sleeps(l) /\ \/ Return(l, result)
                         \/ Catch(l, Plain("MaxRetriesTimeoutExceed"))
                         \/ /\ Again(l) /\ Repeatable /\ r.what \notin GivenUp
                            /\ r.form = "seconds" => now' >= now + Due(r)
        BY <1>t, <2>1, <2>2, <2>5, DecideMoves
      <3>2. Return(l, result) => Leaves(l)
        BY <2>1, <3>1 DEF Return, LeaveLayer, Leaves
      <3>3. Catch(l, Plain("MaxRetriesTimeoutExceed")) => Stays(l)
        BY <1>g, <2>1, <3>1 DEF Catch, Stays
      <3> QED
        BY <2>1, <2>2, <3>1, <3>2, <3>3, AgainMoves DEF Move
    <2> QED
      BY <2>3, <2>4, <2>5
  <1>6. CASE RetryError(l)
    <2> DEFINE r == Plain(result.what)
    <2>1. UNCHANGED <<opts, seen>> /\ at = l /\ phase = "error" /\ l = R
      BY <1>6 DEF RetryError, R
    <2>2. r \in Answers /\ r.what = result.what
      BY <1>t DEF Plain, Answers
    <2>3. PICK w \in Spread(Wait(r)) :
            Decide(l, r, w, Raise(l, result), Raise(l, Plain("MaxRetriesTimeoutExceed")))
      BY <1>6 DEF RetryError
    <2> HIDE DEF r
    <2>4. Sleeps(l) /\ \/ Raise(l, result)
                       \/ Raise(l, Plain("MaxRetriesTimeoutExceed"))
                       \/ Again(l) /\ Repeatable /\ r.what \notin GivenUp
      BY <2>1, <2>2, <2>3, DecideMoves
    <2>5. Raise(l, result) \/ Raise(l, Plain("MaxRetriesTimeoutExceed")) => Leaves(l)
      BY <2>1, <2>4 DEF Raise, LeaveLayer, Leaves
    <2> QED
      BY <2>1, <2>2, <2>4, <2>5, AgainMoves DEF Move
  <1> QED
    BY <1>1, <1>2, <1>3, <1>4, <1>5, <1>6 DEF Step
-----------------------------------------------------------------------------
(* How often the server is reached *)

\* How often layer l calls the layer inside, at most, in one of its loops.
Tries ==
  LET m == Least(plugin.max_retries, MaxLoops) IN IF Repeatable THEN m ELSE Least(1, m)
Loops(l) == IF l = R THEN Tries ELSE IF plugin.hooks_retry THEN MaxLoops ELSE 1

\* How often the server is reached in one loop of layer l; the transport is layer 0.
Rounds(n) == IF plugin.hooks_retry THEN Nested[n] ELSE 1
Most(l)   == IF l < R THEN Rounds(l) ELSE Tries * Rounds(l - 1)

MayLoop(l) == IF l = R THEN Repeatable ELSE plugin.hooks_retry

\* No index exceeds these, and the layers that wait for an inner one may still count it.
LoopsFit ==
  /\ \A l \in Layers : ~MayLoop(l) => loop[l] = 0
  /\ \A l \in Layers : loop[l] <= Loops(l) /\ (at < l => loop[l] + 1 <= Loops(l))
  /\ at \in Layers /\ phase # "request" =>
       loop[at] + 1 <= Loops(at) \/ (at = R /\ result.what \in GivenUp)
  /\ at = 0 => phase = "request"

\* had[l]: a bound of what the server had received when the loop of layer l began.
Counted(had) ==
  /\ \A l \in Layers : at <= l => had[l] + Most(l) <= Most(N)
  /\ \A l \in Layers : at < l /\ l > 1 => had[l - 1] <= had[l] + loop[l] * Most(l - 1)
  /\ at = 0 => sends <= had[1] + loop[1]
  /\ at \in Layers /\ phase = "request" => sends <= had[at] + loop[at] * Most(at - 1)
  /\ at \in Layers /\ phase # "request" => /\ sends <= had[at] + Most(at)
                                           /\ sends <= had[at] + (loop[at] + 1) * Most(at - 1)
  /\ sends <= Most(N)

SendInv == LoopsFit /\ \E had \in [Layers -> Nat] : Counted(had)
-----------------------------------------------------------------------------
\* Induction over the natural numbers, for a set of them.
LEMMA Induction ==
  ASSUME NEW S \in SUBSET Nat, 0 \in S, \A n \in Nat : n \in S => n + 1 \in S
  PROVE  S = Nat
  <1> DEFINE Below == OpToRel(<, Nat)
  <1>1. IsWellFoundedOn(Below, Nat)
    BY NatLessThanWellFounded DEF Below
  <1>2. \A m, n \in Nat : <<m, n>> \in Below <=> m < n
    BY DEF Below, OpToRel
  <1> HIDE DEF Below
  <1>3. SUFFICES ASSUME Nat \ S # {} PROVE FALSE
    OBVIOUS
  <1>4. PICK x \in Nat \ S : \A y \in Nat \ S : <<y, x>> \notin Below
    BY <1>1, <1>3, WFMin
  <1>5. x \in Nat /\ x # 0 /\ x - 1 \in Nat /\ x - 1 < x
    BY <1>4
  <1>6. x - 1 \in S
    BY <1>2, <1>4, <1>5
  <1>7. (x - 1) + 1 \in S
    BY <1>5, <1>6
  <1> QED
    BY <1>4, <1>5, <1>7

\* The loops around one another multiply: the recursive function is what it says.
LEMMA NestedDef == \A n \in Nat : Nested[n] = IF n = 0 THEN 1 ELSE MaxLoops * Nested[n - 1]
  <1> DEFINE Upto(n, g) == /\ g \in [0..n -> Nat] /\ g[0] = 1
                           /\ \A i \in 0..(n - 1) : g[i + 1] = MaxLoops * g[i]
             S == {n \in Nat : \E g : Upto(n, g)}
             T == {i \in Nat : \A p, q \in Nat : \A g, h :
                     i <= p /\ i <= q /\ Upto(p, g) /\ Upto(q, h) => g[i] = h[i]}
  <1>1. S = Nat
    <2>1. Upto(0, [i \in 0..0 |-> 1])
      OBVIOUS
    <2>2. ASSUME NEW n \in Nat, NEW g, Upto(n, g) PROVE \E h : Upto(n + 1, h)
      <3> DEFINE h == [i \in 0..(n + 1) |-> IF i = n + 1 THEN MaxLoops * g[n] ELSE g[i]]
      <3>1. g \in [0..n -> Nat] /\ MaxLoops * g[n] \in Nat
        BY <2>2
      <3>2. h \in [0..(n + 1) -> Nat] /\ h[0] = 1
        BY <2>2, <3>1
      <3>3. \A i \in 0..n : h[i + 1] = MaxLoops * h[i]
        BY <2>2, <3>1
      <3> HIDE DEF h
      <3>4. Upto(n + 1, h)
        BY <3>2, <3>3
      <3> QED
        BY <3>4, Zenon
    <2> HIDE DEF Upto
    <2>3. 0 \in S /\ \A n \in Nat : n \in S => n + 1 \in S
      BY <2>1, <2>2
    <2> HIDE DEF S
    <2> QED
      BY <2>3, Induction DEF S
  <1>2. T = Nat
    <2>1. 0 \in T
      OBVIOUS
    <2> HIDE DEF Upto
    <2>2. ASSUME NEW i \in Nat, i \in T,
                 NEW p \in Nat, NEW q \in Nat, NEW g, NEW h,
                 i + 1 <= p, i + 1 <= q, Upto(p, g), Upto(q, h)
          PROVE  g[i + 1] = h[i + 1]
      <3>1. g[i] = h[i]
        <4>1. i <= p /\ i <= q
          BY <2>2
        <4> QED
          BY <2>2, <4>1
      <3>2. i \in 0..(p - 1) /\ i \in 0..(q - 1)
        BY <2>2
      <3> QED
        BY <2>2, <3>1, <3>2 DEF Upto
    <2>3. ASSUME NEW i \in Nat, i \in T PROVE i + 1 \in T
      BY <2>2, <2>3
    <2> HIDE DEF T
    <2> QED
      BY <2>1, <2>3, Induction DEF T
  <1> DEFINE G(n) == CHOOSE g : Upto(n, g)
             f == [n \in Nat |-> G(n)[n]]
  <1>3. \A n \in Nat : Upto(n, G(n))
    BY <1>1
  <1> HIDE DEF G
  <1>4. ASSUME NEW n \in Nat PROVE f[n] = IF n = 0 THEN 1 ELSE MaxLoops * f[n - 1]
    <2>1. CASE n = 0
      BY <2>1, <1>3
    <2>2. CASE n # 0
      <3>1. n - 1 \in Nat /\ n - 1 \in 0..(n - 1) /\ (n - 1) + 1 = n
        BY <2>2
      <3>2. G(n)[n] = MaxLoops * G(n)[n - 1]
        BY <1>3, <3>1
      <3>3. G(n)[n - 1] = G(n - 1)[n - 1]
        <4> HIDE DEF Upto
        <4> QED
          BY SMTT(40), <1>2, <1>3, <3>1
      <3> QED
        BY <2>2, <3>1, <3>2, <3>3
    <2> QED
      BY <2>1, <2>2
  <1>5. f = [n \in Nat |-> IF n = 0 THEN 1 ELSE MaxLoops * f[n - 1]]
    BY <1>4
  <1> HIDE DEF f
  <1>6. Nested = [n \in Nat |-> IF n = 0 THEN 1 ELSE MaxLoops * Nested[n - 1]]
    BY <1>5 DEF Nested
  <1> QED
    BY <1>6

\* A nesting of loops sends a number of times, by induction over the layers.
LEMMA NestedNat == \A n \in Nat : Nested[n] \in Nat
  <1> DEFINE S == {n \in Nat : Nested[n] \in Nat}
  <1>1. 0 \in S
    BY NestedDef
  <1>2. ASSUME NEW n \in Nat, n \in S PROVE n + 1 \in S
    <2>1. Nested[n + 1] = MaxLoops * Nested[n]
      BY NestedDef
    <2> QED
      BY <1>2, <2>1
  <1> HIDE DEF S
  <1>3. S = Nat
    BY <1>1, <1>2, Induction DEF S
  <1> QED
    BY <1>3 DEF S

(* Until when the call lasts *)

\* Before the RetryPlugin no time has passed, at its retries it may be late, and
\* what it lets through has the time that is left.
TimeInv ==
  Limit # 0 /\ ~plugin.hooks_retry =>
    /\ now <= Limit + Overshoot
    /\ phase = "request" /\ (at > R \/ (at = R /\ loop[R] = 0)) => now = 0
    /\ phase = "request" /\ at < R => now <= Limit /\ ctx.timeout \in 0..(Limit - now)

(* What a Retry-After is worth *)

Dated == answered.form = "seconds"

\* A request on its way respects the last answer, when the plugin reads the header; the
\* answer the plugin looks at is the last one, and an error is not one that asked to wait.
HeaderInv ==
  Direct /\ plugin.retry_after_headers =>
    /\ phase = "request" /\ Dated => now >= notBefore
    /\ at = 1 /\ phase = "response" => result = answered /\ notBefore <= now + Due(answered)
    /\ at = 1 /\ phase = "error" => result.what \in GivenUp \/ ~Dated

ChainInv == ChainTypeOK /\ SendInv /\ TimeInv /\ HeaderInv
-----------------------------------------------------------------------------
\* How often a layer is entered at most: as often as the one outside, times its loops.
LEMMA MostFacts ==
  ASSUME ChainTypeOK
  PROVE  /\ Tries \in Nat /\ \A l \in Layers : Loops(l) \in Nat
         /\ Most(0) = 1 /\ \A l \in 0..N : Most(l) \in Nat
         /\ \A l \in Layers : Most(l) = Loops(l) * Most(l - 1)
         /\ Most(N) = Tries * (IF plugin.hooks_retry THEN Nested[N - 1] ELSE 1)
  <1>1. /\ R \in 1..N /\ plugin.max_retries \in Nat /\ plugin.hooks_retry \in BOOLEAN
        /\ N \in Nat \ {0} /\ MaxLoops \in Nat \ {0}
    BY DEF ChainTypeOK, PluginType, R, RetryLayer, Layers
  <1>2. Tries \in Nat
    BY <1>1 DEF Tries, Least
  <1>3. \A n \in Nat : Nested[n] \in Nat
    BY NestedNat
  <1>4. \A n \in Nat : Rounds(n) \in Nat
    BY <1>3 DEF Rounds
  <1>5. Rounds(0) = 1
    BY NestedDef DEF Rounds
  <1>6. ASSUME NEW n \in Nat, n # 0
        PROVE  Rounds(n) = (IF plugin.hooks_retry THEN MaxLoops ELSE 1) * Rounds(n - 1)
    BY <1>1, <1>6, NestedDef DEF Rounds
  <1>7. ASSUME NEW l \in 0..N PROVE Most(l) \in Nat
    <2>1. CASE l < R
      BY <1>4, <2>1 DEF Most
    <2>2. CASE ~(l < R)
      <3>1. l - 1 \in Nat
        BY <1>1, <2>2
      <3>2. Rounds(l - 1) \in Nat
        BY <1>4, <3>1
      <3>3. Tries * Rounds(l - 1) \in Nat
        BY <1>2, <3>2
      <3> QED
        BY <2>2, <3>3 DEF Most
    <2> QED
      BY <2>1, <2>2
  <1>8. ASSUME NEW l \in Layers PROVE Most(l) = Loops(l) * Most(l - 1)
    <2>1. l \in Nat /\ l # 0 /\ l - 1 \in Nat
      BY DEF Layers
    <2>2. CASE l < R
      <3>1. Most(l) = Rounds(l) /\ Most(l - 1) = Rounds(l - 1)
        BY <1>1, <2>1, <2>2 DEF Most
      <3> QED
        BY <1>1, <1>6, <2>1, <2>2, <3>1 DEF Loops
    <2>3. CASE l = R
      <3>1. Most(l) = Tries * Rounds(l - 1) /\ Most(l - 1) = Rounds(l - 1)
        BY <1>1, <2>1, <2>3 DEF Most
      <3> QED
        BY <2>3, <3>1 DEF Loops
    <2>4. CASE l > R
      <3> DEFINE m == IF plugin.hooks_retry THEN MaxLoops ELSE 1
                 x == Rounds(l - 2)
      <3>1. l - 1 \in Nat \ {0} /\ (l - 1) - 1 = l - 2 /\ l - 2 \in Nat
        BY <1>1, <2>1, <2>4
      <3>2. x \in Nat /\ m \in Nat
        BY <1>1, <1>4, <3>1
      <3>3. Rounds(l - 1) = m * x
        BY <1>6, <3>1
      <3>4. Most(l) = Tries * Rounds(l - 1) /\ Most(l - 1) = Tries * x /\ Loops(l) = m
        BY <1>1, <2>1, <2>4, <3>1 DEF Most, Loops
      <3> HIDE DEF x, m
      <3> QED
        BY <1>2, <3>2, <3>3, <3>4
    <2> QED
      BY <1>1, <2>1, <2>2, <2>3, <2>4
  <1>9. \A l \in Layers : Loops(l) \in Nat
    BY <1>1, <1>2 DEF Loops
  <1>10. Most(0) = 1
    BY <1>1, <1>5 DEF Most
  <1>11. Most(N) = Tries * (IF plugin.hooks_retry THEN Nested[N - 1] ELSE 1)
    <2>1. CASE N < R
      BY <1>1, <2>1
    <2>2. CASE ~(N < R)
      BY <2>2 DEF Most, Rounds
    <2> QED
      BY <2>1, <2>2
  <1> QED
    BY <1>2, <1>7, <1>8, <1>9, <1>10, <1>11

\* Counting one loop more: what was received before it and in it.
LEMMA OneMore ==
  ASSUME NEW n \in Nat, NEW m \in Nat, NEW x \in Nat, NEW most \in Nat, most = m * x
  PROVE  /\ (n + 1) * x = n * x + x /\ n * x \in Nat
         /\ n + 1 <= m => n * x + x <= most
         /\ n <= m => n * x <= most
         /\ 0 * x = 0
  <1>1. ASSUME NEW a \in Nat, a <= m PROVE a * x <= m * x
    <2>1. PICK d \in Nat : m = a + d
      <3>1. m - a \in Nat /\ m = a + (m - a)
        BY <1>1
      <3> QED
        BY <3>1
    <2>2. m * x = a * x + d * x /\ d * x \in Nat /\ a * x \in Nat
      BY <2>1
    <2> HIDE <2>1
    <2> QED
      BY <2>2
  <1>2. (n + 1) * x = n * x + x /\ n * x \in Nat
    OBVIOUS
  <1> QED
    BY <1>1, <1>2

\* The bounds depend on the options alone.
LEMMA SameBounds ==
  ASSUME UNCHANGED opts
  PROVE  R' = R /\ Tries' = Tries /\ \A l : Loops(l)' = Loops(l) /\ Most(l)' = Most(l)
  BY DEF opts, R, RetryLayer, Tries, Repeatable, Loops, Most, Rounds

\* A layer loops only while it may.
LEMMA LoopsFitStep ==
  ASSUME ChainTypeOK, LoopsFit, ChainTypeOK', NEW l \in Layers, Move(l)
  PROVE  LoopsFit'
  <1>t. /\ l \in 1..N /\ at = l /\ MaxLoops \in Nat \ {0} /\ R \in 1..N
        /\ loop \in [Layers -> Nat] /\ plugin.max_retries \in Nat
        /\ \A k \in Layers : loop[k] < MaxLoops
        /\ R' = R /\ \A k \in Layers : Loops(k)' = Loops(k) /\ Loops(k) \in Nat
        /\ \A k \in Layers : MayLoop(k)' = MayLoop(k)
    <2>1. UNCHANGED opts /\ at = l
      BY DEF Move, Descends, Stays, Leaves, Repeats
    <2>2. R' = R /\ \A k \in Layers : Loops(k)' = Loops(k) /\ Loops(k) \in Nat
      BY <2>1, SameBounds, MostFacts
    <2>3. \A k \in Layers : MayLoop(k)' = MayLoop(k)
      BY <2>1 DEF MayLoop, Repeatable, opts, R, RetryLayer
    <2>4. /\ l \in 1..N /\ MaxLoops \in Nat \ {0} /\ R \in 1..N
          /\ plugin.max_retries \in Nat /\ loop \in [Layers -> 0..(MaxLoops - 1)]
      BY DEF ChainTypeOK, Layers, R, RetryLayer, PluginType
    <2> QED
      BY <2>1, <2>2, <2>3, <2>4
  <1>f. /\ \A k \in Layers : /\ loop[k] <= Loops(k) /\ (l < k => loop[k] + 1 <= Loops(k))
                             /\ ~MayLoop(k) => loop[k] = 0
        /\ phase # "request" => loop[l] + 1 <= Loops(l) \/ (l = R /\ result.what \in GivenUp)
    BY <1>t DEF LoopsFit
  <1>o. l # R => loop[l] + 1 <= Loops(l)
    BY <1>f, <1>t DEF MayLoop, Loops
  <1>1. CASE Descends(l)
    <2>1. at' = l - 1 /\ phase' = "request" /\ loop' = IF l > 1 THEN [loop EXCEPT ![l - 1] = 0] ELSE loop
      BY <1>1 DEF Descends, CallInner
    <2>2. loop[l] + 1 <= Loops(l)
      <3>1. CASE l = R
        <4>1. loop[l] < plugin.max_retries /\ loop[l] < MaxLoops
          BY <1>1, <1>t, <3>1 DEF Descends
        <4>2. ~Repeatable => loop[l] = 0
          BY <1>f, <3>1 DEF MayLoop
        <4> QED
          BY <1>t, <3>1, <4>1, <4>2 DEF Loops, Tries, Least
      <3> QED
        BY <1>o, <3>1
    <2>3. \A k \in Layers : /\ loop'[k] \in {loop[k], 0}
                            /\ k # l - 1 => loop'[k] = loop[k]
      BY <1>t, <2>1
    <2> QED
      BY SMTT(40), <1>f, <1>t, <2>1, <2>2, <2>3 DEF LoopsFit, Layers
  <1>2. CASE Stays(l)
    <2>1. at' = l /\ phase' # "request" /\ loop' = loop
      BY <1>2 DEF Stays
    <2>2. l = R => result'.what \in GivenUp \/ loop[l] + 1 <= Loops(l)
      BY <1>2, <1>f DEF Stays
    <2> QED
      BY <1>f, <1>o, <1>t, <2>1, <2>2 DEF LoopsFit
  <1>3. CASE Leaves(l)
    <2>1. at' = l + 1 /\ phase' # "request" /\ loop' = [loop EXCEPT ![l] = 0]
      BY <1>3 DEF Leaves
    <2>2. \A k \in Layers : /\ loop'[k] \in {loop[k], 0}
                            /\ k # l => loop'[k] = loop[k]
      BY <1>t, <2>1
    <2>3. \A k \in Layers : l < k => loop'[k] + 1 <= Loops(k)
      BY <1>f, <1>t, <2>2
    <2>4. \A k \in Layers : loop'[k] <= Loops(k) /\ (~MayLoop(k) => loop'[k] = 0)
      BY <1>f, <1>t, <2>2
    <2>5. at' \in Layers => l < at'
      BY <1>t, <2>1
    <2>6. at' # 0 /\ \A k \in Layers : at' < k => l < k
      BY <1>t, <2>1 DEF Layers
    <2> QED
      BY <1>t, <2>1, <2>3, <2>4, <2>5, <2>6 DEF LoopsFit
  <1>4. CASE Repeats(l)
    <2>1. at' = l /\ phase' = "request" /\ loop' = [loop EXCEPT ![l] = @ + 1] /\ MayLoop(l)
      BY <1>4 DEF Repeats, MayLoop
    <2>2. loop[l] + 1 <= Loops(l)
      BY <1>4, <1>f, <1>o DEF Repeats
    <2>3. \A k \in Layers : loop'[k] = IF k = l THEN loop[k] + 1 ELSE loop[k]
      BY <1>t, <2>1
    <2> QED
      BY SMTT(40), <1>f, <1>t, <2>1, <2>2, <2>3 DEF LoopsFit, Layers
  <1> QED
    BY <1>1, <1>2, <1>3, <1>4 DEF Move

\* A step that sends nothing leaves the number of requests explained by the loops.
LEMMA CountStep ==
  ASSUME ChainTypeOK, LoopsFit, LoopsFit', ChainTypeOK', NEW l \in Layers, Move(l),
         NEW had \in [Layers -> Nat], Counted(had)
  PROVE  \E h \in [Layers -> Nat] : Counted(h)'
  <1>t. /\ l \in 1..N /\ at = l /\ N \in Nat \ {0} /\ UNCHANGED sends /\ sends \in Nat
        /\ loop \in [Layers -> Nat] /\ had \in [Layers -> Nat]
        /\ \A k : Most(k)' = Most(k)
    <2>1. UNCHANGED opts /\ at = l /\ UNCHANGED sends
      BY DEF Move, Descends, Stays, Leaves, Repeats, seen
    <2>2. \A k : Most(k)' = Most(k)
      BY <2>1, SameBounds
    <2> QED
      BY SMTT(40), <2>1, <2>2 DEF ChainTypeOK, Layers
  <1>m. /\ \A k \in 0..N : Most(k) \in Nat
        /\ \A k \in Layers : Most(k) = Loops(k) * Most(k - 1) /\ Loops(k) \in Nat
    BY MostFacts
  <1>x. \A k \in Layers : k - 1 \in 0..N /\ k \in 0..N /\ k \in Nat /\ k # 0
    BY DEF Layers
  <1>y. \A k \in Layers :
          /\ loop[k] * Most(k - 1) \in Nat
          /\ (loop[k] + 1) * Most(k - 1) = loop[k] * Most(k - 1) + Most(k - 1)
          /\ loop[k] + 1 <= Loops(k) => loop[k] * Most(k - 1) + Most(k - 1) <= Most(k)
          /\ loop[k] <= Loops(k) => loop[k] * Most(k - 1) <= Most(k)
          /\ 0 * Most(k - 1) = 0
    BY <1>m, <1>t, <1>x, OneMore
  <1>f. \A k \in Layers : loop[k] <= Loops(k) /\ (l < k => loop[k] + 1 <= Loops(k))
    BY <1>t DEF LoopsFit
  <1>c. /\ \A k \in Layers : l <= k => had[k] + Most(k) <= Most(N)
        /\ \A k \in Layers : l < k /\ k > 1 => had[k - 1] <= had[k] + loop[k] * Most(k - 1)
        /\ phase = "request" => sends <= had[l] + loop[l] * Most(l - 1)
        /\ phase # "request" => /\ sends <= had[l] + Most(l)
                                /\ sends <= had[l] + (loop[l] + 1) * Most(l - 1)
        /\ sends <= Most(N)
    BY <1>t DEF Counted
  <1>1. CASE Descends(l)
    <2>1. /\ at' = l - 1 /\ phase' = "request" /\ phase = "request"
          /\ loop' = IF l > 1 THEN [loop EXCEPT ![l - 1] = 0] ELSE loop
      BY <1>1 DEF Descends, CallInner
    <2>2. loop[l] + 1 <= Loops(l)
      <3>1. loop'[l] = loop[l] /\ at' < l
        BY <1>t, <2>1 DEF Layers
      <3>2. Loops(l)' = Loops(l)
        BY SameBounds DEF Move
      <3> QED
        BY <3>1, <3>2 DEF LoopsFit
    <2>3. CASE l = 1
      <3>1. sends <= had[1] + loop[1]
        BY <1>c, <1>t, <2>1, <2>3, MostFacts
      <3>2. Counted(had)'
        BY <1>c, <1>t, <2>1, <2>3, <3>1 DEF Counted, Layers
      <3> QED
        BY <3>2
    <2>4. CASE l > 1
      <3>1. PICK h \in [Layers -> Nat] : h = [had EXCEPT ![l - 1] = sends]
        BY <1>t
      <3>2. l - 1 \in Layers /\ loop'[l - 1] = 0 /\ h[l - 1] = sends
            /\ \A k \in Layers : k # l - 1 => loop'[k] = loop[k] /\ h[k] = had[k]
        BY <1>t, <2>1, <2>4, <3>1 DEF Layers
      <3>3. had[l] + Most(l) <= Most(N)
        BY <1>c, <1>t
      <3>4. sends + Most(l - 1) <= Most(N)
        BY <1>c, <1>m, <1>t, <1>x, <1>y, <2>1, <2>2, <3>3
      <3>5. ASSUME NEW k \in Layers, l - 1 <= k PROVE h[k] + Most(k) <= Most(N)
        <4>1. CASE k = l - 1
          BY <3>2, <3>4, <4>1
        <4>2. CASE k # l - 1
          <5>1. l <= k
            BY <1>t, <3>5, <4>2 DEF Layers
          <5> QED
            BY <1>c, <3>2, <4>2, <5>1
        <4> QED
          BY <4>1, <4>2
      <3>6. \A k \in Layers : l - 1 < k /\ k > 1 => h[k - 1] <= h[k] + loop'[k] * Most(k - 1)
        <4>1. sends <= had[l] + loop[l] * Most(l - 1)
          BY <1>c, <2>1
        <4>2. ASSUME NEW k \in Layers, l - 1 < k, k > 1
              PROVE  h[k - 1] <= h[k] + loop'[k] * Most(k - 1)
          <5>1. CASE k = l
            BY <3>2, <4>1, <5>1, <1>t
          <5>2. CASE l < k
            <6>1. k - 1 \in Layers /\ k # l - 1 /\ k - 1 # l - 1
              BY <1>t, <5>2 DEF Layers
            <6> QED
              BY <1>c, <3>2, <4>2, <5>2, <6>1
          <5> QED
            BY <1>t, <4>2, <5>1, <5>2 DEF Layers
        <4> QED
          BY <4>2
      <3>7. (l - 1) - 1 \in 0..N /\ sends <= h[l - 1] + loop'[l - 1] * Most((l - 1) - 1)
        <4>1. (l - 1) - 1 \in 0..N
          BY <1>t, <2>4
        <4>2. 0 * Most((l - 1) - 1) = 0
          BY <1>y, <3>2
        <4> QED
          BY <1>t, <3>2, <4>1, <4>2
      <3>8. Counted(h)'
        BY <1>c, <1>t, <2>1, <2>4, <3>2, <3>5, <3>6, <3>7 DEF Counted
      <3> QED
        BY <3>8
    <2> QED
      BY <1>t, <2>3, <2>4
  <1>2. CASE Stays(l)
    <2>1. at' = l /\ phase' # "request" /\ loop' = loop
      BY <1>2 DEF Stays
    <2>2. sends <= had[l] + Most(l) /\ sends <= had[l] + (loop[l] + 1) * Most(l - 1)
      BY <1>c, <1>f, <1>m, <1>t, <1>x, <1>y
    <2>3. Counted(had)'
      BY <1>c, <1>t, <2>1, <2>2 DEF Counted, Layers
    <2> QED
      BY <2>3
  <1>3. CASE Leaves(l)
    <2>1. at' = l + 1 /\ phase' # "request" /\ phase # "request" /\ loop' = [loop EXCEPT ![l] = 0]
      BY <1>3 DEF Leaves
    <2>2. \A k \in Layers : k # l => loop'[k] = loop[k]
      BY <1>t, <2>1
    <2>3. ASSUME l + 1 \in Layers
          PROVE  /\ sends <= had[l + 1] + Most(l + 1)
                 /\ sends <= had[l + 1] + (loop[l + 1] + 1) * Most(l)
      <3>1. (l + 1) - 1 = l /\ l < l + 1 /\ l + 1 > 1
        BY <1>t
      <3>2. had[l] <= had[l + 1] + loop[l + 1] * Most(l)
        BY <1>c, <2>3, <3>1
      <3>3. sends <= had[l] + Most(l)
        BY <1>c, <2>1
      <3>4. /\ (loop[l + 1] + 1) * Most(l) = loop[l + 1] * Most(l) + Most(l)
            /\ loop[l + 1] * Most(l) + Most(l) <= Most(l + 1)
            /\ loop[l + 1] * Most(l) \in Nat
        BY <1>f, <1>y, <2>3, <3>1
      <3>5. had[l] \in Nat /\ had[l + 1] \in Nat /\ Most(l) \in Nat /\ Most(l + 1) \in Nat
        BY <1>m, <1>t, <1>x, <2>3
      <3> QED
        BY <1>t, <3>2, <3>3, <3>4, <3>5
    <2>4. /\ \A k \in Layers : l + 1 <= k => l <= k
          /\ \A k \in Layers : l + 1 < k => l < k /\ k # l
          /\ l + 1 \in Layers => (l + 1) - 1 = l /\ l + 1 # l
          /\ l + 1 # 0
      BY <1>t DEF Layers
    <2>5. Counted(had)'
      <3>1. \A k \in Layers : at' <= k => had[k] + Most(k) <= Most(N)
        BY <1>c, <2>1, <2>4
      <3>2. \A k \in Layers : at' < k /\ k > 1 => had[k - 1] <= had[k] + loop'[k] * Most(k - 1)
        BY <1>c, <2>1, <2>2, <2>4
      <3>3. at' \in Layers => /\ sends <= had[at'] + Most(at')
                              /\ sends <= had[at'] + (loop'[at'] + 1) * Most(at' - 1)
        BY <2>1, <2>2, <2>3, <2>4
      <3> QED
        BY <1>c, <1>t, <2>1, <2>4, <3>1, <3>2, <3>3 DEF Counted
    <2> QED
      BY <2>5
  <1>4. CASE Repeats(l)
    <2>1. at' = l /\ phase' = "request" /\ phase # "request" /\ loop' = [loop EXCEPT ![l] = @ + 1]
      BY <1>4 DEF Repeats
    <2>2. loop'[l] = loop[l] + 1 /\ \A k \in Layers : k # l => loop'[k] = loop[k]
      BY <1>t, <2>1
    <2>3. sends <= had[l] + loop'[l] * Most(l - 1)
      BY <1>c, <2>1, <2>2
    <2>4. \A k \in Layers : l < k => k # l
      BY <1>t
    <2>5. Counted(had)'
      BY <1>c, <1>t, <2>1, <2>2, <2>3, <2>4 DEF Counted, Layers
    <2> QED
      BY <2>5
  <1> QED
    BY <1>1, <1>2, <1>3, <1>4 DEF Move

\* A move keeps the call in time: the RetryPlugin lets a call through with what is
\* left of its limit, and no retry after it.
LEMMA TimeStep ==
  ASSUME ChainTypeOK, TimeInv, ChainTypeOK', NEW l \in Layers, Move(l)
  PROVE  TimeInv'
  <1> SUFFICES ASSUME Limit # 0, ~plugin.hooks_retry
               PROVE  /\ now' <= Limit + Overshoot
                      /\ phase' = "request" /\ (at' > R \/ (at' = R /\ loop'[R] = 0)) => now' = 0
                      /\ phase' = "request" /\ at' < R =>
                           now' <= Limit /\ ctx'.timeout \in 0..(Limit - now')
    BY DEF Move, opts, TimeInv, Limit, R, RetryLayer
  <1>t. /\ l \in 1..N /\ at = l /\ R \in 1..N /\ now \in Nat /\ now' \in Nat
        /\ Limit \in Nat \ {0} /\ Overshoot \in Nat /\ loop \in [Layers -> Nat]
        /\ plugin.retry_timeout \in Nat /\ ctx.timeout \in {NoTimeout} \cup Nat
    <2>1. l \in 1..N /\ at = l
      BY DEF Layers, Move, Descends, Stays, Leaves, Repeats
    <2>2. R \in 1..N /\ Limit \in Nat \ {0} /\ plugin.retry_timeout \in Nat
      BY DEF ChainTypeOK, PluginType, Layers, R, RetryLayer, Limit
    <2>3. /\ now \in Nat /\ now' \in Nat /\ loop \in [Layers -> Nat]
          /\ ctx.timeout \in {NoTimeout} \cup Nat /\ Overshoot \in Nat
      BY DEF ChainTypeOK
    <2> QED
      BY <2>1, <2>2, <2>3
  <1>i. /\ now <= Limit + Overshoot
        /\ phase = "request" /\ (l > R \/ (l = R /\ loop[R] = 0)) => now = 0
        /\ phase = "request" /\ l < R => now <= Limit /\ ctx.timeout \in 0..(Limit - now)
    BY <1>t DEF TimeInv
  <1>s. Sleeps(l) => now' <= Limit + Overshoot
    BY <1>i, <1>t DEF Sleeps
  <1>1. CASE Descends(l)
    <2>1. /\ at' = l - 1 /\ now' = now /\ phase = "request"
          /\ l > 1 => loop' = [loop EXCEPT ![l - 1] = 0]
      BY <1>1 DEF Descends, CallInner
    <2>2. CASE l > R
      BY <1>i, <1>t, <2>1, <2>2
    <2>3. CASE l = R
      <3>1. now <= Limit
        BY <1>1, <1>i, <1>t, <2>1, <2>3 DEF Descends, TimeIsUp, Layers
      <3>2. Gap(now, Limit) = Limit - now /\ Limit - now \in Nat
        BY <1>t, <3>1 DEF Gap
      <3>3. NextTimeouts \subseteq 0..(Limit - now)
        <4>1. \A to \in Spread(plugin.retry_timeout) : to \in Nat
          BY <1>t, SpreadFacts
        <4> QED
          BY <1>t, <3>2, <4>1 DEF NextTimeouts, NoTimeout
      <3>4. ctx'.timeout \in NextTimeouts
        BY <1>1, <2>3 DEF Descends
      <3>5. ctx'.timeout \in 0..(Limit - now)
        BY <3>3, <3>4
      <3> QED
        BY <1>i, <1>t, <2>1, <2>3, <3>1, <3>5
    <2>4. CASE l < R
      <3>1. ctx'.timeout = ctx.timeout
        BY <1>1, <1>t, <2>4 DEF Descends
      <3> QED
        BY <1>i, <1>t, <2>1, <2>4, <3>1
    <2> QED
      BY <1>t, <2>2, <2>3, <2>4
  <1>2. CASE Stays(l) \/ Leaves(l)
    BY <1>2, <1>s DEF Stays, Leaves
  <1>3. CASE Repeats(l)
    <2>1. l = R /\ at' = R /\ loop'[R] = loop[R] + 1
      BY <1>3, <1>t DEF Repeats
    <2> QED
      BY <1>3, <1>s, <1>t, <2>1 DEF Repeats, Layers
  <1> QED
    BY <1>1, <1>2, <1>3 DEF Move

\* A move of a chain whose RetryPlugin is next to the transport waits as it was told.
LEMMA HeaderStep ==
  ASSUME ChainTypeOK, HeaderInv, ChainTypeOK', NEW l \in Layers, Move(l)
  PROVE  HeaderInv'
  <1> SUFFICES ASSUME Direct, plugin.retry_after_headers
               PROVE  /\ phase' = "request" /\ Dated => now' >= notBefore
                      /\ at' = 1 /\ phase' = "response" =>
                           result' = answered /\ notBefore <= now' + Due(answered)
                      /\ at' = 1 /\ phase' = "error" => result'.what \in GivenUp \/ ~Dated
    BY DEF Move, opts, seen, HeaderInv, Direct, Dated, Due, Delta
  <1>t. /\ l \in 1..N /\ at = l /\ R = 1 /\ ~plugin.hooks_retry
        /\ now \in Nat /\ now' \in Nat /\ notBefore \in Nat /\ Due(answered) \in Nat
    <2>1. l \in 1..N /\ at = l /\ R = 1 /\ ~plugin.hooks_retry
      BY DEF Layers, R, RetryLayer, Direct, Move, Descends, Stays, Leaves, Repeats
    <2>2. now \in Nat /\ now' \in Nat /\ notBefore \in Nat /\ answered.after \in Nat
      BY DEF ChainTypeOK, Answers
    <2>3. Delta(answered.after) \in 0..answered.after
      BY <2>2, DeltaFacts
    <2> QED
      BY <2>1, <2>2, <2>3 DEF Due
  <1>i. /\ phase = "request" /\ Dated => now >= notBefore
        /\ l = 1 /\ phase = "response" => result = answered /\ notBefore <= now + Due(answered)
        /\ l = 1 /\ phase = "error" => result.what \in GivenUp \/ ~Dated
    BY <1>t DEF HeaderInv
  <1>1. CASE Descends(l)
    BY <1>1, <1>i DEF Descends, CallInner
  <1>2. CASE Stays(l)
    <2>1. l = R => /\ phase' = "error"
                   /\ \/ result'.what \in GivenUp
                      \/ phase = "response" /\ result.form = "date"
      BY <1>2 DEF Stays
    <2> QED
      BY <1>2, <1>i, <1>t, <2>1 DEF Stays, Dated
  <1>3. CASE Leaves(l)
    BY <1>3, <1>t DEF Leaves
  <1>4. CASE Repeats(l)
    <2>1. l = R /\ result.what \notin GivenUp /\ phase \in {"response", "error"} /\ phase' = "request"
      BY <1>4, <1>t DEF Repeats, ChainTypeOK
    <2>2. phase = "response" /\ result.form = "seconds" => now' >= now + Due(result)
      BY <1>4, <2>1 DEF Repeats
    <2> QED
      BY <1>i, <1>t, <2>1, <2>2 DEF Dated
  <1> QED
    BY <1>1, <1>2, <1>3, <1>4 DEF Move

\* The call starts with nothing sent and no time gone.
LEMMA ChainInitInv == ChainInit => ChainInv
  <1> SUFFICES ASSUME ChainInit PROVE ChainInv
    OBVIOUS
  <1>1. ChainTypeOK
    BY ChainInitType
  <1>2. /\ at = N /\ phase = "request" /\ loop = [l \in Layers |-> 0] /\ sends = 0 /\ now = 0
        /\ N \in Nat \ {0} /\ N \in Layers /\ R \in Layers /\ answered.form = "none"
    BY <1>1 DEF ChainInit, ChainTypeOK, PluginType, Layers, R, RetryLayer, Plain
  <1>3. LoopsFit
    BY <1>2, MostFacts, <1>1 DEF LoopsFit, Layers
  <1>4. \E had \in [Layers -> Nat] : Counted(had)
    <2>1. PICK had \in [Layers -> Nat] : had = [l \in Layers |-> 0]
      OBVIOUS
    <2>2. Most(N) \in Nat /\ N - 1 \in 0..N /\ Most(N - 1) \in Nat
      BY <1>1, <1>2, MostFacts
    <2>3. \A l \in Layers : N <= l => l = N
      BY <1>2 DEF Layers
    <2>4. \A l \in Layers : ~(N < l)
      BY <1>2 DEF Layers
    <2>5. had[N] = 0 /\ loop[N] = 0 /\ 0 * Most(N - 1) = 0
      BY <1>2, <2>1, <2>2
    <2>6. Counted(had)
      BY <1>2, <2>2, <2>3, <2>4, <2>5 DEF Counted
    <2> QED
      BY <2>6
  <1>5. TimeInv
    BY <1>1, <1>2 DEF TimeInv, ChainTypeOK, PluginType, Limit, Layers, R, RetryLayer
  <1>6. HeaderInv
    BY <1>2 DEF HeaderInv, Dated, ChainInit
  <1> QED
    BY <1>1, <1>3, <1>4, <1>5, <1>6 DEF ChainInv, SendInv

\* The transport answers once more, in time and with what the plugin will look at.
LEMMA SendStep == ASSUME ChainInv, ChainTypeOK', Send PROVE SendInv' /\ TimeInv' /\ HeaderInv'
  <1>1. PICK d \in 0..Patience, w \in {"ok", "bad", "failure"}, f \in Headers, k \in 0..MaxAfter :
          /\ w # "bad" => f = "none"
          /\ result' = [what |-> w, form |-> f, after |-> k]
          /\ now' = now + d /\ answered' = result' /\ notBefore' = now' + k - Delta(k)
          /\ phase' = IF w = "failure" THEN "error" ELSE "response"
    BY DEF Send
  <1>2. /\ at = 0 /\ at' = 1 /\ phase = "request" /\ sends' = sends + 1
        /\ UNCHANGED opts /\ UNCHANGED <<loop, ctx>> /\ phase' # "request"
    BY <1>1 DEF Send, ChainInv, SendInv, LoopsFit
  <1>t. /\ ChainTypeOK /\ N \in Nat \ {0} /\ 1 \in Layers /\ loop \in [Layers -> Nat] /\ sends \in Nat
        /\ R \in 1..N /\ now \in Nat /\ now' \in Nat /\ ctx.timeout \in {NoTimeout} \cup Nat /\ Limit \in Nat
    <2>1. ChainTypeOK
      BY DEF ChainInv
    <2>2. N \in Nat \ {0} /\ 1 \in Layers /\ R \in 1..N /\ Limit \in Nat
      BY <2>1 DEF ChainTypeOK, Layers, R, RetryLayer, Limit, PluginType
    <2>3. loop \in [Layers -> Nat]
      BY <2>1 DEF ChainTypeOK
    <2>4. sends \in Nat /\ now \in Nat /\ now' \in Nat /\ ctx.timeout \in {NoTimeout} \cup Nat
      BY <2>1 DEF ChainTypeOK
    <2> QED
      BY <2>1, <2>2, <2>3, <2>4
  <1>b. /\ R' = R /\ \A l : Loops(l)' = Loops(l) /\ Most(l)' = Most(l)
        /\ \A l \in Layers : MayLoop(l)' = MayLoop(l)
    BY <1>2, SameBounds DEF MayLoop, Repeatable, opts, R, RetryLayer
  <1>f. /\ \A l \in Layers : loop[l] <= Loops(l) /\ loop[l] + 1 <= Loops(l) /\ (~MayLoop(l) => loop[l] = 0)
        /\ \A l \in Layers : 0 < l
    BY <1>2, <1>t DEF ChainInv, SendInv, LoopsFit, Layers
  <1>3. LoopsFit'
    BY <1>2, <1>b, <1>f, <1>t DEF LoopsFit
  <1>4. \E had \in [Layers -> Nat] : Counted(had)'
    <2>1. PICK had \in [Layers -> Nat] : Counted(had)
      BY DEF ChainInv, SendInv
    <2>m. /\ Most(0) = 1 /\ Most(1) = Loops(1) * Most(0) /\ Loops(1) \in Nat /\ Most(N) \in Nat
          /\ \A l \in Layers : 1 <= l /\ (1 < l => 0 < l)
      BY <1>t, MostFacts DEF Layers
    <2>2. /\ \A l \in Layers : 0 <= l => had[l] + Most(l) <= Most(N)
          /\ \A l \in Layers : 0 < l /\ l > 1 => had[l - 1] <= had[l] + loop[l] * Most(l - 1)
          /\ sends <= had[1] + loop[1]
      BY <1>2, <2>1 DEF Counted
    <2>3. sends + 1 <= had[1] + Most(1) /\ had[1] + Most(1) <= Most(N)
      <3>1. had[1] + Most(1) <= Most(N)
        BY <1>t, <2>2
      <3>2. Most(1) = Loops(1)
        BY <2>m
      <3>3. loop[1] + 1 <= Loops(1)
        BY <1>f, <1>t
      <3>4. had[1] \in Nat /\ loop[1] \in Nat
        BY <1>t
      <3> QED
        BY <1>t, <2>2, <2>m, <3>1, <3>2, <3>3, <3>4
    <2>4. sends + 1 <= had[1] + (loop[1] + 1) * Most(1 - 1)
      <3>1. (loop[1] + 1) * Most(1 - 1) = loop[1] + 1
        BY <1>t, <2>m
      <3>2. had[1] \in Nat /\ loop[1] \in Nat
        BY <1>t
      <3> QED
        BY <1>t, <2>2, <3>1, <3>2
    <2>5. sends + 1 <= Most(N)
      <3>1. had[1] \in Nat /\ Most(1) \in Nat
        BY <1>t, <2>m
      <3> QED
        BY <1>t, <2>3, <2>m, <3>1
    <2>6. Counted(had)'
      <3>1. \A l \in Layers : 1 <= l => had[l] + Most(l) <= Most(N)
        BY <2>2, <2>m DEF Layers
      <3>2. \A l \in Layers : 1 < l /\ l > 1 => had[l - 1] <= had[l] + loop[l] * Most(l - 1)
        BY <2>2, <2>m
      <3> QED
        BY <1>2, <1>b, <2>3, <2>4, <2>5, <3>1, <3>2 DEF Counted
    <2> QED
      BY <2>6
  <1>5. TimeInv'
    <2> SUFFICES ASSUME Limit # 0, ~plugin.hooks_retry PROVE now' <= Limit + Overshoot
      BY <1>2 DEF TimeInv, Limit, opts
    <2>1. now <= Limit /\ ctx.timeout \in 0..(Limit - now)
      BY <1>2, <1>t DEF ChainInv, TimeInv
    <2>2. Patience <= ctx.timeout + Overshoot /\ Patience \in Nat
      BY <1>t, <2>1 DEF Patience, NoTimeout, Least
    <2> QED
      BY <1>1, <1>t, <2>1, <2>2
  <1>6. HeaderInv'
    <2>1. notBefore' = now' + Due(answered') /\ Due(answered)' = Due(answered')
      <3>1. k \in Nat /\ Delta(k) \in 0..k /\ answered'.after = k
        BY <1>1, <1>t, DeltaFacts
      <3>2. plugin' = plugin
        BY <1>2 DEF opts
      <3> QED
        BY <1>1, <1>t, <3>1, <3>2 DEF Due, Delta
    <2>2. at' = 1 /\ result' = answered' /\ (phase' = "error" => answered'.form = "none")
      BY <1>1, <1>2
    <2>3. Due(answered') \in Int /\ notBefore' <= now' + Due(answered)'
      <3>1. k \in Nat /\ Delta(k) \in 0..k /\ answered'.after = k
        BY <1>1, <1>t, DeltaFacts
      <3> QED
        BY <1>1, <1>t, <2>1, <3>1 DEF Due
    <2> QED
      BY <1>2, <2>2, <2>3 DEF HeaderInv, Dated
  <1> QED
    BY <1>3, <1>4, <1>5, <1>6 DEF SendInv
-----------------------------------------------------------------------------
\* No step breaks the invariant.
LEMMA ChainStepInv == ChainInv /\ [ChainNext]_chainVars => ChainInv'
  <1> SUFFICES ASSUME ChainInv, [ChainNext]_chainVars PROVE ChainInv'
    OBVIOUS
  <1>1. ChainTypeOK /\ ChainTypeOK'
    BY ChainStepType DEF ChainInv
  <1>2. ASSUME NEW l \in Layers, Step(l) PROVE ChainInv'
    <2>1. Move(l)
      BY <1>1, <1>2, StepMoves
    <2>2. LoopsFit'
      BY <1>1, <2>1, LoopsFitStep DEF ChainInv, SendInv
    <2>3. SendInv'
      <3>1. PICK had \in [Layers -> Nat] : Counted(had)
        BY DEF ChainInv, SendInv
      <3>2. \E h \in [Layers -> Nat] : Counted(h)'
        BY <1>1, <2>1, <2>2, <3>1, CountStep DEF ChainInv, SendInv
      <3> QED
        BY <2>2, <3>2 DEF SendInv
    <2> QED
      BY <1>1, <2>1, <2>3, TimeStep, HeaderStep DEF ChainInv
  <1>3. CASE Send
    BY <1>1, <1>3, SendStep DEF ChainInv
  <1>4. CASE UNCHANGED chainVars
    <2>1. R' = R /\ \A l : Loops(l)' = Loops(l) /\ Most(l)' = Most(l)
      BY <1>4, SameBounds DEF chainVars, opts
    <2>2. LoopsFit'
      BY <1>4, <2>1 DEF chainVars, ChainInv, SendInv, LoopsFit, MayLoop, Repeatable
    <2>3. \A had : Counted(had) => Counted(had)'
      BY <1>4, <2>1 DEF chainVars, Counted
    <2>4. TimeInv' /\ HeaderInv'
      BY <1>4 DEF chainVars, ChainInv, TimeInv, HeaderInv, Limit, R, RetryLayer, Direct, Dated,
                  Due, Delta
    <2> QED
      BY <1>1, <2>2, <2>3, <2>4 DEF ChainInv, SendInv
  <1> QED
    BY <1>2, <1>3, <1>4 DEF ChainNext, ChainDone

\* The invariant holds of every reachable state.
LEMMA ChainInvariant == ChainSpec => []ChainInv
  BY ChainInitInv, ChainStepInv, PTL DEF ChainSpec

\* One call reaches the server at most max_retries times, times the loop limit of every
\* other layer whose hooks retry as well, and once if it must not be repeated: for any
\* nesting of any number of layers (retry.py process_request, cli/chain.py).
THEOREM SendsBounded == ChainSpec => []SendBound
  <1>1. ASSUME ChainInv PROVE SendBound
    <2>1. /\ sends \in Nat /\ sends <= Most(N) /\ plugin.hooks_retry \in BOOLEAN
          /\ plugin.max_retries \in Nat /\ MaxLoops \in Nat
      BY <1>1 DEF ChainInv, SendInv, Counted, ChainTypeOK, PluginType
    <2> DEFINE x == IF plugin.hooks_retry THEN Nested[N - 1] ELSE 1
               m == Least(plugin.max_retries, MaxLoops)
    <2>2. Most(N) = Tries * x
      BY <1>1, MostFacts DEF ChainInv
    <2>3. Most(N) \in Nat /\ Rounds(N - 1) = x
      BY <1>1, MostFacts DEF ChainInv, Rounds
    <2>4. m \in Nat /\ Tries <= m /\ Tries \in Nat /\ (~Repeatable => Tries <= 1)
      BY <2>1 DEF Tries, Least
    <2>5. x \in Nat
      BY <1>1, NestedNat DEF ChainInv
    <2> HIDE DEF x, m
    <2>6. Tries * x <= m * x /\ m * x \in Nat
      BY <2>4, <2>5, OneMore
    <2>7. sends <= m * x
      <3> DEFINE y == m * x
      <3>1. Most(N) <= y /\ y \in Nat
        BY <2>2, <2>6
      <3> HIDE DEF y
      <3>2. sends <= y
        BY <2>1, <2>3, <3>1
      <3> QED
        BY <3>2 DEF y
    <2>8. NonIdempotentOnce
      BY <2>1, <2>2, <2>4 DEF NonIdempotentOnce, Repeatable, x
    <2> QED
      BY <2>7, <2>8 DEF SendBound, x, m
  <1> QED
    BY <1>1, ChainInvariant, PTL

\* max_retries_timeout bounds the whole call, whatever the transport and the hooks do
\* (handle_max_retries_timeout, get_retry_after).
THEOREM CallsEndInTime == ChainSpec => []Deadline
  <1>1. ChainInv => Deadline
    BY DEF ChainInv, TimeInv, Deadline
  <1> QED
    BY <1>1, ChainInvariant, PTL

\* A plugin next to the transport that was given the header's name respects a Retry-After in
\* seconds, but for the part retry_delta_ratio may take off it: for any options, any number of
\* hooks around it and any delays (get_retry_after, retry.py:241-279).
THEOREM RetryAfterHonoured == ChainSpec => SecondsHonoured
  <1>1. ChainInv /\ [ChainNext]_chainVars =>
          [Direct /\ plugin.retry_after_headers /\ answered.form = "seconds" /\ sends' > sends
             => now >= notBefore]_chainVars
    <2> SUFFICES ASSUME ChainInv, ChainNext, Direct, plugin.retry_after_headers,
                        answered.form = "seconds", sends' > sends
                 PROVE  now >= notBefore
      OBVIOUS
    <2>1. sends \in Nat
      BY DEF ChainInv, ChainTypeOK
    <2>2. Send
      BY <2>1, StepMoves DEF ChainInv, ChainNext, ChainDone, chainVars, Move, seen
    <2> QED
      BY <2>2 DEF Send, ChainInv, SendInv, LoopsFit, HeaderInv, Dated
  <1> QED
    BY <1>1, ChainInvariant, PTL DEF ChainSpec, SecondsHonoured
=============================================================================
