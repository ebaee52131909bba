------------------------------- MODULE KeyLock -------------------------------
(***************************************************************************)
(* The lock of the redis cache (core/cache/backends/redis/lock.py).        *)
(*                                                                         *)
(* A with statement acquires its keys one after the other, in the          *)
(* order they are given, and runs its body whether or not it got them:     *)
(* targets holds those it got.  A lock has a token of its own; with a      *)
(* lock_timeout it expires, also under a body that is still running.       *)
(* redis and its Lock object are outside the repository.                   *)
(***************************************************************************)
EXTENDS Naturals, Sequences, FiniteSets

CONSTANTS Lockers,    \* the with statements that are run, one at a time each
          LockKeys,
          Timed,      \* lock_timeout is set
          MaxEnters   \* bound: times that a locker enters

ASSUME LockAssumption == Timed \in BOOLEAN /\ MaxEnters \in Nat /\ IsFiniteSet(LockKeys)

VARIABLES lease,   \* [LockKeys -> the token that has the lock, or NoToken]
          locker,  \* [Lockers -> state of the with statement]
          lost     \* ghost: locks that expired under their holder

lockVars == <<lease, locker, lost>>

NoToken == <<"none", 0>>
Outside == [pc |-> "out", scope |-> << >>, block |-> FALSE, targets |-> {}]

LockInit ==
  /\ lease = [k \in LockKeys |-> NoToken]
  /\ locker = [c \in Lockers |-> [at |-> Outside, entries |-> 0]]
  /\ lost = {}

Is(c, pc)  == locker[c].at.pc = pc
Token(c)   == <<c, locker[c].entries>>
Scopes     == {s \in UNION {[1..n -> LockKeys] : n \in 1..Cardinality(LockKeys)} :
                 \A i, j \in DOMAIN s : s[i] = s[j] => i = j}

Enter(c, scope, block) ==
  /\ Is(c, "out") /\ locker[c].entries < MaxEnters
  /\ locker' = [locker EXCEPT ![c] = [entries |-> @.entries + 1,
                  at |-> [pc |-> "acquire", scope |-> scope, block |-> block, targets |-> {}]]]
  /\ UNCHANGED <<lease, lost>>

\* The key is done with; the body runs after the last one.
Done(place, got) ==
  [place EXCEPT !.scope = Tail(@), !.targets = @ \cup got,
                !.pc = IF Len(place.scope) = 1 THEN "body" ELSE "acquire"]

Acquire(c) ==
  LET k == Head(locker[c].at.scope) IN
  /\ Is(c, "acquire") /\ lease[k] = NoToken
  /\ lease' = [lease EXCEPT ![k] = Token(c)]
  /\ locker' = [locker EXCEPT ![c].at = Done(@, {k})]
  /\ UNCHANGED lost

\* Without block the key is skipped; no blocking_timeout is set.
Skip(c) ==
  LET k == Head(locker[c].at.scope) IN
  /\ Is(c, "acquire") /\ lease[k] # NoToken /\ ~locker[c].at.block
  /\ locker' = [locker EXCEPT ![c].at = Done(@, {})]
  /\ UNCHANGED <<lease, lost>>

\* Acquiring took longer than the locks last: __exit__ is not called.
TooLate(c) ==
  /\ Timed /\ Is(c, "body")
  /\ locker' = [locker EXCEPT ![c].at = Outside]
  /\ lost' = {t \in lost : t[1] # c}
  /\ UNCHANGED lease

\* mutant: the lock is deleted whoever has it
MineAny(c, k) == TRUE

Mine(c, k) == lease[k] = Token(c)

\* __exit__: a lock that is someone else's by now is left alone.
Leave(c) ==
  /\ Is(c, "body")
  /\ lease' = [k \in LockKeys |-> IF k \in locker[c].at.targets /\ Mine(c, k) THEN NoToken ELSE lease[k]]
  /\ locker' = [locker EXCEPT ![c].at = Outside]
  /\ lost' = {t \in lost : t[1] # c}

\* mutant: the lock is made without the timeout
ExpireNever(k) == FALSE /\ UNCHANGED lockVars

Expire(k) ==
  /\ Timed /\ lease[k] # NoToken
  /\ lost' = IF \E c \in Lockers : Mine(c, k) /\ ~Is(c, "out") THEN lost \cup {<<lease[k][1], k>>} ELSE lost
  /\ lease' = [lease EXCEPT ![k] = NoToken]
  /\ UNCHANGED locker

LockNext ==
  \/ \E c \in Lockers :
       \/ \E scope \in Scopes, block \in BOOLEAN : Enter(c, scope, block)
       \/ Acquire(c) \/ Skip(c) \/ TooLate(c) \/ Leave(c)
  \/ \E k \in LockKeys : Expire(k)

LockSpec == LockInit /\ [][LockNext]_lockVars

\* Bodies end, expired locks go, and a locker that waits tries again.
LockFair ==
  /\ \A c \in Lockers : WF_lockVars(Acquire(c)) /\ WF_lockVars(Skip(c)) /\ WF_lockVars(Leave(c))
  /\ \A k \in LockKeys : WF_lockVars(Expire(k))

-----------------------------------------------------------------------------
LockTypeOK ==
  /\ lease \in [LockKeys -> {NoToken} \cup (Lockers \X (1..MaxEnters))]
  /\ locker \in [Lockers -> [entries: 0..MaxEnters,
                             at: [pc: {"out", "acquire", "body"}, scope: Seq(LockKeys),
                                  block: BOOLEAN, targets: SUBSET LockKeys]]]
  /\ \A c \in Lockers : Is(c, "acquire") <=> locker[c].at.scope # << >>
  /\ lost \subseteq Lockers \X LockKeys

\* What a locker got is locked for it until its timeout, whatever the others do:
\* no release of a lock that expired hits the next holder.
TargetsAreLocked ==
  \A c \in Lockers, k \in LockKeys : 
     k \in locker[c].at.targets => lease[k] = Token(c) \/ <<c, k>> \in lost

\* With a timeout nobody waits for ever, whatever the order of the keys and
\* whoever leaves a lock behind.
LockedEventually == \A c \in Lockers : Is(c, "acquire") ~> ~Is(c, "acquire")
=============================================================================
