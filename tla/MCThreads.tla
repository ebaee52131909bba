----------------------------- MODULE MCThreads -----------------------------
(* Threads of one process: passes over the request logs, lockers of keys,  *)
(* and one call of a Client through its plugin chain.  They are            *)
(* independent; a behaviour looks at one of them.                          *)
EXTENDS LogQueue, KeyLock, RetryChain

VARIABLE part

Option(layer, tries, limit, intervals, timeout, only, async) ==
  [ layer |-> layer, max_retries |-> tries, max_retries_timeout |-> limit,
    retry_interval |-> intervals, retry_timeout |-> timeout,
    retry_delta_ratio |-> 0, retry_after_headers |-> FALSE,
    retry_on_idempotent_only |-> only, asynchronous |-> async,
    hooks_retry |-> FALSE ]

\* every option at its interesting values, for the given places in the chain
Options(places, tries, limits) ==
  { Option(l, m, t, i, to, o, a) :
      l \in places, m \in tries, t \in limits, i \in {<< >>, <<1, 2>>},
      to \in {0, 2}, o \in BOOLEAN, a \in BOOLEAN }

\* with the header named, with the waits and timeouts spread, and as by default; whether
\* the call is asynchronous matters to dated headers only
Reading == { [p EXCEPT !.retry_after_headers = TRUE] :
               p \in {o \in Options({1, 2}, {0, 2, 4}, {0, 4}) :
                        o.asynchronous => o.max_retries = 4 /\ ~o.retry_on_idempotent_only} }
Varying == { [p EXCEPT !.retry_after_headers = TRUE, !.retry_delta_ratio = 50] :
               p \in {o \in Options({1, 2}, {4}, {0, 4}) : o.retry_timeout = 2 /\ ~o.retry_on_idempotent_only} }
Default == { p \in Options({1, 2}, {4}, {0, 4}) : ~p.asynchronous /\ ~p.retry_on_idempotent_only }

\* hooks that retry as well: what counts is the nesting of the loops
Hooked ==
  { [Option(l, m, 0, << >>, 0, FALSE, FALSE) EXCEPT !.hooks_retry = TRUE] :
      l \in {1, 2}, m \in {1, 2, 4} }

AllChains == Reading \cup Varying \cup Default \cup Hooked

-----------------------------------------------------------------------------
threadsVars == <<part, vars, lockVars, chainVars>>

ThreadsInit ==
  /\ part \in {"logs", "lock", "chain"}
  /\ Init /\ LockInit
  /\ ChainInit /\ (idempotent \/ plugin.retry_on_idempotent_only)
  /\ (part # "chain" => plugin = Option(1, 4, 0, << >>, 0, FALSE, FALSE) /\ idempotent)

ThreadsNext ==
  /\ UNCHANGED part
  /\ \/ part = "logs"  /\ Next      /\ UNCHANGED <<lockVars, chainVars>>
     \/ part = "lock"  /\ LockNext  /\ UNCHANGED <<vars, chainVars>>
     \/ part = "chain" /\ ChainNext /\ UNCHANGED <<vars, lockVars>>

\* FairSpec, LockFair and ChainFair, each where its part moves.
ThreadsFair ==
  /\ WF_vars(part = "logs" /\ BeginCycle)
  /\ WF_vars(part = "logs" /\ PassStep(Cycle))
  /\ \A c \in Lockers : /\ WF_lockVars(part = "lock" /\ Acquire(c))
                        /\ WF_lockVars(part = "lock" /\ Skip(c))
                        /\ WF_lockVars(part = "lock" /\ Leave(c))
  /\ \A k \in LockKeys : WF_lockVars(part = "lock" /\ Expire(k))
  /\ WF_chainVars(part = "chain" /\ ChainNext)

ThreadsSpec == ThreadsInit /\ [][ThreadsNext]_threadsVars /\ ThreadsFair

\* Whoever waits goes on: StoredEventually of the logs, LockedEventually of who
\* waits for a key, Finishes of a call through the chain.
WaitsEnd == StoredEventually /\ LockedEventually /\ (part = "chain" => Finishes)
=============================================================================
