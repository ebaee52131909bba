----------------------------- MODULE RetryChain -----------------------------
(***************************************************************************)
(* One call of a Client endpoint through its plugin chain (core/cli/chain, *)
(* whose loop core/api/chain repeats on the server side) with one          *)
(* RetryPlugin (core/api/plugins/retry) among the layers.                  *)
(*                                                                         *)
(* Layer 1 wraps the transport, layer N is the outermost.  Every layer     *)
(* runs its own loop with a local retry_index, and publishes that index    *)
(* in the context of the one request all the layers share.  The layers     *)
(* other than the RetryPlugin are hooks of the user: what they return is   *)
(* any value the loop distinguishes.                                       *)
(*                                                                         *)
(* Time is a number of ticks since request.time and only advances in the   *)
(* transport and in the plugin's sleep.  A retry_delta_ratio is at most 1; *)
(* nothing in the code says so, but a larger one makes negative waits.     *)
(***************************************************************************)
EXTENDS Integers, Sequences, FiniteSets

CONSTANTS N,            \* number of layers of the chain
          MaxLoops,     \* pref.client_max_retry_loops
          Plugins,      \* the option records a chain is tried with
          MaxLatency,   \* longest answer the transport gives, in ticks
          Overshoot,    \* ticks by which a transport may miss its timeout
          MaxAfter,     \* largest Retry-After of a response, in ticks
          DatedHeaders, \* may Retry-After be an HTTP date?
          MaxTime       \* bound of the clock

Layers == 1..N

PluginType == [ layer: Layers,                     \* its place in the chain
                max_retries: Nat,
                max_retries_timeout: Nat,          \* 0: None
                retry_interval: Seq(Nat),          \* << >>: None
                retry_timeout: Nat,                \* 0: None
                retry_delta_ratio: 0..100,         \* in hundredths; 0: None
                retry_after_headers: BOOLEAN,      \* is the header of the answers named? not by default
                retry_on_idempotent_only: BOOLEAN,
                asynchronous: BOOLEAN,
                hooks_retry: BOOLEAN ]             \* may user hooks return a Request?

ASSUME ChainAssumption ==
  /\ N \in Nat \ {0} /\ MaxLoops \in Nat \ {0} /\ MaxTime \in Nat
  /\ MaxLatency \in Nat /\ Overshoot \in Nat /\ MaxAfter \in Nat
  /\ DatedHeaders \in BOOLEAN
  /\ Plugins \subseteq PluginType

\* What a layer hands outwards: a response, or an exception on its way up.
Exceptions == {"failure", "ValueError", "MaxRetriesExceed", "MaxRetriesTimeoutExceed"}
GivenUp    == {"MaxRetriesExceed", "MaxRetriesTimeoutExceed"}
Headers    == {"none", "seconds"} \cup (IF DatedHeaders THEN {"date"} ELSE {})
Answers    == [what: {"ok", "bad"} \cup Exceptions, form: {"none", "seconds", "date"},
               after: 0..MaxAfter]
Plain(w)   == [what |-> w, form |-> "none", after |-> 0]
Failure    == Plain("failure")
NoTimeout  == 0 - 1                                 \* None

VARIABLES plugin,      \* the RetryPlugin's options, chosen once
          idempotent,  \* endpoint.idempotent
          at,          \* the layer that runs; 0: the transport; N + 1: returned
          phase,       \* the event it handles: "request", "response", "error"
          loop,        \* [Layers -> retry_index local of the layer]
          ctx,         \* the request's shared context: retry_index and timeout
          result,      \* what the layer below handed over
          now,         \* ticks since request.time
          \* ghosts: what a caller and the server can observe
          sends,       \* requests the server received
          answered,    \* the last answer the transport gave
          notBefore    \* when that answer allowed the next request, less what
                       \* retry_delta_ratio may take off

chainVars == <<plugin, idempotent, at, phase, loop, ctx, result, now, sends, answered, notBefore>>
opts == <<plugin, idempotent>>
seen == <<sends, answered, notBefore>>

ChainInit ==
  /\ plugin \in Plugins /\ idempotent \in BOOLEAN
  /\ at = N /\ phase = "request"
  /\ loop = [l \in Layers |-> 0]
  /\ ctx = [retry_index |-> 0, timeout |-> NoTimeout]
  /\ result = Plain("ok") /\ now = 0
  /\ sends = 0 /\ answered = Plain("ok") /\ notBefore = 0

RetryLayer == plugin.layer
Finished   == at = N + 1
Least(a, b) == IF a < b THEN a ELSE b
Gap(a, b)   == IF a < b THEN b - a ELSE a - b      \* abs(delta)

-----------------------------------------------------------------------------
(* The loop of client_handler *)

\* update_context(retry_index=retry_index): the layer about to run its
\* process_request overwrites the index its neighbours wrote.
Published(l) == [ctx EXCEPT !.retry_index = loop[l]]

\* handler(request): the layer inside starts a loop of its own at 0.
CallInner(l) ==
  /\ at' = l - 1
  /\ phase' = "request"
  /\ loop' = IF l > 1 THEN [loop EXCEPT ![l - 1] = 0] ELSE loop
  /\ UNCHANGED result

\* The loop is left: a dead index is reset to 0 to keep states few.
LeaveLayer(l, ph, r) ==
  /\ at' = l + 1 /\ phase' = ph /\ result' = r
  /\ loop' = [loop EXCEPT ![l] = 0]

Return(l, r) == LeaveLayer(l, "response", r)
Raise(l, r)  == LeaveLayer(l, "error", r)

\* An exception inside the try block reaches this layer's own handle_error.
Catch(l, r) == at' = l /\ phase' = "error" /\ result' = r /\ UNCHANGED loop

\* mutant: a continue in the handler of the error skips the count
AgainForever(l) ==
  /\ at' = l /\ phase' = "request" /\ result' = Plain("ok")
  /\ UNCHANGED loop

\* A handler returned a Request: count the loop, and give up at the limit
\* outside the try block, so that only the layers further out can handle it.
Again(l) ==
  IF loop[l] + 1 >= MaxLoops
  THEN Raise(l, Plain("MaxRetriesExceed"))
  ELSE /\ loop' = [loop EXCEPT ![l] = @ + 1]
       /\ at' = l /\ phase' = "request" /\ result' = Plain("ok")

-----------------------------------------------------------------------------
(* Layers made of user hooks *)

HookRequest(l) ==
  /\ at = l /\ phase = "request" /\ l # RetryLayer
  /\ ctx' = Published(l)
  /\ \/ CallInner(l)
     \/ \E w \in {"ok", "bad"} :
          at' = l /\ phase' = "response" /\ result' = Plain(w) /\ UNCHANGED loop
     \/ Catch(l, Failure)
  /\ UNCHANGED <<opts, now, seen>>

HookResponse(l) ==
  /\ at = l /\ phase = "response" /\ l # RetryLayer
  /\ \/ Return(l, result)
     \/ plugin.hooks_retry /\ Again(l)
     \/ Catch(l, Failure)
  /\ UNCHANGED <<opts, ctx, now, seen>>

HookError(l) ==
  /\ at = l /\ phase = "error" /\ l # RetryLayer
  /\ \/ Raise(l, result)
     \/ Raise(l, Failure)
     \/ Return(l, Plain("ok"))
     \/ plugin.hooks_retry /\ Again(l)
  /\ UNCHANGED <<opts, ctx, now, seen>>

-----------------------------------------------------------------------------
(* The RetryPlugin *)

Limit == plugin.max_retries_timeout

\* mutant: only the number of retries is limited
TimeIsUpNever(retry_index, t) == FALSE

\* delta > 0 once a retry has been made
TimeIsUp(retry_index, t) == Limit # 0 /\ retry_index > 0 /\ t > Limit

\* The numbers that n + (random() * 2 - 1) * retry_delta_ratio * n may be.
Delta(n)  == (plugin.retry_delta_ratio * n) \div 100
Spread(n) == LET k == Delta(Gap(0, n)) IN (n - k)..(n + k)

\* The timeouts a request may leave process_request with.
NextTimeouts ==
  LET remaining == Gap(now, Limit)
      capped(to) == IF to \in {NoTimeout, 0} \/ to > remaining THEN remaining ELSE to
  IN  IF Limit = 0 THEN {ctx.timeout}
      ELSE IF plugin.retry_timeout = 0 THEN {capped(ctx.timeout)}
      ELSE {capped(to) : to \in Spread(plugin.retry_timeout)}

\* mutant: one attempt too many
OutOfRetriesLate(l) == loop[l] > plugin.max_retries

OutOfRetries(l) == loop[l] >= plugin.max_retries

RetryRequest(l) ==
  /\ at = l /\ phase = "request" /\ l = RetryLayer
  /\ \/ /\ OutOfRetries(l)
        /\ ctx' = Published(l)
        /\ Catch(l, Plain("MaxRetriesExceed"))
     \/ /\ ~OutOfRetries(l) /\ TimeIsUp(loop[l], now)
        /\ ctx' = Published(l)
        /\ Catch(l, Plain("MaxRetriesTimeoutExceed"))
     \/ /\ ~OutOfRetries(l) /\ ~TimeIsUp(loop[l], now)
        /\ \E to \in NextTimeouts : ctx' = [Published(l) EXCEPT !.timeout = to]
        /\ CallInner(l)
  /\ UNCHANGED <<opts, now, seen>>

\* mutant: the idempotent flag is not looked at
WhetherRetryAny(r) == r.what \in {"bad", "failure", "ValueError"}

\* whether_retry, with the default statuses and exceptions
WhetherRetry(r) ==
  /\ plugin.retry_on_idempotent_only => idempotent
  /\ r.what \in {"bad", "failure", "ValueError"}

\* The early returns of process_response and handle_error, in their order.
MayRetry(r) ==
  /\ r.what \notin GivenUp
  /\ ctx.retry_index + 1 < plugin.max_retries
  /\ WhetherRetry(r)

\* What the plugin reads of an answer: the header only when its name was given.
Read(r) == IF plugin.retry_after_headers THEN r ELSE Plain(r.what)

\* get_retry_after: a header wins over retry_interval.  A date is turned into
\* (current_time - try_dt), a negative number of seconds; the date of this
\* very moment is not later than current_time and float() refuses it.
Interval ==
  IF plugin.retry_interval = << >> THEN 0
  ELSE plugin.retry_interval[Least(Len(plugin.retry_interval), ctx.retry_index + 1)]

\* mutant: the header is never read
WaitNoHeader(r) == Interval

Wait(r) ==
  IF r.form = "seconds" /\ r.after > 0 THEN r.after
  ELSE IF r.form = "date" THEN 0 - r.after
  ELSE Interval

\* no interval at all returns 0 before the timeout is looked at
Unlimited(r)     == Limit = 0 \/ (r.after = 0 /\ plugin.retry_interval = << >>)
CannotWait(r, w) == ~Unlimited(r) /\ now + w > Limit
Slept(w)         == IF w > 0 THEN w ELSE 0

\* float() refuses a date, time.sleep a negative number (asyncio.sleep does not).
HeaderFails(r, w) ==
  /\ r.form = "date"
  /\ r.after = 0 \/ (w < 0 /\ ~CannotWait(r, w) /\ ~plugin.asynchronous)

\* What the plugin does with the answer r of the layer inside when the wait is w:
\* keep it, or sleep and retry unless the sleep ends too late.
Decide(l, r, w, keep, late) ==
  \/ /\ ~MayRetry(r) \/ CannotWait(r, w)
     /\ keep
     /\ UNCHANGED now
  \/ /\ MayRetry(r) /\ ~CannotWait(r, w)
     /\ now + Slept(w) <= MaxTime
     /\ now' = now + Slept(w)
     /\ IF TimeIsUp(ctx.retry_index, now') THEN late ELSE Again(l)

\* An exception of process_response is caught by the same layer.
RetryResponse(l) ==
  /\ at = l /\ phase = "response" /\ l = RetryLayer
  /\ LET r == Read(result) IN
     \E w \in Spread(Wait(r)) :
       \/ /\ MayRetry(r) /\ HeaderFails(r, w)
          /\ Catch(l, Plain("ValueError"))
          /\ UNCHANGED now
       \/ /\ ~(MayRetry(r) /\ HeaderFails(r, w))
          /\ Decide(l, r, w, Return(l, result), Catch(l, Plain("MaxRetriesTimeoutExceed")))
  /\ UNCHANGED <<opts, ctx, seen>>

\* An exception of handle_error leaves the layer; handle_error sees no headers.
RetryError(l) ==
  /\ at = l /\ phase = "error" /\ l = RetryLayer
  /\ LET r == Plain(result.what) IN
     \E w \in Spread(Wait(r)) :
       Decide(l, r, w, Raise(l, result), Raise(l, Plain("MaxRetriesTimeoutExceed")))
  /\ UNCHANGED <<opts, ctx, seen>>

-----------------------------------------------------------------------------
(* The transport: the server answers, or the connection fails or times out *)

\* the slot the plugin fills; the endpoint has no timeout of its own
Patience == IF ctx.timeout = NoTimeout THEN MaxLatency
            ELSE Least(ctx.timeout + Overshoot, MaxLatency)

Send ==
  /\ at = 0
  /\ \E d \in 0..Patience, w \in {"ok", "bad", "failure"}, f \in Headers, k \in 0..MaxAfter :
       /\ now + d <= MaxTime
       /\ w # "bad" => f = "none"
       /\ f = "none" => k = 0
       /\ result' = [what |-> w, form |-> f, after |-> k]
       /\ now' = now + d
       /\ answered' = result'
       /\ notBefore' = now' + k - Delta(k)
       /\ phase' = IF w = "failure" THEN "error" ELSE "response"
  /\ at' = 1
  /\ sends' = sends + 1
  /\ UNCHANGED <<opts, loop, ctx>>

ChainDone == Finished /\ UNCHANGED chainVars

Step(l) ==
  \/ HookRequest(l) \/ HookResponse(l) \/ HookError(l)
  \/ RetryRequest(l) \/ RetryResponse(l) \/ RetryError(l)

ChainNext == (\E l \in Layers : Step(l)) \/ Send \/ ChainDone

ChainSpec == ChainInit /\ [][ChainNext]_chainVars

\* The call runs in one thread or task, and every transport has a timeout.
ChainFair == ChainSpec /\ WF_chainVars(ChainNext)

-----------------------------------------------------------------------------
(* Properties *)

ChainTypeOK ==
  /\ plugin \in PluginType /\ idempotent \in BOOLEAN
  /\ at \in 0..(N + 1) /\ phase \in {"request", "response", "error"}
  /\ loop \in [Layers -> 0..(MaxLoops - 1)]
  /\ ctx \in [retry_index: 0..(MaxLoops - 1), timeout: {NoTimeout} \cup Nat]
  /\ result \in Answers /\ answered \in Answers
  /\ now \in 0..MaxTime /\ sends \in Nat /\ notBefore \in Nat

\* With retry_on_idempotent_only, an endpoint that is not idempotent is sent once,
\* whichever layer wrote the shared context last (whether_retry).
NonIdempotentOnce ==
  plugin.retry_on_idempotent_only /\ ~idempotent /\ ~plugin.hooks_retry => sends <= 1

\* How often n loops around one another call what is inside of them.
Nested[n \in Nat] == IF n = 0 THEN 1 ELSE MaxLoops * Nested[n - 1]

\* However the layers are nested and whatever the hooks return, one call of
\* the endpoint reaches the server at most max_retries times, times the loop
\* limit of each layer whose hooks retry on their own (retry.py process_request,
\* process_response, handle_error and the loop limit of cli/chain.py), and once if
\* it must not be repeated.
SendBound ==
  /\ sends <= Least(plugin.max_retries, MaxLoops)
              * (IF plugin.hooks_retry THEN Nested[N - 1] ELSE 1)
  /\ NonIdempotentOnce

\* max_retries_timeout bounds the whole call: every sleep ends before it, each
\* attempt gets the time that is left, and only the attempt whose transport
\* overshoots its timeout ends after it (handle_max_retries_timeout,
\* get_retry_after).
Deadline == Limit # 0 /\ ~plugin.hooks_retry => now <= Limit + Overshoot

\* Only the plugin next to the transport is sure to see the headers.
Direct == plugin.layer = 1 /\ ~plugin.hooks_retry

\* With the header's name in retry_after_headers, a retry never reaches the server
\* before the moment its last answer gave in seconds, but for the part of the wait that
\* retry_delta_ratio may take off.  By default no name is given and no header is read; of a date
\* the code takes the difference the wrong way round (get_retry_after, retry.py:245-279).
SecondsHonoured ==
  [][Direct /\ plugin.retry_after_headers /\ answered.form = "seconds" /\ sends' > sends
       => now >= notBefore]_chainVars

\* The call comes back to its caller, however often the hooks ask to retry.
Finishes == <>Finished
=============================================================================
