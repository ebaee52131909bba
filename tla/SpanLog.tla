------------------------------ MODULE SpanLog ------------------------------
(***************************************************************************)
(* The logger of one request (ops/log/logger.py): messages, nested spans   *)
(* opened by `with log(name)`, and the row made of them after the response *)
(* (ops/log/middleware.py).  The tasks of the request share the logger     *)
(* object; the current logger is a context variable, of which every task   *)
(* has its own copy.                                                       *)
(*                                                                         *)
(* Loggers and events are numbered as they are made; logger Root belongs   *)
(* to the request.  The data of a span is a dict that a logger and the     *)
(* event of the span share until the logger opens a span itself: then it   *)
(* has a dict of its own.                                                  *)
(***************************************************************************)
EXTENDS Naturals, Sequences, SequencesExt, FiniteSetsExt

CONSTANTS Tasks,     \* tasks of the request
          Main,      \* the one that serves it
          MaxSpans,  \* bound: spans opened
          MaxEmits   \* bound: messages logged

ASSUME SpanAssumption == Main \in Tasks /\ MaxSpans \in Nat /\ MaxEmits \in Nat

VARIABLES loggers,   \* the loggers made so far
          entries,   \* the events made so far
          current,   \* [Tasks -> the logger of store.logger]
          blocks,    \* [Tasks -> the loggers whose __exit__ is to come, innermost last]
          record,    \* what became of the request's log
          spanOwner, \* ghost: the task that opened each logger
          crossed    \* ghost: a task has closed a span of another

spanVars == <<loggers, entries, current, blocks, record, spanOwner, crossed>>

Root   == 1
Nil    == 0
Info   == 1
Error  == 3
Levels == {Info, Error}
Shared == 0    \* of a logger's data: the dict of its event
Owned  == 1    \*                     a dict of its own

NewLogger(parent, event) ==
  [from |-> parent, child |-> Nil, event |-> event, data |-> Shared, exited |-> FALSE,
   level |-> Nil, events |-> {}, messages |-> {}]

SpanInit ==
  /\ loggers = <<NewLogger(Nil, Nil)>> /\ entries = <<>>
  /\ current = [t \in Tasks |-> Root] /\ blocks = [t \in Tasks |-> <<>>]
  /\ record = [pc |-> "open", level |-> Nil, trace |-> {}, committed |-> {}]
  /\ spanOwner = <<Main>> /\ crossed = FALSE

\* The chain of open spans below a logger, itself first.
Below[l \in DOMAIN loggers] ==
  IF loggers[l].child = Nil THEN <<l>> ELSE <<l>> \o Below[loggers[l].child]

Deepest(l) == Last(Below[l])

\* The loggers a task can call: the one it was given, and its current one.
Reached(t) == {Root} \cup ({current[t]} \ {Nil})
-----------------------------------------------------------------------------
\* with log(name): the innermost logger gets an event and a child.  Its own span
\* data is replaced, and with it the way back to its own event.
OpenSpan(t, l) ==
  /\ Len(loggers) <= MaxSpans /\ record.pc # "made"
  /\ LET m == Deepest(l)
         e == Len(entries) + 1
         n == Len(loggers) + 1
     IN /\ entries' = Append(entries, [inner |-> Nil, level |-> Nil, in |-> m])
        /\ loggers' = Append([loggers EXCEPT ![m].data = Owned, ![m].child = n,
                                             ![m].events = @ \cup {e}], NewLogger(m, e))
        /\ current' = [current EXCEPT ![t] = n]
        /\ blocks' = [blocks EXCEPT ![t] = Append(@, m)]
        /\ crossed' = (crossed \/ (m # Root /\ spanOwner[m] # t))
  /\ spanOwner' = Append(spanOwner, t)
  /\ UNCHANGED record

\* exit() of a logger also ends the loggers below it, down to one that has ended.
Ending(l) ==
  { m \in ToSet(Below[l]) :
      \A k \in ToSet(Below[l]) : m \in ToSet(Below[k]) => ~loggers[k].exited }

Exited(l) == [m \in DOMAIN loggers |->
               IF m \in Ending(l) THEN [loggers[m] EXCEPT !.exited = TRUE] ELSE loggers[m]]

\* Mutant: the event of the span does not get what was logged in it.
FilledNever(l) == entries

\* The event of an ended logger gets its events, if the two still share a dict.
Filled(l) == [e \in DOMAIN entries |->
  IF \E m \in Ending(l) : loggers[m].event = e /\ loggers[m].data = Shared
  THEN [entries[e] EXCEPT !.inner = CHOOSE m \in Ending(l) : loggers[m].event = e]
  ELSE entries[e]]

\* The end of a with block, also when an exception leaves it.
CloseSpan(t) ==
  /\ blocks[t] # <<>> /\ record.pc # "made"
  /\ LET m == Last(blocks[t])
         c == loggers[m].child
     IN IF c = Nil THEN UNCHANGED <<loggers, entries, current, crossed>>
        ELSE /\ loggers' = [Exited(c) EXCEPT ![m].child = Nil]
             /\ entries' = Filled(c)
             /\ current' = IF loggers[c].exited THEN current ELSE [current EXCEPT ![t] = m]
             /\ crossed' = (crossed \/ \E k \in ToSet(Below[c]) : spanOwner[k] # t)
  /\ blocks' = [blocks EXCEPT ![t] = Front(@)]
  /\ UNCHANGED <<record, spanOwner>>

\* _push_message: the messages are collected in the logger of the request.
Collector(l) == Root

\* emit(): the innermost logger gets an event and its level, the messages go up.
Emitted(l, level) ==
  LET m == Deepest(l)
      e == Len(entries) + 1
  IN /\ entries' = Append(entries, [inner |-> Nil, level |-> level, in |-> m])
     /\ loggers' = [[loggers EXCEPT ![m].events = @ \cup {e},
                                    ![m].level = IF @ < level THEN level ELSE @]
                      EXCEPT ![Collector(m)].messages = @ \cup {e}]

Emit(t, l, level) ==
  /\ Cardinality({ e \in DOMAIN entries : entries[e].level # Nil }) < MaxEmits
  /\ record.pc # "made" /\ Emitted(l, level)
  /\ UNCHANGED <<current, blocks, record, spanOwner, crossed>>

\* The middleware's process_response: the current logger of the serving task
\* ends, and the response waits in the queue.
Respond ==
  /\ record.pc = "open" /\ blocks[Main] = <<>>
  /\ LET l == current[Main]
     IN /\ loggers' = Exited(l)
        /\ entries' = Filled(l)
        /\ current' = IF loggers[l].exited THEN current
                      ELSE [current EXCEPT ![Main] = loggers[l].from]
        /\ crossed' = (crossed \/ \E k \in ToSet(Below[l]) : spanOwner[k] # Main)
  /\ record' = [record EXCEPT !.pc = "queued"]
  /\ UNCHANGED <<blocks, spanOwner>>

\* The events that the list of the request's logger leads to, through the spans
\* that were filled.
Found[depth \in 0..Len(loggers)] ==
  IF depth = 0 THEN loggers[Root].events
  ELSE Found[depth - 1] \cup
       UNION { loggers[entries[e].inner].events :
                 e \in { f \in Found[depth - 1] : entries[f].inner # Nil } }

Trace == Found[Len(loggers)]

\* generate_log: the level is taken before the error of the response is committed.
Generate(status, error) ==
  /\ record.pc = "queued"
  /\ IF error THEN Emitted(Root, status) ELSE UNCHANGED <<loggers, entries>>
  /\ record' = [pc |-> "made", trace |-> Trace',
                level |-> IF loggers[Root].level = Nil THEN status ELSE loggers[Root].level,
                committed |-> IF error THEN {Len(entries) + 1} ELSE {}]
  /\ UNCHANGED <<current, blocks, spanOwner, crossed>>

SpanNext ==
  \/ \E t \in Tasks :
       \/ \E l \in Reached(t) : OpenSpan(t, l) \/ \E level \in Levels : Emit(t, l, level)
       \/ CloseSpan(t)
  \/ Respond
  \/ \E status \in Levels, error \in BOOLEAN : Generate(status, error)

SpanSpec == SpanInit /\ [][SpanNext]_spanVars
-----------------------------------------------------------------------------
Messages == { e \in DOMAIN entries : entries[e].level # Nil }

\* The row has every message, from whatever span it came.
AllMessages == loggers[Root].messages = Messages

\* The loggers of spans that a logger is inside of, its own first.
Above[l \in DOMAIN loggers] == IF l = Root THEN {} ELSE {l} \cup Above[loggers[l].from]

\* An event is missing in the trace only if it lies in a span that had a span
\* opened in it, or in a span that was still open.
TraceComplete ==
  record.pc = "made" =>
    \A e \in Messages \ record.trace :
      \E l \in Above[entries[e].in] : loggers[l].data = Owned \/ ~loggers[l].exited

\* The level of the row is that of the worst message outside of spans, but for the
\* error that is committed last.
LevelOfWorst ==
  record.pc = "made" =>
    \A e \in Messages \ record.committed : entries[e].in = Root => record.level >= entries[e].level

\* A task that has closed its blocks logs where it did before, unless another
\* task has closed a span of it.
ContextRestored ==
  ~crossed => \A t \in Tasks : blocks[t] = <<>> => current[t] = Root \/ record.pc # "open"

\* What is logged in a request reaches its row: the messages all of it, the trace
\* except for what a nested span drops, and what follows a span is outside of it
\* (Logger.__enter__, __exit__, exit and emit).
RowComplete == AllMessages /\ TraceComplete /\ LevelOfWorst /\ ContextRestored
=============================================================================
