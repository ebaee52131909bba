---------------------------- MODULE EventStream ----------------------------
(***************************************************************************)
(* Reading server-sent events (utils/protocol/sse.py SSEDecoder and        *)
(* core/response/sse.py SSEResponse).                                      *)
(*                                                                         *)
(* The server writes lines; the network cuts their bytes into chunks where *)
(* it likes.  _iter_chunks puts the bytes together until an event seems to *)
(* end, decode reads the lines, and the iterator of the response hands the *)
(* events on until one is named "close" or the reader runs out of time.    *)
(*                                                                         *)
(* A line is one byte of content or none, and its ending: "event" and      *)
(* "close" are event fields, "data", "id" and "retry" the other fields,    *)
(* "comment" a line that begins with a colon.                              *)
(***************************************************************************)
EXTENDS Naturals, Sequences, SequencesExt, FiniteSets

CONSTANTS Endings,   \* the line endings servers use
          MaxLines   \* bound: lines of a stream

CR == "cr"
LF == "lf"

ASSUME StreamAssumption == Endings \subseteq {<<CR>>, <<LF>>, <<CR, LF>>} /\ MaxLines \in Nat

VARIABLES ending,   \* the line ending of this server
          sent,     \* the lines the server has written
          wire,     \* the bytes on their way
          buffer,   \* _iter_chunks: the bytes of an event that has not ended
          fields,   \* decode: the fields of the current event
          events,   \* the events the reader has got
          reader    \* "reading", or how the iteration ended

streamVars == <<ending, sent, wire, buffer, fields, events, reader>>

Fields   == {"event", "close", "data", "id", "retry", "comment"}
Lines    == Fields \cup {"blank"}
NoFields == [event |-> "none", data |-> 0, id |-> FALSE, retry |-> FALSE]

StreamInit ==
  /\ ending \in Endings
  /\ sent = << >> /\ wire = << >> /\ buffer = << >>
  /\ fields = NoFields /\ events = << >> /\ reader = "reading"

-----------------------------------------------------------------------------
(* The bytes *)

Bytes(line) == (IF line = "blank" THEN << >> ELSE <<line>>) \o ending

\* bytes.splitlines(keepends=True)
LineEnds(b) ==
  {i \in DOMAIN b : \/ b[i] = LF \/ i = Len(b)
                    \/ b[i] = CR /\ b[i + 1] # LF}
SplitLines(b) ==
  LET ends  == SetToSortSeq(LineEnds(b), <)
      first(n) == IF n = 1 THEN 1 ELSE ends[n - 1] + 1
  IN  [n \in DOMAIN ends |-> SubSeq(b, first(n), ends[n])]

Content(l) == IF l[1] \in {CR, LF} THEN "blank" ELSE l[1]

EndsWith(b, s) == Len(b) >= Len(s) /\ SubSeq(b, Len(b) - Len(s) + 1, Len(b)) = s

EndsEvent(b) ==
  EndsWith(b, <<CR, CR>>) \/ EndsWith(b, <<LF, LF>>) \/ EndsWith(b, <<CR, LF, CR, LF>>)

-----------------------------------------------------------------------------
(* The decoder and the iterator: a state [fields, events, reader] *)

\* A blank line ends the event.  The id stays, and an event without name and data
\* cannot be made.
Dispatch(d) ==
  LET f == d.fields
      e == [event |-> f.event, data |-> f.data]
  IN  IF f = NoFields THEN d
      ELSE IF f.event = "none" /\ f.data = 0 THEN [d EXCEPT !.reader = "failed"]
      ELSE [fields |-> [NoFields EXCEPT !.id = f.id],
            events |-> IF f.event = "close" THEN d.events ELSE Append(d.events, e),
            reader |-> IF f.event = "close" THEN "closed" ELSE "reading"]

Decode(d, line) ==
  IF d.reader # "reading" THEN d
  ELSE CASE line = "blank"              -> Dispatch(d)
         [] line \in {"event", "close"} -> [d EXCEPT !.fields.event = line]
         [] line = "data"               -> [d EXCEPT !.fields.data = @ + 1]
         [] line = "id"                 -> [d EXCEPT !.fields.id = TRUE]
         [] line = "retry"              -> [d EXCEPT !.fields.retry = TRUE]
         [] OTHER                       -> d

DecodeAll(d, b) == FoldLeft(LAMBDA x, l : Decode(x, Content(l)), d, SplitLines(b))

\* mutant: every piece of a chunk is taken for a line
FeedPieces(s, l) == [s EXCEPT !.d = DecodeAll(s.d, l)]

\* One line of a chunk: the buffer is decoded when an event ends with it.
Feed(s, l) ==
  LET b == s.buffer \o l IN
  IF EndsEvent(b) THEN [buffer |-> << >>, d |-> DecodeAll(s.d, b)] ELSE [s EXCEPT !.buffer = b]

-----------------------------------------------------------------------------
Now == [fields |-> fields, events |-> events, reader |-> reader]
Became(d) == fields' = d.fields /\ events' = d.events /\ reader' = d.reader

\* The server writes a line.
Emit(line) ==
  /\ Len(sent) < MaxLines /\ reader = "reading"
  /\ sent' = Append(sent, line)
  /\ wire' = wire \o Bytes(line)
  /\ UNCHANGED <<ending, buffer, fields, events, reader>>

\* A chunk of n bytes arrives.
Chunk(n) ==
  LET s == FoldLeft(Feed, [buffer |-> buffer, d |-> Now], SplitLines(SubSeq(wire, 1, n))) IN
  /\ reader = "reading" /\ n \in 1..Len(wire)
  /\ wire' = SubSeq(wire, n + 1, Len(wire))
  /\ buffer' = s.buffer
  /\ Became(s.d)
  /\ UNCHANGED <<ending, sent>>

\* The stream ends, and what is in the buffer is decoded.
Finish ==
  LET d == DecodeAll(Now, buffer) IN
  /\ reader = "reading" /\ wire = << >>
  /\ buffer' = << >>
  /\ Became(IF d.reader = "reading" THEN [d EXCEPT !.reader = "ended"] ELSE d)
  /\ UNCHANGED <<ending, sent, wire>>

\* iter(read_timeout): the reader gets an event that says so, and no more.
ReadTimeout ==
  /\ reader = "reading"
  /\ events' = Append(events, [event |-> "error", data |-> 1])
  /\ reader' = "timeout"
  /\ UNCHANGED <<ending, sent, wire, buffer, fields>>

StreamNext ==
  \/ \E line \in Lines : Emit(line)
  \/ \E n \in 1..Len(wire) : Chunk(n)
  \/ Finish \/ ReadTimeout

StreamSpec == StreamInit /\ [][StreamNext]_streamVars

-----------------------------------------------------------------------------
(* Properties *)

StreamTypeOK ==
  /\ ending \in Endings
  /\ sent \in Seq(Lines) /\ Len(sent) <= MaxLines
  /\ wire \in Seq(Fields \cup {CR, LF}) /\ buffer \in Seq(Fields \cup {CR, LF})
  /\ fields \in [event: {"none", "event", "close"}, data: 0..MaxLines, id: BOOLEAN, retry: BOOLEAN]
  /\ events \in Seq([event: {"none", "event", "error"}, data: 0..MaxLines])
  /\ reader = "ended" => wire = << >> /\ buffer = << >>
  /\ reader \in {"reading", "ended", "closed", "failed", "timeout"}

\* The blocks of lines that a blank line ends, each with its last event field and
\* its number of data lines.
Blanks       == {i \in DOMAIN sent : sent[i] = "blank"}
BlockOf(i)   == {j \in 1..(i - 1) : ~\E b \in Blanks : j <= b /\ b < i}
NameOf(B)    == LET N == {j \in B : sent[j] \in {"event", "close"}}
                IN  IF N = {} THEN "none" ELSE sent[CHOOSE j \in N : \A i \in N : i <= j]
DataOf(B)    == Cardinality({j \in B : sent[j] = "data"})
IsEvent(i)   == NameOf(BlockOf(i)) # "none" \/ DataOf(BlockOf(i)) > 0
BeforeClose  == {i \in Blanks : IsEvent(i) /\ ~\E c \in Blanks : c <= i /\ NameOf(BlockOf(c)) = "close"}
Written ==
  LET at == SetToSortSeq(BeforeClose, <)
  IN  [n \in DOMAIN at |-> [event |-> NameOf(BlockOf(at[n])), data |-> DataOf(BlockOf(at[n]))]]

\* However the network cuts the bytes and whichever line ending the server uses,
\* the reader gets the events that were written, in order, none of them twice or in
\* parts.
EventsAsWritten ==
  LET got == IF reader = "timeout" THEN Front(events) ELSE events IN
  /\ IsPrefix(got, Written)
  /\ reader \in {"ended", "closed"} => got = Written

\* "iterate over it & yield every event encountered": a stream is never given up
\* (sse.py docstring of iter_bytes).
NeverFails == reader # "failed"
=============================================================================
