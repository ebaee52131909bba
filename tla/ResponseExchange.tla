-------------------------- MODULE ResponseExchange --------------------------
(***************************************************************************)
(* A response from the endpoint that gives it to the code that reads it    *)
(* (core/response/base.py): made from a response class, written to the     *)
(* wire by a backend, read by a Client, matched with the response classes  *)
(* the client endpoint declares, and possibly returned as it is by an      *)
(* endpoint of that client's own service, which is the next hop.           *)
(*                                                                         *)
(* A value is its kind, or a JSON object with one member per key of a      *)
(* response class.  Texts of messages and the order of headers are left    *)
(* out.  utype's parsing is external: a class accepts some kinds.          *)
(***************************************************************************)
EXTENDS Naturals, Sequences, FiniteSetsExt

CONSTANTS Templates,   \* response classes: [name, status, keys, accepts]
          Unions,      \* what client endpoints declare: sequences of classes
          Gifts,       \* what endpoints give
          Servers,     \* backends that write the response
          MaxHops      \* bound: services on the way

\* A gift has numbered cookies, finitely many, its result is not a file, and no two
\* members of its class share a key (they would share one place in the body).
ASSUME GiftAssumption ==
  \A g \in Gifts :
    /\ g.cookies \subseteq Nat /\ IsFiniteSet(g.cookies)
    /\ g.result.kind # "file"
    /\ IsInjective(g.template.keys)

VARIABLES given,     \* what the first endpoint gave
          stage,     \* idle, made, sent, received, typed or refused
          reply,     \* the Response object where the exchange is
          wire,      \* what was sent last
          hop,       \* how often it was sent
          remade     \* ghost: a client made a response anew, of a failure or of another class's

exchangeVars == <<given, stage, reply, wire, hop, remade>>

NoState   == 99      \* None; states are small numbers
NoFailure == [status |-> 0, state |-> NoState, text |-> "none"]
Bare(kind) == [kind |-> kind, members |-> [key \in {} |-> 0]]
NoWire    == [status |-> 0, type |-> "none", body |-> Bare("empty"), cookies |-> {},
              claimed |-> FALSE, packed |-> FALSE]

\* The class Response itself: no key, no annotation.
Base == [name |-> "Response", status |-> 0, keys |-> [role \in {} |-> ""], accepts |-> {}]

Wrapped(t)     == DOMAIN t.keys # {}
Accepts(t, v)  == t.accepts = {} \/ v.kind \in t.accepts
TypeOf(t)      == IF Wrapped(t) THEN "json" ELSE "none"
Succeeds(s)    == s < 400
WithoutBody    == {204, 205, 304}
Either(x, y, none) == IF x # none THEN x ELSE y
-----------------------------------------------------------------------------
\* The status an endpoint's response has: given, declared, of the error, 200.
StatusOf(g) ==
  Either(g.status, Either(g.template.status,
    IF g.failure = NoFailure THEN 200 ELSE Either(g.failure.status, 500, 0), 0), 0)

\* `state or self.state': a state 0 counts as none.
StateOf(g) ==
  IF g.state \notin {0, NoState} THEN g.state
  ELSE Either(g.failure.state, IF Succeeds(StatusOf(g)) THEN 1 ELSE 0, NoState)

MessageOf(g) == Either(g.message, g.failure.text, "none")

\* build_data: the object with a member for every key of the class.
Body(t, shown) ==
  IF ~Wrapped(t) THEN shown.result
  ELSE [kind |-> "object",
        members |-> [key \in {t.keys[role] : role \in DOMAIN t.keys} |->
                       shown[CHOOSE role \in DOMAIN t.keys : t.keys[role] = key]]]

\* Response.__init__ without an adaptor.  The result of the error is overwritten
\* by the result given, even if that is None.
Made(g) ==
  LET shown == [result |-> g.result, message |-> MessageOf(g), count |-> g.count,
                state |-> StateOf(g)]
      silent == StatusOf(g) \in WithoutBody
      content == IF silent THEN Bare("empty") ELSE Body(g.template, shown)
  IN [of |-> g.template, status |-> StatusOf(g), failure |-> g.failure, cookies |-> g.cookies,
      content |-> content, received |-> FALSE, adaptor |-> NoWire,
      result |-> g.result, message |-> shown.message, count |-> g.count, state |-> shown.state,
      type |-> IF silent THEN "none"
               ELSE Either(TypeOf(g.template),
                      CASE content.kind = "record" -> "json"
                        [] content.kind = "text"   -> "text"
                        [] content.kind = "bytes"  -> "octet"
                        [] OTHER -> "none", "none")]

\* What is written of a content: whatever is falsy becomes the empty body.
Written(v) == CASE v.kind \in {"none", "falsy", "empty"} -> Bare("empty")
                [] v.kind = "number" -> Bare("digits")
                [] OTHER -> v

\* starlette and django keep one Set-Cookie header, the last.
CookiesBy(server, cookies) ==
  IF server \in {"starlette", "django"} /\ cookies # {} THEN {Max(cookies)} ELSE cookies

\* get_content by the content type that came with the body.
ContentIn(w) == CASE w.type = "octet" -> Bare("file")
                  [] w.type = "json" /\ w.body.kind = "empty" -> Bare("none")
                  [] OTHER -> w.body

\* Mutant: the result is the whole body whatever the class says.
WholeBody(t, content) == content

\* parse_content: the member for the result, or all of it when it is missing.
ResultIn(t, content) ==
  IF content.kind = "object" /\ Wrapped(t)
  THEN IF "result" \notin DOMAIN t.keys THEN Bare("none")
       ELSE IF t.keys["result"] \in DOMAIN content.members THEN content.members[t.keys["result"]]
            ELSE content
  ELSE IF content.kind = "file" THEN Bare("none") ELSE content

\* A member of the body, None without it, the default if the class has no such key.
Member(t, content, role, none, default) ==
  IF content.kind # "object" \/ role \notin DOMAIN t.keys THEN default
  ELSE IF t.keys[role] \in DOMAIN content.members THEN content.members[t.keys[role]] ELSE none

\* Response.__init__ around what was received.
Read(t, w) ==
  LET content == ContentIn(w)
  IN [of |-> t, status |-> w.status, failure |-> NoFailure, cookies |-> w.cookies,
      content |-> content, received |-> TRUE, adaptor |-> w,
      type    |-> Either(w.type, TypeOf(t), "none"),
      result  |-> ResultIn(t, content),
      message |-> Member(t, content, "message", "none", "none"),
      count   |-> Member(t, content, "count", 0, 0),
      state   |-> Member(t, content, "state", NoState, IF Succeeds(w.status) THEN 1 ELSE 0)]

\* response_cls(response=response, strict=True): the body is read anew; of a
\* response that never was on a wire everything but message and cookies is copied.
As(t, r) ==
  IF r.received THEN Read(t, r.adaptor)
  ELSE Made([template |-> t, status |-> r.status, state |-> r.state, result |-> r.result,
             message |-> "none", count |-> r.count, failure |-> r.failure, cookies |-> {}])

\* The result fits the annotation of the class.
Fits(t, r) ==
  LET content == ContentIn(r.adaptor)
  IN IF ~r.received THEN Accepts(t, r.result)
     ELSE IF content.kind = "object" /\ Wrapped(t)
          THEN "result" \in DOMAIN t.keys => Accepts(t, ResultIn(t, content))
          ELSE Accepts(t, content)
-----------------------------------------------------------------------------
ExchangeInit ==
  /\ given \in Gifts /\ stage = "idle" /\ reply = Made(given)
  /\ wire = NoWire /\ hop = 0 /\ remade = FALSE

\* The endpoint returns its response.
Give ==
  /\ stage = "idle" /\ stage' = "made"
  /\ UNCHANGED <<given, reply, wire, hop, remade>>

\* reconstruct() of a backend.  A response that was received is written as its
\* body was read, decompressed, with the headers it came with; something between
\* the services may compress a body that does not claim to be.
SendResponse(server, compress) ==
  /\ stage = "made" /\ hop < MaxHops /\ hop' = hop + 1
  /\ LET body == IF reply.received /\ reply.adaptor.body.kind # "empty"
                 THEN reply.adaptor.body ELSE Written(reply.content)
         claims == reply.received /\ reply.adaptor.claimed
     IN /\ compress => (~claims /\ body.kind # "empty")
        /\ wire' = [status |-> reply.status, type |-> reply.type, body |-> body,
                    cookies |-> CookiesBy(server, reply.cookies),
                    claimed |-> claims \/ compress, packed |-> compress]
  /\ stage' = "sent"
  /\ UNCHANGED <<given, reply, remade>>

Receive ==
  /\ stage = "sent" /\ wire.claimed = wire.packed
  /\ reply' = Read(Base, wire) /\ stage' = "received"
  /\ UNCHANGED <<given, wire, hop, remade>>

\* Nothing came, or a body that claims to be compressed and is not.  A client that
\* fails silently makes a response of its own, with the status for aborted ones
\* also after a timeout.
FailSilently ==
  /\ stage = "sent"
  /\ reply' = Made([template |-> Base, status |-> 503, state |-> NoState, result |-> Bare("none"),
                    message |-> "none", count |-> 0, cookies |-> {},
                    failure |-> [NoFailure EXCEPT !.text = "raised"]])
  /\ stage' = "typed" /\ remade' = TRUE
  /\ UNCHANGED <<given, wire, hop>>

\* An internal client calls the API of its own process.
CallInside ==
  /\ stage = "made" /\ hop = 0 /\ stage' = "received"
  /\ UNCHANGED <<given, reply, wire, hop, remade>>

\* The classes of the union that a response can be read with.
Candidates(union, r) ==
  {i \in DOMAIN union : union[i].status \in {0, r.status} /\ Fits(union[i], r)}

\* It is what the endpoint declares already, or nothing is declared.
Declared(union, r) ==
  union \in {<<>>, <<Base>>} \/ \E i \in DOMAIN union : union[i] = r.of /\ r.of # Base

\* parse_response: the first class that fits.
Parse(union, silently) ==
  /\ stage = "received"
  /\ LET fitting == Candidates(union, reply)
     IN IF Declared(union, reply) THEN reply' = reply /\ stage' = "typed"
        ELSE IF fitting # {} THEN reply' = As(union[Min(fitting)], reply) /\ stage' = "typed"
        ELSE reply' = reply /\ stage' = IF silently THEN "typed" ELSE "refused"
  /\ remade' = (remade \/ (reply' # reply /\ ~reply.received))
  /\ UNCHANGED <<given, wire, hop>>

\* The reader is an endpoint and returns the response it got: _make_response
\* leaves a Response as it is.
Forward ==
  /\ stage = "typed" /\ hop < MaxHops /\ stage' = "made"
  /\ UNCHANGED <<given, reply, wire, hop, remade>>

ExchangeNext ==
  \/ Give
  \/ \E server \in Servers, compress \in BOOLEAN : SendResponse(server, compress)
  \/ Receive \/ FailSilently \/ CallInside \/ Forward
  \/ \E union \in Unions, silently \in BOOLEAN : Parse(union, silently)

ExchangeSpec == ExchangeInit /\ [][ExchangeNext]_exchangeVars
-----------------------------------------------------------------------------
\* Without keys the result is the body: bytes are read as a file, and what is
\* falsy is no body at all (base.py:1009).
BodyAsGiven == \/ Written(reply.result) = Written(given.result)
               \/ given.result.kind = "bytes" /\ reply.content = Bare("file")

\* Every key of the class says what the service gave.  A state 0 of a success is
\* the exception: it is read as 1 (base.py:243).
MembersAsGiven ==
  LET t == given.template
  IN /\ "result"  \in DOMAIN t.keys => reply.result = given.result
     /\ "message" \in DOMAIN t.keys => reply.message = MessageOf(given)
     /\ "count"   \in DOMAIN t.keys => reply.count = given.count
     /\ "state"   \in DOMAIN t.keys /\ given.state \notin {0, NoState} => reply.state = given.state
     /\ "state"   \in DOMAIN t.keys /\ given.failure # NoFailure /\ given.failure.state # NoState
                  /\ given.state = NoState => reply.state = given.failure.state

\* Whoever reads a response with the class it was made of, over any number of
\* services that return it as they got it, finds what the first endpoint gave:
\* the status, the result, the message, the count, the state of the error; of the
\* cookies at least the last.
ReadAsGiven ==
  (stage = "typed" /\ ~remade /\ reply.of = given.template) =>
    /\ reply.status = StatusOf(given)
    /\ given.cookies # {} => Max(given.cookies) \in reply.cookies
    /\ reply.status \notin WithoutBody =>
         IF Wrapped(given.template) THEN MembersAsGiven ELSE BodyAsGiven
=============================================================================
