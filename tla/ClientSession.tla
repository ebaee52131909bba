--------------------------- MODULE ClientSession ---------------------------
(***************************************************************************)
(* The session of a Client (core/cli/base.py): its cookies, the blocks of  *)
(* with and async with that isolate them, and the request clients (httpx)  *)
(* that a block keeps open.  Several threads or tasks use one Client, the  *)
(* root, and a client mounted under it, the sub-client.                    *)
(*                                                                         *)
(* One cookie is followed.  Its values are the numbers of the requests     *)
(* whose responses set it, None when it is absent or empty, and Own for a  *)
(* request that is given a value of its own.  A jar is a SimpleCookie;     *)
(* jars are numbered as they are made, so that sharing one is visible.     *)
(* A client that httpx keeps for a block has a jar too; it is used only    *)
(* when the Client sends no cookie at all, and is left out.                *)
(***************************************************************************)
EXTENDS Naturals, Sequences, SequencesExt

CONSTANTS Callers,        \* threads or tasks that share the Client
          MaxRequests,  \* bound: requests made
          MaxBlocks     \* bound: with statements entered

ASSUME BoundAssumption == MaxRequests \in Nat /\ MaxBlocks \in Nat

VARIABLES jarOf,    \* which jar is _cookies, of the root and of the sub-client
          jars,     \* their cookie; the first one is _original_cookies
          offered,  \* _request_clients of the root: a number of caches, or Nothing
          caches,   \* what each block keeps: [kind -> number of a request client]
          opened,   \* the request clients made so far: TRUE while open
          use,      \* [Callers -> what each is doing]
          made,     \* number of requests
          session,  \* ghost: what the last response of this block set, of those the
                    \* code stores: the responses of synchronous requests
          exited,   \* ghost: a block has ended
          mixed     \* ghost: blocks or requests met in a way with does not isolate

sessionVars == <<jarOf, jars, offered, caches, opened, use, made, session, exited, mixed>>

None    == 0
Own     == MaxRequests + 1
Keep    == MaxRequests + 2        \* a response without Set-Cookie
Nothing == 0                      \* no block, no request client
Kinds   == {"sync", "async"}
Original == 1

Idle == [pc |-> "idle", block |-> "none", of |-> "root", kind |-> "sync", number |-> 0,
         sent |-> None, due |-> None, cache |-> Nothing, client |-> Nothing, got |-> Keep]

SessionInit ==
  /\ jars = <<None, None>>
  /\ jarOf = [c \in {"root", "sub"} |-> 2]
  /\ offered = Nothing /\ caches = <<>> /\ opened = <<>>
  /\ use = [u \in Callers |-> Idle]
  /\ made = 0 /\ session = None /\ exited = FALSE /\ mixed = FALSE

Done(u)     == [Idle EXCEPT !.block = use[u].block]
Others(u)   == Callers \ {u}
InFlight(u) == use[u].pc \notin {"idle", "closing", "leaving"}
SomeoneLeaves == \E u \in Callers : use[u].pc \in {"closing", "leaving"}
\* an asynchronous request while somebody is inside a synchronous block
Mismatch(kind) == kind = "async" /\ \E u \in Callers : use[u].block = "sync"
-----------------------------------------------------------------------------
\* __enter__ and __aenter__: request clients are kept from now on.
EnterBlock(u, kind) ==
  /\ use[u].pc = "idle" /\ use[u].block = "none" /\ Len(caches) < MaxBlocks
  /\ caches' = Append(caches, [k \in Kinds |-> Nothing])
  /\ offered' = Len(caches')
  /\ use' = [use EXCEPT ![u].block = kind]
  /\ mixed' = (mixed \/ \E v \in Others(u) : use[v].block # "none" \/ InFlight(v))
  /\ UNCHANGED <<jarOf, jars, opened, made, session, exited>>

\* Mutant: the original cookies are not copied, and so later responses change them.
ExitBlockAliased(u) ==
  /\ use[u].pc = "idle" /\ use[u].block # "none"
  /\ jarOf' = [jarOf EXCEPT !["root"] = Original]
  /\ use' = [use EXCEPT ![u].pc = "closing"]
  /\ session' = None /\ exited' = TRUE
  /\ mixed' = (mixed \/ \E v \in Others(u) : InFlight(v))
  /\ UNCHANGED <<jars, offered, caches, opened, made>>

\* __exit__ and __aexit__, the session: a copy of the original cookies.  The
\* sub-client keeps the jar it was given.
ExitBlock(u) ==
  /\ use[u].pc = "idle" /\ use[u].block # "none"
  /\ jars' = Append(jars, jars[Original])
  /\ jarOf' = [jarOf EXCEPT !["root"] = Len(jars')]
  /\ use' = [use EXCEPT ![u].pc = "closing"]
  /\ session' = None /\ exited' = TRUE
  /\ mixed' = (mixed \/ \E v \in Others(u) : InFlight(v))
  /\ UNCHANGED <<offered, caches, opened, made>>

\* The request clients: an asynchronous one has no close(), only aclose().
Closable(kind) == IF kind = "async" THEN Kinds ELSE {"sync"}

CloseClients(u) ==
  /\ use[u].pc = "closing"
  /\ LET kept == IF offered = Nothing THEN {}
                 ELSE { caches[offered][k] : k \in Closable(use[u].block) }
     IN opened' = [c \in DOMAIN opened |-> opened[c] /\ c \notin kept]
  /\ use' = [use EXCEPT ![u].pc = "leaving"]
  /\ UNCHANGED <<jarOf, jars, offered, caches, made, session, exited, mixed>>

LeaveBlock(u) ==
  /\ use[u].pc = "leaving"
  /\ offered' = Nothing
  /\ use' = [use EXCEPT ![u] = Idle]
  /\ UNCHANGED <<jarOf, jars, caches, opened, made, session, exited, mixed>>
-----------------------------------------------------------------------------
\* The cookie header: the jar, overridden by the cookies of the request, which
\* stay out of the jar.
CookieHeader(of, own) == IF own THEN Own ELSE jars[jarOf[of]]

\* _build_request, or build_request of an endpoint, of the root or sub-client.
BuildRequest(u, of, kind, own) ==
  /\ use[u].pc = "idle" /\ made < MaxRequests
  /\ made' = made + 1
  /\ use' = [use EXCEPT ![u] = [@ EXCEPT !.pc = "built", !.of = of, !.kind = kind,
               !.number = made', !.sent = CookieHeader(of, own),
               !.due = IF own THEN Own ELSE session]]
  /\ mixed' = (mixed \/ SomeoneLeaves)
  /\ UNCHANGED <<jarOf, jars, offered, caches, opened, session, exited>>

\* The request client of this kind that the block keeps, if it is open.
KeptClient(block, kind) ==
  IF block # Nothing /\ caches[block][kind] # Nothing /\ opened[caches[block][kind]]
  THEN caches[block][kind] ELSE Nothing

\* The adaptor of httpx: takes the client of the block, or makes one, and keeps
\* it for the block.  A sub-client has entered no block.
Send(u) ==
  /\ use[u].pc = "built"
  /\ LET block  == IF use[u].of = "root" THEN offered ELSE Nothing
         kept   == KeptClient(block, use[u].kind)
         client == IF kept # Nothing THEN kept ELSE Len(opened) + 1
     IN /\ opened' = IF kept # Nothing THEN opened ELSE Append(opened, TRUE)
        /\ caches' = IF block = Nothing THEN caches
                     ELSE [caches EXCEPT ![block][use[u].kind] = client]
        /\ use' = [use EXCEPT ![u].pc = "sent", ![u].cache = block, ![u].client = client]
        /\ mixed' = (mixed \/ SomeoneLeaves \/ (block # Nothing /\ Mismatch(use[u].kind)))
  /\ UNCHANGED <<jarOf, jars, offered, made, session, exited>>

\* A request client that no block keeps is closed after its request.
ClosedAfter(u) ==
  IF use[u].cache = Nothing THEN [opened EXCEPT ![use[u].client] = FALSE] ELSE opened

\* The response arrives: it sets the cookie, empties it, or says nothing of it.
\* _make_async_request hands it on and stores nothing.
Answer(u, got) ==
  /\ use[u].pc = "sent" /\ opened[use[u].client]
  /\ opened' = ClosedAfter(u)
  /\ use' = [use EXCEPT ![u] = IF use[u].kind = "async" THEN Done(u)
                               ELSE [@ EXCEPT !.pc = "answered", !.got = got]]
  /\ UNCHANGED <<jarOf, jars, offered, caches, made, session, exited, mixed>>

\* The transport raises; also what a closed request client does.
Break(u) ==
  /\ use[u].pc = "sent"
  /\ opened' = ClosedAfter(u)
  /\ use' = [use EXCEPT ![u] = Done(u)]
  /\ UNCHANGED <<jarOf, jars, offered, caches, made, session, exited, mixed>>

\* _make_request stores the cookies of the response, whatever becomes of the
\* response in parse_response.
StoreCookies(u) ==
  /\ use[u].pc = "answered"
  /\ LET got == use[u].got
     IN /\ jars' = IF got = Keep THEN jars ELSE [jars EXCEPT ![jarOf[use[u].of]] = got]
        /\ session' = IF got = Keep \/ (use[u].of = "sub" /\ exited) THEN session ELSE got
  /\ use' = [use EXCEPT ![u] = Done(u)]
  /\ UNCHANGED <<jarOf, offered, caches, opened, made, exited, mixed>>

SessionNext ==
  \E u \in Callers :
    \/ \E kind \in Kinds : EnterBlock(u, kind)
    \/ ExitBlock(u) \/ CloseClients(u) \/ LeaveBlock(u)
    \/ \E of \in {"root", "sub"}, kind \in Kinds, own \in BOOLEAN : BuildRequest(u, of, kind, own)
    \/ Send(u) \/ Break(u) \/ StoreCookies(u)
    \/ \E got \in {None, use[u].number, Keep} : Answer(u, got)

SessionSpec == SessionInit /\ [][SessionNext]_sessionVars
-----------------------------------------------------------------------------
\* A request carries what the last response to a synchronous request of its block
\* set, and nothing of an earlier block; the sub-client shares this up to the end of
\* the first block.  This is less than the guide promises: docs/en/guide/client.md:566
\* says that cookies of a response are stored, and those of asynchronous responses
\* are dropped (_make_async_request, base.py:609-655), inside async with as well.
CarriesSession ==
  \A u \in Callers :
    use[u].pc \in {"built", "sent"} /\ (use[u].of = "root" \/ ~exited) => use[u].sent = use[u].due

\* With nobody inside a block and no request under way no request client is open.
ClientsClosed ==
  (\A u \in Callers : use[u].pc = "idle" /\ use[u].block = "none")
    => \A c \in DOMAIN opened : ~opened[c]

\* Blocks that do not meet isolate the session, as far as responses are stored at
\* all (those of synchronous requests), and leave no connection behind (__exit__
\* and __aexit__, base.py:347-375).
BlocksIsolate == ~mixed => CarriesSession /\ ClientsClosed

\* What the guide says of the end of a with statement: the session state in the
\* client is cleaned up.  Sub-clients keep theirs; no run checks it.
SessionCleared ==
  \A u \in Callers : ~mixed /\ use[u].pc = "built" /\ use[u].due = None => use[u].sent = None
=============================================================================
