--------------------------- MODULE Exchange_proof ---------------------------
(***************************************************************************)
(* Proofs about both ends of an exchange, the session of a Client          *)
(* (ClientSession) and the middlewares of a service (ServerMiddleware),    *)
(* about the response that goes between them (ResponseExchange), and about *)
(* the log that the service makes of a request (SpanLog).                  *)
(***************************************************************************)
EXTENDS ClientSession, ServerMiddleware, ResponseExchange, SpanLog,
        SequenceTheorems, FiniteSetTheorems, WellFoundedInduction, TLAPS
-----------------------------------------------------------------------------
(***************************************************************************)
(* Proofs about ClientSession, for any set of callers: blocks of with that *)
(* do not meet isolate the session of the Client and leave no connection   *)
(* behind.                                                                 *)
(***************************************************************************)

USE BoundAssumption

Uses == [pc: {"idle", "built", "sent", "answered", "closing", "leaving"},
         block: {"none", "sync", "async"}, of: {"root", "sub"}, kind: Kinds,
         number: Nat, sent: Nat, due: Nat, cache: Nat, client: Nat, got: Nat]

ClientTypeOK ==
  /\ jars \in Seq(Nat) /\ Len(jars) >= 2
  /\ jarOf \in [{"root", "sub"} -> 2..Len(jars)]
  /\ caches \in Seq([Kinds -> Nat]) /\ offered \in 0..Len(caches)
  /\ opened \in Seq(BOOLEAN)
  /\ use \in [Callers -> Uses]
  /\ made \in Nat /\ session \in Nat /\ exited \in BOOLEAN /\ mixed \in BOOLEAN

\* The jar of the root has what the last response set; the sub-client shares it
\* until a block ends, and nobody has the original one.
JarInv ==
  /\ jars[Original] = None
  /\ jars[jarOf["root"]] = session
  /\ jarOf["sub"] = 2 /\ (jarOf["root"] = 2 <=> ~exited)
  /\ CarriesSession

Inside(u) == use[u].block # "none"
Leaving(u) == use[u].pc \in {"closing", "leaving"}
Keeps(c)  == offered # Nothing /\ \E k \in Kinds : caches[offered][k] = c
Uses1(u, c) == use[u].pc = "sent" /\ use[u].cache = Nothing /\ use[u].client = c

\* At most one caller is inside a block, and nobody has a request on its way while
\* that one leaves it; a block is offered while somebody is inside.
OneBlock ==
  /\ \A u, v \in Callers : Inside(u) /\ Inside(v) => u = v
  /\ \A u \in Callers : Leaving(u) => Inside(u) /\ \A v \in Callers : ~InFlight(v)
  /\ offered # Nothing <=> \E u \in Callers : Inside(u)

\* An open request client is kept by the block or used by the one request it was
\* made for; a synchronous block keeps none that it cannot close.
NoneLeftOpen ==
  /\ \A u \in Callers : use[u].block = "sync" => caches[offered]["async"] = Nothing
  /\ \A c \in DOMAIN opened : opened[c] => Keeps(c) \/ \E u \in Callers : Uses1(u, c)
  /\ \A u \in Callers : use[u].pc = "leaving" => \A c \in DOMAIN opened : ~opened[c]

\* Blocks that do not meet.
BlockInv == ~mixed => OneBlock /\ NoneLeftOpen

ClientInv == ClientTypeOK /\ JarInv /\ BlockInv
-----------------------------------------------------------------------------
\* A Client that nobody uses has the two empty jars and no block.
LEMMA ClientInitInv == SessionInit => ClientInv
  <1> SUFFICES ASSUME SessionInit PROVE ClientInv
    OBVIOUS
  <1>1. Idle \in Uses
    BY DEF Idle, Uses, Kinds, Keep, None, Nothing
  <1>2. ClientTypeOK
    <2>1. jars = <<0, 0>> /\ jarOf = [c \in {"root", "sub"} |-> 2]
      BY DEF SessionInit, None
    <2>2. jars \in Seq(Nat) /\ Len(jars) = 2
      BY <2>1
    <2>3. jarOf \in [{"root", "sub"} -> 2..Len(jars)]
      BY <2>1, <2>2
    <2>4. caches = << >> /\ opened = << >> /\ offered = 0
      BY DEF SessionInit, Nothing
    <2>5. caches \in Seq([Kinds -> Nat]) /\ opened \in Seq(BOOLEAN) /\ offered \in 0..Len(caches)
      BY <2>4
    <2>6. use \in [Callers -> Uses]
      BY <1>1 DEF SessionInit
    <2>7. made \in Nat /\ session \in Nat /\ exited \in BOOLEAN /\ mixed \in BOOLEAN
      BY DEF SessionInit, None
    <2>8. Len(jars) >= 2
      BY <2>2
    <2> QED
      BY <2>2, <2>3, <2>5, <2>6, <2>7, <2>8 DEF ClientTypeOK
  <1>3. \A u \in Callers : use[u] = Idle
    BY DEF SessionInit
  <1>4. JarInv
    BY <1>3 DEF SessionInit, JarInv, CarriesSession, Idle, Original, None
  <1>5. BlockInv
    <2>1. OneBlock
      BY <1>3 DEF SessionInit, OneBlock, Inside, Leaving, InFlight, Idle
    <2>2. DOMAIN opened = {}
      BY DEF SessionInit
    <2>3. NoneLeftOpen
      BY <1>3, <2>2 DEF SessionInit, NoneLeftOpen, Idle
    <2> QED
      BY <2>1, <2>3 DEF BlockInv
  <1> QED
    BY <1>2, <1>4, <1>5 DEF ClientInv

\* A caller that is given another record leaves the others theirs.
LEMMA Given ==
  ASSUME NEW u \in Callers, NEW p \in Uses, use \in [Callers -> Uses],
         use' = [use EXCEPT ![u] = p]
  PROVE  /\ use' \in [Callers -> Uses]
         /\ use'[u] = p
         /\ \A v \in Callers \ {u} : use'[v] = use[v]
  OBVIOUS

\* The records a caller may be given.
LEMMA DoneType ==
  ASSUME NEW u \in Callers, use \in [Callers -> Uses]
  PROVE  /\ Done(u) \in Uses /\ Done(u).pc = "idle" /\ Done(u).block = use[u].block
         /\ Idle \in Uses /\ Idle.pc = "idle" /\ Idle.block = "none"
  BY DEF Done, Idle, Uses, Kinds, Keep, None, Nothing
-----------------------------------------------------------------------------
\* Entering a block.
LEMMA EnterBlockInv ==
  ASSUME ClientInv, NEW u \in Callers, NEW kind \in Kinds, EnterBlock(u, kind)
  PROVE  ClientInv'
  <1> DEFINE p == [use[u] EXCEPT !.block = kind]
             empty == [k \in Kinds |-> Nothing]
  <1>0. use \in [Callers -> Uses] /\ use[u] \in Uses
    BY DEF ClientInv, ClientTypeOK
  <1>1. p \in Uses /\ p.pc = "idle" /\ p.block = kind
    BY <1>0 DEF Uses, Kinds, EnterBlock
  <1>2. use' = [use EXCEPT ![u] = p]
    BY <1>0 DEF EnterBlock
  <1> HIDE DEF p
  <1>3. /\ use' \in [Callers -> Uses] /\ use'[u] = p
        /\ \A v \in Callers \ {u} : use'[v] = use[v]
    BY <1>0, <1>1, <1>2, Given
  <1>4. empty \in [Kinds -> Nat] /\ \A k \in Kinds : empty[k] = Nothing
    BY DEF Nothing
  <1> HIDE DEF empty
  <1>5. /\ caches' = Append(caches, empty) /\ caches' \in Seq([Kinds -> Nat])
        /\ offered' = Len(caches) + 1 /\ caches'[offered'] = empty /\ Len(caches') = Len(caches) + 1
    <2>1. caches' = Append(caches, empty) /\ offered' = Len(caches')
      BY DEF EnterBlock, empty
    <2> QED
      BY <2>1, <1>4 DEF ClientInv, ClientTypeOK
  <1>6. ClientTypeOK'
    <2>1. UNCHANGED <<jarOf, jars, opened, made, session, exited>> /\ mixed' \in BOOLEAN
      BY DEF EnterBlock, ClientInv, ClientTypeOK
    <2> QED
      BY <2>1, <1>3, <1>5 DEF ClientTypeOK, ClientInv
  <1>7. JarInv'
    <2>1. UNCHANGED <<jars, jarOf, session, exited>>
      BY DEF EnterBlock
    <2>2. CarriesSession'
      BY <1>1, <1>3, <2>1 DEF ClientInv, JarInv, CarriesSession
    <2> QED
      BY <2>1, <2>2 DEF ClientInv, JarInv
  <1>8. ASSUME ~mixed' PROVE OneBlock' /\ NoneLeftOpen'
    <2>1. /\ ~mixed /\ \A v \in Callers \ {u} : use[v].block = "none" /\ ~InFlight(v)
          /\ use[u].pc = "idle" /\ use[u].block = "none" /\ opened' = opened
      BY <1>8 DEF EnterBlock, Others
    <2>2. OneBlock /\ NoneLeftOpen
      BY <2>1 DEF ClientInv, BlockInv
    <2>3. \A v \in Callers : ~Leaving(v) /\ ~InFlight(v) /\ ~Inside(v)
      BY <2>1, <2>2 DEF OneBlock, Leaving, Inside, InFlight
    <2>4. \A c \in DOMAIN opened : ~opened[c]
      BY <2>2, <2>3 DEF OneBlock, NoneLeftOpen, Keeps, Uses1, InFlight
    <2>5. kind # "none" /\ offered' # Nothing
      BY <1>5 DEF Kinds, Nothing, ClientInv, ClientTypeOK
    <2>6. \A v \in Callers : Inside(v)' <=> v = u
      BY <1>1, <1>3, <2>3, <2>5 DEF Inside
    <2>7. \A v \in Callers : ~Leaving(v)' /\ ~InFlight(v)'
      BY <1>1, <1>3, <2>3 DEF Leaving, InFlight
    <2>8. OneBlock'
      BY <2>5, <2>6, <2>7 DEF OneBlock
    <2>9. caches'[offered']["async"] = Nothing
      BY <1>4, <1>5 DEF Kinds
    <2>10. NoneLeftOpen'
      BY <2>1, <2>4, <2>7, <2>9 DEF NoneLeftOpen, Leaving
    <2> QED
      BY <2>8, <2>10
  <1> QED
    BY <1>6, <1>7, <1>8 DEF ClientInv, BlockInv

\* Leaving a block, the session: the root has a jar of its own again.
LEMMA ExitBlockInv ==
  ASSUME ClientInv, NEW u \in Callers, ExitBlock(u)
  PROVE  ClientInv'
  <1> DEFINE p == [use[u] EXCEPT !.pc = "closing"]
  <1>0. use \in [Callers -> Uses] /\ use[u] \in Uses
    BY DEF ClientInv, ClientTypeOK
  <1>1. p \in Uses /\ p.pc = "closing" /\ p.block = use[u].block
    BY <1>0 DEF Uses
  <1>2. use' = [use EXCEPT ![u] = p]
    BY <1>0 DEF ExitBlock
  <1> HIDE DEF p
  <1>3. /\ use' \in [Callers -> Uses] /\ use'[u] = p
        /\ \A v \in Callers \ {u} : use'[v] = use[v]
    BY <1>0, <1>1, <1>2, Given
  <1>4. /\ jars' \in Seq(Nat) /\ Len(jars') = Len(jars) + 1 /\ Len(jars) \in Nat /\ Len(jars) >= 2
        /\ jars'[Len(jars')] = jars[Original] /\ jars'[Original] = jars[Original]
    <2>1. jars \in Seq(Nat) /\ Len(jars) \in Nat /\ Len(jars) >= 2 /\ jars[Original] \in Nat
      BY DEF ClientInv, ClientTypeOK, JarInv, None
    <2>2. jars' = Append(jars, jars[Original])
      BY DEF ExitBlock
    <2> QED
      BY <2>1, <2>2 DEF Original
  <1>5. /\ jarOf \in [{"root", "sub"} -> 2..Len(jars)]
        /\ jarOf' = [jarOf EXCEPT !["root"] = Len(jars')]
        /\ session' = None /\ exited' = TRUE
        /\ UNCHANGED <<offered, caches, opened, made>>
    BY DEF ExitBlock, ClientInv, ClientTypeOK
  <1>6. jarOf' \in [{"root", "sub"} -> 2..Len(jars')] /\ jarOf'["root"] = Len(jars')
        /\ jarOf'["sub"] = jarOf["sub"]
    <2>1. Len(jars') \in 2..Len(jars') /\ 2..Len(jars) \subseteq 2..Len(jars')
      BY <1>4
    <2> QED
      BY <1>5, <2>1
  <1>7. ClientTypeOK'
    <2>1. mixed' \in BOOLEAN
      BY DEF ExitBlock, ClientInv, ClientTypeOK
    <2>2. opened' = opened
      BY DEF ExitBlock
    <2>3. Len(jars') >= 2 /\ session' \in Nat /\ exited' \in BOOLEAN
      BY <1>4, <1>5 DEF None
    <2> QED
      BY <2>1, <2>2, <2>3, <1>3, <1>4, <1>5, <1>6 DEF ClientTypeOK, ClientInv
  <1>8. JarInv'
    <2>1. CarriesSession'
      BY <1>1, <1>3, <1>5 DEF ClientInv, JarInv, CarriesSession
    <2> QED
      BY <2>1, <1>4, <1>5, <1>6 DEF ClientInv, JarInv
  <1>9. ASSUME ~mixed' PROVE OneBlock' /\ NoneLeftOpen'
    <2>1. /\ ~mixed /\ \A v \in Callers \ {u} : ~InFlight(v)
          /\ use[u].pc = "idle" /\ use[u].block # "none"
      BY <1>9 DEF ExitBlock, Others
    <2>2. OneBlock /\ NoneLeftOpen
      BY <2>1 DEF ClientInv, BlockInv
    <2>3. \A v \in Callers : (Inside(v)' <=> Inside(v)) /\ ~InFlight(v) /\ ~InFlight(v)'
      BY <1>1, <1>3, <2>1 DEF Inside, InFlight
    <2>4. Inside(u) /\ \A v \in Callers : Leaving(v)' => v = u \/ Leaving(v)
      BY <1>3, <2>1 DEF Leaving, Inside
    <2>5. OneBlock'
      BY <1>5, <2>2, <2>3, <2>4 DEF OneBlock
    <2>6. \A v \in Callers, c \in DOMAIN opened : ~Uses1(v, c)
      BY <2>3 DEF Uses1, InFlight
    <2>7. \A v \in Callers : use'[v].block = use[v].block /\ (use'[v].pc = "leaving" => use[v].pc = "leaving")
      BY <1>1, <1>3
    <2>8. NoneLeftOpen'
      BY <1>5, <2>2, <2>6, <2>7 DEF NoneLeftOpen, Keeps
    <2> QED
      BY <2>5, <2>8
  <1> QED
    BY <1>7, <1>8, <1>9 DEF ClientInv, BlockInv

\* Leaving a block, its request clients: all those that this kind of block can close.
LEMMA CloseClientsInv ==
  ASSUME ClientInv, NEW u \in Callers, CloseClients(u)
  PROVE  ClientInv'
  <1> DEFINE p == [use[u] EXCEPT !.pc = "leaving"]
             kept == IF offered = Nothing THEN {}
                     ELSE { caches[offered][k] : k \in Closable(use[u].block) }
  <1>0. use \in [Callers -> Uses] /\ use[u] \in Uses /\ use[u].pc = "closing"
    BY DEF ClientInv, ClientTypeOK, CloseClients
  <1>1. p \in Uses /\ p.pc = "leaving" /\ p.block = use[u].block
    BY <1>0 DEF Uses
  <1>2. use' = [use EXCEPT ![u] = p]
    BY <1>0 DEF CloseClients
  <1> HIDE DEF p
  <1>3. /\ use' \in [Callers -> Uses] /\ use'[u] = p
        /\ \A v \in Callers \ {u} : use'[v] = use[v]
    BY <1>0, <1>1, <1>2, Given
  <1>4. opened' = [c \in DOMAIN opened |-> opened[c] /\ c \notin kept]
    BY DEF CloseClients
  <1> HIDE DEF kept
  <1>5. opened' \in Seq(BOOLEAN) /\ DOMAIN opened' = DOMAIN opened
        /\ \A c \in DOMAIN opened : opened'[c] <=> opened[c] /\ c \notin kept
    <2>1. opened \in [1..Len(opened) -> BOOLEAN] /\ Len(opened) \in Nat /\ DOMAIN opened = 1..Len(opened)
      BY DEF ClientInv, ClientTypeOK
    <2>2. opened' \in [1..Len(opened) -> BOOLEAN]
      BY <2>1, <1>4
    <2>3. opened' \in Seq(BOOLEAN)
      BY <2>1, <2>2, SeqDef
    <2> QED
      BY <1>4, <2>3
  <1>6. ClientTypeOK'
    BY <1>3, <1>5 DEF ClientTypeOK, ClientInv, CloseClients
  <1>7. JarInv'
    <2>1. UNCHANGED <<jars, jarOf, session, exited>>
      BY DEF CloseClients
    <2>2. CarriesSession'
      BY <1>1, <1>3, <2>1 DEF ClientInv, JarInv, CarriesSession
    <2> QED
      BY <2>1, <2>2 DEF ClientInv, JarInv
  <1>8. ASSUME ~mixed' PROVE OneBlock' /\ NoneLeftOpen'
    <2>1. ~mixed /\ UNCHANGED <<offered, caches>>
      BY <1>8 DEF CloseClients
    <2>2. OneBlock /\ NoneLeftOpen
      BY <2>1 DEF ClientInv, BlockInv
    <2>3. Inside(u) /\ \A v \in Callers : ~InFlight(v)
      BY <1>0, <2>2 DEF OneBlock, Leaving
    <2>4. \A v \in Callers : (Inside(v)' <=> Inside(v)) /\ ~InFlight(v)'
      BY <1>1, <1>3, <2>3 DEF Inside, InFlight
    <2>5. \A v \in Callers : Leaving(v)' => v = u \/ Leaving(v)
      BY <1>3 DEF Leaving
    <2>6. OneBlock'
      BY <2>1, <2>2, <2>3, <2>4, <2>5 DEF OneBlock
    <2>7. offered # Nothing
      BY <2>2, <2>3 DEF OneBlock
    <2>8. \A c \in DOMAIN opened : c # Nothing
      BY DEF ClientInv, ClientTypeOK, Nothing
    <2>9. \A k \in Kinds : caches[offered][k] \in kept \/ caches[offered][k] = Nothing
      <3>1. CASE use[u].block = "async"
        BY <3>1, <2>7 DEF kept, Closable
      <3>2. CASE use[u].block = "sync"
        <4>1. caches[offered]["async"] = Nothing
          BY <3>2, <2>2 DEF NoneLeftOpen
        <4> QED
          BY <3>2, <4>1, <2>7 DEF kept, Closable, Kinds
      <3> QED
        BY <1>0, <2>3, <3>1, <3>2 DEF Uses, Inside
    <2>10. \A c \in DOMAIN opened : opened[c] => Keeps(c)
      BY <2>2, <2>3 DEF NoneLeftOpen, Uses1, InFlight
    <2>11. \A c \in DOMAIN opened' : ~opened'[c]
      BY <1>5, <2>8, <2>9, <2>10 DEF Keeps
    <2>12. \A v \in Callers : use'[v].block = use[v].block
      BY <1>1, <1>3
    <2>13. NoneLeftOpen'
      BY <2>1, <2>2, <2>11, <2>12 DEF NoneLeftOpen
    <2> QED
      BY <2>6, <2>13
  <1> QED
    BY <1>6, <1>7, <1>8 DEF ClientInv, BlockInv

\* Leaving a block, the end: none is offered any more.
LEMMA LeaveBlockInv ==
  ASSUME ClientInv, NEW u \in Callers, LeaveBlock(u)
  PROVE  ClientInv'
  <1>0. use \in [Callers -> Uses] /\ use' = [use EXCEPT ![u] = Idle] /\ use[u].pc = "leaving"
    BY DEF ClientInv, ClientTypeOK, LeaveBlock
  <1>1. Idle \in Uses /\ Idle.pc = "idle" /\ Idle.block = "none"
    BY <1>0, DoneType
  <1>3. /\ use' \in [Callers -> Uses] /\ use'[u] = Idle
        /\ \A v \in Callers \ {u} : use'[v] = use[v]
    BY <1>0, <1>1, Given
  <1>4. offered' = Nothing /\ UNCHANGED <<jarOf, jars, caches, opened, made, session, exited, mixed>>
    BY DEF LeaveBlock
  <1>6. ClientTypeOK'
    BY <1>3, <1>4 DEF ClientTypeOK, ClientInv, Nothing
  <1>7. JarInv'
    <2>1. CarriesSession'
      BY <1>1, <1>3, <1>4 DEF ClientInv, JarInv, CarriesSession
    <2> QED
      BY <1>4, <2>1 DEF ClientInv, JarInv
  <1>8. ASSUME ~mixed' PROVE OneBlock' /\ NoneLeftOpen'
    <2>1. OneBlock /\ NoneLeftOpen
      BY <1>4, <1>8 DEF ClientInv, BlockInv
    <2>2. Inside(u) /\ (\A v \in Callers : ~InFlight(v)) /\ \A c \in DOMAIN opened : ~opened[c]
      BY <1>0, <2>1 DEF OneBlock, NoneLeftOpen, Leaving
    <2>3. \A v \in Callers : use'[v].block = "none"
      BY <1>1, <1>3, <2>1, <2>2 DEF OneBlock, Inside
    <2>4. \A v \in Callers : ~Leaving(v)'
      <3>1. \A v \in Callers \ {u} : ~Leaving(v)
        BY <2>1, <2>2 DEF OneBlock
      <3> QED
        BY <1>1, <1>3, <3>1 DEF Leaving
    <2>5. OneBlock'
      BY <1>4, <2>3, <2>4 DEF OneBlock, Inside
    <2>6. NoneLeftOpen'
      BY <1>4, <2>2, <2>3 DEF NoneLeftOpen
    <2> QED
      BY <2>5, <2>6
  <1> QED
    BY <1>6, <1>7, <1>8 DEF ClientInv, BlockInv
-----------------------------------------------------------------------------
\* Building a request: its cookies are the session's, or its own.
LEMMA BuildRequestInv ==
  ASSUME ClientInv, NEW u \in Callers, NEW of \in {"root", "sub"}, NEW kind \in Kinds,
         NEW own \in BOOLEAN, BuildRequest(u, of, kind, own)
  PROVE  ClientInv'
  <1> DEFINE p == [use[u] EXCEPT !.pc = "built", !.of = of, !.kind = kind,
                     !.number = made', !.sent = CookieHeader(of, own),
                     !.due = IF own THEN Own ELSE session]
  <1>0. use \in [Callers -> Uses] /\ use[u] \in Uses /\ use[u].pc = "idle" /\ made' = made + 1
    BY DEF ClientInv, ClientTypeOK, BuildRequest
  <1>1. CookieHeader(of, own) \in Nat /\ Own \in Nat /\ session \in Nat /\ made' \in Nat
    <2>1. jarOf[of] \in 2..Len(jars) /\ jars \in Seq(Nat) /\ session \in Nat /\ made \in Nat
      BY DEF ClientInv, ClientTypeOK
    <2>2. jars[jarOf[of]] \in Nat /\ Own \in Nat
      BY <2>1 DEF Own
    <2> QED
      BY <1>0, <2>1, <2>2 DEF CookieHeader
  <1>2. /\ p \in Uses /\ p.pc = "built" /\ p.block = use[u].block
        /\ p.of = of /\ p.sent = CookieHeader(of, own) /\ p.due = IF own THEN Own ELSE session
    BY <1>0, <1>1 DEF Uses
  <1>3. use' = [use EXCEPT ![u] = p]
    BY DEF BuildRequest
  <1> HIDE DEF p
  <1>4. /\ use' \in [Callers -> Uses] /\ use'[u] = p
        /\ \A v \in Callers \ {u} : use'[v] = use[v]
    BY <1>0, <1>2, <1>3, Given
  <1>5. UNCHANGED <<jarOf, jars, offered, caches, opened, session, exited>>
    BY DEF BuildRequest
  <1>6. ClientTypeOK'
    <2>1. mixed' \in BOOLEAN
      BY DEF BuildRequest, ClientInv, ClientTypeOK
    <2> QED
      BY <1>1, <1>4, <1>5, <2>1 DEF ClientTypeOK, ClientInv
  <1>7. JarInv'
    <2>1. ASSUME of = "root" \/ ~exited PROVE CookieHeader(of, own) = IF own THEN Own ELSE session
      BY <2>1 DEF ClientInv, JarInv, CookieHeader
    <2>2. CarriesSession'
      BY <1>2, <1>4, <1>5, <2>1 DEF ClientInv, JarInv, CarriesSession
    <2> QED
      BY <1>5, <2>2 DEF ClientInv, JarInv
  <1>8. ASSUME ~mixed' PROVE OneBlock' /\ NoneLeftOpen'
    <2>1. ~mixed /\ \A v \in Callers : ~Leaving(v)
      BY <1>8 DEF BuildRequest, SomeoneLeaves, Leaving
    <2>2. OneBlock /\ NoneLeftOpen
      BY <2>1 DEF ClientInv, BlockInv
    <2>3. \A v \in Callers : use'[v].block = use[v].block /\ ~Leaving(v)'
      BY <1>2, <1>4, <2>1 DEF Leaving
    <2>4. OneBlock'
      BY <1>5, <2>2, <2>3 DEF OneBlock, Inside
    <2>5. \A v \in Callers, c \in DOMAIN opened : Uses1(v, c) => Uses1(v, c)'
      BY <1>0, <1>4 DEF Uses1
    <2>6. NoneLeftOpen'
      BY <1>5, <2>2, <2>3, <2>5 DEF NoneLeftOpen, Keeps, Leaving
    <2> QED
      BY <2>4, <2>6
  <1> QED
    BY <1>6, <1>7, <1>8 DEF ClientInv, BlockInv

\* Sending it: by the open client of the block, or by a new one, which the block
\* keeps in place of one that is closed.
LEMMA SendInv ==
  ASSUME ClientInv, NEW u \in Callers, Send(u)
  PROVE  ClientInv'
  <1> DEFINE kind   == use[u].kind
             block  == IF use[u].of = "root" THEN offered ELSE Nothing
             kept   == KeptClient(block, kind)
             client == IF kept # Nothing THEN kept ELSE Len(opened) + 1
             p      == [use[u] EXCEPT !.pc = "sent", !.cache = block, !.client = client]
  <1>0. /\ use \in [Callers -> Uses] /\ use[u] \in Uses /\ use[u].pc = "built" /\ kind \in Kinds
        /\ caches \in Seq([Kinds -> Nat]) /\ offered \in 0..Len(caches) /\ opened \in Seq(BOOLEAN)
        /\ Len(caches) \in Nat /\ Len(opened) \in Nat
    <2>1. /\ use \in [Callers -> Uses] /\ use[u].pc = "built"
          /\ caches \in Seq([Kinds -> Nat]) /\ offered \in 0..Len(caches) /\ opened \in Seq(BOOLEAN)
      BY DEF ClientInv, ClientTypeOK, Send
    <2>2. use[u] \in Uses
      BY <2>1
    <2>3. kind \in Kinds
      BY <2>2 DEF Uses
    <2> QED
      BY <2>1, <2>2, <2>3
  <1>1. /\ opened' = IF kept # Nothing THEN opened ELSE Append(opened, TRUE)
        /\ caches' = IF block = Nothing THEN caches ELSE [caches EXCEPT ![block][kind] = client]
        /\ use' = [use EXCEPT ![u] = p]
        /\ mixed' = (mixed \/ SomeoneLeaves \/ (block # Nothing /\ Mismatch(kind)))
        /\ UNCHANGED <<jarOf, jars, offered, made, session, exited>>
    BY <1>0 DEF Send
  <1>2. block \in Nat /\ (block = Nothing \/ (block = offered /\ block \in 1..Len(caches)))
    <2>1. offered \in Nat /\ (offered = 0 \/ offered \in 1..Len(caches))
      BY <1>0
    <2>2. block = offered \/ block = 0
      BY DEF Nothing
    <2> QED
      BY <2>1, <2>2 DEF Nothing
  <1>3. /\ kept # Nothing => block # Nothing /\ kept = caches[block][kind] /\ opened[kept]
        /\ block # Nothing /\ caches[block][kind] # Nothing /\ opened[caches[block][kind]]
             => kept = caches[block][kind]
    BY DEF KeptClient
  <1>4. kept \in Nat
    <2>1. ASSUME block # Nothing PROVE caches[block][kind] \in Nat
      BY <1>0, <1>2, <2>1
    <2> QED
      BY <1>3, <2>1 DEF Nothing
  <1> HIDE DEF kept
  <1>5. client \in Nat /\ client # Nothing /\ (kept = Nothing => client = Len(opened) + 1)
        /\ (kept # Nothing => client = kept)
    BY <1>0, <1>4 DEF Nothing
  <1> HIDE DEF client, block
  <1>6. p \in Uses /\ p.pc = "sent" /\ p.block = use[u].block /\ p.of = use[u].of
        /\ p.sent = use[u].sent /\ p.due = use[u].due /\ p.cache = block /\ p.client = client
    BY <1>0, <1>2, <1>5 DEF Uses
  <1> HIDE DEF p, kind
  <1>7. /\ use' \in [Callers -> Uses] /\ use'[u] = p
        /\ \A v \in Callers \ {u} : use'[v] = use[v]
    BY <1>0, <1>1, <1>6, Given
  <1>8. /\ opened' \in Seq(BOOLEAN)
        /\ \A c \in DOMAIN opened' : opened'[c] => (c \in DOMAIN opened /\ opened[c]) \/ c = client
    <2>1. CASE kept # Nothing
      BY <1>0, <1>1, <2>1
    <2>2. CASE kept = Nothing
      <3>1. opened' = Append(opened, TRUE) /\ client = Len(opened) + 1
        BY <1>1, <1>5, <2>2
      <3> QED
        BY <1>0, <3>1
    <2> QED
      BY <2>1, <2>2
  <1>9. /\ caches' \in Seq([Kinds -> Nat]) /\ Len(caches') = Len(caches)
        /\ block # Nothing => /\ caches'[block][kind] = client
                              /\ \A k \in Kinds \ {kind} : caches'[block][k] = caches[block][k]
    <2>1. CASE block = Nothing
      BY <1>0, <1>1, <2>1
    <2>2. CASE block # Nothing
      <3>1. block \in 1..Len(caches) /\ caches' = [caches EXCEPT ![block][kind] = client]
        BY <1>1, <1>2, <2>2
      <3>2. caches[block] \in [Kinds -> Nat]
        BY <1>0, <3>1
      <3>3. caches' = [caches EXCEPT ![block] = [caches[block] EXCEPT ![kind] = client]]
        BY <1>0, <3>1
      <3>4. [caches[block] EXCEPT ![kind] = client] \in [Kinds -> Nat]
        BY <1>0, <1>5, <3>2
      <3>5. caches' \in Seq([Kinds -> Nat]) /\ Len(caches') = Len(caches)
        BY <1>0, <3>1, <3>3, <3>4, ExceptSeq
      <3>6. caches'[block] = [caches[block] EXCEPT ![kind] = client]
        <4>1. block \in DOMAIN caches
          BY <1>0, <3>1
        <4> QED
          BY <3>3, <4>1
      <3> QED
        BY <1>0, <3>2, <3>5, <3>6
    <2> QED
      BY <2>1, <2>2
  <1>10. ClientTypeOK'
    <2>1. mixed' \in BOOLEAN
      BY <1>1 DEF ClientInv, ClientTypeOK
    <2> QED
      BY <1>1, <1>7, <1>8, <1>9, <2>1 DEF ClientTypeOK, ClientInv
  <1>11. JarInv'
    <2>1. CarriesSession'
      BY <1>0, <1>1, <1>6, <1>7 DEF ClientInv, JarInv, CarriesSession
    <2> QED
      BY <1>1, <2>1 DEF ClientInv, JarInv
  <1>12. ASSUME ~mixed' PROVE OneBlock' /\ NoneLeftOpen'
    <2>1. ~mixed /\ (\A v \in Callers : ~Leaving(v)) /\ (block # Nothing => ~Mismatch(kind))
      BY <1>1, <1>12 DEF SomeoneLeaves, Leaving
    <2>2. OneBlock /\ NoneLeftOpen
      BY <2>1 DEF ClientInv, BlockInv
    <2>3. \A v \in Callers : use'[v].block = use[v].block /\ ~Leaving(v)'
      BY <1>6, <1>7, <2>1 DEF Leaving
    <2>4. OneBlock'
      BY <1>1, <2>2, <2>3 DEF OneBlock, Inside
    <2>5. ASSUME NEW v \in Callers, use[v].block = "sync" PROVE caches'[offered]["async"] = Nothing
      <3>1. caches[offered]["async"] = Nothing
        BY <2>2, <2>5 DEF NoneLeftOpen
      <3>2. CASE block = Nothing
        BY <1>1, <3>1, <3>2
      <3>3. CASE block # Nothing
        <4>1. block = offered /\ kind # "async"
          BY <1>2, <2>1, <2>5, <3>3 DEF Mismatch
        <4> QED
          BY <1>9, <3>1, <3>3, <4>1 DEF Kinds
      <3> QED
        BY <3>2, <3>3
    <2>6. ASSUME NEW c \in DOMAIN opened', opened'[c]
          PROVE  Keeps(c)' \/ \E v \in Callers : Uses1(v, c)'
      <3>1. CASE c = client
        <4>1. CASE block = Nothing
          <5>1. Uses1(u, c)'
            BY <1>6, <1>7, <3>1, <4>1 DEF Uses1
          <5> QED
            BY <5>1
        <4>2. CASE block # Nothing
          BY <1>0, <1>1, <1>2, <1>9, <3>1, <4>2 DEF Keeps
        <4> QED
          BY <4>1, <4>2
      <3>2. CASE c # client
        <4>1. c \in DOMAIN opened /\ opened[c]
          BY <1>8, <2>6, <3>2
        <4>2. CASE \E v \in Callers : Uses1(v, c)
          <5>1. PICK v \in Callers : Uses1(v, c)
            BY <4>2
          <5>2. v # u
            BY <1>0, <5>1 DEF Uses1
          <5>3. Uses1(v, c)'
            BY <1>7, <5>1, <5>2 DEF Uses1
          <5> QED
            BY <5>3
        <4>3. CASE Keeps(c)
          <5>1. offered # Nothing /\ offered \in 1..Len(caches)
            BY <1>0, <4>3 DEF Keeps, Nothing
          <5>2. PICK k \in Kinds : caches[offered][k] = c
            BY <4>3 DEF Keeps
          <5>3. CASE block = Nothing
            BY <1>1, <4>3, <5>3 DEF Keeps
          <5>4. CASE block # Nothing /\ k # kind
            BY <1>1, <1>2, <1>9, <5>1, <5>2, <5>4 DEF Keeps
          <5>5. CASE block # Nothing /\ k = kind
            <6>1. c # Nothing
              BY <1>0, <4>1 DEF Nothing
            <6>2. kept = c
              BY <1>2, <1>3, <4>1, <5>2, <5>5, <6>1
            <6> QED
              BY <1>5, <3>2, <6>1, <6>2
          <5> QED
            BY <5>3, <5>4, <5>5
        <4> QED
          BY <2>2, <4>1, <4>2, <4>3 DEF NoneLeftOpen
      <3> QED
        BY <3>1, <3>2
    <2>7. NoneLeftOpen'
      BY <1>1, <2>3, <2>5, <2>6 DEF NoneLeftOpen, Leaving
    <2> QED
      BY <2>4, <2>7
  <1> QED
    BY <1>10, <1>11, <1>12 DEF ClientInv, BlockInv
-----------------------------------------------------------------------------
\* A request that is over closes the client that no block keeps, and no other.
LEMMA ClosedAfterIs ==
  ASSUME ClientTypeOK, NEW u \in Callers, use[u].pc = "sent"
  PROVE  /\ ClosedAfter(u) \in Seq(BOOLEAN) /\ DOMAIN ClosedAfter(u) = DOMAIN opened
         /\ \A c \in DOMAIN opened : ClosedAfter(u)[c] => opened[c] /\ ~Uses1(u, c)
  <1>1. opened \in Seq(BOOLEAN) /\ use[u] \in Uses
    BY DEF ClientTypeOK
  <1>2. CASE use[u].cache # Nothing
    BY <1>1, <1>2 DEF ClosedAfter, Uses1
  <1>3. CASE use[u].cache = Nothing
    <2> DEFINE n == use[u].client
    <2>1. ClosedAfter(u) = [opened EXCEPT ![n] = FALSE]
      BY <1>3 DEF ClosedAfter
    <2> HIDE DEF n
    <2>2. opened \in [1..Len(opened) -> BOOLEAN] /\ Len(opened) \in Nat /\ DOMAIN opened = 1..Len(opened)
      BY <1>1
    <2>3. ClosedAfter(u) \in [1..Len(opened) -> BOOLEAN]
      BY <2>1, <2>2
    <2>4. ClosedAfter(u) \in Seq(BOOLEAN)
      BY <2>2, <2>3, SeqDef
    <2>5. \A c \in DOMAIN opened : c # n => ClosedAfter(u)[c] = opened[c]
      BY <2>1
    <2>6. n \in DOMAIN opened => ~ClosedAfter(u)[n]
      BY <2>1
    <2> QED
      BY <2>1, <2>4, <2>5, <2>6 DEF Uses1, n
  <1> QED
    BY <1>2, <1>3

\* What an answer, a failure and a stored answer have in common: the request of one
\* caller goes on or is over, and closes at most what it used.
LEMMA RequestOver ==
  ASSUME ClientInv, NEW u \in Callers, NEW p \in Uses,
         use[u].pc \in {"sent", "answered"}, p.pc \in {"answered", "idle"},
         p.block = use[u].block, use' = [use EXCEPT ![u] = p],
         opened' \in Seq(BOOLEAN), DOMAIN opened' = DOMAIN opened,
         \A c \in DOMAIN opened : opened'[c] => opened[c] /\ ~Uses1(u, c),
         UNCHANGED <<offered, caches, mixed>>
  PROVE  /\ use' \in [Callers -> Uses] /\ BlockInv'
         /\ (UNCHANGED exited => CarriesSession')
  <1>1. /\ use' \in [Callers -> Uses] /\ use'[u] = p
        /\ \A v \in Callers \ {u} : use'[v] = use[v]
    BY Given DEF ClientInv, ClientTypeOK
  <1>2. ASSUME UNCHANGED exited PROVE CarriesSession'
    BY <1>1, <1>2 DEF ClientInv, JarInv, CarriesSession
  <1>3. ASSUME ~mixed' PROVE OneBlock' /\ NoneLeftOpen'
    <2>1. OneBlock /\ NoneLeftOpen
      BY <1>3 DEF ClientInv, BlockInv
    <2>2. InFlight(u) /\ \A v \in Callers : use'[v].block = use[v].block
      BY <1>1 DEF InFlight
    <2>3. \A v \in Callers : ~Leaving(v) /\ ~Leaving(v)'
      BY <1>1, <2>1, <2>2 DEF OneBlock, Leaving
    <2>4. OneBlock'
      BY <2>1, <2>2, <2>3 DEF OneBlock, Inside
    <2>5. ASSUME NEW c \in DOMAIN opened', opened'[c]
          PROVE  Keeps(c)' \/ \E v \in Callers : Uses1(v, c)'
      <3>1. c \in DOMAIN opened /\ opened[c] /\ ~Uses1(u, c)
        BY <2>5
      <3>2. CASE Keeps(c)
        BY <3>2 DEF Keeps
      <3>3. CASE \E v \in Callers : Uses1(v, c)
        <4>1. PICK v \in Callers \ {u} : Uses1(v, c)
          BY <3>1, <3>3
        <4>2. Uses1(v, c)'
          BY <1>1, <4>1 DEF Uses1
        <4> QED
          BY <4>2
      <3> QED
        BY <2>1, <3>1, <3>2, <3>3 DEF NoneLeftOpen
    <2>6. NoneLeftOpen'
      BY <2>1, <2>2, <2>3, <2>5 DEF NoneLeftOpen, Leaving
    <2> QED
      BY <2>4, <2>6
  <1> QED
    BY <1>1, <1>2, <1>3 DEF BlockInv

\* The response arrives.
LEMMA AnswerInv ==
  ASSUME ClientInv, NEW u \in Callers, NEW got \in {None, use[u].number, Keep}, Answer(u, got)
  PROVE  ClientInv'
  <1> DEFINE p == IF use[u].kind = "async" THEN Done(u)
                  ELSE [use[u] EXCEPT !.pc = "answered", !.got = got]
  <1>1. ClientTypeOK /\ use[u].pc = "sent" /\ use \in [Callers -> Uses] /\ use[u] \in Uses
    BY DEF Answer, ClientInv, ClientTypeOK
  <1>2. got \in Nat
    BY <1>1 DEF None, Keep, Uses
  <1>3. p \in Uses /\ p.pc \in {"answered", "idle"} /\ p.block = use[u].block
    BY <1>1, <1>2, DoneType DEF Uses
  <1>4. use' = [use EXCEPT ![u] = p] /\ opened' = ClosedAfter(u)
        /\ UNCHANGED <<jarOf, jars, offered, caches, made, session, exited, mixed>>
    BY <1>1 DEF Answer
  <1> HIDE DEF p
  <1>5. /\ opened' \in Seq(BOOLEAN) /\ DOMAIN opened' = DOMAIN opened
        /\ \A c \in DOMAIN opened : opened'[c] => opened[c] /\ ~Uses1(u, c)
    BY <1>1, <1>4, ClosedAfterIs
  <1>6. use' \in [Callers -> Uses] /\ BlockInv' /\ CarriesSession'
    BY <1>1, <1>3, <1>4, <1>5, RequestOver
  <1> QED
    BY <1>4, <1>5, <1>6 DEF ClientInv, ClientTypeOK, JarInv

\* The transport raises.
LEMMA BreakInv ==
  ASSUME ClientInv, NEW u \in Callers, Break(u)
  PROVE  ClientInv'
  <1>1. ClientTypeOK /\ use[u].pc = "sent" /\ use \in [Callers -> Uses]
    BY DEF Break, ClientInv, ClientTypeOK
  <1>2. Done(u) \in Uses /\ Done(u).pc = "idle" /\ Done(u).block = use[u].block
    BY <1>1, DoneType
  <1>3. use' = [use EXCEPT ![u] = Done(u)] /\ opened' = ClosedAfter(u)
        /\ UNCHANGED <<jarOf, jars, offered, caches, made, session, exited, mixed>>
    BY DEF Break
  <1>4. /\ opened' \in Seq(BOOLEAN) /\ DOMAIN opened' = DOMAIN opened
        /\ \A c \in DOMAIN opened : opened'[c] => opened[c] /\ ~Uses1(u, c)
    BY <1>1, <1>3, ClosedAfterIs
  <1>5. use' \in [Callers -> Uses] /\ BlockInv' /\ CarriesSession'
    BY <1>1, <1>2, <1>3, <1>4, RequestOver
  <1> QED
    BY <1>3, <1>4, <1>5 DEF ClientInv, ClientTypeOK, JarInv

\* The cookies of the response go into the jar of the client that asked.
LEMMA StoreCookiesInv ==
  ASSUME ClientInv, NEW u \in Callers, StoreCookies(u)
  PROVE  ClientInv'
  <1> DEFINE got == use[u].got
             of  == use[u].of
  <1>1. ClientTypeOK /\ use[u].pc = "answered" /\ use \in [Callers -> Uses] /\ use[u] \in Uses
    BY DEF StoreCookies, ClientInv, ClientTypeOK
  <1>2. Done(u) \in Uses /\ Done(u).pc = "idle" /\ Done(u).block = use[u].block
    BY <1>1, DoneType
  <1>3. /\ use' = [use EXCEPT ![u] = Done(u)]
        /\ jars' = IF got = Keep THEN jars ELSE [jars EXCEPT ![jarOf[of]] = got]
        /\ session' = IF got = Keep \/ (of = "sub" /\ exited) THEN session ELSE got
        /\ UNCHANGED <<jarOf, offered, caches, opened, made, exited, mixed>>
    BY DEF StoreCookies
  <1>4. got \in Nat /\ of \in {"root", "sub"}
    BY <1>1 DEF Uses
  <1> HIDE DEF got, of
  <1>5. opened' \in Seq(BOOLEAN) /\ DOMAIN opened' = DOMAIN opened
        /\ \A c \in DOMAIN opened : opened'[c] => opened[c] /\ ~Uses1(u, c)
    BY <1>1, <1>3 DEF ClientTypeOK, Uses1
  <1>6. use' \in [Callers -> Uses] /\ BlockInv' /\ CarriesSession'
    BY <1>1, <1>2, <1>3, <1>5, RequestOver
  <1>7. /\ jars \in Seq(Nat) /\ Len(jars) \in Nat /\ Len(jars) >= 2
        /\ jarOf \in [{"root", "sub"} -> 2..Len(jars)] /\ session \in Nat
    BY DEF ClientInv, ClientTypeOK
  <1>8. CASE got = Keep
    BY <1>3, <1>5, <1>6, <1>8 DEF ClientInv, ClientTypeOK, JarInv
  <1>9. CASE got # Keep
    <2>1. jars' = [jars EXCEPT ![jarOf[of]] = got] /\ jarOf[of] \in 2..Len(jars)
      BY <1>3, <1>4, <1>7, <1>9
    <2>2. jars' \in Seq(Nat) /\ Len(jars') = Len(jars)
      BY <1>4, <1>7, <2>1, ExceptSeq
    <2>3. /\ jars'[jarOf[of]] = got
          /\ \A n \in 1..Len(jars) : n # jarOf[of] => jars'[n] = jars[n]
      BY <1>7, <2>1
    <2>4. jars'[Original] = None
      BY <1>7, <2>1, <2>3 DEF ClientInv, JarInv, Original
    <2>5. jars'[jarOf["root"]] = session'
      <3>1. CASE of = "sub" /\ exited
        <4>1. jarOf["root"] # jarOf["sub"] /\ jars[jarOf["root"]] = session /\ session' = session
          BY <1>3, <3>1 DEF ClientInv, JarInv
        <4> QED
          BY <1>7, <2>3, <3>1, <4>1
      <3>2. CASE ~(of = "sub" /\ exited)
        <4>1. jarOf["root"] = jarOf[of] /\ session' = got
          BY <1>3, <1>4, <1>9, <3>2 DEF ClientInv, JarInv
        <4> QED
          BY <2>3, <4>1
      <3> QED
        BY <3>1, <3>2
    <2>6. JarInv'
      BY <1>3, <1>6, <2>4, <2>5 DEF ClientInv, JarInv
    <2>7. session' \in Nat
      BY <1>3, <1>4, <1>7
    <2>8. ClientTypeOK'
      BY <1>3, <1>5, <1>6, <1>7, <2>2, <2>7 DEF ClientInv, ClientTypeOK
    <2> QED
      BY <1>6, <2>6, <2>8 DEF ClientInv
  <1> QED
    BY <1>8, <1>9
-----------------------------------------------------------------------------
\* Every step of every caller keeps the invariant.
LEMMA ClientStepInv == ClientInv /\ [SessionNext]_sessionVars => ClientInv'
  <1> SUFFICES ASSUME ClientInv, [SessionNext]_sessionVars PROVE ClientInv'
    OBVIOUS
  <1>1. CASE UNCHANGED sessionVars
    BY <1>1 DEF sessionVars, ClientInv, ClientTypeOK, JarInv, CarriesSession, BlockInv, OneBlock,
         NoneLeftOpen, Inside, Leaving, InFlight, Keeps, Uses1
  <1>2. ASSUME NEW u \in Callers, NEW kind \in Kinds, EnterBlock(u, kind) PROVE ClientInv'
    BY <1>2, EnterBlockInv
  <1>3. ASSUME NEW u \in Callers, ExitBlock(u) \/ CloseClients(u) \/ LeaveBlock(u) PROVE ClientInv'
    BY <1>3, ExitBlockInv, CloseClientsInv, LeaveBlockInv
  <1>4. ASSUME NEW u \in Callers, NEW of \in {"root", "sub"}, NEW kind \in Kinds,
               NEW own \in BOOLEAN, BuildRequest(u, of, kind, own) PROVE ClientInv'
    BY <1>4, BuildRequestInv
  <1>5. ASSUME NEW u \in Callers, Send(u) \/ Break(u) \/ StoreCookies(u) PROVE ClientInv'
    BY <1>5, SendInv, BreakInv, StoreCookiesInv
  <1>6. ASSUME NEW u \in Callers, NEW got \in {None, use[u].number, Keep}, Answer(u, got)
        PROVE  ClientInv'
    BY <1>6, AnswerInv
  <1> QED
    BY <1>1, <1>2, <1>3, <1>4, <1>5, <1>6 DEF SessionNext

\* The invariant of a Client's session.
LEMMA ClientInvariant == SessionSpec => []ClientInv
  BY ClientInitInv, ClientStepInv, PTL DEF SessionSpec

\* What the invariant says of the moments the properties look at.
LEMMA IsolatedByInv == ClientInv => BlocksIsolate
  <1> SUFFICES ASSUME ClientInv, ~mixed PROVE CarriesSession /\ ClientsClosed
    BY DEF BlocksIsolate
  <1>1. CarriesSession
    BY DEF ClientInv, JarInv
  <1>2. ASSUME \A u \in Callers : use[u].pc = "idle" /\ use[u].block = "none"
        PROVE  \A c \in DOMAIN opened : ~opened[c]
    <2>1. OneBlock /\ NoneLeftOpen
      BY DEF ClientInv, BlockInv
    <2>2. offered = Nothing /\ \A u \in Callers, c \in DOMAIN opened : ~Uses1(u, c)
      BY <1>2, <2>1 DEF OneBlock, Inside, Uses1
    <2> QED
      BY <2>1, <2>2 DEF NoneLeftOpen, Keeps
  <1> QED
    BY <1>1, <1>2 DEF ClientsClosed

\* Blocks of with that do not meet isolate the session of the Client, which is what the
\* responses to synchronous requests set, and leave no connection open, whatever the
\* number of callers, blocks and requests.
THEOREM BlocksKeepApart == SessionSpec => []BlocksIsolate
  BY ClientInvariant, IsolatedByInv, PTL

HIDE BoundAssumption
-----------------------------------------------------------------------------
(***************************************************************************)
(* Proofs about ServerMiddleware, for any number of middlewares and        *)
(* requests: no request of a thread is answered with another one, unless   *)
(* a request before it left its response in flask's or sanic's context.    *)
(***************************************************************************)

USE ServerAssumption

Exchanges == [pc: {"done", "asking", "handled", "responding"}, at: Nat, version: Nat,
              handled: [of: Nat, version: Nat], raised: BOOLEAN,
              response: Nat, updated: BOOLEAN, got: Nat]

ServerTypeOK ==
  /\ backend \in Backends
  /\ currentRequest \in [of: Nat, version: Nat]
  /\ currentResponse \in Nat
  /\ serving \in Exchanges
  /\ served \in Nat
  /\ tainted \in BOOLEAN

\* What the context may hold while the request stands where it does: nothing that
\* another request put there, unless the thread is tainted.
FlaskContext ==
  /\ serving.pc \in {"asking", "handled"} => currentRequest = Ours(0)
  /\ ~tainted /\ serving.pc = "handled" => currentResponse \in {0, served}
  /\ ~tainted /\ serving.pc # "handled" => currentResponse = 0

DjangoContext ==
  IF serving.pc = "handled" THEN currentResponse \in {0, served} ELSE currentResponse = 0

SanicContext ==
  ~tainted =>
    IF serving.pc \in {"handled", "responding"}
    THEN currentResponse \in {0, served} /\ (currentRequest = Nobody \/ currentRequest.of = served)
    ELSE currentResponse = 0 /\ currentRequest = Nobody

Context ==
  /\ backend = "flask"     => FlaskContext
  /\ backend = "django"    => DjangoContext
  /\ backend = "sanic"     => SanicContext
  /\ backend = "starlette" => (serving.pc = "handled" => serving.response \in {0, served})
  /\ backend \in {"starlette", "django", "tornado"} => ~tainted

\* The handler has not been called while a middleware still asks.
NotYetCalled == serving.pc = "asking" => serving.handled = Nobody /\ serving.response = 0

ServerInv == ServerTypeOK /\ Context /\ NotYetCalled /\ OwnExchange
-----------------------------------------------------------------------------
\* The thread starts with an empty context and no request (ServerInit).
LEMMA ServerInitInv == ServerInit => ServerInv
  <1> SUFFICES ASSUME ServerInit PROVE ServerInv
    OBVIOUS
  <1>1. ServerTypeOK
    BY DEF ServerInit, ServerTypeOK, Exchanges, Fresh, Nobody
  <1>2. Context /\ NotYetCalled /\ OwnExchange
    BY DEF ServerInit, Context, FlaskContext, DjangoContext, SanicContext, NotYetCalled,
           OwnExchange, CalledWithOwn, AnsweredWithOwn, Fresh, Backends
  <1> QED
    BY <1>1, <1>2 DEF ServerInv

\* Every step of every backend keeps the types, one step per action.
LEMMA ServerTypeStep == ASSUME ServerTypeOK, [ServerNext]_serverVars PROVE ServerTypeOK'
  <1> USE DEF ServerTypeOK, Exchanges
  <1>1. CASE Arrive
    BY <1>1 DEF Arrive, Fresh, Nobody, Ours
  <1>2. CASE AnswerEarly
    <2>1. serving' \in Exchanges
      <3>1. CASE backend = "sanic"
        BY <1>2, <3>1 DEF AnswerEarly
      <3>2. CASE backend # "sanic"
        <4>1. serving' = [serving EXCEPT !.pc = "responding", !.at = 1, !.response = served,
                                         !.updated = TRUE]
          BY <1>2, <3>2 DEF AnswerEarly
        <4> QED
          BY <4>1
      <3> QED
        BY <3>1, <3>2
    <2>2. UNCHANGED <<backend, served, tainted>>
      BY <1>2 DEF AnswerEarly
    <2>3. currentRequest' \in [of: Nat, version: Nat] /\ currentResponse' \in Nat
      BY <1>2 DEF AnswerEarly, Nobody
    <2> QED
      BY <2>1, <2>2, <2>3
  <1>3. CASE RequestRaises
    BY <1>3 DEF RequestRaises, Backends
  <1>4. ASSUME NEW yes \in BOOLEAN, PassRequest(yes) PROVE ServerTypeOK'
    <2> DEFINE version == IF yes THEN serving.version + 1 ELSE serving.version
    <2>1. version \in Nat /\ serving.at + 1 \in Nat
      OBVIOUS
    <2>2. serving' = [serving EXCEPT !.at = serving.at + 1, !.version = version]
      BY <1>4 DEF PassRequest
    <2> HIDE DEF version
    <2>3. serving' \in Exchanges
      BY <2>1, <2>2
    <2> QED
      BY <1>4, <2>3 DEF PassRequest
  <1>5. ASSUME NEW yes \in BOOLEAN, CallApi(yes) PROVE ServerTypeOK'
    <2> DEFINE request == IF backend = "tornado" THEN Ours(serving.version) ELSE Published
               response == IF backend = "starlette" THEN request.of ELSE 0
    <2>1. request \in [of: Nat, version: Nat] /\ Published \in [of: Nat, version: Nat]
      BY DEF Published, Ours
    <2>2. response \in Nat /\ request.of \in Nat
      BY <2>1
    <2>3. serving' = [serving EXCEPT !.pc = "handled", !.handled = request,
                                     !.raised = ~yes, !.response = response]
      BY <1>5 DEF CallApi
    <2>4. currentRequest' = Published /\ currentResponse' \in {request.of, currentResponse}
      BY <1>5 DEF CallApi
    <2> HIDE DEF request, response
    <2>5. serving' \in Exchanges
      BY <2>1, <2>2, <2>3
    <2> QED
      BY <1>5, <2>1, <2>2, <2>4, <2>5 DEF CallApi
  <1>6. ASSUME NEW yes \in BOOLEAN, CallView(yes) PROVE ServerTypeOK'
    <2>1. Published \in [of: Nat, version: Nat]
      BY DEF Published, Ours
    <2> QED
      BY <1>6, <2>1 DEF CallView
  <1>7. ASSUME NEW yes \in BOOLEAN, PassResponse(yes) PROVE ServerTypeOK'
    <2>1. serving.at + 1 \in Nat /\ (serving.updated \/ yes) \in BOOLEAN
      OBVIOUS
    <2>2. serving' = [serving EXCEPT !.at = serving.at + 1, !.updated = serving.updated \/ yes]
      BY <1>7 DEF PassResponse
    <2>3. serving' \in Exchanges
      BY <2>1, <2>2
    <2> QED
      BY <1>7, <2>3 DEF PassResponse
  <1>8. CASE Collect
    <2>1. Collected \in Nat
      BY DEF Collected
    <2> QED
      BY <1>8, <2>1 DEF Collect, Nobody
  <1>9. CASE ResponseRaises
    BY <1>9 DEF ResponseRaises
  <1>10. CASE Finish
    <2>1. \E got \in Nat : serving' = [serving EXCEPT !.pc = "done", !.got = got]
      BY <1>10 DEF Finish
    <2>2. serving' \in Exchanges
      BY <2>1
    <2>3. currentRequest' \in [of: Nat, version: Nat] /\ currentResponse' \in Nat
      BY <1>10 DEF Finish, Nobody
    <2> QED
      BY <1>10, <2>2, <2>3 DEF Finish
  <1>11. CASE UNCHANGED serverVars
    BY <1>11 DEF serverVars
  <1> QED
    BY <1>1, <1>2, <1>3, <1>4, <1>5, <1>6, <1>7, <1>8, <1>9, <1>10, <1>11 DEF ServerNext

\* Every step leaves the context to the request that is under way.
LEMMA ServerStepInv == ASSUME ServerInv, [ServerNext]_serverVars PROVE ServerInv'
  <1>t. ServerTypeOK'
    BY ServerTypeStep DEF ServerInv
  <1> USE DEF ServerInv, Context, FlaskContext, DjangoContext, SanicContext, NotYetCalled,
              OwnExchange, CalledWithOwn, AnsweredWithOwn, ServerTypeOK, Exchanges, Ours, Nobody,
              Backends
  <1>1. CASE Arrive
    <2>1. Context'
      BY <1>t, <1>1 DEF Arrive, Fresh
    <2>2. NotYetCalled'
      BY <1>t, <1>1 DEF Arrive, Fresh
    <2>3. CalledWithOwn'
      BY <1>t, <1>1 DEF Arrive, Fresh
    <2>4. (~tainted => AnsweredWithOwn)'
      BY <1>t, <1>1 DEF Arrive, Fresh
    <2> QED
      BY <1>t, <2>1, <2>2, <2>3, <2>4
  <1>2. CASE AnswerEarly
    <2>1. Context'
      BY <1>t, <1>2 DEF AnswerEarly
    <2>2. NotYetCalled'
      <3>1. serving'.pc # "asking"
        BY <1>2 DEF AnswerEarly
      <3> QED
        BY <3>1
    <2>3. CalledWithOwn'
      BY ZenonT(60), <1>t, <1>2 DEF AnswerEarly
    <2>4. (~tainted => AnsweredWithOwn)'
      <3>1. CASE backend = "sanic"
        BY <1>t, <1>2, <3>1 DEF AnswerEarly
      <3>2. CASE backend # "sanic"
        <4>1. serving'.response = served'
          BY <1>2, <3>2 DEF AnswerEarly
        <4>2. serving'.pc = "responding"
          BY <1>2, <3>2 DEF AnswerEarly
        <4> QED
          BY <4>1, <4>2
      <3> QED
        BY <3>1, <3>2
    <2> QED
      BY <1>t, <2>1, <2>2, <2>3, <2>4
  <1>3. CASE RequestRaises
    <2>1. Context'
      BY <1>t, <1>3 DEF RequestRaises
    <2>2. NotYetCalled'
      BY <1>t, <1>3 DEF RequestRaises
    <2>3. CalledWithOwn'
      BY <1>t, <1>3 DEF RequestRaises
    <2>4. (~tainted => AnsweredWithOwn)'
      BY <1>t, <1>3 DEF RequestRaises
    <2> QED
      BY <1>t, <2>1, <2>2, <2>3, <2>4
  <1>4. ASSUME NEW yes \in BOOLEAN, PassRequest(yes) PROVE ServerInv'
    <2>1. Context'
      BY <1>t, <1>4 DEF PassRequest
    <2>2. NotYetCalled'
      BY <1>t, <1>4 DEF PassRequest
    <2>3. CalledWithOwn'
      BY <1>t, <1>4 DEF PassRequest
    <2>4. (~tainted => AnsweredWithOwn)'
      <3>1. serving'.pc = "asking"
        BY <1>4 DEF PassRequest
      <3> QED
        BY <3>1
    <2> QED
      BY <1>t, <2>1, <2>2, <2>3, <2>4
  <1>5. ASSUME NEW yes \in BOOLEAN, CallApi(yes) PROVE ServerInv'
    <2>1. Context'
      BY <1>t, <1>5 DEF CallApi, Published
    <2>2. NotYetCalled'
      BY <1>t, <1>5 DEF CallApi, Published
    <2>3. CalledWithOwn'
      BY <1>t, <1>5 DEF CallApi, Published
    <2>4. (~tainted => AnsweredWithOwn)'
      BY <1>t, <1>5 DEF CallApi, Published
    <2> QED
      BY <1>t, <2>1, <2>2, <2>3, <2>4
  <1>6. ASSUME NEW yes \in BOOLEAN, CallView(yes) PROVE ServerInv'
    <2>1. Context'
      <3>1. serving'.pc = "handled" /\ serving'.response = serving.response
        BY <1>6 DEF CallView
      <3>2. UNCHANGED <<backend, currentResponse, served, tainted>> /\ currentRequest' = Published
        BY <1>6 DEF CallView
      <3>3. serving.pc = "asking"
        BY <1>6 DEF CallView
      <3> QED
        BY <1>t, <3>1, <3>2, <3>3 DEF Published
    <2>2. NotYetCalled'
      BY <1>t, <1>6 DEF CallView, Published
    <2>3. CalledWithOwn'
      BY <1>t, <1>6 DEF CallView, Published
    <2>4. (~tainted => AnsweredWithOwn)'
      BY <1>t, <1>6 DEF CallView, Published
    <2> QED
      BY <1>t, <2>1, <2>2, <2>3, <2>4
  <1>7. ASSUME NEW yes \in BOOLEAN, PassResponse(yes) PROVE ServerInv'
    <2>1. Context'
      BY <1>t, <1>7 DEF PassResponse
    <2>2. NotYetCalled'
      BY <1>t, <1>7 DEF PassResponse
    <2>3. CalledWithOwn'
      BY <1>t, <1>7 DEF PassResponse
    <2>4. (~tainted => AnsweredWithOwn)'
      BY <1>t, <1>7 DEF PassResponse
    <2> QED
      BY <1>t, <2>1, <2>2, <2>3, <2>4
  <1>8. CASE Collect
    <2>1. Context'
      BY <1>t, <1>8 DEF Collect, Collected, Resets
    <2>2. NotYetCalled'
      BY <1>t, <1>8 DEF Collect, Collected, Resets
    <2>3. CalledWithOwn'
      BY <1>t, <1>8 DEF Collect, Collected, Resets
    <2>4. (~tainted => AnsweredWithOwn)'
      BY <1>t, <1>8 DEF Collect, Collected, Resets
    <2> QED
      BY <1>t, <2>1, <2>2, <2>3, <2>4
  <1>9. CASE ResponseRaises
    <2>1. Context'
      BY <1>t, <1>9 DEF ResponseRaises
    <2>2. NotYetCalled'
      BY <1>t, <1>9 DEF ResponseRaises
    <2>3. CalledWithOwn'
      BY <1>t, <1>9 DEF ResponseRaises
    <2>4. (~tainted => AnsweredWithOwn)'
      BY <1>t, <1>9 DEF ResponseRaises
    <2> QED
      BY <1>t, <2>1, <2>2, <2>3, <2>4
  <1>10. CASE Finish
    <2>1. Context'
      BY <1>t, <1>10 DEF Finish
    <2>2. NotYetCalled'
      BY <1>t, <1>10 DEF Finish
    <2>3. CalledWithOwn'
      BY <1>t, <1>10 DEF Finish
    <2>4. (~tainted => AnsweredWithOwn)'
      BY <1>t, <1>10 DEF Finish
    <2> QED
      BY <1>t, <2>1, <2>2, <2>3, <2>4
  <1>11. CASE UNCHANGED serverVars
    BY <1>11 DEF serverVars
  <1> QED
    BY <1>1, <1>2, <1>3, <1>4, <1>5, <1>6, <1>7, <1>8, <1>9, <1>10, <1>11 DEF ServerNext

\* The invariant holds in every reachable state.
LEMMA ServerInvariant == ServerSpec => []ServerInv
  <1>1. ServerInit => ServerInv
    BY ServerInitInv
  <1>2. ServerInv /\ [ServerNext]_serverVars => ServerInv'
    BY ServerStepInv
  <1> QED
    BY <1>1, <1>2, PTL DEF ServerSpec

\* The state has its type.
THEOREM ServerTypes == ServerSpec => []ServerTypeOK
  <1>1. ServerInv => ServerTypeOK
    BY DEF ServerInv
  <1> QED
    BY <1>1, ServerInvariant, PTL

\* Every API is called with, and every client answered with, its own exchange
\* (the middleware loops of core/server/backends/).
THEOREM EveryoneItsOwn == ServerSpec => []OwnExchange
  <1>1. ServerInv => OwnExchange
    BY DEF ServerInv
  <1> QED
    BY <1>1, ServerInvariant, PTL

\* starlette, django and tornado answer every request with its own response,
\* whatever failed before it: nothing is left in their contexts.
THEOREM ThreeNeverMix ==
  ServerSpec => [](backend \in {"starlette", "django", "tornado"} => AnsweredWithOwn)
  <1>1. ServerInv => (backend \in {"starlette", "django", "tornado"} => AnsweredWithOwn)
    BY DEF ServerInv, Context, OwnExchange
  <1> QED
    BY <1>1, ServerInvariant, PTL

HIDE ServerAssumption
-----------------------------------------------------------------------------
(***************************************************************************)
(* Proofs about ResponseExchange, for any response classes, anything that  *)
(* endpoints give and any number of services on the way: what was given is *)
(* what is read.                                                           *)
(***************************************************************************)

\* Numbers have a first.
LEMMA FirstNumber ==
  ASSUME NEW S \in SUBSET Nat, S # {}
  PROVE  \E i \in S : \A j \in S : i <= j
  <1> DEFINE Smaller == OpToRel(<, Nat)
  <1>1. IsWellFoundedOn(Smaller, Nat)
    BY NatLessThanWellFounded DEF Smaller
  <1>2. \A m, n \in Nat : <<m, n>> \in Smaller <=> m < n
    BY DEF Smaller, OpToRel
  <1> HIDE DEF Smaller
  <1>3. PICK i \in S : \A j \in S : <<j, i>> \notin Smaller
    BY <1>1, WFMin
  <1>4. \A j \in S : ~ (j < i) /\ i \in Nat /\ j \in Nat
    BY <1>2, <1>3
  <1>5. \A j \in S : i <= j
    BY <1>4
  <1> QED
    BY <1>5

\* The last of a set of cookies is one of them.
LEMMA LastCookie ==
  ASSUME NEW S \in SUBSET Nat, IsFiniteSet(S), S # {} PROVE Max(S) \in S
  <1> DEFINE from(x) == {y \in S : y >= x}
             Good == {n \in Nat : \E x \in S : n = Cardinality(from(x))}
  <1>1. \A x \in S : IsFiniteSet(from(x)) /\ Cardinality(from(x)) \in Nat
    BY FS_Subset, FS_CardinalityType
  <1>2. Good # {} /\ Good \in SUBSET Nat
    BY <1>1
  <1>3. PICK n \in Good : \A k \in Good : n <= k
    <2> HIDE DEF Good
    <2> QED
      BY <1>2, FirstNumber
  <1>4. PICK x \in S : n = Cardinality(from(x))
    BY <1>3
  <1>5. \A y \in S : x >= y
    <2> SUFFICES ASSUME NEW y \in S, ~(x >= y) PROVE FALSE
      OBVIOUS
    <2> x \in Nat /\ y \in Nat /\ ~(y <= x)
      OBVIOUS
    <2>1. from(y) \subseteq from(x) \ {x} /\ x \in from(x)
      <3>1. x \in from(x) /\ x \notin from(y)
        OBVIOUS
      <3>2. \A z \in from(y) : z \in S /\ z \in Nat /\ z >= y
        OBVIOUS
      <3>3. \A z \in from(y) : z >= x
        BY <3>2
      <3> QED
        BY <3>1, <3>2, <3>3
    <2>2. Cardinality(from(x) \ {x}) = Cardinality(from(x)) - 1 /\ IsFiniteSet(from(x) \ {x})
      BY <1>1, <2>1, FS_RemoveElement
    <2>3. Cardinality(from(y)) <= Cardinality(from(x) \ {x})
      BY <2>1, <2>2, FS_Subset
    <2>4. Cardinality(from(y)) \in Good
      BY <1>1
    <2> HIDE DEF from
    <2> QED
      BY <1>1, <1>3, <1>4, <2>2, <2>3, <2>4
  <1> QED
    BY <1>5 DEF Max

\* What is falsy is written once and for all.
LEMMA WrittenOnce ==
  ASSUME NEW v PROVE Written(Written(v)) = Written(v)
  BY DEF Written, Bare
-----------------------------------------------------------------------------
\* Of some cookies all are kept, or the last.
SomeOrLast(S, kept) == kept = S \/ (S # {} /\ kept = {Max(S)})

\* A message on the wire that says what g was: its status, its cookies or the last
\* of them, and, unless the status allows no body, the object of a class with keys
\* as JSON, or the result as it is written, with the type of bytes only for bytes.
Conveys(g, w) ==
  LET t == g.template
  IN /\ w.status = StatusOf(g)
     /\ SomeOrLast(g.cookies, w.cookies)
     /\ StatusOf(g) \notin WithoutBody /\ Wrapped(t) =>
          w.type = "json" /\ w.body = Made(g).content
     /\ StatusOf(g) \notin WithoutBody /\ ~Wrapped(t) =>
          w.body = Written(g.result) /\ (w.type = "octet" <=> g.result.kind = "bytes")

\* Until a client makes a response anew: what a client holds it has read from a
\* message that says what was given, and what is sent is such a message.
ExchangeInv ==
  /\ given \in Gifts
  /\ ~remade =>
       /\ ~reply.received => reply = Made(given)
       /\ reply.received => reply = Read(reply.of, reply.adaptor) /\ Conveys(given, reply.adaptor)
       /\ stage = "sent" => Conveys(given, wire)

\* The cookies a backend keeps of some, or of the last, are some or the last.
LEMMA CookiesKept ==
  ASSUME NEW server, NEW kept, NEW S \in SUBSET Nat, IsFiniteSet(S),
         SomeOrLast(S, kept)
  PROVE  SomeOrLast(S, CookiesBy(server, kept))
  <1>1. CASE kept = S
    BY <1>1 DEF CookiesBy, SomeOrLast
  <1>2. CASE S # {} /\ kept = {Max(S)}
    <2>1. Max(S) \in Nat
      BY <1>2, LastCookie
    <2>2. Max({Max(S)}) = Max(S)
      BY <2>1 DEF Max
    <2> QED
      BY <1>2, <2>2 DEF CookiesBy, SomeOrLast
  <1> QED
    BY <1>1, <1>2 DEF SomeOrLast

\* The body of a class with keys is an object with what is shown under each key.
LEMMA BodyOf ==
  ASSUME NEW t, NEW shown, Wrapped(t), IsInjective(t.keys)
  PROVE  /\ Body(t, shown).kind = "object"
         /\ \A role \in DOMAIN t.keys :
              /\ t.keys[role] \in DOMAIN Body(t, shown).members
              /\ Body(t, shown).members[t.keys[role]] = shown[role]
  <1> DEFINE Keys == {t.keys[role] : role \in DOMAIN t.keys}
             RoleOf(key) == CHOOSE role \in DOMAIN t.keys : t.keys[role] = key
             members == [key \in Keys |-> shown[RoleOf(key)]]
  <1>1. Body(t, shown).kind = "object" /\ Body(t, shown).members = members
    BY DEF Body
  <1>2. \A role \in DOMAIN t.keys : t.keys[role] \in Keys
    OBVIOUS
  <1>3. \A role \in DOMAIN t.keys : RoleOf(t.keys[role]) = role
    BY DEF IsInjective
  <1> HIDE DEF Keys, RoleOf
  <1>4. DOMAIN members = Keys /\ \A key \in Keys : members[key] = shown[RoleOf(key)]
    OBVIOUS
  <1> HIDE DEF members
  <1> QED
    BY <1>1, <1>2, <1>3, <1>4

\* What is shown of a response under the keys of its class.
ShownOf(g) == [result |-> g.result, message |-> MessageOf(g), count |-> g.count,
               state |-> StateOf(g)]

\* What a response made of g holds.
LEMMA MadeOf ==
  ASSUME NEW g
  PROVE  /\ Made(g).of = g.template /\ Made(g).status = StatusOf(g) /\ ~Made(g).received
         /\ Made(g).cookies = g.cookies /\ Made(g).result = g.result
         /\ Made(g).message = MessageOf(g) /\ Made(g).count = g.count
         /\ Made(g).state = StateOf(g)
         /\ StatusOf(g) \notin WithoutBody =>
              /\ Made(g).content = Body(g.template, ShownOf(g))
              /\ Wrapped(g.template) => Made(g).type = "json"
              /\ ~Wrapped(g.template) => (Made(g).type = "octet" <=> Made(g).content.kind = "bytes")
  BY DEF Made, ShownOf, TypeOf, Either

\* What a backend sends of a response made of g says what g was.
LEMMA MadeConveys ==
  ASSUME NEW g \in Gifts, NEW server, NEW w,
         w.status = Made(g).status, w.type = Made(g).type, w.body = Written(Made(g).content),
         w.cookies = CookiesBy(server, Made(g).cookies)
  PROVE  Conveys(g, w)
  <1>1. w.status = StatusOf(g)
    BY MadeOf
  <1>2. SomeOrLast(g.cookies, w.cookies)
    BY MadeOf, CookiesKept, GiftAssumption DEF SomeOrLast
  <1>3. ASSUME StatusOf(g) \notin WithoutBody, Wrapped(g.template)
        PROVE  w.type = "json" /\ w.body = Made(g).content
    <2>1. Made(g).content.kind = "object"
      BY <1>3, MadeOf, BodyOf, GiftAssumption
    <2> QED
      BY <1>3, <2>1, MadeOf DEF Written
  <1>4. ASSUME StatusOf(g) \notin WithoutBody, ~Wrapped(g.template)
        PROVE  w.body = Written(g.result) /\ (w.type = "octet" <=> g.result.kind = "bytes")
    <2>1. Made(g).content = g.result
      BY <1>4, MadeOf DEF Body, ShownOf
    <2> QED
      BY <1>4, <2>1, MadeOf
  <1> QED
    BY <1>1, <1>2, <1>3, <1>4 DEF Conveys

\* What a response holds that was read from a message.
LEMMA ReadOf ==
  ASSUME NEW t, NEW w
  PROVE  /\ Read(t, w).of = t /\ Read(t, w).status = w.status /\ Read(t, w).received
         /\ Read(t, w).cookies = w.cookies /\ Read(t, w).adaptor = w
         /\ Read(t, w).content = ContentIn(w) /\ Read(t, w).result = ResultIn(t, ContentIn(w))
         /\ Read(t, w).type = Either(w.type, TypeOf(t), "none")
         /\ Read(t, w).message = Member(t, ContentIn(w), "message", "none", "none")
         /\ Read(t, w).count = Member(t, ContentIn(w), "count", 0, 0)
         /\ Read(t, w).state = Member(t, ContentIn(w), "state", NoState,
                                      IF Succeeds(w.status) THEN 1 ELSE 0)
  BY DEF Read

\* A response that was read and is sent on says what the message said, whatever
\* class it was read with.
LEMMA ReadConveys ==
  ASSUME NEW g \in Gifts, NEW server, NEW t, NEW a, NEW w, Conveys(g, a),
         w.status = Read(t, a).status, w.type = Read(t, a).type,
         w.body = IF a.body.kind # "empty" THEN a.body ELSE Written(Read(t, a).content),
         w.cookies = CookiesBy(server, Read(t, a).cookies)
  PROVE  Conveys(g, w)
  <1>1. w.status = StatusOf(g)
    BY ReadOf DEF Conveys
  <1>2. SomeOrLast(g.cookies, w.cookies)
    BY ReadOf, CookiesKept, GiftAssumption DEF Conveys
  <1>3. ASSUME StatusOf(g) \notin WithoutBody, Wrapped(g.template)
        PROVE  w.type = "json" /\ w.body = Made(g).content
    <2>1. a.type = "json" /\ a.body = Made(g).content
      BY <1>3 DEF Conveys
    <2>2. a.body.kind = "object"
      BY <1>3, <2>1, MadeOf, BodyOf, GiftAssumption
    <2> QED
      BY <2>1, <2>2, ReadOf DEF Either
  <1>4. ASSUME StatusOf(g) \notin WithoutBody, ~Wrapped(g.template)
        PROVE  w.body = Written(g.result) /\ (w.type = "octet" <=> g.result.kind = "bytes")
    <2>1. a.body = Written(g.result) /\ (a.type = "octet" <=> g.result.kind = "bytes")
      BY <1>4 DEF Conveys
    <2>2. w.type = "octet" <=> a.type = "octet"
      BY ReadOf DEF Either, TypeOf
    <2>3. CASE a.body.kind # "empty"
      BY <2>1, <2>2, <2>3
    <2>4. CASE a.body.kind = "empty"
      <3>1. g.result.kind # "bytes" /\ Written(g.result) = Bare("empty")
        BY <2>1, <2>4 DEF Written, Bare
      <3>2. Read(t, a).content \in {Bare("none"), Bare("empty")}
        BY <2>1, <3>1, ReadOf DEF ContentIn
      <3>3. w.body = Bare("empty")
        BY <2>4, <3>2 DEF Written, Bare
      <3> QED
        BY <2>1, <2>2, <3>1, <3>3
    <2> QED
      BY <2>3, <2>4
  <1> QED
    BY <1>1, <1>2, <1>3, <1>4 DEF Conveys
-----------------------------------------------------------------------------
\* What is read from a message that says what g was, with the class g was made of,
\* says it too.
LEMMA ReadSays ==
  ASSUME NEW g \in Gifts, NEW a, NEW r, Conveys(g, a), r = Read(g.template, a),
         StatusOf(g) \notin WithoutBody
  PROVE  /\ Wrapped(g.template) =>
              \A role \in DOMAIN g.template.keys :
                /\ role = "result"  => r.result = g.result
                /\ role = "message" => r.message = MessageOf(g)
                /\ role = "count"   => r.count = g.count
                /\ role = "state"   => r.state = StateOf(g)
         /\ ~Wrapped(g.template) =>
              \/ Written(r.result) = Written(g.result)
              \/ g.result.kind = "bytes" /\ r.content = Bare("file")
  <1> DEFINE t == g.template
  <1>1. ASSUME Wrapped(t), NEW role \in DOMAIN t.keys
        PROVE  /\ role = "result"  => r.result = g.result
               /\ role = "message" => r.message = MessageOf(g)
               /\ role = "count"   => r.count = g.count
               /\ role = "state"   => r.state = StateOf(g)
    <2> DEFINE body == Body(t, ShownOf(g))
    <2>1. /\ body.kind = "object" /\ t.keys[role] \in DOMAIN body.members
          /\ body.members[t.keys[role]] = ShownOf(g)[role]
      BY <1>1, BodyOf, GiftAssumption
    <2>2. a.type = "json" /\ a.body = body
      BY <1>1, MadeOf DEF Conveys
    <2>3. ContentIn(a) = body
      BY <2>1, <2>2 DEF ContentIn
    <2> HIDE DEF body
    <2> QED
      BY <1>1, <2>1, <2>3, ReadOf DEF ResultIn, Member, ShownOf
  <1>2. ASSUME ~Wrapped(t)
        PROVE  \/ Written(r.result) = Written(g.result)
               \/ g.result.kind = "bytes" /\ r.content = Bare("file")
    <2>1. a.body = Written(g.result) /\ (a.type = "octet" <=> g.result.kind = "bytes")
      BY <1>2 DEF Conveys
    <2>2. r.content = ContentIn(a) /\ r.result = ResultIn(t, ContentIn(a))
      BY ReadOf
    <2>3. CASE a.type = "octet"
      BY <2>1, <2>2, <2>3 DEF ContentIn
    <2>4. CASE a.type = "json" /\ a.body.kind = "empty"
      <3>1. r.result = Bare("none")
        BY <1>2, <2>2, <2>4 DEF ContentIn, ResultIn, Bare
      <3>2. Written(g.result) = Bare("empty")
        BY <2>1, <2>4 DEF Written, Bare
      <3> QED
        BY <3>1, <3>2 DEF Written, Bare
    <2>5. CASE a.type # "octet" /\ ~(a.type = "json" /\ a.body.kind = "empty")
      <3>1. ContentIn(a) = a.body
        BY <2>5 DEF ContentIn
      <3>2. a.body.kind # "file"
        BY <2>1, GiftAssumption DEF Written, Bare
      <3>3. r.result = Written(g.result)
        BY <1>2, <2>1, <2>2, <3>1, <3>2 DEF ResultIn
      <3> QED
        BY <3>3, WrittenOnce
    <2> QED
      BY <2>3, <2>4, <2>5
  <1> QED
    BY <1>1, <1>2

\* The state an endpoint gives, or the one of the error it gives, is the state.
LEMMA StateGiven ==
  ASSUME NEW g
  PROVE  /\ g.state \notin {0, NoState} => StateOf(g) = g.state
         /\ g.failure # NoFailure /\ g.failure.state # NoState /\ g.state = NoState =>
              StateOf(g) = g.failure.state
  BY DEF StateOf, Either

\* What the client holds is as given.
LEMMA InvSaysAsGiven == ExchangeInv => ReadAsGiven
  <1> SUFFICES ASSUME ExchangeInv, stage = "typed", ~remade, reply.of = given.template
               PROVE  /\ reply.status = StatusOf(given)
                      /\ given.cookies # {} => Max(given.cookies) \in reply.cookies
                      /\ reply.status \notin WithoutBody =>
                           IF Wrapped(given.template) THEN MembersAsGiven ELSE BodyAsGiven
    BY DEF ReadAsGiven
  <1>1. given \in Gifts
    BY DEF ExchangeInv
  <1>2. given.cookies # {} => Max(given.cookies) \in given.cookies
    BY <1>1, GiftAssumption, LastCookie
  <1>3. CASE ~reply.received
    <2>1. reply = Made(given)
      BY <1>3 DEF ExchangeInv
    <2>2. /\ reply.status = StatusOf(given) /\ reply.cookies = given.cookies
          /\ reply.result = given.result /\ reply.message = MessageOf(given)
          /\ reply.count = given.count /\ reply.state = StateOf(given)
      BY <2>1, MadeOf
    <2>3. MembersAsGiven
      BY <2>2, StateGiven DEF MembersAsGiven
    <2>4. BodyAsGiven
      BY <2>2 DEF BodyAsGiven
    <2> QED
      BY <1>2, <2>2, <2>3, <2>4
  <1>4. CASE reply.received
    <2>1. reply = Read(given.template, reply.adaptor) /\ Conveys(given, reply.adaptor)
      BY <1>4 DEF ExchangeInv
    <2>2. reply.status = StatusOf(given)
      BY <2>1, ReadOf DEF Conveys
    <2>3. given.cookies # {} => Max(given.cookies) \in reply.cookies
      BY <1>2, <2>1, ReadOf DEF Conveys, SomeOrLast
    <2>4. ASSUME reply.status \notin WithoutBody, Wrapped(given.template)
          PROVE  MembersAsGiven
      BY <1>1, <2>1, <2>2, <2>4, ReadSays, StateGiven DEF MembersAsGiven
    <2>5. ASSUME reply.status \notin WithoutBody, ~Wrapped(given.template)
          PROVE  BodyAsGiven
      BY <1>1, <2>1, <2>2, <2>5, ReadSays DEF BodyAsGiven
    <2> QED
      BY <2>2, <2>3, <2>4, <2>5
  <1> QED
    BY <1>3, <1>4
-----------------------------------------------------------------------------
\* The endpoint has made its response.
LEMMA ExchangeInitInv == ExchangeInit => ExchangeInv
  BY MadeOf DEF ExchangeInit, ExchangeInv

\* Every step keeps the invariant.
LEMMA ExchangeStepInv == ExchangeInv /\ [ExchangeNext]_exchangeVars => ExchangeInv'
  <1> SUFFICES ASSUME ExchangeInv, [ExchangeNext]_exchangeVars PROVE ExchangeInv'
    OBVIOUS
  <1>1. CASE Give
    BY <1>1 DEF ExchangeInv, Give
  <1>2. ASSUME NEW server \in Servers, NEW compress \in BOOLEAN, SendResponse(server, compress)
        PROVE  ExchangeInv'
    <2>1. UNCHANGED <<given, reply, remade>>
      BY <1>2 DEF SendResponse
    <2> DEFINE body == IF reply.received /\ reply.adaptor.body.kind # "empty"
                       THEN reply.adaptor.body ELSE Written(reply.content)
    <2>2. /\ wire'.status = reply.status /\ wire'.type = reply.type
          /\ wire'.body = body /\ wire'.cookies = CookiesBy(server, reply.cookies)
      BY <1>2 DEF SendResponse
    <2>3. ASSUME ~remade PROVE Conveys(given, wire')
      <3>1. given \in Gifts
        BY DEF ExchangeInv
      <3>2. CASE ~reply.received
        <4>1. reply = Made(given) /\ body = Written(reply.content)
          BY <2>3, <3>2 DEF ExchangeInv
        <4> HIDE DEF body
        <4> QED
          BY <2>2, <3>1, <4>1, MadeConveys
      <3>3. CASE reply.received
        <4>1. reply = Read(reply.of, reply.adaptor) /\ Conveys(given, reply.adaptor)
          BY <2>3, <3>3 DEF ExchangeInv
        <4>2. body = IF reply.adaptor.body.kind # "empty" THEN reply.adaptor.body
                     ELSE Written(reply.content)
          BY <3>3
        <4> DEFINE t == reply.of
                   a == reply.adaptor
        <4>3. reply = Read(t, a) /\ Conveys(given, a)
          BY <4>1
        <4>4. body = IF a.body.kind # "empty" THEN a.body ELSE Written(reply.content)
          BY <4>2
        <4> HIDE DEF body, t, a
        <4> QED
          BY <2>2, <3>1, <4>3, <4>4, ReadConveys
      <3> QED
        BY <3>2, <3>3
    <2> QED
      BY <2>1, <2>3 DEF ExchangeInv
  <1>3. CASE Receive
    <2>1. reply' = Read(Base, wire) /\ stage' = "received" /\ UNCHANGED <<given, remade>>
      BY <1>3 DEF Receive
    <2>2. reply'.received /\ reply'.of = Base /\ reply'.adaptor = wire
      BY <2>1, ReadOf
    <2>3. ~remade => Conveys(given, wire)
      BY <1>3 DEF ExchangeInv, Receive
    <2> QED
      BY <2>1, <2>2, <2>3 DEF ExchangeInv
  <1>4. CASE FailSilently
    BY <1>4 DEF ExchangeInv, FailSilently
  <1>5. CASE CallInside
    BY <1>5 DEF ExchangeInv, CallInside
  <1>6. CASE Forward
    BY <1>6 DEF ExchangeInv, Forward
  <1>7. ASSUME NEW union \in Unions, NEW silently \in BOOLEAN, Parse(union, silently)
        PROVE  ExchangeInv'
    <2> DEFINE t == union[Min(Candidates(union, reply))]
    <2>1. /\ UNCHANGED given /\ stage' # "sent"
          /\ remade' = (remade \/ (reply' # reply /\ ~reply.received))
          /\ reply' = reply \/ reply' = As(t, reply)
      BY <1>7 DEF Parse
    <2> HIDE DEF t
    <2>2. CASE reply' = reply
      BY <2>1, <2>2 DEF ExchangeInv
    <2>3. CASE reply' # reply
      <3> SUFFICES ASSUME ~remade' PROVE reply'.received /\ reply' = Read(reply'.of, reply'.adaptor)
                                         /\ Conveys(given, reply'.adaptor)
        BY <2>1 DEF ExchangeInv
      <3>1. ~remade /\ reply.received /\ Conveys(given, reply.adaptor)
        BY <2>1, <2>3 DEF ExchangeInv
      <3>2. reply' = Read(t, reply.adaptor)
        BY <2>1, <2>3, <3>1 DEF As
      <3>3. reply'.received /\ reply'.of = t /\ reply'.adaptor = reply.adaptor
        BY <3>2, ReadOf
      <3> QED
        BY <3>1, <3>2, <3>3
    <2> QED
      BY <2>2, <2>3
  <1>8. CASE UNCHANGED exchangeVars
    BY <1>8 DEF exchangeVars, ExchangeInv
  <1> QED
    BY <1>1, <1>2, <1>3, <1>4, <1>5, <1>6, <1>7, <1>8 DEF ExchangeNext

\* Whoever reads a response with the class it was made of finds what the first
\* endpoint gave, over any number of services that return it as they got it
\* (Response.__init__ and the adaptors of core/response/base.py).
THEOREM GivenIsRead == ExchangeSpec => []ReadAsGiven
  <1>1. ExchangeInit => ExchangeInv
    BY ExchangeInitInv
  <1>2. ExchangeInv /\ [ExchangeNext]_exchangeVars => ExchangeInv'
    BY ExchangeStepInv
  <1>3. ExchangeInv => ReadAsGiven
    BY InvSaysAsGiven
  <1> QED
    BY <1>1, <1>2, <1>3, PTL DEF ExchangeSpec

-----------------------------------------------------------------------------
(***************************************************************************)
(* Proofs about SpanLog, for any tasks of a request and any number of      *)
(* spans and messages: the row of the request has what was logged in it.   *)
(***************************************************************************)
USE SpanAssumption

LoggerIds == 1..Len(loggers)
EventIds  == 1..Len(entries)

Logger == [from: Nat, child: Nat, event: Nat, data: {Shared, Owned}, exited: BOOLEAN,
           level: Nat, events: SUBSET Nat, messages: SUBSET Nat]
Entry  == [inner: Nat, level: {Nil} \cup Levels, in: Nat]

SpanTyped ==
  /\ loggers \in Seq(Logger) /\ Root \in LoggerIds
  /\ entries \in Seq(Entry)
  /\ current \in [Tasks -> Nat] /\ blocks \in [Tasks -> Seq(Nat)]
  /\ \A t \in Tasks : /\ current[t] \in LoggerIds \cup {Nil}
                      /\ record.pc = "open" => current[t] # Nil
                      /\ \A i \in 1..Len(blocks[t]) : blocks[t][i] \in LoggerIds
  /\ record.pc \in {"open", "queued", "made"}
  /\ record = [pc |-> record.pc, level |-> record.level, trace |-> record.trace, committed |-> record.committed]
  /\ spanOwner \in Seq(Tasks) /\ Len(spanOwner) = Len(loggers)
  /\ crossed \in BOOLEAN

\* Loggers and events form a tree: a logger has the events that lie in it, and a
\* logger of a span is of one of them.
TreeOK ==
  /\ loggers[Root].event = Nil /\ loggers[Root].from = Nil
  /\ \A m \in LoggerIds :
       /\ loggers[m].child # Nil => loggers[m].child \in LoggerIds /\ m < loggers[m].child
       /\ loggers[m].events = {e \in EventIds : entries[e].in = m}
       /\ m # Root => /\ loggers[m].from \in 1..(m - 1)
                      /\ loggers[m].event \in EventIds
                      /\ entries[loggers[m].event].in = loggers[m].from
                      /\ \A k \in LoggerIds : loggers[k].event = loggers[m].event => k = m
  /\ \A e \in EventIds : entries[e].in \in LoggerIds /\ entries[e].inner \in LoggerIds \cup {Nil}

\* A span that was closed before another was opened in it has filled its event.
FilledOK ==
  \A m \in LoggerIds \ {Root} :
    loggers[m].exited /\ loggers[m].data = Shared => entries[loggers[m].event].inner = m

\* The level of the request is at least that of what was logged outside of spans.
LevelOK ==
  /\ record.pc # "made" => record.committed = {}
  /\ \A e \in EventIds \ record.committed : entries[e].in = Root => loggers[Root].level >= entries[e].level

RecordOK == record.pc = "made" => record.trace = Trace /\ LevelOfWorst

\* While no span was crossed, one task at most has spans open, each in the one before.
Resting ==
  /\ loggers[Root].child = Nil /\ ~loggers[Root].exited
  /\ \A t \in Tasks : blocks[t] = <<>> /\ current[t] = Root

Holding(t) ==
  LET b == blocks[t]
      m == current[t]
  IN /\ \A u \in Tasks \ {t} : blocks[u] = <<>> /\ current[u] = Root
     /\ b # <<>> /\ b[1] = Root
     /\ \A i \in 1..Len(b) : /\ loggers[b[i]].child = IF i = Len(b) THEN m ELSE b[i + 1]
                             /\ ~loggers[b[i]].exited /\ (i > 1 => spanOwner[b[i]] = t)
     /\ m # Nil /\ loggers[m].child = Nil /\ ~loggers[m].exited /\ spanOwner[m] = t

HolderOK == ~crossed /\ record.pc = "open" => Resting \/ \E t \in Tasks : Holding(t)

SpanInv == SpanTyped /\ TreeOK /\ FilledOK /\ AllMessages /\ LevelOK /\ RecordOK /\ HolderOK
-----------------------------------------------------------------------------
\* The type of a logger.
LEMMA LoggerTyped ==
  ASSUME SpanTyped, NEW m \in LoggerIds
  PROVE  /\ loggers[m] \in Logger /\ loggers[m].exited \in BOOLEAN /\ loggers[m].data \in {Shared, Owned}
         /\ loggers[m].child \in Nat /\ loggers[m].level \in Nat /\ loggers[m].events \subseteq Nat
         /\ loggers[m].messages \subseteq Nat /\ loggers[m].event \in Nat /\ loggers[m].from \in Nat
         /\ m \in Nat \ {0} /\ DOMAIN loggers = LoggerIds
  <1>1. loggers \in Seq(Logger) /\ m \in 1..Len(loggers) /\ Len(loggers) \in Nat
    BY DEF SpanTyped, LoggerIds
  <1>2. loggers[m] \in Logger
    BY <1>1, ElementOfSeq
  <1>3. DOMAIN loggers = LoggerIds
    BY <1>1 DEF LoggerIds
  <1> QED
    BY <1>1, <1>2, <1>3 DEF Logger

\* The type of an event.
LEMMA EntryTyped ==
  ASSUME SpanTyped, NEW e \in EventIds
  PROVE  /\ entries[e] \in Entry /\ entries[e].inner \in Nat /\ entries[e].level \in {Nil, Info, Error}
         /\ entries[e].level \in Nat /\ entries[e].in \in Nat /\ e \in Nat \ {0} /\ DOMAIN entries = EventIds
  <1>1. entries \in Seq(Entry) /\ e \in 1..Len(entries) /\ Len(entries) \in Nat
    BY DEF SpanTyped, EventIds
  <1>2. entries[e] \in Entry
    BY <1>1, ElementOfSeq
  <1>3. DOMAIN entries = EventIds
    BY <1>1 DEF EventIds
  <1>4. entries[e].level \in {Nil, Info, Error} /\ {Nil, Info, Error} \subseteq Nat
    BY <1>2 DEF Entry, Levels, Nil, Info, Error
  <1> QED
    BY <1>1, <1>2, <1>3, <1>4 DEF Entry

-----------------------------------------------------------------------------
(* The recursive functions *)

\* Induction, for a set of numbers.
LEMMA Counting ==
  ASSUME NEW S \in SUBSET Nat, 0 \in S, \A n \in Nat : n \in S => n + 1 \in S
  PROVE  S = Nat
  <1> SUFFICES ASSUME Nat \ S # {} PROVE FALSE
    OBVIOUS
  <1>1. PICK x \in Nat \ S : \A y \in Nat \ S : x <= y
    BY FirstNumber
  <1>2. x - 1 \in Nat /\ ~(x <= x - 1) /\ (x - 1) + 1 = x
    BY <1>1
  <1>3. x - 1 \in S
    BY <1>1, <1>2
  <1> QED
    BY <1>1, <1>2, <1>3

\* The children of a logger are made after it, so the recursion ends.
LEMMA BelowIs ==
  ASSUME SpanTyped, TreeOK
  PROVE  \A l \in LoggerIds :
           Below[l] = IF loggers[l].child = Nil THEN <<l>> ELSE <<l>> \o Below[loggers[l].child]
  <1> DEFINE N == Len(loggers)
             Step(g, l) == IF loggers[l].child = Nil THEN <<l>> ELSE <<l>> \o g[loggers[l].child]
             From(k, g) == /\ g = [l \in LoggerIds |-> g[l]]
                           /\ \A l \in LoggerIds : l + k > N => g[l] = Step(g, l)
             S == {k \in Nat : \E g : From(k, g)}
  <1>1. N \in Nat /\ LoggerIds = 1..N /\ DOMAIN loggers = LoggerIds
    BY DEF SpanTyped, LoggerIds
  <1>2. From(0, [l \in LoggerIds |-> <<l>>])
    BY <1>1
  <1>3. ASSUME NEW k \in Nat, NEW g, From(k, g) PROVE \E h : From(k + 1, h)
    <2> DEFINE h == [l \in LoggerIds |-> IF l + k = N THEN Step(g, l) ELSE g[l]]
    <2>1. ASSUME NEW l \in LoggerIds, l + (k + 1) > N PROVE h[l] = Step(g, l)
      <3>1. l \in Nat /\ N \in Nat /\ k \in Nat
        BY <1>1
      <3>2. l + k = N \/ l + k > N
        <4> HIDE DEF N
        <4> QED
          BY <2>1, <3>1
      <3> QED
        BY <1>3, <3>2
    <2>2. ASSUME NEW l \in LoggerIds, l + (k + 1) > N PROVE Step(g, l) = Step(h, l)
      <3>1. CASE loggers[l].child = Nil
        BY <3>1
      <3>2. CASE loggers[l].child # Nil
        <4>1. loggers[l].child \in LoggerIds /\ l < loggers[l].child
          BY <3>2 DEF TreeOK
        <4>2. loggers[l].child + k # N
          BY <1>1, <2>2, <4>1
        <4>3. h[loggers[l].child] = g[loggers[l].child]
          BY <4>1, <4>2
        <4> QED
          BY <3>2, <4>3
      <3> QED
        BY <3>1, <3>2
    <2>3. h = [l \in LoggerIds |-> h[l]]
      OBVIOUS
    <2> HIDE DEF h
    <2>4. From(k + 1, h)
      <3> SUFFICES ASSUME NEW l \in LoggerIds, l + (k + 1) > N PROVE h[l] = Step(h, l)
        BY <2>3
      <3> QED
        BY <2>1, <2>2
    <2> HIDE DEF From
    <2> QED
      BY <2>4
  <1>4. S = Nat
    <2> HIDE DEF From
    <2>1. S \in SUBSET Nat /\ 0 \in S /\ \A k \in Nat : k \in S => k + 1 \in S
      BY <1>2, <1>3
    <2> HIDE DEF S
    <2> QED
      BY <2>1, Counting
  <1>5. PICK g : From(N, g)
    BY <1>1, <1>4
  <1>6. g = [l \in LoggerIds |-> Step(g, l)]
    BY <1>1, <1>5
  <1>7. Below = [l \in DOMAIN loggers |->
          IF loggers[l].child = Nil THEN <<l>> ELSE <<l>> \o Below[loggers[l].child]]
    BY <1>1, <1>6 DEF Below
  <1> QED
    BY <1>1, <1>7

\* The spans around a logger, likewise.
LEMMA AboveIs ==
  ASSUME SpanTyped, TreeOK
  PROVE  \A l \in LoggerIds : Above[l] = IF l = Root THEN {} ELSE {l} \cup Above[loggers[l].from]
  <1> DEFINE N == Len(loggers)
             Step(g, l) == IF l = Root THEN {} ELSE {l} \cup g[loggers[l].from]
             Upto(k, g) == /\ g = [l \in LoggerIds |-> g[l]]
                           /\ \A l \in LoggerIds : l <= k => g[l] = Step(g, l)
             S == {k \in Nat : \E g : Upto(k, g)}
  <1>1. N \in Nat /\ LoggerIds = 1..N /\ DOMAIN loggers = LoggerIds
    BY DEF SpanTyped, LoggerIds
  <1>2. Upto(0, [l \in LoggerIds |-> {}])
    BY <1>1
  <1>3. ASSUME NEW k \in Nat, NEW g, Upto(k, g) PROVE \E h : Upto(k + 1, h)
    <2> DEFINE h == [l \in LoggerIds |-> IF l = k + 1 THEN Step(g, l) ELSE g[l]]
    <2>1. ASSUME NEW l \in LoggerIds, l <= k + 1 PROVE h[l] = Step(g, l)
      <3>1. l = k + 1 \/ l <= k
        BY <1>1, <2>1
      <3> QED
        BY <1>3, <3>1
    <2>2. ASSUME NEW l \in LoggerIds, l <= k + 1 PROVE Step(g, l) = Step(h, l)
      <3>1. CASE l = Root
        BY <3>1
      <3>2. CASE l # Root
        <4>1. loggers[l].from \in 1..(l - 1)
          BY <3>2 DEF TreeOK
        <4>2. loggers[l].from \in LoggerIds /\ loggers[l].from # k + 1
          BY <1>1, <2>2, <4>1
        <4>3. h[loggers[l].from] = g[loggers[l].from]
          BY <4>2
        <4> QED
          BY <3>2, <4>3
      <3> QED
        BY <3>1, <3>2
    <2>3. h = [l \in LoggerIds |-> h[l]]
      OBVIOUS
    <2> HIDE DEF h
    <2>4. Upto(k + 1, h)
      <3> SUFFICES ASSUME NEW l \in LoggerIds, l <= k + 1 PROVE h[l] = Step(h, l)
        BY <2>3
      <3> QED
        BY <2>1, <2>2
    <2> HIDE DEF Upto
    <2> QED
      BY <2>4
  <1>4. S = Nat
    <2> HIDE DEF Upto
    <2>1. S \in SUBSET Nat /\ 0 \in S /\ \A k \in Nat : k \in S => k + 1 \in S
      BY <1>2, <1>3
    <2> HIDE DEF S
    <2> QED
      BY <2>1, Counting
  <1>5. PICK g : Upto(N, g)
    BY <1>1, <1>4
  <1>6. g = [l \in LoggerIds |-> Step(g, l)]
    BY <1>1, <1>5
  <1>7. Above = [l \in DOMAIN loggers |-> IF l = Root THEN {} ELSE {l} \cup Above[loggers[l].from]]
    BY <1>1, <1>6 DEF Above
  <1> QED
    BY <1>1, <1>7

\* The events of a depth and their inner ones.
Deeper(F) == F \cup UNION {loggers[entries[e].inner].events : e \in {f \in F : entries[f].inner # Nil}}

\* The trace is found depth by depth.
LEMMA FoundIs ==
  ASSUME Len(loggers) \in Nat
  PROVE  /\ Found[0] = loggers[Root].events
         /\ \A n \in 1..Len(loggers) : Found[n] = Deeper(Found[n - 1])
  <1> DEFINE N == Len(loggers)
             Step(g, n) == IF n = 0 THEN loggers[Root].events ELSE Deeper(g[n - 1])
             Upto(k, g) == /\ g = [n \in 0..N |-> g[n]]
                           /\ \A n \in 0..N : n <= k => g[n] = Step(g, n)
             S == {k \in Nat : \E g : Upto(k, g)}
  <1>1. N \in Nat
    OBVIOUS
  <1>2. Upto(0, [n \in 0..N |-> loggers[Root].events])
    BY <1>1
  <1>3. ASSUME NEW k \in Nat, NEW g, Upto(k, g) PROVE \E h : Upto(k + 1, h)
    <2> DEFINE h == [n \in 0..N |-> IF n = k + 1 THEN Step(g, n) ELSE g[n]]
    <2>1. ASSUME NEW n \in 0..N, n <= k + 1 PROVE h[n] = Step(g, n)
      <3>1. n = k + 1 \/ n <= k
        BY <1>1, <2>1
      <3> QED
        BY <1>3, <3>1
    <2>2. ASSUME NEW n \in 0..N, n <= k + 1 PROVE Step(g, n) = Step(h, n)
      <3>1. CASE n = 0
        BY <3>1
      <3>2. CASE n # 0
        <4>1. n - 1 \in 0..N /\ n - 1 # k + 1
          BY <1>1, <2>2, <3>2
        <4>2. h[n - 1] = g[n - 1]
          BY <4>1
        <4> QED
          BY <3>2, <4>2
      <3> QED
        BY <3>1, <3>2
    <2>3. h = [n \in 0..N |-> h[n]]
      OBVIOUS
    <2> HIDE DEF h
    <2>4. Upto(k + 1, h)
      <3> SUFFICES ASSUME NEW n \in 0..N, n <= k + 1 PROVE h[n] = Step(h, n)
        BY <2>3
      <3> QED
        BY <2>1, <2>2
    <2> HIDE DEF Upto
    <2> QED
      BY <2>4
  <1>4. S = Nat
    <2> HIDE DEF Upto
    <2>1. S \in SUBSET Nat /\ 0 \in S /\ \A k \in Nat : k \in S => k + 1 \in S
      BY <1>2, <1>3
    <2> HIDE DEF S
    <2> QED
      BY <2>1, Counting
  <1>5. PICK g : Upto(N, g)
    BY <1>1, <1>4
  <1>6. g = [n \in 0..N |-> Step(g, n)]
    <2>1. \A n \in 0..N : g[n] = Step(g, n)
      BY <1>1, <1>5
    <2> QED
      BY <1>5, <2>1
  <1>7. Found = [n \in 0..N |-> Step(Found, n)]
    BY <1>6 DEF Found, Deeper
  <1>8. \A n \in 1..N : n \in 0..N /\ n # 0
    BY <1>1
  <1> QED
    BY <1>1, <1>7, <1>8
-----------------------------------------------------------------------------
(* The loggers below one *)

\* A set that has the children of its loggers has all that is below them.
LEMMA BelowStays ==
  ASSUME SpanTyped, TreeOK, NEW S \in SUBSET LoggerIds,
         \A k \in S : loggers[k].child = Nil \/ loggers[k].child \in S
  PROVE  \A l \in S : /\ Below[l] \in Seq(S) /\ ToSet(Below[l]) \subseteq S
                      /\ Deepest(l) \in S /\ loggers[Deepest(l)].child = Nil
  <1> DEFINE N == Len(loggers)
             Good(l) == Below[l] \in Seq(S) /\ Len(Below[l]) > 0 /\ loggers[Below[l][Len(Below[l])]].child = Nil
             T == {k \in Nat : \A l \in S : l + k > N => Good(l)}
  <1>1. N \in Nat /\ \A l \in S : l \in Nat /\ l <= N /\ l \in LoggerIds
    BY DEF SpanTyped, LoggerIds
  <1>2. 0 \in T
    <2> HIDE DEF Good
    <2> QED
      BY <1>1
  <1>3. ASSUME NEW k \in Nat, k \in T PROVE k + 1 \in T
    <2> SUFFICES ASSUME NEW l \in S, l + (k + 1) > N PROVE Good(l)
      OBVIOUS
    <2>1. l \in Nat /\ l \in LoggerIds /\ N \in Nat
      BY <1>1
    <2>2. CASE loggers[l].child = Nil
      <3>1. Below[l] = <<l>>
        BY <2>1, <2>2, BelowIs
      <3> QED
        BY <2>2, <3>1
    <2>3. CASE loggers[l].child # Nil
      <3> DEFINE c == loggers[l].child
      <3>1. c \in S /\ l < c /\ c \in Nat
        BY <1>1, <2>1, <2>3 DEF TreeOK
      <3>2. Below[l] = <<l>> \o Below[c]
        BY <2>1, <2>3, BelowIs
      <3> HIDE DEF c
      <3>3. c + k > N
        <4> HIDE DEF N
        <4> QED
          BY <2>1, <3>1
      <3>4. Good(c)
        BY <1>3, <3>1, <3>3
      <3>5. <<l>> \in Seq(S) /\ Len(<<l>>) = 1
        OBVIOUS
      <3>6. Below[c] \in Seq(S) /\ Len(Below[c]) \in Nat /\ Len(Below[c]) > 0
        BY <3>4
      <3>7. Below[l] \in Seq(S) /\ Len(Below[l]) = 1 + Len(Below[c])
        BY <3>2, <3>5, <3>6
      <3>8. Below[l][Len(Below[l])] = Below[c][Len(Below[c])]
        BY <3>2, <3>5, <3>6, <3>7
      <3> QED
        BY <3>4, <3>6, <3>7, <3>8
    <2> QED
      BY <2>2, <2>3
  <1>4. T = Nat
    <2> HIDE DEF T
    <2>1. T \in SUBSET Nat
      BY DEF T
    <2> QED
      BY <1>2, <1>3, <2>1, Counting
  <1>5. \A l \in S : Good(l)
    <2> TAKE l \in S
    <2>1. N \in Nat /\ l \in Nat /\ l > 0
      BY <1>1 DEF LoggerIds
    <2>2. l + N > N
      <3> HIDE DEF N
      <3> QED
        BY <2>1
    <2> QED
      BY <1>4, <2>1, <2>2
  <1> TAKE l \in S
  <1>6. Good(l)
    BY <1>5
  <1>7. ToSet(Below[l]) \subseteq S
    BY <1>6 DEF ToSet
  <1>8. Deepest(l) = Below[l][Len(Below[l])] /\ Deepest(l) \in S
    BY <1>6 DEF Deepest, Last
  <1> QED
    BY <1>6, <1>7, <1>8

\* What is below a logger is a logger, and the last one has no child.
LEMMA DeepestIs ==
  ASSUME SpanTyped, TreeOK, NEW l \in LoggerIds
  PROVE  ToSet(Below[l]) \subseteq LoggerIds /\ Deepest(l) \in LoggerIds /\ loggers[Deepest(l)].child = Nil
  <1>1. \A k \in LoggerIds : loggers[k].child = Nil \/ loggers[k].child \in LoggerIds
    BY DEF TreeOK
  <1> QED
    BY <1>1, BelowStays

\* A logger without a child is alone.
LEMMA Childless ==
  ASSUME SpanTyped, TreeOK, NEW l \in LoggerIds, loggers[l].child = Nil
  PROVE  ToSet(Below[l]) = {l} /\ Deepest(l) = l /\ (~loggers[l].exited => Ending(l) = {l})
  <1>1. Below[l] = <<l>>
    BY BelowIs
  <1>2. ToSet(Below[l]) = {l}
    BY <1>1 DEF ToSet
  <1> QED
    BY <1>1, <1>2 DEF Deepest, Last, Ending
-----------------------------------------------------------------------------
(* The trace *)

\* The deeper, the more.
LEMMA FoundGrows ==
  ASSUME Len(loggers) \in Nat, NEW i \in 0..Len(loggers), NEW k \in 0..Len(loggers), i <= k
  PROVE  Found[i] \subseteq Found[k]
  <1> DEFINE N == Len(loggers)
             R == {j \in Nat : i + j <= N => Found[i] \subseteq Found[i + j]}
  <1>1. 0 \in R
    OBVIOUS
  <1>2. ASSUME NEW j \in Nat, j \in R PROVE j + 1 \in R
    <2> SUFFICES ASSUME i + (j + 1) <= N PROVE Found[i] \subseteq Found[i + (j + 1)]
      OBVIOUS
    <2>1. i + j <= N /\ i + (j + 1) \in 1..N /\ (i + (j + 1)) - 1 = i + j
      OBVIOUS
    <2>2. Found[i + (j + 1)] = Deeper(Found[i + j])
      BY <2>1, FoundIs
    <2> QED
      BY <1>2, <2>1, <2>2 DEF Deeper
  <1>3. R = Nat
    <2> HIDE DEF R
    <2>1. R \in SUBSET Nat
      BY DEF R
    <2> QED
      BY <1>1, <1>2, <2>1, Counting
  <1>4. k - i \in R /\ i + (k - i) = k
    BY <1>3
  <1> QED
    BY <1>4

\* Where every span was filled, the trace has what is logged in it.
LEMMA FilledIsFound ==
  ASSUME SpanTyped, TreeOK, FilledOK
  PROVE  \A m \in LoggerIds :
           (\A l \in Above[m] : loggers[l].data = Shared /\ loggers[l].exited)
           => loggers[m].events \subseteq Trace
  <1> DEFINE N == Len(loggers)
             Clear(m) == \A l \in Above[m] : loggers[l].data = Shared /\ loggers[l].exited
             T == {k \in Nat : \A m \in LoggerIds : m <= k /\ Clear(m) => loggers[m].events \subseteq Found[m - 1]}
  <1>1. N \in Nat /\ N >= 1 /\ LoggerIds = 1..N
    BY DEF SpanTyped, LoggerIds, Root
  <1>2. Found[0] = loggers[Root].events /\ \A n \in 1..N : Found[n] = Deeper(Found[n - 1])
    BY <1>1, FoundIs
  <1>3. 0 \in T
    <2> HIDE DEF Clear
    <2> QED
      BY <1>1
  <1>4. ASSUME NEW k \in Nat, k \in T PROVE k + 1 \in T
    <2> SUFFICES ASSUME NEW m \in LoggerIds, m <= k + 1, Clear(m) PROVE loggers[m].events \subseteq Found[m - 1]
      OBVIOUS
    <2>1. CASE m = Root
      BY <1>2, <2>1 DEF Root
    <2>2. CASE m # Root
      <3> DEFINE p == loggers[m].from
                 e == loggers[m].event
      <3>1. p \in 1..(m - 1) /\ e \in EventIds /\ entries[e].in = p
        BY <2>2 DEF TreeOK
      <3>2. Above[m] = {m} \cup Above[p]
        BY <2>2, AboveIs
      <3>3. entries[e].inner = m
        BY <2>2, <3>2 DEF FilledOK
      <3> HIDE DEF e, p
      <3>4. p \in LoggerIds /\ p <= k /\ p - 1 \in Nat /\ m - 1 \in 1..N /\ p - 1 <= m - 2
        BY <1>1, <3>1
      <3>5. Clear(p)
        BY <3>2
      <3>6. loggers[p].events \subseteq Found[p - 1]
        BY <1>4, <3>4, <3>5
      <3>7. e \in loggers[p].events
        BY <3>1, <3>4 DEF TreeOK
      <3>8. e \in Found[m - 2]
        <4>1. p - 1 \in 0..N /\ m - 2 \in 0..N /\ p - 1 <= m - 2
          BY <1>1, <3>1, <3>4
        <4> QED
          BY <3>6, <3>7, <4>1, FoundGrows
      <3>9. Found[m - 1] = Deeper(Found[m - 2])
        <4>1. m \in Nat /\ (m - 1) - 1 = m - 2
          BY <1>1
        <4> QED
          BY <1>2, <3>4, <4>1
      <3>10. m # Nil
        BY <1>1 DEF Nil
      <3> QED
        BY <3>3, <3>8, <3>9, <3>10 DEF Deeper
    <2> QED
      BY <2>1, <2>2
  <1>5. T = Nat
    <2> HIDE DEF T
    <2>1. T \in SUBSET Nat
      BY DEF T
    <2> QED
      BY <1>3, <1>4, <2>1, Counting
  <1> SUFFICES ASSUME NEW m \in LoggerIds, Clear(m) PROVE loggers[m].events \subseteq Trace
    OBVIOUS
  <1>6. loggers[m].events \subseteq Found[m - 1] /\ m \in Nat /\ m - 1 \in Nat /\ m - 1 <= N
    BY <1>1, <1>5
  <1>7. Found[m - 1] \subseteq Found[N]
    BY <1>1, <1>6, FoundGrows
  <1> QED
    BY <1>6, <1>7 DEF Trace

\* The spans around a logger are loggers.
LEMMA AboveIn ==
  ASSUME SpanTyped, TreeOK
  PROVE  \A m \in LoggerIds : Above[m] \subseteq LoggerIds
  <1> DEFINE T == {k \in Nat : \A m \in LoggerIds : m <= k => Above[m] \subseteq LoggerIds}
  <1>1. \A m \in LoggerIds : m \in Nat /\ m >= 1
    BY DEF LoggerIds
  <1>2. 0 \in T
    BY <1>1
  <1>3. ASSUME NEW k \in Nat, k \in T PROVE k + 1 \in T
    <2> SUFFICES ASSUME NEW m \in LoggerIds, m <= k + 1 PROVE Above[m] \subseteq LoggerIds
      OBVIOUS
    <2>1. CASE m = Root
      BY <2>1, AboveIs
    <2>2. CASE m # Root
      <3>1. loggers[m].from \in 1..(m - 1)
        BY <2>2 DEF TreeOK
      <3>2. loggers[m].from \in LoggerIds /\ loggers[m].from <= k
        BY <1>1, <3>1 DEF LoggerIds
      <3>3. Above[loggers[m].from] \subseteq LoggerIds
        BY <1>3, <3>2
      <3> QED
        BY <2>2, <3>3, AboveIs
    <2> QED
      BY <2>1, <2>2
  <1>4. T = Nat
    <2> HIDE DEF T
    <2>1. T \in SUBSET Nat
      BY DEF T
    <2> QED
      BY <1>2, <1>3, <2>1, Counting
  <1> QED
    BY <1>1, <1>4

\* The invariant implies the property.
LEMMA InvComplete == SpanInv => RowComplete
  <1> SUFFICES ASSUME SpanInv PROVE RowComplete
    OBVIOUS
  <1>1. SpanTyped /\ TreeOK /\ FilledOK /\ AllMessages /\ RecordOK /\ HolderOK
    BY DEF SpanInv
  <1>2. TraceComplete
    <2> SUFFICES ASSUME record.pc = "made", NEW e \in Messages \ record.trace
                 PROVE  \E l \in Above[entries[e].in] : loggers[l].data = Owned \/ ~loggers[l].exited
      BY DEF TraceComplete
    <2> DEFINE m == entries[e].in
    <2>1. e \in EventIds
      BY <1>1 DEF Messages, SpanTyped, EventIds
    <2>2. m \in LoggerIds /\ e \in loggers[m].events
      BY <1>1, <2>1 DEF TreeOK
    <2>3. e \notin Trace
      BY <1>1 DEF RecordOK
    <2>4. PICK l \in Above[m] : ~(loggers[l].data = Shared /\ loggers[l].exited)
      BY <1>1, <2>2, <2>3, FilledIsFound
    <2>5. loggers[l].data \in {Shared, Owned}
      BY <1>1, <2>2, AboveIn, LoggerTyped
    <2> QED
      BY <2>4, <2>5
  <1>3. LevelOfWorst
    BY <1>1 DEF RecordOK, LevelOfWorst
  <1>4. ContextRestored
    BY <1>1 DEF HolderOK, ContextRestored, Resting, Holding
  <1> QED
    BY <1>1, <1>2, <1>3, <1>4 DEF RowComplete
-----------------------------------------------------------------------------
(* The operations *)

\* A logger and those below it end.
Ends(l) ==
  /\ entries' = Filled(l) /\ loggers' \in Seq(Logger) /\ Len(loggers') = Len(loggers)
  /\ \A m \in LoggerIds :
       /\ loggers'[m].from = loggers[m].from /\ loggers'[m].event = loggers[m].event
       /\ loggers'[m].data = loggers[m].data /\ loggers'[m].level = loggers[m].level
       /\ loggers'[m].events = loggers[m].events /\ loggers'[m].messages = loggers[m].messages
       /\ loggers'[m].exited <=> loggers[m].exited \/ m \in Ending(l)
       /\ loggers'[m].child \in {loggers[m].child, Nil}

\* The loggers that end are loggers.
LEMMA EndingIn ==
  ASSUME SpanTyped, TreeOK, NEW l \in LoggerIds
  PROVE  Ending(l) \subseteq LoggerIds
  BY DeepestIs DEF Ending

\* Ending marks the loggers that end, and no other.
LEMMA ExitedIs ==
  ASSUME SpanTyped, TreeOK, NEW l \in LoggerIds
  PROVE  /\ Exited(l) \in Seq(Logger) /\ Len(Exited(l)) = Len(loggers)
         /\ \A m \in LoggerIds :
              Exited(l)[m] = IF m \in Ending(l) THEN [loggers[m] EXCEPT !.exited = TRUE] ELSE loggers[m]
  <1>1. DOMAIN loggers = LoggerIds /\ Len(loggers) \in Nat
    BY DEF SpanTyped, LoggerIds
  <1>2. ASSUME NEW m \in LoggerIds
        PROVE  /\ Exited(l)[m] = IF m \in Ending(l) THEN [loggers[m] EXCEPT !.exited = TRUE] ELSE loggers[m]
               /\ Exited(l)[m] \in Logger
    <2>1. loggers[m] \in Logger
      BY LoggerTyped
    <2>2. Exited(l)[m] = IF m \in Ending(l) THEN [loggers[m] EXCEPT !.exited = TRUE] ELSE loggers[m]
      BY <1>1 DEF Exited
    <2> QED
      BY <2>1, <2>2 DEF Logger
  <1>3. Exited(l) = [m \in 1..Len(loggers) |-> Exited(l)[m]]
    BY <1>1 DEF Exited, LoggerIds
  <1>4. Exited(l) \in [1..Len(loggers) -> Logger]
    BY <1>2, <1>3 DEF LoggerIds
  <1>5. Exited(l) \in Seq(Logger)
    BY <1>1, <1>4, SeqDef
  <1>6. Len(Exited(l)) = Len(loggers)
    BY <1>1, <1>4, <1>5
  <1> QED
    BY <1>2, <1>5, <1>6

\* The events that ending fills have their own logger in them.
LEMMA FilledIs ==
  ASSUME SpanTyped, TreeOK, NEW l \in LoggerIds
  PROVE  /\ Filled(l) \in Seq(Entry) /\ Len(Filled(l)) = Len(entries)
         /\ \A e \in EventIds :
              /\ Filled(l)[e].level = entries[e].level /\ Filled(l)[e].in = entries[e].in
              /\ \/ Filled(l)[e].inner = entries[e].inner
                 \/ \E m \in LoggerIds : loggers[m].event = e /\ Filled(l)[e].inner = m
         /\ \A m \in Ending(l) \ {Root} :
              loggers[m].data = Shared => Filled(l)[loggers[m].event].inner = m
  <1>1. DOMAIN entries = EventIds /\ Len(entries) \in Nat /\ EventIds = 1..Len(entries)
    BY DEF SpanTyped, EventIds
  <1> DEFINE Has(e, m) == m \in Ending(l) /\ loggers[m].event = e
  <1>2. ASSUME NEW e \in EventIds
        PROVE  /\ Filled(l)[e] \in Entry
               /\ Filled(l)[e].level = entries[e].level /\ Filled(l)[e].in = entries[e].in
               /\ \/ Filled(l)[e].inner = entries[e].inner
                  \/ \E m \in LoggerIds : loggers[m].event = e /\ Filled(l)[e].inner = m
    <2>1. entries[e] \in Entry
      BY EntryTyped
    <2>2. CASE \E m \in Ending(l) : loggers[m].event = e /\ loggers[m].data = Shared
      <3> DEFINE n == CHOOSE m \in Ending(l) : loggers[m].event = e
      <3>1. n \in Ending(l) /\ loggers[n].event = e
        BY <2>2
      <3>2. Filled(l)[e] = [entries[e] EXCEPT !.inner = n]
        BY <1>1, <2>2 DEF Filled
      <3> HIDE DEF n
      <3>3. n \in LoggerIds /\ n \in Nat
        BY <3>1, EndingIn DEF LoggerIds
      <3> QED
        BY <2>1, <3>1, <3>2, <3>3 DEF Entry
    <2>3. CASE ~\E m \in Ending(l) : loggers[m].event = e /\ loggers[m].data = Shared
      <3>1. Filled(l)[e] = entries[e]
        BY <1>1, <2>3 DEF Filled
      <3> QED
        BY <2>1, <3>1
    <2> QED
      BY <2>2, <2>3
  <1>3. ASSUME NEW m \in Ending(l) \ {Root}, loggers[m].data = Shared
        PROVE  Filled(l)[loggers[m].event].inner = m
    <2> DEFINE e == loggers[m].event
               n == CHOOSE k \in Ending(l) : loggers[k].event = e
    <2>1. m \in LoggerIds /\ e \in EventIds
      BY EndingIn DEF TreeOK
    <2>2. n \in Ending(l) /\ loggers[n].event = e
      <3>1. \E k \in Ending(l) : loggers[k].event = e
        OBVIOUS
      <3> QED
        BY <3>1
    <2>3. Filled(l)[e] = [entries[e] EXCEPT !.inner = n]
      BY <1>1, <1>3, <2>1 DEF Filled
    <2> HIDE DEF n
    <2>4. n = m
      BY <2>1, <2>2, EndingIn DEF TreeOK
    <2>5. entries[e] \in Entry
      BY <2>1, EntryTyped
    <2> QED
      BY <2>3, <2>4, <2>5 DEF Entry
  <1>4. Filled(l) = [e \in 1..Len(entries) |-> Filled(l)[e]]
    BY <1>1 DEF Filled
  <1>5. Filled(l) \in [1..Len(entries) -> Entry]
    BY <1>1, <1>2, <1>4
  <1>6. Filled(l) \in Seq(Entry)
    BY <1>1, <1>5, SeqDef
  <1>7. Len(Filled(l)) = Len(entries)
    BY <1>1, <1>5, <1>6
  <1> QED
    BY <1>2, <1>3, <1>6, <1>7

\* Ending keeps the tree and what is in it.
LEMMA EndsKeep ==
  ASSUME SpanTyped, TreeOK, FilledOK, AllMessages, LevelOK, NEW l \in LoggerIds, Ends(l),
         record.pc # "made", record'.committed = record.committed
  PROVE  /\ LoggerIds' = LoggerIds /\ EventIds' = EventIds /\ entries' \in Seq(Entry)
         /\ TreeOK' /\ FilledOK' /\ AllMessages' /\ LevelOK'
  <1>1. /\ LoggerIds' = LoggerIds /\ EventIds' = EventIds /\ entries' \in Seq(Entry)
        /\ Root \in LoggerIds /\ loggers[Root].event \in Nat
    BY FilledIs, LoggerTyped DEF Ends, LoggerIds, EventIds, SpanTyped
  <1>2. \A e \in EventIds : /\ entries'[e].level = entries[e].level /\ entries'[e].in = entries[e].in
                            /\ \/ entries'[e].inner = entries[e].inner
                               \/ \E m \in LoggerIds : loggers[m].event = e /\ entries'[e].inner = m
    BY FilledIs DEF Ends
  <1>3. TreeOK'
    <2>1. loggers'[Root].event = Nil /\ loggers'[Root].from = Nil
      BY <1>1 DEF TreeOK, Ends
    <2>2. ASSUME NEW m \in LoggerIds
          PROVE  /\ loggers'[m].child # Nil => loggers'[m].child \in LoggerIds /\ m < loggers'[m].child
                 /\ loggers'[m].events = {e \in EventIds : entries'[e].in = m}
                 /\ m # Root => /\ loggers'[m].from \in 1..(m - 1)
                                /\ loggers'[m].event \in EventIds
                                /\ entries'[loggers'[m].event].in = loggers'[m].from
                                /\ \A k \in LoggerIds : loggers'[k].event = loggers'[m].event => k = m
      <3>1. loggers'[m].child # Nil => loggers'[m].child \in LoggerIds /\ m < loggers'[m].child
        BY DEF TreeOK, Ends
      <3>2. loggers'[m].events = {e \in EventIds : entries'[e].in = m}
        BY <1>2 DEF TreeOK, Ends
      <3>3. m # Root => /\ loggers'[m].from \in 1..(m - 1)
                        /\ loggers'[m].event \in EventIds
                        /\ entries'[loggers'[m].event].in = loggers'[m].from
        BY <1>2 DEF TreeOK, Ends
      <3>4. m # Root => \A k \in LoggerIds : loggers'[k].event = loggers'[m].event => k = m
        BY DEF TreeOK, Ends
      <3> QED
        BY <3>1, <3>2, <3>3, <3>4
    <2>3. \A e \in EventIds : entries'[e].in \in LoggerIds /\ entries'[e].inner \in LoggerIds \cup {Nil}
      BY <1>2 DEF TreeOK
    <2> QED
      BY <1>1, <2>1, <2>2, <2>3 DEF TreeOK
  <1>4. FilledOK'
    <2> SUFFICES ASSUME NEW m \in LoggerIds \ {Root}, loggers'[m].exited, loggers'[m].data = Shared
                 PROVE  entries'[loggers'[m].event].inner = m
      BY <1>1 DEF FilledOK
    <2>1. /\ loggers'[m].event = loggers[m].event /\ loggers[m].data = Shared
          /\ loggers[m].exited \/ m \in Ending(l)
      BY DEF Ends
    <2>2. CASE m \in Ending(l)
      BY <2>1, <2>2, FilledIs DEF Ends
    <2>3. CASE m \notin Ending(l)
      <3>1. entries[loggers[m].event].inner = m /\ loggers[m].event \in EventIds
        BY <2>1, <2>3 DEF FilledOK, TreeOK
      <3>2. \A k \in LoggerIds : loggers[k].event = loggers[m].event => k = m
        BY DEF TreeOK
      <3> QED
        BY <1>2, <2>1, <3>1, <3>2
    <2> QED
      BY <2>2, <2>3
  <1>5. AllMessages'
    <2>1. DOMAIN entries' = EventIds /\ DOMAIN entries = EventIds
      BY <1>1 DEF EventIds, SpanTyped
    <2>2. Messages' = Messages
      BY <1>2, <2>1 DEF Messages
    <2> QED
      BY <1>1, <2>2 DEF AllMessages, Ends
  <1>6. LevelOK'
    BY <1>1, <1>2 DEF LevelOK, Ends
  <1> QED
    BY <1>1, <1>3, <1>4, <1>5, <1>6

\* The levels are numbers, none of them Nil.
LEMMA LevelsAre == Levels \subseteq Nat /\ Nil \in Nat /\ \A x \in Levels : x > Nil
  BY DEF Levels, Info, Error, Nil

\* A message goes to the innermost logger and to the one of the request.
LEMMA EmittedIs ==
  ASSUME SpanTyped, TreeOK, FilledOK, AllMessages, NEW l \in LoggerIds, NEW level \in Levels, Emitted(l, level)
  PROVE  /\ LoggerIds' = LoggerIds /\ loggers' \in Seq(Logger) /\ Len(loggers') = Len(loggers)
         /\ entries' \in Seq(Entry) /\ EventIds' = EventIds \cup {Len(entries) + 1}
         /\ \A e \in EventIds : entries'[e] = entries[e]
         /\ TreeOK' /\ FilledOK' /\ AllMessages'
         /\ \A m \in LoggerIds : loggers'[m].child = loggers[m].child /\ loggers'[m].exited = loggers[m].exited
         /\ loggers'[Root].level >= loggers[Root].level
         /\ entries'[Len(entries) + 1].in = Root => loggers'[Root].level >= level
         /\ entries'[Len(entries) + 1].level = level
  <1> DEFINE d == Deepest(l)
             n == Len(entries) + 1
             new == [inner |-> Nil, level |-> level, in |-> d]
             up(m) == IF m = d /\ loggers[m].level < level THEN level ELSE loggers[m].level
  <1>1. d \in LoggerIds /\ Root \in LoggerIds /\ n \in Nat \ {0} /\ level \in Nat /\ LoggerIds \subseteq Nat
    <2>1. Len(entries) \in Nat /\ Root \in LoggerIds
      BY DEF SpanTyped
    <2>2. d \in LoggerIds
      BY DeepestIs
    <2>3. level \in Nat /\ LoggerIds \subseteq Nat
      BY LevelsAre DEF LoggerIds
    <2> QED
      BY <2>1, <2>2, <2>3
  <1>2. new \in Entry /\ new.inner = Nil /\ new.level = level /\ new.in = d
    BY <1>1, LevelsAre DEF Entry
  <1>3. entries' = Append(entries, new)
    BY DEF Emitted
  <1> DEFINE one == [loggers EXCEPT ![d].events = @ \cup {n}, ![d].level = IF @ < level THEN level ELSE @]
  <1>4. loggers' = [one EXCEPT ![Root].messages = @ \cup {n}]
    BY DEF Emitted, Collector
  <1>5. DOMAIN loggers = LoggerIds /\ Len(loggers) \in Nat
    BY DEF SpanTyped, LoggerIds
  <1> HIDE DEF d, new
  <1>6. ASSUME NEW m \in LoggerIds
        PROVE  loggers'[m] = [loggers[m] EXCEPT !.events = IF m = d THEN @ \cup {n} ELSE @, !.level = up(m),
                                !.messages = IF m = Root THEN @ \cup {n} ELSE @]
    <2>1. loggers[m] \in Logger
      BY LoggerTyped
    <2>2. one[m] = [loggers[m] EXCEPT !.events = IF m = d THEN @ \cup {n} ELSE @, !.level = up(m)]
      <3>1. CASE m = d
        BY <1>5, <2>1, <3>1 DEF Logger
      <3>2. CASE m # d
        BY <1>5, <2>1, <3>2 DEF Logger
      <3> QED
        BY <3>1, <3>2
    <2>3. DOMAIN one = LoggerIds
      BY <1>5
    <2> HIDE DEF one, up
    <2>4. loggers'[m] = IF m = Root THEN [one[m] EXCEPT !.messages = @ \cup {n}] ELSE one[m]
      BY <1>4, <2>3
    <2>5. CASE m = Root
      BY <2>1, <2>2, <2>4, <2>5 DEF Logger
    <2>6. CASE m # Root
      BY <2>1, <2>2, <2>4, <2>6 DEF Logger
    <2> QED
      BY <2>5, <2>6
  <1>7. \A m \in LoggerIds : up(m) \in Nat
    BY <1>1, LoggerTyped
  <1>8. ASSUME NEW m \in LoggerIds
        PROVE  /\ loggers'[m] \in Logger
               /\ loggers'[m].from = loggers[m].from /\ loggers'[m].event = loggers[m].event
               /\ loggers'[m].child = loggers[m].child /\ loggers'[m].data = loggers[m].data
               /\ loggers'[m].exited = loggers[m].exited /\ loggers'[m].level = up(m)
               /\ loggers'[m].events = IF m = d THEN loggers[m].events \cup {n} ELSE loggers[m].events
               /\ loggers'[m].messages = IF m = Root THEN loggers[m].messages \cup {n} ELSE loggers[m].messages
    <2> DEFINE E == IF m = d THEN loggers[m].events \cup {n} ELSE loggers[m].events
               M == IF m = Root THEN loggers[m].messages \cup {n} ELSE loggers[m].messages
    <2>1. loggers[m] \in Logger /\ up(m) \in Nat /\ E \in SUBSET Nat /\ M \in SUBSET Nat
      BY <1>1, <1>7, LoggerTyped
    <2>2. loggers'[m] = [loggers[m] EXCEPT !.events = E, !.level = up(m), !.messages = M]
      BY <1>6
    <2> HIDE DEF up, E, M, n, one
    <2>3. /\ loggers'[m] \in Logger /\ loggers'[m].events = E /\ loggers'[m].level = up(m)
          /\ loggers'[m].messages = M
          /\ loggers'[m].from = loggers[m].from /\ loggers'[m].event = loggers[m].event
          /\ loggers'[m].child = loggers[m].child /\ loggers'[m].data = loggers[m].data
          /\ loggers'[m].exited = loggers[m].exited
      BY <2>1, <2>2 DEF Logger
    <2> QED
      BY <2>3 DEF E, M
  <1>9. loggers' \in Seq(Logger) /\ Len(loggers') = Len(loggers) /\ LoggerIds' = LoggerIds
    <2>1. loggers' = [m \in 1..Len(loggers) |-> loggers'[m]]
      BY <1>4, <1>5 DEF LoggerIds
    <2>2. loggers' \in [1..Len(loggers) -> Logger]
      BY <1>8, <2>1 DEF LoggerIds
    <2>3. loggers' \in Seq(Logger)
      BY <1>5, <2>2, SeqDef
    <2> QED
      BY <1>5, <2>2, <2>3 DEF LoggerIds
  <1>10. /\ entries' \in Seq(Entry) /\ EventIds' = EventIds \cup {n} /\ n \notin EventIds
         /\ \A e \in EventIds : entries'[e] = entries[e]
         /\ entries'[n] = new
    BY <1>2, <1>3, AppendProperties DEF SpanTyped, EventIds
  <1> HIDE DEF n, one, up
  <1>16. /\ \A e \in EventIds : entries'[e].in = entries[e].in /\ entries'[e].inner = entries[e].inner
         /\ entries'[n].in = d /\ entries'[n].inner = Nil
    BY <1>2, <1>10
  <1>11. TreeOK'
    <2>1. \A m \in LoggerIds : loggers'[m].events = {e \in EventIds \cup {n} : entries'[e].in = m}
      <3> TAKE m \in LoggerIds
      <3>1. loggers[m].events = {e \in EventIds : entries[e].in = m}
        BY DEF TreeOK
      <3>2. CASE m = d
        <4>1. loggers'[m].events = loggers[m].events \cup {n}
          BY <1>8, <3>2
        <4> QED
          BY <1>10, <1>16, <3>1, <3>2, <4>1
      <3>3. CASE m # d
        <4>1. loggers'[m].events = loggers[m].events
          BY <1>8, <3>3
        <4> QED
          BY <1>10, <1>16, <3>1, <3>3, <4>1
      <3> QED
        BY <3>2, <3>3
    <2>2. ASSUME NEW m \in LoggerIds
          PROVE  /\ loggers'[m].child # Nil => loggers'[m].child \in LoggerIds /\ m < loggers'[m].child
                 /\ m # Root => /\ loggers'[m].from \in 1..(m - 1)
                                /\ loggers'[m].event \in EventIds \cup {n}
                                /\ entries'[loggers'[m].event].in = loggers'[m].from
                                /\ \A k \in LoggerIds : loggers'[k].event = loggers'[m].event => k = m
      <3>1. /\ loggers'[m].child = loggers[m].child /\ loggers'[m].from = loggers[m].from
            /\ \A k \in LoggerIds : loggers'[k].event = loggers[k].event
        BY <1>8
      <3>2. m # Root => loggers[m].event \in EventIds /\ entries[loggers[m].event].in = loggers[m].from
        BY DEF TreeOK
      <3>3. m # Root => entries'[loggers[m].event].in = loggers[m].from
        BY <1>16, <3>2
      <3> QED
        BY <3>1, <3>2, <3>3 DEF TreeOK
    <2>3. \A e \in EventIds \cup {n} : entries'[e].in \in LoggerIds /\ entries'[e].inner \in LoggerIds \cup {Nil}
      BY <1>1, <1>16 DEF TreeOK
    <2>4. loggers'[Root].event = Nil /\ loggers'[Root].from = Nil
      BY <1>1, <1>8 DEF TreeOK
    <2> QED
      BY <1>9, <1>10, <2>1, <2>2, <2>3, <2>4 DEF TreeOK
  <1>12. FilledOK'
    <2> SUFFICES ASSUME NEW m \in LoggerIds \ {Root}, loggers'[m].exited, loggers'[m].data = Shared
                 PROVE  entries'[loggers'[m].event].inner = m
      BY <1>9 DEF FilledOK
    <2>1. loggers'[m].event = loggers[m].event /\ loggers[m].exited /\ loggers[m].data = Shared
      BY <1>8
    <2>2. entries[loggers[m].event].inner = m /\ loggers[m].event \in EventIds
      BY <2>1 DEF FilledOK, TreeOK
    <2> QED
      BY <1>16, <2>1, <2>2
  <1>13. AllMessages'
    <2>1. DOMAIN entries = EventIds /\ DOMAIN entries' = EventIds \cup {n}
      <3>1. DOMAIN entries = EventIds
        BY DEF SpanTyped, EventIds
      <3>2. DOMAIN entries' = EventIds'
        BY <1>10 DEF EventIds
      <3> QED
        BY <1>10, <3>1, <3>2
    <2>2. level # Nil
      BY LevelsAre
    <2>3. Messages' = Messages \cup {n}
      BY <1>2, <1>10, <2>1, <2>2 DEF Messages
    <2> QED
      BY <1>1, <1>8, <2>3 DEF AllMessages
  <1>14. loggers[Root].level \in Nat
    BY <1>1, LoggerTyped
  <1>15. loggers'[Root].level >= loggers[Root].level /\ (d = Root => loggers'[Root].level >= level)
    <2>1. loggers'[Root].level = up(Root)
      BY <1>1, <1>8
    <2> HIDE DEF d
    <2> QED
      BY <1>1, <1>14, <2>1 DEF up
  <1> QED
    BY <1>2, <1>8, <1>9, <1>10, <1>11, <1>12, <1>13, <1>15 DEF n
-----------------------------------------------------------------------------
(* The steps *)

\* Who has spans open has them still.
LEMMA HolderStays ==
  ASSUME SpanTyped, HolderOK, UNCHANGED <<current, blocks, spanOwner, record, crossed>>,
         \A m \in LoggerIds : loggers'[m].child = loggers[m].child /\ loggers'[m].exited = loggers[m].exited
  PROVE  HolderOK'
  <1> SUFFICES ASSUME ~crossed, record.pc = "open" PROVE Resting' \/ \E t \in Tasks : Holding(t)'
    BY DEF HolderOK
  <1>1. CASE Resting
    BY <1>1 DEF Resting, SpanTyped
  <1>2. CASE \E t \in Tasks : Holding(t)
    <2> PICK t \in Tasks : Holding(t)
      BY <1>2
    <2>1. \A i \in 1..Len(blocks[t]) : blocks[t][i] \in LoggerIds
      BY DEF SpanTyped
    <2>2. current[t] \in LoggerIds
      BY DEF SpanTyped, Holding
    <2>3. Holding(t)'
      BY <2>1, <2>2 DEF Holding
    <2> QED
      BY <2>3
  <1> QED
    BY <1>1, <1>2 DEF HolderOK

\* A message is logged.
LEMMA EmitKeeps ==
  ASSUME SpanInv, NEW t \in Tasks, NEW l \in Reached(t), NEW level \in Levels, Emit(t, l, level)
  PROVE  SpanInv'
  <1>1. /\ SpanTyped /\ TreeOK /\ FilledOK /\ AllMessages /\ LevelOK /\ HolderOK
        /\ record.pc # "made" /\ Emitted(l, level) /\ UNCHANGED <<current, blocks, record, spanOwner, crossed>>
    BY DEF SpanInv, Emit
  <1>2. l \in LoggerIds
    BY <1>1 DEF Reached, SpanTyped
  <1>3. /\ LoggerIds' = LoggerIds /\ loggers' \in Seq(Logger) /\ Len(loggers') = Len(loggers)
        /\ entries' \in Seq(Entry) /\ EventIds' = EventIds \cup {Len(entries) + 1}
        /\ \A e \in EventIds : entries'[e] = entries[e]
        /\ TreeOK' /\ FilledOK' /\ AllMessages'
        /\ \A m \in LoggerIds : loggers'[m].child = loggers[m].child /\ loggers'[m].exited = loggers[m].exited
        /\ loggers'[Root].level >= loggers[Root].level
        /\ entries'[Len(entries) + 1].in = Root => loggers'[Root].level >= level
        /\ entries'[Len(entries) + 1].level = level
    BY <1>1, <1>2, EmittedIs
  <1>4. SpanTyped'
    BY <1>1, <1>3 DEF SpanTyped
  <1>5. LevelOK'
    <2>1. loggers[Root].level \in Nat /\ loggers'[Root].level \in Nat
      <3>1. Root \in LoggerIds
        BY <1>1 DEF SpanTyped
      <3>2. loggers'[Root] \in Logger
        BY <1>3, <3>1, ElementOfSeq DEF LoggerIds
      <3> QED
        BY <1>1, <3>1, <3>2, LoggerTyped DEF Logger
    <2>2. record.committed = {} /\ record'.committed = {} /\ record'.pc # "made"
      BY <1>1 DEF LevelOK
    <2> SUFFICES ASSUME NEW e \in EventIds', entries'[e].in = Root PROVE loggers'[Root].level >= entries'[e].level
      BY <2>2 DEF LevelOK
    <2>3. CASE e \in EventIds
      <3>1. entries[e].level \in Nat /\ entries[e].in = Root
        BY <1>1, <1>3, <2>3, EntryTyped
      <3>2. loggers[Root].level >= entries[e].level
        BY <1>1, <2>2, <2>3, <3>1 DEF LevelOK
      <3> QED
        BY <1>3, <2>1, <2>3, <3>1, <3>2
    <2>4. CASE e = Len(entries) + 1
      BY <1>3, <2>4
    <2> QED
      BY <1>3, <2>3, <2>4
  <1>6. RecordOK'
    BY <1>1 DEF RecordOK
  <1>7. HolderOK'
    BY <1>1, <1>3, HolderStays
  <1> QED
    BY <1>3, <1>4, <1>5, <1>6, <1>7 DEF SpanInv

\* The log is made.
LEMMA GenerateKeeps ==
  ASSUME SpanInv, NEW status \in Levels, NEW error \in BOOLEAN, Generate(status, error)
  PROVE  SpanInv'
  <1>1. /\ SpanTyped /\ TreeOK /\ FilledOK /\ AllMessages /\ LevelOK
        /\ record.pc = "queued" /\ UNCHANGED <<current, blocks, spanOwner, crossed>>
        /\ IF error THEN Emitted(Root, status) ELSE UNCHANGED <<loggers, entries>>
        /\ record' = [pc |-> "made", trace |-> Trace',
                      level |-> IF loggers[Root].level = Nil THEN status ELSE loggers[Root].level,
                      committed |-> IF error THEN {Len(entries) + 1} ELSE {}]
    BY DEF SpanInv, Generate
  <1>2. Root \in LoggerIds /\ loggers[Root].level \in Nat
    BY <1>1, LoggerTyped DEF SpanTyped
  <1>3. /\ LoggerIds' = LoggerIds /\ loggers' \in Seq(Logger) /\ Len(loggers') = Len(loggers)
        /\ entries' \in Seq(Entry) /\ EventIds' \ record'.committed = EventIds
        /\ \A e \in EventIds : entries'[e] = entries[e]
        /\ TreeOK' /\ FilledOK' /\ AllMessages'
        /\ loggers'[Root].level \in Nat /\ loggers'[Root].level >= loggers[Root].level
    <2>1. CASE error
      <3>1. /\ LoggerIds' = LoggerIds /\ loggers' \in Seq(Logger) /\ Len(loggers') = Len(loggers)
            /\ entries' \in Seq(Entry) /\ EventIds' = EventIds \cup {Len(entries) + 1}
            /\ \A e \in EventIds : entries'[e] = entries[e]
            /\ TreeOK' /\ FilledOK' /\ AllMessages' /\ loggers'[Root].level >= loggers[Root].level
        BY <1>1, <1>2, <2>1, EmittedIs
      <3>2. Len(entries) + 1 \notin EventIds
        BY <1>1 DEF SpanTyped, EventIds
      <3>3. record'.committed = {Len(entries) + 1}
        BY <1>1, <2>1
      <3>4. loggers'[Root] \in Logger
        BY <1>2, <3>1, ElementOfSeq DEF LoggerIds
      <3> QED
        BY <3>1, <3>2, <3>3, <3>4 DEF Logger
    <2>2. CASE ~error
      <3>1. UNCHANGED <<loggers, entries>> /\ record'.committed = {}
        BY <1>1, <2>2
      <3>2. loggers' \in Seq(Logger) /\ entries' \in Seq(Entry)
        BY <1>1, <3>1 DEF SpanTyped
      <3>3. TreeOK' /\ FilledOK' /\ AllMessages'
        BY <1>1, <3>1 DEF TreeOK, FilledOK, AllMessages, Messages, LoggerIds, EventIds
      <3> QED
        BY <1>2, <3>1, <3>2, <3>3 DEF LoggerIds, EventIds
    <2> QED
      BY <2>1, <2>2
  <1>4. SpanTyped'
    BY <1>1, <1>3 DEF SpanTyped
  <1>5. record.committed = {}
    BY <1>1 DEF LevelOK
  <1>6. \A e \in EventIds : entries'[e].in = Root =>
          entries'[e].level \in Nat /\ loggers[Root].level >= entries'[e].level
    BY <1>1, <1>3, <1>5, EntryTyped DEF LevelOK
  <1>7. LevelOK'
    BY <1>1, <1>2, <1>3, <1>6 DEF LevelOK
  <1>8. record'.level \in Nat /\ record'.level >= loggers[Root].level
    BY <1>1, <1>2, LevelsAre
  <1>9. LevelOfWorst'
    <2>1. Messages' \ record'.committed \subseteq EventIds
      BY <1>3 DEF Messages, EventIds
    <2> SUFFICES ASSUME NEW e \in (Messages \ record.committed)', entries'[e].in = Root
                 PROVE  record'.level >= entries'[e].level
      BY DEF LevelOfWorst
    <2> QED
      BY <1>2, <1>6, <1>8, <2>1
  <1>10. RecordOK'
    BY <1>1, <1>9 DEF RecordOK
  <1>11. HolderOK'
    BY <1>1 DEF HolderOK
  <1> QED
    BY <1>3, <1>4, <1>7, <1>10, <1>11 DEF SpanInv

\* The response is on its way, and the spans of the task that serves it end.
LEMMA RespondKeeps ==
  ASSUME SpanInv, Respond PROVE SpanInv'
  <1> DEFINE l == current[Main]
  <1>1. /\ SpanTyped /\ TreeOK /\ FilledOK /\ AllMessages /\ LevelOK
        /\ record.pc = "open" /\ loggers' = Exited(l) /\ entries' = Filled(l)
        /\ current' = IF loggers[l].exited THEN current ELSE [current EXCEPT ![Main] = loggers[l].from]
        /\ record' = [record EXCEPT !.pc = "queued"] /\ UNCHANGED <<blocks, spanOwner>>
        /\ crossed' = (crossed \/ \E k \in ToSet(Below[l]) : spanOwner[k] # Main)
    BY DEF SpanInv, Respond
  <1>2. l \in LoggerIds /\ loggers[l] \in Logger
    <2>1. l \in LoggerIds
      BY <1>1 DEF SpanTyped
    <2> QED
      BY <1>1, <2>1, LoggerTyped
  <1>3. record'.pc = "queued" /\ record'.committed = record.committed
        /\ record' = [pc |-> "queued", level |-> record.level, trace |-> record.trace, committed |-> record.committed]
    BY <1>1 DEF SpanTyped
  <1>4. Ends(l)
    <2>1. /\ Exited(l) \in Seq(Logger) /\ Len(Exited(l)) = Len(loggers)
          /\ \A m \in LoggerIds :
               Exited(l)[m] = IF m \in Ending(l) THEN [loggers[m] EXCEPT !.exited = TRUE] ELSE loggers[m]
      BY <1>1, <1>2, ExitedIs
    <2>2. \A m \in LoggerIds : loggers[m] \in Logger
      BY <1>1, LoggerTyped
    <2> HIDE DEF l
    <2> QED
      BY <1>1, <2>1, <2>2 DEF Ends, Logger
  <1> HIDE DEF l
  <1>5. /\ LoggerIds' = LoggerIds /\ EventIds' = EventIds /\ entries' \in Seq(Entry)
        /\ TreeOK' /\ FilledOK' /\ AllMessages' /\ LevelOK'
    BY <1>1, <1>2, <1>3, <1>4, EndsKeep
  <1>6. current' \in [Tasks -> Nat] /\ \A t \in Tasks : current'[t] \in LoggerIds \cup {Nil}
    <2>1. loggers[l].from \in Nat /\ (l = Root \/ loggers[l].from \in LoggerIds)
      <3>1. l = Root \/ loggers[l].from \in 1..(l - 1)
        BY <1>1, <1>2 DEF TreeOK
      <3>2. l \in 1..Len(loggers) /\ Len(loggers) \in Nat
        BY <1>1, <1>2 DEF LoggerIds, SpanTyped
      <3> QED
        BY <1>2, <3>1, <3>2 DEF LoggerIds, Logger
    <2>2. loggers[Root].from = Nil
      BY <1>1 DEF TreeOK
    <2> QED
      BY <1>1, <2>1, <2>2 DEF SpanTyped
  <1>7. SpanTyped'
    <2>1. loggers' \in Seq(Logger) /\ Len(loggers') = Len(loggers)
      BY <1>4 DEF Ends
    <2>2. crossed' \in BOOLEAN
      BY <1>1
    <2> QED
      BY <1>1, <1>3, <1>5, <1>6, <2>1, <2>2 DEF SpanTyped
  <1>8. RecordOK' /\ HolderOK'
    BY <1>3 DEF RecordOK, HolderOK
  <1> QED
    BY <1>5, <1>7, <1>8 DEF SpanInv

\* While a task holds the spans, its current logger is the deepest of them.
LEMMA HoldersDeepest ==
  ASSUME SpanTyped, TreeOK, NEW t \in Tasks, Holding(t)
  PROVE  /\ current[t] \in LoggerIds /\ Deepest(Root) = current[t] /\ Deepest(current[t]) = current[t]
         /\ current[t] # Root /\ Len(blocks[t]) \in Nat /\ Len(blocks[t]) >= 1
         /\ \A i \in 1..Len(blocks[t]) : blocks[t][i] # current[t]
  <1> DEFINE b == blocks[t]
             S == {b[i] : i \in 1..Len(b)} \cup {current[t]}
  <1>10. \A k \in LoggerIds : k \in Nat /\ k # Nil
    BY DEF LoggerIds, Nil
  <1>1. /\ b \in Seq(Nat) /\ Len(b) \in Nat /\ b # <<>> /\ b[1] = Root /\ current[t] \in LoggerIds
        /\ loggers[current[t]].child = Nil
        /\ \A i \in 1..Len(b) : /\ b[i] \in LoggerIds /\ b[i] \in Nat
                                /\ loggers[b[i]].child = IF i = Len(b) THEN current[t] ELSE b[i + 1]
    <2>1. b \in Seq(Nat) /\ \A i \in 1..Len(b) : b[i] \in LoggerIds
      BY DEF SpanTyped
    <2>2. /\ b # <<>> /\ b[1] = Root /\ loggers[current[t]].child = Nil /\ current[t] # Nil
          /\ \A i \in 1..Len(b) : loggers[b[i]].child = IF i = Len(b) THEN current[t] ELSE b[i + 1]
      BY DEF Holding
    <2>3. current[t] \in LoggerIds
      BY <2>2 DEF SpanTyped
    <2> HIDE DEF b
    <2> QED
      BY <2>1, <2>2, <2>3, <1>10
  <1> HIDE DEF b
  <1>2. Len(b) >= 1
    BY <1>1, EmptySeq
  <1>3. \A i \in 1..Len(b) : loggers[b[i]].child \in S /\ loggers[b[i]].child # Nil
    <2> TAKE i \in 1..Len(b)
    <2>1. CASE i = Len(b)
      BY <1>1, <1>10, <2>1
    <2>2. CASE i # Len(b)
      <3>1. i + 1 \in 1..Len(b)
        BY <1>1, <2>2
      <3>2. loggers[b[i]].child = b[i + 1] /\ b[i + 1] \in LoggerIds
        BY <1>1, <2>2, <3>1
      <3> QED
        BY <1>10, <3>1, <3>2
    <2> QED
      BY <2>1, <2>2
  <1>4. S \in SUBSET LoggerIds /\ \A k \in S : loggers[k].child = Nil \/ loggers[k].child \in S
    BY <1>1, <1>3
  <1>5. Root \in S /\ current[t] \in S
    <2>1. 1 \in 1..Len(b)
      BY <1>1, <1>2
    <2> QED
      BY <1>1, <2>1
  <1>6. \A l \in S : Deepest(l) \in S /\ loggers[Deepest(l)].child = Nil
    BY <1>4, BelowStays
  <1>7. \A l \in S : loggers[l].child = Nil => l = current[t]
    BY <1>3
  <1>8. \A i \in 1..Len(b) : b[i] # current[t]
    BY <1>1, <1>3
  <1>9. current[t] # Root
    BY <1>1, <1>2, <1>8
  <1> HIDE DEF S
  <1> QED
    BY <1>1, <1>2, <1>5, <1>6, <1>7, <1>8, <1>9 DEF b

\* A span that is opened by the task that holds the spans is the deepest of its own.
LEMMA OpenKeeps ==
  ASSUME SpanInv, NEW t \in Tasks, NEW l \in Reached(t), OpenSpan(t, l)
  PROVE  SpanInv'
  <1> DEFINE d == Deepest(l)
             e == Len(entries) + 1
             n == Len(loggers) + 1
             fresh == NewLogger(d, e)
             new == [inner |-> Nil, level |-> Nil, in |-> d]
             old == [loggers EXCEPT ![d].data = Owned, ![d].child = n, ![d].events = @ \cup {e}]
  <1>1. /\ SpanTyped /\ TreeOK /\ FilledOK /\ AllMessages /\ LevelOK /\ HolderOK
        /\ record.pc # "made" /\ record' = record
        /\ entries' = Append(entries, new) /\ loggers' = Append(old, fresh)
        /\ current' = [current EXCEPT ![t] = n] /\ blocks' = [blocks EXCEPT ![t] = Append(@, d)]
        /\ crossed' = (crossed \/ (d # Root /\ spanOwner[d] # t))
        /\ spanOwner' = Append(spanOwner, t)
    BY DEF SpanInv, OpenSpan
  <1>2. l \in LoggerIds /\ Root \in LoggerIds
    BY <1>1 DEF Reached, SpanTyped
  <1>3. d \in LoggerIds /\ loggers[d].child = Nil
    BY <1>1, <1>2, DeepestIs
  <1>4. /\ Len(entries) \in Nat /\ Len(loggers) \in Nat /\ LoggerIds = 1..Len(loggers) /\ EventIds = 1..Len(entries)
        /\ DOMAIN loggers = LoggerIds /\ loggers \in Seq(Logger) /\ entries \in Seq(Entry)
        /\ DOMAIN entries = EventIds
    BY <1>1 DEF SpanTyped, LoggerIds, EventIds
  <1>5. e \in Nat /\ n \in Nat /\ d \in Nat /\ n \notin LoggerIds /\ e \notin EventIds /\ n # Nil /\ e # Nil
    BY <1>3, <1>4 DEF Nil
  <1>6. /\ fresh \in Logger /\ fresh.from = d /\ fresh.child = Nil /\ fresh.event = e /\ fresh.data = Shared
        /\ ~fresh.exited /\ fresh.events = {} /\ fresh.messages = {}
    BY <1>5 DEF NewLogger, Logger, Nil, Shared
  <1>7. new \in Entry /\ new.inner = Nil /\ new.level = Nil /\ new.in = d
    BY <1>5 DEF Entry, Nil
  <1> HIDE DEF d, e, n, fresh, new
  <1>8. ASSUME NEW m \in LoggerIds
        PROVE  /\ old[m] \in Logger
               /\ old[m].from = loggers[m].from /\ old[m].event = loggers[m].event
               /\ (old[m].exited <=> loggers[m].exited) /\ old[m].level = loggers[m].level
               /\ old[m].messages = loggers[m].messages
               /\ old[m].child = IF m = d THEN n ELSE loggers[m].child
               /\ old[m].data = IF m = d THEN Owned ELSE loggers[m].data
               /\ old[m].events = IF m = d THEN loggers[m].events \cup {e} ELSE loggers[m].events
    <2>1. loggers[m] \in Logger
      BY <1>1, LoggerTyped
    <2>2. CASE m = d
      <3> DEFINE E == loggers[m].events \cup {e}
      <3>1. old[m] = [loggers[m] EXCEPT !.data = Owned, !.child = n, !.events = E]
        BY <1>4, <2>2
      <3>2. E \in SUBSET Nat /\ Owned \in {Shared, Owned}
        BY <1>1, <1>5, LoggerTyped
      <3> HIDE DEF old, E
      <3>3. /\ old[m] \in Logger /\ old[m].events = E /\ old[m].child = n /\ old[m].data = Owned
            /\ old[m].from = loggers[m].from /\ old[m].event = loggers[m].event
            /\ (old[m].exited <=> loggers[m].exited) /\ old[m].level = loggers[m].level
            /\ old[m].messages = loggers[m].messages
        BY <1>5, <2>1, <3>1, <3>2 DEF Logger
      <3> QED
        BY <2>2, <3>3 DEF E
    <2>3. CASE m # d
      <3>1. old[m] = loggers[m]
        BY <1>4, <2>3
      <3> HIDE DEF old
      <3> QED
        BY <2>1, <2>3, <3>1 DEF Logger
    <2> QED
      BY <2>2, <2>3
  <1>9. old \in Seq(Logger) /\ Len(old) = Len(loggers)
    <2>1. old = [m \in 1..Len(loggers) |-> old[m]]
      BY <1>4
    <2> HIDE DEF old
    <2>2. old \in [1..Len(loggers) -> Logger]
      BY <1>4, <1>8, <2>1
    <2>3. old \in Seq(Logger)
      BY <1>4, <2>2, SeqDef
    <2> QED
      BY <1>4, <2>2, <2>3
  <1> HIDE DEF old
  <1>10. /\ loggers' \in Seq(Logger) /\ Len(loggers') = n /\ LoggerIds' = LoggerIds \cup {n} /\ loggers'[n] = fresh
         /\ \A m \in LoggerIds : loggers'[m] = old[m]
    BY <1>1, <1>4, <1>6, <1>9, AppendProperties DEF LoggerIds, n
  <1>11. /\ entries' \in Seq(Entry) /\ EventIds' = EventIds \cup {e} /\ entries'[e] = new
         /\ \A k \in EventIds : entries'[k] = entries[k]
    BY <1>1, <1>4, <1>7, AppendProperties DEF EventIds, e
  <1>12. spanOwner' \in Seq(Tasks) /\ Len(spanOwner') = n /\ spanOwner'[n] = t
         /\ \A m \in LoggerIds : spanOwner'[m] = spanOwner[m]
    <2>1. spanOwner \in Seq(Tasks) /\ Len(spanOwner) = Len(loggers) /\ spanOwner' = Append(spanOwner, t)
      BY <1>1 DEF SpanTyped
    <2>2. /\ spanOwner' \in Seq(Tasks) /\ Len(spanOwner') = Len(spanOwner) + 1
          /\ spanOwner'[Len(spanOwner) + 1] = t
          /\ \A m \in 1..Len(spanOwner) : spanOwner'[m] = spanOwner[m]
      BY <2>1, AppendProperties
    <2> QED
      BY <1>4, <2>1, <2>2 DEF n
  <1>13. /\ blocks'[t] \in Seq(Nat) /\ Len(blocks[t]) \in Nat /\ Len(blocks'[t]) = Len(blocks[t]) + 1
         /\ blocks'[t][Len(blocks[t]) + 1] = d
         /\ \A i \in 1..Len(blocks[t]) : blocks'[t][i] = blocks[t][i]
         /\ \A u \in Tasks \ {t} : blocks'[u] = blocks[u] /\ current'[u] = current[u]
         /\ current'[t] = n /\ blocks' \in [Tasks -> Seq(Nat)] /\ current' \in [Tasks -> Nat]
    <2>1. blocks[t] \in Seq(Nat) /\ blocks'[t] = Append(blocks[t], d)
      BY <1>1 DEF SpanTyped
    <2>2. /\ blocks'[t] \in Seq(Nat) /\ Len(blocks[t]) \in Nat /\ Len(blocks'[t]) = Len(blocks[t]) + 1
          /\ blocks'[t][Len(blocks[t]) + 1] = d
          /\ \A i \in 1..Len(blocks[t]) : blocks'[t][i] = blocks[t][i]
      BY <1>5, <2>1, AppendProperties
    <2> QED
      BY <1>1, <1>5, <2>1, <2>2 DEF SpanTyped
  <1>14. SpanTyped'
    <2>1. \A u \in Tasks : /\ current'[u] \in LoggerIds' \cup {Nil} /\ (record'.pc = "open" => current'[u] # Nil)
                           /\ \A i \in 1..Len(blocks'[u]) : blocks'[u][i] \in LoggerIds'
      <3> TAKE u \in Tasks
      <3>1. CASE u = t
        <4>1. \A i \in 1..Len(blocks[t]) : blocks[t][i] \in LoggerIds
          BY <1>1 DEF SpanTyped
        <4>2. ASSUME NEW i \in 1..Len(blocks'[t]) PROVE blocks'[t][i] \in LoggerIds
          <5>1. i = Len(blocks[t]) + 1 \/ i \in 1..Len(blocks[t])
            BY <1>13
          <5> QED
            BY <1>3, <1>13, <4>1, <5>1
        <4> QED
          BY <1>5, <1>10, <1>13, <3>1, <4>2
      <3>2. CASE u # t
        BY <1>1, <1>10, <1>13, <3>2 DEF SpanTyped
      <3> QED
        BY <3>1, <3>2
    <2>2. Root \in LoggerIds' /\ crossed' \in BOOLEAN
      BY <1>1, <1>2, <1>10
    <2> QED
      BY <1>1, <1>10, <1>11, <1>12, <1>13, <2>1, <2>2 DEF SpanTyped
  <1>15. /\ \A m \in LoggerIds : loggers'[m].from = loggers[m].from /\ loggers'[m].event = loggers[m].event
         /\ \A k \in EventIds : entries'[k].in = entries[k].in /\ entries'[k].inner = entries[k].inner
         /\ entries'[e].in = d /\ entries'[e].inner = Nil
    BY <1>7, <1>8, <1>10, <1>11
  <1>16. TreeOK'
    <2>1. loggers'[Root].event = Nil /\ loggers'[Root].from = Nil
      BY <1>1, <1>2, <1>15 DEF TreeOK
    <2>2. ASSUME NEW m \in LoggerIds
          PROVE  /\ loggers'[m].child # Nil => loggers'[m].child \in LoggerIds' /\ m < loggers'[m].child
                 /\ loggers'[m].events = {k \in EventIds \cup {e} : entries'[k].in = m}
                 /\ m # Root => /\ loggers'[m].from \in 1..(m - 1)
                                /\ loggers'[m].event \in EventIds
                                /\ entries'[loggers'[m].event].in = loggers'[m].from
                                /\ \A k \in LoggerIds' : loggers'[k].event = loggers'[m].event => k = m
      <3>1. loggers'[m].child # Nil => loggers'[m].child \in LoggerIds' /\ m < loggers'[m].child
        <4>1. loggers'[m].child = IF m = d THEN n ELSE loggers[m].child
          BY <1>8, <1>10
        <4>2. m < n
          BY <1>4 DEF n
        <4> QED
          BY <1>1, <1>10, <4>1, <4>2 DEF TreeOK
      <3>2. loggers'[m].events = {k \in EventIds \cup {e} : entries'[k].in = m}
        <4>1. loggers[m].events = {k \in EventIds : entries[k].in = m}
          BY <1>1 DEF TreeOK
        <4>2. loggers'[m].events = IF m = d THEN loggers[m].events \cup {e} ELSE loggers[m].events
          BY <1>8, <1>10
        <4>3. CASE m = d
          BY <1>15, <4>1, <4>2, <4>3
        <4>4. CASE m # d
          BY <1>15, <4>1, <4>2, <4>4
        <4> QED
          BY <4>3, <4>4
      <3>3. m # Root => /\ loggers[m].from \in 1..(m - 1) /\ loggers[m].event \in EventIds
                        /\ entries[loggers[m].event].in = loggers[m].from
                        /\ \A k \in LoggerIds : loggers[k].event = loggers[m].event => k = m
        BY <1>1 DEF TreeOK
      <3>4. loggers'[n].event = e
        BY <1>6, <1>10
      <3>5. m # Root => \A k \in LoggerIds' : loggers'[k].event = loggers'[m].event => k = m
        BY <1>5, <1>10, <1>15, <3>3, <3>4
      <3> QED
        BY <1>15, <3>1, <3>2, <3>3, <3>5
    <2>3. /\ loggers'[n].child = Nil /\ loggers'[n].events = {k \in EventIds \cup {e} : entries'[k].in = n}
          /\ loggers'[n].from \in 1..(n - 1) /\ loggers'[n].event = e
          /\ entries'[e].in = loggers'[n].from
          /\ \A k \in LoggerIds' : loggers'[k].event = e => k = n
      <3>1. \A k \in EventIds : entries[k].in # n
        BY <1>1, <1>5 DEF TreeOK
      <3>2. \A k \in LoggerIds : loggers'[k].event # e
        <4> TAKE k \in LoggerIds
        <4>1. loggers'[k].event = loggers[k].event
          BY <1>15
        <4>2. loggers[k].event = Nil \/ loggers[k].event \in EventIds
          BY <1>1 DEF TreeOK
        <4> QED
          BY <1>5, <4>1, <4>2
      <3>3. d \in 1..(n - 1) /\ n # d
        BY <1>3, <1>4, <1>5 DEF n
      <3>4. {k \in EventIds \cup {e} : entries'[k].in = n} = {}
        BY <1>15, <3>1, <3>3
      <3> QED
        BY <1>6, <1>10, <1>15, <3>2, <3>3, <3>4
    <2>4. \A k \in EventIds' : entries'[k].in \in LoggerIds' /\ entries'[k].inner \in LoggerIds' \cup {Nil}
      BY <1>1, <1>3, <1>10, <1>11, <1>15 DEF TreeOK
    <2> QED
      BY <1>5, <1>10, <1>11, <2>1, <2>2, <2>3, <2>4 DEF TreeOK
  <1>17. FilledOK'
    <2> SUFFICES ASSUME NEW m \in LoggerIds \ {Root}, loggers'[m].exited, loggers'[m].data = Shared
                 PROVE  entries'[loggers'[m].event].inner = m
      BY <1>6, <1>10 DEF FilledOK
    <2>1. loggers[m].exited /\ m # d /\ loggers[m].data = Shared
      <3>1. /\ loggers'[m].exited <=> loggers[m].exited
            /\ loggers'[m].data = IF m = d THEN Owned ELSE loggers[m].data
        BY <1>8, <1>10
      <3> QED
        BY <3>1 DEF Shared, Owned
    <2>2. entries[loggers[m].event].inner = m /\ loggers[m].event \in EventIds
      BY <1>1, <2>1 DEF FilledOK, TreeOK
    <2> QED
      BY <1>15, <2>2
  <1>18. AllMessages'
    <2>1. DOMAIN entries' = EventIds \cup {e}
      <3>1. DOMAIN entries' = EventIds'
        BY <1>11 DEF EventIds
      <3> QED
        BY <1>11, <3>1
    <2>2. Messages' = Messages
      BY <1>4, <1>5, <1>7, <1>11, <2>1 DEF Messages
    <2> QED
      BY <1>1, <1>2, <1>8, <1>10, <2>2 DEF AllMessages
  <1>19. LevelOK'
    <2>1. loggers'[Root].level = loggers[Root].level /\ loggers[Root].level \in Nat
      BY <1>1, <1>2, <1>8, <1>10, LoggerTyped
    <2>2. entries'[e].level = Nil /\ loggers[Root].level >= Nil
      BY <1>7, <1>11, <2>1 DEF Nil
    <2> QED
      BY <1>1, <1>11, <2>1, <2>2 DEF LevelOK
  <1>20. RecordOK'
    BY <1>1 DEF RecordOK
  <1>21. HolderOK'
    <2> SUFFICES ASSUME ~crossed', record'.pc = "open" PROVE Holding(t)'
      BY DEF HolderOK
    <2>1. ~crossed /\ record.pc = "open" /\ (d = Root \/ spanOwner[d] = t)
      BY <1>1
    <2>2. loggers'[n].child = Nil /\ ~loggers'[n].exited /\ spanOwner'[n] = t /\ loggers'[d].child = n
      BY <1>3, <1>6, <1>8, <1>10, <1>12
    <2>5. \A m \in LoggerIds : /\ loggers'[m].exited <=> loggers[m].exited
                               /\ m # d => loggers'[m].child = loggers[m].child
                               /\ spanOwner'[m] = spanOwner[m]
      BY <1>8, <1>10, <1>12
    <2>3. CASE Resting
      <3>1. \A u \in Tasks : blocks[u] = <<>> /\ current[u] = Root
        BY <2>3 DEF Resting
      <3>2. l = Root
        BY <3>1 DEF Reached
      <3>3. d = Root
        BY <1>1, <1>2, <2>3, <3>2, Childless DEF Resting, d
      <3>4. Len(blocks'[t]) = 1 /\ blocks'[t][1] = Root /\ blocks'[t] # <<>>
        <4>1. Len(blocks[t]) = 0
          BY <3>1
        <4>2. Len(blocks'[t]) = 1 /\ blocks'[t][1] = d
          BY <1>13, <4>1
        <4>3. blocks'[t] # <<>>
          BY <4>2
        <4> QED
          BY <3>3, <4>2, <4>3
      <3>5. ~loggers'[Root].exited
        <4>1. loggers'[Root].exited <=> loggers[Root].exited
          BY <1>2, <1>8, <1>10
        <4> QED
          BY <2>3, <4>1 DEF Resting
      <3>6. \A u \in Tasks \ {t} : blocks'[u] = <<>> /\ current'[u] = Root
        BY <1>13, <3>1
      <3>7. \A i \in 1..Len(blocks'[t]) : i = 1
        BY <3>4
      <3> QED
        BY <1>5, <1>13, <2>2, <3>3, <3>4, <3>5, <3>6, <3>7 DEF Holding
    <2>4. ASSUME NEW u \in Tasks, Holding(u) PROVE Holding(t)'
      <3>1. /\ current[u] \in LoggerIds /\ Deepest(Root) = current[u] /\ Deepest(current[u]) = current[u]
            /\ current[u] # Root /\ Len(blocks[u]) \in Nat /\ Len(blocks[u]) >= 1
            /\ \A i \in 1..Len(blocks[u]) : blocks[u][i] # current[u]
        BY <1>1, <2>4, HoldersDeepest
      <3>2. d = current[u]
        BY <2>4, <3>1 DEF Reached, Holding, d
      <3>3. u = t
        BY <2>1, <2>4, <3>1, <3>2 DEF Holding
      <3>4. /\ blocks[t][1] = Root /\ ~loggers[d].exited /\ spanOwner[d] = t
            /\ \A w \in Tasks \ {t} : blocks[w] = <<>> /\ current[w] = Root
            /\ \A i \in 1..Len(blocks[t]) :
                 /\ loggers[blocks[t][i]].child = IF i = Len(blocks[t]) THEN d ELSE blocks[t][i + 1]
                 /\ ~loggers[blocks[t][i]].exited /\ (i > 1 => spanOwner[blocks[t][i]] = t)
                 /\ blocks[t][i] \in LoggerIds /\ blocks[t][i] # d
        BY <1>1, <2>4, <3>1, <3>2, <3>3 DEF Holding, SpanTyped
      <3>5. ASSUME NEW i \in 1..Len(blocks'[t])
            PROVE  /\ loggers'[blocks'[t][i]].child = IF i = Len(blocks'[t]) THEN n ELSE blocks'[t][i + 1]
                   /\ ~loggers'[blocks'[t][i]].exited /\ (i > 1 => spanOwner'[blocks'[t][i]] = t)
        <4>1. CASE i = Len(blocks[t]) + 1
          <5>1. blocks'[t][i] = d /\ i = Len(blocks'[t])
            BY <1>13, <4>1
          <5> QED
            BY <1>3, <2>2, <2>5, <3>4, <5>1
        <4>2. CASE i \in 1..Len(blocks[t])
          <5> DEFINE m == blocks[t][i]
          <5>1. blocks'[t][i] = m /\ i # Len(blocks'[t]) /\ m \in LoggerIds /\ m # d
            <6>1. blocks'[t][i] = m
              BY <1>13, <4>2
            <6>2. i # Len(blocks'[t])
              <7>1. Len(blocks[t]) \in Nat /\ Len(blocks'[t]) = Len(blocks[t]) + 1
                BY <1>13
              <7> QED
                BY <4>2, <7>1
            <6>3. m \in LoggerIds /\ m # d
              BY <3>4, <4>2
            <6> QED
              BY <6>1, <6>2, <6>3
          <5>2. blocks'[t][i + 1] = IF i = Len(blocks[t]) THEN d ELSE blocks[t][i + 1]
            <6>1. i = Len(blocks[t]) \/ i + 1 \in 1..Len(blocks[t])
              <7>1. Len(blocks[t]) \in Nat
                BY <1>13
              <7> QED
                BY <4>2, <7>1
            <6> QED
              BY <1>13, <4>2, <6>1
          <5>3. loggers'[m].child = blocks'[t][i + 1]
            BY <2>5, <3>4, <4>2, <5>1, <5>2
          <5>4. ~loggers'[m].exited /\ (i > 1 => spanOwner'[m] = t)
            BY <2>5, <3>4, <4>2, <5>1
          <5> QED
            BY <5>1, <5>3, <5>4
        <4>3. i = Len(blocks[t]) + 1 \/ i \in 1..Len(blocks[t])
          BY <1>13
        <4> QED
          BY <4>1, <4>2, <4>3
      <3>6. blocks'[t] # <<>> /\ blocks'[t][1] = Root
        <4>1. 1 \in 1..Len(blocks[t])
          BY <3>1, <3>3
        <4>2. Len(blocks'[t]) # 0
          BY <1>13
        <4> QED
          BY <1>13, <3>4, <4>1, <4>2
      <3>7. \A w \in Tasks \ {t} : blocks'[w] = <<>> /\ current'[w] = Root
        BY <1>13, <3>4
      <3> QED
        BY <1>5, <1>13, <2>2, <3>5, <3>6, <3>7 DEF Holding
    <2> QED
      BY <1>1, <2>1, <2>3, <2>4 DEF HolderOK
  <1> QED
    BY <1>14, <1>16, <1>17, <1>18, <1>19, <1>20, <1>21 DEF SpanInv

\* A sequence without its last element.
LEMMA ButLast ==
  ASSUME NEW S, NEW s \in Seq(S), Len(s) >= 1
  PROVE  /\ Front(s) \in Seq(S) /\ Len(Front(s)) = Len(s) - 1
         /\ \A i \in 1..(Len(s) - 1) : Front(s)[i] = s[i]
  <1>1. Len(s) \in Nat /\ Len(s) - 1 \in Nat
    BY LenProperties
  <1>2. Front(s) = [i \in 1..Len(s) - 1 |-> s[i]]
    BY <1>1 DEF Front
  <1>3. \A i \in 1..Len(s) - 1 : s[i] \in S
    BY <1>1, ElementOfSeq
  <1> QED
    BY <1>1, <1>2, <1>3

\* The end of a block of with: its span and those below it end.
LEMMA CloseKeeps ==
  ASSUME SpanInv, NEW t \in Tasks, CloseSpan(t)
  PROVE  SpanInv'
  <1> DEFINE b == blocks[t]
             m == Last(blocks[t])
             c == loggers[m].child
  <1>1. /\ SpanTyped /\ TreeOK /\ FilledOK /\ AllMessages /\ LevelOK /\ HolderOK
        /\ b # <<>> /\ record.pc # "made" /\ UNCHANGED <<record, spanOwner>>
        /\ blocks' = [blocks EXCEPT ![t] = Front(b)]
    BY DEF SpanInv, CloseSpan
  <1>2. /\ b \in Seq(Nat) /\ Len(b) \in Nat /\ Len(b) >= 1 /\ m = b[Len(b)] /\ m \in LoggerIds
        /\ \A i \in 1..Len(b) : b[i] \in LoggerIds
    <2>1. b \in Seq(Nat) /\ Len(b) \in Nat /\ \A i \in 1..Len(b) : b[i] \in LoggerIds
      BY <1>1 DEF SpanTyped
    <2>2. Len(b) # 0
      BY <1>1, <2>1, EmptySeq
    <2>3. m = b[Len(b)] /\ Len(b) \in 1..Len(b)
      BY <2>1, <2>2 DEF Last
    <2> QED
      BY <2>1, <2>3
  <1>3. /\ Front(b) \in Seq(Nat) /\ Len(Front(b)) = Len(b) - 1
        /\ \A i \in 1..(Len(b) - 1) : Front(b)[i] = b[i]
    BY <1>2, ButLast
  <1>4. /\ blocks' \in [Tasks -> Seq(Nat)] /\ blocks'[t] = Front(b)
        /\ \A u \in Tasks \ {t} : blocks'[u] = blocks[u]
        /\ \A u \in Tasks : \A i \in 1..Len(blocks'[u]) : blocks'[u][i] \in LoggerIds
    <2>1. /\ blocks' \in [Tasks -> Seq(Nat)] /\ blocks'[t] = Front(b)
          /\ \A u \in Tasks \ {t} : blocks'[u] = blocks[u]
      BY <1>1, <1>3 DEF SpanTyped
    <2>2. ASSUME NEW i \in 1..Len(Front(b)) PROVE Front(b)[i] \in LoggerIds
      <3> HIDE DEF b, m
      <3>1. i \in 1..(Len(b) - 1) /\ i \in 1..Len(b)
        BY <1>2, <1>3
      <3> QED
        BY <1>2, <1>3, <3>1
    <2>3. \A u \in Tasks \ {t} : \A i \in 1..Len(blocks[u]) : blocks[u][i] \in LoggerIds
      BY <1>1 DEF SpanTyped
    <2> QED
      BY <2>1, <2>2, <2>3
  <1>5. RecordOK'
    BY <1>1 DEF RecordOK
  <1>6. loggers[m] \in Logger /\ DOMAIN loggers = LoggerIds /\ Len(loggers) \in Nat
    <2> HIDE DEF m
    <2>1. loggers \in Seq(Logger) /\ Len(loggers) \in Nat
      BY <1>1 DEF SpanTyped
    <2>2. loggers[m] \in Logger /\ DOMAIN loggers = LoggerIds
      BY <1>1, <1>2, LoggerTyped
    <2> QED
      BY <2>1, <2>2
  <1>7. CASE c = Nil
    <2>1. UNCHANGED <<loggers, entries, current, crossed>>
      BY <1>7 DEF CloseSpan
    <2>2. LoggerIds' = LoggerIds /\ EventIds' = EventIds
      BY <2>1 DEF LoggerIds, EventIds
    <2>3. SpanTyped'
      BY <1>1, <1>4, <2>1, <2>2 DEF SpanTyped
    <2>4. TreeOK' /\ FilledOK' /\ AllMessages' /\ LevelOK'
      BY <1>1, <2>1, <2>2 DEF TreeOK, FilledOK, AllMessages, Messages, LevelOK
    <2>5. HolderOK'
      <3> SUFFICES ASSUME ~crossed, record.pc = "open" PROVE FALSE
        BY <1>1, <2>1 DEF HolderOK
      <3>1. PICK u \in Tasks : Holding(u)
        BY <1>1 DEF HolderOK, Resting
      <3>2. u = t
        BY <1>1, <3>1 DEF Holding
      <3>3. c = current[t] /\ current[t] # Nil
        BY <1>2, <3>1, <3>2 DEF Holding
      <3> QED
        BY <1>7, <3>3
    <2> QED
      BY <1>5, <2>3, <2>4, <2>5 DEF SpanInv
  <1>8. CASE c # Nil
    <2>1. /\ loggers' = [Exited(c) EXCEPT ![m].child = Nil] /\ entries' = Filled(c)
          /\ current' = IF loggers[c].exited THEN current ELSE [current EXCEPT ![t] = m]
          /\ crossed' = (crossed \/ \E k \in ToSet(Below[c]) : spanOwner[k] # t)
      BY <1>8 DEF CloseSpan
    <2>2. c \in LoggerIds /\ m < c
      BY <1>1, <1>2, <1>8 DEF TreeOK
    <2>3. /\ Exited(c) \in Seq(Logger) /\ Len(Exited(c)) = Len(loggers)
          /\ \A k \in LoggerIds :
               Exited(c)[k] = IF k \in Ending(c) THEN [loggers[k] EXCEPT !.exited = TRUE] ELSE loggers[k]
      BY <1>1, <2>2, ExitedIs
    <2> HIDE DEF c, m, b
    <2>4. ASSUME NEW k \in LoggerIds
          PROVE  /\ loggers'[k] \in Logger
                 /\ loggers'[k].from = loggers[k].from /\ loggers'[k].event = loggers[k].event
                 /\ loggers'[k].data = loggers[k].data /\ loggers'[k].level = loggers[k].level
                 /\ loggers'[k].events = loggers[k].events /\ loggers'[k].messages = loggers[k].messages
                 /\ loggers'[k].exited <=> loggers[k].exited \/ k \in Ending(c)
                 /\ loggers'[k].child = IF k = m THEN Nil ELSE loggers[k].child
      <3>1. loggers[k] \in Logger /\ Nil \in Nat
        BY <1>1, LoggerTyped DEF Nil
      <3>2. Exited(c)[k] = IF k \in Ending(c) THEN [loggers[k] EXCEPT !.exited = TRUE] ELSE loggers[k]
        BY <2>3
      <3> DEFINE g == Exited(c)[k]
      <3>3. /\ g \in Logger /\ g.from = loggers[k].from /\ g.event = loggers[k].event
            /\ g.data = loggers[k].data /\ g.level = loggers[k].level
            /\ g.events = loggers[k].events /\ g.messages = loggers[k].messages
            /\ g.exited <=> loggers[k].exited \/ k \in Ending(c)
            /\ g.child = loggers[k].child
        BY <3>1, <3>2 DEF Logger
      <3>4. DOMAIN Exited(c) = LoggerIds
        BY <1>6, <2>3 DEF LoggerIds
      <3>5. loggers'[k] = IF k = m THEN [g EXCEPT !.child = Nil] ELSE g
        BY <2>1, <3>4
      <3> HIDE DEF g
      <3> QED
        BY <3>1, <3>3, <3>5 DEF Logger
    <2>5. Ends(c)
      <3>1. loggers' = [k \in 1..Len(loggers) |-> loggers'[k]]
        <4> DEFINE ex == Exited(c)
        <4>1. ex \in Seq(Logger) /\ Len(ex) = Len(loggers)
          BY <2>3
        <4>2. loggers' = [ex EXCEPT ![m].child = Nil]
          BY <2>1
        <4> HIDE DEF ex
        <4>3. DOMAIN ex = 1..Len(loggers)
          BY <4>1
        <4> QED
          BY <4>2, <4>3
      <3>2. loggers' \in [1..Len(loggers) -> Logger]
        BY <2>4, <3>1 DEF LoggerIds
      <3>3. loggers' \in Seq(Logger)
        BY <1>6, <3>2, SeqDef
      <3>4. Len(loggers') = Len(loggers)
        BY <1>6, <3>2, <3>3
      <3> QED
        BY <2>1, <2>4, <3>3, <3>4 DEF Ends
    <2>6. /\ LoggerIds' = LoggerIds /\ EventIds' = EventIds /\ entries' \in Seq(Entry)
          /\ TreeOK' /\ FilledOK' /\ AllMessages' /\ LevelOK'
      BY <1>1, <2>2, <2>5, EndsKeep
    <2>7. /\ current' \in [Tasks -> Nat]
          /\ \A u \in Tasks : current'[u] \in LoggerIds \cup {Nil}
          /\ \A u \in Tasks : record.pc = "open" => current'[u] # Nil
      <3>1. m \in Nat /\ m # Nil
        BY <1>2 DEF LoggerIds, Nil
      <3> QED
        BY <1>1, <1>2, <2>1, <3>1 DEF SpanTyped
    <2>8. SpanTyped'
      <3>1. loggers' \in Seq(Logger) /\ Len(loggers') = Len(loggers)
        BY <2>5 DEF Ends
      <3>2. crossed' \in BOOLEAN
        BY <2>1
      <3> QED
        <4>1. /\ loggers' \in Seq(Logger) /\ Root \in LoggerIds' /\ entries' \in Seq(Entry)
              /\ current' \in [Tasks -> Nat] /\ blocks' \in [Tasks -> Seq(Nat)]
          BY <1>1, <1>4, <2>6, <2>7, <3>1 DEF SpanTyped
        <4>2. /\ record' = record /\ record.pc \in {"open", "queued", "made"}
              /\ record = [pc |-> record.pc, level |-> record.level, trace |-> record.trace,
                           committed |-> record.committed]
              /\ spanOwner' \in Seq(Tasks) /\ Len(spanOwner') = Len(loggers')
          BY <1>1, <3>1 DEF SpanTyped
        <4>3. \A u \in Tasks : /\ current'[u] \in LoggerIds' \cup {Nil}
                               /\ record'.pc = "open" => current'[u] # Nil
                               /\ \A i \in 1..Len(blocks'[u]) : blocks'[u][i] \in LoggerIds'
          <5>1. LoggerIds' = LoggerIds /\ record'.pc = record.pc
            BY <2>6, <4>2
          <5>2. \A u \in Tasks : \A i \in 1..Len(blocks'[u]) : blocks'[u][i] \in LoggerIds'
            BY <1>4, <5>1, Zenon
          <5>3. ASSUME NEW u \in Tasks
                PROVE  /\ current'[u] \in LoggerIds' \cup {Nil}
                       /\ record'.pc = "open" => current'[u] # Nil
            <6>1. current'[u] \in LoggerIds \cup {Nil} /\ (record.pc = "open" => current'[u] # Nil)
              BY <2>7
            <6> QED
              BY <5>1, <6>1
          <5> QED
            BY <5>2, <5>3
        <4> QED
          BY <3>2, <4>1, <4>2, <4>3 DEF SpanTyped
    <2>9. HolderOK'
      <3> SUFFICES ASSUME ~crossed', record'.pc = "open" PROVE Resting' \/ Holding(t)'
        BY DEF HolderOK
      <3>1. ~crossed /\ record.pc = "open"
        BY <1>1, <2>1
      <3>2. PICK u \in Tasks : Holding(u)
        BY <1>1, <3>1 DEF HolderOK, Resting, b
      <3>3. u = t
        BY <1>1, <3>2 DEF Holding, b
      <3>4. /\ b[1] = Root
            /\ \A w \in Tasks \ {t} : blocks[w] = <<>> /\ current[w] = Root
            /\ \A i \in 1..Len(b) : /\ loggers[b[i]].child = IF i = Len(b) THEN current[t] ELSE b[i + 1]
                                    /\ ~loggers[b[i]].exited /\ (i > 1 => spanOwner[b[i]] = t)
            /\ loggers[current[t]].child = Nil /\ ~loggers[current[t]].exited
        BY <3>2, <3>3 DEF Holding, b
      <3>5. \A i \in 1..Len(b) : b[i] # current[t]
        BY <1>1, <3>2, <3>3, HoldersDeepest DEF b
      <3>6. c = current[t]
        <4>1. Len(b) \in 1..Len(b)
          BY <1>2
        <4> QED
          BY <1>2, <3>4, <4>1 DEF c
      <3>7. Ending(c) = {c}
        BY <1>1, <2>2, <3>4, <3>6, Childless
      <3>8. current'[t] = m /\ \A w \in Tasks \ {t} : current'[w] = Root
        BY <1>1, <2>1, <3>4, <3>6 DEF SpanTyped
      <3>9. ASSUME NEW i \in 1..Len(b) PROVE /\ ~loggers'[b[i]].exited
                                             /\ i # Len(b) => loggers'[b[i]].child = b[i + 1]
        <4>1. b[i] \in LoggerIds /\ b[i] \notin Ending(c) /\ ~loggers[b[i]].exited
          BY <1>2, <3>4, <3>5, <3>6, <3>7
        <4>2. ~loggers'[b[i]].exited
          BY <2>4, <4>1
        <4>3. i # Len(b) => b[i] # m /\ loggers[b[i]].child = b[i + 1]
          <5>1. i # Len(b) => i + 1 \in 1..Len(b)
            BY <1>2
          <5>2. i # Len(b) => loggers[b[i]].child # current[t]
            BY <3>4, <3>5, <5>1
          <5>3. loggers[m].child = current[t]
            BY <3>6 DEF c
          <5> QED
            BY <3>4, <5>2, <5>3
        <4> QED
          BY <2>4, <4>1, <4>2, <4>3
      <3>10. loggers'[m].child = Nil
        BY <1>2, <2>4
      <3>11. CASE Len(b) = 1
        <4>1. m = Root /\ Front(b) = <<>>
          <5>1. Len(Front(b)) = 0
            BY <1>2, <1>3, <3>11
          <5> QED
            BY <1>2, <1>3, <3>4, <3>11, <5>1, EmptySeq
        <4>2. ~loggers'[Root].exited
          BY <1>2, <3>9, <3>11, <4>1
        <4>3. \A w \in Tasks : blocks'[w] = <<>> /\ current'[w] = Root
          BY <1>4, <3>4, <3>8, <4>1
        <4>4. Resting'
          BY <3>10, <4>1, <4>2, <4>3 DEF Resting
        <4> QED
          BY <4>4
      <3>12. CASE Len(b) # 1
        <4> DEFINE f == Front(b)
        <4>1. Len(f) = Len(b) - 1 /\ Len(f) >= 1 /\ 1 \in 1..(Len(b) - 1) /\ Len(b) \in 1..Len(b) /\ Len(b) > 1
          BY <1>2, <1>3, <3>12
        <4>2. f[1] = Root /\ f # <<>>
          BY <1>3, <3>4, <4>1, EmptySeq
        <4>3. ASSUME NEW i \in 1..Len(f)
              PROVE  /\ loggers'[f[i]].child = IF i = Len(f) THEN m ELSE f[i + 1]
                     /\ ~loggers'[f[i]].exited /\ (i > 1 => spanOwner'[f[i]] = t)
          <5>1. i \in 1..(Len(b) - 1) /\ i \in 1..Len(b) /\ i # Len(b) /\ (i # Len(f) => i + 1 \in 1..(Len(b) - 1))
                /\ (i = Len(f) => i + 1 = Len(b))
            BY <1>2, <4>1
          <5>2. f[i] = b[i] /\ (i # Len(f) => f[i + 1] = b[i + 1])
            BY <1>3, <5>1
          <5>3. loggers'[b[i]].child = b[i + 1] /\ ~loggers'[b[i]].exited
            BY <3>9, <5>1
          <5>4. i > 1 => spanOwner'[b[i]] = t
            BY <1>1, <3>4, <5>1
          <5> QED
            BY <1>2, <5>1, <5>2, <5>3, <5>4
        <4>4. m # Nil /\ ~loggers'[m].exited /\ spanOwner'[m] = t
          <5>1. m # Nil
            BY <1>2 DEF LoggerIds, Nil
          <5> QED
            BY <1>1, <1>2, <3>4, <3>9, <4>1, <5>1
        <4>5. \A w \in Tasks \ {t} : blocks'[w] = <<>> /\ current'[w] = Root
          BY <1>4, <3>4, <3>8
        <4> HIDE DEF f
        <4>6. blocks'[t] = f /\ current'[t] = m
          BY <1>4, <3>8 DEF f
        <4>7. Holding(t)'
          BY <3>10, <4>2, <4>3, <4>4, <4>5, <4>6 DEF Holding
        <4> QED
          BY <4>7
      <3> QED
        BY <3>11, <3>12
    <2> QED
      BY <1>5, <2>6, <2>8, <2>9 DEF SpanInv
  <1> QED
    BY <1>7, <1>8

\* The invariant holds in the beginning.
LEMMA SpanInitInv == SpanInit => SpanInv
  <1> SUFFICES ASSUME SpanInit PROVE SpanInv
    OBVIOUS
  <1> DEFINE first == NewLogger(Nil, Nil)
  <1>1. /\ first \in Logger /\ first.from = Nil /\ first.child = Nil /\ first.event = Nil
        /\ ~first.exited /\ first.events = {} /\ first.messages = {} /\ first.level = Nil
    BY DEF NewLogger, Logger, Nil, Shared
  <1>2. loggers = <<first>> /\ entries = <<>>
    BY DEF SpanInit
  <1> HIDE DEF first
  <1>3. /\ loggers \in Seq(Logger) /\ Len(loggers) = 1 /\ loggers[1] = first /\ entries \in Seq(Entry)
        /\ Len(entries) = 0 /\ LoggerIds = {1} /\ EventIds = {} /\ Root = 1 /\ DOMAIN entries = {}
    BY <1>1, <1>2 DEF LoggerIds, EventIds, Root
  <1>4. /\ current = [u \in Tasks |-> Root] /\ blocks = [u \in Tasks |-> <<>>]
        /\ record = [pc |-> "open", level |-> Nil, trace |-> {}, committed |-> {}]
        /\ spanOwner = <<Main>> /\ crossed = FALSE
    BY DEF SpanInit
  <1>5. SpanTyped
    <2>1. /\ record.pc = "open"
          /\ record = [pc |-> record.pc, level |-> record.level, trace |-> record.trace,
                       committed |-> record.committed]
      BY <1>4
    <2>2. spanOwner \in Seq(Tasks) /\ Len(spanOwner) = 1
      BY <1>4, SpanAssumption
    <2>3. <<>> \in Seq(Nat) /\ Len(<<>>) = 0
      OBVIOUS
    <2>4. blocks \in [Tasks -> Seq(Nat)] /\ current \in [Tasks -> Nat]
      BY <1>3, <1>4
    <2>5. \A t \in Tasks : /\ current[t] \in LoggerIds \cup {Nil} /\ current[t] # Nil
                           /\ \A i \in 1..Len(blocks[t]) : blocks[t][i] \in LoggerIds
      BY <1>3, <1>4, <2>3 DEF Nil
    <2> QED
      BY <1>3, <1>4, <2>1, <2>2, <2>4, <2>5 DEF SpanTyped
  <1>6. TreeOK /\ FilledOK /\ AllMessages
    BY <1>1, <1>3 DEF TreeOK, FilledOK, AllMessages, Messages
  <1>7. LevelOK /\ RecordOK
    BY <1>3, <1>4 DEF LevelOK, RecordOK
  <1>8. HolderOK
    BY <1>1, <1>3, <1>4 DEF HolderOK, Resting
  <1> QED
    BY <1>5, <1>6, <1>7, <1>8 DEF SpanInv

\* Every step keeps the invariant.
LEMMA SpanStepInv == SpanInv /\ [SpanNext]_spanVars => SpanInv'
  <1> SUFFICES ASSUME SpanInv, [SpanNext]_spanVars PROVE SpanInv'
    OBVIOUS
  <1>1. ASSUME NEW t \in Tasks, NEW l \in Reached(t), OpenSpan(t, l) PROVE SpanInv'
    BY <1>1, OpenKeeps
  <1>2. ASSUME NEW t \in Tasks, NEW l \in Reached(t), NEW level \in Levels, Emit(t, l, level) PROVE SpanInv'
    BY <1>2, EmitKeeps
  <1>3. ASSUME NEW t \in Tasks, CloseSpan(t) PROVE SpanInv'
    BY <1>3, CloseKeeps
  <1>4. ASSUME Respond PROVE SpanInv'
    BY <1>4, RespondKeeps
  <1>5. ASSUME NEW status \in Levels, NEW error \in BOOLEAN, Generate(status, error) PROVE SpanInv'
    BY <1>5, GenerateKeeps
  <1>6. CASE UNCHANGED spanVars
    <2>1. UNCHANGED <<loggers, entries, current, blocks, record, spanOwner, crossed>>
      BY <1>6 DEF spanVars
    <2>2. LoggerIds' = LoggerIds /\ EventIds' = EventIds /\ Messages' = Messages
      BY <2>1 DEF LoggerIds, EventIds, Messages
    <2>3. SpanTyped' /\ TreeOK' /\ FilledOK' /\ AllMessages' /\ LevelOK'
      BY <2>1, <2>2 DEF SpanInv, SpanTyped, TreeOK, FilledOK, AllMessages, LevelOK
    <2>4. RecordOK'
      BY <2>1, <2>2 DEF SpanInv, RecordOK, Trace, Found, LevelOfWorst
    <2>5. HolderOK'
      BY <2>1 DEF SpanInv, HolderOK, Resting, Holding
    <2> QED
      BY <2>3, <2>4, <2>5 DEF SpanInv
  <1> QED
    BY <1>1, <1>2, <1>3, <1>4, <1>5, <1>6 DEF SpanNext

\* What is logged in a request reaches its row, for any tasks and any number of
\* spans and messages: the messages all of it, the trace except for what a nested
\* span drops (Logger.__enter__, __exit__, exit and emit, generate_log).
THEOREM RowsAreComplete == SpanSpec => []RowComplete
  BY SpanInitInv, SpanStepInv, InvComplete, PTL DEF SpanSpec
=============================================================================
