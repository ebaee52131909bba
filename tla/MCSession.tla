------------------------------ MODULE MCSession ------------------------------
(* Session on small sets, with two settings of the session plugin: the one *)
(* of the cfg, and cycle_key_at_login=False, where a login stores the user *)
(* under the key it came with.  Requests are interchangeable.  The other   *)
(* end of a session, the cookies of a Client, the service's middlewares and *)
(* the responses between the two are parts of their own.                   *)
EXTENDS Session, ClientSession, ServerMiddleware, ResponseExchange, TLC

CONSTANTS c1, r1, r2, k0, k1, k2, u1

VARIABLE part

Keeps == INSTANCE Session WITH CycleAtLogin <- FALSE, MaxWrites <- 0

Symmetry == Permutations(Requests)

\* Response classes: of a success, of an error, of both, and none of these.
Article == [name |-> "ArticleResponse", status |-> 200, accepts |-> {"record"},
            keys |-> [result |-> "article"]]
Trouble  == [name |-> "ErrorResponse", status |-> 0, accepts |-> {},
            keys |-> [message |-> "error", state |-> "code"]]
Paged   == [name |-> "PageResponse", status |-> 0, accepts |-> {},
            keys |-> [result |-> "data", message |-> "error", state |-> "code", count |-> "total"]]

MCTemplates == {Base, Article, Trouble, Paged}
MCUnions    == {<<Base>>, <<Article>>, <<Article, Trouble>>, <<Trouble, Base>>, <<Paged>>}

If(t, role, some, none) == IF role \in DOMAIN t.keys THEN some ELSE {none}

Results(t) ==
  [template : {t}, status : {0, 204, 403}, failure : {NoFailure},
   result   : {Bare(kind) : kind \in {"none", "falsy", "number", "text", "record", "bytes"}},
   cookies  : IF t = Base THEN {{}, {1, 2}} ELSE {{}},
   message  : If(t, "message", {"none", "own"}, "none"),
   state    : If(t, "state", {NoState, 0, 2}, NoState),
   count    : If(t, "count", {0, 2}, 0)]

Errors(t) ==
  [template : {t}, status : {0, 400}, result : {Bare("none")}, cookies : {{}}, count : {0},
   failure  : {[status |-> 0, state |-> NoState, text |-> "raised"],
               [status |-> 403, state |-> 3, text |-> "raised"]},
   message  : If(t, "message", {"none", "own"}, "none"),
   state    : If(t, "state", {NoState, 0, 2}, NoState)]

MCGifts == UNION {Results(t) \cup Errors(t) : t \in MCTemplates}

settingVars == <<part, vars, sessionVars, serverVars, exchangeVars>>

SettingInit ==
  /\ part \in {"cycles", "keeps", "client", "server", "exchange"}
  /\ Init /\ SessionInit /\ ServerInit /\ ExchangeInit
  /\ (part \notin {"cycles", "keeps"} => jar = [c \in Clients |-> NoKey])
  /\ (part # "server" => backend = "tornado")
  /\ (part # "exchange" => given = CHOOSE g \in Gifts : TRUE)

SettingNext ==
  /\ UNCHANGED part
  /\ \/ part = "cycles"   /\ Next         /\ UNCHANGED <<sessionVars, serverVars, exchangeVars>>
     \/ part = "keeps"    /\ Keeps!Next   /\ UNCHANGED <<sessionVars, serverVars, exchangeVars>>
     \/ part = "client"   /\ SessionNext  /\ UNCHANGED <<vars, serverVars, exchangeVars>>
     \/ part = "server"   /\ ServerNext   /\ UNCHANGED <<vars, sessionVars, exchangeVars>>
     \/ part = "exchange" /\ ExchangeNext /\ UNCHANGED <<vars, sessionVars, serverVars>>

SettingSpec == SettingInit /\ [][SettingNext]_settingVars
=============================================================================
