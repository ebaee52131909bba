------------------------------- MODULE Session -------------------------------
(***************************************************************************)
(* Server-side sessions: utilmeta/core/auth/session.                       *)
(*                                                                         *)
(* Requests of several browsers run concurrently.  A request loads the     *)
(* session its cookie names, the handler changes it (item assignment,      *)
(* login, cycle_key, flush), and SessionPlugin.process_response stores it  *)
(* and answers with a cookie.  Every access to the database or to the      *)
(* cache is one step; requests interleave between steps (threads for the   *)
(* synchronous methods, awaits for their a... twins, which run the same    *)
(* statements).                                                            *)
(*                                                                         *)
(* Backend selects the engine: "db" (DBSessionSchema), "cache"             *)
(* (CacheSessionSchema) or "cached_db" (CachedDBSessionSchema).            *)
(*                                                                         *)
(* Abstractions.  Session data is the logged-in user and a counter of the  *)
(* other writes.  gen_key draws 32 random characters, so a key is never    *)
(* drawn twice: minted holds the keys drawn so far.                        *)
(***************************************************************************)
EXTENDS Naturals, FiniteSets

CONSTANTS
  Clients, Requests, Keys, Users,
  NoKey, NoUser, Absent,
  StaleKeys,       \* cookies of browsers whose session is long gone
  Backend,         \* the engine
  Interrupted,     \* BaseSession(interrupted=...)
  CycleAtLogin,    \* BaseSession(cycle_key_at_login=...)
  SaveEveryRequest,\* BaseSession(save_every_request=...)
  CreateFaults,    \* an INSERT into the session table may fail
  CacheFaults,     \* a cache call may raise
  MaxWrites        \* bound: writes to a session, in the guard of Touch

ASSUME BackendAssumption     == Backend \in {"db", "cache", "cached_db"}
ASSUME InterruptedAssumption == Interrupted \in {"override", "cycle", "error"}
ASSUME FlagAssumption        == /\ CycleAtLogin \in BOOLEAN
                                /\ SaveEveryRequest \in BOOLEAN
                                /\ CreateFaults \in BOOLEAN
                                /\ CacheFaults \in BOOLEAN
ASSUME MaxWritesAssumption   == MaxWrites \in Nat
ASSUME KeyAssumption         == StaleKeys \subseteq Keys /\ NoKey \notin Keys
ASSUME UserAssumption        == NoUser \notin Users

Data  == [user : Users \cup {NoUser}, writes : 0..MaxWrites]
Empty == [user |-> NoUser, writes |-> 0]

ASSUME AbsentAssumption == Absent \notin Data

VARIABLES
  row,      \* session table: key -> encoded_data, or Absent
  deleted,  \* keys of the rows whose deleted_time is set
  cache,    \* cache: key -> encoded data, or Absent
  jar,      \* the sessionid cookie of each browser
  minted,   \* keys drawn so far (see gen_key above)
  pc,       \* where each request is
  req,      \* the request and its BaseSessionSchema object
  revoked,  \* history: keys whose deletion has returned
  handed,   \* history: keys some browser was given
  anon      \* history: those with no user in them when first given

stores == <<row, deleted, cache>>
vars   == <<row, deleted, cache, jar, minted, pc, req, revoked, handed, anon>>

Labels == {"idle", "loadCache", "loadDb", "fill", "run", "insertDb",
           "insertCache", "deleteDb", "deleteCache", "saveDb", "check",
           "saveCache", "reply"}

(* _session_key, the dict, _modified; then the locals of the calls in      *)
(* progress: the key being deleted, what follows it, the user login() is   *)
(* about to set, and what the response does to the cookie.                 *)
Req == [client : Clients, hasCookie : BOOLEAN, key : Keys \cup {NoKey},
        data : Data, modified : BOOLEAN, old : Keys \cup {NoKey},
        cont : {"none", "cycle", "flush", "save"},
        login : Users \cup {NoUser}, answer : {"keep", "drop", "set"}]

Blank(c, k) == [client |-> c, hasCookie |-> k # NoKey, key |-> k, data |-> Empty,
                modified |-> FALSE, old |-> NoKey, cont |-> "none",
                login |-> NoUser, answer |-> "keep"]

UsesDb    == Backend # "cache"
UsesCache == Backend # "db"

Live(k)   == row[k] # Absent /\ k \notin deleted

(* What a load started now returns for k; Absent when it finds nothing. *)
View(k) == IF UsesCache /\ cache[k] # Absent THEN cache[k]
           ELSE IF UsesDb /\ Live(k) THEN row[k] ELSE Absent

Served(k) == View(k) # Absent

-----------------------------------------------------------------------------
(* Control shared by the operations *)

Goto(r, step) == /\ pc'  = [pc  EXCEPT ![r] = step.at]
                 /\ req' = [req EXCEPT ![r] = step.q]

Step(label, q) == [at |-> label, q |-> q]

(* The locals that are dead once the response is built are dropped.  An    *)
(* exception at any point: the chain answers 500, which skips the save and *)
(* sets no cookie.                                                         *)
Answered(q, answer) == Step("reply", [Blank(q.client, NoKey) EXCEPT !.answer = answer])

FailedWithCookie(q) ==          \* mutant: Set-Cookie before the save
  Step("reply", [Blank(q.client, q.key) EXCEPT !.answer = "set", !.data = q.data])
Failed(q) == Answered(q, "keep")

(* session[key] = new_user_id, at the end of login() *)
SetUser(q) == IF q.login = NoUser THEN q
              ELSE [q EXCEPT !.data.user = q.login, !.modified = TRUE,
                             !.login = NoUser]

Return(q) == [q EXCEPT !.old = NoKey, !.cont = "none"]

(* create(): the key is drawn, then save(must_create=True) *)
BeginCreateInCache(q, k, cont) ==   \* mutant: the row is left to a later save
  Step(IF UsesCache THEN "insertCache" ELSE "insertDb",
       [q EXCEPT !.key = k, !.old = q.key, !.cont = cont])
BeginCreate(q, k, cont) ==
  Step(IF UsesDb THEN "insertDb" ELSE "insertCache",
       [q EXCEPT !.key = k, !.old = q.key, !.cont = cont])

BeginDelete(q) == Step(IF UsesDb THEN "deleteDb" ELSE "deleteCache", q)

(* Where the cache half of save() starts *)
CacheSave == IF Interrupted = "override" THEN "saveCache" ELSE "check"

Saved(q) == Step("reply", [Blank(q.client, q.key) EXCEPT !.answer = "set", !.data = q.data])

(* Return from create(): cycle_key() deletes the former key; save() of a   *)
(* cached_db session goes on to write the cache again.                     *)
Created(q) ==
  IF q.cont = "save"
  THEN IF Backend = "cached_db" THEN Step(CacheSave, q) ELSE Saved(q)
  ELSE IF q.old = NoKey THEN Step("run", Return(SetUser(q))) ELSE BeginDelete(q)

(* Return from delete(): flush() also forgets the key. *)
Deleted(q) ==
  Step("run", Return(SetUser(IF q.cont = "flush" THEN [q EXCEPT !.key = NoKey] ELSE q)))

(* A cache call of the cached_db engine that raises is printed and ignored *)
(* ("ignored"); in the cache engine it propagates.                         *)
CacheRaises(r, ignored) ==
  /\ CacheFaults
  /\ Goto(r, IF Backend = "cached_db" THEN ignored ELSE Failed(req[r]))
  /\ UNCHANGED <<row, deleted, cache, jar, minted, revoked, handed, anon>>

-----------------------------------------------------------------------------
(* Loading: get_session, init_from, load *)

Begin(r, c) ==
  /\ pc[r] = "idle"
  /\ Goto(r, Step(IF jar[c] = NoKey THEN "run"
                  ELSE IF UsesCache THEN "loadCache" ELSE "loadDb",
                  Blank(c, jar[c])))
  /\ UNCHANGED <<stores, jar, minted, revoked, handed, anon>>

(* CacheSessionSchema.load: a miss or an exception goes to load_data(),    *)
(* which returns None in the cache engine: the key is forgotten.           *)
LoadCache(r) ==
  /\ pc[r] = "loadCache"
  /\ LET q == req[r]
         hit  == Step("run", [q EXCEPT !.data = cache[q.key]])
         miss == IF UsesDb THEN Step("loadDb", q)
                 ELSE Step("run", [q EXCEPT !.key = NoKey])
     IN  \/ cache[q.key] # Absent /\ Goto(r, hit)
         \/ (cache[q.key] = Absent \/ CacheFaults) /\ Goto(r, miss)
  /\ UNCHANGED <<stores, jar, minted, revoked, handed, anon>>

(* DBSessionSchema.load keeps the key of a session it does not find;       *)
(* CachedDBSessionSchema.load_data, under CacheSessionSchema.load, forgets *)
(* it, and writes a row it finds to the cache in a later step.             *)
LoadDbKeepsKey(r) ==            \* mutant: a session not found keeps its key
  /\ pc[r] = "loadDb"
  /\ LET q == req[r]
     IN  Goto(r, IF Live(q.key)
                 THEN Step(IF UsesCache THEN "fill" ELSE "run",
                           [q EXCEPT !.data = row[q.key]])
                 ELSE Step("run", q))
  /\ UNCHANGED <<stores, jar, minted, revoked, handed, anon>>
LoadDb(r) ==
  /\ pc[r] = "loadDb"
  /\ LET q == req[r]
         found   == Step(IF UsesCache THEN "fill" ELSE "run",
                         [q EXCEPT !.data = row[q.key]])
         missing == Step("run", IF UsesCache THEN [q EXCEPT !.key = NoKey] ELSE q)
     IN  Goto(r, IF Live(q.key) THEN found ELSE missing)
  /\ UNCHANGED <<stores, jar, minted, revoked, handed, anon>>

Fill(r) ==
  /\ pc[r] = "fill"
  /\ \/ /\ cache' = [cache EXCEPT ![req[r].key] = req[r].data]
        /\ Goto(r, Step("run", req[r]))
        /\ UNCHANGED <<row, deleted, jar, minted, revoked, handed, anon>>
     \/ CacheRaises(r, Step("run", req[r]))

-----------------------------------------------------------------------------
(* The handler *)

(* __setitem__ and the other dict methods that set _modified *)
Touch(r) ==
  /\ pc[r] = "run"
  /\ req[r].data.writes < MaxWrites
  /\ Goto(r, Step("run", [req[r] EXCEPT !.data.writes = @ + 1, !.modified = TRUE]))
  /\ UNCHANGED <<stores, jar, minted, revoked, handed, anon>>

(* _get_new_session_key: a fresh key; MaxRetriesExceed, here when the      *)
(* model's finite set is used up.                                          *)
DrawKey(k)    == k \in Keys \ minted /\ minted' = minted \cup {k}
NoFreshKey(r) == minted = Keys /\ Goto(r, Failed(req[r])) /\ UNCHANGED minted

Create(r, q, cont) == \/ \E k \in Keys : DrawKey(k) /\ Goto(r, BeginCreate(q, k, cont))
                      \/ NoFreshKey(r)

(* SchemaSession.login for the user u the authentication has just found *)
LoginInPlace(r, u) ==           \* mutant: the key is not cycled
  /\ pc[r] = "run"
  /\ Goto(r, Step("run", SetUser([req[r] EXCEPT !.login = u])))
  /\ UNCHANGED <<stores, jar, minted, revoked, handed, anon>>
Login(r, u) ==
  /\ pc[r] = "run"
  /\ LET q == [req[r] EXCEPT !.login = u]
         cleared == [q EXCEPT !.data = Empty, !.modified = TRUE, !.old = q.key,
                              !.cont = "flush"]
     IN  \/ /\ q.data.user = NoUser /\ CycleAtLogin
            /\ Create(r, q, "cycle")
         \/ /\ q.data.user = u \/ (q.data.user = NoUser /\ ~CycleAtLogin)
            /\ Goto(r, Step("run", SetUser(q)))
            /\ UNCHANGED minted
         \/ /\ q.data.user \notin {u, NoUser}
            /\ Goto(r, IF q.key = NoKey THEN Deleted(cleared) ELSE BeginDelete(cleared))
            /\ UNCHANGED minted
  /\ UNCHANGED <<stores, jar, revoked, handed, anon>>

CycleKey(r) ==
  /\ pc[r] = "run"
  /\ Create(r, req[r], "cycle")
  /\ UNCHANGED <<stores, jar, revoked, handed, anon>>

(* flush(): clear(), delete(), then the key is forgotten *)
Flush(r) ==
  /\ pc[r] = "run"
  /\ LET q == [req[r] EXCEPT !.data = Empty, !.modified = TRUE, !.old = req[r].key,
                             !.cont = "flush"]
     IN  Goto(r, IF q.key = NoKey THEN Deleted(q) ELSE BeginDelete(q))
  /\ UNCHANGED <<stores, jar, minted, revoked, handed, anon>>

-----------------------------------------------------------------------------
(* Storage steps of create(), save() and delete() *)

(* INSERT of create().  SessionCreateError is swallowed: create() returns  *)
(* with the key set, nothing stored, and _modified untouched.              *)
InsertDb(r) ==
  /\ pc[r] = "insertDb"
  /\ LET q == req[r]
         done == [q EXCEPT !.modified = TRUE]
     IN  \/ /\ row' = [row EXCEPT ![q.key] = q.data]
            /\ Goto(r, IF UsesCache THEN Step("insertCache", done) ELSE Created(done))
         \/ /\ CreateFaults
            /\ Goto(r, Created(q))
            /\ UNCHANGED row
  /\ UNCHANGED <<deleted, cache, jar, minted, revoked, handed, anon>>

(* cache.set(not_exists_only=True) of create() *)
InsertCache(r) ==
  /\ pc[r] = "insertCache"
  /\ LET done == Created([req[r] EXCEPT !.modified = TRUE])
     IN  \/ /\ cache' = [cache EXCEPT ![req[r].key] = IF @ = Absent THEN req[r].data ELSE @]
            /\ Goto(r, done)
            /\ UNCHANGED <<row, deleted, jar, minted, revoked, handed, anon>>
         \/ CacheRaises(r, done)

(* UPDATE ... SET deleted_time WHERE session_key = old AND deleted_time IS NULL *)
DeleteDb(r) ==
  /\ pc[r] = "deleteDb"
  /\ LET q == req[r]
     IN  /\ deleted' = IF Live(q.old) THEN deleted \cup {q.old} ELSE deleted
         /\ Goto(r, IF UsesCache THEN Step("deleteCache", q) ELSE Deleted(q))
         /\ revoked' = IF UsesCache \/ row[q.old] = Absent THEN revoked ELSE revoked \cup {q.old}
  /\ UNCHANGED <<row, cache, jar, minted, handed, anon>>

DeleteCache(r) ==
  /\ pc[r] = "deleteCache"
  /\ \/ /\ cache' = [cache EXCEPT ![req[r].old] = Absent]
        /\ revoked' = revoked \cup {req[r].old}
        /\ Goto(r, Deleted(req[r]))
        /\ UNCHANGED <<row, deleted, jar, minted, handed, anon>>
     \/ CacheRaises(r, Deleted(req[r]))

(* update_or_create(session_key=...): the row is found by its key alone,   *)
(* and deleted_time is not among the values it writes.                     *)
SaveDbUndeletes(r) ==           \* mutant: deleted_time is written too
  /\ pc[r] = "saveDb"
  /\ LET q == req[r]
     IN  /\ row' = [row EXCEPT ![q.key] = q.data]
         /\ deleted' = deleted \ {q.key}
         /\ Goto(r, IF UsesCache THEN Step(CacheSave, q) ELSE Saved(q))
  /\ UNCHANGED <<cache, jar, minted, revoked, handed, anon>>
SaveDb(r) ==
  /\ pc[r] = "saveDb"
  /\ LET q == req[r]
     IN  /\ row' = [row EXCEPT ![q.key] = q.data]
         /\ Goto(r, IF UsesCache THEN Step(CacheSave, q) ELSE Saved(q))
  /\ UNCHANGED <<deleted, cache, jar, minted, revoked, handed, anon>>

(* interrupted = "cycle" or "error": is the session still in the cache?    *)
(* SessionUpdateError is ignored by the cached_db engine.                  *)
CheckInterrupted(r) ==
  /\ pc[r] = "check"
  /\ LET q == req[r]
     IN  \/ /\ cache[q.key] # Absent
            /\ Goto(r, Step("saveCache", q))
            /\ UNCHANGED minted
         \/ /\ cache[q.key] = Absent /\ Interrupted = "cycle"
            /\ \/ \E k \in Keys : DrawKey(k) /\ Goto(r, Step("saveCache", [q EXCEPT !.key = k]))
               \/ NoFreshKey(r)
         \/ /\ cache[q.key] = Absent /\ Interrupted = "error"
            /\ Goto(r, IF UsesDb THEN Saved(q) ELSE Failed(q))
            /\ UNCHANGED minted
  /\ UNCHANGED <<stores, jar, revoked, handed, anon>>

SaveCache(r) ==
  /\ pc[r] = "saveCache"
  /\ \/ /\ cache' = [cache EXCEPT ![req[r].key] = req[r].data]
        /\ Goto(r, Saved(req[r]))
        /\ UNCHANGED <<row, deleted, jar, minted, revoked, handed, anon>>
     \/ CacheRaises(r, Saved(req[r]))

-----------------------------------------------------------------------------
(* The response: process_response and save_session *)

IsEmpty(q) == q.key = NoKey /\ q.data = Empty

Respond(r, status) ==
  /\ pc[r] = "run"
  /\ LET q == req[r]
         drops == q.hasCookie /\ IsEmpty(q)
         saves == ~drops /\ ~IsEmpty(q) /\ (q.modified \/ SaveEveryRequest) /\ status # 500
     IN  \/ /\ drops
            /\ Goto(r, Answered(q, "drop"))
            /\ UNCHANGED minted
         \/ /\ saves /\ q.key = NoKey
            /\ Create(r, q, "save")
         \/ /\ saves /\ q.key # NoKey
            /\ Goto(r, Step(IF UsesDb THEN "saveDb" ELSE CacheSave, q))
            /\ UNCHANGED minted
         \/ /\ ~drops /\ ~saves
            /\ Goto(r, Answered(q, "keep"))
            /\ UNCHANGED minted
  /\ UNCHANGED <<stores, jar, revoked, handed, anon>>

(* The browser applies Set-Cookie: responses arrive in any order. *)
Deliver(r) ==
  /\ pc[r] = "reply"
  /\ LET q == req[r]
     IN  /\ jar' = [jar EXCEPT ![q.client] = CASE q.answer = "keep" -> @
                                              [] q.answer = "drop" -> NoKey
                                              [] q.answer = "set"  -> q.key]
         /\ handed' = IF q.answer = "set" THEN handed \cup {q.key} ELSE handed
         /\ anon' = IF q.answer = "set" /\ q.data.user = NoUser /\ q.key \notin handed
                    THEN anon \cup {q.key} ELSE anon
         /\ Goto(r, Step("idle", Blank(q.client, NoKey)))
  /\ UNCHANGED <<stores, minted, revoked>>

(* An exception in the handler or the database, a cancelled task, a killed *)
(* worker: the steps left are not taken and the browser keeps its cookie.  *)
Abort(r) ==
  /\ pc[r] \notin {"idle", "reply"}
  /\ Goto(r, Failed(req[r]))
  /\ UNCHANGED <<stores, jar, minted, revoked, handed, anon>>

-----------------------------------------------------------------------------
(* The environment *)

(* The cache drops an entry: its timeout, or memory. *)
Evict(k) ==
  /\ UsesCache /\ cache[k] # Absent
  /\ cache' = [cache EXCEPT ![k] = Absent]
  /\ UNCHANGED <<row, deleted, jar, minted, pc, req, revoked, handed, anon>>

Init ==
  /\ row = [k \in Keys |-> Absent]
  /\ deleted = {}
  /\ cache = [k \in Keys |-> Absent]
  /\ jar \in [Clients -> StaleKeys \cup {NoKey}]
  /\ minted = StaleKeys
  /\ pc = [r \in Requests |-> "idle"]
  /\ req \in [Requests -> {Blank(c, NoKey) : c \in Clients}]
  /\ revoked = {} /\ handed = {} /\ anon = {}

Next ==
  \/ \E r \in Requests :
       \/ \E c \in Clients : Begin(r, c)
       \/ LoadCache(r) \/ LoadDb(r) \/ Fill(r)
       \/ Touch(r) \/ CycleKey(r) \/ Flush(r)
       \/ \E u \in Users : Login(r, u)
       \/ InsertDb(r) \/ InsertCache(r) \/ DeleteDb(r) \/ DeleteCache(r)
       \/ SaveDb(r) \/ CheckInterrupted(r) \/ SaveCache(r)
       \/ \E status \in {200, 500} : Respond(r, status)
       \/ Deliver(r) \/ Abort(r)
  \/ \E k \in Keys : Evict(k)

Spec == Init /\ [][Next]_vars

-----------------------------------------------------------------------------
(* Properties *)

(* Every variable has its type; in particular no request takes the absence *)
(* of a stored value for session data.                                     *)
TypeOK ==
  /\ row \in [Keys -> Data \cup {Absent}]
  /\ deleted \subseteq Keys
  /\ cache \in [Keys -> Data \cup {Absent}]
  /\ jar \in [Clients -> Keys \cup {NoKey}]
  /\ minted \subseteq Keys
  /\ pc \in [Requests -> Labels]
  /\ req \in [Requests -> Req]
  /\ revoked \subseteq Keys /\ handed \subseteq Keys /\ anon \subseteq Keys

(* flush() and cycle_key() revoke a key at once and for good: when the     *)
(* deletion has returned no load finds a session under the key, whatever   *)
(* the requests that loaded it before still write.                         *)
RevokedUnreadable == \A k \in revoked : ~Served(k)

(* A request works on the session k: it loaded it, or created it. *)
Holds(r, k) == pc[r] \notin {"idle", "loadCache", "loadDb", "reply"} /\ req[r].key = k

(* With a cache in front, a revoked session that nobody works on is gone   *)
(* for good: a request that starts with the old cookie finds nothing, and  *)
(* forgets the key, so it neither works on that session nor revives it.    *)
GoneStaysGone ==
  \A k \in revoked : LET Gone == ~Served(k) /\ \A r \in Requests : ~Holds(r, k)
                    IN  Gone => Gone'

(* Session fixation: a key a browser was given before login never names a  *)
(* session with a user in it (cycle_key_at_login).                         *)
AnonymousKeyStaysAnonymous ==
  \A k \in anon : /\ row[k] # Absent => row[k].user = NoUser
                  /\ cache[k] # Absent => cache[k].user = NoUser

(* The database engine implements the abstract store of SessionStore: what *)
(* a load finds changes by Put and End alone, and End is final.            *)
Store == INSTANCE SessionStore WITH session <- [k \in Keys |-> View(k)], ended <- deleted
StoreSpec == Store!Spec

(* A cookie this service has set names a session that was stored in the    *)
(* database: its row exists, live or deleted by a logout.                  *)
IssuedKeyStored ==
  \A c \in Clients : jar[c] \notin StaleKeys \cup {NoKey} => row[jar[c]] # Absent

(* The cache of a cached_db engine never holds a session that the database *)
(* has never stored.                                                       *)
CacheBacked == \A k \in Keys : cache[k] # Absent => row[k] # Absent
=============================================================================
