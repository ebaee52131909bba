---------------------------- MODULE Session_proof ----------------------------
(* Proofs about Session, for every set of browsers, requests, keys and     *)
(* users: type correctness of every engine; for the database engine, the   *)
(* revocation invariant and the refinement of SessionStore.                *)
EXTENDS Session, TLAPS

USE DEF Step

KeyLabels == {"loadCache", "loadDb", "fill", "insertDb", "insertCache",
              "saveDb", "check", "saveCache"}

(* A step that goes to a storage access has the key it accesses. *)
IsStep(s) == /\ s.at \in Labels
             /\ s.q \in Req
             /\ s.at \in KeyLabels => s.q.key \in Keys
             /\ s.at \in {"deleteDb", "deleteCache"} => s.q.old \in Keys
             /\ s.at = "reply" /\ s.q.answer = "set" => s.q.key \in Keys

ReqOK == /\ pc \in [Requests -> Labels]
         /\ req \in [Requests -> Req]
         /\ \A r \in Requests : IsStep(Step(pc[r], req[r]))

(* The inductive invariant behind TypeOK. *)
TypeInv == TypeOK /\ ReqOK

-----------------------------------------------------------------------------
(* The record operations stay within their types. *)

(* An empty dict is session data. *)
LEMMA EmptyType == Empty \in Data
  BY MaxWritesAssumption DEF Data, Empty

(* A request that owes nothing more is a request. *)
LEMMA BlankType == ASSUME NEW c \in Clients, NEW k \in Keys \cup {NoKey}
                   PROVE  Blank(c, k) \in Req
  BY MaxWritesAssumption DEF Blank, Req, Data, Empty

(* Answering and failing lead to typed steps. *)
LEMMA AnsweredType == ASSUME NEW q \in Req, NEW a \in {"keep", "drop"}
                      PROVE  IsStep(Answered(q, a)) /\ IsStep(Failed(q))
  <1>1. Blank(q.client, NoKey) \in Req
    BY BlankType DEF Req
  <1>2. \A b \in {"keep", "drop"} : /\ [Blank(q.client, NoKey) EXCEPT !.answer = b] \in Req
                                    /\ [Blank(q.client, NoKey) EXCEPT !.answer = b].answer = b
    BY <1>1 DEF Req
  <1> QED
    BY <1>2 DEF Answered, Failed, IsStep, Labels, KeyLabels

(* So does a save() that is over. *)
LEMMA SavedType == ASSUME NEW q \in Req, q.key \in Keys PROVE IsStep(Saved(q))
  <1>1. Blank(q.client, q.key) \in Req /\ Blank(q.client, q.key).key = q.key
    BY BlankType DEF Req, Blank
  <1> DEFINE p == [Blank(q.client, q.key) EXCEPT !.answer = "set", !.data = q.data]
  <1>2. p \in Req /\ p.key = q.key
    BY <1>1 DEF Req
  <1> QED
    BY <1>2 DEF Saved, IsStep, Labels, KeyLabels

(* login_user() keeps the request typed, and its key. *)
LEMMA SetUserType == ASSUME NEW q \in Req
                     PROVE  SetUser(q) \in Req /\ SetUser(q).key = q.key
  <1>1. q.data \in Data /\ q.login \in Users \cup {NoUser}
    BY DEF Req
  <1>2. [q.data EXCEPT !.user = q.login] \in Data
    BY <1>1 DEF Data
  <1> QED
    BY <1>2 DEF SetUser, Req

(* Going back from cycle_key() or save() does too. *)
LEMMA ReturnType == ASSUME NEW q \in Req PROVE Return(q) \in Req /\ Return(q).key = q.key
  BY DEF Return, Req

(* Handing the request back to its handler is a typed step. *)
LEMMA RunType == ASSUME NEW q \in Req PROVE IsStep(Step("run", q))
  BY DEF IsStep, Labels, KeyLabels

(* Deleting a former key starts with a typed step, *)
LEMMA BeginDeleteType == ASSUME NEW q \in Req, q.old \in Keys PROVE IsStep(BeginDelete(q))
  BY DEF BeginDelete, IsStep, Labels, KeyLabels

(* as does creating a session under a new key *)
LEMMA BeginCreateType ==
  ASSUME NEW q \in Req, NEW k \in Keys, NEW cont \in {"cycle", "save"}
  PROVE  IsStep(BeginCreate(q, k, cont))
  <1> DEFINE p == [q EXCEPT !.key = k, !.old = q.key, !.cont = cont]
  <1>1. p \in Req /\ p.key = k
    BY DEF Req
  <1> QED
    BY <1>1 DEF BeginCreate, IsStep, Labels, KeyLabels

(* and the cache part of a save. *)
LEMMA CacheSaveType == ASSUME NEW q \in Req, q.key \in Keys PROVE IsStep(Step(CacheSave, q))
  BY DEF CacheSave, IsStep, Labels, KeyLabels

(* What follows create() is typed, whoever called it. *)
LEMMA CreatedType == ASSUME NEW q \in Req, q.key \in Keys PROVE IsStep(Created(q))
  <1>1. IsStep(Step("run", Return(SetUser(q))))
    BY SetUserType, ReturnType, RunType
  <1>2. IsStep(Saved(q)) /\ IsStep(Step(CacheSave, q))
    BY SavedType, CacheSaveType
  <1>3. q.old = NoKey \/ IsStep(BeginDelete(q))
    BY BeginDeleteType DEF Req
  <1> QED
    BY <1>1, <1>2, <1>3 DEF Created

(* What follows delete() is typed, whoever called it. *)
LEMMA DeletedType == ASSUME NEW q \in Req PROVE IsStep(Deleted(q))
  <1>1. [q EXCEPT !.key = NoKey] \in Req
    BY DEF Req
  <1>2. (IF q.cont = "flush" THEN [q EXCEPT !.key = NoKey] ELSE q) \in Req
    BY <1>1
  <1>3. Return(SetUser(IF q.cont = "flush" THEN [q EXCEPT !.key = NoKey] ELSE q)) \in Req
    BY <1>2, SetUserType, ReturnType
  <1> QED
    BY <1>3, RunType DEF Deleted

(* A typed step keeps the requests typed. *)
LEMMA GotoType == ASSUME ReqOK, NEW r \in Requests, NEW s, IsStep(s), Goto(r, s)
                  PROVE  ReqOK'
  BY DEF ReqOK, IsStep, Goto

(* So does choosing a new key, *)
LEMMA CreateType ==
  ASSUME ReqOK, minted \subseteq Keys, NEW r \in Requests, NEW q \in Req,
         NEW cont \in {"cycle", "save"}, Create(r, q, cont)
  PROVE  ReqOK' /\ (minted \subseteq Keys)'
  <1>1. CASE NoFreshKey(r)
    <2>1. IsStep(Failed(req[r]))
      BY AnsweredType DEF ReqOK
    <2> QED
      BY <1>1, <2>1, GotoType DEF NoFreshKey
  <1>2. ASSUME NEW k \in Keys, DrawKey(k), Goto(r, BeginCreate(q, k, cont))
        PROVE  ReqOK' /\ (minted \subseteq Keys)'
    BY <1>2, BeginCreateType, GotoType DEF DrawKey
  <1> QED
    BY <1>1, <1>2 DEF Create

(* and a cache call that raises. *)
LEMMA CacheRaisesType ==
  ASSUME ReqOK, NEW r \in Requests, NEW s, IsStep(s), CacheRaises(r, s)
  PROVE  ReqOK'
  <1>1. IsStep(Failed(req[r]))
    BY AnsweredType DEF ReqOK
  <1> QED
    BY <1>1, GotoType DEF CacheRaises

-----------------------------------------------------------------------------
(* Every variable keeps its type, whatever the engine. *)

(* The empty service is typed. *)
LEMMA TypeInit == Init => TypeInv
  <1> SUFFICES ASSUME Init PROVE TypeInv
    OBVIOUS
  <1>1. Empty \in Data /\ StaleKeys \subseteq Keys
    BY KeyAssumption, MaxWritesAssumption DEF Empty, Data
  <1>2. \A c \in Clients : Blank(c, NoKey) \in Req
    BY BlankType
  <1>3. TypeOK
    BY <1>1, <1>2 DEF Init, TypeOK, Labels
  <1>4. \A r \in Requests : IsStep(Step(pc[r], req[r]))
    BY <1>3 DEF Init, TypeOK, IsStep, Labels, KeyLabels
  <1> QED
    BY <1>3, <1>4 DEF TypeInv, ReqOK, TypeOK

(* Each action keeps the types, one step per action. *)
LEMMA TypeStep == TypeInv /\ [Next]_vars => TypeInv'
  <1> SUFFICES ASSUME TypeInv, [Next]_vars PROVE TypeInv'
    OBVIOUS
  <1>q. /\ ReqOK
        /\ \A r \in Requests : /\ req[r] \in Req
                               /\ req[r].key \in Keys \cup {NoKey}
                               /\ req[r].data \in Data
                               /\ req[r].client \in Clients
                               /\ IsStep(Step(pc[r], req[r]))
    BY DEF Req, TypeInv, ReqOK
  <1> USE DEF TypeInv, TypeOK, stores
  <1>r. ReqOK' => pc' \in [Requests -> Labels] /\ req' \in [Requests -> Req]
    BY DEF ReqOK
  <1>1. ASSUME NEW r \in Requests, NEW c \in Clients, Begin(r, c) PROVE TypeInv'
    <2>1. Blank(c, jar[c]) \in Req
      BY BlankType
    <2>2. Blank(c, jar[c]).key = jar[c] /\ Blank(c, jar[c]).answer = "keep"
      BY DEF Blank
    <2> DEFINE s == Step(IF jar[c] = NoKey THEN "run"
                         ELSE IF UsesCache THEN "loadCache" ELSE "loadDb",
                         Blank(c, jar[c]))
    <2>3. jar[c] # NoKey => jar[c] \in Keys
      OBVIOUS
    <2>4. IsStep(s)
      BY <2>1, <2>2, <2>3 DEF IsStep, Labels, KeyLabels
    <2>5. Goto(r, s)
      BY <1>1 DEF Begin
    <2>6. ReqOK'
      BY <1>q, <2>4, <2>5, GotoType
    <2> QED
      BY <1>1, <1>r, <2>6 DEF Begin
  <1>2. ASSUME NEW r \in Requests, LoadCache(r) PROVE TypeInv'
    <2> DEFINE q == req[r]
    <2>1. q.key \in Keys
      BY <1>2, <1>q DEF LoadCache, IsStep, KeyLabels
    <2>2. ASSUME cache[q.key] # Absent PROVE IsStep(Step("run", [q EXCEPT !.data = cache[q.key]]))
      <3>1. cache[q.key] \in Data
        BY <2>1, <2>2
      <3>2. [q EXCEPT !.data = cache[q.key]] \in Req
        BY <1>q, <3>1 DEF Req
      <3> QED
        BY <3>2, RunType
    <2>3. IsStep(Step("loadDb", q))
      BY <1>q, <2>1 DEF IsStep, Labels, KeyLabels
    <2>4. IsStep(Step("run", [q EXCEPT !.key = NoKey]))
      <3>1. [q EXCEPT !.key = NoKey] \in Req
        BY <1>q DEF Req
      <3> QED
        BY <3>1, RunType
    <2>5. ReqOK'
      BY <1>2, <1>q, <2>2, <2>3, <2>4, GotoType DEF LoadCache
    <2> QED
      BY <1>2, <1>r, <2>5 DEF LoadCache
  <1>3. ASSUME NEW r \in Requests, LoadDb(r) PROVE TypeInv'
    <2> DEFINE q == req[r]
    <2>1. q.key \in Keys
      BY <1>3, <1>q DEF LoadDb, IsStep, KeyLabels
    <2>2. ASSUME Live(q.key)
          PROVE  IsStep(Step(IF UsesCache THEN "fill" ELSE "run", [q EXCEPT !.data = row[q.key]]))
      <3>1. row[q.key] \in Data
        BY <2>1, <2>2 DEF Live
      <3>2. [q EXCEPT !.data = row[q.key]] \in Req /\ [q EXCEPT !.data = row[q.key]].key = q.key
        BY <1>q, <3>1 DEF Req
      <3> QED
        BY <2>1, <3>2 DEF IsStep, Labels, KeyLabels
    <2>3. IsStep(Step("run", IF UsesCache THEN [q EXCEPT !.key = NoKey] ELSE q))
      <3>1. [q EXCEPT !.key = NoKey] \in Req
        BY <1>q DEF Req
      <3> QED
        BY <1>q, <3>1, RunType
    <2>4. ReqOK'
      BY <1>3, <1>q, <2>2, <2>3, GotoType DEF LoadDb
    <2> QED
      BY <1>3, <1>r, <2>4 DEF LoadDb
  <1>4. ASSUME NEW r \in Requests, Fill(r) PROVE TypeInv'
    <2>1. IsStep(Step("run", req[r]))
      BY <1>q, RunType
    <2>2. ReqOK'
      BY <1>4, <1>q, <2>1, GotoType, CacheRaisesType DEF Fill
    <2> QED
      BY <1>4, <1>q, <1>r, <2>2 DEF Fill, CacheRaises
  <1>5. ASSUME NEW r \in Requests, Touch(r) PROVE TypeInv'
    <2> DEFINE q == [req[r] EXCEPT !.data.writes = @ + 1, !.modified = TRUE]
    <2>1. [req[r].data EXCEPT !.writes = @ + 1] \in Data
      <3> DEFINE w == req[r].data.writes
      <3>1. w \in 0..MaxWrites /\ w < MaxWrites
        BY <1>5, <1>q DEF Touch, Data
      <3>2. w + 1 \in 0..MaxWrites
        BY <3>1, MaxWritesAssumption
      <3> HIDE DEF w
      <3>3. [req[r].data EXCEPT !.writes = w + 1] \in Data
        BY <1>q, <3>2 DEF Data
      <3> QED
        BY <3>3 DEF w
    <2>2. q \in Req
      BY <1>q, <2>1 DEF Req
    <2>3. ReqOK'
      BY <1>5, <1>q, <2>2, RunType, GotoType DEF Touch
    <2> QED
      BY <1>5, <1>r, <2>3 DEF Touch
  <1>6. ASSUME NEW r \in Requests, NEW u \in Users, Login(r, u) PROVE TypeInv'
    <2> DEFINE q == [req[r] EXCEPT !.login = u]
               cleared == [q EXCEPT !.data = Empty, !.modified = TRUE, !.old = q.key,
                                    !.cont = "flush"]
    <2>1. q \in Req /\ q.key = req[r].key
      BY <1>q DEF Req
    <2>2. cleared \in Req /\ cleared.old = q.key
      BY <1>q, <2>1, EmptyType DEF Req
    <2>3. IsStep(Step("run", SetUser(q)))
      BY <2>1, SetUserType, RunType
    <2>4. IsStep(Deleted(cleared))
      BY <2>2, DeletedType
    <2>5. q.key # NoKey => IsStep(BeginDelete(cleared))
      BY <1>q, <2>1, <2>2, BeginDeleteType
    <2>6. ReqOK' /\ (minted \subseteq Keys)'
      BY <1>6, <1>q, <2>1, <2>3, <2>4, <2>5, GotoType, CreateType DEF Login
    <2> QED
      BY <1>6, <1>r, <2>6 DEF Login
  <1>7. ASSUME NEW r \in Requests, CycleKey(r) PROVE TypeInv'
    <2>1. ReqOK' /\ (minted \subseteq Keys)'
      BY <1>7, <1>q, CreateType DEF CycleKey
    <2> QED
      BY <1>7, <1>r, <2>1 DEF CycleKey
  <1>8. ASSUME NEW r \in Requests, Flush(r) PROVE TypeInv'
    <2> DEFINE q == [req[r] EXCEPT !.data = Empty, !.modified = TRUE, !.old = req[r].key,
                                   !.cont = "flush"]
    <2>1. q \in Req /\ q.old = req[r].key /\ q.key = req[r].key
      BY <1>q, EmptyType DEF Req
    <2>2. IsStep(Deleted(q))
      BY <2>1, DeletedType
    <2>3. q.key # NoKey => IsStep(BeginDelete(q))
      BY <1>q, <2>1, BeginDeleteType
    <2>4. ReqOK'
      BY <1>8, <1>q, <2>2, <2>3, GotoType DEF Flush
    <2> QED
      BY <1>8, <1>r, <2>4 DEF Flush
  <1>9. ASSUME NEW r \in Requests, InsertDb(r) PROVE TypeInv'
    <2> DEFINE q == req[r]
               done == [q EXCEPT !.modified = TRUE]
    <2>1. q.key \in Keys
      BY <1>9, <1>q DEF InsertDb, IsStep, KeyLabels
    <2>2. done \in Req /\ done.key = q.key
      BY <1>q DEF Req
    <2>3. IsStep(Step("insertCache", done))
      BY <2>1, <2>2 DEF IsStep, Labels, KeyLabels
    <2>4. IsStep(Created(done)) /\ IsStep(Created(q))
      BY <1>q, <2>1, <2>2, CreatedType
    <2>5. ReqOK'
      BY <1>9, <1>q, <2>3, <2>4, GotoType DEF InsertDb
    <2> QED
      BY <1>9, <1>q, <1>r, <2>5 DEF InsertDb
  <1>10. ASSUME NEW r \in Requests, InsertCache(r) PROVE TypeInv'
    <2> DEFINE done == [req[r] EXCEPT !.modified = TRUE]
    <2>1. done \in Req /\ done.key = req[r].key /\ req[r].key \in Keys
      BY ZenonT(60), <1>10, <1>q DEF InsertCache, IsStep, KeyLabels, Req
    <2>2. IsStep(Created(done))
      BY <2>1, CreatedType
    <2>3. ReqOK'
      BY <1>10, <1>q, <2>2, GotoType, CacheRaisesType DEF InsertCache
    <2>4. \A d \in Data \cup {Absent} :
            [cache EXCEPT ![req[r].key] = d] \in [Keys -> Data \cup {Absent}]
      OBVIOUS
    <2>5. (IF cache[req[r].key] = Absent THEN req[r].data ELSE cache[req[r].key])
            \in Data \cup {Absent}
      BY <1>q, <2>1
    <2>6. cache' \in [Keys -> Data \cup {Absent}]
      BY <1>10, <2>4, <2>5 DEF InsertCache, CacheRaises
    <2> QED
      BY <1>10, <1>r, <2>3, <2>6 DEF InsertCache, CacheRaises
  <1>11. ASSUME NEW r \in Requests, DeleteDb(r) PROVE TypeInv'
    <2> DEFINE q == req[r]
    <2>1. q.old \in Keys
      BY <1>11, <1>q DEF DeleteDb, IsStep
    <2>2. IsStep(Step("deleteCache", q)) /\ IsStep(Deleted(q))
      BY <1>q, <2>1, DeletedType DEF IsStep, Labels, KeyLabels
    <2>3. ReqOK'
      BY <1>11, <1>q, <2>2, GotoType DEF DeleteDb
    <2> QED
      BY <1>11, <1>r, <2>1, <2>3 DEF DeleteDb
  <1>12. ASSUME NEW r \in Requests, DeleteCache(r) PROVE TypeInv'
    <2>1. req[r].old \in Keys
      BY <1>12, <1>q DEF DeleteCache, IsStep
    <2>2. IsStep(Deleted(req[r]))
      BY <1>q, DeletedType
    <2>3. ReqOK'
      BY <1>12, <1>q, <2>2, GotoType, CacheRaisesType DEF DeleteCache
    <2> QED
      BY <1>12, <1>r, <2>1, <2>3 DEF DeleteCache, CacheRaises
  <1>13. ASSUME NEW r \in Requests, SaveDb(r) PROVE TypeInv'
    <2>1. req[r].key \in Keys
      BY <1>13, <1>q DEF SaveDb, IsStep, KeyLabels
    <2>2. IsStep(Step(CacheSave, req[r])) /\ IsStep(Saved(req[r]))
      BY <1>q, <2>1, CacheSaveType, SavedType
    <2>3. ReqOK'
      BY <1>13, <1>q, <2>2, GotoType DEF SaveDb
    <2> QED
      BY <1>13, <1>q, <1>r, <2>3 DEF SaveDb
  <1>14. ASSUME NEW r \in Requests, CheckInterrupted(r) PROVE TypeInv'
    <2> DEFINE q == req[r]
    <2>1. q.key \in Keys
      BY <1>14, <1>q DEF CheckInterrupted, IsStep, KeyLabels
    <2>2. \A k \in Keys : IsStep(Step("saveCache", [q EXCEPT !.key = k]))
      <3>1. \A k \in Keys : [q EXCEPT !.key = k] \in Req /\ [q EXCEPT !.key = k].key = k
        BY SMTT(40), <1>q DEF Req
      <3> QED
        BY <3>1 DEF IsStep, Labels, KeyLabels
    <2>3. IsStep(Step("saveCache", q)) /\ IsStep(Saved(q)) /\ IsStep(Failed(q))
      BY <1>q, <2>1, SavedType, AnsweredType DEF IsStep, Labels, KeyLabels
    <2>4. ReqOK' /\ (minted \subseteq Keys)'
      BY <1>14, <1>q, <2>2, <2>3, GotoType DEF CheckInterrupted, DrawKey, NoFreshKey
    <2> QED
      BY <1>14, <1>r, <2>4 DEF CheckInterrupted
  <1>15. ASSUME NEW r \in Requests, SaveCache(r) PROVE TypeInv'
    <2>1. IsStep(Saved(req[r]))
      BY <1>15, <1>q, SavedType DEF SaveCache, IsStep, KeyLabels
    <2>2. ReqOK'
      BY <1>15, <1>q, <2>1, GotoType, CacheRaisesType DEF SaveCache
    <2> QED
      BY <1>15, <1>q, <1>r, <2>2 DEF SaveCache, CacheRaises
  <1>16. ASSUME NEW r \in Requests, NEW status \in {200, 500}, Respond(r, status) PROVE TypeInv'
    <2> DEFINE q == req[r]
    <2>1. IsStep(Answered(q, "drop")) /\ IsStep(Answered(q, "keep"))
      BY <1>q, AnsweredType
    <2>2. q.key # NoKey => IsStep(Step(IF UsesDb THEN "saveDb" ELSE CacheSave, q))
      BY <1>q, CacheSaveType DEF IsStep, Labels, KeyLabels
    <2>3. ReqOK' /\ (minted \subseteq Keys)'
      BY <1>16, <1>q, <2>1, <2>2, GotoType, CreateType DEF Respond
    <2> QED
      BY <1>16, <1>r, <2>3 DEF Respond
  <1>17. ASSUME NEW r \in Requests, Deliver(r) PROVE TypeInv'
    <2> DEFINE q == req[r]
    <2>1. IsStep(Step("idle", Blank(q.client, NoKey)))
      BY <1>q, BlankType DEF IsStep, Labels, KeyLabels
    <2>2. ReqOK'
      BY <1>17, <1>q, <2>1, GotoType DEF Deliver
    <2>3. q.answer \in {"keep", "drop", "set"} /\ (q.answer = "set" => q.key \in Keys)
      BY <1>17, <1>q DEF Deliver, IsStep, Req
    <2> QED
      BY <1>17, <1>r, <2>2, <2>3 DEF Deliver
  <1>18. ASSUME NEW r \in Requests, Abort(r) PROVE TypeInv'
    <2>1. IsStep(Failed(req[r]))
      BY <1>q, AnsweredType
    <2>2. ReqOK'
      BY <1>18, <1>q, <2>1, GotoType DEF Abort
    <2> QED
      BY <1>18, <1>r, <2>2 DEF Abort
  <1>19. ASSUME NEW k \in Keys, Evict(k) PROVE TypeInv'
    BY <1>19 DEF Evict, ReqOK, IsStep
  <1>20. CASE UNCHANGED vars
    BY <1>20 DEF vars, ReqOK, IsStep
  <1> QED
    BY <1>1, <1>2, <1>3, <1>4, <1>5, <1>6, <1>7, <1>8, <1>9, <1>10, <1>11, <1>12,
       <1>13, <1>14, <1>15, <1>16, <1>17, <1>18, <1>19, <1>20 DEF Next

(* Type correctness of every engine under every interleaving: in           *)
(* particular no request takes a missing row or cache entry for data, and  *)
(* no storage step runs without a key.                                     *)
THEOREM TypeCorrect == Spec => []TypeOK
  <1>1. TypeInv => TypeOK
    BY DEF TypeInv
  <1> QED
    BY TypeInit, TypeStep, <1>1, PTL DEF Spec

-----------------------------------------------------------------------------
(* The database engine. *)

DbLabels == {"idle", "loadDb", "run", "insertDb", "deleteDb", "saveDb", "reply"}

(* The inductive invariant: no request takes a cache step, and every key   *)
(* whose deletion has returned has its deleted_time set.                   *)
DbInv == /\ \A r \in Requests : pc[r] \in DbLabels
         /\ revoked \subseteq deleted

(* Where the steps of the database engine lead. *)
LEMMA DbSteps ==
  ASSUME Backend = "db", NEW q, NEW k, NEW cont
  PROVE  /\ Failed(q).at \in DbLabels /\ Saved(q).at \in DbLabels
         /\ BeginCreate(q, k, cont).at \in DbLabels
         /\ BeginDelete(q).at \in DbLabels
         /\ Created(q).at \in DbLabels /\ Deleted(q).at \in DbLabels
         /\ Answered(q, k).at \in DbLabels
  BY DEF Failed, Answered, Saved, BeginCreate, BeginDelete, Created, Deleted,
         UsesDb, UsesCache, DbLabels

(* A step to such a place keeps every request at one. *)
LEMMA DbGoto ==
  ASSUME pc \in [Requests -> Labels], \A r \in Requests : pc[r] \in DbLabels,
         NEW r \in Requests, NEW s, s.at \in DbLabels, Goto(r, s)
  PROVE  (\A x \in Requests : pc[x] \in DbLabels)'
  BY DEF Goto

(* Each action of the database engine keeps DbInv. *)
LEMMA DbStep == ASSUME Backend = "db", TypeInv, DbInv, [Next]_vars PROVE DbInv'
  <1> USE DEF stores
  <1>t. /\ pc \in [Requests -> Labels]
        /\ \A r \in Requests : pc[r] \in DbLabels
        /\ ~UsesCache /\ UsesDb
    BY DEF TypeInv, TypeOK, DbInv, UsesCache, UsesDb
  <1>c. ASSUME NEW r \in Requests, NEW q, NEW cont, Create(r, q, cont)
        PROVE  (\A x \in Requests : pc[x] \in DbLabels)'
    BY <1>c, <1>t, DbSteps, DbGoto DEF Create, NoFreshKey
  <1>1. ASSUME NEW r \in Requests, NEW c \in Clients, Begin(r, c) PROVE DbInv'
    <2> DEFINE s == Step(IF jar[c] = NoKey THEN "run"
                         ELSE IF UsesCache THEN "loadCache" ELSE "loadDb",
                         Blank(c, jar[c]))
    <2>1. s.at \in DbLabels /\ Goto(r, s)
      BY <1>1, <1>t DEF Begin, DbLabels
    <2>2. (\A x \in Requests : pc[x] \in DbLabels)'
      BY <1>t, <2>1, DbGoto
    <2> QED
      BY <1>1, <2>2 DEF Begin, DbInv
  <1>2. ASSUME NEW r \in Requests,
               LoadCache(r) \/ Fill(r) \/ InsertCache(r) \/ DeleteCache(r)
                 \/ CheckInterrupted(r) \/ SaveCache(r)
        PROVE  DbInv'
    BY <1>2, <1>t DEF LoadCache, Fill, InsertCache, DeleteCache, CheckInterrupted,
                      SaveCache, DbLabels
  <1>3. ASSUME NEW r \in Requests, LoadDb(r) PROVE DbInv'
    <2>1. (\A x \in Requests : pc[x] \in DbLabels)'
      BY <1>3, <1>t, DbGoto DEF LoadDb, DbLabels
    <2> QED
      BY <1>3, <2>1 DEF LoadDb, DbInv
  <1>4. ASSUME NEW r \in Requests, Touch(r) PROVE DbInv'
    <2>1. (\A x \in Requests : pc[x] \in DbLabels)'
      BY <1>4, <1>t, DbGoto DEF Touch, DbLabels
    <2> QED
      BY <1>4, <2>1 DEF Touch, DbInv
  <1>5. ASSUME NEW r \in Requests, NEW u \in Users, Login(r, u) PROVE DbInv'
    <2>1. \A q : Step("run", q).at \in DbLabels
      BY DEF DbLabels
    <2>2. (\A x \in Requests : pc[x] \in DbLabels)'
      BY <1>5, <1>t, <1>c, <2>1, DbSteps, DbGoto DEF Login
    <2> QED
      BY <1>5, <2>2 DEF Login, DbInv
  <1>6. ASSUME NEW r \in Requests, CycleKey(r) PROVE DbInv'
    <2>1. (\A x \in Requests : pc[x] \in DbLabels)'
      BY <1>6, <1>c DEF CycleKey
    <2> QED
      BY <1>6, <2>1 DEF CycleKey, DbInv
  <1>7. ASSUME NEW r \in Requests, Flush(r) PROVE DbInv'
    <2>1. (\A x \in Requests : pc[x] \in DbLabels)'
      BY <1>7, <1>t, DbSteps, DbGoto DEF Flush
    <2> QED
      BY <1>7, <2>1 DEF Flush, DbInv
  <1>8. ASSUME NEW r \in Requests, InsertDb(r) PROVE DbInv'
    <2>1. (\A x \in Requests : pc[x] \in DbLabels)'
      BY <1>8, <1>t, DbSteps, DbGoto DEF InsertDb
    <2> QED
      BY <1>8, <2>1 DEF InsertDb, DbInv
  <1>9. ASSUME NEW r \in Requests, DeleteDb(r) PROVE DbInv'
    <2>1. (\A x \in Requests : pc[x] \in DbLabels)'
      BY <1>9, <1>t, DbSteps, DbGoto DEF DeleteDb
    <2>2. (revoked \subseteq deleted)'
      BY <1>9 DEF DeleteDb, DbInv, Live
    <2> QED
      BY <2>1, <2>2 DEF DbInv
  <1>10. ASSUME NEW r \in Requests, SaveDb(r) PROVE DbInv'
    <2>1. (\A x \in Requests : pc[x] \in DbLabels)'
      BY <1>10, <1>t, DbSteps, DbGoto DEF SaveDb
    <2> QED
      BY <1>10, <2>1 DEF SaveDb, DbInv
  <1>11. ASSUME NEW r \in Requests, NEW status \in {200, 500}, Respond(r, status) PROVE DbInv'
    <2>1. \A q : Step(IF UsesDb THEN "saveDb" ELSE CacheSave, q).at \in DbLabels
      BY <1>t DEF DbLabels
    <2>2. (\A x \in Requests : pc[x] \in DbLabels)'
      BY <1>11, <1>t, <1>c, <2>1, DbSteps, DbGoto DEF Respond
    <2> QED
      BY <1>11, <2>2 DEF Respond, DbInv
  <1>12. ASSUME NEW r \in Requests, Deliver(r) PROVE DbInv'
    <2>1. \A q : Step("idle", q).at \in DbLabels
      BY DEF DbLabels
    <2>2. (\A x \in Requests : pc[x] \in DbLabels)'
      BY <1>12, <1>t, <2>1, DbGoto DEF Deliver
    <2> QED
      BY <1>12, <2>2 DEF Deliver, DbInv
  <1>13. ASSUME NEW r \in Requests, Abort(r) PROVE DbInv'
    <2>1. (\A x \in Requests : pc[x] \in DbLabels)'
      BY <1>13, <1>t, DbSteps, DbGoto DEF Abort
    <2> QED
      BY <1>13, <2>1 DEF Abort, DbInv
  <1>14. ASSUME NEW k \in Keys, Evict(k) PROVE DbInv'
    BY <1>14 DEF Evict, DbInv
  <1>15. CASE UNCHANGED vars
    BY <1>15 DEF vars, DbInv
  <1> QED
    BY <1>1, <1>2, <1>3, <1>4, <1>5, <1>6, <1>7, <1>8, <1>9, <1>10, <1>11, <1>12,
       <1>13, <1>14, <1>15 DEF Next

(* So DbInv holds throughout. *)
LEMMA DbInductive == ASSUME Backend = "db" PROVE Spec => [](TypeInv /\ DbInv)
  <1>1. Init => DbInv
    BY DEF Init, DbInv, DbLabels
  <1>2. TypeInv /\ DbInv /\ [Next]_vars => (TypeInv /\ DbInv)'
    BY TypeStep, DbStep
  <1> QED
    BY TypeInit, <1>1, <1>2, PTL DEF Spec

(* Logout, database engine: a key whose deletion has returned never names  *)
(* a session again, whatever the requests that loaded it before still do.  *)
THEOREM RevokedForGood == ASSUME Backend = "db" PROVE Spec => []RevokedUnreadable
  <1>1. DbInv => RevokedUnreadable
    BY DEF DbInv, RevokedUnreadable, Served, View, UsesCache, Live
  <1> QED
    BY <1>1, DbInductive, PTL

(* The database engine implements SessionStore.                            *)
THEOREM DbImplementsStore == ASSUME Backend = "db" PROVE Spec => StoreSpec
  <1> DEFINE view == [k \in Keys |-> View(k)]
  <1>1. Init => Store!Init
    BY DEF Init, Store!Init, View, UsesCache, Live
  <1>2. ASSUME TypeInv, DbInv, [Next]_vars PROVE [Store!Next]_<<view, deleted>>
    <2>v. /\ \A k : View(k)  = IF row[k]  # Absent /\ k \notin deleted  THEN row[k]  ELSE Absent
          /\ \A k : View(k)' = IF row'[k] # Absent /\ k \notin deleted' THEN row'[k] ELSE Absent
      BY DEF View, UsesCache, UsesDb, Live
    <2>s. row' = row /\ deleted' = deleted => view' = view
      BY <2>v
    <2>w. ASSUME NEW k \in Keys, NEW d \in Data, row' = [row EXCEPT ![k] = d],
                 deleted' = deleted
          PROVE  [Store!Next]_<<view, deleted>>
      <3>1. CASE k \in deleted
        <4>1. \A j \in Keys : View(j)' = View(j)
          BY <1>2, <2>v, <2>w, <3>1 DEF TypeInv, TypeOK
        <4> QED
          BY <2>w, <4>1
      <3>2. CASE k \notin deleted
        <4>1. \A j \in Keys : View(j)' = IF j = k THEN d ELSE View(j)
          BY <1>2, <2>v, <2>w, <3>2, AbsentAssumption DEF TypeInv, TypeOK
        <4>2. view' = [view EXCEPT ![k] = d]
          BY <4>1
        <4>3. Store!Put(k, d)
          BY <2>w, <3>2, <4>2 DEF Store!Put
        <4> QED
          BY <4>3 DEF Store!Next
      <3> QED
        BY <3>1, <3>2
    <2>q. \A r \in Requests : req[r].data \in Data /\ IsStep(Step(pc[r], req[r]))
      BY <1>2 DEF TypeInv, TypeOK, ReqOK, Req
    <2>1. ASSUME NEW r \in Requests, InsertDb(r) \/ SaveDb(r)
          PROVE  [Store!Next]_<<view, deleted>>
      <3>1. req[r].key \in Keys
        BY <2>1, <2>q DEF InsertDb, SaveDb, IsStep, KeyLabels
      <3>2. /\ deleted' = deleted
            /\ row' = row \/ row' = [row EXCEPT ![req[r].key] = req[r].data]
        BY <2>1 DEF InsertDb, SaveDb
      <3> QED
        BY <2>q, <2>s, <2>w, <3>1, <3>2
    <2>2. ASSUME NEW r \in Requests, DeleteDb(r) PROVE [Store!Next]_<<view, deleted>>
      <3> DEFINE k == req[r].old
      <3>1. k \in Keys /\ row' = row
        BY <2>2, <2>q DEF DeleteDb, IsStep
      <3>2. CASE deleted' = deleted
        BY <2>s, <3>1, <3>2
      <3>3. CASE deleted' = deleted \cup {k}
        <4>1. \A j \in Keys : View(j)' = IF j = k THEN Absent ELSE View(j)
          BY <2>v, <3>1, <3>3
        <4>2. view' = [view EXCEPT ![k] = Absent]
          BY <4>1
        <4>3. Store!End(k)
          BY <3>3, <4>2 DEF Store!End
        <4> QED
          BY <3>1, <4>3 DEF Store!Next
      <3> QED
        BY <2>2, <3>2, <3>3 DEF DeleteDb
    <2>3. ASSUME NEW r \in Requests,
                 \/ \E c \in Clients : Begin(r, c)
                 \/ LoadCache(r) \/ LoadDb(r) \/ Fill(r) \/ Touch(r) \/ CycleKey(r)
                 \/ Flush(r) \/ InsertCache(r) \/ DeleteCache(r)
                 \/ \E u \in Users : Login(r, u)
                 \/ CheckInterrupted(r) \/ SaveCache(r)
                 \/ \E status \in {200, 500} : Respond(r, status)
                 \/ Deliver(r) \/ Abort(r)
          PROVE  [Store!Next]_<<view, deleted>>
      <3>1. row' = row /\ deleted' = deleted
        BY <2>3 DEF stores, Begin, LoadCache, LoadDb, Fill, CacheRaises, Touch, CycleKey,
                    Flush, InsertCache, DeleteCache, Login, CheckInterrupted, SaveCache,
                    Respond, Deliver, Abort
      <3> QED
        BY <2>s, <3>1
    <2>4. ASSUME NEW k \in Keys, Evict(k) PROVE [Store!Next]_<<view, deleted>>
      BY <2>4, <2>s DEF Evict
    <2>5. CASE UNCHANGED vars
      BY <2>5, <2>s DEF vars
    <2> QED
      BY <1>2, <2>1, <2>2, <2>3, <2>4, <2>5 DEF Next
  <1>3. Spec => [](TypeInv /\ DbInv)
    BY DbInductive
  <1> QED
    BY <1>1, <1>2, <1>3, PTL DEF Spec, StoreSpec, Store!Spec
-----------------------------------------------------------------------------
(* What is stored: the engines with a database, when it stores what it is  *)
(* given and no key is drawn for a session that the cache has lost.        *)

StoresAll == UsesDb /\ ~CreateFaults /\ (Interrupted = "cycle" => ~UsesCache)

(* No request keeps in the cache, or hands out, a key whose session is not *)
(* in the table; only a cache is asked whether it still has a session.     *)
StoredIn(table, s) ==
  /\ \/ s.at \in {"fill", "insertCache", "check", "saveCache"}
     \/ s.at = "reply" /\ s.q.answer = "set"
     => table[s.q.key] # Absent
  /\ s.at = "check" => UsesCache

StoredStep(s) == StoredIn(row, s)

StoredInv == /\ IssuedKeyStored
             /\ CacheBacked
             /\ \A r \in Requests : StoredStep(Step(pc[r], req[r]))

(* Steps that store nothing and hand out nothing. *)
LEMMA StoredSteps ==
  ASSUME StoresAll, NEW q, NEW k, NEW cont, NEW answer \in {"keep", "drop"}
  PROVE  /\ StoredStep(Failed(q)) /\ StoredStep(Answered(q, answer))
         /\ StoredStep(BeginCreate(q, k, cont)) /\ StoredStep(BeginDelete(q))
         /\ StoredStep(Deleted(q)) /\ StoredStep(Step("run", q))
         /\ StoredStep(Step("loadDb", q)) /\ StoredStep(Step("deleteCache", q))
  BY DEF Failed, Answered, BeginCreate, BeginDelete, Deleted, StoredStep, StoredIn, StoresAll, Blank

(* A step may be taken when it leaves rows in the table, has a row for     *)
(* what it puts in the cache, and leads to a step of the same kind.        *)
LEMMA StoredGoto ==
  ASSUME TypeInv, StoredInv, NEW r \in Requests, NEW s, Goto(r, s), jar' = jar,
         StoredIn(row', s),
         \A k \in Keys : row[k] # Absent => row'[k] # Absent,
         \A k \in Keys : cache'[k] # Absent => cache[k] # Absent \/ row'[k] # Absent
  PROVE  StoredInv'
  <1>1. pc \in [Requests -> Labels] /\ req \in [Requests -> Req] /\ jar \in [Clients -> Keys \cup {NoKey}]
    BY DEF TypeInv, TypeOK
  <1>2. IssuedKeyStored'
    <2>1. \A c \in Clients : jar[c] \notin StaleKeys \cup {NoKey} => jar[c] \in Keys
      BY <1>1
    <2> QED
      BY <2>1 DEF StoredInv, IssuedKeyStored
  <1>3. CacheBacked'
    BY DEF StoredInv, CacheBacked
  <1>4. ASSUME NEW x \in Requests PROVE StoredStep(Step(pc[x], req[x]))'
    <2>1. CASE x = r
      <3>1. pc'[r] = s.at /\ req'[r] = s.q
        BY <1>1 DEF Goto
      <3> QED
        BY <2>1, <3>1 DEF StoredStep, StoredIn
    <2>2. CASE x # r
      <3>1. pc'[x] = pc[x] /\ req'[x] = req[x]
        BY <1>1, <2>2 DEF Goto
      <3>2. StoredStep(Step(pc[x], req[x])) /\ IsStep(Step(pc[x], req[x]))
        BY DEF StoredInv, TypeInv, ReqOK
      <3>3. pc[x] \in {"fill", "insertCache", "check", "saveCache"} => req[x].key \in Keys
        BY <3>2 DEF IsStep, KeyLabels
      <3>4. pc[x] = "reply" /\ req[x].answer = "set" => req[x].key \in Keys
        BY <3>2 DEF IsStep
      <3> QED
        BY <3>1, <3>2, <3>3, <3>4 DEF StoredStep, StoredIn
    <2> QED
      BY <2>1, <2>2
  <1> QED
    BY <1>2, <1>3, <1>4 DEF StoredInv

(* Each action stores before it caches and before it hands out. *)
LEMMA StoredStepInv == ASSUME StoresAll, TypeInv, StoredInv, [Next]_vars PROVE StoredInv'
  <1> USE DEF stores
  <1>t. \A r \in Requests : /\ req[r] \in Req /\ req[r].data \in Data /\ req[r].data # Absent
                            /\ IsStep(Step(pc[r], req[r])) /\ StoredStep(Step(pc[r], req[r]))
    BY AbsentAssumption DEF TypeInv, TypeOK, ReqOK, StoredInv, Req
  <1>w. /\ row \in [Keys -> Data \cup {Absent}] /\ cache \in [Keys -> Data \cup {Absent}]
        /\ jar \in [Clients -> Keys \cup {NoKey}]
    BY DEF TypeInv, TypeOK
  <1>u. UsesDb /\ ~CreateFaults
    BY DEF StoresAll
  <1>g. ASSUME NEW r \in Requests, NEW s, Goto(r, s), StoredStep(s),
               row' = row, jar' = jar,
               \A k \in Keys : cache'[k] # Absent => cache[k] # Absent
        PROVE  StoredInv'
    <2>1. StoredIn(row', s)
      BY <1>g DEF StoredStep, StoredIn
    <2> QED
      BY <1>g, <2>1, StoredGoto
  <1>c. ASSUME NEW r \in Requests, NEW q, NEW cont, Create(r, q, cont),
               row' = row, jar' = jar, cache' = cache
        PROVE  StoredInv'
    BY <1>c, <1>g, StoredSteps DEF Create, NoFreshKey
  <1>1. ASSUME NEW r \in Requests, NEW c \in Clients, Begin(r, c) PROVE StoredInv'
    <2> DEFINE s == Step(IF jar[c] = NoKey THEN "run"
                         ELSE IF UsesCache THEN "loadCache" ELSE "loadDb",
                         Blank(c, jar[c]))
    <2>1. StoredStep(s) /\ Goto(r, s)
      BY <1>1 DEF Begin, StoredStep, StoredIn
    <2> HIDE DEF s
    <2> QED
      BY <1>1, <1>g, <2>1 DEF Begin
  <1>2. ASSUME NEW r \in Requests, LoadCache(r) PROVE StoredInv'
    BY <1>2, <1>u, <1>g, StoredSteps DEF LoadCache
  <1>3. ASSUME NEW r \in Requests, LoadDb(r) PROVE StoredInv'
    <2> DEFINE q == req[r]
    <2>1. Live(q.key) => StoredStep(Step(IF UsesCache THEN "fill" ELSE "run",
                                         [q EXCEPT !.data = row[q.key]]))
      BY <1>t DEF StoredStep, StoredIn, Live, Req
    <2> QED
      BY <1>3, <1>g, <2>1, StoredSteps DEF LoadDb
  <1>4. ASSUME NEW r \in Requests, Fill(r) PROVE StoredInv'
    <2>1. row[req[r].key] # Absent /\ req[r].key \in Keys
      BY <1>4, <1>t DEF Fill, StoredStep, StoredIn, IsStep, KeyLabels
    <2>2. CASE /\ cache' = [cache EXCEPT ![req[r].key] = req[r].data] /\ Goto(r, Step("run", req[r]))
               /\ UNCHANGED <<row, jar>>
      <3>1. StoredIn(row', Step("run", req[r]))
        BY DEF StoredStep, StoredIn
      <3> QED
        BY <1>w, <2>1, <2>2, <3>1, StoredGoto
    <2>3. CASE CacheRaises(r, Step("run", req[r]))
      BY <1>g, <2>3, StoredSteps DEF CacheRaises
    <2> QED
      BY <1>4, <2>2, <2>3 DEF Fill
  <1>5. ASSUME NEW r \in Requests, Touch(r) PROVE StoredInv'
    BY <1>5, <1>g, StoredSteps DEF Touch
  <1>6. ASSUME NEW r \in Requests, NEW u \in Users, Login(r, u) PROVE StoredInv'
    BY <1>6, <1>g, <1>c, StoredSteps DEF Login
  <1>7. ASSUME NEW r \in Requests, CycleKey(r) \/ Flush(r) PROVE StoredInv'
    BY <1>7, <1>g, <1>c, StoredSteps DEF CycleKey, Flush
  <1>s. ASSUME NEW q \in Req, row'[q.key] # Absent PROVE StoredIn(row', Created(q)) /\ StoredIn(row', Saved(q))
    <2>1. Saved(q).q.key = q.key /\ Saved(q).at = "reply"
      BY DEF Saved, Blank
    <2>2. StoredIn(row', Saved(q))
      BY <1>s, <2>1 DEF StoredStep, StoredIn
    <2>3. CASE Created(q) = Step(CacheSave, q) /\ Backend = "cached_db"
      BY <1>s, <2>2, <2>3 DEF StoredIn, UsesCache
    <2>4. StoredIn(row', Step("run", Return(SetUser(q)))) /\ StoredIn(row', BeginDelete(q))
      BY DEF StoredStep, StoredIn, BeginDelete
    <2> QED
      BY <2>2, <2>3, <2>4 DEF Created
  <1>8. ASSUME NEW r \in Requests, InsertDb(r) PROVE StoredInv'
    <2> DEFINE q == req[r]
               done == [q EXCEPT !.modified = TRUE]
    <2>1. q.key \in Keys
      BY <1>8, <1>t DEF InsertDb, IsStep, KeyLabels
    <2>2. done \in Req /\ done.key = q.key
      BY <1>t DEF Req
    <2>3. /\ row' = [row EXCEPT ![q.key] = q.data] /\ cache' = cache /\ jar' = jar
          /\ Goto(r, IF UsesCache THEN Step("insertCache", done) ELSE Created(done))
      BY <1>8, <1>u DEF InsertDb
    <2> HIDE DEF done, q
    <2>4. row'[q.key] # Absent /\ \A k \in Keys : row[k] # Absent => row'[k] # Absent
      BY <1>t, <1>w, <2>1, <2>3 DEF q
    <2>5. StoredIn(row', Created(done)) /\ StoredIn(row', Step("insertCache", done))
      BY <1>s, <2>2, <2>4 DEF StoredStep, StoredIn
    <2> QED
      BY <2>3, <2>4, <2>5, StoredGoto
  <1>9. ASSUME NEW r \in Requests, InsertCache(r) PROVE StoredInv'
    <2> DEFINE q == [req[r] EXCEPT !.modified = TRUE]
    <2>1. row[req[r].key] # Absent /\ req[r].key \in Keys
      BY <1>9, <1>t DEF InsertCache, StoredStep, StoredIn, IsStep, KeyLabels
    <2>2. q \in Req /\ q.key = req[r].key
      BY <1>t DEF Req
    <2>3. /\ row' = row /\ jar' = jar
          /\ Goto(r, Created(q)) \/ Goto(r, Failed(req[r]))
          /\ \A k \in Keys : cache'[k] # Absent => cache[k] # Absent \/ k = req[r].key
      BY <1>9, <1>w, <2>1 DEF InsertCache, CacheRaises
    <2> HIDE DEF q
    <2>4. StoredIn(row', Created(q)) /\ StoredIn(row', Failed(req[r]))
      BY <1>s, <2>1, <2>2, <2>3 DEF StoredIn, Failed, Answered, Blank
    <2> QED
      BY <2>1, <2>3, <2>4, StoredGoto
  <1>10. ASSUME NEW r \in Requests, DeleteDb(r) PROVE StoredInv'
    BY <1>10, <1>g, StoredSteps DEF DeleteDb
  <1>11. ASSUME NEW r \in Requests, DeleteCache(r) PROVE StoredInv'
    BY <1>11, <1>w, <1>g, StoredSteps DEF DeleteCache, CacheRaises
  <1>12. ASSUME NEW r \in Requests, SaveDb(r) PROVE StoredInv'
    <2> DEFINE q == req[r]
    <2>1. q.key \in Keys
      BY <1>12, <1>t DEF SaveDb, IsStep, KeyLabels
    <2>2. /\ row' = [row EXCEPT ![q.key] = q.data] /\ cache' = cache /\ jar' = jar
          /\ Goto(r, IF UsesCache THEN Step(CacheSave, q) ELSE Saved(q))
      BY <1>12 DEF SaveDb
    <2>3. q \in Req /\ row'[q.key] # Absent /\ \A k \in Keys : row[k] # Absent => row'[k] # Absent
      BY <1>t, <1>w, <2>1, <2>2
    <2> HIDE DEF q
    <2>4. StoredIn(row', Saved(q)) /\ (UsesCache => StoredIn(row', Step(CacheSave, q)))
      BY <1>s, <2>3 DEF StoredStep, StoredIn
    <2> QED
      BY <2>2, <2>3, <2>4, StoredGoto
  <1>13. ASSUME NEW r \in Requests, CheckInterrupted(r) PROVE StoredInv'
    <2> DEFINE q == req[r]
    <2>1. row[q.key] # Absent /\ UsesCache /\ q \in Req
      BY <1>13, <1>t DEF CheckInterrupted, StoredStep, StoredIn
    <2>2. Interrupted # "cycle"
      BY <2>1 DEF StoresAll
    <2>3. UNCHANGED <<row, cache, jar>>
      BY <1>13 DEF CheckInterrupted
    <2>4. StoredIn(row', Saved(q)) /\ StoredIn(row', Step("saveCache", q))
      BY <1>s, <2>1, <2>3 DEF StoredStep, StoredIn
    <2>5. Goto(r, Step("saveCache", q)) \/ Goto(r, Saved(q))
      BY <1>13, <1>u, <2>2 DEF CheckInterrupted
    <2> QED
      BY <2>3, <2>4, <2>5, StoredGoto
  <1>14. ASSUME NEW r \in Requests, SaveCache(r) PROVE StoredInv'
    <2> DEFINE q == req[r]
    <2>1. row[q.key] # Absent /\ q.key \in Keys /\ q \in Req
      BY <1>14, <1>t DEF SaveCache, StoredStep, StoredIn, IsStep, KeyLabels
    <2>2. /\ row' = row /\ jar' = jar
          /\ Goto(r, Saved(q)) \/ Goto(r, Failed(q))
          /\ \A k \in Keys : cache'[k] # Absent => cache[k] # Absent \/ k = q.key
      BY <1>14, <1>w, <2>1 DEF SaveCache, CacheRaises
    <2>3. StoredIn(row', Saved(q)) /\ StoredIn(row', Failed(q))
      BY <1>s, <2>1, <2>2 DEF StoredIn, Failed, Answered, Blank
    <2> QED
      BY <2>1, <2>2, <2>3, StoredGoto
  <1>15. ASSUME NEW r \in Requests, NEW status \in {200, 500}, Respond(r, status) PROVE StoredInv'
    <2>1. StoredStep(Step("saveDb", req[r]))
      BY DEF StoredStep, StoredIn
    <2>2. UNCHANGED <<row, cache, jar>>
      BY <1>15 DEF Respond
    <2>3. \/ \E answer \in {"keep", "drop"} : Goto(r, Answered(req[r], answer))
          \/ Create(r, req[r], "save")
          \/ Goto(r, Step("saveDb", req[r]))
      BY <1>15, <1>u DEF Respond
    <2>4. CASE Create(r, req[r], "save")
      BY <1>c, <2>2, <2>4
    <2>5. CASE Goto(r, Step("saveDb", req[r]))
      BY <1>g, <2>1, <2>2, <2>5
    <2>6. ASSUME NEW answer \in {"keep", "drop"}, Goto(r, Answered(req[r], answer)) PROVE StoredInv'
      <3>1. StoredStep(Answered(req[r], answer))
        BY DEF Answered, Blank, StoredStep, StoredIn
      <3> QED
        BY <1>g, <2>2, <2>6, <3>1
    <2> QED
      BY <2>3, <2>4, <2>5, <2>6
  <1>16. ASSUME NEW r \in Requests, Deliver(r) PROVE StoredInv'
    <2> DEFINE q == req[r]
    <2>1. q.answer \in {"keep", "drop", "set"} /\ (q.answer = "set" => row[q.key] # Absent)
      BY <1>16, <1>t DEF Deliver, StoredStep, StoredIn, Req
    <2>2. Goto(r, Step("idle", Blank(q.client, NoKey))) /\ row' = row /\ cache' = cache
      BY <1>16 DEF Deliver
    <2>3. /\ pc' = [pc EXCEPT ![r] = "idle"] /\ pc \in [Requests -> Labels]
          /\ \A x \in Requests \ {r} : req'[x] = req[x]
      BY <2>2 DEF Goto, TypeInv, TypeOK
    <2>4. \A x \in Requests : StoredStep(Step(pc[x], req[x]))'
      BY <1>t, <2>2, <2>3 DEF StoredStep, StoredIn
    <2>5. ASSUME NEW c \in Clients PROVE jar'[c] \notin StaleKeys \cup {NoKey} => row[jar'[c]] # Absent
      <3>1. jar'[c] \in {jar[c], NoKey} \/ (q.answer = "set" /\ jar'[c] = q.key)
        BY <1>16, <1>w, <2>1 DEF Deliver
      <3> QED
        BY <2>1, <3>1 DEF StoredInv, IssuedKeyStored
    <2> QED
      BY <2>2, <2>4, <2>5 DEF StoredInv, IssuedKeyStored, CacheBacked
  <1>17. ASSUME NEW r \in Requests, Abort(r) PROVE StoredInv'
    BY <1>17, <1>g, StoredSteps DEF Abort
  <1>18. ASSUME NEW k \in Keys, Evict(k) PROVE StoredInv'
    BY <1>18, <1>w DEF Evict, StoredInv, IssuedKeyStored, CacheBacked, StoredStep, StoredIn
  <1>19. CASE UNCHANGED vars
    BY <1>19 DEF vars, StoredInv, IssuedKeyStored, CacheBacked, StoredStep, StoredIn
  <1> QED
    BY <1>1, <1>2, <1>3, <1>4, <1>5, <1>6, <1>7, <1>8, <1>9, <1>10, <1>11, <1>12,
       <1>13, <1>14, <1>15, <1>16, <1>17, <1>18, <1>19 DEF Next

(* So what is cached and handed out is stored, throughout. *)
LEMMA StoredInductive == ASSUME StoresAll PROVE Spec => []StoredInv
  <1>1. Init => StoredInv
    BY DEF Init, StoredInv, IssuedKeyStored, CacheBacked, StoredStep, StoredIn
  <1>2. TypeInv /\ StoredInv /\ [Next]_vars => (TypeInv /\ StoredInv)'
    BY TypeStep, StoredStepInv
  <1> QED
    BY TypeInit, <1>1, <1>2, PTL DEF Spec

(* A cookie the service has set names a session of the table (save_session *)
(* answers after the row is written), with and without a cache in front.   *)
THEOREM IssuedIsStored == ASSUME StoresAll PROVE Spec => []IssuedKeyStored
  <1>1. StoredInv => IssuedKeyStored
    BY DEF StoredInv
  <1> QED
    BY <1>1, StoredInductive, PTL

(* The cache of a cached_db engine holds nothing the table does not know.  *)
THEOREM CacheIsBacked == ASSUME StoresAll PROVE Spec => []CacheBacked
  <1>1. StoredInv => CacheBacked
    BY DEF StoredInv
  <1> QED
    BY <1>1, StoredInductive, PTL

-----------------------------------------------------------------------------
(* Session fixation: every engine, with every fault. *)

(* The keys a browser may know; of these, the ones that were given without *)
(* a user, and the stale ones that nobody was given again.                 *)
Public == StaleKeys \cup handed
Open   == anon \cup (StaleKeys \ handed)

Calls == {"insertDb", "insertCache", "deleteDb", "deleteCache"}

(* login() waits for a call of cycle_key() or flush(), with no user in the *)
(* data yet; what flush() has cleared is deleted next.                     *)
Shape(s) ==
  /\ s.q.login # NoUser => /\ s.at \in Calls /\ s.q.cont \in {"cycle", "flush"}
                           /\ s.q.data.user = NoUser
  /\ s.q.cont = "flush" => s.at \in {"deleteDb", "deleteCache"} /\ s.q.data.user = NoUser
  /\ s.q.cont = "cycle" => s.at \in Calls

(* An open key only names a session without a user, now or after the call. *)
KeepsOpen(q) ==
  q.key \in Open => q.data.user = NoUser /\ (q.login # NoUser => q.cont = "flush")

(* A key that no browser knows was drawn by this request, which has stored *)
(* under it nothing but its own session, before or after the login.        *)
OwnUser(data, q) == data # Absent => data.user \in {NoUser, q.data.user}
KeepsOwn(table, store, s) ==
  s.q.key \in Keys \ Public =>
    /\ s.at \notin {"loadCache", "loadDb"}
    /\ s.q.cont # "flush" => OwnUser(table[s.q.key], s.q) /\ OwnUser(store[s.q.key], s.q)

NoUserIn(data) == data # Absent => data.user = NoUser

Known == /\ \A c \in Clients : jar[c] \in Public \cup {NoKey}
         /\ StaleKeys \subseteq minted /\ handed \subseteq minted /\ anon \subseteq handed
         /\ \A k \in Keys \ minted : row[k] = Absent /\ cache[k] = Absent
         /\ \A r \in Requests : req[r].key \in minted \cup {NoKey}

Alone == \A r, x \in Requests : r # x /\ req[r].key = req[x].key => req[r].key \in Public \cup {NoKey}

Works == \A r \in Requests : /\ Shape(Step(pc[r], req[r]))
                             /\ KeepsOpen(req[r])
                             /\ KeepsOwn(row, cache, Step(pc[r], req[r]))

OpenIsAnonymous == \A k \in Open : NoUserIn(row[k]) /\ NoUserIn(cache[k])

LoginInv == Known /\ Alone /\ Works /\ OpenIsAnonymous

(* Only the session of the request is written, under the key it has, and   *)
(* never while flush() is on its way.                                      *)
Writes(table, new, q) ==
  \A k \in Keys : \/ new[k] \in {table[k], Absent}
                  \/ k = q.key /\ new[k] = q.data /\ q.cont # "flush"

(* Where a step may lead: to no key, to a key from a cookie, or on with    *)
(* the key the request has.                                                *)
LeadsTo(q, s) ==
  \/ s.q.key = NoKey
  \/ s.q.key \in Public /\ KeepsOpen(s.q)
  \/ /\ s.q.key = q.key /\ s.at \notin {"loadCache", "loadDb"} /\ KeepsOpen(s.q)
     /\ s.q.data.user = q.data.user \/ q.data.user = NoUser \/ s.q.cont = "flush"
     /\ q.cont = "flush" => s.q.cont = "flush"

(* A step that writes and leads on in this way keeps the invariant, *)
LEMMA LoginGoto ==
  ASSUME TypeInv, LoginInv, NEW r \in Requests, NEW s, Goto(r, s),
         UNCHANGED <<jar, minted, handed, anon>>,
         Writes(row, row', req[r]), Writes(cache, cache', req[r]),
         Shape(s), LeadsTo(req[r], s)
  PROVE  LoginInv'
  <1>t. /\ pc \in [Requests -> Labels] /\ req \in [Requests -> Req]
        /\ \A x \in Requests : req[x].key \in Keys \cup {NoKey}
        /\ NoKey \notin Keys /\ minted \subseteq Keys /\ handed \subseteq Keys
    BY KeyAssumption DEF TypeInv, TypeOK, Req
  <1>i. Known /\ Alone /\ Works /\ OpenIsAnonymous
    BY DEF LoginInv
  <1>o. Open' = Open /\ Public' = Public
    BY DEF Open, Public
  <1>r. /\ pc'[r] = s.at /\ req'[r] = s.q
        /\ \A x \in Requests \ {r} : pc'[x] = pc[x] /\ req'[x] = req[x]
    BY <1>t DEF Goto
  <1>k. s.q.key \in Public \cup {NoKey, req[r].key} /\ Public \subseteq minted
    BY <1>i DEF LeadsTo, Known, Public
  <1>1. Known'
    <2>1. \A k \in Keys \ minted : k # req[r].key
      BY <1>i, <1>t DEF Known
    <2>2. \A k \in Keys \ minted : row'[k] = Absent /\ cache'[k] = Absent
      BY <1>i, <2>1 DEF Writes, Known
    <2>3. \A x \in Requests : req'[x].key \in minted \cup {NoKey}
      BY <1>i, <1>k, <1>r DEF Known
    <2> QED
      BY <1>i, <1>o, <2>2, <2>3 DEF Known
  <1>2. Alone'
    <2>1. ASSUME NEW x \in Requests \ {r}, s.q.key = req[x].key PROVE s.q.key \in Public \cup {NoKey}
      BY <1>i, <1>k, <2>1 DEF Alone
    <2> QED
      BY <1>i, <1>o, <1>r, <2>1 DEF Alone
  <1>3. ASSUME NEW x \in Requests
        PROVE  Shape(Step(pc'[x], req'[x])) /\ KeepsOpen(req'[x])
                 /\ KeepsOwn(row', cache', Step(pc'[x], req'[x]))
    <2>1. CASE x = r
      <3>1. KeepsOpen(s.q)
        BY <1>i, <1>t DEF LeadsTo, KeepsOpen, Open, Known
      <3>2. KeepsOwn(row', cache', s)
        <4> SUFFICES ASSUME s.q.key \in Keys \ Public PROVE KeepsOwn(row', cache', s)
          BY DEF KeepsOwn
        <4>1. /\ s.q.key = req[r].key /\ s.at \notin {"loadCache", "loadDb"}
              /\ s.q.data.user = req[r].data.user \/ req[r].data.user = NoUser \/ s.q.cont = "flush"
              /\ req[r].cont = "flush" => s.q.cont = "flush"
          BY <1>t DEF LeadsTo
        <4>2. KeepsOwn(row, cache, Step(pc[r], req[r]))
          BY <1>i DEF Works
        <4> QED
          BY <4>1, <4>2 DEF KeepsOwn, OwnUser, Writes
      <3> QED
        BY <1>r, <2>1, <3>1, <3>2 DEF Shape, KeepsOwn
    <2>2. CASE x # r
      <3>1. pc'[x] = pc[x] /\ req'[x] = req[x]
        BY <1>r, <2>2
      <3>2. req[x].key \in Keys \ Public => req[x].key # req[r].key
        BY <1>i, <1>t, <2>2 DEF Alone
      <3>3. KeepsOwn(row, cache, Step(pc[x], req[x]))
        BY <1>i DEF Works
      <3>4. KeepsOwn(row', cache', Step(pc[x], req[x]))
        BY <3>2, <3>3 DEF KeepsOwn, OwnUser, Writes
      <3> QED
        BY <1>i, <3>1, <3>4 DEF Works
    <2> QED
      BY <2>1, <2>2
  <1>4. Works'
    BY <1>3, <1>o DEF Works, KeepsOpen, KeepsOwn
  <1>5. OpenIsAnonymous'
    <2>1. Open \subseteq Keys
      BY <1>i, <1>t, KeyAssumption DEF Open, Known
    <2>2. KeepsOpen(req[r])
      BY <1>i DEF Works
    <2> QED
      BY <1>i, <1>o, <2>1, <2>2 DEF OpenIsAnonymous, NoUserIn, KeepsOpen, Writes
  <1> QED
    BY <1>1, <1>2, <1>4, <1>5 DEF LoginInv

(* so does drawing a key (gen_key), *)
LEMMA LoginDraw ==
  ASSUME TypeInv, LoginInv, NEW r \in Requests, NEW k \in Keys, NEW s, DrawKey(k), Goto(r, s),
         UNCHANGED <<row, cache, jar, handed, anon>>,
         s.q.key = k, Shape(s), s.at \notin {"loadCache", "loadDb"}
  PROVE  LoginInv'
  <1>t. /\ pc \in [Requests -> Labels] /\ req \in [Requests -> Req]
        /\ NoKey \notin Keys /\ minted \subseteq Keys
    BY KeyAssumption DEF TypeInv, TypeOK
  <1>i. Known /\ Alone /\ Works /\ OpenIsAnonymous
    BY DEF LoginInv
  <1>o. Open' = Open /\ Public' = Public /\ k \notin minted /\ minted' = minted \cup {k}
    BY DEF Open, Public, DrawKey
  <1>p. Public \subseteq minted /\ Open \subseteq minted
    BY <1>i DEF Known, Public, Open
  <1>r. /\ pc'[r] = s.at /\ req'[r] = s.q
        /\ \A x \in Requests \ {r} : pc'[x] = pc[x] /\ req'[x] = req[x]
    BY <1>t DEF Goto
  <1>1. Known'
    BY <1>i, <1>o, <1>r DEF Known
  <1>2. Alone'
    <2>1. \A x \in Requests \ {r} : req[x].key # k
      BY <1>i, <1>o, <1>t DEF Known
    <2> QED
      BY <1>i, <1>o, <1>r, <2>1 DEF Alone
  <1>3. ASSUME NEW x \in Requests
        PROVE  Shape(Step(pc'[x], req'[x])) /\ KeepsOpen(req'[x])
                 /\ KeepsOwn(row, cache, Step(pc'[x], req'[x]))
    <2>1. CASE x = r
      <3>1. KeepsOpen(s.q)
        BY <1>o, <1>p DEF KeepsOpen
      <3>2. row[k] = Absent /\ cache[k] = Absent
        BY <1>i, <1>o DEF Known
      <3> QED
        BY <1>r, <2>1, <3>1, <3>2 DEF Shape, KeepsOwn, OwnUser
    <2>2. CASE x # r
      BY <1>i, <1>r, <2>2 DEF Works
    <2> QED
      BY <2>1, <2>2
  <1>4. Works'
    BY <1>3, <1>o DEF Works, KeepsOpen, KeepsOwn
  <1>5. OpenIsAnonymous'
    BY <1>i, <1>o DEF OpenIsAnonymous
  <1> QED
    BY <1>1, <1>2, <1>4, <1>5 DEF LoginInv

(* and dropping what the request has (an exception, an answer). *)
LEMMA DropsKey ==
  ASSUME NEW q, NEW answer
  PROVE  /\ Shape(Answered(q, answer)) /\ Answered(q, answer).q.key = NoKey
         /\ Shape(Failed(q)) /\ Failed(q).q.key = NoKey
  BY DEF Answered, Failed, Blank, Shape

(* save() is over: the session as it is, and nothing under way. *)
LEMMA SavedLogin ==
  ASSUME NEW q
  PROVE  Shape(Saved(q)) /\ Saved(q).q.key = q.key /\ Saved(q).q.data = q.data
           /\ Saved(q).q.login = NoUser /\ Saved(q).q.cont = "none" /\ Saved(q).at = "reply"
  BY DEF Saved, Blank, Shape

(* SetUser puts the user in, if there is one to put in. *)
LEMMA SetUserLogin ==
  ASSUME NEW q \in Req
  PROVE  LET p == Return(SetUser(q)) IN
         /\ p.key = q.key /\ p.login = NoUser /\ p.cont = "none" /\ p \in Req
         /\ p.data.user = IF q.login = NoUser THEN q.data.user ELSE q.login
  <1>1. SetUser(q) \in Req /\ SetUser(q).key = q.key
    BY SetUserType
  <1>2. SetUser(q).login = NoUser
    BY DEF SetUser, Req
  <1>3. SetUser(q).data.user = IF q.login = NoUser THEN q.data.user ELSE q.login
    BY DEF SetUser, Req, Data
  <1> HIDE DEF SetUser
  <1> QED
    BY <1>1, <1>2, <1>3 DEF Return, Req

(* create() leads back to login() or on to the cache and the answer. *)
LEMMA CreatedLogin ==
  ASSUME NEW q \in Req, Shape(Step("insertDb", q)), KeepsOpen(q)
  PROVE  Shape(Created(q)) /\ LeadsTo(q, Created(q))
  <1>s. q.cont # "flush"
    BY DEF Shape
  <1>1. CASE q.cont = "save"
    <2>1. q.login = NoUser
      BY <1>1 DEF Shape
    <2>2. Shape(Step(CacheSave, q)) /\ LeadsTo(q, Step(CacheSave, q))
      BY <1>1, <2>1 DEF Shape, LeadsTo, CacheSave
    <2>3. Shape(Saved(q)) /\ LeadsTo(q, Saved(q))
      <3>1. /\ Shape(Saved(q)) /\ Saved(q).q.key = q.key /\ Saved(q).q.data = q.data
            /\ Saved(q).q.login = NoUser /\ Saved(q).q.cont = "none" /\ Saved(q).at = "reply"
        BY SavedLogin
      <3> QED
        BY <1>s, <3>1 DEF LeadsTo, KeepsOpen
    <2> QED
      BY <1>1, <2>2, <2>3 DEF Created
  <1>2. CASE q.cont # "save" /\ q.old = NoKey
    <2> DEFINE p == Return(SetUser(q))
    <2>1. /\ p.key = q.key /\ p.login = NoUser /\ p.cont = "none"
          /\ p.data.user = IF q.login = NoUser THEN q.data.user ELSE q.login
      BY SetUserLogin
    <2>2. Created(q) = Step("run", p)
      BY <1>2 DEF Created
    <2> HIDE DEF p
    <2>3. q.login # NoUser => q.key \notin Open /\ q.data.user = NoUser
      BY <1>s DEF KeepsOpen, Shape
    <2>4. KeepsOpen(p)
      BY <2>1, <2>3 DEF KeepsOpen
    <2> QED
      BY <1>s, <2>1, <2>2, <2>3, <2>4 DEF Shape, LeadsTo
  <1>3. CASE q.cont # "save" /\ q.old # NoKey
    <2>1. Created(q).q = q /\ Created(q).at \in {"deleteDb", "deleteCache"}
      BY <1>3 DEF Created, BeginDelete
    <2> QED
      BY <1>s, <2>1 DEF Shape, LeadsTo, Calls
  <1> QED
    BY <1>1, <1>2, <1>3

(* delete() leads back to the handler: after flush() without a key. *)
LEMMA DeletedLogin ==
  ASSUME NEW q \in Req, q.data.user = NoUser \/ q.login = NoUser, KeepsOpen(q)
  PROVE  Shape(Deleted(q)) /\ LeadsTo(q, Deleted(q))
  <1> DEFINE o == IF q.cont = "flush" THEN [q EXCEPT !.key = NoKey] ELSE q
             p == Return(SetUser(o))
  <1>1. /\ o \in Req /\ o.login = q.login /\ o.data = q.data
        /\ o.key = IF q.cont = "flush" THEN NoKey ELSE q.key
    BY DEF Req
  <1>2. Deleted(q) = Step("run", p)
    BY DEF Deleted
  <1> HIDE DEF o
  <1>3. /\ p.key = o.key /\ p.login = NoUser /\ p.cont = "none"
        /\ p.data.user = IF o.login = NoUser THEN o.data.user ELSE o.login
    BY <1>1, SetUserLogin
  <1> HIDE DEF p
  <1>4. Shape(Step("run", p))
    BY <1>3 DEF Shape
  <1>5. q.cont # "flush" /\ q.login # NoUser => q.key \notin Open /\ q.data.user = NoUser
    BY DEF KeepsOpen
  <1>6. LeadsTo(q, Step("run", p))
    BY <1>1, <1>3, <1>5 DEF LeadsTo, KeepsOpen
  <1> QED
    BY <1>2, <1>4, <1>6

(* Each action of each engine keeps the invariant. *)
LEMMA LoginStepInv == ASSUME CycleAtLogin, TypeInv, LoginInv, [Next]_vars PROVE LoginInv'
  <1> USE DEF stores
  <1>t. /\ \A r \in Requests : req[r] \in Req /\ req[r].key \in Keys \cup {NoKey}
                                 /\ req[r].data \in Data /\ IsStep(Step(pc[r], req[r]))
        /\ row \in [Keys -> Data \cup {Absent}] /\ cache \in [Keys -> Data \cup {Absent}]
        /\ jar \in [Clients -> Keys \cup {NoKey}] /\ minted \subseteq Keys
        /\ NoKey \notin Keys /\ NoUser \notin Users
    BY KeyAssumption, UserAssumption DEF TypeInv, TypeOK, ReqOK, Req
  <1>i. \A r \in Requests : /\ Shape(Step(pc[r], req[r])) /\ KeepsOpen(req[r])
                            /\ KeepsOwn(row, cache, Step(pc[r], req[r]))
    BY DEF LoginInv, Works
  <1>w. \A r \in Requests : Writes(row, row, req[r]) /\ Writes(cache, cache, req[r])
    BY DEF Writes
  <1>g. ASSUME NEW r \in Requests, NEW s, Goto(r, s), Shape(s), LeadsTo(req[r], s),
               UNCHANGED <<row, cache, jar, minted, handed, anon>>
        PROVE  LoginInv'
    BY <1>g, <1>w, LoginGoto
  <1>a. ASSUME NEW r \in Requests, NEW answer,
               Goto(r, Failed(req[r])) \/ Goto(r, Answered(req[r], answer)),
               UNCHANGED <<row, cache, jar, minted, handed, anon>>
        PROVE  LoginInv'
    <2>1. LeadsTo(req[r], Failed(req[r])) /\ LeadsTo(req[r], Answered(req[r], answer))
      BY DropsKey DEF LeadsTo
    <2> QED
      BY <1>a, <1>g, <2>1, DropsKey
  <1>c. ASSUME NEW r \in Requests, NEW q \in Req, NEW cont \in {"cycle", "save"}, Create(r, q, cont),
               q.login # NoUser => q.data.user = NoUser /\ cont = "cycle",
               UNCHANGED <<row, cache, jar, handed, anon>>
        PROVE  LoginInv'
    <2>1. CASE NoFreshKey(r)
      BY <1>a, <1>c, <2>1 DEF NoFreshKey
    <2>2. ASSUME NEW k \in Keys, DrawKey(k), Goto(r, BeginCreate(q, k, cont)) PROVE LoginInv'
      <3> DEFINE s == BeginCreate(q, k, cont)
      <3>1. /\ s.at \in {"insertDb", "insertCache"} /\ s.q.key = k /\ s.q.cont = cont
            /\ s.q.login = q.login /\ s.q.data = q.data
        BY DEF BeginCreate, Req
      <3> HIDE DEF s
      <3>2. Shape(s)
        BY <1>c, <3>1 DEF Shape, Calls
      <3> QED
        BY <1>c, <2>2, <3>1, <3>2, LoginDraw DEF s
    <2> QED
      BY <1>c, <2>1, <2>2 DEF Create
  <1>1. ASSUME NEW r \in Requests, NEW c \in Clients, Begin(r, c) PROVE LoginInv'
    <2> DEFINE s == Step(IF jar[c] = NoKey THEN "run"
                         ELSE IF UsesCache THEN "loadCache" ELSE "loadDb",
                         Blank(c, jar[c]))
    <2>1. Goto(r, s) /\ UNCHANGED <<row, cache, jar, minted, handed, anon>>
      BY <1>1 DEF Begin
    <2>2. s.q.key = jar[c] /\ s.q.data.user = NoUser /\ s.q.login = NoUser /\ s.q.cont = "none"
      BY DEF Blank, Empty
    <2> HIDE DEF s
    <2>3. jar[c] \in Public \cup {NoKey}
      BY DEF LoginInv, Known
    <2> QED
      BY <1>g, <2>1, <2>2, <2>3 DEF Shape, LeadsTo, KeepsOpen
  <1>n. \A r \in Requests : pc[r] \notin Calls => req[r].login = NoUser /\ req[r].cont \notin {"cycle", "flush"}
    BY <1>i DEF Shape, Calls
  <1>f. ASSUME NEW r \in Requests, pc[r] \notin Calls, NEW q,
               q.key \in {req[r].key, NoKey}, q.data.user = req[r].data.user,
               q.login = NoUser, q.cont = req[r].cont
        PROVE  \A at \in Labels \ {"loadCache", "loadDb"} :
                 Shape(Step(at, q)) /\ LeadsTo(req[r], Step(at, q))
    BY <1>f, <1>i, <1>n, <1>t DEF Shape, LeadsTo, KeepsOpen
  <1>2. ASSUME NEW r \in Requests, LoadCache(r) PROVE LoginInv'
    <2> DEFINE q == req[r]
    <2>1. q.key \in Keys /\ pc[r] = "loadCache" /\ q.login = NoUser /\ q.cont \notin {"cycle", "flush"}
      BY <1>2, <1>t, <1>n DEF LoadCache, IsStep, KeyLabels, Calls
    <2>2. q.key \in Public
      BY <1>i, <2>1 DEF KeepsOwn
    <2>3. Shape(Step("loadDb", q)) /\ LeadsTo(q, Step("loadDb", q))
      BY <1>i, <2>1, <2>2 DEF Shape, LeadsTo
    <2> DEFINE o == [q EXCEPT !.key = NoKey]
    <2>5. Shape(Step("run", o)) /\ LeadsTo(q, Step("run", o))
      <3>1. o.key = NoKey /\ o.data.user = q.data.user /\ o.login = NoUser /\ o.cont = q.cont
        BY <1>t, <2>1 DEF Req
      <3> HIDE DEF o
      <3> QED
        BY <1>f, <2>1, <3>1 DEF Labels, Calls
    <2>4. ASSUME cache[q.key] # Absent
          PROVE  LET p == [q EXCEPT !.data = cache[q.key]] IN
                   Shape(Step("run", p)) /\ LeadsTo(q, Step("run", p))
      <3> DEFINE p == [q EXCEPT !.data = cache[q.key]]
      <3>1. p.key = q.key /\ p.data = cache[q.key] /\ p.login = NoUser /\ p.cont = q.cont
        BY <1>t, <2>1 DEF Req
      <3> HIDE DEF p
      <3>2. KeepsOpen(p)
        BY <2>4, <3>1 DEF KeepsOpen, LoginInv, OpenIsAnonymous, NoUserIn
      <3>3. Shape(Step("run", p)) /\ LeadsTo(q, Step("run", p))
        BY <2>1, <2>2, <3>1, <3>2 DEF Shape, LeadsTo
      <3> QED
        BY <3>3 DEF p
    <2> QED
      BY <1>2, <1>g, <2>3, <2>4, <2>5 DEF LoadCache
  <1>3. ASSUME NEW r \in Requests, LoadDb(r) PROVE LoginInv'
    <2> DEFINE q == req[r]
    <2>1. q.key \in Keys /\ pc[r] = "loadDb" /\ q.login = NoUser /\ q.cont \notin {"cycle", "flush"}
      BY <1>3, <1>t, <1>n DEF LoadDb, IsStep, KeyLabels, Calls
    <2>2. q.key \in Public
      BY <1>i, <2>1 DEF KeepsOwn
    <2> DEFINE o == IF UsesCache THEN [q EXCEPT !.key = NoKey] ELSE q
    <2>3. Shape(Step("run", o)) /\ LeadsTo(q, Step("run", o))
      <3>1. /\ o.key \in {q.key, NoKey} /\ o.data.user = q.data.user
            /\ o.login = NoUser /\ o.cont = q.cont
        BY <1>t, <2>1 DEF Req
      <3> HIDE DEF o
      <3> QED
        BY <1>f, <2>1, <3>1 DEF Labels, Calls
    <2>4. ASSUME Live(q.key)
          PROVE  LET s == Step(IF UsesCache THEN "fill" ELSE "run", [q EXCEPT !.data = row[q.key]]) IN
                   Shape(s) /\ LeadsTo(q, s)
      <3> DEFINE p == [q EXCEPT !.data = row[q.key]]
      <3>1. p.key = q.key /\ p.data = row[q.key] /\ p.login = NoUser /\ p.cont = q.cont
        BY <1>t, <2>1 DEF Req
      <3> HIDE DEF p
      <3>2. KeepsOpen(p)
        BY <2>4, <3>1 DEF KeepsOpen, LoginInv, OpenIsAnonymous, NoUserIn, Live
      <3>3. \A at \in {"fill", "run"} : Shape(Step(at, p)) /\ LeadsTo(q, Step(at, p))
        BY <2>1, <2>2, <3>1, <3>2 DEF Shape, LeadsTo
      <3> QED
        BY <3>3 DEF p
    <2> QED
      BY <1>3, <1>g, <2>3, <2>4 DEF LoadDb
  <1>4. ASSUME NEW r \in Requests, Fill(r) PROVE LoginInv'
    <2> DEFINE s == Step("run", req[r])
    <2>1. pc[r] \notin Calls /\ req[r].key \in Keys /\ req[r].cont # "flush"
      BY <1>4, <1>t, <1>n DEF Fill, IsStep, KeyLabels, Calls
    <2>2. Shape(s) /\ LeadsTo(req[r], s)
      BY <1>f, <1>n, <2>1 DEF Labels
    <2>3. UNCHANGED <<row, jar, minted, handed, anon>> /\ Writes(cache, cache', req[r])
      BY <1>4, <1>t, <2>1 DEF Fill, CacheRaises, Writes
    <2>4. Goto(r, s) \/ (Goto(r, Failed(req[r])) /\ cache' = cache)
      BY <1>4 DEF Fill, CacheRaises
    <2> HIDE DEF s
    <2> QED
      BY <1>a, <1>w, <2>2, <2>3, <2>4, LoginGoto
  <1>5. ASSUME NEW r \in Requests, Touch(r) PROVE LoginInv'
    <2> DEFINE q == [req[r] EXCEPT !.data.writes = @ + 1, !.modified = TRUE]
    <2>1. /\ q.key = req[r].key /\ q.data.user = req[r].data.user
          /\ q.login = req[r].login /\ q.cont = req[r].cont
      BY <1>t DEF Req, Data
    <2>2. /\ pc[r] = "run" /\ Goto(r, Step("run", q))
          /\ UNCHANGED <<row, cache, jar, minted, handed, anon>>
      BY <1>5 DEF Touch
    <2> HIDE DEF q
    <2>3. Shape(Step("run", q)) /\ LeadsTo(req[r], Step("run", q))
      BY <1>f, <1>n, <2>1, <2>2 DEF Labels, Calls
    <2> QED
      BY <1>g, <2>2, <2>3
  <1>6. ASSUME NEW r \in Requests, NEW u \in Users \cup {NoUser}, NEW q \in Req, pc[r] = "run",
               q = [req[r] EXCEPT !.data = Empty, !.modified = TRUE, !.old = req[r].key,
                                  !.cont = "flush", !.login = u],
               Goto(r, IF q.key = NoKey THEN Deleted(q) ELSE BeginDelete(q)),
               UNCHANGED <<row, cache, jar, minted, handed, anon>>
        PROVE  LoginInv'
    <2>1. q.data.user = NoUser /\ q.cont = "flush" /\ q.key = req[r].key
      BY <1>6, <1>t DEF Req, Empty
    <2>2. KeepsOpen(q)
      BY <2>1 DEF KeepsOpen
    <2>3. CASE q.key = NoKey
      <3>1. Shape(Deleted(q)) /\ LeadsTo(q, Deleted(q))
        BY <2>1, <2>2, DeletedLogin
      <3>2. Deleted(q).q.key = NoKey
        <4>1. [q EXCEPT !.key = NoKey] \in Req /\ [q EXCEPT !.key = NoKey].key = NoKey
          BY DEF Req
        <4> QED
          BY <2>1, <4>1, SetUserLogin DEF Deleted
      <3>3. LeadsTo(req[r], Deleted(q))
        BY <3>2 DEF LeadsTo
      <3> QED
        BY <1>6, <1>g, <2>3, <3>1, <3>3
    <2>4. CASE q.key # NoKey
      <3>1. BeginDelete(q).q = q /\ BeginDelete(q).at \in {"deleteDb", "deleteCache"}
        BY DEF BeginDelete
      <3>2. Shape(BeginDelete(q)) /\ LeadsTo(req[r], BeginDelete(q))
        BY <2>1, <2>2, <3>1 DEF Shape, LeadsTo, Calls
      <3> QED
        BY <1>6, <1>g, <2>4, <3>2
    <2> QED
      BY <2>3, <2>4
  <1>7. ASSUME NEW r \in Requests, NEW u \in Users, Login(r, u) PROVE LoginInv'
    <2> DEFINE q == [req[r] EXCEPT !.login = u]
               cleared == [q EXCEPT !.data = Empty, !.modified = TRUE, !.old = q.key,
                                    !.cont = "flush"]
    <2>1. pc[r] = "run" /\ UNCHANGED <<row, cache, jar, handed, anon>>
      BY <1>7 DEF Login
    <2>2. q \in Req /\ q.login = u /\ q.key = req[r].key /\ q.data = req[r].data /\ q.cont = req[r].cont
      BY <1>t DEF Req
    <2>3. \/ q.data.user = NoUser /\ Create(r, q, "cycle")
          \/ q.data.user = u /\ Goto(r, Step("run", SetUser(q))) /\ minted' = minted
          \/ /\ Goto(r, IF q.key = NoKey THEN Deleted(cleared) ELSE BeginDelete(cleared))
             /\ minted' = minted
      BY <1>7, <2>2 DEF Login
    <2>4. CASE q.data.user = NoUser /\ Create(r, q, "cycle")
      BY <1>c, <2>1, <2>2, <2>4
    <2>5. CASE q.data.user = u /\ Goto(r, Step("run", SetUser(q))) /\ minted' = minted
      <3> DEFINE p == SetUser(q)
      <3>1. p.key = q.key /\ p.login = NoUser /\ p.cont = q.cont /\ p.data.user = u
        BY <1>t, <2>2, <2>5 DEF SetUser, Req, Data
      <3> HIDE DEF p, q
      <3>2. Shape(Step("run", p)) /\ LeadsTo(req[r], Step("run", p))
        BY <1>f, <2>1, <2>2, <2>5, <3>1 DEF Labels, Calls
      <3> QED
        BY <1>g, <2>1, <2>5, <3>2 DEF p
    <2>6. CASE /\ Goto(r, IF q.key = NoKey THEN Deleted(cleared) ELSE BeginDelete(cleared))
               /\ minted' = minted
      <3>1. /\ cleared = [req[r] EXCEPT !.data = Empty, !.modified = TRUE, !.old = req[r].key,
                                        !.cont = "flush", !.login = u]
            /\ cleared \in Req /\ cleared.key = q.key
        BY <1>t, EmptyType DEF Req
      <3> HIDE DEF cleared, q
      <3> QED
        BY <1>6, <2>1, <2>6, <3>1
    <2> HIDE DEF cleared, q
    <2> QED
      BY <2>3, <2>4, <2>5, <2>6
  <1>8. ASSUME NEW r \in Requests, CycleKey(r) PROVE LoginInv'
    <2>1. req[r].login = NoUser
      BY <1>8, <1>n DEF CycleKey, Calls
    <2> QED
      BY <1>8, <1>c, <1>t, <2>1 DEF CycleKey
  <1>9. ASSUME NEW r \in Requests, Flush(r) PROVE LoginInv'
    <2> DEFINE q == [req[r] EXCEPT !.data = Empty, !.modified = TRUE, !.old = req[r].key,
                                   !.cont = "flush"]
    <2>1. req[r].login = NoUser /\ pc[r] = "run"
      BY <1>9, <1>n DEF Flush, Calls
    <2>2. /\ q = [req[r] EXCEPT !.data = Empty, !.modified = TRUE, !.old = req[r].key,
                                !.cont = "flush", !.login = NoUser]
          /\ q \in Req
      BY ZenonT(60), <1>t, <2>1, EmptyType DEF Req
    <2>3. /\ Goto(r, IF q.key = NoKey THEN Deleted(q) ELSE BeginDelete(q))
          /\ UNCHANGED <<row, cache, jar, minted, handed, anon>>
      BY <1>9 DEF Flush
    <2> HIDE DEF q
    <2> QED
      BY <1>6, <2>1, <2>2, <2>3
  <1>10. ASSUME NEW r \in Requests, InsertDb(r) PROVE LoginInv'
    <2> DEFINE q == req[r]
               done == [q EXCEPT !.modified = TRUE]
    <2>1. pc[r] = "insertDb" /\ q.key \in Keys /\ q.cont # "flush"
      BY <1>10, <1>t, <1>i DEF InsertDb, IsStep, KeyLabels, Shape
    <2>2. /\ done \in Req /\ done.key = q.key /\ done.data = q.data /\ done.login = q.login
          /\ done.cont = q.cont
      BY <1>t DEF Req
    <2>3. /\ UNCHANGED <<cache, jar, minted, handed, anon>>
          /\ row' = row \/ row' = [row EXCEPT ![q.key] = q.data]
          /\ \/ Goto(r, Step("insertCache", done)) \/ Goto(r, Created(done)) \/ Goto(r, Created(q))
      BY <1>10 DEF InsertDb
    <2>4. Writes(row, row', q) /\ Writes(cache, cache', q)
      BY <1>t, <2>1, <2>3 DEF Writes
    <2>5. Shape(Step("insertDb", q)) /\ KeepsOpen(q) /\ q \in Req
      BY <1>i, <1>t, <2>1
    <2> HIDE DEF done, q
    <2>6. Shape(Created(q)) /\ LeadsTo(q, Created(q))
      BY <2>5, CreatedLogin
    <2>7. Shape(Step("insertDb", done)) /\ KeepsOpen(done)
      BY <2>2, <2>5 DEF Shape, KeepsOpen
    <2>8. Shape(Created(done)) /\ LeadsTo(q, Created(done))
      BY <2>2, <2>7, CreatedLogin DEF LeadsTo
    <2>9. Shape(Step("insertCache", done)) /\ LeadsTo(q, Step("insertCache", done))
      BY <2>2, <2>7 DEF Shape, LeadsTo, Calls
    <2> QED
      BY <2>3, <2>4, <2>6, <2>8, <2>9, LoginGoto DEF q
  <1>11. ASSUME NEW r \in Requests, InsertCache(r) PROVE LoginInv'
    <2> DEFINE q == req[r]
               done == [q EXCEPT !.modified = TRUE]
    <2>1. pc[r] = "insertCache" /\ q.key \in Keys /\ q.cont # "flush"
      BY <1>11, <1>t, <1>i DEF InsertCache, IsStep, KeyLabels, Shape
    <2>2. /\ done \in Req /\ done.key = q.key /\ done.data = q.data /\ done.login = q.login
          /\ done.cont = q.cont
      BY <1>t DEF Req
    <2>3. /\ UNCHANGED <<row, jar, minted, handed, anon>>
          /\ cache' = cache \/ cache' = [cache EXCEPT ![q.key] = IF @ = Absent THEN q.data ELSE @]
          /\ Goto(r, Created(done)) \/ Goto(r, Failed(q))
      BY <1>11 DEF InsertCache, CacheRaises
    <2>4. Writes(row, row', q) /\ Writes(cache, cache', q)
      BY <1>t, <2>1, <2>3 DEF Writes
    <2>5. Shape(Step("insertDb", done)) /\ KeepsOpen(done)
      BY <1>i, <2>1, <2>2 DEF Shape, KeepsOpen, Calls
    <2> HIDE DEF done, q
    <2>6. Shape(Created(done)) /\ LeadsTo(q, Created(done))
      BY <2>2, <2>5, CreatedLogin DEF LeadsTo
    <2>7. Shape(Failed(q)) /\ LeadsTo(q, Failed(q))
      BY DropsKey DEF LeadsTo
    <2> QED
      BY <2>3, <2>4, <2>6, <2>7, LoginGoto DEF q
  <1>d. ASSUME NEW r \in Requests, pc[r] \in {"deleteDb", "deleteCache"}
        PROVE  Shape(Deleted(req[r])) /\ LeadsTo(req[r], Deleted(req[r]))
    <2>1. req[r].data.user = NoUser \/ req[r].login = NoUser
      BY <1>i DEF Shape
    <2> QED
      BY <1>i, <1>t, <2>1, DeletedLogin
  <1>12. ASSUME NEW r \in Requests, DeleteDb(r) PROVE LoginInv'
    <2> DEFINE q == req[r]
    <2>1. pc[r] = "deleteDb" /\ UNCHANGED <<row, cache, jar, minted, handed, anon>>
      BY <1>12 DEF DeleteDb
    <2>2. Goto(r, Step("deleteCache", q)) \/ Goto(r, Deleted(q))
      BY <1>12 DEF DeleteDb
    <2>3. Shape(Step("deleteCache", q)) /\ LeadsTo(q, Step("deleteCache", q))
      BY <1>i, <2>1 DEF Shape, LeadsTo, Calls
    <2> QED
      BY <1>d, <1>g, <2>1, <2>2, <2>3
  <1>13. ASSUME NEW r \in Requests, DeleteCache(r) PROVE LoginInv'
    <2> DEFINE q == req[r]
    <2>1. pc[r] = "deleteCache" /\ UNCHANGED <<row, jar, minted, handed, anon>>
      BY <1>13 DEF DeleteCache, CacheRaises
    <2>2. Goto(r, Deleted(q)) \/ Goto(r, Failed(q))
      BY <1>13 DEF DeleteCache, CacheRaises
    <2>3. Writes(cache, cache', q)
      BY <1>13, <1>t DEF DeleteCache, CacheRaises, Writes
    <2>4. Shape(Failed(q)) /\ LeadsTo(q, Failed(q))
      BY DropsKey DEF LeadsTo
    <2> QED
      BY <1>d, <1>w, <2>1, <2>2, <2>3, <2>4, LoginGoto
  <1>v. ASSUME NEW r \in Requests, pc[r] \notin Calls
        PROVE  /\ Shape(Saved(req[r])) /\ LeadsTo(req[r], Saved(req[r]))
               /\ \A at \in {"saveDb", "saveCache", "check"} :
                    Shape(Step(at, req[r])) /\ LeadsTo(req[r], Step(at, req[r]))
               /\ CacheSave \in {"saveCache", "check"}
    <2>1. /\ Shape(Saved(req[r])) /\ Saved(req[r]).q.key = req[r].key
          /\ Saved(req[r]).q.data = req[r].data /\ Saved(req[r]).q.login = NoUser
          /\ Saved(req[r]).q.cont = "none" /\ Saved(req[r]).at = "reply"
      BY SavedLogin
    <2>2. LeadsTo(req[r], Saved(req[r]))
      BY <1>i, <1>n, <1>v, <2>1 DEF LeadsTo, KeepsOpen
    <2>3. {"saveDb", "saveCache", "check"} \subseteq Labels \ {"loadCache", "loadDb"}
      BY DEF Labels
    <2> QED
      BY <1>f, <1>n, <1>v, <2>1, <2>2, <2>3 DEF CacheSave
  <1>14. ASSUME NEW r \in Requests, SaveDb(r) PROVE LoginInv'
    <2> DEFINE q == req[r]
    <2>1. pc[r] \notin Calls /\ q.key \in Keys /\ q.cont # "flush"
      BY <1>14, <1>t, <1>n DEF SaveDb, IsStep, KeyLabels, Calls
    <2>2. /\ UNCHANGED <<cache, jar, minted, handed, anon>> /\ row' = [row EXCEPT ![q.key] = q.data]
          /\ Goto(r, Step(CacheSave, q)) \/ Goto(r, Saved(q))
      BY <1>14 DEF SaveDb
    <2>3. Writes(row, row', q)
      BY <1>t, <2>1, <2>2 DEF Writes
    <2> QED
      BY <1>v, <1>w, <2>1, <2>2, <2>3, LoginGoto
  <1>15. ASSUME NEW r \in Requests, CheckInterrupted(r) PROVE LoginInv'
    <2> DEFINE q == req[r]
    <2>1. pc[r] \notin Calls /\ UNCHANGED <<row, cache, jar, handed, anon>>
      BY <1>15 DEF CheckInterrupted, Calls
    <2>2. \/ /\ \/ Goto(r, Step("saveCache", q)) \/ Goto(r, Saved(q)) \/ Goto(r, Failed(q))
             /\ minted' = minted
          \/ \E k \in Keys : DrawKey(k) /\ Goto(r, Step("saveCache", [q EXCEPT !.key = k]))
      BY <1>15 DEF CheckInterrupted, NoFreshKey
    <2>3. CASE (Goto(r, Step("saveCache", q)) \/ Goto(r, Saved(q))) /\ minted' = minted
      BY <1>g, <1>v, <2>1, <2>3
    <2>4. CASE Goto(r, Failed(q)) /\ minted' = minted
      BY <1>a, <2>1, <2>4
    <2>5. ASSUME NEW k \in Keys, DrawKey(k), Goto(r, Step("saveCache", [q EXCEPT !.key = k]))
          PROVE  LoginInv'
      <3> DEFINE p == [q EXCEPT !.key = k]
      <3>1. p.key = k /\ p.login = NoUser /\ p.cont \notin {"cycle", "flush"}
        BY <1>n, <1>t, <2>1 DEF Req
      <3> HIDE DEF p
      <3>2. Shape(Step("saveCache", p))
        BY <3>1 DEF Shape
      <3> QED
        BY <2>1, <2>5, <3>1, <3>2, LoginDraw DEF p
    <2> QED
      BY <2>2, <2>3, <2>4, <2>5
  <1>16. ASSUME NEW r \in Requests, SaveCache(r) PROVE LoginInv'
    <2> DEFINE q == req[r]
    <2>1. pc[r] \notin Calls /\ q.key \in Keys /\ q.cont # "flush"
      BY <1>16, <1>t, <1>n DEF SaveCache, IsStep, KeyLabels, Calls
    <2>2. /\ UNCHANGED <<row, jar, minted, handed, anon>>
          /\ Goto(r, Saved(q)) \/ Goto(r, Failed(q))
      BY <1>16 DEF SaveCache, CacheRaises
    <2>3. Writes(cache, cache', q)
      BY <1>16, <1>t, <2>1 DEF SaveCache, CacheRaises, Writes
    <2>4. Shape(Failed(q)) /\ LeadsTo(q, Failed(q))
      BY DropsKey DEF LeadsTo
    <2> QED
      BY <1>v, <1>w, <2>1, <2>2, <2>3, <2>4, LoginGoto
  <1>17. ASSUME NEW r \in Requests, NEW status \in {200, 500}, Respond(r, status) PROVE LoginInv'
    <2> DEFINE q == req[r]
    <2>1. pc[r] \notin Calls /\ UNCHANGED <<row, cache, jar, handed, anon>>
      BY <1>17 DEF Respond, Calls
    <2>2. \/ \E answer \in {"drop", "keep"} : Goto(r, Answered(q, answer)) /\ minted' = minted
          \/ Create(r, q, "save")
          \/ /\ Goto(r, Step("saveDb", q)) \/ Goto(r, Step(CacheSave, q))
             /\ minted' = minted
      BY <1>17 DEF Respond
    <2>3. ASSUME NEW answer, Goto(r, Answered(q, answer)), minted' = minted PROVE LoginInv'
      BY <1>a, <2>1, <2>3
    <2>4. ASSUME Create(r, q, "save") PROVE LoginInv'
      <3>1. q \in Req /\ q.login = NoUser
        BY <1>n, <1>t, <2>1
      <3> QED
        BY <1>c, <2>1, <2>4, <3>1
    <2>5. ASSUME NEW at \in {"saveDb", "saveCache", "check"}, Goto(r, Step(at, q)), minted' = minted
          PROVE  LoginInv'
      <3>1. Shape(Step(at, q)) /\ LeadsTo(q, Step(at, q))
        BY <1>f, <1>n, <2>1 DEF Labels
      <3> QED
        BY <1>g, <2>1, <2>5, <3>1
    <2>6. CacheSave \in {"saveCache", "check"}
      BY DEF CacheSave
    <2> QED
      BY <2>2, <2>3, <2>4, <2>5, <2>6
  <1>18. ASSUME NEW r \in Requests, Abort(r) PROVE LoginInv'
    BY <1>18, <1>a DEF Abort
  <1>19. ASSUME NEW r \in Requests, Deliver(r) PROVE LoginInv'
    <2> DEFINE q == req[r]
               k == q.key
    <2>i. Known /\ Alone /\ Works /\ OpenIsAnonymous
      BY DEF LoginInv
    <2>1. /\ UNCHANGED <<row, cache, minted>> /\ Goto(r, Step("idle", Blank(q.client, NoKey)))
          /\ pc[r] = "reply" /\ q.answer \in {"keep", "drop", "set"} /\ q.client \in Clients
      BY <1>19, <1>t DEF Deliver, Req
    <2>2. /\ pc'[r] = "idle" /\ req'[r] = Blank(q.client, NoKey)
          /\ \A x \in Requests \ {r} : pc'[x] = pc[x] /\ req'[x] = req[x]
      BY <2>1 DEF Goto, TypeInv, TypeOK
    <2>3. CASE q.answer # "set"
      <3>1. UNCHANGED <<handed, anon>> /\ \A c \in Clients : jar'[c] \in {jar[c], NoKey}
        BY <1>19, <1>t, <2>1, <2>3 DEF Deliver
      <3>2. Open' = Open /\ Public' = Public
        BY <3>1 DEF Open, Public
      <3>3. Known' /\ Alone' /\ OpenIsAnonymous'
        BY <2>1, <2>2, <2>i, <3>1, <3>2 DEF Known, Alone, OpenIsAnonymous, Blank
      <3>4. Works'
        BY <1>t, <2>1, <2>2, <2>i, <3>2 DEF Works, Shape, KeepsOpen, KeepsOwn, Blank, Open, Known, Public
      <3> QED
        BY <3>3, <3>4 DEF LoginInv
    <2>4. CASE q.answer = "set"
      <3>1. k \in Keys /\ k \in minted
        BY <1>t, <2>1, <2>4, <2>i DEF IsStep, Known
      <3>2. /\ handed' = handed \cup {k}
            /\ anon' = IF q.data.user = NoUser /\ k \notin handed THEN anon \cup {k} ELSE anon
            /\ \A c \in Clients : jar'[c] \in {jar[c], k}
        BY <1>19, <1>t, <2>1, <2>4 DEF Deliver
      <3>3. Public' = Public \cup {k} /\ Open' \subseteq Open \cup {k}
        BY <3>2 DEF Public, Open
      <3>4. k \in Open' /\ k \notin Open => k \notin Public /\ q.data.user = NoUser
        BY <3>2, <2>i DEF Public, Open, Known
      <3>5. Known'
        BY <2>1, <2>2, <2>i, <3>1, <3>2, <3>3 DEF Known, Blank
      <3>6. Alone'
        BY <2>2, <2>i, <3>3 DEF Alone, Blank
      <3>7. k \in Open' /\ k \notin Open => \A x \in Requests \ {r} : req[x].key # k
        BY <1>t, <2>i, <3>1, <3>4 DEF Alone
      <3>8. ASSUME NEW x \in Requests
            PROVE  Shape(Step(pc[x], req[x]))' /\ KeepsOpen(req[x])' /\ KeepsOwn(row, cache, Step(pc[x], req[x]))'
        <4>1. CASE x = r
          <5>1. req'[x].key = NoKey /\ req'[x].login = NoUser /\ req'[x].cont = "none"
            BY <2>2, <4>1 DEF Blank
          <5>2. NoKey \notin Open' /\ NoKey \notin Keys
            BY <1>t, <2>i, <3>1, <3>3 DEF Open, Known, TypeInv, TypeOK
          <5> QED
            BY <5>1, <5>2 DEF Shape, KeepsOpen, KeepsOwn
        <4>2. CASE x # r
          <5>1. pc'[x] = pc[x] /\ req'[x] = req[x]
            BY <2>2, <4>2
          <5>2. KeepsOpen(req[x])'
            BY <1>i, <3>3, <3>7, <4>2, <5>1 DEF KeepsOpen
          <5> QED
            BY <1>i, <2>1, <3>3, <5>1, <5>2 DEF Shape, KeepsOwn, OwnUser
        <4> QED
          BY <4>1, <4>2
      <3>9. OpenIsAnonymous'
        <4>1. k \in Open' /\ k \notin Open => NoUserIn(row[k]) /\ NoUserIn(cache[k])
          <5>1. KeepsOwn(row, cache, Step(pc[r], q)) /\ q.cont # "flush"
            BY <1>i, <2>1 DEF Shape
          <5> QED
            BY <3>1, <3>4, <5>1 DEF KeepsOwn, OwnUser, NoUserIn
        <4> QED
          BY <2>1, <2>i, <3>3, <4>1 DEF OpenIsAnonymous
      <3>10. Works'
        BY <3>8 DEF Works
      <3> QED
        BY <3>5, <3>6, <3>9, <3>10 DEF LoginInv
    <2> QED
      BY <2>3, <2>4
  <1>20. ASSUME NEW k \in Keys, Evict(k) PROVE LoginInv'
    <2>1. \A j \in Keys : cache'[j] \in {cache[j], Absent}
      BY <1>20, <1>t DEF Evict
    <2>2. UNCHANGED <<row, jar, minted, pc, req, handed, anon>>
      BY <1>20 DEF Evict
    <2>3. Open' = Open /\ Public' = Public /\ Open \subseteq Keys
      BY <1>t, <2>2 DEF Open, Public, LoginInv, Known
    <2>4. Known' /\ Alone' /\ OpenIsAnonymous'
      BY <2>1, <2>2, <2>3 DEF LoginInv, Known, Alone, OpenIsAnonymous, NoUserIn
    <2>5. Works'
      BY <1>i, <2>1, <2>2, <2>3 DEF Works, KeepsOpen, KeepsOwn, OwnUser
    <2> QED
      BY <2>4, <2>5 DEF LoginInv
  <1>21. CASE UNCHANGED vars
    <2>1. UNCHANGED <<row, cache, jar, minted, pc, req, handed, anon>>
      BY <1>21 DEF vars
    <2>2. Open' = Open /\ Public' = Public
      BY <2>1 DEF Open, Public
    <2> QED
      BY <2>1, <2>2 DEF LoginInv, Known, Alone, Works, OpenIsAnonymous, KeepsOpen, KeepsOwn
  <1> QED
    BY <1>1, <1>2, <1>3, <1>4, <1>5, <1>7, <1>8, <1>9, <1>10, <1>11, <1>12, <1>13, <1>14,
       <1>15, <1>16, <1>17, <1>18, <1>19, <1>20, <1>21 DEF Next

(* The invariant holds in every reachable state. *)
LEMMA LoginInductive == ASSUME CycleAtLogin PROVE Spec => []LoginInv
  <1>1. Init => LoginInv
    <2> SUFFICES ASSUME Init PROVE LoginInv
      OBVIOUS
    <2>1. \A r \in Requests : /\ req[r].key = NoKey /\ req[r].login = NoUser /\ req[r].cont = "none"
                              /\ pc[r] = "idle"
      BY DEF Init, Blank
    <2>2. Known /\ Alone
      BY <2>1, KeyAssumption DEF Init, Known, Alone, Public
    <2>3. Works
      BY <2>1, KeyAssumption DEF Init, Works, Shape, KeepsOpen, KeepsOwn, Open
    <2>4. OpenIsAnonymous
      BY KeyAssumption DEF Init, OpenIsAnonymous, NoUserIn, Open
    <2> QED
      BY <2>2, <2>3, <2>4 DEF LoginInv
  <1>2. TypeInv /\ LoginInv /\ [Next]_vars => (TypeInv /\ LoginInv)'
    BY TypeStep, LoginStepInv
  <1> QED
    BY TypeInit, <1>1, <1>2, PTL DEF Spec

(* Session fixation (cycle_key_at_login): a key that was given before the  *)
(* login never names a session with a user in it, in the table or the      *)
(* cache, for every engine, policy and fault.                              *)
THEOREM NoFixation == ASSUME CycleAtLogin PROVE Spec => []AnonymousKeyStaysAnonymous
  <1>1. LoginInv => AnonymousKeyStaysAnonymous
    BY DEF LoginInv, OpenIsAnonymous, NoUserIn, Open, AnonymousKeyStaysAnonymous
  <1> QED
    BY <1>1, LoginInductive, PTL
=============================================================================
