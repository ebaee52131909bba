---------------------------- MODULE MCFramework ----------------------------
(* What serves one request of an API or reads one answer: the call through *)
(* the APIs, querying and saving schemas, atomic blocks, the cache with    *)
(* limits, event streams, HTTP caching.  They are independent; a behaviour *)
(* looks at one of them.                                                   *)
EXTENDS KeyCache, EventStream, HttpCache, ApiCall, RelationSave, AtomicQuery, SchemaQuery

CONSTANTS client1, client2, key1, key2, key3, list1, task1, task2

VARIABLE part

\* Clients and keys are alike, and so no liveness is checked with this module.
MCSymmetry == Permutations({client1, client2}) \cup Permutations({key1, key2, key3})
MCEndings  == {<<CR>>, <<LF>>, <<CR, LF>>}
MCPlugged  == SUBSET (1..Depth + 1)
MCOptions  == {m \in Modes : ~(m.must_create /\ m.must_update) /\ (~m.async => m.aborts)}
MCSettings == [dated: BOOLEAN, tagged: BOOLEAN, etag: BOOLEAN, last_modified: BOOLEAN]

\* who follows whom, both ways
Users(followers, followings) ==
  [ class |-> [o \in DOMAIN followers |-> "user"], from |-> <<"user", "user">>, to |-> <<"user", "user">>,
    included |-> {}, rel |-> <<followers, followings>> ]
\* posts of users, and the key of the author
Posts(followers, posts, author) ==
  [ class |-> [o \in DOMAIN followers \cup DOMAIN author |-> IF o \in DOMAIN author THEN "post" ELSE "user"],
    from |-> <<"user", "user", "post">>, to |-> <<"user", "post", "user">>, included |-> {3},
    rel |-> <<followers, posts, author>> ]
Unrelated == Users("u1" :> <<>>, "u1" :> <<>>)

MCSchemas ==
  { Unrelated } \cup
  { Users("u1" :> <<"u3">> @@ "u2" :> <<"u1">> @@ "u3" :> <<"u2">>, "u1" :> <<"u2">> @@ "u2" :> <<>> @@ "u3" :> <<>>),
    Users("u1" :> <<"u2", "u3">> @@ "u2" :> <<"u3">> @@ "u3" :> <<>>, "u1" :> <<>> @@ "u2" :> <<"u1">> @@ "u3" :> <<"u2", "u1">>),
    Users("u1" :> <<"u1", "u2">> @@ "u2" :> <<"u1">> @@ "u3" :> <<>>, "u1" :> <<"u2", "u1">> @@ "u2" :> <<"u1">> @@ "u3" :> <<>>),
    Posts("u1" :> <<"u2">> @@ "u2" :> <<"u1">>, "u1" :> <<"p1">> @@ "u2" :> <<"p2">>, "p1" :> <<"u1">> @@ "p2" :> <<"u2">>) }

frameworkVars == <<part, cacheVars, streamVars, visitVars, callVars, saveVars, queryVars, schemaVars>>

FrameworkInit ==
  /\ part \in {"cache", "stream", "visit", "call", "save", "atomic", "schema"}
  /\ CacheInit  /\ (part # "cache" => policy = "LFU")
  /\ StreamInit /\ (part # "stream" => ending = <<LF>>)
  /\ VisitInit  /\ (part # "visit" => setting = [dated |-> FALSE, tagged |-> FALSE,
                                                 etag |-> TRUE, last_modified |-> TRUE])
  /\ CallInit   /\ (part # "call" => plugged = {} /\ own = {} /\ options)
  /\ SaveInit   /\ (part # "save" => /\ ~opt.pk /\ opt.async /\ ~opt.aborts /\ opt.transaction
                                     /\ opt.ignore_errors /\ opt.must_create)
  /\ QueryInit  /\ (part # "atomic" => pure /\ tagRow = NoTag /\ \A t \in Tasks : query[t].atomic /\ query[t].op = "create")
  /\ FetchInit  /\ (part # "schema" => schema = Unrelated /\ mode = [gather |-> "none", silent |-> {}, force |-> FALSE])

FrameworkNext ==
  /\ UNCHANGED part
  /\ \/ part = "cache"  /\ CacheNext  /\ UNCHANGED <<streamVars, visitVars, callVars, saveVars, queryVars, schemaVars>>
     \/ part = "stream" /\ StreamNext /\ UNCHANGED <<cacheVars, visitVars, callVars, saveVars, queryVars, schemaVars>>
     \/ part = "visit"  /\ VisitNext  /\ UNCHANGED <<cacheVars, streamVars, callVars, saveVars, queryVars, schemaVars>>
     \/ part = "call"   /\ CallNext   /\ UNCHANGED <<cacheVars, streamVars, visitVars, saveVars, queryVars, schemaVars>>
     \/ part = "save"   /\ SaveNext   /\ UNCHANGED <<cacheVars, streamVars, visitVars, callVars, queryVars, schemaVars>>
     \/ part = "atomic" /\ QueryNext  /\ UNCHANGED <<cacheVars, streamVars, visitVars, callVars, saveVars, schemaVars>>
     \/ part = "schema" /\ FetchNext  /\ UNCHANGED <<cacheVars, streamVars, visitVars, callVars, saveVars, queryVars>>

FrameworkSpec == FrameworkInit /\ [][FrameworkNext]_frameworkVars
=============================================================================
