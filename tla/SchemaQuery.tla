----------------------------- MODULE SchemaQuery -----------------------------
(***************************************************************************)
(* Querying a schema with its relations (core/orm/compiler.py,             *)
(* backends/django/compiler.py get_values and query_isolated_field).       *)
(*                                                                         *)
(* One compiler fetches a set of objects of one class, then asks for each  *)
(* relation field which objects are related, and has another compiler      *)
(* fetch those that are not known yet.  A compiler is named by its path,   *)
(* the fields that led to it.  What is known is kept per class in          *)
(* recursion maps; a compiler hands a copy of its maps to the next one,    *)
(* but the map of a class in it is the same object for both.  A field is   *)
(* queried after the one before, or all of them at once as tasks.          *)
(***************************************************************************)
EXTENDS Naturals, Sequences, FiniteSets, SequencesExt

CONSTANTS Schemas,      \* class of each object, and of each field the classes it
                        \* leads from and to, its relation, whether it is a key
          Root,         \* the object that is asked for
          MaxFailures,  \* bound: queries that raise
          MaxDeleted    \* bound: objects that are deleted meanwhile

ASSUME SchemaQueryAssumption ==
  /\ MaxFailures \in Nat /\ MaxDeleted \in Nat
  /\ \A s \in Schemas : Root \in DOMAIN s.class

VARIABLES schema,    \* one of Schemas
          mode,      \* gather_async_fields, fail_silently, force_raise_error
          node,      \* [path -> the compiler]
          known,     \* recursion maps: [path that made it -> [object -> path that fetched it]]
          deleted,   \* objects that are no longer in the database
          failures   \* how many queries failed

schemaVars == <<schema, mode, node, known, deleted, failures>>

RelationFields  == DOMAIN schema.from               \* 1..n, in the order of the class
DbObjects == DOMAIN schema.class
Classes == {schema.class[o] : o \in DbObjects}
NoMap   == <<0>>
Nothing == [x \in {} |-> {}]

\* get_related_context: a compiler about to fetch the objects asked for
Compiler(class, asked, maps) ==
  [class |-> class, asked |-> asked, maps |-> maps, stage |-> "fetch", val |-> Nothing,
   field |-> [f \in RelationFields |-> "wait"], pk_map |-> [f \in RelationFields |-> Nothing],
   found |-> [f \in RelationFields |-> Nothing]]

FetchInit ==
  /\ schema \in Schemas
  /\ mode \in [gather: {"none", "top", "all"}, silent: SUBSET RelationFields, force: BOOLEAN]
  /\ node = [p \in {<<>>} |-> Compiler(schema.class[Root], {Root}, [c \in Classes |-> NoMap])]
  /\ known = Nothing
  /\ deleted = {} /\ failures = 0

-----------------------------------------------------------------------------
Own(p)        == {f \in RelationFields : schema.from[f] = node[p].class}
Rows(p)       == DOMAIN node[p].val
Settled(p, f) == node[p].field[f] \in {"set", "failed"}
Finished(p)   == node[p].stage = "fields" /\ \A f \in Own(p) : Settled(p, f)

\* the setting of the query reaches its first compiler only
Gathers(p) == mode.gather = "all" \/ (mode.gather = "top" /\ p = <<>>)

CanRun(p, f) ==
  /\ node[p].stage = "fields" /\ f \in Own(p) /\ node[p].field[f] = "wait"
  /\ Gathers(p) \/ \A g \in Own(p) : g < f => Settled(p, g)

\* _resolve_recursion: the map of the class, which other fields hold too, learns
\* the objects; the first compiler of the class starts one.
Entered(k, p, fetched) ==
  LET m == node[p].maps[node[p].class] IN
  IF m = NoMap THEN k @@ (p :> [o \in fetched |-> p])
  ELSE [k EXCEPT ![m] = [o \in fetched |-> p] @@ @]

\* get_values: the fields of the objects themselves
Fetch(p) ==
  LET fetched == node[p].asked \ deleted
      m == node[p].maps[node[p].class] IN
  /\ node[p].stage = "fetch"
  /\ IF fetched = {} 
     THEN node' = [node EXCEPT ![p].stage = "fields", ![p].field = [f \in RelationFields |-> "set"]] /\ UNCHANGED known
     ELSE /\ known' = Entered(known, p, fetched)
          /\ node' = [node EXCEPT ![p].stage = "fields",
                        ![p].val = [o \in fetched |-> Nothing],
                        ![p].maps[node[p].class] = IF m = NoMap THEN p ELSE m]
  /\ UNCHANGED <<schema, mode, deleted, failures>>

\* An instance as it is converted now: with the relations that are set by now.
Instance(o, q) == [pk |-> o, rel |-> node[q].val[o]]

\* What the query for a relation returns: what is in the database by now.  A key
\* was read with the object.
RelatedNow(p, f) ==
  [o \in Rows(p) |-> IF f \in schema.included THEN schema.rel[f][o] 
                     ELSE IF o \in deleted THEN <<>> 
                     ELSE SelectSeq(schema.rel[f][o], LAMBDA r : r \notin deleted)]

Related(pk_map) == UNION {ToSet(pk_map[o]) : o \in DOMAIN pk_map}

\* get_recursion_objects
Found(p, f, pks) ==
  LET m == node[p].maps[schema.to[f]] IN
  IF m = NoMap THEN Nothing
  ELSE [o \in pks \cap DOMAIN known[m] |-> Instance(o, known[m][o])]

\* mutant: the objects are listed in the order they were fetched
InsertUnordered(vals, f, pk_map, objects) ==
  [o \in DOMAIN vals |-> (f :> [i \in DOMAIN SetToSeq(ToSet(pk_map[o]) \cap DOMAIN objects) |->
       objects[SetToSeq(ToSet(pk_map[o]) \cap DOMAIN objects)[i]]]) @@ vals[o]]

\* "insert values": for each object its related ones, in the order of the relation
InsertValues(vals, f, pk_map, objects) ==
  LET listed(o) == SelectSeq(pk_map[o], LAMBDA r : r \in DOMAIN objects) IN
  [o \in DOMAIN vals |-> (f :> [i \in DOMAIN listed(o) |-> objects[listed(o)[i]]]) @@ vals[o]]

\* The answer to which objects are related: those known are taken as they are, the
\* others are fetched by a compiler with a copy of the maps.
Ask(p, f) ==
  LET pk_map == RelatedNow(p, f)
      taken == Found(p, f, Related(pk_map))
      unknown == Related(pk_map) \ DOMAIN taken IN
  /\ CanRun(p, f)
  /\ node' = IF unknown = {}
             THEN [node EXCEPT ![p].field[f] = "set", ![p].found[f] = taken, ![p].val = InsertValues(@, f, pk_map, taken)]
             ELSE [node EXCEPT ![p].field[f] = "child", ![p].pk_map[f] = pk_map, ![p].found[f] = taken]
                  @@ (Append(p, f) :> Compiler(schema.to[f], unknown, node[p].maps))
  /\ UNCHANGED <<schema, mode, known, deleted, failures>>

\* The compiler of the field is done: its objects are converted and inserted.
Receive(p, f) ==
  LET q == Append(p, f) IN
  /\ node[p].stage = "fields" /\ node[p].field[f] = "child" /\ Finished(q)
  /\ node' = [node EXCEPT ![p].field[f] = "set", ![q].stage = "closed",
                ![p].val = InsertValues(@, f, node[p].pk_map[f], [o \in Rows(q) |-> Instance(o, q)] @@ node[p].found[f])]
  /\ UNCHANGED <<schema, mode, known, deleted, failures>>

\* handle_isolated_field: a warning, or the query raises and its tasks are cancelled.
Handle(p, f) ==
  node' = IF f \in mode.silent /\ ~mode.force THEN [node EXCEPT ![p].field[f] = "failed"]
          ELSE [q \in DOMAIN node |->
                  IF q = p THEN [node[p] EXCEPT !.stage = "raised"]
                  ELSE IF IsStrictPrefix(p, q) /\ node[q].stage # "closed" THEN [node[q] EXCEPT !.stage = "cancelled"]
                  ELSE node[q]]

\* The query for the relation fails; a key needs none.
AskFails(p, f) ==
  /\ CanRun(p, f) /\ f \notin schema.included /\ failures < MaxFailures
  /\ failures' = failures + 1
  /\ Handle(p, f)
  /\ UNCHANGED <<schema, mode, known, deleted>>

ReceiveFailure(p, f) ==
  /\ node[p].stage = "fields" /\ node[p].field[f] = "child" /\ node[Append(p, f)].stage = "raised"
  /\ Handle(p, f)
  /\ UNCHANGED <<schema, mode, known, deleted, failures>>

\* The query for the objects fails.
FetchFails(p) ==
  /\ node[p].stage = "fetch" /\ failures < MaxFailures
  /\ failures' = failures + 1
  /\ node' = [node EXCEPT ![p].stage = "raised"]
  /\ UNCHANGED <<schema, mode, known, deleted>>

Delete(o) ==
  /\ Cardinality(deleted) < MaxDeleted
  /\ deleted' = deleted \cup {o}
  /\ UNCHANGED <<schema, mode, node, known, failures>>

Answered == Finished(<<>>) \/ node[<<>>].stage = "raised"

FetchNext ==
  \/ /\ ~Answered
     /\ \/ \E p \in DOMAIN node :
             \/ Fetch(p) \/ FetchFails(p)
             \/ \E f \in RelationFields : Ask(p, f) \/ AskFails(p, f)
             \/ \E f \in RelationFields : Receive(p, f) \/ ReceiveFailure(p, f)
        \/ \E o \in DbObjects \ deleted : Delete(o)
  \/ Answered /\ UNCHANGED schemaVars

FetchSpec == FetchInit /\ [][FetchNext]_schemaVars

-----------------------------------------------------------------------------
Stages == {"fetch", "fields", "closed", "raised", "cancelled"}

FetchTypeOK ==
  /\ deleted \subseteq DbObjects /\ failures \in 0..MaxFailures
  /\ \A p \in DOMAIN node :
       /\ node[p].stage \in Stages /\ node[p].asked \subseteq DbObjects /\ Rows(p) \subseteq node[p].asked
       /\ node[p].field \in [RelationFields -> {"wait", "child", "set", "failed"}]
       /\ \A c \in Classes : node[p].maps[c] \in {NoMap} \cup DOMAIN known

Of(list) == [i \in DOMAIN list |-> list[i].pk]

\* A relation that was set lists what is related, in the order of the relation, whether
\* it was known, fetched now or fetched by a task at the same time; only what was
\* deleted meanwhile is missing.
RelationsComplete ==
  \A p \in DOMAIN node : \A f \in Own(p), o \in Rows(p) \ deleted :
    node[p].field[f] = "set" =>
      LET listed == Of(node[p].val[o][f]) IN
      /\ listed = SelectSeq(schema.rel[f][o], LAMBDA r : r \in ToSet(listed))
      /\ ToSet(schema.rel[f][o]) \ deleted \subseteq ToSet(listed)

\* However the objects refer to each other, the query comes to an end: no compiler fetches
\* an object that one on its path did fetch, and one after the other they fetch
\* an object once for each map.
RecursionEnds ==
  \A p, q \in DOMAIN node :
    /\ p # q /\ Rows(p) \cap Rows(q) # {} /\ node[p].maps[node[p].class] = node[q].maps[node[p].class]
    => ~IsPrefix(p, q) /\ mode.gather # "none"

\* Nested objects are complete although maps cut the recursion, and the recursion is cut.
RelationsFetched == RelationsComplete /\ RecursionEnds

\* The comment of core/orm/compiler.py:201: fields do not share a recursion map.  What a
\* field takes as known was fetched on the way to it.
FieldsIsolated ==
  \A p \in DOMAIN node : \A f \in Own(p) :
    \A o \in DOMAIN node[p].found[f] : \E q \in DOMAIN node : IsPrefix(q, p) /\ o \in Rows(q)
=============================================================================
