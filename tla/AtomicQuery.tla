----------------------------- MODULE AtomicQuery -----------------------------
(***************************************************************************)
(* Asynchronous queries of concurrent requests, with and without           *)
(* @orm.Atomic (core/orm/plugins/atomic.py, core/orm/databases,            *)
(* backends/django/queryset.py and deletion.py).                           *)
(*                                                                         *)
(* A request runs one query on a tag whose name is unique, then writes a   *)
(* comment that refers to the tag, and returns or raises.  With SQLite     *)
(* and PostgreSQL (pure) a task has a connection of its own and a query    *)
(* is a series of statements.  With other databases every query runs by    *)
(* sync_to_async in one thread, thus on one connection of Django, and      *)
(* atomic blocks of all tasks nest there in the order they come.           *)
(*                                                                         *)
(* A tag has the id of the request that inserted it, and the name of the   *)
(* one that last wrote it.  Isolation is read committed; statements wait   *)
(* for uncommitted changes of the same row.                                *)
(***************************************************************************)
EXTENDS Naturals, Sequences, FiniteSets, SequencesExt

CONSTANTS Tasks,
          Old,       \* the request that made the tag of the beginning
          Main       \* the thread of sync_to_async

ASSUME TaskAssumption == Old \notin Tasks /\ Main \notin Tasks

Ids    == Tasks \cup {Old}
NoTag  == <<>>
Tag(id, name) == <<id, name>>
Tags   == {NoTag} \cup (Ids \X Ids)
NoRef  == <<"none">>
Refs   == Ids \cup {NoRef}
Same   == <<"same">>                       \* not written by this connection

\* The marks are of no request.
ASSUME MarkAssumption == Ids \cap {NoRef, Same} = {}

VARIABLES pure,    \* support_pure_async of the database
          tagRow,     \* the committed tag
          comment, \* [Tasks -> tag id of the committed comment of the request]
          work,    \* [connection -> uncommitted writes: tag and comment]
          points,  \* [connection -> what work was at each open savepoint]
          spoiled, \* [connection -> statements fail until a rollback]
          query,   \* [Tasks -> state of the request]
          met,   \* ghost: tasks whose atomic block met another task on its connection
          gone     \* ghost: a tag was deleted

databaseVars  == <<tagRow, comment, work, points, spoiled>>
queryVars == <<pure, tagRow, comment, work, points, spoiled, query, met, gone>>

Operations  == {"create", "get_or_create", "update_or_create", "delete"}
Connections == Tasks \cup {Main}
Untouched   == [tag |-> Same, comment |-> [t \in Tasks |-> Same]]

QueryInit ==
  /\ pure \in BOOLEAN
  /\ tagRow \in {NoTag, Tag(Old, Old)}
  /\ comment = [t \in Tasks |-> NoRef]
  /\ work = [c \in Connections |-> Untouched]
  /\ points = [c \in Connections |-> <<>>]
  /\ spoiled = [c \in Connections |-> FALSE]
  /\ \E op \in [Tasks -> Operations], atomic \in [Tasks -> BOOLEAN] :
       query = [t \in Tasks |-> [op |-> op[t], atomic |-> atomic[t], pc |-> "enter", blocks |-> <<>>,
                                 id |-> NoRef, children |-> {}, raised |-> FALSE, refused |-> FALSE]]
  /\ met = {} /\ gone = FALSE

-----------------------------------------------------------------------------
(* The database *)

Conn(t)  == IF pure THEN t ELSE Main
InTx(c)  == points[c] # <<>>
Over(new, old) == IF new = Same THEN old ELSE new

\* what the connection of t reads
SeenTag(t)        == Over(work[Conn(t)].tag, tagRow)
SeenComment(t, u) == Over(work[Conn(t)].comment[u], comment[u])
HasId(row, id)    == row # NoTag /\ row[1] = id

\* Another connection holds the row until it commits or rolls back.
TagHeld(t)        == \E c \in Connections \ {Conn(t)} : work[c].tag # Same
CommentHeld(t, u) == \E c \in Connections \ {Conn(t)} : work[c].comment[u] # Same

\* Make the writes w of connection c permanent.
MakeDurable(w) ==
  /\ tagRow' = Over(w.tag, tagRow)
  /\ comment' = [t \in Tasks |-> Over(w.comment[t], comment[t])]
  /\ gone' = (gone \/ (w.tag # Same /\ tagRow # NoTag /\ ~HasId(w.tag, tagRow[1])))

\* A statement writes: in a transaction to the connection, else at once.
Perform(t, w) ==
  IF InTx(Conn(t))
  THEN /\ work' = [work EXCEPT ![Conn(t)] = w]
       /\ UNCHANGED <<tagRow, comment, gone>>
  ELSE MakeDurable(w) /\ UNCHANGED work

Writing(t) == work[Conn(t)]

\* The comments of w that are new refer to a tag, and no tag that w removes is
\* referred to.  PostgreSQL and SQLite look when the transaction ends.
Referenced(w) ==
  LET row == Over(w.tag, tagRow) IN
  \A u \in Tasks : LET ref == Over(w.comment[u], comment[u]) IN 
    ref # NoRef /\ (w.comment[u] # Same \/ w.tag # Same) => HasId(row, ref)

\* A new comment waits for who is deleting its tag.
AwaitsParent(t) ==
  /\ \E u \in Tasks : work[Conn(t)].comment[u] \in Ids
  /\ TagHeld(t)

-----------------------------------------------------------------------------
(* Blocks: Transaction of encode/databases, Atomic of Django *)

Stands(t, pc)   == query[t].pc = pc
Goto(t, pc) == query' = [query EXCEPT ![t].pc = pc]
Inside      == {t \in Tasks : query[t].blocks # <<>>}

\* Others that share the connection of t while a block is open on it.
Meet(t, in) ==
  met' = IF ~pure /\ in \ {t} # {} THEN met \cup in \cup {t} ELSE met

\* mutant: a block in a block sets no savepoint
OpenOuter(c) == points' = [points EXCEPT ![c] = Append(@, IF InTx(c) THEN <<>> ELSE <<work[c]>>)]

\* start(): BEGIN, or a savepoint in a transaction that is open.
OpenBlock(c) == points' = [points EXCEPT ![c] = Append(@, IF spoiled[c] THEN <<>> ELSE <<work[c]>>)]

\* rollback(), and Django's Atomic where there is no savepoint to go back to
Rollback(c) ==
  /\ points' = [points EXCEPT ![c] = Front(@)]
  /\ work' = [work EXCEPT ![c] = IF Len(points[c]) = 1 THEN Untouched
                                 ELSE IF Last(points[c]) = <<>> THEN @ ELSE Last(points[c])[1]]
  /\ spoiled' = [spoiled EXCEPT ![c] = Len(points[c]) > 1 /\ Last(points[c]) = <<>>]
  /\ UNCHANGED <<tagRow, comment, gone>>

\* commit() of a block in a block
Release(c) ==
  /\ points' = [points EXCEPT ![c] = Front(@)]
  /\ UNCHANGED <<tagRow, comment, gone, work, spoiled>>

\* commit() of the outermost block
Commit(c) ==
  /\ points' = [points EXCEPT ![c] = <<>>]
  /\ work' = [work EXCEPT ![c] = Untouched]
  /\ MakeDurable(work[c])
  /\ UNCHANGED spoiled

\* mutant: an exception is not looked at
ExitCommits(t, raised, raises) ==
  /\ raises = raised 
  /\ IF Len(points[Conn(t)]) = 1 THEN Commit(Conn(t)) ELSE Release(Conn(t))

\* __aexit__: what it does, and whether it raises.
Exit(t, raised, raises) ==
  LET c == Conn(t)
      outer == Len(points[c]) = 1
  IN \/ raised /\ Rollback(c) /\ raises
     \/ ~raised /\ ~outer /\ ~spoiled[c] /\ Release(c) /\ ~raises
     \/ ~raised /\ outer /\ ~spoiled[c] /\ ~AwaitsParent(t) /\ Referenced(work[c]) /\ Commit(c) /\ ~raises
     \/ ~raised /\ outer /\ ~spoiled[c] /\ ~AwaitsParent(t) /\ ~Referenced(work[c]) /\ Rollback(c) /\ raises
     \/ ~raised /\ spoiled[c] /\ Rollback(c) /\ raises = pure

-----------------------------------------------------------------------------
(* The request *)

\* where a query begins, and what is left to do after it
First(op) == CASE op = "create" -> "insert" [] op = "delete" -> "collect"
               [] op = "update_or_create" -> "guard" [] OTHER -> "get"

EnterBlock(t, kind, pc) ==
  /\ OpenBlock(Conn(t))
  /\ query' = [query EXCEPT ![t].blocks = Append(@, kind), ![t].pc = pc]
  /\ UNCHANGED <<pure, tagRow, comment, work, spoiled, gone>>

\* The endpoint is called, in the block of its Atomic plugin if it has one.
Enter(t) ==
  /\ Stands(t, "enter")
  /\ IF query[t].atomic 
     THEN EnterBlock(t, "endpoint", First(query[t].op)) /\ Meet(t, Inside)
     ELSE Goto(t, First(query[t].op)) /\ UNCHANGED <<pure, databaseVars, met, gone>>

Return(t) == IF query[t].atomic THEN "leave" ELSE "done"

\* An exception: the innermost block is left, or the request is over.
Raised(t, integrity) ==
  query' = [query EXCEPT ![t].raised = TRUE, ![t].refused = integrity,
                         ![t].pc = IF query[t].blocks = <<>> THEN "done" ELSE "leave"]

\* Statements of an asynchronous task on a connection that is spoiled
Broken(t) ==
  /\ query[t].pc \in {"get", "insert", "again", "guard", "collect", "comment"}
  /\ spoiled[Conn(t)]
  /\ Raised(t, FALSE) /\ Meet(t, Inside)
  /\ UNCHANGED <<pure, databaseVars, gone>>

Ready(t, pc) == Stands(t, pc) /\ ~spoiled[Conn(t)]

\* A statement is refused: the rest of the transaction is, too.
Refuse(t) ==
  /\ spoiled' = [spoiled EXCEPT ![Conn(t)] = InTx(Conn(t))]
  /\ Raised(t, TRUE) 
  /\ UNCHANGED <<pure, tagRow, comment, work, points, gone>>

\* aupdate_or_create: a transaction around aget_or_create and the update
Guard(t) ==
  /\ Ready(t, "guard") /\ pure
  /\ EnterBlock(t, "update_or_create", "get") /\ UNCHANGED met

\* The object was there: to update, or to be used.
Got(t) == query' = [query EXCEPT ![t].id = SeenTag(t)[1], ![t].raised = FALSE, ![t].refused = FALSE,
                                 ![t].pc = IF query[t].op = "update_or_create" THEN "update" ELSE "comment"]

\* aget, and the transaction in which aget_or_create inserts
GetTag(t) ==
  /\ Ready(t, "get") /\ pure
  /\ UNCHANGED met
  /\ IF SeenTag(t) # NoTag 
     THEN Got(t) /\ UNCHANGED <<pure, databaseVars, gone>>
     ELSE EnterBlock(t, "get_or_create", "insert")

\* acreate -> _insert_obj -> _async_insert; the name of tags is unique.
InsertTag(t) ==
  /\ Ready(t, "insert") /\ pure /\ ~TagHeld(t)
  /\ UNCHANGED met
  /\ \/ SeenTag(t) # NoTag /\ Refuse(t)
     \/ /\ SeenTag(t) = NoTag
        /\ Perform(t, [Writing(t) EXCEPT !.tag = Tag(t, t)])
        /\ query' = [query EXCEPT ![t].id = t,
                       ![t].pc = IF query[t].op = "create" THEN "comment" ELSE "leave"]
        /\ UNCHANGED <<pure, points, spoiled>>

\* The other request that inserted is done: its tag is used.
Again(t) ==
  /\ Ready(t, "again")
  /\ UNCHANGED <<pure, databaseVars, gone, met>>
  /\ IF SeenTag(t) # NoTag THEN Got(t) ELSE Raised(t, TRUE)

\* aupdate by primary key, which may be of no row any more
Update(t) ==
  /\ Ready(t, "update") /\ pure /\ ~TagHeld(t)
  /\ IF HasId(SeenTag(t), query[t].id)
     THEN Perform(t, [Writing(t) EXCEPT !.tag = Tag(query[t].id, t)])
     ELSE UNCHANGED <<tagRow, comment, work, gone>>
  /\ Goto(t, "leave")
  /\ UNCHANGED <<pure, points, spoiled, met>>

\* adelete: acollect finds the objects and what refers to them before the transaction
\* (comments have relations of their own, and so are not deleted by the reference).
Collect(t) ==
  /\ Ready(t, "collect") /\ pure
  /\ query' = IF SeenTag(t) = NoTag THEN [query EXCEPT ![t].pc = Return(t)]
              ELSE [query EXCEPT ![t].pc = "start", ![t].id = SeenTag(t)[1],
                      ![t].children = {u \in Tasks : SeenComment(t, u) = SeenTag(t)[1]}]
  /\ UNCHANGED <<pure, databaseVars, gone, met>>

\* async_delete
StartDelete(t) == Stands(t, "start") /\ EnterBlock(t, "delete", "children") /\ UNCHANGED met

DeleteChildren(t) ==
  /\ Ready(t, "children") /\ \A u \in query[t].children : ~CommentHeld(t, u)
  /\ Perform(t, [Writing(t) EXCEPT !.comment = [u \in Tasks |->
        IF u \in query[t].children /\ SeenComment(t, u) # NoRef THEN NoRef ELSE @[u]]])
  /\ Goto(t, "row")
  /\ UNCHANGED <<pure, points, spoiled, met>>

DeleteRow(t) ==
  /\ Ready(t, "row") /\ ~TagHeld(t)
  /\ IF HasId(SeenTag(t), query[t].id)
     THEN Perform(t, [Writing(t) EXCEPT !.tag = NoTag])
     ELSE UNCHANGED <<tagRow, comment, work, gone>>
  /\ Goto(t, "leave")
  /\ UNCHANGED <<pure, points, spoiled, met>>

\* The same query by sync_to_async: all of it in one piece, in the thread of all.
InThread(t) ==
  LET c == Conn(t) 
      row == SeenTag(t)
      op == query[t].op
      id == IF row = NoTag THEN t ELSE row[1]
      w == CASE op = "delete" -> [tag |-> NoTag, comment |-> [u \in Tasks |-> NoRef]]
             [] op = "get_or_create" /\ row # NoTag -> work[c]
             [] OTHER -> [work[c] EXCEPT !.tag = Tag(id, t)]
  IN /\ ~pure /\ (Ready(t, "insert") \/ Ready(t, "get") \/ Ready(t, "guard") \/ Ready(t, "collect"))
     /\ Meet(t, Inside)
     /\ \/ /\ op = "create" /\ row # NoTag
           /\ Refuse(t)
        \/ /\ ~(op = "create" /\ row # NoTag)
           /\ Perform(t, w)
           /\ query' = [query EXCEPT ![t].id = id,
                          ![t].pc = IF op # "delete" THEN "comment" ELSE Return(t)]
           /\ UNCHANGED <<pure, points, spoiled>>

\* The endpoint goes on with a comment on the tag; then it returns or raises.
Comment(t) ==
  LET w == [Writing(t) EXCEPT !.comment[t] = query[t].id]
      checked == pure /\ InTx(Conn(t))        \* the reference is looked at when it ends
  IN /\ Ready(t, "comment") /\ Meet(t, Inside)
     /\ checked \/ ~TagHeld(t)
     /\ \/ ~checked /\ ~HasId(SeenTag(t), query[t].id) /\ Refuse(t)
        \/ /\ checked \/ HasId(SeenTag(t), query[t].id)
           /\ Perform(t, w)
           /\ \E raised \in BOOLEAN :
                query' = [query EXCEPT ![t].raised = raised, ![t].pc = Return(t)]
           /\ UNCHANGED <<pure, points, spoiled>>

-----------------------------------------------------------------------------
(* Leaving a block *)

\* What follows a block that was left, with or without an exception.
After(q, kind, raised) ==
  [q EXCEPT !.raised = raised, !.blocks = Front(q.blocks),
            !.pc = CASE kind = "get_or_create" /\ raised /\ q.refused -> "again"
                     [] q.op = "update_or_create" /\ kind = "get_or_create" /\ ~raised -> "leave"
                     [] kind = q.op /\ kind # "delete" /\ ~raised -> "comment"
                     [] OTHER -> IF Len(q.blocks) = 1 THEN "done" ELSE "leave"]

LeaveBlock(t) ==
  LET kind == Last(query[t].blocks) IN
  /\ Stands(t, "leave")
  /\ \E raises \in BOOLEAN :
       /\ Exit(t, query[t].raised, raises)
       /\ query' = [query EXCEPT ![t] = After(query[t], kind, raises)]
  /\ Meet(t, Inside)
  /\ UNCHANGED pure

QueryStep(t) ==
  \/ Enter(t) \/ Broken(t) \/ Guard(t) \/ GetTag(t) \/ InsertTag(t) \/ Again(t) \/ Update(t)
  \/ Collect(t) \/ StartDelete(t) \/ DeleteChildren(t) \/ DeleteRow(t) \/ InThread(t) \/ Comment(t)
  \/ LeaveBlock(t)

QueriesEnded == (\A t \in Tasks : Stands(t, "done")) /\ UNCHANGED queryVars

QueryNext == (\E t \in Tasks : QueryStep(t)) \/ QueriesEnded

QuerySpec == QueryInit /\ [][QueryNext]_queryVars

-----------------------------------------------------------------------------
QueryTypeOK ==
  /\ pure \in BOOLEAN /\ gone \in BOOLEAN /\ tagRow \in Tags
  /\ comment \in [Tasks -> Refs] /\ met \subseteq Tasks
  /\ work \in [Connections -> [tag: Tags \cup {Same}, comment: [Tasks -> Refs \cup {Same}]]]
  /\ \A c \in Connections : InTx(c) \/ (work[c] = Untouched /\ ~spoiled[c])
  /\ \A t \in Tasks : /\ query[t].id \in Refs /\ query[t].children \subseteq Tasks
                      /\ query[t].op \in Operations

Ends(t)   == ~Stands(t, "done") /\ query'[t].pc = "done"
Inserts(t) == query[t].id = t

\* An endpoint under Atomic whose block no other task's queries get into leaves
\* all it wrote if it returns and nothing if it raises, whatever other requests
\* commit in between and wherever a statement is refused.
AllOrNothing ==
  [][\A t \in Tasks : Ends(t) /\ query[t].atomic /\ t \notin met' =>
       IF query'[t].raised
       THEN /\ UNCHANGED <<tagRow, comment>> /\ comment[t] = NoRef
            /\ tagRow = NoTag \/ t \notin {tagRow[1], tagRow[2]}
       ELSE IF query[t].op = "delete" 
       THEN ~HasId(tagRow', query[t].id) /\ \A u \in Tasks : comment'[u] = NoRef \/ comment'[u] # query[t].id
       ELSE /\ comment'[t] = query[t].id /\ HasId(tagRow', query[t].id)
            /\ query[t].op = "update_or_create" => tagRow'[2] = t]_queryVars

\* The sentence of docs/en/guide/schema-query.md:1230: overall success, or overall
\* failure with no effects.
NoEffects ==
  [][\A t \in Tasks : Ends(t) /\ query[t].atomic =>
       IF query'[t].raised THEN comment'[t] = NoRef
       ELSE query[t].op # "delete" => comment'[t] = query[t].id]_queryVars

\* get_or_create and update_or_create answer however many requests create the tag at
\* the same time: they raise only when a tag they were refused for was deleted.
QueryAnswers ==
  \A t \in Tasks \ met :
    /\ Stands(t, "done") /\ query[t].raised /\ query[t].id = NoRef
    /\ query[t].op \in {"get_or_create", "update_or_create"}
    => gone
=============================================================================
