---------------------------- MODULE RelationSave ----------------------------
(***************************************************************************)
(* Saving a schema with its relations                                      *)
(* (core/orm/backends/django/compiler.py, core/orm/schema.py).             *)
(*                                                                         *)
(* save_data and its asynchronous twin write the row of the schema, then   *)
(* the keys of a many-to-many relation, then the objects of a one-to-many  *)
(* relation, each in statements of their own; they delete what is no       *)
(* longer given.  A statement may fail, an error of a relation may be      *)
(* ignored, a transaction may enclose all of it.                           *)
(*                                                                         *)
(* The database is external.  A failed statement breaks the transaction    *)
(* around it (Django's needs_rollback, PostgreSQL's aborted state): what   *)
(* follows fails too, and leaving the block undoes it without an error.    *)
(* SQLite undoes the statement only.  With a transaction nobody else's     *)
(* writes are seen.                                                        *)
(***************************************************************************)
EXTENDS Naturals, FiniteSets

CONSTANTS Objects,     \* rows of the one-to-many relation
          NewObjects,  \* those that have no primary key yet
          RelKeys,     \* rows at the far side of the many-to-many relation
          SaveOptions  \* the calls to consider

Modes == [async: BOOLEAN, transaction: BOOLEAN, ignore_errors: BOOLEAN, must_create: BOOLEAN,
          must_update: BOOLEAN, pk: BOOLEAN, aborts: BOOLEAN]

\* aborts: a failed statement breaks the transaction; Django's own connections all do
ASSUME SaveAssumption ==
  /\ NewObjects \subseteq Objects /\ {"keys", "prune"} \cap Objects = {}
  /\ SaveOptions \subseteq {m \in Modes : /\ ~(m.must_create /\ m.must_update)
                                          /\ ~m.async => m.aborts}

VARIABLES opt,      \* the arguments of the call; must_create may be turned on
          db,       \* what the tables hold
          before,   \* the tables when the call began
          broken,   \* the transaction can only be rolled back
          step,     \* what the call does next
          todo,     \* objects that bulk_save has not reached
          found,    \* keys whose through row was found
          failed,   \* objects and steps whose error was ignored
          meddled   \* somebody else wrote between two statements

saveVars == <<opt, db, before, broken, step, todo, found, failed, meddled>>

Ended == {"saved", "raised"}

\* the schema gives all objects but one and all keys but one, if there are several
Given == CHOOSE S \in SUBSET Objects : /\ NewObjects \subseteq S
                                       /\ Cardinality(S) = Cardinality(Objects) - 1
GivenKeys == CHOOSE S \in SUBSET RelKeys : Cardinality(S) = Cardinality(RelKeys) - 1

\* row: of the schema's model; base: of the parent model it inherits from
\* owner: whom a row of the relation refers to; links: the through rows
Tables ==
  [row: {"none", "old", "new"}, base: BOOLEAN,
   owner: [Objects -> {"none", "this", "other"}], links: SUBSET RelKeys]

SaveInit ==
  /\ opt \in SaveOptions
  /\ db \in {t \in Tables :
       /\ t.row # "new"
       /\ t.row = "old" => t.base
       /\ ~opt.pk => t.row = "none" /\ ~t.base
       /\ t.row = "none" => t.links = {} /\ \A o \in Objects : t.owner[o] # "this"
       /\ \A o \in Objects : t.owner[o] = "none" <=> o \in NewObjects}
  /\ before = db
  /\ broken = FALSE /\ step = "start" /\ todo = {} /\ found = {} /\ failed = {} /\ meddled = FALSE

OfThis(t) == {o \in Objects : t.owner[o] = "this"}

---------------------------------------------------------------------------
(* Statements and how they end *)

Store(t, next) == ~broken /\ db' = t /\ step' = next

\* an error that nobody catches leaves the TransactionWrapper
Raises ==
  /\ step' = "raised"
  /\ db' = IF opt.transaction THEN before ELSE db

\* The error of a relation, ignored or not.  A statement on a broken
\* transaction fails as well.
RelationFails(name, next, breaks) ==
  \/ /\ opt.ignore_errors
     /\ failed' = failed \cup name
     /\ broken' = (broken \/ (opt.transaction /\ breaks))
     /\ step' = next
     /\ UNCHANGED db
  \/ /\ ~opt.ignore_errors
     /\ Raises
     /\ UNCHANGED <<failed, broken>>

---------------------------------------------------------------------------
(* The row *)

Create == IF db.row # "none"
          THEN Raises
          ELSE Store([db EXCEPT !.row = "new", !.base = TRUE], "keys")

\* save_data without a primary key, with must_create, or with the first look at the row
SaveRow ==
  /\ step = "start"
  /\ \/ ~opt.pk /\ opt.must_update /\ Raises
     \/ ((~opt.pk /\ ~opt.must_update) \/ (opt.pk /\ opt.must_create)) /\ Create
     \/ /\ opt.pk /\ ~opt.must_create
        /\ IF db.row = "none"
           THEN /\ UNCHANGED db
                /\ step' = IF opt.async /\ opt.must_update THEN "missing" ELSE "parent"
           ELSE IF opt.async
                THEN UNCHANGED db /\ step' = "update"
                ELSE Store([db EXCEPT !.row = "new"], "keys")
     \/ Raises       \* the database refuses the data
  /\ UNCHANGED <<opt, before, broken, todo, found, failed, meddled>>

\* aupdate after aexists: the row may be gone, and no error says so
UpdateRow ==
  /\ step = "update"
  /\ \/ Store(IF db.row = "none" THEN db ELSE [db EXCEPT !.row = "new"], "keys")
     \/ Raises
  /\ UNCHANGED <<opt, before, broken, todo, found, failed, meddled>>

UpdateFailed ==
  /\ step = "missing"
  /\ Raises
  /\ UNCHANGED <<opt, before, broken, todo, found, failed, meddled>>

\* no row: insert it below a parent row that exists, whatever must_update says, or create
\* both
LookForParent ==
  /\ step = "parent"
  /\ step' = IF db.base THEN "child" ELSE IF opt.must_update THEN "missing" ELSE "create"
  /\ UNCHANGED <<opt, db, before, broken, todo, found, failed, meddled>>

\* The asynchronous version turns must_create on when it creates the missing row.
InsertRow ==
  /\ step \in {"child", "create"}
  /\ \/ IF step = "create" THEN Create ELSE Store([db EXCEPT !.row = "new", !.base = TRUE], "keys")
     \/ Raises
  /\ opt' = [opt EXCEPT !.must_create = @ \/ (step = "create" /\ opt.async)]
  /\ UNCHANGED <<before, broken, todo, found, failed, meddled>>

---------------------------------------------------------------------------
(* The keys of the many-to-many relation: save_relation_keys *)

FindKeys ==
  /\ step = "keys"
  /\ step' = "link"
  /\ found' = IF opt.must_create THEN {} ELSE GivenKeys \cap db.links
  /\ UNCHANGED <<opt, db, before, broken, todo, failed, meddled>>

\* mutant: all keys but those found before are deleted, the new ones too
LinkedFound ==
  IF opt.async /\ ~opt.must_create THEN found ELSE db.links \cup GivenKeys

\* The statement of the synchronous version that deletes the other keys
\* builds a coroutine and drops it: nothing is deleted (compiler.py:1070).
Linked ==
  IF opt.async /\ ~opt.must_create THEN GivenKeys ELSE db.links \cup GivenKeys

\* one transaction of its own: a savepoint in the asynchronous case, the outer one otherwise
Link ==
  /\ step = "link"
  /\ todo' = Given
  /\ \/ /\ db.row # "none" /\ (GivenKeys \ found) \cap db.links = {}
        /\ Store([db EXCEPT !.links = Linked], "objects")
        /\ UNCHANGED <<broken, failed>>
     \/ RelationFails({"keys"}, "objects", ~opt.async)
  /\ UNCHANGED <<opt, before, found, meddled>>

---------------------------------------------------------------------------
(* The objects of the one-to-many relation: bulk_save, then delete the rest *)

\* with must_create an object that has a row is an error
CanSave(o) == db.row # "none" /\ (opt.must_create => db.owner[o] = "none")

SaveObject(o) ==
  /\ step = "objects"
  /\ o \in todo
  /\ todo' = todo \ {o}
  /\ \/ /\ CanSave(o)
        /\ Store([db EXCEPT !.owner[o] = "this"], "objects")
        /\ UNCHANGED <<broken, failed>>
     \/ RelationFails({o}, "objects", opt.aborts)
  /\ UNCHANGED <<opt, before, found, meddled>>

\* mutant: bulk_save returns the keys it saved, not the objects it was given
KeptOnlySaved == Given \ failed

\* the primary keys of what bulk_save returns: its objects, saved or not
Kept == Given \ (NewObjects \cap failed)

Prune ==
  /\ step = "objects" /\ todo = {}
  /\ \/ opt.must_create /\ step' = "leave" /\ UNCHANGED <<db, broken, failed>>
     \/ /\ ~opt.must_create
        /\ \/ /\ Store([db EXCEPT !.owner = [o \in Objects |->
                          IF db.owner[o] = "this" /\ o \notin Kept THEN "none" ELSE db.owner[o]]],
                       "leave")
              /\ UNCHANGED <<broken, failed>>
           \/ RelationFails({"prune"}, "leave", opt.aborts)
  /\ UNCHANGED <<opt, before, todo, found, meddled>>

\* leaving the block commits; a broken transaction is rolled back instead, and no error is raised
Leave ==
  /\ step = "leave"
  /\ step' = "saved"
  /\ db' = IF broken THEN before ELSE db
  /\ UNCHANGED <<opt, before, broken, todo, found, failed, meddled>>

---------------------------------------------------------------------------
(* Another session of the database, once, between two statements *)

Meddle ==
  /\ ~opt.transaction /\ ~meddled
  /\ step \notin Ended
  /\ meddled' = TRUE
  /\ \/ db' = [db EXCEPT !.row = "none", !.base = FALSE, !.links = {},
               !.owner = [o \in Objects |-> IF db.owner[o] = "this" THEN "none" ELSE db.owner[o]]]
     \/ \E k \in RelKeys : db.row # "none" /\ db' = [db EXCEPT !.links = @ \cup {k}]
  /\ UNCHANGED <<opt, before, broken, step, todo, found, failed>>

SaveNext ==
  \/ SaveRow \/ UpdateRow \/ UpdateFailed \/ LookForParent \/ InsertRow
  \/ FindKeys \/ Link
  \/ \E o \in Objects : SaveObject(o)
  \/ Prune \/ Leave
  \/ Meddle

SaveSpec == SaveInit /\ [][SaveNext]_saveVars

---------------------------------------------------------------------------
(* Properties *)

\* A save in a transaction that raises has changed nothing, whichever
\* statement failed and however many objects were saved before it
\* (docs/en/guide/schema-query.md:1230).
FailureLeavesNothing == step = "raised" /\ opt.transaction => db = before

\* A save that neither raised nor ignored anything left the row, exactly the given
\* objects and at least the given keys (exactly these if asynchronous or with
\* must_create); one that ignored failures did not delete a given object because its
\* own save had failed.
SavedMeansSaved ==
  step = "saved" /\ ~meddled =>
    /\ failed \cap OfThis(before) \subseteq OfThis(db)
    /\ ~opt.ignore_errors =>
         /\ db.row = "new"
         /\ OfThis(db) = Given
         /\ GivenKeys \subseteq db.links /\ (opt.async \/ opt.must_create => db.links = GivenKeys)

\* Whatever statement fails, a save is all or nothing in a transaction and never
\* pretends to have done what it did not.
SaveIsWhole == FailureLeavesNothing /\ SavedMeansSaved

\* A save that did not raise has stored its row (docs/en/guide/schema-query.md:158,
\* 1230 "either overall success or overall failure with no effects").
SuccessIsStored == step = "saved" /\ ~meddled => db.row = "new"
=============================================================================
