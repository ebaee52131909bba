---------------------------- MODULE ApiDocument ----------------------------
(***************************************************************************)
(* The OpenAPI document of a service (core/api/specs/openapi.py): a walk   *)
(* over the APIs and their endpoints that names every response once, as a  *)
(* component, and refers to it by name; then the documents of the web      *)
(* framework and of the configuration are merged into it.                  *)
(*                                                                         *)
(* A name is the sequence of its parts; joining parts with "_" is joining  *)
(* sequences, so that <<"user", "page">> has one name however it is put    *)
(* together: of tags and the name of an endpoint, or of the module, class  *)
(* and function it is, with "_" for the dots.  A response class has a      *)
(* label, a status and data, what the schema generator makes of it.        *)
(***************************************************************************)
EXTENDS Naturals, Sequences, FiniteSets, SequencesExt, FiniteSetsExt, TLC

CONSTANTS Base,       \* the class Response itself
          Apis,       \* APIs: [api, tags, own, response], the response its own or inherited
          ApiEndpoints, \* [api, path, name, id, ref, hooked, erring, types]
          Externals,  \* other documents: [components, paths], names to data
          MaxWalk     \* bound: endpoints documented

VARIABLES registered, \* responses: the classes that have a component
          names,      \* response_names: [name -> class]
          operations, \* the operation ids in use
          paths,      \* [path and method -> operation]
          entered,    \* APIs seen so far
          merged      \* the components another document put in

docVars == <<registered, names, operations, paths, entered, merged>>

Plain == <<"Response">>   \* the name of the class Response

DocInit ==
  /\ registered = {} /\ names = <<>> /\ operations = {} /\ paths = <<>>
  /\ entered = {} /\ merged = <<>>

Book == [registered |-> registered, names |-> names]
-----------------------------------------------------------------------------
\* get_response_name: Response itself is never renamed.
NameIn(book, class, prefix) ==
  IF class = Base THEN Plain
  ELSE IF class \in book.registered
       THEN CHOOSE n \in DOMAIN book.names : book.names[n] = class
       ELSE prefix \o class.label

Suffixed(name, k) == name \o [i \in 1..k |-> "1"]

\* Mutant: a name in use is taken again whatever it stands for.
SharedName(book, class, name) == name

\* Names in use get a suffix, unless they stand for the same data.
UsableName(book, class, name) ==
  LET usable(n) == n \in DOMAIN book.names => book.names[n].data = class.data
  IN Suffixed(name, Min({ k \in 0..Cardinality(DOMAIN book.names) : usable(Suffixed(name, k)) }))

\* set_response: the name that will stand for the class, and the book after it.
Entered(book, class, prefix) ==
  LET name == IF class \in book.registered THEN NameIn(book, class, prefix)
              ELSE UsableName(book, class, NameIn(book, class, prefix))
  IN [ref |-> name,
      book |-> IF class \in book.registered \/ name \in DOMAIN book.names THEN book
               ELSE [registered |-> book.registered \cup {class},
                     names |-> book.names @@ (name :> class)]]

\* The book and the references of an operation after some more classes: those
\* of after hooks and of the endpoint override, those of error hooks and of the
\* API only take a status that is free.
Walked(book, refs, classes, prefix, overrides) ==
  FoldLeft(LAMBDA acc, class :
             LET made == Entered(acc.book, class, prefix)
                 ref  == [name |-> made.ref, of |-> class]
             IN [book |-> made.book,
                 refs |-> IF class.status \in DOMAIN acc.refs /\ ~overrides THEN acc.refs
                          ELSE (class.status :> ref) @@ acc.refs],
           [book |-> book, refs |-> refs], classes)

\* from_api: an API is entered from the one it is mounted in; a response of its
\* own gets a component.
EnterApi(api) ==
  /\ api \notin entered /\ merged = <<>>
  /\ \A up \in Apis : IsStrictPrefix(up.tags, api.tags) => up \in entered
  /\ entered' = entered \cup {api}
  /\ LET book == IF ~api.own \/ api.response = Base THEN Book ELSE Entered(Book, api.response, api.tags).book
     IN registered' = book.registered /\ names' = book.names
  /\ UNCHANGED <<operations, paths, merged>>

\* The id given to the endpoint, its name with the tags, or its reference, which
\* is not compared with the ids in use.
OperationId(endpoint, tags) ==
  LET joined == Append(tags, endpoint.name)
  IN IF endpoint.id # <<>> /\ endpoint.id \notin operations THEN endpoint.id
     ELSE IF joined \notin operations THEN joined ELSE endpoint.ref

\* from_route and from_endpoint.
Document(endpoint) ==
  /\ endpoint.api \in entered /\ merged = <<>>
  /\ endpoint.path \notin DOMAIN paths /\ Cardinality(DOMAIN paths) < MaxWalk
  /\ LET tags   == endpoint.api.tags
         prefix == Append(tags, endpoint.name)
         common == IF endpoint.api.response = Base THEN <<>> ELSE <<endpoint.api.response>>
         after  == Walked(Book, <<>>, endpoint.hooked, tags, TRUE)
         erring == Walked(after.book, after.refs, endpoint.erring, tags, FALSE)
         typed  == Walked(erring.book, erring.refs, endpoint.types, prefix, TRUE)
         all    == Walked(typed.book, typed.refs, common, prefix, FALSE)
         id     == OperationId(endpoint, tags)
     IN /\ registered' = all.book.registered /\ names' = all.book.names
        /\ operations' = operations \cup {id}
        /\ paths' = paths @@ (endpoint.path :> [id |-> id, ref |-> endpoint.ref,
                                                refs |-> all.refs, ours |-> TRUE])
  /\ UNCHANGED <<entered, merged>>

\* merge_openapi_docs: components and operations of the other document replace
\* those of the same name.
Merge(other) ==
  /\ entered = Apis /\ merged = <<>>
  /\ merged' = other.components
  /\ paths' = [ p \in other.paths |-> [id |-> <<>>, ref |-> <<>>, refs |-> <<>>, ours |-> FALSE] ]
              @@ paths
  /\ UNCHANGED <<registered, names, operations, entered>>

DocNext ==
  \/ \E api \in Apis : EnterApi(api)
  \/ \E endpoint \in ApiEndpoints : Document(endpoint)
  \/ \E other \in Externals : Merge(other)

DocSpec == DocInit /\ [][DocNext]_docVars
-----------------------------------------------------------------------------
\* The data a name stands for in the components: get_responses names the classes
\* anew, and a later one replaces an earlier one of its name.
Component(name) ==
  IF name \in DOMAIN merged THEN {merged[name]}
  ELSE { class.data : class \in { c \in registered : NameIn(Book, c, <<>>) = name } }

\* Response itself was given a component under a suffix, where nobody finds it.
BaseRenamed == Base \in registered /\ (Plain \in DOMAIN names => names[Plain] # Base)

\* What then has no component of its own: the class Response, and the name of it.
Confused(ref) == BaseRenamed /\ (ref.of = Base \/ ref.name = Plain)

\* Every reference leads to one component, the one of its class, unless a merged
\* document has a component of that name, or a class was called Response.
RefsResolve ==
  \A p \in DOMAIN paths : \A status \in DOMAIN paths[p].refs :
    LET ref == paths[p].refs[status]
    IN ref.name \in DOMAIN merged \/ Confused(ref) \/ Component(ref.name) = {ref.of.data}

\* Two operations have the same id only if it is the reference of one of them.
IdsDiffer ==
  \A p, q \in DOMAIN paths :
    p # q /\ paths[p].ours /\ paths[q].ours /\ paths[p].id = paths[q].id
      => paths[p].id \in {paths[p].ref, paths[q].ref}

\* In whatever order the APIs are walked and whatever labels collide, the document says of
\* every operation what its endpoint returns, under an id of its own: but for a class of the
\* user called Response, which leaves the references to Response itself without the right
\* component, and for ids that fall back to a reference, which openapi.py:1140 takes though
\* it may be in use (set_response, get_response_name and from_endpoint).
DocumentSound == RefsResolve /\ IdsDiffer
=============================================================================
