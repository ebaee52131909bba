------------------------------ MODULE MCTables ------------------------------
(* What the operations service tells of a service: the tables it keeps in  *)
(* step with a supervisor (its reports, resources and connections), the    *)
(* row of a request and the OpenAPI document.  They are independent; a     *)
(* behaviour looks at one of them.                                         *)
EXTENDS ReportLog, SupervisorLink, ResourceSync, SpanLog, ApiDocument

CONSTANTS cycle1, cycle2, cycle3, worker1, worker2

VARIABLE part

MCWorkerOf == (cycle1 :> worker1) @@ (cycle2 :> worker1) @@ (cycle3 :> worker2)
MCExpiry   == <<3, 5>>
MCReleases == <<{"users"}, {"orders"}>>

Class(class, label, status, data) == [class |-> class, label |-> label, status |-> status, data |-> data]
MCBase == Class("base", <<"Response">>, 200, "text")
Pages  == Class("pages", <<"Page">>, 200, "pages")
Alike  == Class("alike", <<"Page">>, 200, "pages")
Others == Class("others", <<"Page">>, 200, "users")
Suffix == Class("suffix", <<"Page", "1">>, 404, "missing")
Named  == Class("named", <<"Response">>, 404, "wrapped")

RootApi  == [api |-> "root", tags |-> <<>>, own |-> TRUE, response |-> Named]
UserApi  == [api |-> "user", tags |-> <<"user">>, own |-> TRUE, response |-> MCBase]
PageApi  == [api |-> "page", tags |-> <<"user", "Page">>, own |-> TRUE, response |-> Suffix]
OrderApi == [api |-> "order", tags |-> <<"order">>, own |-> FALSE, response |-> Named]

Described(api, path, name, id, ref, hooked, erring, types) ==
  [ api |-> api, path |-> path, name |-> name, id |-> id, ref |-> ref,
    hooked |-> hooked, erring |-> erring, types |-> types ]

\* The class of UserApi is user.Page: the reference of its get is the joined name of
\* PageApi's.
MCApis == {RootApi, UserApi, PageApi, OrderApi}
MCApiEndpoints ==
  { Described(RootApi, 1, "user", <<>>, <<"main", "Root", "user">>, <<>>, <<>>, <<MCBase>>),
    Described(RootApi, 2, "get", <<"user">>, <<"main", "Root", "get">>, <<>>, <<>>, <<Pages, Suffix>>),
    Described(UserApi, 3, "get", <<>>, <<"user", "Page", "get">>, <<Named>>, <<Suffix>>, <<Others>>),
    Described(UserApi, 4, "get", <<>>, <<"user", "Page", "get">>, <<>>, <<>>, <<Alike>>),
    Described(PageApi, 5, "get", <<"user">>, <<"page", "Inner", "get">>, <<>>, <<>>, <<MCBase>>),
    Described(UserApi, 6, "Page", <<>>, <<"user", "Page", "Page">>, <<>>, <<Alike>>, <<Others, Named>>),
    Described(OrderApi, 7, "get", <<>>, <<"main", "Order", "get">>, <<>>, <<>>, <<Suffix>>) }
MCExternals == { [components |-> <<"get", "Page">> :> "other", paths |-> {1, 8}] }

tablesVars == <<part, reportVars, linkVars, syncVars, spanVars, docVars>>

TablesInit ==
  /\ part \in {"reports", "supervisor", "resources", "spans", "document"}
  /\ ReportInit /\ LinkInit /\ SyncInit /\ SpanInit /\ DocInit

TablesNext ==
  /\ UNCHANGED part
  /\ \/ part = "reports"    /\ ReportNext /\ UNCHANGED <<linkVars, syncVars, spanVars, docVars>>
     \/ part = "supervisor" /\ LinkNext   /\ UNCHANGED <<reportVars, syncVars, spanVars, docVars>>
     \/ part = "resources"  /\ SyncNext   /\ UNCHANGED <<reportVars, linkVars, spanVars, docVars>>
     \/ part = "spans"      /\ SpanNext   /\ UNCHANGED <<reportVars, linkVars, syncVars, docVars>>
     \/ part = "document"   /\ DocNext    /\ UNCHANGED <<reportVars, linkVars, syncVars, spanVars>>

TablesSpec == TablesInit /\ [][TablesNext]_tablesVars
=============================================================================
