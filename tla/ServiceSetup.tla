---------------------------- MODULE ServiceSetup ----------------------------
(***************************************************************************)
(* How a service is put together (core/server/service.py): a backend, the  *)
(* configurations it uses, the root API and the APIs that ask to be        *)
(* mounted under it, in whatever order the modules of an application are   *)
(* imported; then the set-up of the operations service (ops/config.py),    *)
(* of the web framework, and the start.                                    *)
(*                                                                         *)
(* The state of the service is one record: operations call each other, and *)
(* are functions from a service to a service.  A root API may be given by  *)
(* a reference, which can be resolved once its module has been imported.   *)
(***************************************************************************)
EXTENDS Naturals

CONSTANTS AsyncBackends,  \* backends that are asynchronous by default
          SyncBackends,   \* and those that are not
          Aliases,        \* databases of the application
          OpsAlias,       \* the database of the operations service
          Extensions,     \* APIs connected to the service
          Routes,         \* where
          OpsRoute        \* the route of the Operations configuration

ASSUME OpsAssumption == OpsAlias \notin Aliases

VARIABLES service,   \* the service, its server adaptor and its Operations
          source,    \* the module of the root API has been imported
          asked,     \* ghost: what asked to be mounted, <<API, route>>
          belated    \* ghost: configured or given a backend after it was set up

setupVars == <<service, source, asked, belated>>

Unset    == "unset"
OpsApi   == <<"OperationsAPI", OpsRoute>>
Backends == AsyncBackends \cup SyncBackends
Nowhere  == [r \in {} |-> ""]
ModeOf(flag) == IF flag THEN "async" ELSE "sync"

\* The service as UtilMeta(...) leaves it; integrate() has made one of its own.
NewService(byIntegrate, eager) ==
  [backend   |-> Unset,     mode   |-> Unset,
   uses      |-> {},        ready  |-> FALSE,
   databases |-> [a \in {} |-> ""],
   ref       |-> FALSE,     root   |-> "none",    auto |-> byIntegrate,
   mounted   |-> {},        waits  |-> Nowhere,
   logged    |-> 0,         hooked |-> FALSE,     served |-> FALSE,
   opsReady  |-> FALSE,     opsMounted |-> FALSE, eager  |-> eager,
   cached    |-> FALSE,     document   |-> {},
   tasks     |-> 0,         started    |-> FALSE]
-----------------------------------------------------------------------------
\* Mutant: databases keep the mode they had.
KeepsMode(s, mode) == [s EXCEPT !.mode = mode]

\* set_asynchronous: databases and caches are set up for it again.
SetMode(s, mode) ==
  [s EXCEPT !.mode = mode, !.databases = [a \in DOMAIN s.databases |-> mode]]

\* A new server adaptor: without middlewares, and not set up.
WithBackend(s, b) ==
  LET t == [s EXCEPT !.backend = b, !.logged = 0, !.hooked = FALSE, !.served = FALSE]
  IN IF s.mode = Unset THEN SetMode(t, ModeOf(b \in AsyncBackends)) ELSE t

\* add_database applies the mode of the moment; none counts as synchronous.
WithDatabases(s, aliases) ==
  [s EXCEPT !.uses = @ \cup {"DatabaseConnections"},
            !.databases = [a \in DOMAIN s.databases \cup aliases |->
                             IF a \notin aliases THEN s.databases[a]
                             ELSE IF s.mode = Unset THEN "sync" ELSE s.mode]]

\* A reference that cannot be imported yet is an error, whatever else is there.
CanResolve(s) == s.root # "none" \/ IF s.ref THEN source ELSE s.auto

\* Mutant: the APIs that wait are forgotten when the root API comes.
RootedAlone(s, root) == [s EXCEPT !.root = root, !.waits = Nowhere]

\* root_api.setter: what waited is mounted.
Rooted(s, root) ==
  [s EXCEPT !.root = root, !.waits = Nowhere,
            !.mounted = @ \cup {<<s.waits[r], r>> : r \in DOMAIN s.waits}]

Resolved(s) ==
  IF s.root # "none" THEN s
  ELSE Rooted(s, IF s.ref THEN "ref" ELSE "auto")

Waiting(s, api, route) ==
  [s EXCEPT !.waits = [r \in DOMAIN s.waits \cup {route} |->
                         IF r = route THEN api ELSE s.waits[r]]]

\* on_api_mount of the configurations: Operations forgets its document.
Announced(s) ==
  IF "Operations" \in s.uses THEN [s EXCEPT !.cached = FALSE, !.document = {}] ELSE s

\* mount_to_api.  An API mounted behind another on its route stays in the list.
MountedTo(s, api, route, eager) ==
  IF ~eager /\ s.root = "none" THEN Waiting(s, api, route)
  ELSE IF CanResolve(s)
       THEN Announced([Resolved(s) EXCEPT !.mounted = @ \cup {<<api, route>>}])
       ELSE Announced(Waiting(s, api, route))

\* Operations.setup: middleware, database, API.
OpsSetup(s) ==
  IF "Operations" \notin s.uses \/ s.opsReady THEN s
  ELSE LET t == [WithDatabases(s, {OpsAlias}) EXCEPT !.logged = @ + 1,
                                                     !.uses = @ \cup {"DjangoSettings"}]
           m == IF t.opsMounted THEN t ELSE MountedTo(t, OpsApi[1], OpsRoute, t.eager)
       IN [m EXCEPT !.opsMounted = TRUE, !.opsReady = TRUE]

SetUp(s) == IF s.ready THEN s ELSE [OpsSetup(s) EXCEPT !.ready = TRUE]

\* setup() of the server adaptor: the root API, and the middlewares if there are any.
ServerSetup(s) ==
  IF s.served THEN s ELSE [Resolved(s) EXCEPT !.served = TRUE, !.hooked = s.logged > 0]

Documented(s) == [Resolved(s) EXCEPT !.cached = TRUE, !.document = Resolved(s).mounted]

\* Operations.on_startup: the document, and the task unless it runs already.
OpsStartup(s) ==
  LET t == IF s.cached THEN s ELSE Documented(s)
  IN [t EXCEPT !.tasks = IF @ = 0 THEN 1 ELSE @]

Startup(s) == [IF "Operations" \in s.uses THEN OpsStartup(s) ELSE s EXCEPT !.started = TRUE]
-----------------------------------------------------------------------------
SetupInit ==
  /\ \E byIntegrate, eager \in BOOLEAN : service = NewService(byIntegrate, eager)
  /\ source = FALSE /\ asked = {} /\ belated = FALSE

Becomes(s) == service' = s /\ UNCHANGED source

SetBackend(b) ==
  /\ service.backend # b /\ ~service.started
  /\ Becomes(WithBackend(service, b)) /\ belated' = (belated \/ service.ready)
  /\ UNCHANGED asked

SetAsynchronous(mode) ==
  /\ mode # service.mode /\ ~service.started
  /\ Becomes(SetMode(service, mode)) /\ UNCHANGED <<asked, belated>>

UseDatabases ==
  /\ "DatabaseConnections" \notin service.uses
  /\ Becomes(WithDatabases(service, Aliases)) /\ UNCHANGED <<asked, belated>>

UseOperations ==
  /\ "Operations" \notin service.uses
  /\ Becomes([service EXCEPT !.uses = @ \cup {"Operations"}])
  /\ belated' = (belated \/ service.ready)
  /\ UNCHANGED asked

\* service.mount with a class, or with a reference to one.
Mount(reference) ==
  /\ service.root = "none"
  /\ Becomes(IF reference THEN [service EXCEPT !.ref = TRUE] ELSE Rooted(service, "class"))
  /\ UNCHANGED <<asked, belated>>

ImportRoot ==
  /\ ~source /\ source' = TRUE
  /\ UNCHANGED <<service, asked, belated>>

\* API.__as__: the API is served by the framework and asks to be mounted.
Connect(api, route) ==
  /\ <<api, route>> \notin asked /\ asked' = asked \cup {<<api, route>>}
  /\ Becomes(MountedTo(service, api, route, FALSE)) /\ UNCHANGED belated

AskedBy(s) == IF s.opsMounted THEN asked \cup {OpsApi} ELSE asked

\* setup() on its own, as applications with models call it; Operations needs a backend.
Setup ==
  /\ "Operations" \in service.uses => service.backend # Unset
  /\ ~service.ready
  /\ Becomes(SetUp(service)) /\ asked' = AskedBy(service') /\ UNCHANGED belated

\* application(), and run() before it serves.  Without a root API it stops there.
Application ==
  /\ service.backend # Unset /\ ~service.served
  /\ LET s == SetUp(service) IN Becomes(IF CanResolve(s) THEN ServerSetup(s) ELSE s)
  /\ asked' = AskedBy(service') /\ UNCHANGED belated

\* startup(), called by run() or by an event of the framework, in a process
\* where integrate() may have started Operations before.
ServerStarts ==
  /\ service.served /\ Becomes(Startup(service)) /\ UNCHANGED <<asked, belated>>

\* Operations.integrate: use, set up and start it at once.
Integrate ==
  /\ "Operations" \notin service.uses /\ service.backend # Unset
  /\ LET s == SetUp([service EXCEPT !.uses = @ \cup {"Operations"}])
         m == IF s.opsMounted THEN s
              ELSE [MountedTo(s, OpsApi[1], OpsRoute, s.eager) EXCEPT !.opsMounted = TRUE]
     IN Becomes(IF CanResolve(m) THEN [OpsStartup(ServerSetup(m)) EXCEPT !.started = TRUE] ELSE m)
  /\ asked' = AskedBy(service') /\ belated' = (belated \/ service.ready)

\* A supervisor asks for the document, with or without Cache-Control: no-cache.
AskDocument(anew) ==
  /\ service.started /\ "Operations" \in service.uses
  /\ Becomes(IF service.cached /\ ~anew THEN service ELSE Documented(service))
  /\ UNCHANGED <<asked, belated>>

SetupNext ==
  \/ \E b \in Backends : SetBackend(b)
  \/ \E flag \in BOOLEAN : SetAsynchronous(ModeOf(flag)) \/ Mount(flag) \/ AskDocument(flag)
  \/ UseDatabases \/ UseOperations \/ ImportRoot
  \/ \E api \in Extensions, route \in Routes : Connect(api, route)
  \/ Setup \/ Application \/ ServerStarts \/ Integrate

SetupSpec == SetupInit /\ [][SetupNext]_setupVars
-----------------------------------------------------------------------------
\* With a root API, whatever asked to be mounted is, unless another API that asked
\* for its route while there was none replaced it (service.py:528).
AllMounted ==
  service.root # "none" =>
    \A m \in asked : m \in service.mounted \/ \E o \in asked \ {m} : o[2] = m[2]

\* The document that is kept shows every API mounted by now.
DocumentCurrent == service.cached => service.document = service.mounted

\* A service that was configured before it was set up starts with its Operations
\* whole: one task, one log middleware that the framework calls, its API mounted.
OperationsWhole ==
  (service.started /\ ~belated /\ "Operations" \in service.uses) =>
    service.tasks = 1 /\ service.logged = 1 /\ service.hooked /\ OpsApi \in asked

\* However an application is put together, it starts complete.
StartsComplete ==
  /\ AllMounted /\ DocumentCurrent /\ OperationsWhole
  /\ service.mode # Unset =>
       \A a \in DOMAIN service.databases : service.databases[a] = service.mode
=============================================================================
