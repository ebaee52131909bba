------------------------- MODULE ServiceSetup_proof -------------------------
(***************************************************************************)
(* Proofs about ServiceSetup and AtomicQuery.                              *)
(*                                                                         *)
(* ServiceSetup, for any backends, databases, APIs and routes.             *)
(* StartsComplete needs to know what the calls before the set-up leave     *)
(* behind: while there is no root API whatever asked is waiting or was     *)
(* replaced by what waits on its route, a document is kept only by         *)
(* Operations and under a root API, and a service that was not changed     *)
(* after its set-up has logged and served its Operations in that order.    *)
(***************************************************************************)
EXTENDS ServiceSetup, AtomicQuery, FiniteSetTheorems, SequenceTheorems, TLAPS

Modes     == {Unset, "sync", "async"}
AllRoutes == Routes \cup {OpsRoute}
AllApis   == Extensions \cup {"OperationsAPI"}
Maps(D, R) == UNION {[E -> R] : E \in SUBSET D}

Services ==
  [backend: Backends \cup {Unset}, mode: Modes,
   uses: SUBSET {"DatabaseConnections", "Operations", "DjangoSettings"}, ready: BOOLEAN,
   databases: Maps(Aliases \cup {OpsAlias}, Modes),
   ref: BOOLEAN, root: {"none", "class", "ref", "auto"}, auto: BOOLEAN,
   mounted: SUBSET (AllApis \X AllRoutes), waits: Maps(AllRoutes, AllApis),
   logged: Nat, hooked: BOOLEAN, served: BOOLEAN,
   opsReady: BOOLEAN, opsMounted: BOOLEAN, eager: BOOLEAN,
   cached: BOOLEAN, document: SUBSET (AllApis \X AllRoutes),
   tasks: Nat, started: BOOLEAN]

HasOps(s) == "Operations" \in s.uses

\* Databases run in the mode of the service, once it has one.
ModesOK(s) ==
  s.mode # Unset => \A a \in DOMAIN s.databases : s.databases[a] = s.mode

\* What asked is mounted or replaced; without a root API it waits or was replaced.
RootOK(s, A) ==
  /\ s.root # "none" =>
       /\ DOMAIN s.waits = {}
       /\ \A m \in A : m \in s.mounted \/ \E o \in A \ {m} : o[2] = m[2]
  /\ s.root = "none" => \A m \in A : m[2] \in DOMAIN s.waits
  /\ \A r \in DOMAIN s.waits : <<s.waits[r], r>> \in A

\* A document is kept by Operations, of what is mounted.
DocumentOK(s) ==
  s.cached => s.document = s.mounted /\ HasOps(s) /\ s.root # "none"

\* How far Operations have come, and that nothing was passed over on the way.
OpsOK(s, A, late) ==
  /\ s.opsReady => s.ready /\ s.opsMounted
  /\ s.opsMounted => OpsApi \in A
  /\ ~s.opsReady => s.logged = 0
  /\ s.tasks \in {0, 1}
  /\ s.started => s.served
  /\ s.served => s.ready
  /\ ~late => /\ s.opsReady => s.logged = 1
              /\ s.ready /\ HasOps(s) => s.opsReady
              /\ s.served /\ HasOps(s) => s.hooked
              /\ s.started /\ HasOps(s) => s.tasks = 1

\* The service is as it should be, with what asked to be mounted.
Sound(s, A, late) ==
  s \in Services /\ ModesOK(s) /\ RootOK(s, A) /\ DocumentOK(s) /\ OpsOK(s, A, late)

SetupTypeOK ==
  /\ service \in Services /\ source \in BOOLEAN /\ belated \in BOOLEAN
  /\ asked \in SUBSET (AllApis \X AllRoutes)

SetupInv == SetupTypeOK /\ Sound(service, asked, belated)
-----------------------------------------------------------------------------
(* Operations, as functions from a service to a service *)

\* What an operation leaves alone.
SameModes(s, t) == t.mode = s.mode /\ t.databases = s.databases
SameRoot(s, t)  == t.root = s.root /\ t.mounted = s.mounted /\ t.waits = s.waits
SameSource(s, t) == t.ref = s.ref /\ t.auto = s.auto /\ t.eager = s.eager
SameDocument(s, t) == t.cached = s.cached /\ t.document = s.document
SameOps(s, t) ==
  /\ t.uses = s.uses /\ t.ready = s.ready /\ t.logged = s.logged /\ t.hooked = s.hooked
  /\ t.served = s.served /\ t.opsReady = s.opsReady /\ t.opsMounted = s.opsMounted
  /\ t.tasks = s.tasks /\ t.started = s.started

\* Databases and routes that wait are functions on part of what there is.
LEMMA MapsIs ==
  ASSUME NEW D, NEW R, NEW f \in Maps(D, R)
  PROVE  /\ DOMAIN f \subseteq D /\ f \in [DOMAIN f -> R] /\ \A a \in DOMAIN f : f[a] \in R
  BY DEF Maps

\* A function on part of what there is.
LEMMA MapsHas ==
  ASSUME NEW D, NEW R, NEW E \in SUBSET D, NEW f \in [E -> R]
  PROVE  f \in Maps(D, R)
  BY DEF Maps

\* set_asynchronous changes the modes alone, and makes them equal.
LEMMA SetModeIs ==
  ASSUME NEW s \in Services, NEW mode \in Modes
  PROVE  LET t == SetMode(s, mode)
         IN  /\ t \in Services /\ ModesOK(t) /\ t.mode = mode
             /\ SameRoot(s, t) /\ SameSource(s, t) /\ SameDocument(s, t) /\ SameOps(s, t)
  <1> DEFINE databases == [a \in DOMAIN s.databases |-> mode]
             t == [s EXCEPT !.mode = mode, !.databases = databases]
  <1>1. s.databases \in Maps(Aliases \cup {OpsAlias}, Modes)
    BY DEF Services
  <1>2. databases \in Maps(Aliases \cup {OpsAlias}, Modes)
    BY <1>1, MapsIs, MapsHas
  <1>3. \A a \in DOMAIN databases : databases[a] = mode
    OBVIOUS
  <1> HIDE DEF databases
  <1>4. /\ t \in Services /\ t.mode = mode /\ t.databases = databases
        /\ SameRoot(s, t) /\ SameSource(s, t) /\ SameDocument(s, t) /\ SameOps(s, t)
    BY <1>2 DEF Services, SameRoot, SameSource, SameDocument, SameOps
  <1>5. SetMode(s, mode) = t
    BY DEF SetMode, databases
  <1> HIDE DEF t
  <1>6. ModesOK(t)
    BY <1>3, <1>4 DEF ModesOK
  <1> QED
    BY <1>4, <1>5, <1>6

\* root_api.setter mounts what waited.
LEMMA RootedIs ==
  ASSUME NEW s \in Services, NEW root \in {"class", "ref", "auto"}
  PROVE  LET t == Rooted(s, root)
         IN  /\ t \in Services /\ t.root = root /\ DOMAIN t.waits = {}
             /\ t.mounted = s.mounted \cup {<<s.waits[r], r>> : r \in DOMAIN s.waits}
             /\ SameModes(s, t) /\ SameSource(s, t) /\ SameDocument(s, t) /\ SameOps(s, t)
  <1> DEFINE waited == {<<s.waits[r], r>> : r \in DOMAIN s.waits}
             mounted == s.mounted \cup waited
             t == [s EXCEPT !.root = root, !.waits = Nowhere, !.mounted = mounted]
  <1>1. s.waits \in Maps(AllRoutes, AllApis) /\ s.mounted \in SUBSET (AllApis \X AllRoutes)
    BY DEF Services
  <1>2. mounted \in SUBSET (AllApis \X AllRoutes)
    BY <1>1, MapsIs
  <1>3. Nowhere \in Maps(AllRoutes, AllApis) /\ DOMAIN Nowhere = {}
    <2>1. Nowhere \in [{} -> AllApis]
      BY DEF Nowhere
    <2> QED
      BY <2>1, MapsHas
  <1>4. Rooted(s, root) = t
    BY DEF Rooted
  <1> HIDE DEF mounted
  <1>5. /\ t \in Services /\ t.root = root /\ t.waits = Nowhere /\ t.mounted = mounted
        /\ SameModes(s, t) /\ SameSource(s, t) /\ SameDocument(s, t) /\ SameOps(s, t)
    BY <1>2, <1>3 DEF Services, SameModes, SameSource, SameDocument, SameOps
  <1> QED
    BY <1>3, <1>4, <1>5 DEF mounted

\* A root API comes: what asked and waited is mounted.
LEMMA RootedOK ==
  ASSUME NEW s \in Services, NEW root \in {"class", "ref", "auto"}, s.root = "none",
         NEW A \in SUBSET (AllApis \X AllRoutes), RootOK(s, A), DocumentOK(s)
  PROVE  RootOK(Rooted(s, root), A) /\ DocumentOK(Rooted(s, root)) /\ ~Rooted(s, root).cached
  <1> DEFINE t == Rooted(s, root)
  <1>1. /\ t.root = root /\ DOMAIN t.waits = {} /\ SameDocument(s, t)
        /\ t.mounted = s.mounted \cup {<<s.waits[r], r>> : r \in DOMAIN s.waits}
    BY RootedIs
  <1> HIDE DEF t
  <1>2. ~t.cached
    BY <1>1 DEF SameDocument, DocumentOK
  <1>3. ASSUME NEW m \in A PROVE m \in t.mounted \/ \E o \in A \ {m} : o[2] = m[2]
    <2>1. /\ m = <<m[1], m[2]>> /\ m[2] \in DOMAIN s.waits
          /\ <<s.waits[m[2]], m[2]>> \in A /\ <<s.waits[m[2]], m[2]>> \in t.mounted
      BY <1>1 DEF RootOK
    <2> QED
      BY <2>1
  <1>4. RootOK(t, A)
    BY <1>1, <1>3 DEF RootOK
  <1> QED
    BY <1>2, <1>4 DEF DocumentOK, t

\* The root API is resolved when it can be, as the reference or a new one.
LEMMA ResolvedIs ==
  ASSUME NEW s \in Services, NEW A \in SUBSET (AllApis \X AllRoutes), RootOK(s, A), DocumentOK(s)
  PROVE  LET t == Resolved(s)
         IN  /\ t \in Services /\ t.root # "none" /\ RootOK(t, A) /\ DocumentOK(t)
             /\ SameModes(s, t) /\ SameSource(s, t) /\ SameDocument(s, t) /\ SameOps(s, t)
  <1>1. CASE s.root # "none"
    BY <1>1 DEF Resolved, SameModes, SameSource, SameDocument, SameOps
  <1>2. CASE s.root = "none"
    <2>1. ASSUME NEW root \in {"ref", "auto"}
          PROVE  LET t == Rooted(s, root)
                 IN  /\ t \in Services /\ t.root # "none" /\ RootOK(t, A) /\ DocumentOK(t)
                     /\ SameModes(s, t) /\ SameSource(s, t) /\ SameDocument(s, t) /\ SameOps(s, t)
      <3>1. root \in {"class", "ref", "auto"} /\ root # "none"
        OBVIOUS
      <3> QED
        BY <1>2, <3>1, RootedIs, RootedOK
    <2>2. Resolved(s) = Rooted(s, IF s.ref THEN "ref" ELSE "auto")
      BY <1>2 DEF Resolved
    <2> QED
      BY <2>1, <2>2
  <1> QED
    BY <1>1, <1>2

\* An API waits on its route.
LEMMA WaitingIs ==
  ASSUME NEW s \in Services, NEW api \in AllApis, NEW route \in AllRoutes,
         NEW A \in SUBSET (AllApis \X AllRoutes), s.root = "none", RootOK(s, A)
  PROVE  LET t == Waiting(s, api, route)
         IN  /\ t \in Services /\ t.root = "none" /\ RootOK(t, A \cup {<<api, route>>})
             /\ SameModes(s, t) /\ SameSource(s, t) /\ SameDocument(s, t) /\ SameOps(s, t)
  <1> DEFINE waits == [r \in DOMAIN s.waits \cup {route} |-> IF r = route THEN api ELSE s.waits[r]]
             t == [s EXCEPT !.waits = waits]
  <1>1. s.waits \in Maps(AllRoutes, AllApis)
    BY DEF Services
  <1>2. DOMAIN s.waits \subseteq AllRoutes /\ \A r \in DOMAIN s.waits : s.waits[r] \in AllApis
    BY <1>1, MapsIs
  <1>3. DOMAIN s.waits \cup {route} \in SUBSET AllRoutes /\ waits \in [DOMAIN s.waits \cup {route} -> AllApis]
    BY <1>2
  <1>4. waits \in Maps(AllRoutes, AllApis)
    BY <1>3, MapsHas
  <1>5. /\ DOMAIN waits = DOMAIN s.waits \cup {route} /\ waits[route] = api
        /\ \A r \in DOMAIN s.waits \ {route} : waits[r] = s.waits[r]
    OBVIOUS
  <1>6. Waiting(s, api, route) = t
    BY DEF Waiting
  <1> HIDE DEF waits
  <1>7. /\ t \in Services /\ t.root = "none" /\ t.waits = waits /\ t.mounted = s.mounted
        /\ SameModes(s, t) /\ SameSource(s, t) /\ SameDocument(s, t) /\ SameOps(s, t)
    BY <1>4 DEF Services, SameModes, SameSource, SameDocument, SameOps
  <1> HIDE DEF t
  <1>8. RootOK(t, A \cup {<<api, route>>})
    BY <1>5, <1>7 DEF RootOK
  <1> QED
    BY <1>6, <1>7, <1>8

\* on_api_mount: no document is kept, as only Operations keep one.
LEMMA AnnouncedIs ==
  ASSUME NEW s \in Services, s.cached => HasOps(s)
  PROVE  LET t == Announced(s)
         IN  /\ t \in Services /\ ~t.cached
             /\ SameModes(s, t) /\ SameRoot(s, t) /\ SameSource(s, t) /\ SameOps(s, t)
  <1> DEFINE t == [s EXCEPT !.cached = FALSE, !.document = {}]
  <1>1. /\ t \in Services /\ ~t.cached
        /\ SameModes(s, t) /\ SameRoot(s, t) /\ SameSource(s, t) /\ SameOps(s, t)
    BY ZenonT(60) DEF Services, SameModes, SameRoot, SameSource, SameOps
  <1>2. /\ SameModes(s, s) /\ SameRoot(s, s) /\ SameSource(s, s) /\ SameOps(s, s)
    BY DEF SameModes, SameRoot, SameSource, SameOps
  <1> HIDE DEF t
  <1> QED
    BY <1>1, <1>2 DEF Announced, HasOps, t

\* mount_to_api: the API is mounted, or waits.
LEMMA MountedToIs ==
  ASSUME NEW s \in Services, NEW api \in AllApis, NEW route \in AllRoutes, NEW eager \in BOOLEAN,
         NEW A \in SUBSET (AllApis \X AllRoutes), RootOK(s, A), DocumentOK(s)
  PROVE  LET t == MountedTo(s, api, route, eager)
         IN  /\ t \in Services /\ RootOK(t, A \cup {<<api, route>>}) /\ DocumentOK(t)
             /\ SameModes(s, t) /\ SameSource(s, t) /\ SameOps(s, t)
  <1> DEFINE w == Waiting(s, api, route)
             r == Resolved(s)
             mounted == r.mounted \cup {<<api, route>>}
             m == [r EXCEPT !.mounted = mounted]
  <1>1. ASSUME s.root = "none"
        PROVE  /\ w \in Services /\ RootOK(w, A \cup {<<api, route>>}) /\ DocumentOK(w) /\ ~w.cached
               /\ SameModes(s, w) /\ SameSource(s, w) /\ SameOps(s, w)
    <2>1. /\ w \in Services /\ w.root = "none" /\ RootOK(w, A \cup {<<api, route>>})
          /\ SameModes(s, w) /\ SameSource(s, w) /\ SameDocument(s, w) /\ SameOps(s, w)
      BY <1>1, WaitingIs
    <2> QED
      BY <1>1, <2>1 DEF DocumentOK, SameDocument
  <1>2. /\ m \in Services /\ m.root # "none" /\ RootOK(m, A \cup {<<api, route>>})
        /\ m.cached => HasOps(m)
        /\ SameModes(s, m) /\ SameSource(s, m) /\ SameOps(s, m)
    <2>1. /\ r \in Services /\ r.root # "none" /\ RootOK(r, A) /\ DocumentOK(r)
          /\ SameModes(s, r) /\ SameSource(s, r) /\ SameOps(s, r)
      BY ResolvedIs
    <2> HIDE DEF r
    <2>2. mounted \in SUBSET (AllApis \X AllRoutes)
      BY <2>1 DEF Services
    <2> HIDE DEF mounted
    <2>3. /\ m \in Services /\ m.mounted = mounted /\ m.root = r.root /\ m.waits = r.waits
          /\ SameModes(r, m) /\ SameSource(r, m) /\ SameOps(r, m) /\ SameDocument(r, m)
      BY <2>1, <2>2 DEF Services, SameModes, SameSource, SameOps, SameDocument
    <2> HIDE DEF m
    <2>4. RootOK(m, A \cup {<<api, route>>})
      BY <2>1, <2>3 DEF RootOK, mounted
    <2>5. m.cached => HasOps(m)
      BY <2>1, <2>3 DEF DocumentOK, HasOps, SameDocument, SameOps
    <2> QED
      BY <2>1, <2>3, <2>4, <2>5 DEF SameModes, SameSource, SameOps
  <1> HIDE DEF w, m
  <1>3. ASSUME NEW x \in Services, RootOK(x, A \cup {<<api, route>>}), x.cached => HasOps(x),
               SameModes(s, x), SameSource(s, x), SameOps(s, x)
        PROVE  LET t == Announced(x)
               IN  /\ t \in Services /\ RootOK(t, A \cup {<<api, route>>}) /\ DocumentOK(t)
                   /\ SameModes(s, t) /\ SameSource(s, t) /\ SameOps(s, t)
    <2> DEFINE t == Announced(x)
    <2>1. /\ t \in Services /\ ~t.cached
          /\ SameModes(x, t) /\ SameRoot(x, t) /\ SameSource(x, t) /\ SameOps(x, t)
      BY <1>3, AnnouncedIs
    <2> HIDE DEF t
    <2>2. RootOK(t, A \cup {<<api, route>>}) /\ DocumentOK(t)
      BY <1>3, <2>1 DEF RootOK, DocumentOK, SameRoot
    <2>3. SameModes(s, t) /\ SameSource(s, t) /\ SameOps(s, t)
      BY <1>3, <2>1 DEF SameModes, SameSource, SameOps
    <2> QED
      BY <2>1, <2>2, <2>3 DEF t
  <1>4. CASE ~eager /\ s.root = "none"
    <2>1. MountedTo(s, api, route, eager) = w
      BY <1>4 DEF MountedTo, w
    <2> QED
      BY <1>1, <1>4, <2>1
  <1>5. CASE ~(~eager /\ s.root = "none") /\ CanResolve(s)
    <2>1. MountedTo(s, api, route, eager) = Announced(m)
      BY <1>5 DEF MountedTo, m
    <2> QED
      BY <1>2, <1>3, <2>1
  <1>6. CASE ~(~eager /\ s.root = "none") /\ ~CanResolve(s)
    <2>1. MountedTo(s, api, route, eager) = Announced(w) /\ s.root = "none"
      BY <1>6 DEF MountedTo, CanResolve, w
    <2> QED
      BY <1>1, <1>3, <2>1
  <1> QED
    BY <1>4, <1>5, <1>6

\* The same of Operations but for what they use.
SameButUses(s, t) ==
  /\ t.ready = s.ready /\ t.logged = s.logged /\ t.hooked = s.hooked
  /\ t.served = s.served /\ t.opsReady = s.opsReady /\ t.opsMounted = s.opsMounted
  /\ t.tasks = s.tasks /\ t.started = s.started

\* Databases are added in the mode of the moment.
LEMMA WithDatabasesIs ==
  ASSUME NEW s \in Services, NEW aliases \in SUBSET (Aliases \cup {OpsAlias}), ModesOK(s)
  PROVE  LET t == WithDatabases(s, aliases)
         IN  /\ t \in Services /\ ModesOK(t) /\ t.uses = s.uses \cup {"DatabaseConnections"}
             /\ SameRoot(s, t) /\ SameSource(s, t) /\ SameDocument(s, t) /\ SameButUses(s, t)
  <1> DEFINE mode == IF s.mode = Unset THEN "sync" ELSE s.mode
             all == DOMAIN s.databases \cup aliases
             databases == [a \in all |-> IF a \notin aliases THEN s.databases[a] ELSE mode]
             uses == s.uses \cup {"DatabaseConnections"}
             t == [s EXCEPT !.uses = uses, !.databases = databases]
  <1>1. /\ s.databases \in Maps(Aliases \cup {OpsAlias}, Modes) /\ s.mode \in Modes
        /\ s.uses \in SUBSET {"DatabaseConnections", "Operations", "DjangoSettings"}
    BY DEF Services
  <1>2. /\ DOMAIN s.databases \subseteq Aliases \cup {OpsAlias}
        /\ \A a \in DOMAIN s.databases : s.databases[a] \in Modes
    BY <1>1, MapsIs
  <1>3. all \in SUBSET (Aliases \cup {OpsAlias}) /\ databases \in [all -> Modes]
    BY <1>1, <1>2 DEF Modes
  <1>4. databases \in Maps(Aliases \cup {OpsAlias}, Modes)
    BY <1>3, MapsHas
  <1>5. s.mode # Unset => \A a \in DOMAIN databases : databases[a] = s.mode
    BY DEF ModesOK
  <1>6. uses \in SUBSET {"DatabaseConnections", "Operations", "DjangoSettings"}
    BY <1>1
  <1>7. WithDatabases(s, aliases) = t
    BY DEF WithDatabases
  <1> HIDE DEF databases, uses
  <1>8. /\ t \in Services /\ t.mode = s.mode /\ t.databases = databases /\ t.uses = uses
        /\ SameRoot(s, t) /\ SameSource(s, t) /\ SameDocument(s, t) /\ SameButUses(s, t)
    BY <1>4, <1>6 DEF Services, SameRoot, SameSource, SameDocument, SameButUses
  <1> HIDE DEF t
  <1>9. ModesOK(t)
    BY <1>5, <1>8 DEF ModesOK
  <1> QED
    BY <1>7, <1>8, <1>9 DEF uses

\* What asked once the service has become s.
AskedWith(s, A) == IF s.opsMounted THEN A \cup {OpsApi} ELSE A

\* Operations.setup and the end of setup().
LEMMA SetUpOK ==
  ASSUME NEW s, NEW A \in SUBSET (AllApis \X AllRoutes), NEW late \in BOOLEAN, Sound(s, A, late)
  PROVE  LET t == SetUp(s)
         IN  /\ Sound(t, AskedWith(t, A), late) /\ t.ready /\ HasOps(t) = HasOps(s)
             /\ t.started = s.started
  <1>0. s \in Services
    BY DEF Sound
  <1>1. CASE s.ready
    <2>1. SetUp(s) = s
      BY <1>1 DEF SetUp
    <2>2. AskedWith(s, A) = A
      BY DEF AskedWith, Sound, OpsOK
    <2> QED
      BY <1>1, <2>1, <2>2
  <1>2. CASE ~s.ready /\ ~HasOps(s)
    <2> DEFINE t == [s EXCEPT !.ready = TRUE]
    <2>1. SetUp(s) = t
      BY <1>2 DEF SetUp, OpsSetup, HasOps
    <2>2. /\ t \in Services /\ t.ready /\ t.uses = s.uses /\ t.logged = s.logged /\ t.hooked = s.hooked
          /\ t.served = s.served /\ t.opsReady = s.opsReady /\ t.opsMounted = s.opsMounted
          /\ t.tasks = s.tasks /\ t.started = s.started
          /\ SameModes(s, t) /\ SameRoot(s, t) /\ SameDocument(s, t)
      BY <1>0 DEF Services, SameModes, SameRoot, SameDocument
    <2> HIDE DEF t
    <2>3. OpsOK(t, A, late)
      BY <1>2, <2>2 DEF Sound, OpsOK, HasOps
    <2>4. ModesOK(t) /\ RootOK(t, A) /\ DocumentOK(t)
      BY <2>2 DEF Sound, ModesOK, RootOK, DocumentOK, SameModes, SameRoot, SameDocument, HasOps
    <2>5. AskedWith(t, A) = A
      BY <2>3 DEF AskedWith, OpsOK
    <2> QED
      BY <2>1, <2>2, <2>3, <2>4, <2>5 DEF Sound, HasOps
  <1>3. CASE ~s.ready /\ HasOps(s)
    <2> DEFINE d == WithDatabases(s, {OpsAlias})
               logged == d.logged + 1
               uses == d.uses \cup {"DjangoSettings"}
               t == [d EXCEPT !.logged = logged, !.uses = uses]
               m == IF t.opsMounted THEN t ELSE MountedTo(t, OpsApi[1], OpsRoute, t.eager)
               end == [m EXCEPT !.opsMounted = TRUE, !.opsReady = TRUE]
               all == [end EXCEPT !.ready = TRUE]
               B == A \cup {OpsApi}
    <2>1. SetUp(s) = all
      BY <1>3 DEF SetUp, OpsSetup, HasOps, Sound, OpsOK
    <2>2. /\ d \in Services /\ ModesOK(d) /\ d.uses = s.uses \cup {"DatabaseConnections"}
          /\ SameRoot(s, d) /\ SameSource(s, d) /\ SameDocument(s, d) /\ SameButUses(s, d)
      BY <1>0, WithDatabasesIs DEF Sound
    <2>3. s.logged = 0 /\ ~s.served /\ ~s.started /\ ~s.opsReady /\ s.tasks \in {0, 1}
      BY <1>3 DEF Sound, OpsOK
    <2> HIDE DEF d
    <2>4. logged = 1 /\ uses \in SUBSET {"DatabaseConnections", "Operations", "DjangoSettings"}
          /\ "Operations" \in uses
      BY <1>3, <2>2, <2>3 DEF Services, SameButUses, HasOps
    <2> HIDE DEF logged, uses
    <2>5. /\ t \in Services /\ t.logged = 1 /\ HasOps(t) /\ t.opsMounted = s.opsMounted
          /\ ~t.served /\ ~t.started /\ t.tasks = s.tasks /\ t.eager \in BOOLEAN
          /\ SameModes(d, t) /\ SameRoot(s, t) /\ SameDocument(s, t)
      BY ZenonT(60), <2>2, <2>3, <2>4
         DEF Services, SameModes, SameRoot, SameDocument, SameButUses, HasOps
    <2> HIDE DEF t
    <2>6. ModesOK(t) /\ RootOK(t, A) /\ DocumentOK(t)
      BY <2>2, <2>5 DEF Sound, ModesOK, RootOK, DocumentOK, SameModes, SameRoot, SameDocument, HasOps
    <2>7. OpsApi[1] \in AllApis /\ OpsRoute \in AllRoutes /\ <<OpsApi[1], OpsRoute>> = OpsApi
      BY DEF OpsApi, AllApis, AllRoutes
    <2>8. /\ m \in Services /\ ModesOK(m) /\ RootOK(m, B) /\ DocumentOK(m)
          /\ m.logged = 1 /\ HasOps(m) /\ ~m.served /\ ~m.started /\ m.tasks = s.tasks
      <3>1. CASE t.opsMounted
        <4>1. B = A /\ m = t
          BY <2>5, <3>1 DEF Sound, OpsOK
        <4> QED
          BY <2>5, <2>6, <4>1
      <3>2. CASE ~t.opsMounted
        <4> DEFINE x == MountedTo(t, OpsApi[1], OpsRoute, t.eager)
        <4>1. /\ x \in Services /\ RootOK(x, A \cup {<<OpsApi[1], OpsRoute>>}) /\ DocumentOK(x)
              /\ SameModes(t, x) /\ SameOps(t, x)
          BY <2>5, <2>6, <2>7, MountedToIs
        <4> HIDE DEF x
        <4>2. ModesOK(x) /\ RootOK(x, B) /\ HasOps(x)
          BY <2>5, <2>6, <2>7, <4>1 DEF ModesOK, SameModes, SameOps, HasOps
        <4>3. m = x
          BY <3>2 DEF x
        <4> QED
          BY <2>5, <4>1, <4>2, <4>3 DEF SameOps
      <3> QED
        BY <3>1, <3>2
    <2> HIDE DEF m
    <2>9. /\ end \in Services /\ end.opsMounted /\ end.opsReady
          /\ end.logged = 1 /\ end.uses = m.uses /\ ~end.served /\ ~end.started /\ end.tasks = s.tasks
          /\ SameModes(m, end) /\ SameRoot(m, end) /\ SameDocument(m, end)
      BY <2>8 DEF Services, SameModes, SameRoot, SameDocument
    <2> HIDE DEF end
    <2>10. /\ all \in Services /\ all.ready /\ all.opsMounted /\ all.opsReady
           /\ all.logged = 1 /\ all.uses = m.uses /\ ~all.served /\ ~all.started /\ all.tasks = s.tasks
           /\ SameModes(m, all) /\ SameRoot(m, all) /\ SameDocument(m, all)
      BY <2>9 DEF Services, SameModes, SameRoot, SameDocument
    <2> HIDE DEF all
    <2>11. ModesOK(all) /\ RootOK(all, B) /\ DocumentOK(all) /\ HasOps(all)
      BY <2>8, <2>10 DEF ModesOK, RootOK, DocumentOK, SameModes, SameRoot, SameDocument, HasOps
    <2>12. OpsOK(all, B, late) /\ AskedWith(all, A) = B
      BY <2>3, <2>10 DEF OpsOK, AskedWith
    <2>13. all.started = s.started /\ HasOps(all) = HasOps(s)
      BY <1>0, <1>3, <2>3, <2>10, <2>11 DEF Services, HasOps
    <2> QED
      BY <2>1, <2>10, <2>11, <2>12, <2>13 DEF Sound
  <1> QED
    BY <1>1, <1>2, <1>3

\* setup() of the server adaptor: Operations that have logged are hooked.
LEMMA ServerSetupOK ==
  ASSUME NEW s, NEW A \in SUBSET (AllApis \X AllRoutes), NEW late \in BOOLEAN, Sound(s, A, late), s.ready
  PROVE  LET t == ServerSetup(s)
         IN  /\ Sound(t, A, late) /\ t.served /\ t.ready
             /\ t.uses = s.uses /\ t.opsMounted = s.opsMounted /\ t.started = s.started
  <1>0. s \in Services
    BY DEF Sound
  <1>1. CASE s.served
    BY <1>1 DEF ServerSetup
  <1>2. CASE ~s.served
    <2> DEFINE r == Resolved(s)
               hooked == s.logged > 0
               t == [r EXCEPT !.served = TRUE, !.hooked = hooked]
    <2>1. ServerSetup(s) = t
      BY <1>2 DEF ServerSetup
    <2>2. /\ r \in Services /\ RootOK(r, A) /\ DocumentOK(r)
          /\ SameModes(s, r) /\ SameOps(s, r)
      BY <1>0, ResolvedIs DEF Sound
    <2> HIDE DEF r
    <2>3. hooked \in BOOLEAN /\ (s.logged = 1 => hooked)
      OBVIOUS
    <2> HIDE DEF hooked
    <2>4. /\ t \in Services /\ t.served /\ t.hooked = hooked
          /\ t.uses = s.uses /\ t.ready = s.ready /\ t.logged = s.logged
          /\ t.opsReady = s.opsReady /\ t.opsMounted = s.opsMounted
          /\ t.tasks = s.tasks /\ t.started = s.started
          /\ SameModes(s, t) /\ SameRoot(r, t) /\ SameDocument(r, t)
      BY ZenonT(60), <2>2, <2>3 DEF Services, SameModes, SameRoot, SameDocument, SameOps
    <2> HIDE DEF t
    <2>5. ModesOK(t) /\ RootOK(t, A) /\ DocumentOK(t)
      BY <2>2, <2>4
         DEF Sound, ModesOK, RootOK, DocumentOK, SameModes, SameRoot, SameDocument, SameOps, HasOps
    <2>6. OpsOK(t, A, late)
      BY <2>3, <2>4 DEF Sound, OpsOK, HasOps
    <2> QED
      BY <2>1, <2>4, <2>5, <2>6 DEF Sound
  <1> QED
    BY <1>1, <1>2

\* A document is made of what is mounted.
LEMMA DocumentedOK ==
  ASSUME NEW s, NEW A \in SUBSET (AllApis \X AllRoutes), NEW late \in BOOLEAN, Sound(s, A, late), HasOps(s)
  PROVE  Sound(Documented(s), A, late) /\ SameOps(s, Documented(s))
  <1> DEFINE r == Resolved(s)
             document == r.mounted
             t == [r EXCEPT !.cached = TRUE, !.document = document]
  <1>1. Documented(s) = t
    BY DEF Documented
  <1>2. /\ r \in Services /\ RootOK(r, A) /\ DocumentOK(r) /\ r.root # "none"
        /\ SameModes(s, r) /\ SameOps(s, r)
    BY ResolvedIs DEF Sound
  <1> HIDE DEF r
  <1>3. document \in SUBSET (AllApis \X AllRoutes) /\ document = r.mounted
    BY <1>2 DEF Services
  <1> HIDE DEF document
  <1>4. /\ t \in Services /\ t.cached /\ t.document = document
        /\ SameModes(r, t) /\ SameRoot(r, t) /\ SameOps(r, t)
    BY <1>2, <1>3 DEF Services, SameModes, SameRoot, SameOps
  <1> HIDE DEF t
  <1>5. SameOps(s, t)
    BY <1>2, <1>4 DEF SameOps
  <1>6. ModesOK(t) /\ RootOK(t, A)
    BY <1>2, <1>4 DEF Sound, ModesOK, RootOK, SameModes, SameRoot
  <1>7. DocumentOK(t)
    BY <1>2, <1>3, <1>4, <1>5 DEF DocumentOK, SameRoot, SameOps, HasOps
  <1>8. OpsOK(t, A, late)
    BY <1>5 DEF Sound, OpsOK, SameOps, HasOps
  <1> QED
    BY <1>1, <1>4, <1>5, <1>6, <1>7, <1>8 DEF Sound

\* Operations.on_startup: there is one task.
LEMMA OpsStartupOK ==
  ASSUME NEW s, NEW A \in SUBSET (AllApis \X AllRoutes), NEW late \in BOOLEAN, Sound(s, A, late), HasOps(s)
  PROVE  LET t == OpsStartup(s)
         IN  /\ Sound(t, A, late) /\ HasOps(t) /\ t.tasks = 1
             /\ t.served = s.served /\ t.started = s.started /\ t.opsMounted = s.opsMounted
  <1> DEFINE d == IF s.cached THEN s ELSE Documented(s)
             tasks == IF d.tasks = 0 THEN 1 ELSE d.tasks
             t == [d EXCEPT !.tasks = tasks]
  <1>1. Sound(d, A, late) /\ SameOps(s, d)
    BY DocumentedOK DEF SameOps
  <1>2. OpsStartup(s) = t
    BY DEF OpsStartup
  <1> HIDE DEF d
  <1>3. tasks = 1
    BY <1>1 DEF Sound, OpsOK
  <1> HIDE DEF tasks
  <1>4. /\ t \in Services /\ t.tasks = 1 /\ t.uses = d.uses /\ t.ready = d.ready /\ t.logged = d.logged
        /\ t.hooked = d.hooked /\ t.served = d.served /\ t.started = d.started
        /\ t.opsReady = d.opsReady /\ t.opsMounted = d.opsMounted
        /\ SameModes(d, t) /\ SameRoot(d, t) /\ SameDocument(d, t)
    BY <1>1, <1>3 DEF Sound, Services, SameModes, SameRoot, SameDocument
  <1> HIDE DEF t
  <1>5. ModesOK(t) /\ RootOK(t, A) /\ DocumentOK(t)
    BY <1>1, <1>4 DEF Sound, ModesOK, RootOK, DocumentOK, SameModes, SameRoot, SameDocument, HasOps
  <1>6. OpsOK(t, A, late)
    BY <1>1, <1>4 DEF Sound, OpsOK, HasOps
  <1> QED
    BY <1>1, <1>2, <1>4, <1>5, <1>6 DEF Sound, HasOps, SameOps

\* What was served starts; with Operations there is a task by then.
LEMMA StartedOK ==
  ASSUME NEW s, NEW A \in SUBSET (AllApis \X AllRoutes), NEW late \in BOOLEAN, Sound(s, A, late),
         s.served, HasOps(s) => s.tasks = 1
  PROVE  LET t == [s EXCEPT !.started = TRUE]
         IN  Sound(t, A, late) /\ t.opsMounted = s.opsMounted
  <1> DEFINE t == [s EXCEPT !.started = TRUE]
  <1>1. /\ t \in Services /\ t.started /\ t.uses = s.uses /\ t.ready = s.ready /\ t.logged = s.logged
        /\ t.hooked = s.hooked /\ t.served = s.served /\ t.tasks = s.tasks
        /\ t.opsReady = s.opsReady /\ t.opsMounted = s.opsMounted
        /\ SameModes(s, t) /\ SameRoot(s, t) /\ SameDocument(s, t)
    BY DEF Sound, Services, SameModes, SameRoot, SameDocument
  <1> HIDE DEF t
  <1>2. ModesOK(t) /\ RootOK(t, A) /\ DocumentOK(t)
    BY <1>1 DEF Sound, ModesOK, RootOK, DocumentOK, SameModes, SameRoot, SameDocument, HasOps
  <1>3. OpsOK(t, A, late)
    BY <1>1 DEF Sound, OpsOK, HasOps
  <1> QED
    BY <1>1, <1>2, <1>3 DEF Sound, t

\* Nothing that holds of what asked is lost when more asks.
LEMMA AskedMore ==
  ASSUME NEW s, NEW A, NEW B, A \subseteq B, NEW late, OpsOK(s, A, late)
  PROVE  OpsOK(s, B, late)
  BY DEF OpsOK

\* Operations that are used after the set-up are belated.
LEMMA UsesOK ==
  ASSUME NEW s, NEW A \in SUBSET (AllApis \X AllRoutes), NEW late \in BOOLEAN, Sound(s, A, late), ~HasOps(s)
  PROVE  LET t == [s EXCEPT !.uses = @ \cup {"Operations"}]
         IN  /\ Sound(t, A, late \/ s.ready) /\ HasOps(t)
             /\ t.opsMounted = s.opsMounted /\ t.ready = s.ready
  <1> DEFINE uses == s.uses \cup {"Operations"}
             t == [s EXCEPT !.uses = uses]
  <1>1. uses \in SUBSET {"DatabaseConnections", "Operations", "DjangoSettings"} /\ "Operations" \in uses
    BY DEF Sound, Services
  <1> HIDE DEF uses
  <1>2. /\ t \in Services /\ t.uses = uses /\ SameButUses(s, t)
        /\ SameModes(s, t) /\ SameRoot(s, t) /\ SameDocument(s, t)
    BY <1>1 DEF Sound, Services, SameModes, SameRoot, SameDocument, SameButUses
  <1>3. [s EXCEPT !.uses = @ \cup {"Operations"}] = t
    BY DEF uses
  <1> HIDE DEF t
  <1>4. ModesOK(t) /\ RootOK(t, A) /\ DocumentOK(t)
    BY <1>2 DEF Sound, ModesOK, RootOK, DocumentOK, SameModes, SameRoot, SameDocument, HasOps
  <1>5. OpsOK(t, A, late \/ s.ready)
    BY <1>2 DEF Sound, OpsOK, SameButUses, HasOps
  <1> QED
    BY <1>1, <1>2, <1>3, <1>4, <1>5 DEF Sound, HasOps, SameButUses
-----------------------------------------------------------------------------
(* Actions *)

\* The service begins with nothing.
LEMMA SetupInitInv == SetupInit => SetupInv
  <1> SUFFICES ASSUME NEW byIntegrate \in BOOLEAN, NEW eager \in BOOLEAN,
                      service = NewService(byIntegrate, eager),
                      source = FALSE, asked = {}, belated = FALSE
               PROVE  SetupInv
    BY DEF SetupInit
  <1> DEFINE databases == [a \in {} |-> ""]
  <1>1. databases \in Maps(Aliases \cup {OpsAlias}, Modes) /\ DOMAIN databases = {}
    <2>1. databases \in [{} -> Modes]
      OBVIOUS
    <2> QED
      BY <2>1, MapsHas
  <1>2. Nowhere \in Maps(AllRoutes, AllApis) /\ DOMAIN Nowhere = {}
    <2>1. Nowhere \in [{} -> AllApis]
      BY DEF Nowhere
    <2> QED
      BY <2>1, MapsHas
  <1> HIDE DEF databases
  <1>3. /\ service \in Services /\ service.mode = Unset /\ service.waits = Nowhere /\ service.root = "none"
        /\ ~service.cached /\ ~service.opsReady /\ ~service.opsMounted /\ service.logged = 0
        /\ service.tasks = 0 /\ ~service.started /\ ~service.served /\ ~service.ready
    BY <1>1, <1>2 DEF NewService, Services, Modes, databases
  <1>4. ModesOK(service) /\ RootOK(service, asked) /\ DocumentOK(service)
    BY <1>2, <1>3 DEF ModesOK, RootOK, DocumentOK
  <1>5. OpsOK(service, asked, belated)
    BY <1>3 DEF OpsOK
  <1> QED
    BY <1>3, <1>4, <1>5 DEF SetupInv, SetupTypeOK, Sound

\* A new backend: nothing is logged there, and nobody is served.
LEMMA SetBackendInv ==
  ASSUME SetupInv, NEW b \in Backends, SetBackend(b)
  PROVE  SetupInv'
  <1> DEFINE s == service
             t == [s EXCEPT !.backend = b, !.logged = 0, !.hooked = FALSE, !.served = FALSE]
             mode == ModeOf(b \in AsyncBackends)
  <1>1. /\ service' = WithBackend(s, b) /\ ~s.started /\ UNCHANGED <<source, asked>>
        /\ belated' = (belated \/ s.ready)
    BY DEF SetBackend, Becomes
  <1>2. SetupTypeOK /\ Sound(s, asked, belated)
    BY DEF SetupInv
  <1> HIDE DEF s
  <1>3. /\ t \in Services /\ t.logged = 0 /\ ~t.served /\ t.uses = s.uses /\ t.ready = s.ready
        /\ t.opsReady = s.opsReady /\ t.opsMounted = s.opsMounted /\ t.tasks = s.tasks /\ t.started = s.started
        /\ SameModes(s, t) /\ SameRoot(s, t) /\ SameDocument(s, t)
    BY ZenonT(60), <1>2 DEF Sound, Services, SameModes, SameRoot, SameDocument
  <1>4. WithBackend(s, b) = IF s.mode = Unset THEN SetMode(t, mode) ELSE t
    BY DEF WithBackend
  <1> HIDE DEF t
  <1>5. mode \in Modes
    BY DEF ModeOf, Modes
  <1> HIDE DEF mode
  <1>6. Sound(t, asked, belated \/ s.ready)
    <2>1. ModesOK(t) /\ RootOK(t, asked) /\ DocumentOK(t)
      BY <1>2, <1>3 DEF Sound, ModesOK, RootOK, DocumentOK, SameModes, SameRoot, SameDocument, HasOps
    <2>2. OpsOK(t, asked, belated \/ s.ready)
      BY <1>1, <1>2, <1>3 DEF Sound, OpsOK, HasOps
    <2> QED
      BY <1>3, <2>1, <2>2 DEF Sound
  <1>7. Sound(SetMode(t, mode), asked, belated \/ s.ready)
    <2> DEFINE u == SetMode(t, mode)
    <2>1. /\ u \in Services /\ ModesOK(u)
          /\ SameRoot(t, u) /\ SameDocument(t, u) /\ SameOps(t, u)
      BY <1>3, <1>5, SetModeIs
    <2> HIDE DEF u
    <2>2. RootOK(u, asked) /\ DocumentOK(u) /\ OpsOK(u, asked, belated \/ s.ready)
      BY <1>6, <2>1 DEF Sound, RootOK, DocumentOK, OpsOK, SameRoot, SameDocument, SameOps, HasOps
    <2> QED
      BY <2>1, <2>2 DEF Sound, u
  <1>8. Sound(service', asked, belated \/ s.ready)
    BY <1>1, <1>4, <1>6, <1>7
  <1> QED
    BY <1>1, <1>2, <1>8 DEF SetupInv, SetupTypeOK, Sound

\* set_asynchronous
LEMMA SetAsynchronousInv ==
  ASSUME SetupInv, NEW mode \in {"sync", "async"}, SetAsynchronous(mode)
  PROVE  SetupInv'
  <1> DEFINE t == SetMode(service, mode)
  <1>1. service' = t /\ UNCHANGED <<source, asked, belated>>
    BY DEF SetAsynchronous, Becomes
  <1>2. SetupTypeOK /\ Sound(service, asked, belated) /\ mode \in Modes
    BY DEF SetupInv, Modes
  <1>3. /\ t \in Services /\ ModesOK(t) /\ SameRoot(service, t) /\ SameDocument(service, t) /\ SameOps(service, t)
    BY <1>2, SetModeIs DEF Sound
  <1> HIDE DEF t
  <1>4. RootOK(t, asked) /\ DocumentOK(t) /\ OpsOK(t, asked, belated)
    BY <1>2, <1>3 DEF Sound, RootOK, DocumentOK, OpsOK, SameRoot, SameDocument, SameOps, HasOps
  <1> QED
    BY <1>1, <1>2, <1>3, <1>4 DEF SetupInv, SetupTypeOK, Sound

\* use(DatabaseConnections)
LEMMA UseDatabasesInv ==
  ASSUME SetupInv, UseDatabases
  PROVE  SetupInv'
  <1> DEFINE t == WithDatabases(service, Aliases)
  <1>1. service' = t /\ UNCHANGED <<source, asked, belated>>
    BY DEF UseDatabases, Becomes
  <1>2. SetupTypeOK /\ Sound(service, asked, belated)
    BY DEF SetupInv
  <1>3. /\ t \in Services /\ ModesOK(t) /\ t.uses = service.uses \cup {"DatabaseConnections"}
        /\ SameRoot(service, t) /\ SameDocument(service, t) /\ SameButUses(service, t)
    BY <1>2, WithDatabasesIs DEF Sound
  <1> HIDE DEF t
  <1>4. HasOps(t) = HasOps(service)
    BY <1>3 DEF HasOps
  <1>5. RootOK(t, asked) /\ DocumentOK(t) /\ OpsOK(t, asked, belated)
    BY <1>2, <1>3, <1>4 DEF Sound, RootOK, DocumentOK, OpsOK, SameRoot, SameDocument, SameButUses
  <1> QED
    BY <1>1, <1>2, <1>3, <1>5 DEF SetupInv, SetupTypeOK, Sound

\* use(Operations)
LEMMA UseOperationsInv ==
  ASSUME SetupInv, UseOperations
  PROVE  SetupInv'
  <1>1. /\ service' = [service EXCEPT !.uses = @ \cup {"Operations"}] /\ UNCHANGED <<source, asked>>
        /\ ~HasOps(service) /\ belated' = (belated \/ service.ready)
    BY DEF UseOperations, Becomes, HasOps
  <1>2. SetupTypeOK /\ Sound(service, asked, belated)
    BY DEF SetupInv
  <1>3. Sound(service', asked, belated \/ service.ready)
    BY <1>1, <1>2, UsesOK DEF SetupTypeOK
  <1> QED
    BY <1>1, <1>2, <1>3 DEF SetupInv, SetupTypeOK, Sound

\* mount() of the root API
LEMMA MountInv ==
  ASSUME SetupInv, NEW reference \in BOOLEAN, Mount(reference)
  PROVE  SetupInv'
  <1>1. /\ service' = IF reference THEN [service EXCEPT !.ref = TRUE] ELSE Rooted(service, "class")
        /\ service.root = "none" /\ UNCHANGED <<source, asked, belated>>
    BY DEF Mount, Becomes
  <1>2. SetupTypeOK /\ Sound(service, asked, belated)
    BY DEF SetupInv
  <1> DEFINE r == [service EXCEPT !.ref = TRUE]
             c == Rooted(service, "class")
  <1>3. /\ r \in Services /\ SameModes(service, r) /\ SameRoot(service, r)
        /\ SameDocument(service, r) /\ SameOps(service, r)
    BY <1>2 DEF Sound, Services, SameModes, SameRoot, SameDocument, SameOps
  <1>4. /\ c \in Services /\ RootOK(c, asked) /\ DocumentOK(c)
        /\ SameModes(service, c) /\ SameOps(service, c)
    BY <1>1, <1>2, RootedIs, RootedOK DEF Sound, SetupTypeOK
  <1> HIDE DEF r, c
  <1>5. Sound(r, asked, belated)
    BY <1>2, <1>3
       DEF Sound, ModesOK, RootOK, DocumentOK, OpsOK, SameModes, SameRoot, SameDocument, SameOps, HasOps
  <1>6. Sound(c, asked, belated)
    BY <1>2, <1>4 DEF Sound, ModesOK, OpsOK, SameModes, SameOps, HasOps
  <1>7. Sound(service', asked, belated)
    BY <1>1, <1>5, <1>6 DEF r, c
  <1> QED
    BY <1>1, <1>2, <1>7 DEF SetupInv, SetupTypeOK, Sound

\* An API asks to be mounted.
LEMMA ConnectInv ==
  ASSUME SetupInv, NEW api \in Extensions, NEW route \in Routes, Connect(api, route)
  PROVE  SetupInv'
  <1> DEFINE t == MountedTo(service, api, route, FALSE)
             B == asked \cup {<<api, route>>}
  <1>1. service' = t /\ asked' = B /\ UNCHANGED <<source, belated>>
    BY DEF Connect, Becomes
  <1>2. SetupTypeOK /\ Sound(service, asked, belated)
    BY DEF SetupInv
  <1>3. api \in AllApis /\ route \in AllRoutes /\ asked \in SUBSET (AllApis \X AllRoutes)
    BY <1>2 DEF AllApis, AllRoutes, SetupTypeOK
  <1>4. /\ t \in Services /\ RootOK(t, B) /\ DocumentOK(t)
        /\ SameModes(service, t) /\ SameOps(service, t)
    BY <1>2, <1>3, MountedToIs DEF Sound
  <1>5. B \in SUBSET (AllApis \X AllRoutes) /\ asked \subseteq B
    BY <1>3
  <1> HIDE DEF t, B
  <1>6. ModesOK(t) /\ OpsOK(t, asked, belated)
    BY <1>2, <1>4 DEF Sound, ModesOK, OpsOK, SameModes, SameOps, HasOps
  <1>7. OpsOK(t, B, belated)
    BY <1>5, <1>6, AskedMore
  <1> QED
    BY <1>1, <1>2, <1>4, <1>5, <1>6, <1>7 DEF SetupInv, SetupTypeOK, Sound

\* A step that leaves the service sound with what asked by then.
LEMMA BecomesSound ==
  ASSUME SetupInv, NEW t, NEW B \in SUBSET (AllApis \X AllRoutes), NEW late \in BOOLEAN, Sound(t, B, late),
         service' = t, asked' = B, belated' = late, UNCHANGED source
  PROVE  SetupInv'
  BY DEF SetupInv, SetupTypeOK, Sound

\* The API of Operations is one of those that ask.
LEMMA AskedType ==
  ASSUME SetupInv, NEW s
  PROVE  /\ asked \in SUBSET (AllApis \X AllRoutes) /\ AskedWith(s, asked) \in SUBSET (AllApis \X AllRoutes)
         /\ AskedBy(s) = AskedWith(s, asked) /\ belated \in BOOLEAN /\ Sound(service, asked, belated)
  <1>1. OpsApi \in AllApis \X AllRoutes
    BY DEF OpsApi, AllApis, AllRoutes
  <1> QED
    BY <1>1 DEF SetupInv, SetupTypeOK, AskedWith, AskedBy

\* setup()
LEMMA SetupActionInv ==
  ASSUME SetupInv, Setup
  PROVE  SetupInv'
  <1> DEFINE t == SetUp(service)
  <1>1. service' = t /\ asked' = AskedBy(service') /\ UNCHANGED <<source, belated>>
    BY DEF Setup, Becomes
  <1>2. Sound(t, AskedWith(t, asked), belated)
    BY AskedType, SetUpOK
  <1> HIDE DEF t
  <1>3. asked' = AskedWith(t, asked) /\ AskedWith(t, asked) \in SUBSET (AllApis \X AllRoutes) /\ belated \in BOOLEAN
    BY <1>1, AskedType
  <1> QED
    BY <1>1, <1>2, <1>3, BecomesSound

\* application() and run()
LEMMA ApplicationInv ==
  ASSUME SetupInv, Application
  PROVE  SetupInv'
  <1> DEFINE s == SetUp(service)
             t == IF CanResolve(s) THEN ServerSetup(s) ELSE s
             B == AskedWith(s, asked)
  <1>1. service' = t /\ asked' = AskedBy(service') /\ UNCHANGED <<source, belated>>
    BY DEF Application, Becomes
  <1>2. /\ Sound(s, B, belated) /\ s.ready
        /\ B \in SUBSET (AllApis \X AllRoutes) /\ belated \in BOOLEAN
    BY AskedType, SetUpOK
  <1> HIDE DEF s
  <1>3. Sound(t, B, belated) /\ t.opsMounted = s.opsMounted
    <2> HIDE DEF B
    <2>1. Sound(ServerSetup(s), B, belated) /\ ServerSetup(s).opsMounted = s.opsMounted
      BY <1>2, ServerSetupOK
    <2> QED
      BY <1>2, <2>1
  <1> HIDE DEF t
  <1>4. asked' = B
    BY <1>1, <1>3, AskedType DEF AskedWith, AskedBy
  <1> HIDE DEF B
  <1> QED
    BY <1>1, <1>2, <1>3, <1>4, BecomesSound

\* startup()
LEMMA ServerStartsInv ==
  ASSUME SetupInv, ServerStarts
  PROVE  SetupInv'
  <1> DEFINE s == IF HasOps(service) THEN OpsStartup(service) ELSE service
             t == [s EXCEPT !.started = TRUE]
  <1>1. service' = t /\ service.served /\ UNCHANGED <<source, asked, belated>>
    BY DEF ServerStarts, Becomes, Startup, HasOps
  <1>2. Sound(service, asked, belated) /\ asked \in SUBSET (AllApis \X AllRoutes) /\ belated \in BOOLEAN
    BY AskedType
  <1>3. Sound(s, asked, belated) /\ s.served /\ (HasOps(s) => s.tasks = 1)
    <2>1. CASE HasOps(service)
      BY <1>1, <1>2, <2>1, OpsStartupOK
    <2>2. CASE ~HasOps(service)
      BY <1>1, <1>2, <2>2
    <2> QED
      BY <2>1, <2>2
  <1> HIDE DEF s
  <1>4. Sound(t, asked, belated)
    BY <1>2, <1>3, StartedOK
  <1> HIDE DEF t
  <1> QED
    BY <1>1, <1>2, <1>4, BecomesSound

\* Operations.integrate, belated or not
LEMMA IntegrateInv ==
  ASSUME SetupInv, Integrate
  PROVE  SetupInv'
  <1> DEFINE u == [service EXCEPT !.uses = @ \cup {"Operations"}]
             s == SetUp(u)
             x == MountedTo(s, OpsApi[1], OpsRoute, s.eager)
             y == [x EXCEPT !.opsMounted = TRUE]
             m == IF s.opsMounted THEN s ELSE y
             o == OpsStartup(ServerSetup(m))
             t == IF CanResolve(m) THEN [o EXCEPT !.started = TRUE] ELSE m
             late == belated \/ service.ready
             A == AskedWith(s, asked)
             B == asked \cup {OpsApi}
  <1>1. service' = t /\ asked' = AskedBy(service') /\ belated' = late /\ UNCHANGED source /\ ~HasOps(service)
    BY DEF Integrate, Becomes, HasOps
  <1>2. /\ Sound(service, asked, belated) /\ asked \in SUBSET (AllApis \X AllRoutes) /\ belated \in BOOLEAN
        /\ A \in SUBSET (AllApis \X AllRoutes)
    BY AskedType
  <1>3. late \in BOOLEAN
    BY <1>2 DEF Sound, Services
  <1> HIDE DEF late
  <1>4. Sound(u, asked, late) /\ HasOps(u)
    BY <1>1, <1>2, UsesOK DEF late
  <1> HIDE DEF u
  <1>5. Sound(s, A, late) /\ s.ready /\ HasOps(s)
    BY <1>2, <1>3, <1>4, SetUpOK
  <1> HIDE DEF s
  <1>6. OpsApi[1] \in AllApis /\ OpsRoute \in AllRoutes /\ <<OpsApi[1], OpsRoute>> = OpsApi
    BY DEF OpsApi, AllApis, AllRoutes
  <1>7. Sound(m, B, late) /\ m.ready /\ HasOps(m) /\ m.opsMounted
    <2>1. CASE s.opsMounted
      BY <1>5, <2>1 DEF AskedWith
    <2>2. CASE ~s.opsMounted
      <3>1. A = asked /\ s \in Services /\ s.eager \in BOOLEAN
        BY <1>5, <2>2 DEF AskedWith, Sound, Services
      <3>2. /\ x \in Services /\ RootOK(x, asked \cup {<<OpsApi[1], OpsRoute>>}) /\ DocumentOK(x)
            /\ SameModes(s, x) /\ SameOps(s, x)
        BY <1>2, <1>5, <1>6, <3>1, MountedToIs DEF Sound
      <3> HIDE DEF x
      <3>3. /\ y \in Services /\ y.opsMounted /\ y.uses = x.uses /\ y.ready = x.ready /\ y.logged = x.logged
            /\ y.hooked = x.hooked /\ y.served = x.served /\ y.opsReady = x.opsReady
            /\ y.tasks = x.tasks /\ y.started = x.started
            /\ SameModes(x, y) /\ SameRoot(x, y) /\ SameDocument(x, y)
        BY <3>2 DEF Services, SameModes, SameRoot, SameDocument
      <3> HIDE DEF y
      <3>4. ModesOK(y) /\ RootOK(y, B) /\ DocumentOK(y)
        BY <1>5, <1>6, <3>2, <3>3
           DEF Sound, ModesOK, RootOK, DocumentOK, SameModes, SameRoot, SameDocument, SameOps, HasOps
      <3>5. OpsOK(y, B, late) /\ y.ready /\ HasOps(y)
        BY <1>5, <3>2, <3>3 DEF Sound, OpsOK, SameOps, HasOps
      <3> QED
        BY <2>2, <3>3, <3>4, <3>5 DEF Sound
    <2> QED
      BY <2>1, <2>2
  <1> HIDE DEF m
  <1>8. B \in SUBSET (AllApis \X AllRoutes)
    BY <1>2, <1>6
  <1>9. Sound(t, B, late) /\ t.opsMounted
    <2> HIDE DEF B
    <2>1. LET v == ServerSetup(m)
          IN  Sound(v, B, late) /\ v.served /\ v.uses = m.uses /\ v.opsMounted = m.opsMounted
      BY <1>3, <1>7, <1>8, ServerSetupOK
    <2>2. HasOps(ServerSetup(m))
      BY <1>7, <2>1 DEF HasOps
    <2>3. Sound(o, B, late) /\ o.tasks = 1 /\ o.served /\ o.opsMounted
      BY <1>3, <1>7, <1>8, <2>1, <2>2, OpsStartupOK
    <2> HIDE DEF o
    <2>4. Sound([o EXCEPT !.started = TRUE], B, late) /\ [o EXCEPT !.started = TRUE].opsMounted = o.opsMounted
      BY <1>3, <1>8, <2>3, StartedOK
    <2> QED
      BY <1>7, <2>3, <2>4
  <1> HIDE DEF t
  <1>10. asked' = B
    BY <1>1, <1>9 DEF AskedBy
  <1> HIDE DEF B
  <1> QED
    BY <1>1, <1>3, <1>8, <1>9, <1>10, BecomesSound

\* A supervisor asks for the document.
LEMMA AskDocumentInv ==
  ASSUME SetupInv, NEW anew \in BOOLEAN, AskDocument(anew)
  PROVE  SetupInv'
  <1> DEFINE t == IF service.cached /\ ~anew THEN service ELSE Documented(service)
  <1>1. service' = t /\ HasOps(service) /\ UNCHANGED <<source, asked, belated>>
    BY DEF AskDocument, Becomes, HasOps
  <1>2. Sound(service, asked, belated) /\ asked \in SUBSET (AllApis \X AllRoutes) /\ belated \in BOOLEAN
    BY AskedType
  <1>3. Sound(t, asked, belated)
    BY <1>1, <1>2, DocumentedOK
  <1> HIDE DEF t
  <1> QED
    BY <1>1, <1>2, <1>3, BecomesSound

\* No call breaks the invariant.
LEMMA SetupStepInv == SetupInv /\ [SetupNext]_setupVars => SetupInv'
  <1> SUFFICES ASSUME SetupInv, [SetupNext]_setupVars PROVE SetupInv'
    OBVIOUS
  <1>1. ASSUME NEW b \in Backends, SetBackend(b) PROVE SetupInv'
    BY <1>1, SetBackendInv
  <1>2. ASSUME NEW flag \in BOOLEAN, SetAsynchronous(ModeOf(flag)) PROVE SetupInv'
    <2>1. ModeOf(flag) \in {"sync", "async"}
      BY DEF ModeOf
    <2> QED
      BY <1>2, <2>1, SetAsynchronousInv
  <1>3. ASSUME NEW flag \in BOOLEAN, Mount(flag) PROVE SetupInv'
    BY <1>3, MountInv
  <1>4. ASSUME NEW flag \in BOOLEAN, AskDocument(flag) PROVE SetupInv'
    BY <1>4, AskDocumentInv
  <1>5. CASE UseDatabases
    BY <1>5, UseDatabasesInv
  <1>6. CASE UseOperations
    BY <1>6, UseOperationsInv
  <1>7. CASE ImportRoot
    BY <1>7 DEF ImportRoot, SetupInv, SetupTypeOK
  <1>8. ASSUME NEW api \in Extensions, NEW route \in Routes, Connect(api, route) PROVE SetupInv'
    BY <1>8, ConnectInv
  <1>9. CASE Setup
    BY <1>9, SetupActionInv
  <1>10. CASE Application
    BY <1>10, ApplicationInv
  <1>11. CASE ServerStarts
    BY <1>11, ServerStartsInv
  <1>12. CASE Integrate
    BY <1>12, IntegrateInv
  <1>13. CASE UNCHANGED setupVars
    BY <1>13 DEF setupVars, SetupInv, SetupTypeOK
  <1> QED
    BY <1>1, <1>2, <1>3, <1>4, <1>5, <1>6, <1>7, <1>8, <1>9, <1>10, <1>11, <1>12, <1>13 DEF SetupNext

\* The invariant holds however an application is put together.
LEMMA SetupInvariant == SetupSpec => []SetupInv
  BY SetupInitInv, SetupStepInv, PTL DEF SetupSpec

\* UtilMeta and its configurations: the service and its Operations keep their types.
THEOREM SetupTypes == SetupSpec => []SetupTypeOK
  <1>1. SetupInv => SetupTypeOK
    BY DEF SetupInv
  <1> QED
    BY <1>1, SetupInvariant, PTL

\* service.py and ops/config.py: for any backends, databases, APIs and routes, in
\* whatever order they come, an application starts with all that asked mounted, a
\* current document, whole Operations and databases of the service's mode.
THEOREM ServicesStartComplete == SetupSpec => []StartsComplete
  <1>1. SetupInv => StartsComplete
    BY DEF SetupInv, Sound, ModesOK, RootOK, DocumentOK, OpsOK, HasOps,
           StartsComplete, AllMounted, DocumentCurrent, OperationsWhole
  <1> QED
    BY <1>1, SetupInvariant, PTL

-----------------------------------------------------------------------------
(***************************************************************************)
(* Proofs about AtomicQuery, for any number of requests and every database *)
(* mode.  QueryAnswers needs the shape of the blocks a request is inside,  *)
(* that a task of a pure database is alone on its connection, and that     *)
(* otherwise an open block that met nobody is the only one.                *)
(***************************************************************************)
USE TaskAssumption, MarkAssumption
-----------------------------------------------------------------------------
(* Sequences as stacks *)

\* Front and Last of a sequence that is not empty.
LEMMA FrontOf ==
  ASSUME NEW S, NEW s \in Seq(S), s # <<>>
  PROVE  /\ Front(s) \in Seq(S) /\ Len(s) \in Nat /\ Len(s) >= 1
         /\ Len(Front(s)) = Len(s) - 1
         /\ \A i \in 1..Len(Front(s)) : Front(s)[i] = s[i]
         /\ Last(s) = s[Len(s)] /\ Last(s) \in S
         /\ Front(s) = <<>> <=> Len(s) = 1
  <1>1. Len(s) \in Nat /\ Len(s) >= 1 /\ s[Len(s)] \in S
    BY EmptySeq, LenProperties, ElementOfSeq
  <1>2. /\ Front(s) \in Seq(S) /\ Len(Front(s)) = Len(s) - 1
        /\ \A i \in 1..Len(s) - 1 : Front(s)[i] = s[i]
    <2>1. Front(s) = [i \in 1..Len(s) - 1 |-> s[i]]
      BY <1>1 DEF Front
    <2>2. \A i \in 1..Len(s) - 1 : s[i] \in S
      BY <1>1, ElementOfSeq
    <2>3. Len(s) - 1 \in Nat
      BY <1>1
    <2> QED
      BY <2>1, <2>2, <2>3
  <1>3. Front(s) = <<>> <=> Len(Front(s)) = 0
    BY <1>2, EmptySeq
  <1> QED
    BY <1>1, <1>2, <1>3 DEF Last

\* Append to a sequence.
LEMMA PushedOn ==
  ASSUME NEW S, NEW s \in Seq(S), NEW e \in S
  PROVE  /\ Append(s, e) \in Seq(S) /\ Len(s) \in Nat /\ Len(Append(s, e)) = Len(s) + 1
         /\ Append(s, e) # <<>> /\ Append(s, e)[Len(s) + 1] = e
         /\ \A i \in 1..Len(s) : Append(s, e)[i] = s[i]
  BY AppendProperties, LenProperties
-----------------------------------------------------------------------------
(* Types *)

Works  == [tag: Tags \cup {Same}, comment: [Tasks -> Refs \cup {Same}]]
Saves  == Seq(Works)
Places  == {"enter", "guard", "get", "insert", "again", "update", "collect", "start",
            "children", "row", "comment", "leave", "done"}
BlockKinds == {"endpoint", "get_or_create", "update_or_create", "delete"}
Queries == [op: Operations, atomic: BOOLEAN, pc: Places, blocks: Seq(BlockKinds), id: Refs,
            children: SUBSET Tasks, raised: BOOLEAN, refused: BOOLEAN]

DatabaseTypes ==
  /\ tagRow \in Tags /\ comment \in [Tasks -> Refs] /\ gone \in BOOLEAN
  /\ work \in [Connections -> Works]
  /\ points \in [Connections -> Seq(Saves)]
  /\ spoiled \in [Connections -> BOOLEAN]
  /\ \A c \in Connections : InTx(c) \/ (work[c] = Untouched /\ ~spoiled[c])

RequestTypes == pure \in BOOLEAN /\ met \subseteq Tasks /\ query \in [Tasks -> Queries]

\* What a step on connection c leaves alone.
Elsewhere(c) ==
  \A d \in Connections \ {c} :
    work'[d] = work[d] /\ points'[d] = points[d] /\ spoiled'[d] = spoiled[d]

\* A tag that was there is there, or was deleted.
TagLeft == tagRow # NoTag \/ gone

\* The marks of the queries are neither tags nor references.
LEMMA TagFacts ==
  /\ Same \notin Tags /\ NoTag \in Tags /\ NoRef \in Refs /\ Same \notin Refs /\ NoRef \notin Ids
  /\ \A id, name \in Ids : Tag(id, name) \in Tags /\ Tag(id, name) # NoTag
                           /\ Tag(id, name)[1] = id /\ Tag(id, name)[2] = name
  /\ \A row \in Tags : row # NoTag => row[1] \in Ids /\ row[2] \in Ids
  /\ Untouched \in Works
  <1>1. \A a, b : <<a, b>> # <<>> /\ <<"same">> # <<a, b>> /\ <<"same">> # <<>>
    OBVIOUS
  <1>2. Same \notin Tags
    BY <1>1 DEF Same, Tags, NoTag
  <1>3. Untouched \in Works
    BY DEF Untouched, Works
  <1>4. <<"same">> # <<"none">>
    OBVIOUS
  <1>5. Same \notin Refs
    BY <1>4 DEF Refs, NoRef, Same
  <1>6. \A id, name \in Ids : Tag(id, name) \in Tags /\ Tag(id, name) # NoTag
                           /\ Tag(id, name)[1] = id /\ Tag(id, name)[2] = name
    BY DEF Tags, Tag, NoTag
  <1>7. \A row \in Tags : row # NoTag => row[1] \in Ids /\ row[2] \in Ids
    BY DEF Tags, NoTag
  <1> QED
    BY <1>2, <1>3, <1>5, <1>6, <1>7 DEF Tags, Refs

\* A request works on one of the connections.
LEMMA ConnType == \A t \in Tasks : Conn(t) \in Connections
  BY DEF Conn, Connections

\* What a transaction wrote is made durable.
LEMMA DurableTypes ==
  ASSUME DatabaseTypes, NEW w \in Works, MakeDurable(w)
  PROVE  /\ tagRow' \in Tags /\ comment' \in [Tasks -> Refs] /\ gone' \in BOOLEAN
         /\ (gone => gone') /\ (TagLeft => TagLeft')
  <1>1. Over(w.tag, tagRow) \in Tags
    BY DEF Over, Works, DatabaseTypes
  <1>2. \A t \in Tasks : Over(w.comment[t], comment[t]) \in Refs
    BY DEF Over, Works, DatabaseTypes
  <1>3. tagRow' \in Tags /\ comment' \in [Tasks -> Refs] /\ gone' \in BOOLEAN
    BY <1>1, <1>2 DEF MakeDurable
  <1>4. TagLeft => TagLeft'
    BY DEF MakeDurable, TagLeft, Over, HasId
  <1>5. gone => gone'
    BY DEF MakeDurable
  <1> QED
    BY <1>3, <1>4, <1>5

\* A statement changes only its connection.
LEMMA PerformTypes ==
  ASSUME DatabaseTypes, NEW t \in Tasks, NEW w \in Works, Perform(t, w), UNCHANGED <<points, spoiled>>
  PROVE  DatabaseTypes' /\ Elsewhere(Conn(t)) /\ (gone => gone') /\ (TagLeft => TagLeft')
  <1>1. CASE InTx(Conn(t))
    <2>1. work' = [work EXCEPT ![Conn(t)] = w] /\ UNCHANGED <<tagRow, comment, gone>>
      BY <1>1 DEF Perform
    <2>2. work' \in [Connections -> Works] /\ \A d \in Connections \ {Conn(t)} : work'[d] = work[d]
      BY <2>1, ConnType DEF DatabaseTypes
    <2>3. \A c \in Connections : InTx(c)' \/ (work'[c] = Untouched /\ ~spoiled'[c])
      BY <1>1, <2>2 DEF DatabaseTypes, InTx
    <2> QED
      BY <2>1, <2>2, <2>3 DEF DatabaseTypes, Elsewhere, TagLeft
  <1>2. CASE ~InTx(Conn(t))
    <2>1. MakeDurable(w) /\ UNCHANGED work
      BY <1>2 DEF Perform
    <2> QED
      BY <2>1, DurableTypes DEF DatabaseTypes, Elsewhere, InTx
  <1> QED
    BY <1>1, <1>2

\* A block that opens puts a savepoint on its connection.
LEMMA OpenTypes ==
  ASSUME DatabaseTypes, NEW c \in Connections, OpenBlock(c),
         UNCHANGED <<tagRow, comment, work, spoiled, gone>>
  PROVE  /\ DatabaseTypes' /\ Elsewhere(c) /\ (TagLeft => TagLeft')
         /\ Len(points'[c]) = Len(points[c]) + 1
         /\ points'[c] = Append(points[c], IF spoiled[c] THEN <<>> ELSE <<work[c]>>)
  <1> DEFINE e == IF spoiled[c] THEN <<>> ELSE <<work[c]>>
  <1>1. e \in Saves
    BY DEF Saves, DatabaseTypes
  <1>2. points' = [points EXCEPT ![c] = Append(@, e)]
    BY DEF OpenBlock
  <1> HIDE DEF e
  <1>3. /\ Append(points[c], e) \in Seq(Saves) /\ Append(points[c], e) # <<>>
        /\ Len(Append(points[c], e)) = Len(points[c]) + 1
    BY <1>1, PushedOn DEF DatabaseTypes
  <1>4. /\ points' \in [Connections -> Seq(Saves)] /\ points'[c] = Append(points[c], e)
        /\ \A d \in Connections \ {c} : points'[d] = points[d]
    BY <1>2, <1>3 DEF DatabaseTypes
  <1>5. \A d \in Connections : InTx(d)' \/ (work'[d] = Untouched /\ ~spoiled'[d])
    BY <1>3, <1>4 DEF DatabaseTypes, InTx
  <1> QED
    BY <1>3, <1>4, <1>5 DEF DatabaseTypes, Elsewhere, TagLeft, e

\* A rollback takes one savepoint off and restores the work it kept.
LEMMA RollbackTypes ==
  ASSUME DatabaseTypes, NEW c \in Connections, InTx(c), Rollback(c)
  PROVE  /\ DatabaseTypes' /\ Elsewhere(c) /\ (gone => gone') /\ (TagLeft => TagLeft')
         /\ Len(points'[c]) = Len(points[c]) - 1
         /\ points'[c] = Front(points[c])
         /\ UNCHANGED <<tagRow, comment, gone>>
         /\ Len(points[c]) = 1 \/ Last(points[c]) # <<>> => ~spoiled'[c]
         /\ work'[c] = IF Len(points[c]) = 1 THEN Untouched
                       ELSE IF Last(points[c]) = <<>> THEN work[c] ELSE Last(points[c])[1]
  <1> DEFINE p == points[c]
             w == IF Len(p) = 1 THEN Untouched ELSE IF Last(p) = <<>> THEN work[c] ELSE Last(p)[1]
  <1>1. /\ Front(p) \in Seq(Saves) /\ Len(p) \in Nat /\ Len(p) >= 1 /\ Len(Front(p)) = Len(p) - 1
        /\ Last(p) \in Saves /\ (Front(p) = <<>> <=> Len(p) = 1)
    BY FrontOf DEF DatabaseTypes, InTx
  <1>2. w \in Works
    BY <1>1, TagFacts DEF DatabaseTypes, Saves
  <1>3. /\ points' = [points EXCEPT ![c] = Front(p)] /\ work' = [work EXCEPT ![c] = w]
        /\ spoiled' = [spoiled EXCEPT ![c] = Len(p) > 1 /\ Last(p) = <<>>]
        /\ UNCHANGED <<tagRow, comment, gone>>
    BY DEF Rollback
  <1>4. /\ points' \in [Connections -> Seq(Saves)] /\ points'[c] = Front(p)
        /\ work' \in [Connections -> Works] /\ work'[c] = w
        /\ spoiled' \in [Connections -> BOOLEAN]
        /\ spoiled'[c] <=> (Len(p) > 1 /\ Last(p) = <<>>)
        /\ Elsewhere(c)
    <2> HIDE DEF p, w
    <2> QED
      BY <1>1, <1>2, <1>3 DEF DatabaseTypes, Elsewhere
  <1>5. \A d \in Connections : InTx(d)' \/ (work'[d] = Untouched /\ ~spoiled'[d])
    <2>1. InTx(c)' \/ (work'[c] = Untouched /\ ~spoiled'[c])
      <3>1. CASE Len(p) = 1
        BY <1>4, <3>1
      <3>2. CASE Len(p) # 1
        BY <1>1, <1>4, <3>2 DEF InTx
      <3> QED
        BY <3>1, <3>2
    <2>2. \A d \in Connections \ {c} : InTx(d)' \/ (work'[d] = Untouched /\ ~spoiled'[d])
      BY <1>4 DEF DatabaseTypes, InTx, Elsewhere
    <2> QED
      BY <2>1, <2>2
  <1> HIDE DEF p, w
  <1>6. DatabaseTypes'
    BY <1>3, <1>4, <1>5 DEF DatabaseTypes
  <1> QED
    BY <1>1, <1>3, <1>4, <1>6 DEF p, w, TagLeft

\* A block inside of another releases its savepoint and keeps the work.
LEMMA ReleaseTypes ==
  ASSUME DatabaseTypes, NEW c \in Connections, InTx(c), Len(points[c]) # 1, Release(c)
  PROVE  /\ DatabaseTypes' /\ Elsewhere(c) /\ (gone => gone') /\ (TagLeft => TagLeft')
         /\ Len(points'[c]) = Len(points[c]) - 1
         /\ points'[c] = Front(points[c])
         /\ UNCHANGED <<tagRow, comment, gone, work, spoiled>>
  <1> DEFINE p == points[c]
  <1>0. p \in Seq(Saves) /\ p # <<>>
    BY DEF DatabaseTypes, InTx
  <1>1. /\ Front(p) \in Seq(Saves) /\ Len(Front(p)) = Len(p) - 1
        /\ (Front(p) = <<>> <=> Len(p) = 1)
    BY <1>0, FrontOf
  <1>2. /\ points' \in [Connections -> Seq(Saves)] /\ points'[c] = Front(p)
        /\ \A d \in Connections \ {c} : points'[d] = points[d]
    BY <1>1 DEF DatabaseTypes, Release
  <1>3. UNCHANGED <<tagRow, comment, gone, work, spoiled>>
    BY DEF Release
  <1>4. \A d \in Connections : InTx(d)' \/ (work'[d] = Untouched /\ ~spoiled'[d])
    BY <1>1, <1>2, <1>3 DEF DatabaseTypes, InTx
  <1> QED
    BY <1>1, <1>2, <1>3, <1>4 DEF DatabaseTypes, Elsewhere, TagLeft

\* The outermost block commits, and its connection is out of transactions.
LEMMA CommitTypes ==
  ASSUME DatabaseTypes, NEW c \in Connections, ~spoiled[c], Len(points[c]) = 1, Commit(c)
  PROVE  /\ DatabaseTypes' /\ Elsewhere(c) /\ (gone => gone') /\ (TagLeft => TagLeft')
         /\ Len(points'[c]) = Len(points[c]) - 1
         /\ points'[c] = <<>> /\ work'[c] = Untouched /\ UNCHANGED spoiled
  <1>1. work[c] \in Works /\ MakeDurable(work[c])
    BY DEF DatabaseTypes, Commit
  <1>2. /\ tagRow' \in Tags /\ comment' \in [Tasks -> Refs] /\ gone' \in BOOLEAN
        /\ (gone => gone') /\ (TagLeft => TagLeft')
    BY <1>1, DurableTypes
  <1>3. /\ points' \in [Connections -> Seq(Saves)] /\ points'[c] = <<>>
        /\ \A d \in Connections \ {c} : points'[d] = points[d]
    BY DEF DatabaseTypes, Commit
  <1>4. /\ work' \in [Connections -> Works] /\ work'[c] = Untouched
        /\ \A d \in Connections \ {c} : work'[d] = work[d]
    BY TagFacts DEF DatabaseTypes, Commit
  <1>5. UNCHANGED spoiled
    BY DEF Commit
  <1>6. \A d \in Connections : InTx(d)' \/ (work'[d] = Untouched /\ ~spoiled'[d])
    BY <1>3, <1>4, <1>5 DEF DatabaseTypes, InTx
  <1>7. DatabaseTypes'
    BY <1>2, <1>3, <1>4, <1>5, <1>6 DEF DatabaseTypes
  <1> QED
    BY <1>2, <1>3, <1>4, <1>5, <1>7 DEF Elsewhere
-----------------------------------------------------------------------------
(* The blocks a request is inside *)

Under(q)  == IF q.atomic THEN 1 ELSE 0
Extra(op) == CASE op = "create" -> 0 [] op = "update_or_create" -> 2 [] OTHER -> 1

\* The block at depth i: the endpoint's, the query's, the one that inserts.
KindAt(q, i) == IF i = Under(q) THEN "endpoint"
                ELSE IF i = Under(q) + 1 THEN q.op ELSE "get_or_create"

\* Where a request is says how many blocks it is inside, and for what query.
Shaped(q) ==
  /\ \A i \in 1..Len(q.blocks) : q.blocks[i] = KindAt(q, i)
  /\ q.pc \in {"enter", "done"} => Len(q.blocks) = 0
  /\ q.pc \in {"guard", "collect", "start", "comment"} => Len(q.blocks) = Under(q)
  /\ q.pc \in {"get", "again", "update"} =>
       Len(q.blocks) = Under(q) + (IF q.op = "update_or_create" THEN 1 ELSE 0)
  /\ q.pc = "insert" => Len(q.blocks) = Under(q) + Extra(q.op)
  /\ q.pc \in {"children", "row"} => Len(q.blocks) = Under(q) + 1
  /\ q.pc = "leave" => Len(q.blocks) \in 1..Under(q) + Extra(q.op)
  /\ q.pc \in {"guard", "update"} => q.op = "update_or_create"
  /\ q.pc \in {"get", "again"} => q.op \in {"get_or_create", "update_or_create"}
  /\ q.pc \in {"collect", "start", "children", "row"} => q.op = "delete"
  /\ q.pc = "insert" => q.op # "delete"

BlocksInv == \A t \in Tasks : Shaped(query[t])

\* How many blocks an operation opens of its own.
LEMMA BlocksNumber ==
  ASSUME NEW q \in Queries
  PROVE  /\ Len(q.blocks) \in Nat /\ Under(q) \in {0, 1} /\ Extra(q.op) \in {0, 1, 2}
         /\ q.blocks = <<>> <=> Len(q.blocks) = 0
         /\ q.op = "create" <=> Extra(q.op) = 0
         /\ q.op = "update_or_create" <=> Extra(q.op) = 2
  <1>1. q.blocks \in Seq(BlockKinds) /\ q.op \in Operations
    BY DEF Queries
  <1>2. Len(q.blocks) \in Nat /\ (q.blocks = <<>> <=> Len(q.blocks) = 0)
    BY <1>1, EmptySeq, LenProperties
  <1> QED
    BY <1>1, <1>2 DEF Under, Extra, Operations

\* The request goes elsewhere in the same blocks.
LEMMA ShapedThere ==
  ASSUME NEW q \in Queries, Shaped(q), NEW r \in Queries,
         r.op = q.op, r.atomic = q.atomic, r.blocks = q.blocks,
         \/ q.pc = "enter" /\ ~q.atomic /\ r.pc = First(q.op)
         \/ q.pc \in {"get", "again"} /\ r.pc = (IF q.op = "update_or_create" THEN "update" ELSE "comment")
         \/ q.pc = "insert" /\ q.op = "create" /\ r.pc = "comment"
         \/ q.pc = "collect" /\ r.pc = "start"
         \/ q.pc = "children" /\ r.pc = "row"
         \/ Len(q.blocks) = Under(q) /\ r.pc = "comment"
  PROVE  Shaped(r)
  <1>1. Under(r) = Under(q) /\ \A i : KindAt(r, i) = KindAt(q, i)
    BY DEF Under, KindAt
  <1>2. q.op \in Operations /\ (~q.atomic => Under(q) = 0)
    BY DEF Queries, Under
  <1>3. /\ Len(q.blocks) \in Nat /\ Under(q) \in {0, 1} /\ Extra(q.op) \in {0, 1, 2}
        /\ q.op = "create" <=> Extra(q.op) = 0
    BY BlocksNumber
  <1>4. \A i \in 1..Len(r.blocks) : r.blocks[i] = KindAt(r, i)
    BY <1>1 DEF Shaped
  <1>5. CASE q.pc = "enter" /\ ~q.atomic /\ r.pc = First(q.op)
    <2>1. Len(r.blocks) = 0 /\ Under(r) = 0
      BY <1>1, <1>2, <1>5 DEF Shaped
    <2>2. \/ q.op = "create" /\ r.pc = "insert"
          \/ q.op = "delete" /\ r.pc = "collect"
          \/ q.op = "update_or_create" /\ r.pc = "guard"
          \/ q.op = "get_or_create" /\ r.pc = "get"
      BY <1>2, <1>5 DEF First, Operations
    <2> QED
      BY <1>3, <1>4, <2>1, <2>2 DEF Shaped
  <1>6. CASE q.pc \in {"get", "again"}
             /\ r.pc = (IF q.op = "update_or_create" THEN "update" ELSE "comment")
    <2>1. /\ q.op \in {"get_or_create", "update_or_create"}
          /\ Len(r.blocks) = Under(r) + (IF q.op = "update_or_create" THEN 1 ELSE 0)
      BY <1>1, <1>6 DEF Shaped
    <2>2. CASE q.op = "update_or_create" /\ r.pc = "update"
      BY <1>4, <2>1, <2>2 DEF Shaped
    <2>3. CASE q.op = "get_or_create" /\ r.pc = "comment"
      <3>1. Len(r.blocks) = Under(r)
        BY <1>1, <1>3, <2>1, <2>3
      <3> QED
        BY <1>4, <2>3, <3>1 DEF Shaped
    <2> QED
      BY <1>6, <2>1, <2>2, <2>3
  <1>7. CASE q.pc = "insert" /\ q.op = "create" /\ r.pc = "comment"
    <2>1. Len(r.blocks) = Under(q) + Extra(q.op) /\ Extra(q.op) = 0
      BY <1>3, <1>7 DEF Shaped
    <2>2. Len(r.blocks) = Under(r)
      BY <1>1, <1>3, <2>1
    <2> QED
      BY <1>4, <1>7, <2>2 DEF Shaped
  <1>8. CASE q.pc = "collect" /\ r.pc = "start"
    BY <1>1, <1>3, <1>4, <1>8 DEF Shaped
  <1>9. CASE q.pc = "children" /\ r.pc = "row"
    BY <1>1, <1>3, <1>4, <1>9 DEF Shaped
  <1>10. CASE Len(q.blocks) = Under(q) /\ r.pc = "comment"
    BY <1>1, <1>3, <1>4, <1>10 DEF Shaped
  <1> QED
    BY <1>5, <1>6, <1>7, <1>8, <1>9, <1>10

\* The request leaves the innermost block, or is over outside of all.
LEMMA ShapedOut ==
  ASSUME NEW q \in Queries, Shaped(q), NEW r \in Queries, q.pc \notin {"enter", "done"},
         r.op = q.op, r.atomic = q.atomic, r.blocks = q.blocks,
         r.pc = IF q.blocks = <<>> THEN "done" ELSE "leave"
  PROVE  Shaped(r)
  <1>1. Under(r) = Under(q) /\ \A i : KindAt(r, i) = KindAt(q, i)
    BY DEF Under, KindAt
  <1>2. Len(q.blocks) \in 0..Under(q) + Extra(q.op)
    BY BlocksNumber DEF Shaped, Extra, Queries, Places
  <1> QED
    BY <1>1, <1>2, BlocksNumber DEF Shaped

\* The request enters a block.
LEMMA ShapedIn ==
  ASSUME NEW q \in Queries, Shaped(q), NEW r \in Queries, NEW kind \in BlockKinds,
         r.op = q.op, r.atomic = q.atomic, r.blocks = Append(q.blocks, kind),
         \/ q.pc = "enter" /\ q.atomic /\ kind = "endpoint" /\ r.pc = First(q.op)
         \/ q.pc = "guard" /\ kind = "update_or_create" /\ r.pc = "get"
         \/ q.pc = "get" /\ kind = "get_or_create" /\ r.pc = "insert"
         \/ q.pc = "start" /\ kind = "delete" /\ r.pc = "children"
  PROVE  Shaped(r)
  <1>1. Under(r) = Under(q) /\ \A i : KindAt(r, i) = KindAt(q, i)
    BY DEF Under, KindAt
  <1>2. q.op \in Operations /\ (q.atomic => Under(q) = 1) /\ q.blocks \in Seq(BlockKinds)
    BY DEF Queries, Under
  <1> DEFINE n == Len(q.blocks)
  <1>3. /\ n \in Nat /\ Len(r.blocks) = n + 1 /\ r.blocks[n + 1] = kind
        /\ \A i \in 1..n : r.blocks[i] = q.blocks[i]
    BY <1>2, PushedOn
  <1>4. kind = KindAt(q, n + 1)
    BY <1>2, BlocksNumber DEF Shaped, KindAt
  <1>5. \A i \in 1..n : q.blocks[i] = KindAt(q, i)
    BY DEF Shaped
  <1>6. \A i \in 1..Len(r.blocks) : i = n + 1 \/ i \in 1..n
    BY <1>3
  <1> HIDE DEF n
  <1>7. \A i \in 1..Len(r.blocks) : r.blocks[i] = KindAt(r, i)
    BY <1>1, <1>3, <1>4, <1>5, <1>6
  <1>8. /\ Under(q) \in {0, 1} /\ Extra(q.op) \in {0, 1, 2}
        /\ q.op = "create" <=> Extra(q.op) = 0
        /\ q.op = "update_or_create" <=> Extra(q.op) = 2
    BY BlocksNumber
  <1>9. CASE q.pc = "enter" /\ q.atomic /\ kind = "endpoint" /\ r.pc = First(q.op)
    <2>1. n = 0 /\ Len(r.blocks) = 1 /\ Under(r) = 1
      BY <1>1, <1>2, <1>3, <1>9 DEF Shaped, n
    <2>2. \/ q.op = "create" /\ r.pc = "insert"
          \/ q.op = "delete" /\ r.pc = "collect"
          \/ q.op = "update_or_create" /\ r.pc = "guard"
          \/ q.op = "get_or_create" /\ r.pc = "get"
      BY <1>2, <1>9 DEF First, Operations
    <2>3. CASE q.op = "create" /\ r.pc = "insert"
      BY <1>7, <1>8, <2>1, <2>3 DEF Shaped
    <2>4. CASE q.op = "delete" /\ r.pc = "collect"
      BY <1>7, <1>8, <2>1, <2>4 DEF Shaped
    <2>5. CASE q.op = "update_or_create" /\ r.pc = "guard"
      BY <1>7, <1>8, <2>1, <2>5 DEF Shaped
    <2>6. CASE q.op = "get_or_create" /\ r.pc = "get"
      BY <1>7, <1>8, <2>1, <2>6 DEF Shaped
    <2> QED
      BY <2>2, <2>3, <2>4, <2>5, <2>6
  <1>10. CASE q.pc = "guard" /\ kind = "update_or_create" /\ r.pc = "get"
    <2>1. n = Under(q) /\ q.op = "update_or_create"
      BY <1>10 DEF Shaped, n
    <2> QED
      BY <1>1, <1>3, <1>7, <1>8, <1>10, <2>1 DEF Shaped
  <1>11. CASE q.pc = "get" /\ kind = "get_or_create" /\ r.pc = "insert"
    <2>1. /\ n = Under(q) + (IF q.op = "update_or_create" THEN 1 ELSE 0)
          /\ q.op \in {"get_or_create", "update_or_create"}
      BY <1>11 DEF Shaped, n
    <2>2. q.op = "get_or_create" => Extra(q.op) = 1
      BY DEF Extra
    <2>3. Len(r.blocks) = Under(r) + Extra(r.op)
      BY <1>1, <1>3, <1>8, <2>1, <2>2
    <2> QED
      BY <1>7, <1>11, <2>1, <2>3 DEF Shaped
  <1>12. CASE q.pc = "start" /\ kind = "delete" /\ r.pc = "children"
    <2>1. n = Under(q) /\ q.op = "delete"
      BY <1>12 DEF Shaped, n
    <2> QED
      BY <1>1, <1>3, <1>7, <1>8, <1>12, <2>1 DEF Shaped
  <1> QED
    BY <1>9, <1>10, <1>11, <1>12

\* The request has left the innermost block.
LEMMA ShapedAfter ==
  ASSUME NEW q \in Queries, Shaped(q), NEW raises \in BOOLEAN, q.pc = "leave", NEW r,
         r = After(q, Last(q.blocks), raises)
  PROVE  r \in Queries /\ Shaped(r)
  <1> DEFINE n == Len(q.blocks)
             kind == Last(q.blocks)
  <1>1. /\ n \in Nat /\ n >= 1 /\ n \in 1..Under(q) + Extra(q.op)
        /\ Under(q) \in {0, 1} /\ Extra(q.op) \in {0, 1, 2}
        /\ q.op = "create" <=> Extra(q.op) = 0
        /\ q.op = "update_or_create" <=> Extra(q.op) = 2
    BY BlocksNumber DEF Shaped
  <1>2. q.blocks \in Seq(BlockKinds) /\ q.blocks # <<>> /\ q.op \in Operations
    BY <1>1, BlocksNumber DEF Queries
  <1>3. /\ Front(q.blocks) \in Seq(BlockKinds) /\ Len(Front(q.blocks)) = n - 1
        /\ \A i \in 1..n - 1 : Front(q.blocks)[i] = q.blocks[i]
        /\ kind = q.blocks[n]
    BY <1>2, FrontOf
  <1>4. kind = KindAt(q, n)
    BY <1>1, <1>3 DEF Shaped
  <1> DEFINE place == CASE kind = "get_or_create" /\ raises /\ q.refused -> "again"
                     [] q.op = "update_or_create" /\ kind = "get_or_create" /\ ~raises -> "leave"
                     [] kind = q.op /\ kind # "delete" /\ ~raises -> "comment"
                     [] OTHER -> IF n = 1 THEN "done" ELSE "leave"
  <1>5. place \in {"again", "leave", "comment", "done"}
    OBVIOUS
  <1>6. r = [q EXCEPT !.raised = raises, !.pc = place, !.blocks = Front(q.blocks)]
    BY DEF After, Queries
  <1>7. r \in Queries
    <2> HIDE DEF place
    <2>1. place \in Places
      BY <1>5 DEF Places
    <2>2. r = [op |-> q.op, atomic |-> q.atomic, pc |-> place, blocks |-> Front(q.blocks),
               id |-> q.id, children |-> q.children, raised |-> raises, refused |-> q.refused]
      BY <1>6 DEF Queries
    <2> QED
      BY <1>3, <2>1, <2>2 DEF Queries
  <1>8. /\ r.op = q.op /\ r.atomic = q.atomic /\ r.pc = place /\ Len(r.blocks) = n - 1
        /\ \A i \in 1..n - 1 : r.blocks[i] = q.blocks[i]
    <2> HIDE DEF place
    <2> QED
      BY <1>3, <1>6 DEF Queries
  <1>9. Under(r) = Under(q) /\ \A i : KindAt(r, i) = KindAt(q, i)
    BY <1>8 DEF Under, KindAt
  <1>10. \A i \in 1..Len(r.blocks) : r.blocks[i] = KindAt(r, i)
    <2>1. \A i \in 1..n - 1 : i \in 1..n
      BY <1>1
    <2>2. \A i \in 1..n : q.blocks[i] = KindAt(q, i)
      BY DEF Shaped
    <2> HIDE DEF n
    <2> QED
      BY <1>8, <1>9, <2>1, <2>2
  <1>11. \/ n = Under(q) /\ kind = "endpoint"
         \/ n = Under(q) + 1 /\ kind = q.op /\ q.op # "create"
         \/ n = Under(q) + 2 /\ kind = "get_or_create" /\ q.op = "update_or_create"
    BY <1>1, <1>4 DEF KindAt
  <1>12. q.op \in {"create", "get_or_create", "update_or_create", "delete"}
    BY <1>2 DEF Operations
  <1>13. CASE n = Under(q) /\ kind = "endpoint"
    <2>1. n = 1 /\ place = "done"
      BY <1>1, <1>12, <1>13
    <2> HIDE DEF place, n, kind
    <2> QED
      BY <1>7, <1>8, <1>10, <2>1 DEF Shaped
  <1>14. CASE n = Under(q) + 1 /\ kind = q.op /\ q.op # "create"
    <2>1. Len(r.blocks) = Under(r)
      BY <1>1, <1>8, <1>9, <1>14
    <2>2. \/ place = "again" /\ q.op = "get_or_create"
          \/ place = "comment"
          \/ place = "done" /\ n = 1
          \/ place = "leave" /\ n # 1
      BY <1>12, <1>14
    <2> HIDE DEF place, kind
    <2>3. CASE place = "again" /\ q.op = "get_or_create"
      <3>1. Len(r.blocks) = Under(r) + (IF r.op = "update_or_create" THEN 1 ELSE 0)
        BY <1>1, <1>8, <1>9, <2>1, <2>3
      <3> QED
        BY <1>7, <1>8, <1>10, <2>3, <3>1 DEF Shaped
    <2>4. CASE place = "comment"
      BY <1>7, <1>8, <1>10, <2>1, <2>4 DEF Shaped
    <2>5. CASE place = "done" /\ n = 1
      BY <1>7, <1>8, <1>10, <2>5 DEF Shaped
    <2>6. CASE place = "leave" /\ n # 1
      <3> HIDE DEF n
      <3>a. n = 2 /\ Under(q) = 1
        BY <1>1, <1>14, <2>6
      <3>b. Len(r.blocks) = n - 1 /\ Under(r) = Under(q) /\ r.op = q.op
        BY <1>8, <1>9
      <3>0. Len(r.blocks) = 1 /\ Under(r) = 1 /\ Extra(r.op) \in {0, 1, 2}
        BY <1>1, <3>a, <3>b
      <3>c. Under(r) + Extra(r.op) \in {1, 2, 3}
        BY <3>0
      <3>1. Len(r.blocks) \in 1..Under(r) + Extra(r.op)
        <4>1. \A x \in {1, 2, 3} : 1 \in 1..x
          OBVIOUS
        <4> QED
          BY <3>0, <3>c, <4>1, Zenon
      <3> QED
        BY <1>7, <1>8, <1>10, <2>6, <3>1 DEF Shaped
    <2> QED
      BY <2>2, <2>3, <2>4, <2>5, <2>6
  <1>15. CASE n = Under(q) + 2 /\ kind = "get_or_create" /\ q.op = "update_or_create"
    <2>1. Len(r.blocks) = Under(r) + 1 /\ n # 1 /\ Extra(r.op) = 2
      BY <1>1, <1>8, <1>9, <1>15
    <2>2. place \in {"again", "leave"}
      <3> HIDE DEF n, kind
      <3>1. CASE raises /\ q.refused
        BY <1>15, <3>1
      <3>2. CASE raises /\ ~q.refused
        BY <1>15, <2>1, <3>2
      <3>3. CASE ~raises
        BY <1>15, <3>3
      <3> QED
        BY <3>1, <3>2, <3>3
    <2> HIDE DEF place, n, kind
    <2>3. Len(r.blocks) = Under(r) + (IF r.op = "update_or_create" THEN 1 ELSE 0)
      BY <1>8, <1>15, <2>1
    <2>4. Len(r.blocks) \in 1..Under(r) + Extra(r.op)
      BY <1>1, <1>9, <2>1
    <2> QED
      BY <1>7, <1>8, <1>10, <1>15, <2>2, <2>3, <2>4 DEF Shaped
  <1> QED
    BY <1>7, <1>11, <1>13, <1>14, <1>15
-----------------------------------------------------------------------------
(* Every step keeps the types and the shape of the blocks *)

\* A connection has a savepoint for every block that is open on it.
PointsInv ==
  /\ pure => \A t \in Tasks : Len(points[t]) = Len(query[t].blocks)
  /\ ~pure => IsFiniteSet(Inside) /\ Len(points[Main]) = Cardinality(Inside)

\* By sync_to_async a query needs no block of its own.
FlatInv ==
  ~pure => \A t \in Tasks : /\ Len(query[t].blocks) <= Under(query[t])
                            /\ query[t].pc \notin {"start", "again"}

ShapeInv == DatabaseTypes /\ RequestTypes /\ BlocksInv /\ PointsInv /\ FlatInv

Kept(t) == DatabaseTypes' /\ Elsewhere(Conn(t)) /\ (gone => gone') /\ (TagLeft => TagLeft')

Asked(t) ==
  /\ query' \in [Tasks -> Queries] /\ Shaped(query'[t])
  /\ \A u \in Tasks \ {t} : query'[u] = query[u]
  /\ UNCHANGED pure /\ met' \subseteq Tasks /\ met \subseteq met'

\* Who leaves a block is in one, and its connection in a transaction.
LEMMA LeavesBlock ==
  ASSUME ShapeInv, NEW t \in Tasks, query[t].pc = "leave"
  PROVE  InTx(Conn(t)) /\ query[t].blocks # <<>>
  <1>1. query[t] \in Queries /\ Shaped(query[t])
    BY DEF ShapeInv, RequestTypes, BlocksInv
  <1>2. Len(query[t].blocks) \in Nat /\ Len(query[t].blocks) >= 1 /\ query[t].blocks # <<>>
    BY <1>1, BlocksNumber DEF Shaped
  <1>3. CASE pure
    <2>1. Len(points[t]) >= 1 /\ Conn(t) = t
      BY <1>2, <1>3 DEF ShapeInv, PointsInv, Conn
    <2> QED
      BY <1>2, <2>1 DEF InTx
  <1>4. CASE ~pure
    <2>1. IsFiniteSet(Inside) /\ Len(points[Main]) = Cardinality(Inside) /\ Conn(t) = Main
      BY <1>4 DEF ShapeInv, PointsInv, Conn
    <2>2. t \in Inside
      BY <1>2 DEF Inside
    <2>3. Cardinality(Inside) # 0
      BY <2>1, <2>2, FS_EmptySet
    <2> QED
      BY <1>2, <2>1, <2>3 DEF InTx
  <1> QED
    BY <1>3, <1>4

\* Meeting others adds requests to those that met.
LEMMA MeetTypes ==
  ASSUME RequestTypes, NEW t \in Tasks, Meet(t, Inside)
  PROVE  met' \subseteq Tasks /\ met \subseteq met'
  BY DEF RequestTypes, Meet, Inside

\* One request changes, the others stay.
LEMMA RequestWritten ==
  ASSUME RequestTypes, NEW t \in Tasks, NEW r \in Queries, query' = [query EXCEPT ![t] = r]
  PROVE  /\ query' \in [Tasks -> Queries] /\ query'[t] = r
         /\ \A u \in Tasks \ {t} : query'[u] = query[u]
  BY DEF RequestTypes

\* A step that leaves the database alone keeps what the others rely on.
LEMMA KeptUnchanged ==
  ASSUME DatabaseTypes, UNCHANGED <<tagRow, comment, work, points, spoiled, gone>>, NEW t \in Tasks
  PROVE  Kept(t)
  BY DEF Kept, DatabaseTypes, Elsewhere, InTx, TagLeft

\* The request goes to another place.
LEMMA GotoRequest ==
  ASSUME RequestTypes, NEW t \in Tasks, NEW pc \in Places, Goto(t, pc)
  PROVE  \E r \in Queries : r = [query[t] EXCEPT !.pc = pc] /\ query' = [query EXCEPT ![t] = r]
  <1> DEFINE q == query[t]
             r == [q EXCEPT !.pc = pc]
  <1>1. q \in Queries
    BY DEF RequestTypes
  <1>2. query' = [query EXCEPT ![t] = r]
    BY DEF Goto, RequestTypes
  <1>3. r \in Queries
    <2> HIDE DEF q
    <2> QED
      BY <1>1 DEF Queries
  <1> QED
    BY <1>2, <1>3

\* The request after its statement raised.
LEMMA RaisedRequest ==
  ASSUME RequestTypes, NEW t \in Tasks, NEW integrity \in BOOLEAN, Raised(t, integrity)
  PROVE  \E r \in Queries :
           /\ r = [query[t] EXCEPT !.raised = TRUE, !.refused = integrity,
                                   !.pc = IF query[t].blocks = <<>> THEN "done" ELSE "leave"]
           /\ query' = [query EXCEPT ![t] = r]
  <1> DEFINE q == query[t]
             pc == IF q.blocks = <<>> THEN "done" ELSE "leave"
             r == [q EXCEPT !.raised = TRUE, !.refused = integrity, !.pc = pc]
  <1>1. q \in Queries /\ pc \in Places
    BY DEF RequestTypes, Places
  <1>2. query' = [query EXCEPT ![t] = r]
    BY DEF Raised, RequestTypes
  <1>3. r \in Queries
    <2> HIDE DEF q, pc
    <2> QED
      BY <1>1 DEF Queries
  <1> QED
    BY <1>2, <1>3

\* A statement that raises changes its request only, which leaves its blocks next.
LEMMA RaisedAsked ==
  ASSUME RequestTypes, BlocksInv, NEW t \in Tasks, NEW integrity \in BOOLEAN, Raised(t, integrity),
         query[t].pc \notin {"enter", "done"}, UNCHANGED pure, met' \subseteq Tasks, met \subseteq met'
  PROVE  /\ Asked(t)
         /\ query'[t].op = query[t].op /\ query'[t].id = query[t].id
         /\ query'[t].atomic = query[t].atomic /\ query'[t].blocks = query[t].blocks
         /\ query'[t].raised /\ query'[t].refused = integrity
         /\ query'[t].pc = IF query[t].blocks = <<>> THEN "done" ELSE "leave"
  <1>1. PICK r \in Queries :
           /\ r = [query[t] EXCEPT !.raised = TRUE, !.refused = integrity,
                                   !.pc = IF query[t].blocks = <<>> THEN "done" ELSE "leave"]
           /\ query' = [query EXCEPT ![t] = r]
    BY RaisedRequest
  <1>2. query[t] \in Queries /\ Shaped(query[t])
    BY DEF RequestTypes, BlocksInv
  <1>3. /\ r.op = query[t].op /\ r.id = query[t].id /\ r.atomic = query[t].atomic
        /\ r.blocks = query[t].blocks /\ r.raised /\ r.refused = integrity
        /\ r.pc = IF query[t].blocks = <<>> THEN "done" ELSE "leave"
    BY <1>1, <1>2 DEF Queries
  <1>4. Shaped(r)
    BY <1>2, <1>3, ShapedOut
  <1>5. /\ query' \in [Tasks -> Queries] /\ query'[t] = r
        /\ \A u \in Tasks \ {t} : query'[u] = query[u]
    BY <1>1, RequestWritten
  <1> QED
    BY <1>3, <1>4, <1>5 DEF Asked

\* A statement that is refused spoils the transaction it is in.
LEMMA RefuseKept ==
  ASSUME DatabaseTypes, NEW t \in Tasks, Refuse(t)
  PROVE  /\ Kept(t) /\ UNCHANGED <<pure, tagRow, comment, work, points, gone>>
         /\ spoiled'[Conn(t)] = InTx(Conn(t)) /\ Raised(t, TRUE)
  <1>1. /\ spoiled' = [spoiled EXCEPT ![Conn(t)] = InTx(Conn(t))] /\ Raised(t, TRUE)
        /\ UNCHANGED <<pure, tagRow, comment, work, points, gone>>
    BY DEF Refuse
  <1>2. Conn(t) \in Connections /\ InTx(Conn(t)) \in BOOLEAN
    BY ConnType DEF InTx
  <1>3. /\ spoiled' \in [Connections -> BOOLEAN] /\ spoiled'[Conn(t)] = InTx(Conn(t))
        /\ \A d \in Connections \ {Conn(t)} : spoiled'[d] = spoiled[d]
    BY <1>1, <1>2 DEF DatabaseTypes
  <1>4. \A d \in Connections : InTx(d)' \/ (work'[d] = Untouched /\ ~spoiled'[d])
    BY <1>1, <1>3 DEF DatabaseTypes, InTx
  <1> QED
    BY <1>1, <1>3, <1>4 DEF Kept, DatabaseTypes, Elsewhere, TagLeft

\* Entering a block writes nothing.
LEMMA EnterKept ==
  ASSUME DatabaseTypes, NEW t \in Tasks, NEW kind, NEW pc, EnterBlock(t, kind, pc)
  PROVE  /\ Kept(t) /\ UNCHANGED <<pure, tagRow, comment, work, spoiled, gone>>
         /\ Len(points'[Conn(t)]) = Len(points[Conn(t)]) + 1
         /\ points'[Conn(t)] = Append(points[Conn(t)], IF spoiled[Conn(t)] THEN <<>> ELSE <<work[Conn(t)]>>)
  BY ConnType, OpenTypes DEF EnterBlock, Kept

\* Entering a block changes only the request that does.
LEMMA EnterAsked ==
  ASSUME RequestTypes, BlocksInv, NEW t \in Tasks, NEW kind \in BlockKinds, NEW pc \in Places,
         EnterBlock(t, kind, pc), met' \subseteq Tasks, met \subseteq met',
         LET q == query[t] IN
         \/ q.pc = "enter" /\ q.atomic /\ kind = "endpoint" /\ pc = First(q.op)
         \/ q.pc = "guard" /\ kind = "update_or_create" /\ pc = "get"
         \/ q.pc = "get" /\ kind = "get_or_create" /\ pc = "insert"
         \/ q.pc = "start" /\ kind = "delete" /\ pc = "children"
  PROVE  /\ Asked(t) /\ query'[t] = [query[t] EXCEPT !.blocks = Append(@, kind), !.pc = pc]
         /\ Len(query'[t].blocks) = Len(query[t].blocks) + 1
  <1> DEFINE q == query[t]
             r == [q EXCEPT !.blocks = Append(@, kind), !.pc = pc]
  <1>1. q \in Queries /\ Shaped(q)
    BY DEF RequestTypes, BlocksInv
  <1>2. query' = [query EXCEPT ![t] = r]
    BY DEF EnterBlock, RequestTypes
  <1>3. /\ Append(q.blocks, kind) \in Seq(BlockKinds)
        /\ Len(Append(q.blocks, kind)) = Len(q.blocks) + 1
    BY <1>1, PushedOn DEF Queries
  <1>4. r \in Queries /\ r.op = q.op /\ r.atomic = q.atomic /\ r.pc = pc
        /\ r.blocks = Append(q.blocks, kind)
    <2> HIDE DEF q
    <2> QED
      BY <1>1, <1>3 DEF Queries
  <1> HIDE DEF r
  <1>5. Shaped(r)
    BY <1>1, <1>4, ShapedIn
  <1>6. /\ query' \in [Tasks -> Queries] /\ query'[t] = r
        /\ \A u \in Tasks \ {t} : query'[u] = query[u]
    BY <1>2, <1>4, RequestWritten
  <1>7. UNCHANGED pure
    BY DEF EnterBlock
  <1> QED
    BY <1>3, <1>4, <1>5, <1>6, <1>7 DEF Asked, r

\* What a request that writes does to its own connection.
LEMMA WritesTypes ==
  ASSUME DatabaseTypes, NEW t \in Tasks
  PROVE  /\ Writing(t) \in Works /\ SeenTag(t) \in Tags
         /\ \A row \in Tags : [Writing(t) EXCEPT !.tag = row] \in Works
         /\ \A id \in Refs : [Writing(t) EXCEPT !.comment[t] = id] \in Works
         /\ \A of \in SUBSET Tasks :
              [Writing(t) EXCEPT !.comment = [u \in Tasks |->
                 IF u \in of /\ SeenComment(t, u) # NoRef THEN NoRef ELSE @[u]]] \in Works
         /\ [tag |-> NoTag, comment |-> [u \in Tasks |-> NoRef]] \in Works
  <1> DEFINE w == Writing(t)
  <1>1. w \in Works
    BY ConnType DEF DatabaseTypes, Writing
  <1>2. SeenTag(t) \in Tags
    BY <1>1 DEF SeenTag, Over, DatabaseTypes, Writing, Works
  <1>3. \A row \in Tags : [w EXCEPT !.tag = row] \in Works
    <2> HIDE DEF w
    <2> QED
      BY <1>1 DEF Works
  <1>4. \A id \in Refs : [w EXCEPT !.comment[t] = id] \in Works
    <2> HIDE DEF w
    <2> QED
      BY <1>1 DEF Works
  <1>5. ASSUME NEW of \in SUBSET Tasks
        PROVE  [w EXCEPT !.comment = [u \in Tasks |->
                  IF u \in of /\ SeenComment(t, u) # NoRef THEN NoRef ELSE @[u]]] \in Works
    <2> HIDE DEF w
    <2>1. NoRef \in Refs
      BY DEF Refs
    <2> QED
      BY <1>1, <2>1 DEF Works
  <1>6. [tag |-> NoTag, comment |-> [u \in Tasks |-> NoRef]] \in Works
    BY TagFacts DEF Works
  <1> QED
    BY <1>1, <1>2, <1>3, <1>4, <1>5, <1>6

\* The object was there: the request has an id.
LEMMA GotAsked ==
  ASSUME DatabaseTypes, RequestTypes, BlocksInv, NEW t \in Tasks, Got(t), SeenTag(t) # NoTag,
         query[t].pc \in {"get", "again"}, UNCHANGED <<pure, met>>
  PROVE  Asked(t) /\ query'[t].id \in Ids /\ query'[t].op = query[t].op
         /\ query'[t].blocks = query[t].blocks
  <1> DEFINE q == query[t]
             id == SeenTag(t)[1]
             pc == IF q.op = "update_or_create" THEN "update" ELSE "comment"
             r == [q EXCEPT !.id = id, !.raised = FALSE, !.refused = FALSE, !.pc = pc]
  <1>1. q \in Queries /\ Shaped(q) /\ id \in Ids /\ id \in Refs /\ pc \in Places
    BY WritesTypes, TagFacts DEF RequestTypes, BlocksInv, Refs, Places
  <1>2. query' = [query EXCEPT ![t] = r]
    BY DEF Got, RequestTypes
  <1>3. /\ r \in Queries /\ r.op = q.op /\ r.atomic = q.atomic /\ r.blocks = q.blocks
        /\ r.pc = pc /\ r.id = id
    <2> HIDE DEF q, id, pc
    <2> QED
      BY <1>1 DEF Queries
  <1> HIDE DEF r
  <1>4. Shaped(r)
    BY <1>1, <1>3, ShapedThere
  <1>5. /\ query' \in [Tasks -> Queries] /\ query'[t] = r
        /\ \A u \in Tasks \ {t} : query'[u] = query[u]
    BY <1>2, <1>3, RequestWritten
  <1> QED
    BY <1>1, <1>3, <1>4, <1>5 DEF Asked, RequestTypes

\* An exit pops the innermost savepoint.
LEMMA ExitKept ==
  ASSUME DatabaseTypes, NEW t \in Tasks, InTx(Conn(t)), NEW raised \in BOOLEAN,
         NEW raises \in BOOLEAN, Exit(t, raised, raises)
  PROVE  /\ Kept(t) /\ Len(points'[Conn(t)]) = Len(points[Conn(t)]) - 1
         /\ raised => Rollback(Conn(t)) /\ raises
  <1> DEFINE c == Conn(t)
  <1>1. c \in Connections
    BY ConnType
  <1> DEFINE Popped == Kept(t) /\ Len(points'[c]) = Len(points[c]) - 1
  <1>2. ASSUME Rollback(c) PROVE Popped
    BY <1>1, <1>2, RollbackTypes DEF Kept
  <1>3. ASSUME Release(c), Len(points[c]) # 1 PROVE Popped
    BY <1>1, <1>3, ReleaseTypes DEF Kept
  <1>4. ASSUME Commit(c), Len(points[c]) = 1, ~spoiled[c] PROVE Popped
    BY <1>1, <1>4, CommitTypes DEF Kept
  <1>5. \/ Rollback(c) \/ (Release(c) /\ Len(points[c]) # 1)
        \/ (Commit(c) /\ Len(points[c]) = 1 /\ ~spoiled[c])
    BY DEF Exit
  <1>6. raised => Rollback(c) /\ raises
    BY DEF Exit
  <1> QED
    BY <1>2, <1>3, <1>4, <1>5, <1>6

\* Every step keeps the database typed, changes one connection and one request.
LEMMA StepKept ==
  ASSUME ShapeInv, NEW t \in Tasks, QueryStep(t) PROVE Kept(t) /\ Asked(t)
  <1> DEFINE q == query[t]
             c == Conn(t)
  <1>t. DatabaseTypes /\ RequestTypes /\ BlocksInv /\ PointsInv /\ FlatInv
    BY DEF ShapeInv
  <1>q. /\ q \in Queries /\ Shaped(q) /\ c \in Connections /\ met \subseteq Tasks
        /\ q.op \in Operations
    BY <1>t, ConnType DEF RequestTypes, BlocksInv, Queries
  <1>f. First(q.op) \in Places /\ First(q.op) \in {"insert", "collect", "guard", "get"}
    BY DEF First, Places
  <1>w. ASSUME NEW r \in Queries, query' = [query EXCEPT ![t] = r], Shaped(r), UNCHANGED pure,
               met' \subseteq Tasks, met \subseteq met'
        PROVE  Asked(t)
    BY <1>t, <1>w, RequestWritten DEF Asked
  <1>1. CASE Enter(t)
    <2>1. q.pc = "enter"
      BY <1>1 DEF Enter, Stands
    <2>2. CASE q.atomic
      <3>1. EnterBlock(t, "endpoint", First(q.op)) /\ Meet(t, Inside)
        BY <1>1, <2>2 DEF Enter
      <3>2. "endpoint" \in BlockKinds
        BY DEF BlockKinds
      <3> QED
        BY <1>t, <1>f, <2>1, <2>2, <3>1, <3>2, EnterKept, EnterAsked, MeetTypes
    <2>3. CASE ~q.atomic
      <3>1. Goto(t, First(q.op)) /\ UNCHANGED <<pure, databaseVars, met, gone>>
        BY <1>1, <2>3 DEF Enter
      <3>2. PICK r \in Queries : r = [q EXCEPT !.pc = First(q.op)] /\ query' = [query EXCEPT ![t] = r]
        BY <1>t, <1>f, <3>1, GotoRequest
      <3>3. r.op = q.op /\ r.atomic = q.atomic /\ r.blocks = q.blocks /\ r.pc = First(q.op)
        BY <1>q, <3>2 DEF Queries
      <3>4. Shaped(r)
        BY <1>q, <2>1, <2>3, <3>3, ShapedThere
      <3> QED
        BY <1>t, <1>q, <1>w, <3>1, <3>2, <3>4, KeptUnchanged DEF databaseVars
    <2> QED
      BY <2>2, <2>3
  <1>2. CASE Broken(t)
    <2>1. q.pc \notin {"enter", "done"} /\ Raised(t, FALSE) /\ Meet(t, Inside)
          /\ UNCHANGED <<pure, databaseVars, gone>>
      BY <1>2 DEF Broken
    <2> QED
      BY <1>t, <2>1, MeetTypes, RaisedAsked, KeptUnchanged DEF databaseVars
  <1>3. CASE Guard(t)
    <2>1. q.pc = "guard" /\ EnterBlock(t, "update_or_create", "get") /\ UNCHANGED met
      BY <1>3 DEF Guard, Ready, Stands
    <2>2. "update_or_create" \in BlockKinds /\ "get" \in Places
      BY DEF BlockKinds, Places
    <2> QED
      BY <1>t, <1>q, <2>1, <2>2, EnterKept, EnterAsked
  <1>4. CASE GetTag(t)
    <2>1. q.pc = "get" /\ UNCHANGED met
      BY <1>4 DEF GetTag, Ready, Stands
    <2>2. CASE SeenTag(t) # NoTag
      <3>1. Got(t) /\ UNCHANGED <<pure, databaseVars, gone>>
        BY <1>4, <2>2 DEF GetTag
      <3> QED
        BY <1>t, <2>1, <2>2, <3>1, GotAsked, KeptUnchanged DEF databaseVars
    <2>3. CASE SeenTag(t) = NoTag
      <3>1. EnterBlock(t, "get_or_create", "insert")
        BY <1>4, <2>3 DEF GetTag
      <3>2. "get_or_create" \in BlockKinds /\ "insert" \in Places
        BY DEF BlockKinds, Places
      <3> QED
        BY <1>t, <1>q, <2>1, <3>1, <3>2, EnterKept, EnterAsked
    <2> QED
      BY <2>2, <2>3
  <1>5. CASE InsertTag(t)
    <2>1. q.pc = "insert" /\ UNCHANGED met
      BY <1>5 DEF InsertTag, Ready, Stands
    <2>2. CASE Refuse(t)
      BY <1>t, <1>q, <2>1, <2>2, RefuseKept, RaisedAsked
    <2>3. CASE ~Refuse(t)
      <3> DEFINE pc == IF q.op = "create" THEN "comment" ELSE "leave"
                 r == [q EXCEPT !.id = t, !.pc = pc]
      <3>1. /\ Perform(t, [Writing(t) EXCEPT !.tag = Tag(t, t)])
            /\ query' = [query EXCEPT ![t] = r] /\ UNCHANGED <<pure, points, spoiled>>
        BY <1>t, <1>5, <2>3 DEF InsertTag, RequestTypes
      <3>2. Tag(t, t) \in Tags /\ pc \in Places /\ t \in Refs
        BY TagFacts DEF Ids, Refs, Places
      <3>3. Kept(t)
        BY <1>t, <3>1, <3>2, WritesTypes, PerformTypes DEF Kept
      <3>4. /\ r \in Queries /\ r.op = q.op /\ r.atomic = q.atomic /\ r.blocks = q.blocks
            /\ r.pc = pc
        <4> HIDE DEF q, pc
        <4> QED
          BY <1>q, <3>2 DEF Queries
      <3> HIDE DEF r
      <3>5. Shaped(r)
        <4>1. CASE q.op = "create"
          BY <1>q, <2>1, <3>4, <4>1, ShapedThere
        <4>2. CASE q.op # "create"
          <5>1. Len(q.blocks) # 0
            BY <1>q, <2>1, <4>2, BlocksNumber DEF Shaped
          <5> QED
            BY <1>q, <2>1, <3>4, <4>2, <5>1, BlocksNumber, ShapedOut
        <4> QED
          BY <4>1, <4>2
      <3> QED
        BY <1>q, <1>w, <2>1, <3>1, <3>3, <3>4, <3>5
    <2> QED
      BY <2>2, <2>3
  <1>6. CASE Again(t)
    <2>1. q.pc = "again" /\ UNCHANGED <<pure, databaseVars, gone, met>>
      BY <1>6 DEF Again, Ready, Stands
    <2>2. CASE SeenTag(t) # NoTag
      <3>1. Got(t)
        BY <1>6, <2>2 DEF Again
      <3> QED
        BY <1>t, <2>1, <2>2, <3>1, GotAsked, KeptUnchanged DEF databaseVars
    <2>3. CASE SeenTag(t) = NoTag
      <3>1. Raised(t, TRUE)
        BY <1>6, <2>3 DEF Again
      <3> QED
        BY <1>t, <1>q, <2>1, <3>1, RaisedAsked, KeptUnchanged DEF databaseVars
    <2> QED
      BY <2>2, <2>3
  <1>7. CASE Update(t)
    <2>1. q.pc = "update" /\ Goto(t, "leave") /\ UNCHANGED <<pure, points, spoiled, met>>
      BY <1>7 DEF Update, Ready, Stands
    <2>2. "leave" \in Places
      BY DEF Places
    <2>3. PICK r \in Queries : r = [q EXCEPT !.pc = "leave"] /\ query' = [query EXCEPT ![t] = r]
      BY <1>t, <2>1, <2>2, GotoRequest
    <2>4. r.op = q.op /\ r.atomic = q.atomic /\ r.blocks = q.blocks /\ r.pc = "leave"
      BY <1>q, <2>3 DEF Queries
    <2>5. q.blocks # <<>>
      <3>1. Len(q.blocks) = Under(q) + 1
        BY <1>q, <2>1 DEF Shaped
      <3> QED
        BY <1>q, <3>1, BlocksNumber
    <2>6. Shaped(r)
      BY <1>q, <2>1, <2>4, <2>5, ShapedOut
    <2>7. Kept(t)
      <3>1. CASE HasId(SeenTag(t), q.id)
        <4>1. Perform(t, [Writing(t) EXCEPT !.tag = Tag(q.id, t)])
          BY <1>7, <3>1 DEF Update
        <4>2. q.id \in Ids
          BY <1>t, <3>1, WritesTypes, TagFacts DEF HasId
        <4>3. Tag(q.id, t) \in Tags
          BY <4>2, TagFacts DEF Ids
        <4> QED
          BY <1>t, <2>1, <4>1, <4>3, WritesTypes, PerformTypes DEF Kept
      <3>2. CASE ~HasId(SeenTag(t), q.id)
        <4>1. UNCHANGED <<tagRow, comment, work, gone>>
          BY <1>7, <3>2 DEF Update
        <4> QED
          BY <1>t, <2>1, <4>1, KeptUnchanged
      <3> QED
        BY <3>1, <3>2
    <2> QED
      BY <1>q, <1>w, <2>1, <2>3, <2>6, <2>7
  <1>8. CASE Collect(t)
    <2>1. q.pc = "collect" /\ UNCHANGED <<pure, databaseVars, gone, met>>
      BY <1>8 DEF Collect, Ready, Stands
    <2>2. Kept(t)
      BY <1>t, <2>1, KeptUnchanged DEF databaseVars
    <2>3. CASE SeenTag(t) = NoTag
      <3> DEFINE r == [q EXCEPT !.pc = Return(t)]
      <3>1. query' = [query EXCEPT ![t] = r]
        BY <1>t, <1>8, <2>3 DEF Collect, RequestTypes
      <3>2. Return(t) = IF q.blocks = <<>> THEN "done" ELSE "leave"
        BY <1>q, <2>1, BlocksNumber DEF Return, Shaped, Under
      <3>3. /\ r \in Queries /\ r.op = q.op /\ r.atomic = q.atomic /\ r.blocks = q.blocks
            /\ r.pc = Return(t)
        <4>1. Return(t) \in Places
          BY DEF Return, Places
        <4> HIDE DEF q
        <4> QED
          BY <1>q, <4>1 DEF Queries
      <3> HIDE DEF r
      <3>4. Shaped(r)
        BY <1>q, <2>1, <3>2, <3>3, ShapedOut
      <3> QED
        BY <1>q, <1>w, <2>1, <2>2, <3>1, <3>3, <3>4
    <2>4. CASE SeenTag(t) # NoTag
      <3> DEFINE id == SeenTag(t)[1]
                 of == {u \in Tasks : SeenComment(t, u) = id}
                 r == [q EXCEPT !.pc = "start", !.id = id, !.children = of]
      <3>1. query' = [query EXCEPT ![t] = r]
        BY <1>t, <1>8, <2>4 DEF Collect, RequestTypes
      <3>2. id \in Refs /\ of \in SUBSET Tasks /\ "start" \in Places
        BY <1>t, <2>4, WritesTypes, TagFacts DEF Refs, Places
      <3>3. /\ r \in Queries /\ r.op = q.op /\ r.atomic = q.atomic /\ r.blocks = q.blocks
            /\ r.pc = "start"
        <4> HIDE DEF q, id, of
        <4> QED
          BY <1>q, <3>2 DEF Queries
      <3> HIDE DEF r
      <3>4. Shaped(r)
        BY <1>q, <2>1, <3>3, ShapedThere
      <3> QED
        BY <1>q, <1>w, <2>1, <2>2, <3>1, <3>3, <3>4
    <2> QED
      BY <2>3, <2>4
  <1>9. CASE StartDelete(t)
    <2>1. q.pc = "start" /\ EnterBlock(t, "delete", "children") /\ UNCHANGED met
      BY <1>9 DEF StartDelete, Stands
    <2>2. "delete" \in BlockKinds /\ "children" \in Places
      BY DEF BlockKinds, Places
    <2> QED
      BY <1>t, <1>q, <2>1, <2>2, EnterKept, EnterAsked
  <1>10. CASE DeleteChildren(t)
    <2>1. /\ q.pc = "children" /\ Goto(t, "row") /\ UNCHANGED <<pure, points, spoiled, met>>
          /\ Perform(t, [Writing(t) EXCEPT !.comment = [u \in Tasks |->
                IF u \in q.children /\ SeenComment(t, u) # NoRef THEN NoRef ELSE @[u]]])
      BY <1>10 DEF DeleteChildren, Ready, Stands
    <2>2. "row" \in Places /\ q.children \in SUBSET Tasks
      BY <1>q DEF Places, Queries
    <2>3. PICK r \in Queries : r = [q EXCEPT !.pc = "row"] /\ query' = [query EXCEPT ![t] = r]
      BY <1>t, <2>1, <2>2, GotoRequest
    <2>4. r.op = q.op /\ r.atomic = q.atomic /\ r.blocks = q.blocks /\ r.pc = "row"
      BY <1>q, <2>3 DEF Queries
    <2>5. Shaped(r)
      BY <1>q, <2>1, <2>4, ShapedThere
    <2>6. Kept(t)
      <3> DEFINE w == [Writing(t) EXCEPT !.comment = [u \in Tasks |->
                         IF u \in q.children /\ SeenComment(t, u) # NoRef THEN NoRef ELSE @[u]]]
      <3>1. w \in Works
        BY <1>t, <2>2, WritesTypes
      <3>2. Perform(t, w)
        BY <2>1
      <3> HIDE DEF w
      <3> QED
        BY <1>t, <2>1, <3>1, <3>2, PerformTypes DEF Kept
    <2> QED
      BY <1>q, <1>w, <2>1, <2>3, <2>5, <2>6
  <1>11. CASE DeleteRow(t)
    <2>1. q.pc = "row" /\ Goto(t, "leave") /\ UNCHANGED <<pure, points, spoiled, met>>
      BY <1>11 DEF DeleteRow, Ready, Stands
    <2>2. "leave" \in Places
      BY DEF Places
    <2>3. PICK r \in Queries : r = [q EXCEPT !.pc = "leave"] /\ query' = [query EXCEPT ![t] = r]
      BY <1>t, <2>1, <2>2, GotoRequest
    <2>4. r.op = q.op /\ r.atomic = q.atomic /\ r.blocks = q.blocks /\ r.pc = "leave"
      BY <1>q, <2>3 DEF Queries
    <2>5. q.blocks # <<>>
      <3>1. Len(q.blocks) = Under(q) + 1
        BY <1>q, <2>1 DEF Shaped
      <3> QED
        BY <1>q, <3>1, BlocksNumber
    <2>6. Shaped(r)
      BY <1>q, <2>1, <2>4, <2>5, ShapedOut
    <2>7. Kept(t)
      <3>1. CASE HasId(SeenTag(t), q.id)
        <4>1. Perform(t, [Writing(t) EXCEPT !.tag = NoTag])
          BY <1>11, <3>1 DEF DeleteRow
        <4> QED
          BY <1>t, <2>1, <4>1, TagFacts, WritesTypes, PerformTypes DEF Kept
      <3>2. CASE ~HasId(SeenTag(t), q.id)
        <4>1. UNCHANGED <<tagRow, comment, work, gone>>
          BY <1>11, <3>2 DEF DeleteRow
        <4> QED
          BY <1>t, <2>1, <4>1, KeptUnchanged
      <3> QED
        BY <3>1, <3>2
    <2> QED
      BY <1>q, <1>w, <2>1, <2>3, <2>6, <2>7
  <1>12. CASE InThread(t)
    <2> DEFINE row == SeenTag(t)
               id == IF row = NoTag THEN t ELSE row[1]
               w == CASE q.op = "delete" -> [tag |-> NoTag, comment |-> [u \in Tasks |-> NoRef]]
                      [] q.op = "get_or_create" /\ row # NoTag -> work[c]
                      [] OTHER -> [work[c] EXCEPT !.tag = Tag(id, t)]
               pc == IF q.op # "delete" THEN "comment" ELSE Return(t)
               r == [q EXCEPT !.id = id, !.pc = pc]
    <2>1. /\ ~pure /\ q.pc \in {"insert", "get", "guard", "collect"} /\ Meet(t, Inside)
          /\ \/ Refuse(t)
             \/ /\ Perform(t, w) /\ UNCHANGED <<pure, points, spoiled>>
                /\ query' = [query EXCEPT ![t] = r]
      BY <1>t, <1>12 DEF InThread, Ready, Stands, RequestTypes
    <2>2. Len(q.blocks) = Under(q)
      BY <1>t, <1>q, <2>1, BlocksNumber DEF FlatInv, Shaped
    <2>3. CASE Refuse(t)
      BY <1>t, <1>q, <2>1, <2>3, RefuseKept, RaisedAsked, MeetTypes
    <2>4. CASE ~Refuse(t)
      <3>1. id \in Ids /\ id \in Refs
        BY <1>t, WritesTypes, TagFacts DEF Ids, Refs
      <3>2. Tag(id, t) \in Tags
        BY <3>1, TagFacts DEF Ids
      <3>3. w \in Works
        <4>1. Writing(t) = work[c]
          BY DEF Writing
        <4> HIDE DEF c, id
        <4> QED
          BY <1>t, <3>2, <4>1, WritesTypes
      <3>4. Perform(t, w) /\ UNCHANGED <<pure, points, spoiled>> /\ query' = [query EXCEPT ![t] = r]
        BY <2>1, <2>4
      <3>5. Kept(t)
        <4> HIDE DEF w
        <4> QED
          BY <1>t, <3>3, <3>4, PerformTypes DEF Kept
      <3>6. pc \in Places
        BY DEF Places, Return
      <3>7. /\ r \in Queries /\ r.op = q.op /\ r.atomic = q.atomic /\ r.blocks = q.blocks
            /\ r.pc = pc
        <4> HIDE DEF q, pc, id
        <4> QED
          BY <1>q, <3>1, <3>6 DEF Queries
      <3> HIDE DEF r, w
      <3>8. Shaped(r)
        <4>1. CASE q.op # "delete"
          BY <1>q, <2>2, <3>7, <4>1, ShapedThere
        <4>2. CASE q.op = "delete"
          <5>1. pc = IF q.blocks = <<>> THEN "done" ELSE "leave"
            BY <1>q, <2>2, <4>2, BlocksNumber DEF Return, Under
          <5> QED
            BY <1>q, <2>1, <3>7, <5>1, ShapedOut
        <4> QED
          BY <4>1, <4>2
      <3> QED
        BY <1>t, <1>q, <1>w, <2>1, <3>4, <3>5, <3>7, <3>8, MeetTypes
    <2> QED
      BY <2>3, <2>4
  <1>13. CASE Comment(t)
    <2> DEFINE w == [Writing(t) EXCEPT !.comment[t] = q.id]
    <2>1. /\ q.pc = "comment" /\ Meet(t, Inside)
          /\ \/ Refuse(t)
             \/ /\ Perform(t, w) /\ UNCHANGED <<pure, points, spoiled>>
                /\ \E raised \in BOOLEAN :
                     query' = [query EXCEPT ![t] = [q EXCEPT !.raised = raised, !.pc = Return(t)]]
      BY <1>t, <1>13 DEF Comment, Ready, Stands, RequestTypes
    <2>2. CASE Refuse(t)
      BY <1>t, <1>q, <2>1, <2>2, RefuseKept, RaisedAsked, MeetTypes
    <2>3. CASE ~Refuse(t)
      <3>1. Perform(t, w) /\ UNCHANGED <<pure, points, spoiled>>
        BY <2>1, <2>3
      <3>2. PICK raised \in BOOLEAN :
              query' = [query EXCEPT ![t] = [q EXCEPT !.raised = raised, !.pc = Return(t)]]
        BY <2>1, <2>3
      <3>3. w \in Works
        BY <1>t, <1>q, WritesTypes DEF Queries
      <3>4. Kept(t)
        <4> HIDE DEF w
        <4> QED
          BY <1>t, <3>1, <3>3, PerformTypes DEF Kept
      <3> DEFINE r == [q EXCEPT !.raised = raised, !.pc = Return(t)]
      <3>5. Return(t) \in Places /\ Return(t) = IF q.blocks = <<>> THEN "done" ELSE "leave"
        BY <1>q, <2>1, BlocksNumber DEF Return, Shaped, Under, Places
      <3>6. /\ r \in Queries /\ r.op = q.op /\ r.atomic = q.atomic /\ r.blocks = q.blocks
            /\ r.pc = Return(t)
        <4> HIDE DEF q
        <4> QED
          BY <1>q, <3>5 DEF Queries
      <3>7. query' = [query EXCEPT ![t] = r]
        BY <3>2
      <3> HIDE DEF r
      <3>8. Shaped(r)
        BY <1>q, <2>1, <3>5, <3>6, ShapedOut
      <3> QED
        BY <1>t, <1>q, <1>w, <2>1, <3>1, <3>4, <3>6, <3>7, <3>8, MeetTypes
    <2> QED
      BY <2>2, <2>3
  <1>14. CASE LeaveBlock(t)
    <2> DEFINE kind == Last(q.blocks)
    <2>1. q.pc = "leave" /\ Meet(t, Inside) /\ UNCHANGED pure
      BY <1>14 DEF LeaveBlock, Stands
    <2>2. PICK raises \in BOOLEAN :
            /\ Exit(t, q.raised, raises)
            /\ query' = [query EXCEPT ![t] = After(q, kind, raises)]
      BY <1>14 DEF LeaveBlock
    <2> DEFINE r == After(q, kind, raises)
    <2>3. query' = [query EXCEPT ![t] = r]
      BY <2>2
    <2>4. InTx(c) /\ q.raised \in BOOLEAN
      BY <1>q, <2>1, LeavesBlock DEF Queries
    <2>5. Kept(t)
      BY <1>t, <2>2, <2>4, ExitKept
    <2>6. r \in Queries /\ Shaped(r)
      BY <1>q, <2>1, ShapedAfter
    <2> HIDE DEF r
    <2> QED
      BY <1>t, <1>q, <1>w, <2>1, <2>3, <2>5, <2>6, MeetTypes
  <1> QED
    BY <1>1, <1>2, <1>3, <1>4, <1>5, <1>6, <1>7, <1>8, <1>9, <1>10, <1>11, <1>12, <1>13, <1>14
       DEF QueryStep
-----------------------------------------------------------------------------
(* Savepoints and blocks go together *)

Stays(t)  == points' = points /\ query'[t].blocks = query[t].blocks
Deeper(t) == /\ Len(points'[Conn(t)]) = Len(points[Conn(t)]) + 1
             /\ Len(query'[t].blocks) = Len(query[t].blocks) + 1
Higher(t) == /\ query[t].pc = "leave"
             /\ Len(points'[Conn(t)]) = Len(points[Conn(t)]) - 1
             /\ Len(query'[t].blocks) = Len(query[t].blocks) - 1

\* A step that is no entry or exit leaves both alone; by sync_to_async only the
\* endpoint's block is entered.
LEMMA StepDepth ==
  ASSUME ShapeInv, NEW t \in Tasks, QueryStep(t)
  PROVE  /\ Stays(t) \/ Deeper(t) \/ Higher(t)
         /\ ~pure => query'[t].pc \notin {"start", "again"}
         /\ ~pure /\ Deeper(t) => query[t].pc = "enter" /\ query[t].atomic
         /\ query'[t].atomic = query[t].atomic /\ query'[t].op = query[t].op
  <1> DEFINE q == query[t]
             Goal == /\ Stays(t) \/ Deeper(t) \/ Higher(t)
                     /\ ~pure => query'[t].pc \notin {"start", "again"}
                     /\ ~pure /\ Deeper(t) => q.pc = "enter" /\ q.atomic
                     /\ query'[t].atomic = q.atomic /\ query'[t].op = q.op
  <1>t. DatabaseTypes /\ RequestTypes /\ BlocksInv /\ PointsInv /\ FlatInv
    BY DEF ShapeInv
  <1>q. /\ q \in Queries /\ Shaped(q) /\ q.op \in Operations /\ query \in [Tasks -> Queries]
        /\ Len(q.blocks) \in Nat
    BY <1>t, BlocksNumber DEF RequestTypes, BlocksInv, Queries
  <1>n. Len(q.blocks) # Len(q.blocks) + 1 /\ Len(q.blocks) # Len(q.blocks) - 1
    BY <1>q
  <1>s. ASSUME Stays(t), query'[t].pc \notin {"start", "again"} \/ pure,
               query'[t].atomic = q.atomic, query'[t].op = q.op
        PROVE  Goal
    BY <1>n, <1>s DEF Stays, Deeper
  <1>r. ASSUME NEW integrity \in BOOLEAN, Raised(t, integrity), UNCHANGED points
        PROVE  Goal
    BY <1>q, <1>s, <1>r DEF Raised, Stays, Queries
  <1>1. CASE Enter(t)
    <2>1. q.pc = "enter"
      BY <1>1 DEF Enter, Stands
    <2>2. First(q.op) \notin {"start", "again"}
      BY DEF First
    <2>3. CASE q.atomic
      <3>1. EnterBlock(t, "endpoint", First(q.op))
        BY <1>1, <2>3 DEF Enter
      <3>2. Len(points'[Conn(t)]) = Len(points[Conn(t)]) + 1
        BY <1>t, <3>1, EnterKept
      <3>3. q.blocks \in Seq(BlockKinds) /\ "endpoint" \in BlockKinds
        BY <1>q DEF Queries, BlockKinds
      <3>4. Len(Append(q.blocks, "endpoint")) = Len(q.blocks) + 1
        BY <3>3, PushedOn
      <3>5. /\ query'[t].blocks = Append(q.blocks, "endpoint") /\ query'[t].pc = First(q.op)
            /\ query'[t].atomic = q.atomic /\ query'[t].op = q.op
        BY <1>q, <3>1 DEF EnterBlock, Queries
      <3> QED
        BY <2>1, <2>2, <2>3, <3>2, <3>4, <3>5 DEF Deeper
    <2>4. CASE ~q.atomic
      <3>1. Goto(t, First(q.op)) /\ UNCHANGED points
        BY <1>1, <2>4 DEF Enter, databaseVars
      <3> QED
        BY <1>q, <1>s, <2>2, <3>1 DEF Goto, Stays, Queries
    <2> QED
      BY <2>3, <2>4
  <1>i. ASSUME NEW kind \in BlockKinds, NEW pc, EnterBlock(t, kind, pc), pure
        PROVE  Goal
    <2>1. Len(points'[Conn(t)]) = Len(points[Conn(t)]) + 1
      BY <1>t, <1>i, EnterKept
    <2>2. q.blocks \in Seq(BlockKinds)
      BY <1>q DEF Queries
    <2>3. Len(Append(q.blocks, kind)) = Len(q.blocks) + 1
      BY <2>2, PushedOn
    <2>4. /\ query'[t].blocks = Append(q.blocks, kind)
          /\ query'[t].atomic = q.atomic /\ query'[t].op = q.op
      BY <1>q, <1>i DEF EnterBlock, Queries
    <2> QED
      BY <1>i, <2>1, <2>3, <2>4 DEF Deeper
  <1>2. CASE Broken(t)
    <2>1. Raised(t, FALSE) /\ UNCHANGED points
      BY <1>2 DEF Broken, databaseVars
    <2> QED
      BY <1>r, <2>1
  <1>k. {"get_or_create", "update_or_create", "delete"} \subseteq BlockKinds
    BY DEF BlockKinds
  <1>3. CASE Guard(t)
    <2>1. pure /\ EnterBlock(t, "update_or_create", "get")
      BY <1>3 DEF Guard
    <2> QED
      BY <1>i, <1>k, <2>1
  <1>g. ASSUME Got(t), UNCHANGED points PROVE Goal
    BY <1>q, <1>s, <1>g DEF Got, Stays, Queries
  <1>4. CASE GetTag(t)
    <2>1. CASE SeenTag(t) # NoTag
      BY <1>4, <1>g, <2>1 DEF GetTag, databaseVars
    <2>2. CASE SeenTag(t) = NoTag
      <3>1. pure /\ EnterBlock(t, "get_or_create", "insert")
        BY <1>4, <2>2 DEF GetTag
      <3> QED
        BY <1>i, <1>k, <3>1
    <2> QED
      BY <2>1, <2>2
  <1>5. CASE InsertTag(t)
    <2>1. CASE Refuse(t)
      BY <1>r, <2>1 DEF Refuse
    <2>2. CASE ~Refuse(t)
      <3>1. UNCHANGED points /\ query' = [query EXCEPT ![t].id = t,
                       ![t].pc = IF q.op = "create" THEN "comment" ELSE "leave"]
        BY <1>5, <2>2 DEF InsertTag
      <3> QED
        BY <1>q, <1>s, <3>1 DEF Stays, Queries
    <2> QED
      BY <2>1, <2>2
  <1>6. CASE Again(t)
    BY <1>6, <1>r, <1>g DEF Again, databaseVars
  <1>7. CASE Update(t)
    BY <1>7, <1>q, <1>s DEF Update, Goto, Stays, Queries
  <1>8. CASE Collect(t)
    BY <1>8, <1>q, <1>s DEF Collect, Stays, Queries, databaseVars
  <1>9. CASE StartDelete(t)
    <2>1. q.pc = "start" /\ EnterBlock(t, "delete", "children")
      BY <1>9 DEF StartDelete, Stands
    <2>2. pure
      BY <1>t, <2>1 DEF FlatInv
    <2> QED
      BY <1>i, <1>k, <2>1, <2>2
  <1>10. CASE DeleteChildren(t)
    BY <1>10, <1>q, <1>s DEF DeleteChildren, Goto, Stays, Queries
  <1>11. CASE DeleteRow(t)
    BY <1>11, <1>q, <1>s DEF DeleteRow, Goto, Stays, Queries
  <1>12. CASE InThread(t)
    <2>1. CASE Refuse(t)
      BY <1>r, <2>1 DEF Refuse
    <2>2. CASE ~Refuse(t)
      <3>1. UNCHANGED points
        BY <1>12, <2>2 DEF InThread
      <3>2. \E id : query' = [query EXCEPT ![t].id = id,
                      ![t].pc = IF q.op # "delete" THEN "comment" ELSE Return(t)]
        BY <1>12, <2>2 DEF InThread
      <3>3. Return(t) \in {"leave", "done"}
        BY DEF Return
      <3> QED
        BY <1>q, <1>s, <3>1, <3>2, <3>3 DEF Stays, Queries
    <2> QED
      BY <2>1, <2>2
  <1>13. CASE Comment(t)
    <2>1. CASE Refuse(t)
      BY <1>r, <2>1 DEF Refuse
    <2>2. CASE ~Refuse(t)
      <3>1. UNCHANGED points
        BY <1>13, <2>2 DEF Comment
      <3>2. \E raised \in BOOLEAN :
              query' = [query EXCEPT ![t].raised = raised, ![t].pc = Return(t)]
        BY <1>13, <2>2 DEF Comment
      <3>3. Return(t) \in {"leave", "done"}
        BY DEF Return
      <3> QED
        BY <1>q, <1>s, <3>1, <3>2, <3>3 DEF Stays, Queries
    <2> QED
      BY <2>1, <2>2
  <1>14. CASE LeaveBlock(t)
    <2> DEFINE kind == Last(q.blocks)
    <2>1. q.pc = "leave"
      BY <1>14 DEF LeaveBlock, Stands
    <2>2. PICK raises \in BOOLEAN :
            Exit(t, q.raised, raises) /\ query' = [query EXCEPT ![t] = After(q, kind, raises)]
      BY <1>14 DEF LeaveBlock
    <2>3. InTx(Conn(t)) /\ q.blocks # <<>> /\ q.blocks \in Seq(BlockKinds) /\ q.raised \in BOOLEAN
      BY <1>q, <2>1, LeavesBlock DEF Queries
    <2>4. Len(points'[Conn(t)]) = Len(points[Conn(t)]) - 1
      BY <1>t, <2>2, <2>3, ExitKept
    <2> DEFINE r == After(q, kind, raises)
    <2>5. /\ r.blocks = Front(q.blocks) /\ r.atomic = q.atomic /\ r.op = q.op
      BY <1>q DEF After, Queries
    <2>6. query'[t] = r
      BY <1>q, <2>2
    <2>7. Len(Front(q.blocks)) = Len(q.blocks) - 1
      BY <2>3, FrontOf
    <2>8. Higher(t) /\ ~Deeper(t)
      BY <1>q, <2>1, <2>4, <2>5, <2>6, <2>7 DEF Higher, Deeper
    <2>9. ~pure => r.pc \notin {"start", "again"}
      <3>1. SUFFICES ASSUME ~pure PROVE r.pc \notin {"start", "again"}
        OBVIOUS
      <3>2. kind = "endpoint"
        <4>a. Len(q.blocks) <= Under(q) /\ Under(q) \in {0, 1} /\ Len(q.blocks) \in Nat
          BY <1>t, <1>q, <3>1, BlocksNumber DEF FlatInv
        <4>b. Len(q.blocks) # 0
          BY <1>q, <2>3, BlocksNumber
        <4>1. Len(q.blocks) = 1 /\ Under(q) = 1
          <5>1. \A n \in Nat, b \in {0, 1} : n <= b /\ n # 0 => n = 1 /\ b = 1
            OBVIOUS
          <5> QED
            BY <4>a, <4>b, <5>1, Zenon
        <4>c. \A i \in 1..Len(q.blocks) : q.blocks[i] = KindAt(q, i)
          BY <1>q DEF Shaped
        <4>d. 1 \in 1..Len(q.blocks)
          BY <4>1
        <4>2. kind = q.blocks[1] /\ q.blocks[1] = KindAt(q, 1)
          BY <4>1, <4>c, <4>d DEF Last
        <4> QED
          BY <4>1, <4>2 DEF KindAt
      <3>3. kind # "get_or_create"
        BY <3>2
      <3> HIDE DEF kind
      <3> QED
        BY <1>q, <3>3 DEF After, Queries
    <2> QED
      BY <2>5, <2>6, <2>8, <2>9
  <1> QED
    BY <1>1, <1>2, <1>3, <1>4, <1>5, <1>6, <1>7, <1>8, <1>9, <1>10, <1>11, <1>12, <1>13, <1>14
       DEF QueryStep

\* Nobody has called an endpoint.
LEMMA ShapeInit == QueryInit => ShapeInv
  <1> SUFFICES ASSUME QueryInit PROVE ShapeInv
    OBVIOUS
  <1>1. PICK op \in [Tasks -> Operations], atomic \in [Tasks -> BOOLEAN] :
          query = [t \in Tasks |-> [op |-> op[t], atomic |-> atomic[t], pc |-> "enter", blocks |-> <<>>,
                                   id |-> NoRef, children |-> {}, raised |-> FALSE, refused |-> FALSE]]
    BY DEF QueryInit
  <1>2. query \in [Tasks -> Queries]
    BY <1>1, TagFacts DEF Queries, Places
  <1>3. \A t \in Tasks : query[t].blocks = <<>> /\ query[t].pc = "enter"
    BY <1>1
  <1>4. /\ tagRow \in Tags /\ comment \in [Tasks -> Refs] /\ gone \in BOOLEAN
        /\ work = [c \in Connections |-> Untouched] /\ points = [c \in Connections |-> <<>>]
        /\ spoiled = [c \in Connections |-> FALSE] /\ pure \in BOOLEAN /\ met = {}
    <2>1. Tag(Old, Old) \in Tags /\ NoTag \in Tags
      BY TagFacts DEF Ids
    <2> QED
      BY <2>1, TagFacts DEF QueryInit
  <1>5. DatabaseTypes
    BY <1>4, TagFacts DEF DatabaseTypes
  <1>6. RequestTypes
    BY <1>2, <1>4 DEF RequestTypes
  <1>7. \A t \in Tasks : Len(query[t].blocks) = 0 /\ query[t] \in Queries
    BY <1>2, <1>3
  <1>8. BlocksInv
    BY <1>3, <1>7 DEF BlocksInv, Shaped
  <1>9. FlatInv
    BY <1>3, <1>7, BlocksNumber DEF FlatInv
  <1>10. PointsInv
    <2>1. Inside = {}
      BY <1>3 DEF Inside
    <2>2. Main \in Connections /\ Tasks \subseteq Connections
      BY DEF Connections
    <2> QED
      BY <1>4, <1>7, <2>1, <2>2, FS_EmptySet DEF PointsInv
  <1> QED
    BY <1>5, <1>6, <1>8, <1>9, <1>10 DEF ShapeInv

\* Every step keeps blocks and savepoints together.
LEMMA ShapeStep == ShapeInv /\ [QueryNext]_queryVars => ShapeInv'
  <1> SUFFICES ASSUME ShapeInv, [QueryNext]_queryVars PROVE ShapeInv'
    OBVIOUS
  <1>1. ASSUME NEW t \in Tasks, QueryStep(t) PROVE ShapeInv'
    <2>1. Kept(t) /\ Asked(t)
      BY <1>1, StepKept
    <2>2. /\ Stays(t) \/ Deeper(t) \/ Higher(t)
          /\ ~pure => query'[t].pc \notin {"start", "again"}
          /\ ~pure /\ Deeper(t) => query[t].pc = "enter" /\ query[t].atomic
          /\ query'[t].atomic = query[t].atomic
      BY <1>1, StepDepth
    <2>3. /\ DatabaseTypes /\ RequestTypes /\ BlocksInv /\ PointsInv /\ FlatInv
          /\ \A u \in Tasks : query[u] \in Queries
      BY DEF ShapeInv, RequestTypes
    <2>4. DatabaseTypes' /\ RequestTypes'
      BY <2>1, <2>3 DEF Kept, Asked, RequestTypes
    <2>5. \A u \in Tasks : u # t => query'[u] = query[u]
      BY <2>1 DEF Asked
    <2>6. BlocksInv'
      BY <2>1, <2>3, <2>5 DEF Asked, BlocksInv
    <2>7. \A u \in Tasks : Len(query[u].blocks) \in Nat /\ Len(query'[u].blocks) \in Nat
                           /\ (query[u].blocks = <<>> <=> Len(query[u].blocks) = 0)
                           /\ (query'[u].blocks = <<>> <=> Len(query'[u].blocks) = 0)
      BY <2>1, <2>3, BlocksNumber DEF Asked
    <2>8. UNCHANGED pure
      BY <2>1 DEF Asked
    <2>9. CASE pure
      <3>1. Conn(t) = t /\ Tasks \subseteq Connections
        BY <2>9 DEF Conn, Connections
      <3>2. \A u \in Tasks : u # t => points'[u] = points[u]
        BY <2>1, <3>1 DEF Kept, Elsewhere
      <3>3. \A u \in Tasks : Len(points[u]) = Len(query[u].blocks)
        BY <2>3, <2>9 DEF PointsInv
      <3>4. Len(points'[t]) = Len(query'[t].blocks)
        BY <2>2, <3>1, <3>3 DEF Stays, Deeper, Higher
      <3>5. PointsInv'
        BY <2>5, <2>8, <2>9, <3>2, <3>3, <3>4 DEF PointsInv
      <3>6. FlatInv'
        BY <2>8, <2>9 DEF FlatInv
      <3> QED
        BY <2>4, <2>6, <3>5, <3>6 DEF ShapeInv
    <2>10. CASE ~pure
      <3>1. Conn(t) = Main
        BY <2>10 DEF Conn
      <3>2. Len(query[t].blocks) <= Under(query[t]) /\ Under(query'[t]) = Under(query[t])
            /\ Under(query[t]) \in {0, 1}
        BY <2>2, <2>3, <2>10, BlocksNumber DEF FlatInv, Under
      <3>3. Deeper(t) => Len(query[t].blocks) = 0 /\ Under(query[t]) = 1
        BY <2>2, <2>3, <2>10 DEF BlocksInv, Shaped, Under
      <3>4. Len(query'[t].blocks) <= Under(query'[t])
        BY <2>2, <2>7, <3>2, <3>3 DEF Stays, Deeper, Higher
      <3>5. FlatInv'
        <4>1. ASSUME NEW u \in Tasks
              PROVE  Len(query'[u].blocks) <= Under(query'[u]) /\ query'[u].pc \notin {"start", "again"}
          <5>1. CASE u = t
            BY <2>2, <2>10, <3>4, <5>1
          <5>2. CASE u # t
            BY <2>3, <2>5, <2>10, <5>2 DEF FlatInv
          <5> QED
            BY <5>1, <5>2
        <4> QED
          BY <4>1 DEF FlatInv
      <3>6. IsFiniteSet(Inside) /\ Len(points[Main]) = Cardinality(Inside)
        BY <2>3, <2>10 DEF PointsInv
      <3>7. \A u \in Tasks : u # t => (u \in Inside' <=> u \in Inside)
        BY <2>5 DEF Inside
      <3>8. t \in Inside <=> Len(query[t].blocks) # 0
        BY <2>7 DEF Inside
      <3>9. t \in Inside' <=> Len(query'[t].blocks) # 0
        BY <2>7 DEF Inside
      <3>10. Inside \subseteq Tasks /\ Inside' \subseteq Tasks
        BY DEF Inside
      <3>11. IsFiniteSet(Inside') /\ Len(points'[Main]) = Cardinality(Inside')
        <4>1. CASE Stays(t)
          <5>a. t \in Inside' <=> t \in Inside
            BY <3>8, <3>9, <4>1 DEF Stays
          <5>1. Inside' = Inside
            BY <3>7, <3>10, <5>a
          <5> QED
            BY <3>6, <4>1, <5>1 DEF Stays
        <4>2. CASE Deeper(t)
          <5>1. t \notin Inside /\ t \in Inside'
            BY <3>3, <3>8, <3>9, <4>2 DEF Deeper
          <5>2. Inside' = Inside \cup {t}
            BY <3>7, <3>10, <5>1
          <5>3. IsFiniteSet(Inside') /\ Cardinality(Inside') = Cardinality(Inside) + 1
            BY <3>6, <5>1, <5>2, FS_AddElement
          <5> QED
            BY <3>1, <3>6, <4>2, <5>3 DEF Deeper
        <4>3. CASE Higher(t)
          <5>1. Len(query[t].blocks) # 0
            BY <2>7, <4>3, LeavesBlock DEF Higher
          <5>2. Len(query[t].blocks) = 1
            <6>1. \A n \in Nat, b \in {0, 1} : n <= b /\ n # 0 => n = 1
              OBVIOUS
            <6> QED
              BY <2>7, <3>2, <5>1, <6>1, Zenon
          <5>3. Len(query'[t].blocks) = 0
            BY <4>3, <5>2 DEF Higher
          <5>4. t \in Inside /\ t \notin Inside'
            BY <3>8, <3>9, <5>1, <5>3
          <5>5. Inside' = Inside \ {t}
            BY <3>7, <3>10, <5>4
          <5>6. IsFiniteSet(Inside') /\ Cardinality(Inside') = Cardinality(Inside) - 1
            BY <3>6, <5>4, <5>5, FS_RemoveElement
          <5> QED
            BY <3>1, <3>6, <4>3, <5>6 DEF Higher
        <4> QED
          BY <2>2, <4>1, <4>2, <4>3
      <3>12. PointsInv'
        BY <2>8, <2>10, <3>11 DEF PointsInv
      <3> QED
        BY <2>4, <2>6, <3>5, <3>12 DEF ShapeInv
    <2> QED
      BY <2>9, <2>10
  <1>2. CASE UNCHANGED queryVars
    BY <1>2 DEF queryVars, ShapeInv, DatabaseTypes, InTx, RequestTypes, BlocksInv, PointsInv, FlatInv, Inside
  <1> QED
    BY <1>1, <1>2 DEF QueryNext, QueriesEnded

\* Blocks and savepoints stay together.
LEMMA ShapeInvariant == QuerySpec => []ShapeInv
  BY ShapeInit, ShapeStep, PTL DEF QuerySpec

\* The state has its type.
THEOREM QueryTypes == QuerySpec => []QueryTypeOK
  <1>1. ShapeInv => QueryTypeOK
    BY DEF ShapeInv, DatabaseTypes, RequestTypes, QueryTypeOK, Works, Queries
  <1> QED
    BY <1>1, ShapeInvariant, PTL
-----------------------------------------------------------------------------
(* What a request that asks for a tag is told *)

\* The query of the request gets or creates the tag and has not got it yet.
Asking(q) == q.op \in {"get_or_create", "update_or_create"} /\ q.id = NoRef

\* On a connection of its own such a request has written no tag, before or after any
\* savepoint, and its statements do not fail.  It raises when it was refused, and
\* then outside of the inserting block only if the tag it was refused for is gone.
Answered(t) ==
  LET q == query[t] IN
  Asking(q) =>
    /\ q.pc \notin {"update", "comment"}
    /\ \A i \in 1..Len(points[t]) : points[t][i] # <<>> /\ points[t][i][1].tag = Same
    /\ work[t].tag = Same
    /\ q.pc \in {"leave", "again"} => q.raised
    /\ q.pc \notin {"leave", "done"} => ~spoiled[t]
    /\ q.raised => q.refused /\ TagLeft
    /\ q.raised /\ (q.pc = "done" \/ (q.pc = "leave" /\ Last(q.blocks) # "get_or_create")) => gone

PureInv == pure => \A t \in Tasks : Answered(t)

\* On the connection of all, a block that met nobody is the only one, and a request
\* that met nobody does not raise before it has got its tag.
SharedInv ==
  ~pure => \A t \in Tasks \ met :
    /\ t \in Inside => Inside = {t}
    /\ Asking(query[t]) => /\ ~query[t].raised /\ query[t].pc \in {"enter", "get", "guard"}
                           /\ t \in Inside => ~spoiled[Main]

QueryInv == ShapeInv /\ PureInv /\ SharedInv

\* The inductive invariant implies the property.
LEMMA InvAnswers == QueryInv => QueryAnswers
  <1> SUFFICES ASSUME QueryInv, NEW t \in Tasks \ met,
                      query[t].pc = "done", query[t].raised, Asking(query[t])
               PROVE  gone
    BY DEF QueryAnswers, Stands, Asking
  <1>1. CASE pure
    BY <1>1 DEF QueryInv, PureInv, Answered
  <1>2. CASE ~pure
    BY <1>2 DEF QueryInv, SharedInv
  <1>3. pure \in BOOLEAN
    BY DEF QueryInv, ShapeInv, RequestTypes
  <1> QED
    BY <1>1, <1>2

\* Other requests of a pure database change neither the request nor its connection.
LEMMA OthersAnswered ==
  ASSUME ShapeInv, pure, NEW t \in Tasks, NEW u \in Tasks \ {t}, QueryStep(u), Answered(t)
  PROVE  Answered(t)'
  <1>1. Kept(u) /\ Asked(u)
    BY StepKept
  <1>2. Conn(u) = u /\ t \in Connections \ {u}
    BY DEF Conn, Connections
  <1>3. query'[t] = query[t] /\ work'[t] = work[t] /\ points'[t] = points[t] /\ spoiled'[t] = spoiled[t]
    BY <1>1, <1>2 DEF Kept, Elsewhere, Asked
  <1>4. (gone => gone') /\ (TagLeft => TagLeft')
    BY <1>1 DEF Kept
  <1> QED
    BY <1>3, <1>4 DEF Answered

\* The innermost block of a request that inserts is the one that can be taken back.
LEMMA InsertsInside ==
  ASSUME NEW q \in Queries, Shaped(q), q.pc = "insert",
         q.op \in {"get_or_create", "update_or_create"}
  PROVE  q.blocks # <<>> /\ Last(q.blocks) = "get_or_create"
  <1> DEFINE n == Len(q.blocks)
  <1>1. /\ n = Under(q) + Extra(q.op) /\ n \in Nat /\ Under(q) \in {0, 1} /\ Extra(q.op) \in {0, 1, 2}
        /\ (q.op = "create" <=> Extra(q.op) = 0) /\ (q.op = "update_or_create" <=> Extra(q.op) = 2)
    BY BlocksNumber DEF Shaped
  <1>2. \/ q.op = "get_or_create" /\ n = Under(q) + 1
        \/ q.op = "update_or_create" /\ n = Under(q) + 2
    BY <1>1
  <1>3. n >= 1 /\ n \in 1..n /\ n # Under(q)
    BY <1>1, <1>2
  <1>4. q.blocks[n] = KindAt(q, n)
    BY <1>3 DEF Shaped
  <1>5. KindAt(q, n) = "get_or_create"
    <2> HIDE DEF n
    <2>1. CASE q.op = "get_or_create" /\ n = Under(q) + 1
      BY <1>3, <2>1 DEF KindAt
    <2>2. CASE q.op = "update_or_create" /\ n = Under(q) + 2
      BY <1>1, <1>3, <2>2 DEF KindAt
    <2> QED
      BY <1>2, <2>1, <2>2
  <1> QED
    BY <1>3, <1>4, <1>5, BlocksNumber DEF Last

\* A request that enters a block where it could write keeps what it knew.
LEMMA EnterAnswered ==
  ASSUME ShapeInv, pure, NEW t \in Tasks, Answered(t), query[t].pc \notin {"leave", "done"},
         NEW kind, NEW pc \in {"insert", "collect", "guard", "get", "children"}, EnterBlock(t, kind, pc),
         query'[t].pc = pc, query'[t].op = query[t].op, query'[t].id = query[t].id,
         query'[t].raised = query[t].raised, query'[t].refused = query[t].refused
  PROVE  Answered(t)'
  <1> SUFFICES ASSUME Asking(query'[t]) PROVE Answered(t)'
    BY DEF Answered
  <1>1. Asking(query[t])
    BY DEF Asking
  <1>2. /\ \A i \in 1..Len(points[t]) : points[t][i] # <<>> /\ points[t][i][1].tag = Same
        /\ work[t].tag = Same /\ ~spoiled[t] /\ (query[t].raised => query[t].refused /\ TagLeft)
    BY <1>1 DEF Answered
  <1>3. t \in Connections /\ Conn(t) = t /\ points[t] \in Seq(Saves) /\ <<work[t]>> \in Saves
    BY DEF Conn, Connections, ShapeInv, DatabaseTypes, Saves
  <1>4. points'[t] = Append(points[t], <<work[t]>>) /\ UNCHANGED <<work, spoiled, tagRow, gone>>
    BY <1>2, <1>3, EnterKept DEF ShapeInv
  <1>5. /\ Len(points'[t]) = Len(points[t]) + 1 /\ Len(points[t]) \in Nat
        /\ points'[t][Len(points[t]) + 1] = <<work[t]>>
        /\ \A i \in 1..Len(points[t]) : points'[t][i] = points[t][i]
    BY <1>3, <1>4, PushedOn
  <1>6. \A i \in 1..Len(points'[t]) : points'[t][i] # <<>> /\ points'[t][i][1].tag = Same
    <2> SUFFICES ASSUME NEW i \in 1..Len(points'[t])
                 PROVE  points'[t][i] # <<>> /\ points'[t][i][1].tag = Same
      OBVIOUS
    <2>1. i \in 1..Len(points[t]) \/ i = Len(points[t]) + 1
      BY <1>5
    <2>2. CASE i \in 1..Len(points[t])
      BY <1>2, <1>5, <2>2
    <2>3. CASE i = Len(points[t]) + 1
      <3>1. points'[t][i] = <<work[t]>>
        BY <1>5, <2>3
      <3> QED
        BY <1>2, <3>1
    <2> QED
      BY <2>1, <2>2, <2>3
  <1> QED
    BY <1>2, <1>4, <1>6 DEF Answered, TagLeft

\* A step of the request itself.
LEMMA OwnAnswered ==
  ASSUME ShapeInv, pure, NEW t \in Tasks, QueryStep(t), Answered(t)
  PROVE  Answered(t)'
  <1> DEFINE q == query[t]
  <1> SUFFICES ASSUME Asking(query'[t]) PROVE Answered(t)'
    BY DEF Answered
  <1>t. DatabaseTypes /\ RequestTypes /\ BlocksInv
    BY DEF ShapeInv
  <1>q. /\ q \in Queries /\ Shaped(q) /\ query \in [Tasks -> Queries] /\ t \in Connections
        /\ Conn(t) = t /\ NoRef \notin Ids
    BY <1>t, TagFacts DEF RequestTypes, BlocksInv, Conn, Connections
  <1>a. query'[t].op = q.op
    BY StepDepth
  <1>o. q.op \in {"get_or_create", "update_or_create"} /\ query'[t].id = NoRef
    BY <1>a DEF Asking
  \* what it knew
  <1>k. ASSUME q.id = NoRef
        PROVE  /\ q.pc \notin {"update", "comment"}
               /\ \A i \in 1..Len(points[t]) : points[t][i] # <<>> /\ points[t][i][1].tag = Same
               /\ work[t].tag = Same
               /\ q.pc \in {"leave", "again"} => q.raised
               /\ q.pc \notin {"leave", "done"} => ~spoiled[t]
               /\ q.raised => q.refused /\ TagLeft
               /\ q.raised /\ (q.pc = "done" \/ (q.pc = "leave" /\ Last(q.blocks) # "get_or_create")) => gone
               /\ SeenTag(t) = tagRow
    BY <1>o, <1>q, <1>k DEF Answered, Asking, SeenTag, Over
  <1>1. CASE Enter(t)
    <2>1. q.pc = "enter"
      BY <1>1 DEF Enter, Stands
    <2>2. First(q.op) \in {"insert", "collect", "guard", "get"}
      BY DEF First
    <2>3. CASE q.atomic
      <3>1. EnterBlock(t, "endpoint", First(q.op))
        BY <1>1, <2>3 DEF Enter
      <3>2. /\ query'[t].pc = First(q.op) /\ query'[t].id = q.id
            /\ query'[t].raised = q.raised /\ query'[t].refused = q.refused
        BY <1>q, <3>1 DEF EnterBlock, Queries
      <3> QED
        BY <1>a, <2>1, <2>2, <3>1, <3>2, EnterAnswered
    <2>4. CASE ~q.atomic
      <3>1. Goto(t, First(q.op)) /\ UNCHANGED <<databaseVars, gone>>
        BY <1>1, <2>4 DEF Enter
      <3>2. /\ query'[t].pc = First(q.op) /\ query'[t].id = q.id
            /\ query'[t].raised = q.raised /\ query'[t].refused = q.refused
        BY <1>q, <3>1 DEF Goto, Queries
      <3>3. First(q.op) \notin {"leave", "again", "done", "update", "comment"}
        BY <2>2
      <3> HIDE DEF q
      <3> QED
        BY <1>o, <1>k, <2>1, <3>1, <3>2, <3>3 DEF Answered, databaseVars, TagLeft, q
    <2> QED
      BY <2>3, <2>4
  <1>2. CASE Broken(t)
    <2>1. spoiled[t] /\ q.pc \notin {"leave", "done"} /\ query'[t].id = q.id
      BY <1>2, <1>q DEF Broken, Raised, Queries
    <2> QED
      BY <1>k, <1>o, <2>1
  <1>3. CASE Guard(t)
    <2>1. q.pc = "guard" /\ EnterBlock(t, "update_or_create", "get")
      BY <1>3 DEF Guard, Ready, Stands
    <2>2. /\ query'[t].pc = "get" /\ query'[t].id = q.id
          /\ query'[t].raised = q.raised /\ query'[t].refused = q.refused
      BY <1>q, <2>1 DEF EnterBlock, Queries
    <2> QED
      BY <1>a, <2>1, <2>2, EnterAnswered
  <1>g. ~(Got(t) /\ SeenTag(t) # NoTag)
    <2> SUFFICES ASSUME Got(t), SeenTag(t) # NoTag PROVE FALSE
      OBVIOUS
    <2>1. query'[t].id = SeenTag(t)[1]
      BY <1>q DEF Got, Queries
    <2>2. SeenTag(t)[1] \in Ids
      BY <1>t, WritesTypes, TagFacts
    <2> QED
      BY <1>o, <1>q, <2>1, <2>2
  <1>4. CASE GetTag(t)
    <2>1. q.pc = "get" /\ EnterBlock(t, "get_or_create", "insert")
      BY <1>4, <1>g DEF GetTag, Ready, Stands
    <2>2. /\ query'[t].pc = "insert" /\ query'[t].id = q.id
          /\ query'[t].raised = q.raised /\ query'[t].refused = q.refused
      BY <1>q, <2>1 DEF EnterBlock, Queries
    <2> QED
      BY <1>a, <2>1, <2>2, EnterAnswered
  <1>5. CASE InsertTag(t)
    <2>1. q.pc = "insert"
      BY <1>5 DEF InsertTag, Ready, Stands
    <2>2. SeenTag(t) # NoTag /\ Refuse(t)
      <3> SUFFICES ASSUME ~(SeenTag(t) # NoTag /\ Refuse(t)) PROVE FALSE
        OBVIOUS
      <3>1. query' = [query EXCEPT ![t].id = t,
                       ![t].pc = IF q.op = "create" THEN "comment" ELSE "leave"]
        BY <1>5 DEF InsertTag
      <3>2. query'[t].id = t
        BY <1>q, <3>1 DEF Queries
      <3> QED
        BY <1>o, <1>q, <3>2 DEF Ids
    <2>3. UNCHANGED <<tagRow, work, points, gone>> /\ Raised(t, TRUE)
      BY <2>2 DEF Refuse
    <2>4. q.blocks # <<>> /\ Last(q.blocks) = "get_or_create"
      BY <1>o, <1>q, <2>1, InsertsInside
    <2>5. /\ query'[t].pc = "leave" /\ query'[t].id = q.id /\ query'[t].blocks = q.blocks
          /\ query'[t].raised /\ query'[t].refused
      BY <1>q, <2>3, <2>4 DEF Raised, Queries
    <2>6. TagLeft
      BY <1>k, <1>o, <2>2, <2>5 DEF TagLeft
    <2>7. TagLeft' /\ work'[t] = work[t] /\ points'[t] = points[t]
      BY <2>3, <2>6 DEF TagLeft
    <2> HIDE DEF q
    <2> QED
      BY <1>k, <1>o, <2>4, <2>5, <2>7 DEF Answered
  <1>6. CASE Again(t)
    <2>1. q.pc = "again" /\ UNCHANGED <<databaseVars, gone>> /\ SeenTag(t) = NoTag /\ Raised(t, TRUE)
      BY <1>6, <1>g DEF Again, Ready, Stands
    <2>2. /\ query'[t].pc \in {"leave", "done"} /\ query'[t].id = q.id
          /\ query'[t].raised /\ query'[t].refused
      BY <1>q, <2>1 DEF Raised, Queries
    <2>3. gone
      BY <1>k, <1>o, <2>1, <2>2 DEF TagLeft
    <2>4. gone' /\ TagLeft' /\ work'[t] = work[t] /\ points'[t] = points[t]
      BY <2>1, <2>3 DEF TagLeft, databaseVars
    <2>5. query'[t].pc \notin {"update", "comment"}
      BY <2>2
    <2> HIDE DEF q
    <2> QED
      BY <1>k, <1>o, <2>2, <2>4, <2>5 DEF Answered
  <1>7. ~Update(t)
    <2>1. Update(t) => q.pc = "update" /\ query'[t].id = q.id
      BY <1>q DEF Update, Goto, Queries, Ready, Stands
    <2> QED
      BY <1>k, <1>o, <2>1
  <1>8. ~Collect(t) /\ ~StartDelete(t) /\ ~DeleteChildren(t) /\ ~DeleteRow(t)
    BY <1>o, <1>q DEF Shaped, Collect, StartDelete, DeleteChildren, DeleteRow, Ready, Stands
  <1>9. ~InThread(t)
    BY DEF InThread
  <1>10. ~Comment(t)
    <2>1. Comment(t) => q.pc = "comment"
      BY DEF Comment, Ready, Stands
    <2>2. Comment(t) => query'[t].id = q.id
      <3>1. CASE Refuse(t)
        BY <1>q, <3>1 DEF Refuse, Raised, Queries
      <3>2. ASSUME Comment(t), ~Refuse(t) PROVE query'[t].id = q.id
        <4>1. PICK raised \in BOOLEAN :
                query' = [query EXCEPT ![t].raised = raised, ![t].pc = Return(t)]
          BY <3>2 DEF Comment
        <4> QED
          BY <1>q, <4>1 DEF Queries
      <3> QED
        BY <3>1, <3>2
    <2> QED
      BY <1>k, <1>o, <2>1, <2>2
  <1>11. CASE LeaveBlock(t)
    <2> DEFINE kind == Last(q.blocks)
    <2>1. q.pc = "leave"
      BY <1>11 DEF LeaveBlock, Stands
    <2>2. PICK raises \in BOOLEAN :
            Exit(t, q.raised, raises) /\ query' = [query EXCEPT ![t] = After(q, kind, raises)]
      BY <1>11 DEF LeaveBlock
    <2>3. query'[t] = After(q, kind, raises)
      BY <1>q, <2>2
    <2>4. q.id = NoRef
      BY <1>o, <1>q, <2>3 DEF After, Queries
    <2>5. InTx(t) /\ q.blocks # <<>>
      BY <1>q, <2>1, LeavesBlock
    <2>6. q.raised /\ q.refused /\ TagLeft /\ (kind # "get_or_create" => gone)
      BY <1>k, <2>1, <2>4
    <2>7. Rollback(t) /\ raises
      BY <1>q, <2>2, <2>6 DEF Exit
    <2> DEFINE p == points[t]
    <2>8. /\ points'[t] = Front(p) /\ UNCHANGED <<tagRow, gone>>
          /\ (Len(p) = 1 \/ Last(p) # <<>>) => ~spoiled'[t]
          /\ work'[t] = IF Len(p) = 1 THEN Untouched
                        ELSE IF Last(p) = <<>> THEN work[t] ELSE Last(p)[1]
      BY <1>t, <1>q, <2>5, <2>7, RollbackTypes
    <2>9. /\ Len(p) \in Nat /\ Len(p) >= 1 /\ Last(p) = p[Len(p)] /\ Len(Front(p)) = Len(p) - 1
          /\ \A i \in 1..Len(Front(p)) : Front(p)[i] = p[i]
      <3>1. p \in Seq(Saves) /\ p # <<>>
        BY <1>t, <1>q, <2>5 DEF InTx, DatabaseTypes
      <3>2. /\ Front(p) \in Seq(Saves) /\ Len(p) \in Nat /\ Len(p) >= 1 /\ Len(Front(p)) = Len(p) - 1
            /\ \A i \in 1..Len(Front(p)) : Front(p)[i] = p[i]
            /\ Last(p) = p[Len(p)]
        BY <3>1, FrontOf
      <3> QED
        BY <3>2
    <2>10. \A i \in 1..Len(p) : p[i] # <<>> /\ p[i][1].tag = Same
      BY <1>k, <2>4
    <2> HIDE DEF p
    <2>11. Last(p) # <<>> /\ Last(p)[1].tag = Same
      BY <2>9, <2>10
    <2>12. work'[t].tag = Same /\ ~spoiled'[t]
      BY <2>8, <2>11 DEF Untouched
    <2>13. \A i \in 1..Len(points'[t]) : points'[t][i] # <<>> /\ points'[t][i][1].tag = Same
      BY <2>8, <2>9, <2>10
    <2>14. /\ query'[t].raised /\ query'[t].refused = q.refused
           /\ query'[t].pc = IF kind = "get_or_create" THEN "again"
                             ELSE IF Len(q.blocks) = 1 THEN "done" ELSE "leave"
      <3> HIDE DEF kind
      <3>1. query'[t].raised = raises /\ query'[t].refused = q.refused
        BY <1>q, <2>3 DEF After, Queries
      <3>2. query'[t].pc = CASE kind = "get_or_create" /\ raises /\ q.refused -> "again"
                     [] q.op = "update_or_create" /\ kind = "get_or_create" /\ ~raises -> "leave"
                     [] kind = q.op /\ kind # "delete" /\ ~raises -> "comment"
                     [] OTHER -> IF Len(q.blocks) = 1 THEN "done" ELSE "leave"
        BY <1>q, <2>3 DEF After, Queries
      <3> QED
        BY <2>6, <2>7, <3>1, <3>2
    <2>15. TagLeft' /\ (kind # "get_or_create" => gone')
      BY <2>6, <2>8 DEF TagLeft
    <2>16. /\ query'[t].pc \notin {"update", "comment"}
           /\ query'[t].pc \in {"done", "leave"} => gone'
      BY <2>14, <2>15
    <2> HIDE DEF q, kind
    <2> QED
      BY <2>6, <2>12, <2>13, <2>14, <2>15, <2>16 DEF Answered
  <1> QED
    BY <1>1, <1>2, <1>3, <1>4, <1>5, <1>6, <1>7, <1>8, <1>9, <1>10, <1>11 DEF QueryStep

\* By sync_to_async the query is one piece, and every step but the call of an endpoint
\* without Atomic looks at who else is inside a block.
LEMMA SharedSteps ==
  ASSUME ShapeInv, ~pure, NEW u \in Tasks, QueryStep(u)
  PROVE  \/ /\ Enter(u) /\ ~query[u].atomic
            /\ query'[u].blocks = query[u].blocks /\ UNCHANGED <<databaseVars, met>>
         \/ /\ Meet(u, Inside)
            /\ (Enter(u) /\ query[u].atomic) \/ Broken(u) \/ InThread(u) \/ Comment(u) \/ LeaveBlock(u)
  <1> DEFINE q == query[u]
  <1>q. q \in Queries /\ Shaped(q) /\ query \in [Tasks -> Queries]
    BY DEF ShapeInv, RequestTypes, BlocksInv
  <1>1. ~Guard(u) /\ ~GetTag(u) /\ ~InsertTag(u) /\ ~Update(u) /\ ~Collect(u)
    BY DEF Guard, GetTag, InsertTag, Update, Collect
  <1>2. ~Again(u) /\ ~StartDelete(u)
    BY DEF ShapeInv, FlatInv, Again, StartDelete, Ready, Stands
  <1>3. q.pc \notin {"children", "row"}
    <2>1. Len(q.blocks) <= Under(q) /\ Under(q) \in {0, 1}
      BY <1>q, BlocksNumber DEF ShapeInv, FlatInv
    <2>2. ~(Under(q) + 1 <= Under(q))
      BY <2>1
    <2>3. Len(q.blocks) # Under(q) + 1
      BY <2>1, <2>2
    <2> QED
      BY <1>q, <2>3 DEF Shaped
  <1>4. ~DeleteChildren(u) /\ ~DeleteRow(u)
    BY <1>3 DEF DeleteChildren, DeleteRow, Ready, Stands
  <1>5. CASE Enter(u) /\ ~q.atomic
    <2>1. Goto(u, First(q.op)) /\ UNCHANGED <<databaseVars, met>>
      BY <1>5 DEF Enter
    <2>2. query'[u].blocks = q.blocks
      BY <1>q, <2>1 DEF Goto, Queries
    <2> QED
      BY <1>5, <2>1, <2>2
  <1>6. CASE Enter(u) /\ q.atomic
    BY <1>6 DEF Enter
  <1>7. CASE Broken(u) \/ InThread(u) \/ Comment(u) \/ LeaveBlock(u)
    BY <1>7 DEF Broken, InThread, Comment, LeaveBlock
  <1> QED
    BY <1>1, <1>2, <1>4, <1>5, <1>6, <1>7 DEF QueryStep

\* On one connection, a block that met nobody stays the only one.
LEMMA SharedStep ==
  ASSUME ShapeInv, SharedInv, ~pure, NEW u \in Tasks, QueryStep(u)
  PROVE  SharedInv'
  <1> DEFINE q == query[u]
  <1>a. Asked(u)
    BY StepKept
  <1>q. /\ q \in Queries /\ Shaped(q) /\ query \in [Tasks -> Queries] /\ Inside \subseteq Tasks
        /\ Inside' \subseteq Tasks /\ NoRef \notin Ids /\ ~pure'
    BY <1>a, TagFacts DEF ShapeInv, RequestTypes, BlocksInv, Inside, Asked
  <1>m. met \subseteq met' /\ \A t \in Tasks : t # u => query'[t] = query[t] /\ (t \in Inside' <=> t \in Inside)
    BY <1>a DEF Asked, Inside
  <1>c. Conn(u) = Main /\ Main \in Connections
    BY DEF Conn, Connections
  <1>e. Inside = {} => ~spoiled[Main]
    <2>1. Inside = {} => Len(points[Main]) = 0
      BY FS_EmptySet DEF ShapeInv, PointsInv
    <2>2. points[Main] \in Seq(Saves)
      BY <1>c DEF ShapeInv, DatabaseTypes
    <2>3. Inside = {} => points[Main] = <<>>
      BY <2>1, <2>2, EmptySeq
    <2> QED
      BY <1>c, <2>3 DEF ShapeInv, DatabaseTypes, InTx
  <1>o. query'[u].op = q.op
    BY StepDepth
  <1>i. \A t \in Tasks \ met :
          /\ t \in Inside => Inside = {t}
          /\ Asking(query[t]) => /\ ~query[t].raised /\ query[t].pc \in {"enter", "get", "guard"}
                                 /\ t \in Inside => ~spoiled[Main]
    BY DEF SharedInv
  <1> SUFFICES ASSUME NEW t \in Tasks, t \notin met'
               PROVE  /\ t \in Inside' => Inside' = {t}
                      /\ Asking(query'[t]) =>
                           /\ ~query'[t].raised /\ query'[t].pc \in {"enter", "get", "guard"}
                           /\ t \in Inside' => ~spoiled'[Main]
    BY <1>q DEF SharedInv
  <1>t. t \notin met
    BY <1>m
  <1>f. q.op \in {"get_or_create", "update_or_create"} => First(q.op) \in {"enter", "get", "guard"}
    BY DEF First
  <1>1. CASE Enter(u) /\ ~q.atomic /\ query'[u].blocks = q.blocks /\ UNCHANGED <<databaseVars, met>>
    <2>1. Inside' = Inside /\ UNCHANGED spoiled
      BY <1>1, <1>m, <1>q DEF Inside, databaseVars
    <2>2. CASE t # u
      BY <1>i, <1>m, <1>t, <2>1, <2>2
    <2>3. CASE t = u
      <3>1. Goto(u, First(q.op))
        BY <1>1 DEF Enter
      <3>2. query'[u].pc = First(q.op) /\ query'[u].id = q.id /\ query'[u].raised = q.raised
        BY <1>q, <3>1 DEF Goto, Queries
      <3>3. Asking(query'[t]) => Asking(q)
        BY <1>o, <2>3, <3>2 DEF Asking
      <3> QED
        BY <1>f, <1>i, <1>o, <1>t, <2>1, <2>3, <3>2, <3>3 DEF Asking
    <2> QED
      BY <2>2, <2>3
  <1>2. CASE /\ Meet(u, Inside)
             /\ (Enter(u) /\ q.atomic) \/ Broken(u) \/ InThread(u) \/ Comment(u) \/ LeaveBlock(u)
    <2>1. Inside \ {u} # {} => t \notin Inside /\ t # u
      <3>1. met' = IF Inside \ {u} # {} THEN met \cup Inside \cup {u} ELSE met
        BY <1>2 DEF Meet
      <3> QED
        BY <3>1
    <2>2. CASE t # u
      <3>1. t \notin Inside
        BY <2>1, <2>2
      <3>2. t \notin Inside' /\ query'[t] = query[t]
        BY <1>m, <2>2, <3>1
      <3> QED
        BY <1>i, <1>t, <3>2
    <2>3. CASE t = u
      <3>1. Inside \subseteq {u} /\ Inside' \subseteq {u}
        BY <1>m, <1>q, <2>1, <2>3
      <3>2. u \in Inside' => Inside' = {u}
        BY <3>1
      <3>3. Asking(q) => ~spoiled[Main]
        <4>1. CASE u \in Inside
          BY <1>i, <1>t, <2>3, <4>1
        <4>2. CASE u \notin Inside
          BY <1>e, <3>1, <4>2
        <4> QED
          BY <4>1, <4>2
      <3>4. Asking(q) => ~q.raised /\ q.pc \in {"enter", "get", "guard"}
        BY <1>i, <1>t, <2>3
      <3> SUFFICES ASSUME Asking(query'[u])
                   PROVE  /\ ~query'[u].raised /\ query'[u].pc \in {"enter", "get", "guard"}
                          /\ ~spoiled'[Main]
        BY <2>3, <3>2
      <3>5. CASE Enter(u) /\ q.atomic
        <4>1. EnterBlock(u, "endpoint", First(q.op)) /\ q.pc = "enter"
          BY <3>5 DEF Enter, Stands
        <4>2. query'[u].pc = First(q.op) /\ query'[u].id = q.id /\ query'[u].raised = q.raised
          BY <1>q, <4>1 DEF EnterBlock, Queries
        <4>3. UNCHANGED spoiled
          BY <4>1 DEF EnterBlock
        <4>4. Asking(q)
          BY <1>o, <4>2 DEF Asking
        <4> QED
          BY <1>f, <3>3, <3>4, <4>2, <4>3, <4>4 DEF Asking
      <3>6. CASE Broken(u)
        <4>1. spoiled[Main] /\ query'[u].id = q.id
          BY <1>c, <1>q, <3>6 DEF Broken, Raised, Queries
        <4>2. Asking(q)
          BY <1>o, <4>1 DEF Asking
        <4> QED
          BY <3>3, <4>1, <4>2
      <3>7. CASE InThread(u)
        <4> DEFINE id == IF SeenTag(u) = NoTag THEN u ELSE SeenTag(u)[1]
        <4>1. q.op # "create"
          BY <1>o DEF Asking
        <4>2. query' = [query EXCEPT ![u].id = id,
                          ![u].pc = IF q.op # "delete" THEN "comment" ELSE Return(u)]
          BY <3>7, <4>1 DEF InThread
        <4>3. query'[u].id = id
          BY <1>q, <4>2 DEF Queries
        <4>4. id \in Ids
          BY WritesTypes, TagFacts DEF ShapeInv, Ids
        <4> QED
          BY <1>q, <4>3, <4>4 DEF Asking
      <3>8. CASE Comment(u)
        <4>1. q.pc = "comment"
          BY <3>8 DEF Comment, Ready, Stands
        <4>2. query'[u].id = q.id
          <5>1. CASE Refuse(u)
            BY <1>q, <5>1 DEF Refuse, Raised, Queries
          <5>2. CASE ~Refuse(u)
            <6>1. PICK raised \in BOOLEAN :
                    query' = [query EXCEPT ![u].raised = raised, ![u].pc = Return(u)]
              BY <3>8, <5>2 DEF Comment
            <6> QED
              BY <1>q, <6>1 DEF Queries
          <5> QED
            BY <5>1, <5>2
        <4> QED
          BY <1>o, <3>4, <4>1, <4>2 DEF Asking
      <3>9. CASE LeaveBlock(u)
        <4>1. q.pc = "leave"
          BY <3>9 DEF LeaveBlock, Stands
        <4>2. PICK raises \in BOOLEAN : query' = [query EXCEPT ![u] = After(q, Last(q.blocks), raises)]
          BY <3>9 DEF LeaveBlock
        <4>3. query'[u].id = q.id
          BY <1>q, <4>2 DEF After, Queries
        <4> QED
          BY <1>o, <3>4, <4>1, <4>3 DEF Asking
      <3> QED
        BY <1>2, <3>5, <3>6, <3>7, <3>8, <3>9
    <2> QED
      BY <2>2, <2>3
  <1> QED
    BY <1>1, <1>2, SharedSteps

\* The invariant holds in the beginning.
LEMMA QueryInitInv == QueryInit => QueryInv
  <1> SUFFICES ASSUME QueryInit PROVE QueryInv
    OBVIOUS
  <1>1. \A t \in Tasks : /\ query[t].pc = "enter" /\ ~query[t].raised /\ query[t].blocks = <<>>
    BY DEF QueryInit
  <1>2. \A c \in Connections : work[c].tag = Same /\ points[c] = <<>> /\ ~spoiled[c]
    BY DEF QueryInit, Untouched
  <1>3. Tasks \subseteq Connections
    BY DEF Connections
  <1>4. PureInv
    BY <1>1, <1>2, <1>3 DEF PureInv, Answered
  <1>5. SharedInv
    BY <1>1 DEF SharedInv, Inside
  <1> QED
    BY <1>4, <1>5, ShapeInit DEF QueryInv

\* Every step keeps the invariant.
LEMMA QueryStepInv == QueryInv /\ [QueryNext]_queryVars => QueryInv'
  <1> SUFFICES ASSUME QueryInv, [QueryNext]_queryVars PROVE QueryInv'
    OBVIOUS
  <1>1. ShapeInv /\ ShapeInv' /\ pure \in BOOLEAN
    BY ShapeStep DEF QueryInv, ShapeInv, RequestTypes
  <1>2. ASSUME NEW u \in Tasks, QueryStep(u) PROVE PureInv' /\ SharedInv'
    <2>1. UNCHANGED pure
      BY <1>1, <1>2, StepKept DEF Asked
    <2>2. CASE pure
      <3>1. \A t \in Tasks : Answered(t)
        BY <2>2 DEF QueryInv, PureInv
      <3>2. \A t \in Tasks : Answered(t)'
        <4> SUFFICES ASSUME NEW t \in Tasks PROVE Answered(t)'
          OBVIOUS
        <4>1. CASE t = u
          BY <1>1, <1>2, <2>2, <3>1, <4>1, OwnAnswered
        <4>2. CASE t # u
          BY <1>1, <1>2, <2>2, <3>1, <4>2, OthersAnswered
        <4> QED
          BY <4>1, <4>2
      <3> QED
        BY <2>1, <2>2, <3>2 DEF PureInv, SharedInv
    <2>3. CASE ~pure
      <3>1. SharedInv'
        BY <1>1, <1>2, <2>3, SharedStep DEF QueryInv
      <3> QED
        BY <2>1, <2>3, <3>1 DEF PureInv
    <2> QED
      BY <1>1, <2>2, <2>3
  <1>3. CASE UNCHANGED queryVars
    <2>1. PureInv'
      BY <1>3 DEF queryVars, QueryInv, PureInv, Answered, TagLeft
    <2>2. SharedInv'
      BY <1>3 DEF queryVars, QueryInv, SharedInv, Inside
    <2> QED
      BY <1>1, <2>1, <2>2 DEF QueryInv
  <1>4. ASSUME NEW u \in Tasks, QueryStep(u) PROVE QueryInv'
    BY <1>1, <1>2, <1>4 DEF QueryInv
  <1> QED
    BY <1>3, <1>4 DEF QueryNext, QueriesEnded

\* get_or_create and update_or_create answer however many requests create the tag
\* at the same time (aget_or_create of backends/django/queryset.py and the savepoints
\* of databases/encode.py).
THEOREM QueriesAnswer == QuerySpec => []QueryAnswers
  <1>1. QueryInit => QueryInv
    BY QueryInitInv
  <1>2. QueryInv /\ [QueryNext]_queryVars => QueryInv'
    BY QueryStepInv
  <1>3. QueryInv => QueryAnswers
    BY InvAnswers
  <1> QED
    BY <1>1, <1>2, <1>3, PTL DEF QuerySpec
-----------------------------------------------------------------------------
(* What a step does to the tables and the connections *)

\* A statement of u makes w of what its connection has written.
Writes(u, w) ==
  LET c  == Conn(u)
      id == query'[u].id
  IN /\ w \in Works /\ Perform(u, w) /\ points' = points
     /\ \/ w.tag = work[c].tag
        \/ w.tag = NoTag /\ (InTx(c) \/ \A v \in Tasks : w.comment[v] = NoRef)
        \/ /\ w.tag = Tag(id, u) /\ id \in Ids
           /\ \/ HasId(SeenTag(u), id)
              \/ id = u /\ SeenTag(u) = NoTag /\ query[u].pc \in {"insert", "get", "guard"}
     /\ \A v \in Tasks : \/ w.comment[v] \in {work[c].comment[v], NoRef}
                         \/ v = u /\ w.tag = work[c].tag /\ (InTx(c) \/ HasId(SeenTag(u), w.comment[u]))

\* What else a step does to them: nothing, a savepoint more, back to one, one less, a commit.
Quiet(u)  == UNCHANGED <<tagRow, comment, work, points>>
Opens(u)  == /\ UNCHANGED <<tagRow, comment, work>>
             /\ points'[Conn(u)] = Append(points[Conn(u)], IF spoiled[Conn(u)] THEN <<>> ELSE <<work[Conn(u)]>>)
Backs(u)  == InTx(Conn(u)) /\ Rollback(Conn(u))
Frees(u)  == InTx(Conn(u)) /\ Len(points[Conn(u)]) # 1 /\ Release(Conn(u))
Settles(u) == Len(points[Conn(u)]) = 1 /\ ~spoiled[Conn(u)] /\ Referenced(work[Conn(u)]) /\ Commit(Conn(u))

Effect(u) == Quiet(u) \/ Opens(u) \/ (\E w \in Works : Writes(u, w)) \/ Backs(u) \/ Frees(u) \/ Settles(u)

\* A request keeps the id it has, or takes its own or that of the tag it sees.
Named(u) ==
  query'[u].id = query[u].id \/ query'[u].id = u \/ (SeenTag(u) # NoTag /\ query'[u].id = SeenTag(u)[1])

\* Outside of transactions nothing is kept back.
LEMMA OutOfTx ==
  ASSUME DatabaseTypes, NEW u \in Tasks, ~InTx(Conn(u))
  PROVE  work[Conn(u)] = Untouched /\ SeenTag(u) = tagRow
  BY ConnType DEF DatabaseTypes, SeenTag, Over, Untouched

\* A request is in a transaction while it is in a block.
LEMMA InsideTx ==
  ASSUME ShapeInv, NEW u \in Tasks, query[u].blocks # <<>>
  PROVE  InTx(Conn(u))
  <1>1. query[u] \in Queries
    BY DEF ShapeInv, RequestTypes
  <1>2. Len(query[u].blocks) \in Nat /\ Len(query[u].blocks) >= 1
    BY <1>1, BlocksNumber
  <1>3. CASE pure
    <2>1. Len(points[u]) >= 1 /\ Conn(u) = u
      BY <1>2, <1>3 DEF ShapeInv, PointsInv, Conn
    <2> QED
      BY <1>2, <2>1 DEF InTx
  <1>4. CASE ~pure
    <2>1. IsFiniteSet(Inside) /\ Len(points[Main]) = Cardinality(Inside) /\ Conn(u) = Main
      BY <1>4 DEF ShapeInv, PointsInv, Conn
    <2>2. u \in Inside
      BY DEF Inside
    <2>3. Cardinality(Inside) # 0
      BY <2>1, <2>2, FS_EmptySet
    <2> QED
      BY <2>1, <2>3 DEF InTx
  <1> QED
    BY <1>3, <1>4

\* Every step leaves the database alone, opens a block, writes, or leaves a block in one of
\* three ways; a request takes no id but its own or that of a tag it sees.
LEMMA StepEffect ==
  ASSUME ShapeInv, NEW u \in Tasks, QueryStep(u)
  PROVE  Effect(u) /\ Named(u)
  <1> DEFINE q == query[u]
             c == Conn(u)
             Goal == Effect(u) /\ Named(u)
  <1>t. DatabaseTypes /\ RequestTypes /\ BlocksInv
    BY DEF ShapeInv
  <1>q. /\ q \in Queries /\ Shaped(q) /\ query \in [Tasks -> Queries] /\ c \in Connections
        /\ work[c] \in Works /\ Writing(u) = work[c]
    BY <1>t, ConnType DEF RequestTypes, BlocksInv, DatabaseTypes, Writing
  <1>n. ASSUME UNCHANGED <<databaseVars>>, Named(u) PROVE Goal
    BY <1>n DEF Effect, Quiet, databaseVars
  <1>e. ASSUME NEW kind, NEW pc, EnterBlock(u, kind, pc) PROVE Goal
    <2>1. Opens(u)
      BY <1>t, <1>e, EnterKept DEF Opens
    <2>2. query'[u].id = q.id
      BY <1>q, <1>e DEF EnterBlock, Queries
    <2> QED
      BY <2>1, <2>2 DEF Effect, Named
  <1>r. ASSUME NEW integrity, Raised(u, integrity) PROVE query'[u].id = q.id
    BY <1>q, <1>r DEF Raised, Queries
  <1>f. ASSUME Refuse(u) PROVE Goal
    <2>1. UNCHANGED <<tagRow, comment, work, points>> /\ Raised(u, TRUE)
      BY <1>f DEF Refuse
    <2> QED
      BY <1>r, <2>1 DEF Effect, Quiet, Named
  <1>g. ASSUME Got(u), SeenTag(u) # NoTag PROVE Named(u)
    BY <1>q, <1>g DEF Got, Queries, Named
  <1>o. ASSUME NEW pc, Goto(u, pc) PROVE query'[u].id = q.id
    BY <1>q, <1>o DEF Goto, Queries
  <1>1. CASE Enter(u)
    <2>1. CASE q.atomic
      BY <1>1, <1>e, <2>1 DEF Enter
    <2>2. CASE ~q.atomic
      BY <1>1, <1>n, <1>o, <2>2 DEF Enter, Named
    <2> QED
      BY <2>1, <2>2
  <1>2. CASE Broken(u)
    BY <1>2, <1>n, <1>r DEF Broken, Named
  <1>3. CASE Guard(u)
    BY <1>3, <1>e DEF Guard
  <1>4. CASE GetTag(u)
    BY <1>4, <1>e, <1>g, <1>n DEF GetTag
  <1>5. CASE InsertTag(u)
    <2>1. CASE Refuse(u)
      BY <1>f, <2>1
    <2>2. CASE ~Refuse(u)
      <3> DEFINE w == [Writing(u) EXCEPT !.tag = Tag(u, u)]
      <3>1. /\ Perform(u, w) /\ SeenTag(u) = NoTag /\ q.pc = "insert" /\ UNCHANGED points
            /\ query' = [query EXCEPT ![u].id = u, ![u].pc = IF q.op = "create" THEN "comment" ELSE "leave"]
        BY <1>5, <2>2 DEF InsertTag, Ready, Stands
      <3>2. query'[u].id = u /\ u \in Ids /\ Tag(u, u) \in Tags
        BY <1>q, <3>1, TagFacts DEF Queries, Ids
      <3>3. w \in Works
        BY <1>t, <3>2, WritesTypes
      <3>4. w.tag = Tag(u, u) /\ \A v \in Tasks : w.comment[v] = work[c].comment[v]
        BY <1>q DEF Works
      <3> HIDE DEF w
      <3>5. Writes(u, w)
        BY <3>1, <3>2, <3>3, <3>4 DEF Writes
      <3> QED
        BY <3>2, <3>3, <3>5 DEF Effect, Named
    <2> QED
      BY <2>1, <2>2
  <1>6. CASE Again(u)
    BY <1>6, <1>g, <1>n, <1>r DEF Again, Named
  <1>7. CASE Update(u)
    <2>1. query'[u].id = q.id /\ points' = points
      BY <1>7, <1>o DEF Update
    <2>2. CASE HasId(SeenTag(u), q.id)
      <3> DEFINE w == [Writing(u) EXCEPT !.tag = Tag(q.id, u)]
      <3>1. Perform(u, w)
        BY <1>7, <2>2 DEF Update
      <3>2. q.id \in Ids
        BY <1>t, <2>2, WritesTypes, TagFacts DEF HasId
      <3>3. Tag(q.id, u) \in Tags
        BY <3>2, TagFacts DEF Ids
      <3>4. w \in Works
        BY <1>t, <3>3, WritesTypes
      <3>5. w.tag = Tag(q.id, u) /\ \A v \in Tasks : w.comment[v] = work[c].comment[v]
        BY <1>q DEF Works
      <3> HIDE DEF w
      <3>6. Writes(u, w)
        BY <2>1, <2>2, <3>1, <3>2, <3>4, <3>5 DEF Writes
      <3> QED
        BY <2>1, <3>4, <3>6 DEF Effect, Named
    <2>3. CASE ~HasId(SeenTag(u), q.id)
      BY <1>7, <2>1, <2>3 DEF Update, Effect, Quiet, Named
    <2> QED
      BY <2>2, <2>3
  <1>8. CASE Collect(u)
    <2>1. CASE SeenTag(u) = NoTag
      <3>1. query' = [query EXCEPT ![u].pc = Return(u)]
        BY <1>8, <2>1 DEF Collect
      <3>2. query'[u].id = q.id
        BY <1>q, <3>1 DEF Queries
      <3> QED
        BY <1>8, <1>n, <3>2 DEF Collect, Named
    <2>2. CASE SeenTag(u) # NoTag
      <3>1. query' = [query EXCEPT ![u].pc = "start", ![u].id = SeenTag(u)[1],
                        ![u].children = {v \in Tasks : SeenComment(u, v) = SeenTag(u)[1]}]
        BY <1>8, <2>2 DEF Collect
      <3>2. query'[u].id = SeenTag(u)[1]
        BY <1>q, <3>1 DEF Queries
      <3> QED
        BY <1>8, <1>n, <2>2, <3>2 DEF Collect, Named
    <2> QED
      BY <2>1, <2>2
  <1>9. CASE StartDelete(u)
    BY <1>9, <1>e DEF StartDelete
  <1>in. q.pc \in {"children", "row"} => InTx(c)
    <2>1. q.pc \in {"children", "row"} => q.blocks # <<>>
      BY <1>q, BlocksNumber DEF Shaped
    <2> QED
      BY <2>1, InsideTx
  <1>10. CASE DeleteChildren(u)
    <2> DEFINE w == [Writing(u) EXCEPT !.comment = [v \in Tasks |->
                       IF v \in q.children /\ SeenComment(u, v) # NoRef THEN NoRef ELSE @[v]]]
    <2>1. Perform(u, w) /\ query'[u].id = q.id /\ points' = points
      BY <1>10, <1>o DEF DeleteChildren
    <2>2. w \in Works
      <3>1. q.children \in SUBSET Tasks
        BY <1>q DEF Queries
      <3> HIDE DEF q
      <3> QED
        BY <1>t, <3>1, WritesTypes
    <2>3. w.tag = work[c].tag /\ \A v \in Tasks : w.comment[v] \in {work[c].comment[v], NoRef}
      BY <1>q DEF Works
    <2> HIDE DEF w
    <2>4. Writes(u, w)
      BY <2>1, <2>2, <2>3 DEF Writes
    <2> QED
      BY <2>1, <2>2, <2>4 DEF Effect, Named
  <1>11. CASE DeleteRow(u)
    <2>1. query'[u].id = q.id /\ points' = points /\ InTx(c)
      BY <1>11, <1>o, <1>in DEF DeleteRow, Ready, Stands
    <2>2. CASE HasId(SeenTag(u), q.id)
      <3> DEFINE w == [Writing(u) EXCEPT !.tag = NoTag]
      <3>1. Perform(u, w)
        BY <1>11, <2>2 DEF DeleteRow
      <3>2. w \in Works
        BY <1>t, WritesTypes, TagFacts
      <3>3. w.tag = NoTag /\ \A v \in Tasks : w.comment[v] = work[c].comment[v]
        BY <1>q DEF Works
      <3> HIDE DEF w
      <3>4. Writes(u, w)
        BY <2>1, <3>1, <3>2, <3>3 DEF Writes
      <3> QED
        BY <2>1, <3>2, <3>4 DEF Effect, Named
    <2>3. CASE ~HasId(SeenTag(u), q.id)
      BY <1>11, <2>1, <2>3 DEF DeleteRow, Effect, Quiet, Named
    <2> QED
      BY <2>2, <2>3
  <1>12. CASE InThread(u)
    <2> DEFINE row == SeenTag(u)
               id == IF row = NoTag THEN u ELSE row[1]
               w == CASE q.op = "delete" -> [tag |-> NoTag, comment |-> [v \in Tasks |-> NoRef]]
                      [] q.op = "get_or_create" /\ row # NoTag -> work[c]
                      [] OTHER -> [work[c] EXCEPT !.tag = Tag(id, u)]
    <2>1. CASE Refuse(u)
      BY <1>f, <2>1
    <2>2. CASE ~Refuse(u)
      <3>1. /\ Perform(u, w) /\ UNCHANGED points /\ q.pc \in {"insert", "get", "guard", "collect"}
            /\ query' = [query EXCEPT ![u].id = id, ![u].pc = IF q.op # "delete" THEN "comment" ELSE Return(u)]
        BY <1>12, <2>2 DEF InThread, Ready, Stands
      <3>2. query'[u].id = id
        BY <1>q, <3>1 DEF Queries
      <3>3. row \in Tags /\ id \in Ids
        <4>1. row \in Tags
          BY <1>t, WritesTypes
        <4> QED
          BY <4>1, TagFacts DEF Ids
      <3>4. Tag(id, u) \in Tags
        BY <3>3, TagFacts DEF Ids
      <3>5. Named(u)
        BY <3>2 DEF Named
      <3>6. CASE q.op = "delete"
        <4>1. w = [tag |-> NoTag, comment |-> [v \in Tasks |-> NoRef]]
          BY <3>6
        <4> HIDE DEF w
        <4>2. w \in Works /\ w.tag = NoTag /\ \A v \in Tasks : w.comment[v] = NoRef
          BY <1>t, <4>1, WritesTypes
        <4>3. Writes(u, w)
          BY <3>1, <4>2 DEF Writes
        <4> QED
          BY <3>5, <4>2, <4>3 DEF Effect
      <3>7. CASE q.op = "get_or_create" /\ row # NoTag
        <4>1. w = work[c]
          BY <3>7
        <4> HIDE DEF w
        <4>2. Writes(u, w)
          BY <1>q, <3>1, <4>1 DEF Writes
        <4> QED
          BY <1>q, <3>5, <4>1, <4>2 DEF Effect
      <3>8. CASE q.op # "delete" /\ ~(q.op = "get_or_create" /\ row # NoTag)
        <4>1. w = [work[c] EXCEPT !.tag = Tag(id, u)]
          BY <3>8
        <4> HIDE DEF w
        <4>2. w.tag = Tag(id, u) /\ \A v \in Tasks : w.comment[v] = work[c].comment[v]
          BY <1>q, <4>1 DEF Works
        <4>3. w \in Works
          BY <1>t, <1>q, <3>4, <4>1, WritesTypes
        <4>4. HasId(row, id) \/ (id = u /\ row = NoTag /\ q.pc \in {"insert", "get", "guard"})
          <5>1. q.pc # "collect"
            BY <1>q, <3>8 DEF Shaped
          <5> QED
            BY <3>1, <5>1 DEF HasId
        <4> HIDE DEF id
        <4>5. Writes(u, w)
          BY <3>1, <3>2, <3>3, <4>2, <4>3, <4>4 DEF Writes
        <4> QED
          BY <3>5, <4>3, <4>5 DEF Effect
      <3> QED
        BY <3>6, <3>7, <3>8
    <2> QED
      BY <2>1, <2>2
  <1>13. CASE Comment(u)
    <2> DEFINE w == [Writing(u) EXCEPT !.comment[u] = q.id]
               checked == pure /\ InTx(c)
    <2>1. CASE Refuse(u)
      BY <1>f, <2>1
    <2>2. CASE ~Refuse(u)
      <3>1. Perform(u, w) /\ UNCHANGED points /\ (checked \/ HasId(SeenTag(u), q.id))
        BY <1>13, <2>2 DEF Comment
      <3>2. PICK raised \in BOOLEAN : query' = [query EXCEPT ![u].raised = raised, ![u].pc = Return(u)]
        BY <1>13, <2>2 DEF Comment
      <3>3. query'[u].id = q.id /\ q.id \in Refs
        BY <1>q, <3>2 DEF Queries
      <3>4. w \in Works
        BY <1>t, <3>3, WritesTypes
      <3>5. /\ w.tag = work[c].tag /\ w.comment[u] = q.id
            /\ \A v \in Tasks \ {u} : w.comment[v] = work[c].comment[v]
        BY <1>q DEF Works
      <3> HIDE DEF w
      <3>6. Writes(u, w)
        BY <3>1, <3>4, <3>5 DEF Writes
      <3> QED
        BY <3>3, <3>4, <3>6 DEF Effect, Named
    <2> QED
      BY <2>1, <2>2
  <1>14. CASE LeaveBlock(u)
    <2>1. PICK raises \in BOOLEAN :
            Exit(u, q.raised, raises) /\ query' = [query EXCEPT ![u] = After(q, Last(q.blocks), raises)]
      BY <1>14 DEF LeaveBlock
    <2>2. query'[u].id = q.id
      BY <1>q, <2>1 DEF After, Queries
    <2>3. InTx(c)
      BY <1>14, LeavesBlock DEF LeaveBlock, Stands
    <2>4. \/ Rollback(c) \/ (Release(c) /\ Len(points[c]) # 1)
          \/ (Commit(c) /\ Len(points[c]) = 1 /\ ~spoiled[c] /\ Referenced(work[c]))
      BY <2>1 DEF Exit
    <2> QED
      BY <2>2, <2>3, <2>4 DEF Effect, Named, Backs, Frees, Settles
  <1> QED
    BY <1>1, <1>2, <1>3, <1>4, <1>5, <1>6, <1>7, <1>8, <1>9, <1>10, <1>11, <1>12, <1>13, <1>14 DEF QueryStep

-----------------------------------------------------------------------------
(* References *)

\* A comment refers to the tag that is there.
RefInv == \A v \in Tasks : comment[v] # NoRef => HasId(tagRow, comment[v])

\* A committed comment refers to the committed tag: statements outside of transactions look
\* at once, and a transaction looks when it ends.
LEMMA RefKept ==
  ASSUME ShapeInv, RefInv, NEW u \in Tasks, QueryStep(u)
  PROVE  RefInv'
  <1> DEFINE c == Conn(u)
  <1>t. DatabaseTypes /\ Effect(u) /\ c \in Connections /\ NoRef # Same
    BY StepEffect, ConnType, TagFacts DEF ShapeInv
  <1>1. ASSUME UNCHANGED <<tagRow, comment>> PROVE RefInv'
    BY <1>1 DEF RefInv, HasId
  <1>2. CASE Quiet(u) \/ Opens(u) \/ Backs(u) \/ Frees(u)
    BY <1>1, <1>2 DEF Quiet, Opens, Backs, Frees, Rollback, Release
  <1>3. ASSUME NEW w \in Works, Writes(u, w) PROVE RefInv'
    <2>1. CASE InTx(c)
      BY <1>1, <1>3, <2>1 DEF Writes, Perform
    <2>2. CASE ~InTx(c)
      <3>1. work[c] = Untouched /\ SeenTag(u) = tagRow
        BY <1>t, <2>2, OutOfTx
      <3>2. /\ tagRow' = Over(w.tag, tagRow)
            /\ \A v \in Tasks : comment'[v] = Over(w.comment[v], comment[v])
        BY <1>3, <2>2 DEF Writes, Perform, MakeDurable
      <3>3. work[c].tag = Same /\ \A v \in Tasks : work[c].comment[v] = Same
        BY <3>1 DEF Untouched
      <3> SUFFICES ASSUME NEW v \in Tasks, comment'[v] # NoRef PROVE HasId(tagRow', comment'[v])
        BY DEF RefInv
      <3>4. comment[v] # NoRef => HasId(tagRow, comment[v])
        BY DEF RefInv
      <3>5. \/ w.comment[v] \in {Same, NoRef}
            \/ w.tag = Same /\ HasId(tagRow, w.comment[v])
        BY <1>3, <2>2, <3>1, <3>3 DEF Writes
      <3>6. CASE w.tag = Same
        <4>1. tagRow' = tagRow
          BY <3>2, <3>6 DEF Over
        <4> QED
          BY <3>2, <3>4, <3>5, <4>1 DEF Over
      <3>7. CASE w.tag = NoTag
        <4>1. w.comment[v] = NoRef
          BY <1>3, <2>2, <3>3, <3>7, TagFacts DEF Writes, Tag, NoTag
        <4> QED
          BY <1>t, <3>2, <4>1 DEF Over
      <3>8. CASE w.tag \notin {Same, NoTag}
        <4> DEFINE id == query'[u].id
        <4>1. w.tag = Tag(id, u) /\ id \in Ids /\ (HasId(tagRow, id) \/ tagRow = NoTag)
          BY <1>3, <3>1, <3>3, <3>8 DEF Writes
        <4> HIDE DEF id
        <4>2. w.comment[v] \in {Same, NoRef} /\ tagRow' = Tag(id, u)
          BY <3>2, <3>5, <3>8, <4>1 DEF Over
        <4>3. comment'[v] = comment[v]
          BY <1>t, <3>2, <4>2 DEF Over
        <4>4. HasId(tagRow, comment[v])
          BY <3>4, <4>3
        <4>5. comment[v] = id
          BY <4>1, <4>4 DEF HasId
        <4>6. Tag(id, u) # NoTag /\ Tag(id, u)[1] = id
          BY <4>1, TagFacts DEF Ids
        <4> QED
          BY <4>2, <4>3, <4>5, <4>6 DEF HasId
      <3> QED
        BY <3>6, <3>7, <3>8
    <2> QED
      BY <2>1, <2>2
  <1>4. CASE Settles(u)
    <2> DEFINE w == work[c]
    <2>1. /\ tagRow' = Over(w.tag, tagRow) /\ Referenced(w)
          /\ \A v \in Tasks : comment'[v] = Over(w.comment[v], comment[v])
      BY <1>4 DEF Settles, Commit, MakeDurable
    <2> SUFFICES ASSUME NEW v \in Tasks, comment'[v] # NoRef PROVE HasId(tagRow', comment'[v])
      BY DEF RefInv
    <2> HIDE DEF w
    <2>2. CASE w.comment[v] # Same \/ w.tag # Same
      BY <2>1, <2>2 DEF Referenced
    <2>3. CASE w.comment[v] = Same /\ w.tag = Same
      BY <2>1, <2>3 DEF Over, RefInv
    <2> QED
      BY <2>2, <2>3
  <1> QED
    BY <1>t, <1>2, <1>3, <1>4 DEF Effect
-----------------------------------------------------------------------------
(* What nobody else has of a request *)

\* Rows, writes and connections that have neither the id nor the name of t.
Free(t, row)  == row \in {Same, NoTag} \/ t \notin {row[1], row[2]}
Clean(t, w)   == Free(t, w.tag) /\ w.comment[t] \in {Same, NoRef}
CleanAt(t, c) ==
  /\ Clean(t, work[c])
  /\ \A i \in 1..Len(points[c]) : points[c][i] # <<>> => Clean(t, points[c][i][1])

\* A step of another request on a connection that has nothing of t.
LEMMA CleanKept ==
  ASSUME ShapeInv, NEW t \in Tasks, NEW u \in Tasks \ {t}, QueryStep(u), NEW c, c = Conn(u),
         CleanAt(t, c), Free(t, tagRow), comment[t] = NoRef, query[u].id # t
  PROVE  /\ CleanAt(t, c)' /\ Free(t, tagRow)' /\ (comment[t] = NoRef)' /\ query'[u].id # t
  <1>t. /\ DatabaseTypes /\ Effect(u) /\ Named(u) /\ c \in Connections /\ NoRef # Same
        /\ NoTag # Same /\ tagRow \in Tags /\ tagRow # Same
    BY StepEffect, ConnType, TagFacts DEF ShapeInv, DatabaseTypes
  <1>p. points[c] \in Seq(Saves) /\ Len(points[c]) \in Nat /\ work[c] \in Works
    BY <1>t DEF DatabaseTypes
  <1>s. Free(t, SeenTag(u)) /\ SeenTag(u) # Same
    BY <1>t DEF SeenTag, Over, CleanAt, Clean
  <1>i. query'[u].id # t
    <2>1. SeenTag(u) # NoTag => SeenTag(u)[1] # t
      BY <1>s DEF Free
    <2> QED
      BY <1>t, <2>1 DEF Named
  <1>u. Clean(t, Untouched)
    BY DEF Clean, Free, Untouched
  <1>d. ASSUME NEW w, Clean(t, w), tagRow' = Over(w.tag, tagRow), comment'[t] = Over(w.comment[t], comment[t])
        PROVE  Free(t, tagRow)' /\ (comment[t] = NoRef)'
    BY <1>d DEF Clean, Free, Over
  <1>w. ASSUME work' = work, points' = points PROVE CleanAt(t, c)'
    BY <1>w DEF CleanAt, Clean, Free
  <1>1. CASE Quiet(u)
    BY <1>1, <1>i, <1>w DEF Quiet, Free
  <1>2. CASE Opens(u)
    <2> DEFINE e == IF spoiled[c] THEN <<>> ELSE <<work[c]>>
    <2>1. e \in Saves /\ (e # <<>> => Clean(t, e[1]))
      BY <1>p DEF Saves, CleanAt
    <2>2. points'[c] = Append(points[c], e) /\ UNCHANGED <<tagRow, comment, work>>
      BY <1>2 DEF Opens
    <2> HIDE DEF e
    <2>3. /\ Len(points'[c]) = Len(points[c]) + 1 /\ points'[c][Len(points[c]) + 1] = e
          /\ \A i \in 1..Len(points[c]) : points'[c][i] = points[c][i]
      BY <1>p, <2>1, <2>2, PushedOn
    <2>4. ASSUME NEW i \in 1..Len(points'[c]), points'[c][i] # <<>> PROVE Clean(t, points'[c][i][1])
      <3>1. i \in 1..Len(points[c]) \/ i = Len(points[c]) + 1
        BY <1>p, <2>3
      <3>2. CASE i \in 1..Len(points[c])
        BY <2>3, <2>4, <3>2 DEF CleanAt
      <3>3. CASE i = Len(points[c]) + 1
        BY <2>1, <2>3, <2>4, <3>3
      <3> QED
        BY <3>1, <3>2, <3>3
    <2> QED
      BY <1>i, <2>2, <2>4 DEF CleanAt, Clean, Free
  <1>3. ASSUME NEW w \in Works, Writes(u, w)
        PROVE  CleanAt(t, c)' /\ Free(t, tagRow)' /\ (comment[t] = NoRef)'
    <2>1. Free(t, w.tag)
      <3> DEFINE id == query'[u].id
      <3>1. \/ w.tag = work[c].tag
            \/ w.tag = NoTag
            \/ w.tag = Tag(id, u) /\ id \in Ids
        <4>1. c = Conn(u)
          OBVIOUS
        <4> QED
          BY <1>3, <4>1, Zenon DEF Writes
      <3>2. ASSUME w.tag = Tag(id, u), id \in Ids PROVE t \notin {w.tag[1], w.tag[2]}
        BY <1>i, <3>2, TagFacts DEF Ids
      <3> HIDE DEF id
      <3> QED
        BY <3>1, <3>2 DEF CleanAt, Clean, Free
    <2>2. w.comment[t] \in {Same, NoRef}
      BY <1>3 DEF Writes, CleanAt, Clean
    <2>3. Clean(t, w)
      BY <2>1, <2>2 DEF Clean
    <2>4. points' = points /\ Perform(u, w)
      BY <1>3 DEF Writes
    <2>5. CASE InTx(c)
      <3>1. work'[c] = w /\ UNCHANGED <<tagRow, comment>>
        BY <1>t, <2>4, <2>5 DEF Perform, DatabaseTypes
      <3> QED
        BY <2>3, <2>4, <3>1 DEF CleanAt, Clean, Free
    <2>6. CASE ~InTx(c)
      <3>1. work' = work /\ MakeDurable(w)
        BY <2>4, <2>6 DEF Perform
      <3>2. tagRow' = Over(w.tag, tagRow) /\ comment'[t] = Over(w.comment[t], comment[t])
        BY <3>1 DEF MakeDurable
      <3> QED
        BY <1>d, <1>w, <2>3, <2>4, <3>1, <3>2
    <2> QED
      BY <2>5, <2>6
  <1>4. CASE Backs(u)
    <2> DEFINE p == points[c]
    <2>1. /\ points'[c] = Front(p) /\ UNCHANGED <<tagRow, comment>>
          /\ work'[c] = IF Len(p) = 1 THEN Untouched ELSE IF Last(p) = <<>> THEN work[c] ELSE Last(p)[1]
      BY <1>t, <1>4, RollbackTypes DEF Backs
    <2>2. /\ Len(p) \in Nat /\ Len(p) >= 1 /\ Last(p) = p[Len(p)] /\ Len(Front(p)) = Len(p) - 1
          /\ \A i \in 1..Len(Front(p)) : Front(p)[i] = p[i]
      <3>1. p # <<>>
        BY <1>4 DEF Backs, InTx
      <3> HIDE DEF p
      <3> QED
        BY <1>p, <3>1, FrontOf DEF p
    <2>3. \A i \in 1..Len(p) : p[i] # <<>> => Clean(t, p[i][1])
      BY DEF CleanAt
    <2>4. Clean(t, work[c])
      BY DEF CleanAt
    <2> HIDE DEF p
    <2>5. Clean(t, work'[c])
      <3>1. Last(p) # <<>> => Clean(t, Last(p)[1])
        BY <2>2, <2>3
      <3> QED
        BY <1>u, <2>1, <2>4, <3>1
    <2>6. \A i \in 1..Len(points'[c]) : points'[c][i] # <<>> => Clean(t, points'[c][i][1])
      BY <2>1, <2>2, <2>3
    <2> QED
      BY <1>i, <2>1, <2>5, <2>6 DEF CleanAt, Clean, Free
  <1>5. CASE Frees(u)
    <2> DEFINE p == points[c]
    <2>1. points'[c] = Front(p) /\ UNCHANGED <<tagRow, comment, work>>
      BY <1>t, <1>5, ReleaseTypes DEF Frees
    <2>2. Len(Front(p)) = Len(p) - 1 /\ \A i \in 1..Len(Front(p)) : Front(p)[i] = p[i]
      <3>1. p # <<>>
        BY <1>5 DEF Frees, InTx
      <3> HIDE DEF p
      <3> QED
        BY <1>p, <3>1, FrontOf DEF p
    <2>3. \A i \in 1..Len(p) : p[i] # <<>> => Clean(t, p[i][1])
      BY DEF CleanAt
    <2> HIDE DEF p
    <2>4. \A i \in 1..Len(points'[c]) : points'[c][i] # <<>> => Clean(t, points'[c][i][1])
      BY <1>p, <2>1, <2>2, <2>3 DEF p
    <2> QED
      BY <1>i, <2>1, <2>4 DEF CleanAt, Clean, Free
  <1>6. CASE Settles(u)
    <2>1. points'[c] = <<>> /\ work'[c] = Untouched
      BY <1>t, <1>6, CommitTypes DEF Settles
    <2>2. tagRow' = Over(work[c].tag, tagRow) /\ comment'[t] = Over(work[c].comment[t], comment[t])
      BY <1>6 DEF Settles, Commit, MakeDurable
    <2>3. CleanAt(t, c)'
      BY <1>u, <2>1 DEF CleanAt, Clean, Free
    <2>4. Free(t, tagRow)' /\ (comment[t] = NoRef)'
      BY <1>d, <2>2 DEF CleanAt
    <2> QED
      BY <1>i, <2>3, <2>4
  <1> QED
    BY <1>t, <1>i, <1>1, <1>2, <1>3, <1>4, <1>5, <1>6 DEF Effect

-----------------------------------------------------------------------------
(* A request on a connection of its own *)

\* What becomes of the fields of a request whose statement raised.
LEMMA RaisedFields ==
  ASSUME RequestTypes, NEW t \in Tasks, NEW integrity, Raised(t, integrity)
  PROVE  /\ query'[t].raised /\ query'[t].id = query[t].id /\ query'[t].blocks = query[t].blocks
         /\ query'[t].refused = integrity
         /\ query'[t].pc = IF query[t].blocks = <<>> THEN "done" ELSE "leave"
  BY DEF Raised, RequestTypes, Queries

\* What becomes of the fields of a request that goes to another place.
LEMMA GotoFields ==
  ASSUME RequestTypes, NEW t \in Tasks, NEW pc, Goto(t, pc)
  PROVE  /\ query'[t].pc = pc /\ query'[t].id = query[t].id /\ query'[t].blocks = query[t].blocks
         /\ query'[t].raised = query[t].raised /\ query'[t].refused = query[t].refused
  BY DEF Goto, RequestTypes, Queries

\* What becomes of the fields of a request that got the tag.
LEMMA GotFields ==
  ASSUME RequestTypes, NEW t \in Tasks, Got(t)
  PROVE  /\ query'[t].pc = IF query[t].op = "update_or_create" THEN "update" ELSE "comment"
         /\ query'[t].id = SeenTag(t)[1] /\ query'[t].blocks = query[t].blocks
         /\ ~query'[t].raised /\ ~query'[t].refused
  BY DEF Got, RequestTypes, Queries

\* What becomes of the fields of a request that enters a block.
LEMMA BlockFields ==
  ASSUME RequestTypes, NEW t \in Tasks, NEW kind, NEW pc, EnterBlock(t, kind, pc)
  PROVE  /\ query'[t].pc = pc /\ query'[t].id = query[t].id
         /\ query'[t].raised = query[t].raised /\ query'[t].refused = query[t].refused
         /\ query'[t].blocks = Append(query[t].blocks, kind)
  BY DEF EnterBlock, RequestTypes, Queries

\* What becomes of the fields of a request that inserted.
LEMMA InsertFields ==
  ASSUME RequestTypes, NEW t \in Tasks, InsertTag(t), ~Refuse(t)
  PROVE  /\ query'[t].pc = IF query[t].op = "create" THEN "comment" ELSE "leave"
         /\ query'[t].id = t /\ query'[t].blocks = query[t].blocks
         /\ query'[t].raised = query[t].raised /\ query'[t].refused = query[t].refused
  <1>1. query' = [query EXCEPT ![t].id = t, ![t].pc = IF query[t].op = "create" THEN "comment" ELSE "leave"]
    BY DEF InsertTag
  <1> QED
    BY <1>1 DEF RequestTypes, Queries

\* What becomes of the fields of a request that looked for what to delete.
LEMMA CollectFields ==
  ASSUME RequestTypes, NEW t \in Tasks, Collect(t)
  PROVE  /\ query'[t].raised = query[t].raised /\ query'[t].refused = query[t].refused
         /\ query'[t].blocks = query[t].blocks
         /\ SeenTag(t) = NoTag => query'[t].pc = Return(t) /\ query'[t].id = query[t].id
         /\ SeenTag(t) # NoTag => query'[t].pc = "start" /\ query'[t].id = SeenTag(t)[1]
  <1>1. CASE SeenTag(t) = NoTag
    <2>1. query' = [query EXCEPT ![t].pc = Return(t)]
      BY <1>1 DEF Collect
    <2> QED
      BY <1>1, <2>1 DEF RequestTypes, Queries
  <1>2. CASE SeenTag(t) # NoTag
    <2>1. query' = [query EXCEPT ![t].pc = "start", ![t].id = SeenTag(t)[1],
                      ![t].children = {v \in Tasks : SeenComment(t, v) = SeenTag(t)[1]}]
      BY <1>2 DEF Collect
    <2> QED
      BY <1>2, <2>1 DEF RequestTypes, Queries
  <1> QED
    BY <1>1, <1>2

\* What becomes of the fields of a request that wrote its comment.
LEMMA CommentFields ==
  ASSUME RequestTypes, NEW t \in Tasks, Comment(t), ~Refuse(t)
  PROVE  /\ query'[t].pc = Return(t) /\ query'[t].id = query[t].id /\ query'[t].blocks = query[t].blocks
         /\ query'[t].raised \in BOOLEAN /\ query'[t].refused = query[t].refused
  <1>1. PICK raised \in BOOLEAN : query' = [query EXCEPT ![t].raised = raised, ![t].pc = Return(t)]
    BY DEF Comment
  <1> QED
    BY <1>1 DEF RequestTypes, Queries

\* What becomes of the fields of a request that left a block.
LEMMA LeaveFields ==
  ASSUME RequestTypes, NEW t \in Tasks, LeaveBlock(t)
  PROVE  LET q == query[t]
             r == query'[t]
             kind == Last(q.blocks)
         IN /\ q.pc = "leave" /\ r.raised \in BOOLEAN /\ Exit(t, q.raised, r.raised)
            /\ r.id = q.id /\ r.refused = q.refused /\ r.blocks = Front(q.blocks)
            /\ r.pc = CASE kind = "get_or_create" /\ r.raised /\ q.refused -> "again"
                        [] q.op = "update_or_create" /\ kind = "get_or_create" /\ ~r.raised -> "leave"
                        [] kind = q.op /\ kind # "delete" /\ ~r.raised -> "comment"
                        [] OTHER -> IF Len(q.blocks) = 1 THEN "done" ELSE "leave"
  <1> DEFINE q == query[t]
             kind == Last(q.blocks)
  <1>q. q \in Queries /\ query \in [Tasks -> Queries]
    BY DEF RequestTypes
  <1>1. PICK raises \in BOOLEAN : Exit(t, q.raised, raises) /\ query' = [query EXCEPT ![t] = After(q, kind, raises)]
    BY DEF LeaveBlock
  <1>2. query'[t] = After(q, kind, raises) /\ q.pc = "leave"
    BY <1>q, <1>1 DEF LeaveBlock, Stands
  <1>3. /\ query'[t].raised = raises /\ query'[t].id = q.id /\ query'[t].refused = q.refused
        /\ query'[t].blocks = Front(q.blocks)
    <2> HIDE DEF kind
    <2> QED
      BY <1>q, <1>2 DEF After, Queries
  <1>4. query'[t].pc = CASE kind = "get_or_create" /\ raises /\ q.refused -> "again"
                        [] q.op = "update_or_create" /\ kind = "get_or_create" /\ ~raises -> "leave"
                        [] kind = q.op /\ kind # "delete" /\ ~raises -> "comment"
                        [] OTHER -> IF Len(q.blocks) = 1 THEN "done" ELSE "leave"
    <2> HIDE DEF kind
    <2> QED
      BY <1>q, <1>2 DEF After, Queries
  <1> QED
    BY <1>1, <1>2, <1>3, <1>4

\* What becomes of the fields of a request whose query ran in the thread of all.
LEMMA ThreadFields ==
  ASSUME RequestTypes, NEW t \in Tasks, InThread(t), ~Refuse(t)
  PROVE  /\ query'[t].pc = IF query[t].op # "delete" THEN "comment" ELSE Return(t)
         /\ query'[t].id = (IF SeenTag(t) = NoTag THEN t ELSE SeenTag(t)[1])
         /\ query'[t].raised = query[t].raised /\ query'[t].blocks = query[t].blocks
  <1> DEFINE id == IF SeenTag(t) = NoTag THEN t ELSE SeenTag(t)[1]
  <1>1. query' = [query EXCEPT ![t].id = id, ![t].pc = IF query[t].op # "delete" THEN "comment" ELSE Return(t)]
    BY DEF InThread
  <1> HIDE DEF id
  <1>2. query'[t].id = id
    BY <1>1 DEF RequestTypes, Queries
  <1>3. /\ query'[t].pc = IF query[t].op # "delete" THEN "comment" ELSE Return(t)
        /\ query'[t].raised = query[t].raised /\ query'[t].blocks = query[t].blocks
    BY <1>1 DEF RequestTypes, Queries
  <1> QED
    BY <1>2, <1>3 DEF id

\* Nobody is asked twice.
LEMMA NeverBack ==
  ASSUME RequestTypes, NEW t \in Tasks, QueryStep(t)
  PROVE  query'[t].pc # "enter"
  <1>f. First(query[t].op) # "enter" /\ Return(t) # "enter"
    BY DEF First, Return
  <1>r. ASSUME Refuse(t) PROVE query'[t].pc # "enter"
    BY <1>r, RaisedFields DEF Refuse
  <1>1. CASE Enter(t)
    BY <1>1, <1>f, BlockFields, GotoFields DEF Enter
  <1>2. CASE Broken(t)
    BY <1>2, RaisedFields DEF Broken
  <1>3. CASE Guard(t) \/ StartDelete(t)
    BY <1>3, BlockFields DEF Guard, StartDelete
  <1>4. CASE GetTag(t)
    <2>1. Got(t) \/ EnterBlock(t, "get_or_create", "insert")
      BY <1>4 DEF GetTag
    <2> QED
      BY <2>1, BlockFields, GotFields
  <1>5. CASE InsertTag(t)
    BY <1>5, <1>r, InsertFields
  <1>6. CASE Again(t)
    BY <1>6, GotFields, RaisedFields DEF Again
  <1>7. CASE Update(t) \/ DeleteChildren(t) \/ DeleteRow(t)
    BY <1>7, GotoFields DEF Update, DeleteChildren, DeleteRow
  <1>8. CASE Collect(t)
    BY <1>8, <1>f, CollectFields
  <1>9. CASE InThread(t)
    BY <1>9, <1>f, <1>r, ThreadFields
  <1>10. CASE Comment(t)
    BY <1>10, <1>f, <1>r, CommentFields
  <1>11. CASE LeaveBlock(t)
    <2> DEFINE q == query[t]
               kind == Last(q.blocks)
               raised == query'[t].raised
    <2>1. query'[t].pc = CASE kind = "get_or_create" /\ raised /\ q.refused -> "again"
                           [] q.op = "update_or_create" /\ kind = "get_or_create" /\ ~raised -> "leave"
                           [] kind = q.op /\ kind # "delete" /\ ~raised -> "comment"
                           [] OTHER -> IF Len(q.blocks) = 1 THEN "done" ELSE "leave"
      BY <1>11, LeaveFields
    <2> HIDE DEF kind, raised
    <2> QED
      BY <2>1
  <1> QED
    BY <1>1, <1>2, <1>3, <1>4, <1>5, <1>6, <1>7, <1>8, <1>9, <1>10, <1>11 DEF QueryStep

Early == {"enter", "guard", "get", "insert", "again", "update", "collect", "start", "children"}

\* Until its query writes, a request has nothing uncommitted and its savepoints are of nothing.
Fresh(t) ==
  LET q == query[t] IN
  /\ \A i \in 1..Len(points[t]) : points[t][i] = <<Untouched>>
  /\ q.pc \in Early => work[t] = Untouched
  /\ q.pc \in {"enter", "guard", "get", "insert", "collect"} => q.id = NoRef
  /\ q.pc = "row" => work[t].tag = Same
  /\ spoiled[t] => q.pc = "leave" /\ q.raised

FreshInv == pure => \A t \in Tasks : Fresh(t)

\* Other requests of a pure database change neither the request nor its connection.
LEMMA OthersFresh ==
  ASSUME ShapeInv, pure, NEW t \in Tasks, NEW u \in Tasks \ {t}, QueryStep(u), Fresh(t)
  PROVE  Fresh(t)'
  <1>1. Kept(u) /\ Asked(u)
    BY StepKept
  <1>2. Conn(u) = u /\ t \in Connections \ {u}
    BY DEF Conn, Connections
  <1>3. query'[t] = query[t] /\ work'[t] = work[t] /\ points'[t] = points[t] /\ spoiled'[t] = spoiled[t]
    BY <1>1, <1>2 DEF Kept, Elsewhere, Asked
  <1> QED
    BY <1>3 DEF Fresh

\* A block is entered before anything is written.
LEMMA EnterFresh ==
  ASSUME ShapeInv, pure, NEW t \in Tasks, Fresh(t), query[t].pc \in {"enter", "guard", "get", "start"},
         NEW kind, NEW pc \in {"insert", "collect", "guard", "get", "children"}, EnterBlock(t, kind, pc),
         pc = "children" \/ query[t].pc # "start"
  PROVE  Fresh(t)'
  <1>1. /\ \A i \in 1..Len(points[t]) : points[t][i] = <<Untouched>>
        /\ work[t] = Untouched /\ ~spoiled[t] /\ (pc = "children" \/ query[t].id = NoRef)
    BY DEF Fresh, Early
  <1>2. t \in Connections /\ Conn(t) = t /\ points[t] \in Seq(Saves) /\ <<work[t]>> \in Saves
    BY DEF Conn, Connections, ShapeInv, DatabaseTypes, Saves
  <1>3. points'[t] = Append(points[t], <<work[t]>>) /\ UNCHANGED <<work, spoiled>>
    BY <1>1, <1>2, EnterKept DEF ShapeInv
  <1>4. /\ Len(points'[t]) = Len(points[t]) + 1 /\ Len(points[t]) \in Nat
        /\ points'[t][Len(points[t]) + 1] = <<work[t]>>
        /\ \A i \in 1..Len(points[t]) : points'[t][i] = points[t][i]
    BY <1>2, <1>3, PushedOn
  <1>5. ASSUME NEW i \in 1..Len(points'[t]) PROVE points'[t][i] = <<Untouched>>
    <2>1. i \in 1..Len(points[t]) \/ i = Len(points[t]) + 1
      BY <1>4
    <2> QED
      BY <1>1, <1>4, <2>1
  <1>6. query'[t].pc = pc /\ query'[t].id = query[t].id
    BY BlockFields DEF ShapeInv
  <1> QED
    BY <1>1, <1>3, <1>5, <1>6 DEF Fresh

\* A step of the request itself.
LEMMA OwnFresh ==
  ASSUME ShapeInv, pure, NEW t \in Tasks, QueryStep(t), Fresh(t)
  PROVE  Fresh(t)'
  <1> DEFINE q == query[t]
  <1>t. DatabaseTypes /\ RequestTypes /\ BlocksInv
    BY DEF ShapeInv
  <1>q. q \in Queries /\ Shaped(q) /\ t \in Connections /\ Conn(t) = t
    BY <1>t DEF RequestTypes, BlocksInv, Conn, Connections
  <1>k. /\ \A i \in 1..Len(points[t]) : points[t][i] = <<Untouched>>
        /\ q.pc \in Early => work[t] = Untouched
        /\ q.pc \in {"enter", "guard", "get", "insert", "collect"} => q.id = NoRef
        /\ q.pc = "row" => work[t].tag = Same
        /\ spoiled[t] => q.pc = "leave" /\ q.raised
    BY DEF Fresh
  <1>f. First(q.op) \in {"insert", "collect", "guard", "get"} /\ Return(t) \in {"leave", "done"}
    BY <1>q DEF First, Return, Queries
  <1>l. ASSUME points' = points, query'[t].pc \in {"comment", "leave", "done"},
               ~spoiled'[t] \/ (query'[t].pc = "leave" /\ query'[t].raised)
        PROVE  Fresh(t)'
    BY <1>k, <1>l DEF Fresh, Early
  <1>r. ASSUME Refuse(t) PROVE Fresh(t)'
    <2>1. points' = points /\ spoiled'[t] = InTx(t)
      BY <1>q, <1>r, <1>t, RefuseKept
    <2>2. query'[t].raised /\ query'[t].pc = IF q.blocks = <<>> THEN "done" ELSE "leave"
      BY <1>r, <1>t, RaisedFields DEF Refuse
    <2>3. q.blocks = <<>> => ~InTx(t)
      <3>1. Len(points[t]) = Len(q.blocks) /\ points[t] \in Seq(Saves)
        BY <1>q, <1>t DEF ShapeInv, PointsInv, DatabaseTypes
      <3> QED
        BY <3>1, EmptySeq DEF InTx
    <2> QED
      BY <1>l, <2>1, <2>2, <2>3
  <1>1. CASE Enter(t)
    <2>1. q.pc = "enter"
      BY <1>1 DEF Enter, Stands
    <2>2. CASE q.atomic
      BY <1>1, <1>f, <2>1, <2>2, EnterFresh DEF Enter
    <2>3. CASE ~q.atomic
      <3>1. Goto(t, First(q.op)) /\ UNCHANGED databaseVars
        BY <1>1, <2>3 DEF Enter
      <3>2. query'[t].pc = First(q.op) /\ query'[t].id = q.id
        BY <1>t, <3>1, GotoFields
      <3> QED
        BY <1>f, <1>k, <2>1, <3>1, <3>2 DEF Fresh, Early, databaseVars
    <2> QED
      BY <2>2, <2>3
  <1>2. CASE Broken(t)
    BY <1>2, <1>k, <1>q DEF Broken
  <1>3. CASE Guard(t)
    BY <1>3, EnterFresh DEF Guard, Ready, Stands
  <1>4. CASE GetTag(t)
    <2>1. q.pc = "get"
      BY <1>4 DEF GetTag, Ready, Stands
    <2>2. CASE EnterBlock(t, "get_or_create", "insert")
      BY <2>1, <2>2, EnterFresh
    <2>3. CASE Got(t) /\ UNCHANGED databaseVars
      <3>1. query'[t].pc \in {"update", "comment"}
        BY <1>t, <2>3, GotFields
      <3> QED
        BY <1>k, <2>1, <2>3, <3>1 DEF Fresh, Early, databaseVars
    <2> QED
      BY <1>4, <2>2, <2>3 DEF GetTag
  <1>5. CASE InsertTag(t)
    <2>1. CASE ~Refuse(t)
      <3>1. points' = points /\ spoiled' = spoiled /\ q.pc = "insert"
        BY <1>5, <2>1 DEF InsertTag, Ready, Stands
      <3>2. query'[t].pc \in {"comment", "leave"}
        BY <1>5, <1>t, <2>1, InsertFields
      <3> QED
        BY <1>k, <1>l, <3>1, <3>2
    <2> QED
      BY <1>r, <2>1
  <1>6. CASE Again(t)
    <2>1. q.pc = "again" /\ UNCHANGED databaseVars
      BY <1>6 DEF Again, Ready, Stands
    <2>2. query'[t].pc \in {"update", "comment", "leave", "done"}
      <3>1. Got(t) \/ Raised(t, TRUE)
        BY <1>6 DEF Again
      <3> QED
        BY <1>t, <3>1, GotFields, RaisedFields
    <2> QED
      BY <1>k, <2>1, <2>2 DEF Fresh, Early, databaseVars
  <1>7. CASE Update(t) \/ DeleteRow(t)
    <2>1. points' = points /\ spoiled' = spoiled /\ q.pc \in {"update", "row"} /\ Goto(t, "leave")
      BY <1>7 DEF Update, DeleteRow, Ready, Stands
    <2>2. query'[t].pc = "leave"
      BY <1>t, <2>1, GotoFields
    <2> QED
      BY <1>k, <1>l, <2>1, <2>2
  <1>8. CASE Collect(t)
    <2>1. UNCHANGED databaseVars /\ q.pc = "collect"
      BY <1>8 DEF Collect, Ready, Stands
    <2>2. query'[t].pc \in {"start", "leave", "done"}
      BY <1>8, <1>f, <1>t, CollectFields
    <2> QED
      BY <1>k, <2>1, <2>2 DEF Fresh, Early, databaseVars
  <1>9. CASE StartDelete(t)
    BY <1>9, EnterFresh DEF StartDelete, Stands
  <1>10. CASE DeleteChildren(t)
    <2> DEFINE w == [Writing(t) EXCEPT !.comment = [v \in Tasks |->
                       IF v \in q.children /\ SeenComment(t, v) # NoRef THEN NoRef ELSE @[v]]]
    <2>1. /\ Perform(t, w) /\ points' = points /\ spoiled' = spoiled /\ q.pc = "children"
          /\ Goto(t, "row")
      BY <1>10 DEF DeleteChildren, Ready, Stands
    <2>2. work[t] = Untouched /\ work[t] \in Works
      BY <1>k, <1>q, <1>t, <2>1 DEF Early, DatabaseTypes
    <2>3. w.tag = Same
      BY <1>q, <2>2 DEF Writing, Untouched
    <2> HIDE DEF w
    <2>4. work'[t].tag = Same
      <3>1. work[t].tag = Same
        BY <2>2 DEF Untouched
      <3>2. work' = [work EXCEPT ![t] = w] \/ work' = work
        BY <1>q, <2>1 DEF Perform
      <3> QED
        BY <1>q, <1>t, <2>3, <3>1, <3>2 DEF DatabaseTypes
    <2>5. query'[t].pc = "row"
      BY <1>t, <2>1, GotoFields
    <2> QED
      BY <1>k, <2>1, <2>4, <2>5 DEF Fresh, Early
  <1>11. CASE InThread(t)
    BY <1>11 DEF InThread
  <1>12. CASE Comment(t)
    <2>1. CASE ~Refuse(t)
      <3>1. points' = points /\ spoiled' = spoiled /\ q.pc = "comment"
        BY <1>12, <2>1 DEF Comment, Ready, Stands
      <3>2. query'[t].pc \in {"leave", "done"}
        BY <1>12, <1>f, <1>t, <2>1, CommentFields
      <3> QED
        BY <1>k, <1>l, <3>1, <3>2
    <2> QED
      BY <1>r, <2>1
  <1>13. CASE LeaveBlock(t)
    <2> DEFINE p == points[t]
    <2>1. q.pc = "leave" /\ query'[t].raised \in BOOLEAN /\ q.raised \in BOOLEAN /\ Exit(t, q.raised, query'[t].raised)
      BY <1>13, <1>q, <1>t, LeaveFields DEF Queries
    <2>2. /\ InTx(t) /\ p \in Seq(Saves) /\ p # <<>>
      BY <1>q, <1>t, <2>1, LeavesBlock DEF DatabaseTypes, InTx
    <2>3. /\ Len(p) \in Nat /\ Len(p) >= 1 /\ Last(p) = p[Len(p)] /\ Len(Front(p)) = Len(p) - 1
          /\ \A i \in 1..Len(Front(p)) : Front(p)[i] = p[i]
      <3> HIDE DEF p
      <3> QED
        BY <2>2, FrontOf
    <2>4. \A i \in 1..Len(p) : p[i] = <<Untouched>>
      BY <1>k
    <2>5. query'[t].pc \in {"again", "leave", "comment", "done"} /\ (~query'[t].raised => query'[t].pc # "again")
      <3> DEFINE kind == Last(q.blocks)
                 raised == query'[t].raised
      <3>1. query'[t].pc = CASE kind = "get_or_create" /\ raised /\ q.refused -> "again"
                           [] q.op = "update_or_create" /\ kind = "get_or_create" /\ ~raised -> "leave"
                           [] kind = q.op /\ kind # "delete" /\ ~raised -> "comment"
                           [] OTHER -> IF Len(q.blocks) = 1 THEN "done" ELSE "leave"
        BY <1>13, <1>t, LeaveFields
      <3> HIDE DEF kind, raised
      <3>2. query'[t].pc \in {"again", "leave", "comment", "done"} /\ (~raised => query'[t].pc # "again")
        BY <3>1
      <3> QED
        BY <3>2 DEF raised
    <2>6. CASE Rollback(t)
      <3>1. /\ points'[t] = Front(p)
            /\ Len(p) = 1 \/ Last(p) # <<>> => ~spoiled'[t]
            /\ work'[t] = IF Len(p) = 1 THEN Untouched
                          ELSE IF Last(p) = <<>> THEN work[t] ELSE Last(p)[1]
        BY <1>q, <1>t, <2>2, <2>6, RollbackTypes
      <3> HIDE DEF p
      <3>2. Last(p) = <<Untouched>>
        BY <2>3, <2>4
      <3>3. Last(p) # <<>> /\ Last(p)[1] = Untouched
        BY <3>2
      <3>4. work'[t] = Untouched /\ ~spoiled'[t]
        BY <3>1, <3>3
      <3>5. \A i \in 1..Len(points'[t]) : points'[t][i] = <<Untouched>>
        BY <2>3, <2>4, <3>1
      <3> QED
        BY <2>5, <3>4, <3>5 DEF Fresh
    <2>7. CASE Release(t) /\ Len(p) # 1 /\ ~spoiled[t] /\ ~query'[t].raised
      <3>1. points'[t] = Front(p) /\ UNCHANGED spoiled
        BY <1>q, <1>t, <2>2, <2>7, ReleaseTypes
      <3> HIDE DEF p
      <3>2. \A i \in 1..Len(points'[t]) : points'[t][i] = <<Untouched>>
        BY <2>3, <2>4, <3>1
      <3> QED
        BY <2>5, <2>7, <3>1, <3>2 DEF Fresh, Early
    <2>8. CASE Commit(t) /\ Len(p) = 1 /\ ~spoiled[t] /\ ~query'[t].raised
      <3>1. points'[t] = <<>> /\ UNCHANGED spoiled
        BY <1>q, <1>t, <2>8, CommitTypes
      <3>2. \A i \in 1..Len(points'[t]) : points'[t][i] = <<Untouched>>
        BY <3>1
      <3> QED
        BY <2>5, <2>8, <3>1, <3>2 DEF Fresh, Early
    <2>9. \/ Rollback(t) \/ (Release(t) /\ Len(p) # 1 /\ ~spoiled[t] /\ ~query'[t].raised)
          \/ (Commit(t) /\ Len(p) = 1 /\ ~spoiled[t] /\ ~query'[t].raised)
      BY <1>q, <2>1 DEF Exit
    <2> QED
      BY <2>6, <2>7, <2>8, <2>9
  <1> QED
    BY <1>1, <1>2, <1>3, <1>4, <1>5, <1>6, <1>7, <1>8, <1>9, <1>10, <1>11, <1>12, <1>13 DEF QueryStep

\* Where the tags that are committed or written come from: from the tags there were, or
\* they have the id of one the request saw, or of the request that had none.
NewTag(u) ==
  LET id == query'[u].id IN
  /\ id \in Ids
  /\ HasId(SeenTag(u), id) \/ (id = u /\ query[u].id = NoRef)

\* On connections of their own, a step commits and writes tags that were there, and new ones.
LEMMA RowsFrom ==
  ASSUME ShapeInv, pure, NEW u \in Tasks, QueryStep(u), Fresh(u)
  PROVE  LET new == Tag(query'[u].id, u) IN
         /\ tagRow' \in {tagRow, work[u].tag, NoTag} \/ (NewTag(u) /\ tagRow' = new)
         /\ \A c \in Connections :
              work'[c].tag \in {work[c].tag, Same, NoTag} \/ (NewTag(u) /\ work'[c].tag = new)
  <1> DEFINE new == Tag(query'[u].id, u)
             RowsCome(row, old) == row \in old \/ (NewTag(u) /\ row = new)
  <1> SUFFICES /\ RowsCome(tagRow', {tagRow, work[u].tag, NoTag})
               /\ \A c \in Connections : RowsCome(work'[c].tag, {work[c].tag, Same, NoTag})
    OBVIOUS
  <1>t. /\ DatabaseTypes /\ Effect(u) /\ Kept(u) /\ u \in Connections /\ Conn(u) = u
    BY StepEffect, StepKept DEF ShapeInv, Conn, Connections
  <1>e. ASSUME RowsCome(tagRow', {tagRow, work[u].tag, NoTag}),
               RowsCome(work'[u].tag, {work[u].tag, Same, NoTag})
        PROVE  /\ RowsCome(tagRow', {tagRow, work[u].tag, NoTag})
               /\ \A c \in Connections : RowsCome(work'[c].tag, {work[c].tag, Same, NoTag})
    <2>1. \A c \in Connections \ {u} : work'[c] = work[c]
      BY <1>t DEF Kept, Elsewhere
    <2> QED
      BY <1>e, <2>1
  <1>1. CASE Quiet(u) \/ Opens(u) \/ Frees(u)
    <2>1. tagRow' = tagRow /\ work' = work
      BY <1>1 DEF Quiet, Opens, Frees, Release
    <2> QED
      BY <2>1
  <1>2. ASSUME NEW w \in Works, Writes(u, w)
        PROVE  /\ RowsCome(tagRow', {tagRow, work[u].tag, NoTag})
               /\ RowsCome(work'[u].tag, {work[u].tag, Same, NoTag})
    <2>1. RowsCome(w.tag, {work[u].tag, NoTag})
      <3>1. \/ w.tag \in {work[u].tag, NoTag}
            \/ w.tag = new /\ query'[u].id \in Ids
               /\ \/ HasId(SeenTag(u), query'[u].id)
                  \/ query'[u].id = u /\ query[u].pc \in {"insert", "get", "guard"}
        BY <1>2, <1>t DEF Writes
      <3>2. query[u].pc \in {"insert", "get", "guard"} => query[u].id = NoRef
        BY DEF Fresh
      <3> HIDE DEF new
      <3> QED
        BY <3>1, <3>2 DEF NewTag
    <2>2. Perform(u, w)
      BY <1>2 DEF Writes
    <2>3. CASE InTx(u)
      <3>1. work'[u] = w /\ tagRow' = tagRow
        BY <1>t, <2>2, <2>3 DEF Perform, DatabaseTypes
      <3> HIDE DEF new
      <3> QED
        BY <2>1, <3>1
    <2>4. CASE ~InTx(u)
      <3>1. work' = work /\ tagRow' \in {w.tag, tagRow}
        BY <1>t, <2>2, <2>4 DEF Perform, MakeDurable, Over
      <3> HIDE DEF new
      <3> QED
        BY <2>1, <3>1
    <2> QED
      BY <2>3, <2>4
  <1>3. CASE Backs(u)
    <2>1. tagRow' = tagRow /\ work'[u].tag \in {Same, work[u].tag}
      <3> DEFINE p == points[u]
      <3>1. InTx(u) /\ Rollback(u)
        BY <1>3, <1>t DEF Backs
      <3>2. /\ tagRow' = tagRow
            /\ work'[u] = IF Len(p) = 1 THEN Untouched ELSE IF Last(p) = <<>> THEN work[u] ELSE Last(p)[1]
        BY <1>t, <3>1, RollbackTypes
      <3>3. p \in Seq(Saves) /\ p # <<>>
        BY <1>t, <3>1 DEF DatabaseTypes, InTx
      <3>4. Len(p) \in Nat /\ Len(p) >= 1 /\ Last(p) = p[Len(p)]
        <4> HIDE DEF p
        <4> QED
          BY <3>3, FrontOf
      <3>5. Last(p) = <<Untouched>>
        BY <3>4 DEF Fresh
      <3> HIDE DEF p
      <3>6. Last(p)[1] = Untouched
        BY <3>5
      <3> QED
        BY <3>2, <3>6 DEF Untouched
    <2> QED
      BY <1>e, <2>1
  <1>4. CASE Settles(u)
    <2>1. work'[u].tag = Same /\ tagRow' \in {work[u].tag, tagRow}
      <3>1. work'[u].tag = Same
        BY <1>4, <1>t, CommitTypes DEF Settles, Untouched
      <3>2. tagRow' = Over(work[u].tag, tagRow)
        BY <1>4, <1>t DEF Settles, Commit, MakeDurable
      <3> QED
        BY <3>1, <3>2 DEF Over
    <2> QED
      BY <1>e, <2>1
  <1> HIDE DEF RowsCome, new
  <1> QED
    BY <1>e, <1>t, <1>1, <1>2, <1>3, <1>4 DEF Effect

\* Requests keep their ids.
LEMMA IdsKept ==
  ASSUME ShapeInv, NEW u \in Tasks, QueryStep(u), NEW k \in Tasks, query[k].id # NoRef
  PROVE  query'[k].id # NoRef
  <1>1. /\ \A v \in Tasks \ {u} : query'[v] = query[v]
        /\ query'[u].id = query[u].id \/ query'[u].id = u \/ (SeenTag(u) # NoTag /\ query'[u].id = SeenTag(u)[1])
    BY StepEffect, StepKept DEF Named, Asked
  <1>2. u \in Ids /\ (SeenTag(u) # NoTag => SeenTag(u)[1] \in Ids) /\ NoRef \notin Ids
    BY WritesTypes, TagFacts DEF ShapeInv, Ids
  <1> QED
    BY <1>1, <1>2

\* The ids of tags are of requests that inserted, or of the beginning.
Known == {Old} \cup {k \in Tasks : query[k].id # NoRef}
IdIn(row, ids) == row \in {Same, NoTag} \/ row[1] \in ids
KnownInv == pure =>
  /\ IdIn(tagRow, Known) /\ \A c \in Connections : IdIn(work[c].tag, Known)
  /\ \A u \in Tasks : query[u].id \in Known \cup {NoRef}

\* Ids stay known.
LEMMA KnownKept ==
  ASSUME ShapeInv, pure, KnownInv, NEW u \in Tasks, QueryStep(u), Fresh(u)
  PROVE  KnownInv'
  <1> DEFINE new == Tag(query'[u].id, u)
  <1>1. Known \subseteq Known'
    BY IdsKept DEF Known
  <1>2. ASSUME NEW row, IdIn(row, Known) PROVE IdIn(row, Known')
    BY <1>1, <1>2 DEF IdIn
  <1>3. /\ IdIn(tagRow, Known) /\ \A c \in Connections : IdIn(work[c].tag, Known)
        /\ \A v \in Tasks : query[v].id \in Known \cup {NoRef}
    BY DEF KnownInv
  <1>4. query'[u].id \in Known' \cup {NoRef}
    <2>1. u \in Connections /\ Conn(u) = u /\ SeenTag(u) \in Tags /\ Same \notin Tags /\ u # NoRef
      BY WritesTypes, TagFacts DEF Conn, Connections, ShapeInv, Ids
    <2>2. IdIn(SeenTag(u), Known)
      BY <1>3, <2>1 DEF SeenTag, Over
    <2>3. SeenTag(u) # NoTag => SeenTag(u)[1] \in Known
      BY <2>1, <2>2 DEF IdIn
    <2>4. query'[u].id = query[u].id \/ query'[u].id = u \/ (SeenTag(u) # NoTag /\ query'[u].id = SeenTag(u)[1])
      BY StepEffect DEF Named
    <2>5. query'[u].id = u => u \in Known'
      BY <2>1 DEF Known
    <2> QED
      BY <1>1, <1>3, <2>3, <2>4, <2>5
  <1>5. NewTag(u) => IdIn(new, Known')
    <2> SUFFICES ASSUME NewTag(u) PROVE IdIn(new, Known')
      OBVIOUS
    <2>1. query'[u].id \in Ids /\ query'[u].id \in Known'
      BY <1>4, TagFacts DEF NewTag
    <2>2. new[1] = query'[u].id
      BY <2>1, TagFacts DEF Ids
    <2> HIDE DEF new
    <2> QED
      BY <2>1, <2>2 DEF IdIn
  <1>6. IdIn(Same, Known') /\ IdIn(NoTag, Known')
    BY DEF IdIn
  <1>7. /\ tagRow' \in {tagRow, work[u].tag, NoTag} \/ (NewTag(u) /\ tagRow' = new)
        /\ \A c \in Connections :
             work'[c].tag \in {work[c].tag, Same, NoTag} \/ (NewTag(u) /\ work'[c].tag = new)
    BY RowsFrom
  <1>8. \A v \in Tasks : query'[v].id \in Known' \cup {NoRef}
    <2>1. \A v \in Tasks \ {u} : query'[v] = query[v]
      BY StepKept DEF Asked
    <2> QED
      BY <1>1, <1>3, <1>4, <2>1
  <1> HIDE DEF new
  <1>9. IdIn(tagRow', Known') /\ \A c \in Connections : IdIn(work'[c].tag, Known')
    <2>1. u \in Connections
      BY DEF Connections
    <2>2. IdIn(tagRow', Known')
      BY <1>2, <1>3, <1>5, <1>6, <1>7, <2>1
    <2>3. ASSUME NEW c \in Connections PROVE IdIn(work'[c].tag, Known')
      BY <1>2, <1>3, <1>5, <1>6, <1>7
    <2> QED
      BY <2>2, <2>3
  <1> QED
    BY <1>8, <1>9 DEF KnownInv

\* The tag of id k was deleted for good: nobody has it or can insert it again.
Spent(k) ==
  /\ k \in Tasks => query[k].id # NoRef
  /\ ~HasId(tagRow, k)
  /\ \A c \in Connections : work[c].tag = Same \/ ~HasId(work[c].tag, k)

\* A tag that is gone for good stays gone.
LEMMA SpentKept ==
  ASSUME ShapeInv, pure, NEW u \in Tasks, QueryStep(u), Fresh(u), NEW k, Spent(k)
  PROVE  Spent(k)'
  <1> DEFINE new == Tag(query'[u].id, u)
  <1>1. /\ k \in Tasks => query[k].id # NoRef
        /\ ~HasId(tagRow, k)
        /\ \A c \in Connections : work[c].tag = Same \/ ~HasId(work[c].tag, k)
    BY DEF Spent
  <1>2. u \in Connections /\ Conn(u) = u /\ tagRow' \in Tags /\ Same \notin Tags
    BY StepKept, TagFacts DEF Conn, Connections, Kept, DatabaseTypes
  <1>3. NewTag(u) => ~HasId(new, k)
    <2> SUFFICES ASSUME NewTag(u) PROVE ~HasId(new, k)
      OBVIOUS
    <2>1. ~HasId(SeenTag(u), k)
      BY <1>1, <1>2 DEF SeenTag, Over
    <2>2. query'[u].id \in Ids /\ (HasId(SeenTag(u), query'[u].id) \/ (query'[u].id = u /\ query[u].id = NoRef))
      BY DEF NewTag
    <2>3. query'[u].id # k
      BY <1>1, <2>1, <2>2
    <2>4. new[1] = query'[u].id
      BY <2>2, TagFacts DEF Ids
    <2> HIDE DEF new
    <2> QED
      BY <2>3, <2>4 DEF HasId
  <1>4. ~HasId(NoTag, k)
    BY DEF HasId
  <1>5. /\ tagRow' \in {tagRow, work[u].tag, NoTag} \/ (NewTag(u) /\ tagRow' = new)
        /\ \A c \in Connections :
             work'[c].tag \in {work[c].tag, Same, NoTag} \/ (NewTag(u) /\ work'[c].tag = new)
    BY RowsFrom
  <1> HIDE DEF new
  <1>6. ~HasId(tagRow', k)
    BY <1>1, <1>2, <1>3, <1>4, <1>5
  <1>7. \A c \in Connections : work'[c].tag = Same \/ ~HasId(work'[c].tag, k)
    BY <1>1, <1>3, <1>4, <1>5
  <1>8. k \in Tasks => query'[k].id # NoRef
    BY <1>1, IdsKept
  <1>9. ~HasId(tagRow, k)'
    BY <1>6 DEF HasId
  <1>10. (\A c \in Connections : work[c].tag = Same \/ ~HasId(work[c].tag, k))'
    BY <1>7 DEF HasId
  <1> QED
    BY <1>8, <1>9, <1>10 DEF Spent
-----------------------------------------------------------------------------
(* What a request wrote is seen by itself only *)

\* Before a request under Atomic is over, others have nothing of it.
Apart(t) ==
  /\ Free(t, tagRow) /\ comment[t] = NoRef
  /\ \A u \in Tasks \ {t} : query[u].id # t
  /\ \A c \in Connections : (c = Conn(t) /\ query[t].blocks # <<>>) \/ CleanAt(t, c)

ApartInv == \A t \in Tasks \ met : query[t].atomic /\ query[t].pc # "done" => Apart(t)

\* Others write on connections of their own, or meet the request.
LEMMA OthersApart ==
  ASSUME ShapeInv, NEW t \in Tasks, t \notin met', NEW u \in Tasks \ {t}, QueryStep(u), Apart(t)
  PROVE  Apart(t)'
  <1>c. PICK c : c = Conn(u)
    OBVIOUS
  <1>k. /\ Kept(u) /\ Asked(u) /\ c \in Connections /\ pure \in BOOLEAN
    BY <1>c, StepKept, ConnType DEF ShapeInv, RequestTypes
  <1>p. /\ pure' = pure /\ Conn(t)' = Conn(t)
        /\ \A v \in Tasks \ {u} : query'[v] = query[v]
        /\ \A d \in Connections \ {c} : CleanAt(t, d) => CleanAt(t, d)'
    BY <1>c, <1>k DEF Asked, Kept, Elsewhere, Conn, CleanAt, Clean, Free
  <1>a. /\ Free(t, tagRow) /\ comment[t] = NoRef
        /\ \A v \in Tasks \ {t} : query[v].id # t
        /\ \A d \in Connections : (d = Conn(t) /\ query[t].blocks # <<>>) \/ CleanAt(t, d)
    BY DEF Apart
  <1>1. CASE CleanAt(t, c)
    <2>1. CleanAt(t, c)' /\ Free(t, tagRow)' /\ (comment[t] = NoRef)' /\ query'[u].id # t
      BY <1>1, <1>a, <1>c, CleanKept
    <2>2. \A d \in Connections : (d = Conn(t)' /\ query'[t].blocks # <<>>) \/ CleanAt(t, d)'
      <3> SUFFICES ASSUME NEW d \in Connections
                   PROVE  (d = Conn(t)' /\ query'[t].blocks # <<>>) \/ CleanAt(t, d)'
        OBVIOUS
      <3>1. CASE d = c
        BY <2>1, <3>1
      <3>2. CASE d # c
        BY <1>a, <1>p, <3>2
      <3> QED
        BY <3>1, <3>2
    <2>3. \A v \in Tasks \ {t} : query'[v].id # t
      BY <1>a, <1>p, <2>1
    <2> QED
      BY <2>1, <2>2, <2>3 DEF Apart
  <1>2. CASE ~CleanAt(t, c)
    <2>1. c = Conn(t) /\ query[t].blocks # <<>>
      BY <1>2, <1>a, <1>k
    <2>2. ~pure
      BY <1>c, <2>1 DEF Conn
    <2>3. ~Meet(u, Inside)
      <3>1. t \in Inside \ {u}
        BY <2>1 DEF Inside
      <3> QED
        BY <2>2, <3>1 DEF Meet
    <2>4. Enter(u) /\ ~query[u].atomic /\ UNCHANGED databaseVars
      BY <2>2, <2>3, SharedSteps
    <2>5. query'[u].id = query[u].id
      BY <2>4, GotoFields DEF Enter, ShapeInv
    <2>6. CleanAt(t, c) => CleanAt(t, c)'
      BY <1>2
    <2>7. UNCHANGED <<tagRow, comment, work, points>>
      BY <2>4 DEF databaseVars
    <2> QED
      BY <1>a, <1>p, <2>5, <2>7 DEF Apart, CleanAt, Clean, Free
  <1> QED
    BY <1>1, <1>2

\* A request that is in a block is in a transaction, always.
LEMMA InsideAlways == ShapeInv => \A u \in Tasks : query[u].blocks # <<>> => InTx(Conn(u))
  BY InsideTx

\* A request under Atomic is in a block from its start to its end.
LEMMA BlocksInside ==
  ASSUME NEW q \in Queries, Shaped(q), q.atomic, q.pc \notin {"enter", "done"}
  PROVE  q.blocks # <<>>
  <1>1. Under(q) = 1 /\ Len(q.blocks) \in Nat /\ Extra(q.op) \in {0, 1, 2} /\ q.pc \in Places
    BY BlocksNumber DEF Under, Queries
  <1> DEFINE n == Len(q.blocks)
             over == IF q.op = "update_or_create" THEN 1 ELSE 0
  <1>2. \/ n = Under(q) \/ n = Under(q) + over \/ n = Under(q) + Extra(q.op)
        \/ n = Under(q) + 1 \/ n \in 1..Under(q) + Extra(q.op)
    BY <1>1 DEF Shaped, Places
  <1>3. over \in {0, 1}
    OBVIOUS
  <1>4. n \in Nat
    BY <1>1
  <1> HIDE DEF over, n
  <1>5. n >= 1
    BY <1>1, <1>2, <1>3, <1>4
  <1> QED
    BY <1>5, BlocksNumber DEF n

\* A request under Atomic that goes on writes in its block, and does not commit it.
LEMMA OwnApart ==
  ASSUME ShapeInv, ShapeInv', NEW t \in Tasks, QueryStep(t), query[t].atomic, query'[t].pc # "done", Apart(t)
  PROVE  Apart(t)' /\ query'[t].blocks # <<>> /\ UNCHANGED <<tagRow, comment>>
  <1> DEFINE q == query[t]
  <1>c. PICK c : c = Conn(t)
    OBVIOUS
  <1>k. /\ Kept(t) /\ Asked(t) /\ Effect(t) /\ c \in Connections /\ query'[t].atomic
    BY <1>c, StepKept, StepEffect, StepDepth, ConnType
  <1>p. /\ pure' = pure /\ Conn(t)' = c /\ query'[t] \in Queries /\ Shaped(query'[t])
        /\ q \in Queries /\ Shaped(q)
        /\ \A v \in Tasks \ {t} : query'[v] = query[v]
        /\ \A d \in Connections \ {c} : CleanAt(t, d) => CleanAt(t, d)'
    BY <1>c, <1>k DEF Asked, Kept, Elsewhere, Conn, CleanAt, Clean, Free, ShapeInv, RequestTypes, BlocksInv
  <1>1. query'[t].blocks # <<>>
    <2>1. query'[t].pc \notin {"enter", "done"}
      BY NeverBack DEF ShapeInv
    <2>2. PICK r \in Queries : r = query'[t]
      BY <1>p
    <2>3. /\ r.pc \in Places /\ r.pc \notin {"enter", "done"} /\ r.atomic /\ Shaped(r)
      BY <1>k, <1>p, <2>1, <2>2 DEF Queries
    <2>4. r.blocks # <<>>
      BY <2>3, BlocksInside
    <2> QED
      BY <2>2, <2>4
  <1>i. InTx(c)'
    <2>1. (\A u \in Tasks : query[u].blocks # <<>> => InTx(Conn(u)))'
      BY InsideAlways, PTL
    <2>2. InTx(Conn(t))'
      BY <1>1, <2>1
    <2> QED
      BY <1>p, <2>2 DEF InTx
  <1>2. UNCHANGED <<tagRow, comment>>
    <2>1. CASE Quiet(t) \/ Opens(t) \/ Backs(t) \/ Frees(t)
      BY <2>1 DEF Quiet, Opens, Backs, Rollback, Frees, Release
    <2>2. ASSUME NEW w \in Works, Writes(t, w) PROVE UNCHANGED <<tagRow, comment>>
      <3>1. Perform(t, w) /\ points' = points
        BY <2>2 DEF Writes
      <3> QED
        BY <1>c, <1>i, <3>1 DEF Perform, InTx
    <2>3. CASE Settles(t)
      <3>1. points'[c] = <<>>
        BY <1>c, <1>k, <2>3, CommitTypes DEF Settles, ShapeInv
      <3> QED
        BY <1>i, <3>1 DEF InTx
    <2> QED
      BY <1>k, <2>1, <2>2, <2>3 DEF Effect
  <1>3. Apart(t)'
    <2>1. /\ Free(t, tagRow) /\ comment[t] = NoRef
          /\ \A v \in Tasks \ {t} : query[v].id # t
          /\ \A d \in Connections : (d = c /\ q.blocks # <<>>) \/ CleanAt(t, d)
      BY <1>c DEF Apart
    <2>2. Free(t, tagRow)' /\ (comment[t] = NoRef)'
      BY <1>2, <2>1 DEF Free
    <2>3. \A v \in Tasks \ {t} : query'[v].id # t
      BY <1>p, <2>1
    <2>4. \A d \in Connections : (d = Conn(t)' /\ query'[t].blocks # <<>>) \/ CleanAt(t, d)'
      BY <1>1, <1>p, <2>1
    <2> QED
      BY <2>2, <2>3, <2>4 DEF Apart
  <1> QED
    BY <1>1, <1>2, <1>3

-----------------------------------------------------------------------------
(* What a request has written when its block ends *)

\* The tag row is what the connection of t wrote, or its statement found no row and
\* nobody has the tag any more.
Wrote(t, row) ==
  \/ work[Conn(t)].tag = row
  \/ pure /\ work[Conn(t)].tag = Same /\ Spent(query[t].id)

\* A request under Atomic that is about to return has written its comment and its tag.
Written(t) ==
  LET q == query[t]
      w == work[Conn(t)]
  IN /\ q.pc = "comment" => q.id \in Ids /\ q.op # "delete"
     /\ q.pc = "leave" /\ ~q.raised /\ q.op # "delete" /\ Len(q.blocks) = 1 =>
          w.comment[t] = q.id /\ q.id \in Ids
     /\ q.op = "update_or_create" /\ (q.pc = "comment" \/ (q.pc = "leave" /\ ~q.raised)) =>
          Wrote(t, Tag(q.id, t))
     /\ q.op = "delete" /\ q.pc = "leave" /\ ~q.raised => q.id = NoRef \/ Wrote(t, NoTag)
     /\ ~pure /\ spoiled[Main] /\ t \in Inside => q.pc = "leave" /\ q.raised

WrittenInv == \A t \in Tasks \ met : query[t].atomic => Written(t)

\* A statement in a transaction writes on the connection.
LEMMA PerformInside ==
  ASSUME DatabaseTypes, NEW t \in Tasks, NEW w, Perform(t, w), InTx(Conn(t))
  PROVE  work'[Conn(t)] = w
  BY ConnType DEF Perform, DatabaseTypes

\* Nobody has a tag that a statement did not find.
LEMMA MissedSpent ==
  ASSUME KnownInv, pure, NEW t \in Tasks, work[t].tag = Same, ~TagHeld(t), ~HasId(SeenTag(t), query[t].id)
  PROVE  Spent(query[t].id)
  <1>1. Conn(t) = t /\ SeenTag(t) = tagRow
    BY DEF Conn, SeenTag, Over
  <1>2. \A c \in Connections : work[c].tag = Same
    BY <1>1 DEF TagHeld
  <1>3. query[t].id \in Tasks => query[query[t].id].id # NoRef
    BY TaskAssumption, MarkAssumption DEF KnownInv, Known, Ids
  <1> QED
    BY <1>1, <1>2, <1>3 DEF Spent

\* A step of the request on a connection of its own.
LEMMA PureWritten ==
  ASSUME QueryInv, ShapeInv', pure, KnownInv, NEW t \in Tasks, query[t].atomic, QueryStep(t), Fresh(t), Written(t)
  PROVE  Written(t)'
  <1> DEFINE q == query[t]
             r == query'[t]
  <1>t. ShapeInv /\ DatabaseTypes /\ RequestTypes /\ BlocksInv /\ Answered(t)
    BY DEF QueryInv, PureInv, ShapeInv
  <1>s. /\ Kept(t) /\ Asked(t) /\ r.op = q.op /\ r.atomic = q.atomic
    BY <1>t, StepKept, StepDepth
  <1>q. /\ q \in Queries /\ Shaped(q) /\ t \in Connections /\ Conn(t) = t /\ r \in Queries /\ Shaped(r)
        /\ pure' /\ Conn(t)' = t /\ work[t] \in Works /\ Writing(t) = work[t] /\ NoRef \notin Ids
    BY <1>s, <1>t, TagFacts DEF RequestTypes, BlocksInv, Conn, Connections, Asked, DatabaseTypes, Writing
  <1>w. /\ q.pc = "comment" => q.id \in Ids /\ q.op # "delete"
        /\ q.op = "update_or_create" /\ (q.pc = "comment" \/ (q.pc = "leave" /\ ~q.raised)) =>
             work[t].tag = Tag(q.id, t) \/ (work[t].tag = Same /\ Spent(q.id))
        /\ q.op = "delete" /\ q.pc = "leave" /\ ~q.raised =>
             q.id = NoRef \/ work[t].tag = NoTag \/ (work[t].tag = Same /\ Spent(q.id))
    BY <1>q DEF Written, Wrote
  <1>n. /\ q.pc \notin {"enter", "done"} => InTx(t)
        /\ r.pc \notin {"enter", "done"} => r.blocks # <<>>
    BY <1>q, <1>s, <1>t, BlocksInside, InsideTx
  <1>k. Spent(q.id) /\ r.id = q.id => Spent(query[t].id)'
    <2>1. PICK k : k = q.id
      OBVIOUS
    <2>2. Spent(k) => Spent(k)'
      BY <1>t, SpentKept
    <2> QED
      BY <2>1, <2>2 DEF Spent
  <1>v. ASSUME r.pc \notin {"comment", "leave"} \/ (r.pc = "leave" /\ r.raised) PROVE Written(t)'
    BY <1>q, <1>v DEF Written
  <1>c. ASSUME r.pc = "comment", r.id \in Ids, r.op \notin {"delete", "update_or_create"} PROVE Written(t)'
    BY <1>q, <1>c DEF Written
  <1>r. ASSUME NEW integrity, Raised(t, integrity) PROVE Written(t)'
    BY <1>r, <1>t, <1>v, RaisedFields
  <1>e. ASSUME NEW kind, NEW pc, pc \notin {"comment", "leave"}, EnterBlock(t, kind, pc) PROVE Written(t)'
    BY <1>e, <1>t, <1>v, BlockFields
  <1>g. ASSUME NEW pc, pc \notin {"comment", "leave"}, Goto(t, pc) PROVE Written(t)'
    BY <1>g, <1>t, <1>v, GotoFields
  <1>x. ASSUME Got(t), SeenTag(t) # NoTag, q.pc \in {"get", "again"} PROVE Written(t)'
    <2>1. r.pc = (IF q.op = "update_or_create" THEN "update" ELSE "comment") /\ r.id = SeenTag(t)[1]
      BY <1>t, <1>x, GotFields
    <2>2. r.id \in Ids
      BY <1>t, <1>x, <2>1, WritesTypes, TagFacts
    <2>3. q.op \in {"get_or_create", "update_or_create"}
      BY <1>q, <1>x DEF Shaped
    <2> QED
      BY <1>c, <1>s, <1>v, <2>1, <2>2, <2>3
  <1>1. CASE Enter(t) \/ Guard(t) \/ StartDelete(t)
    <2>1. First(q.op) \notin {"comment", "leave"}
      BY DEF First
    <2> QED
      BY <1>1, <1>e, <2>1 DEF Enter, Guard, StartDelete
  <1>2. CASE Broken(t)
    BY <1>2, <1>r DEF Broken
  <1>3. CASE GetTag(t)
    BY <1>3, <1>e, <1>x DEF GetTag, Ready, Stands
  <1>4. CASE InsertTag(t)
    <2>1. CASE Refuse(t)
      BY <1>r, <2>1 DEF Refuse
    <2>2. CASE ~Refuse(t)
      <3>1. Perform(t, [work[t] EXCEPT !.tag = Tag(t, t)]) /\ q.pc = "insert"
        BY <1>4, <1>q, <2>2 DEF InsertTag, Ready, Stands
      <3>2. /\ r.pc = IF q.op = "create" THEN "comment" ELSE "leave"
            /\ r.id = t /\ r.blocks = q.blocks /\ t \in Ids
        BY <1>4, <1>t, <2>2, InsertFields DEF Ids
      <3>3. work'[t].tag = Tag(t, t)
        <4>1. work'[t] = [work[t] EXCEPT !.tag = Tag(t, t)]
          BY <1>n, <1>q, <1>t, <3>1, PerformInside
        <4> QED
          BY <1>q, <4>1 DEF Works
      <3>4. CASE q.op = "create"
        BY <1>c, <1>s, <3>2, <3>4
      <3>5. CASE q.op # "create"
        <4>1. Len(q.blocks) = Under(q) + Extra(q.op) /\ q.op # "delete"
          BY <1>q, <3>1 DEF Shaped
        <4>2. Under(q) = 1 /\ Extra(q.op) \in {1, 2}
          BY <1>q, <3>5, BlocksNumber DEF Under
        <4>3. Len(r.blocks) # 1
          BY <3>2, <4>1, <4>2
        <4>4. r.pc = "leave"
          BY <3>2, <3>5
        <4> QED
          BY <1>q, <1>s, <3>2, <3>3, <4>1, <4>3, <4>4 DEF Written, Wrote
      <3> QED
        BY <3>4, <3>5
    <2> QED
      BY <2>1, <2>2
  <1>5. CASE Again(t)
    BY <1>5, <1>r, <1>x DEF Again, Ready, Stands
  <1>6. CASE Update(t)
    <2>1. q.pc = "update" /\ q.op = "update_or_create" /\ Goto(t, "leave") /\ ~TagHeld(t)
      BY <1>6, <1>q DEF Update, Ready, Stands, Shaped
    <2>2. r.pc = "leave" /\ r.id = q.id /\ r.blocks = q.blocks
      BY <1>t, <2>1, GotoFields
    <2>3. Len(r.blocks) # 1
      <3>1. Len(q.blocks) = Under(q) + 1 /\ Under(q) = 1
        BY <1>q, <2>1 DEF Shaped, Under
      <3> QED
        BY <2>2, <3>1
    <2>4. work'[t].tag = Tag(q.id, t) \/ (work'[t].tag = Same /\ Spent(q.id))
      <3>1. CASE HasId(SeenTag(t), q.id)
        <4>1. Perform(t, [work[t] EXCEPT !.tag = Tag(q.id, t)])
          BY <1>6, <1>q, <3>1 DEF Update
        <4>2. work'[t] = [work[t] EXCEPT !.tag = Tag(q.id, t)]
          BY <1>n, <1>q, <1>t, <2>1, <4>1, PerformInside
        <4> QED
          BY <1>q, <4>2 DEF Works
      <3>2. CASE ~HasId(SeenTag(t), q.id)
        <4>1. work' = work /\ work[t].tag = Same
          BY <1>6, <2>1, <3>2 DEF Update, Fresh, Early, Untouched
        <4> QED
          BY <2>1, <3>2, <4>1, MissedSpent
      <3> QED
        BY <3>1, <3>2
    <2> QED
      BY <1>k, <1>q, <1>s, <2>1, <2>2, <2>3, <2>4 DEF Written, Wrote
  <1>7. CASE Collect(t)
    <2>1. q.pc = "collect" /\ q.op = "delete" /\ q.id = NoRef
      BY <1>7, <1>q DEF Collect, Ready, Stands, Shaped, Fresh
    <2>2. CASE SeenTag(t) = NoTag
      <3>1. r.id = NoRef /\ r.pc \in {"leave", "done"}
        BY <1>7, <1>t, <2>1, <2>2, CollectFields DEF Return
      <3> QED
        BY <1>q, <1>s, <2>1, <3>1 DEF Written
    <2>3. CASE SeenTag(t) # NoTag
      BY <1>7, <1>t, <1>v, <2>3, CollectFields
    <2> QED
      BY <2>2, <2>3
  <1>8. CASE DeleteChildren(t)
    BY <1>8, <1>g DEF DeleteChildren
  <1>9. CASE DeleteRow(t)
    <2>1. q.pc = "row" /\ q.op = "delete" /\ Goto(t, "leave") /\ ~TagHeld(t)
      BY <1>9, <1>q DEF DeleteRow, Ready, Stands, Shaped
    <2>2. r.pc = "leave" /\ r.id = q.id
      BY <1>t, <2>1, GotoFields
    <2>3. work'[t].tag = NoTag \/ (work'[t].tag = Same /\ Spent(q.id))
      <3>1. CASE HasId(SeenTag(t), q.id)
        <4>1. Perform(t, [work[t] EXCEPT !.tag = NoTag])
          BY <1>9, <1>q, <3>1 DEF DeleteRow
        <4>2. work'[t] = [work[t] EXCEPT !.tag = NoTag]
          BY <1>n, <1>q, <1>t, <2>1, <4>1, PerformInside
        <4> QED
          BY <1>q, <4>2 DEF Works
      <3>2. CASE ~HasId(SeenTag(t), q.id)
        <4>1. work' = work /\ work[t].tag = Same
          BY <1>9, <2>1, <3>2 DEF DeleteRow, Fresh
        <4> QED
          BY <2>1, <3>2, <4>1, MissedSpent
      <3> QED
        BY <3>1, <3>2
    <2> QED
      BY <1>k, <1>q, <1>s, <2>1, <2>2, <2>3 DEF Written, Wrote
  <1>10. CASE InThread(t)
    BY <1>10 DEF InThread
  <1>11. CASE Comment(t)
    <2>1. CASE Refuse(t)
      BY <1>r, <2>1 DEF Refuse
    <2>2. CASE ~Refuse(t)
      <3>1. Perform(t, [work[t] EXCEPT !.comment[t] = q.id]) /\ q.pc = "comment"
        BY <1>11, <1>q, <2>2 DEF Comment, Ready, Stands
      <3>2. r.pc = "leave" /\ r.id = q.id
        BY <1>11, <1>t, <2>2, CommentFields DEF Return
      <3>3. work'[t].tag = work[t].tag /\ work'[t].comment[t] = q.id
        <4>1. work'[t] = [work[t] EXCEPT !.comment[t] = q.id]
          BY <1>n, <1>q, <1>t, <3>1, PerformInside
        <4> QED
          BY <1>q, <4>1 DEF Works
      <3> QED
        BY <1>k, <1>q, <1>s, <1>w, <3>1, <3>2, <3>3 DEF Written, Wrote
    <2> QED
      BY <2>1, <2>2
  <1>12. CASE LeaveBlock(t)
    <2> DEFINE kind == Last(q.blocks)
               n == Len(q.blocks)
    <2>1. /\ q.pc = "leave" /\ r.raised \in BOOLEAN /\ Exit(t, q.raised, r.raised)
          /\ r.id = q.id /\ r.blocks = Front(q.blocks)
      BY <1>12, <1>t, LeaveFields
    <2>2. r.pc = CASE kind = "get_or_create" /\ r.raised /\ q.refused -> "again"
                   [] q.op = "update_or_create" /\ kind = "get_or_create" /\ ~r.raised -> "leave"
                   [] kind = q.op /\ kind # "delete" /\ ~r.raised -> "comment"
                   [] OTHER -> IF n = 1 THEN "done" ELSE "leave"
      BY <1>12, <1>t, LeaveFields
    <2>3. /\ q.blocks \in Seq(BlockKinds) /\ q.blocks # <<>> /\ n \in Nat /\ Len(r.blocks) = n - 1
          /\ kind = q.blocks[n] /\ kind \in BlockKinds /\ n >= 1
      <3>1. q.blocks \in Seq(BlockKinds) /\ q.blocks # <<>>
        BY <1>q, <1>t, <2>1, LeavesBlock DEF Queries
      <3> QED
        BY <2>1, <3>1, FrontOf
    <2>4. n = 2 => kind = q.op
      <3>1. Under(q) = 1 /\ (n = 2 => q.blocks[2] = KindAt(q, 2))
        BY <1>q, <2>3 DEF Under, Shaped
      <3> QED
        BY <2>3, <3>1 DEF KindAt
    <2> HIDE DEF kind, n
    <2>5. /\ r.pc = "comment" => ~r.raised /\ kind = q.op /\ q.op # "delete"
          /\ r.pc = "leave" /\ ~r.raised => kind # q.op \/ kind = "delete"
      BY <2>2
    <2>6. CASE r.raised
      BY <1>v, <2>5, <2>6
    <2>7. CASE ~r.raised /\ r.pc \in {"comment", "leave"}
      <3>1. InTx(t)'
        <4>1. (\A u \in Tasks : query[u].blocks # <<>> => InTx(Conn(u)))'
          BY InsideAlways, PTL
        <4>2. r.blocks # <<>>
          BY <1>n, <2>7
        <4>3. InTx(Conn(t))'
          BY <4>1, <4>2
        <4> QED
          BY <1>q, <4>3 DEF InTx
      <3>2. ~q.raised /\ work' = work
        <4>1. ~q.raised /\ (Release(t) \/ (Len(points[t]) = 1 /\ ~spoiled[t] /\ Commit(t)))
          BY <1>q, <2>1, <2>7 DEF Exit
        <4>2. Len(points[t]) = 1 /\ ~spoiled[t] /\ Commit(t) => points'[t] = <<>>
          BY <1>q, <1>t, CommitTypes
        <4> QED
          BY <3>1, <4>1, <4>2 DEF InTx, Release
      <3>3. q.op \in {"get_or_create", "update_or_create"} => q.id \in Ids
        <4>1. ~Asking(q)
          BY <2>1, <3>2, <1>t DEF Answered
        <4> QED
          BY <1>q, <4>1 DEF Asking, Queries, Refs
      <3>4. CASE r.pc = "comment"
        <4>1. q.op \in {"get_or_create", "update_or_create"}
          BY <1>q, <2>3, <2>5, <3>4 DEF BlockKinds, Queries, Operations
        <4> QED
          BY <1>k, <1>q, <1>s, <1>w, <2>1, <3>2, <3>3, <3>4, <4>1 DEF Written, Wrote
      <3>5. CASE r.pc = "leave"
        <4>1. q.op # "delete" => Len(r.blocks) # 1
          BY <2>3, <2>4, <2>5, <2>7, <3>5
        <4> QED
          BY <1>k, <1>q, <1>s, <1>w, <2>1, <2>7, <3>2, <3>5, <4>1 DEF Written, Wrote
      <3> QED
        BY <2>7, <3>4, <3>5
    <2>8. CASE r.pc \notin {"comment", "leave"}
      BY <1>v, <2>8
    <2> QED
      BY <2>1, <2>6, <2>7, <2>8
  <1> QED
    BY <1>1, <1>2, <1>3, <1>4, <1>5, <1>6, <1>7, <1>8, <1>9, <1>10, <1>11, <1>12 DEF QueryStep

\* A step of another request on a connection of its own.
LEMMA PureOthersWritten ==
  ASSUME ShapeInv, pure, NEW t \in Tasks, NEW u \in Tasks \ {t}, QueryStep(u), Fresh(u), Written(t)
  PROVE  Written(t)'
  <1>1. Kept(u) /\ Asked(u)
    BY StepKept
  <1>2. Conn(u) = u /\ t \in Connections \ {u}
    BY DEF Conn, Connections
  <1>3. /\ query'[t] = query[t] /\ work'[t] = work[t] /\ pure' /\ Conn(t) = t /\ Conn(t)' = t
    BY <1>1, <1>2 DEF Kept, Elsewhere, Asked, Conn
  <1>4. Spent(query[t].id) => Spent(query[t].id)'
    <2>1. PICK k : k = query[t].id
      OBVIOUS
    <2>2. Spent(k) => Spent(k)'
      BY SpentKept
    <2> QED
      BY <1>3, <2>1, <2>2 DEF Spent
  <1>5. ASSUME NEW row, Wrote(t, row) PROVE Wrote(t, row)'
    BY <1>3, <1>4, <1>5 DEF Wrote
  <1>6. PICK new : new = Tag(query[t].id, t)
    OBVIOUS
  <1>7. Wrote(t, Tag(query[t].id, t)) => Wrote(t, Tag(query[t].id, t))'
    <2>1. Wrote(t, new) => Wrote(t, new)'
      BY <1>5
    <2> QED
      BY <1>3, <1>6, <2>1 DEF Wrote, Tag
  <1>8. Wrote(t, NoTag) => Wrote(t, NoTag)'
    BY <1>5
  <1> QED
    BY <1>3, <1>7, <1>8 DEF Written

\* While nobody is inside a block, the connection of all is out of transactions.
LEMMA NobodyInside ==
  ASSUME ShapeInv, ~pure, Inside = {}
  PROVE  ~spoiled[Main]
  <1>1. Len(points[Main]) = 0 /\ points[Main] \in Seq(Saves) /\ Main \in Connections
    BY FS_EmptySet DEF ShapeInv, PointsInv, DatabaseTypes, Connections
  <1>2. points[Main] = <<>>
    BY <1>1, EmptySeq
  <1> QED
    BY <1>1, <1>2 DEF ShapeInv, DatabaseTypes, InTx

\* A step of the request on the connection of all, which it meets nobody on.
LEMMA SharedWritten ==
  ASSUME ShapeInv, ShapeInv', ~pure, NEW t \in Tasks, t \notin met', query[t].atomic, QueryStep(t), Written(t)
  PROVE  Written(t)'
  <1> DEFINE q == query[t]
             r == query'[t]
  <1>t. DatabaseTypes /\ RequestTypes /\ BlocksInv
    BY DEF ShapeInv
  <1>s. /\ Kept(t) /\ Asked(t) /\ r.op = q.op /\ r.atomic = q.atomic
    BY <1>t, StepKept, StepDepth
  <1>q. /\ q \in Queries /\ Shaped(q) /\ Main \in Connections /\ Conn(t) = Main /\ r \in Queries /\ Shaped(r)
        /\ ~pure' /\ Conn(t)' = Main /\ work[Main] \in Works /\ Writing(t) = work[Main] /\ NoRef \notin Ids
    BY <1>s, <1>t, TagFacts DEF RequestTypes, BlocksInv, Conn, Connections, Asked, DatabaseTypes, Writing
  <1>w. /\ q.pc = "comment" => q.id \in Ids /\ q.op # "delete"
        /\ q.op = "update_or_create" /\ q.pc = "comment" => work[Main].tag = Tag(q.id, t)
        /\ spoiled[Main] /\ t \in Inside => q.pc = "leave" /\ q.raised
    BY <1>q DEF Written, Wrote
  <1>n. q.pc \notin {"enter", "done"} => InTx(Main) /\ t \in Inside
    BY <1>q, <1>t, BlocksInside, InsideTx DEF Inside
  <1>1. /\ Meet(t, Inside)
        /\ Enter(t) \/ Broken(t) \/ InThread(t) \/ Comment(t) \/ LeaveBlock(t)
    BY SharedSteps
  <1>2. Inside \subseteq {t}
    BY <1>1 DEF Meet
  <1>v. ASSUME r.pc \notin {"comment", "leave"} \/ (r.pc = "leave" /\ r.raised),
               ~spoiled'[Main] \/ (r.pc = "leave" /\ r.raised) \/ t \notin Inside'
        PROVE  Written(t)'
    BY <1>q, <1>v DEF Written
  <1>r. ASSUME Refuse(t), q.pc \notin {"enter", "done"} PROVE Written(t)'
    <2>1. r.raised /\ r.pc = "leave"
      BY <1>n, <1>r, <1>t, RaisedFields DEF Refuse, Inside
    <2> QED
      BY <1>v, <2>1
  <1>3. CASE Enter(t)
    <2>1. EnterBlock(t, "endpoint", First(q.op)) /\ q.pc = "enter"
      BY <1>3 DEF Enter, Stands
    <2>2. r.pc = First(q.op) /\ spoiled' = spoiled
      <3>1. r.pc = First(q.op)
        BY <1>t, <2>1, BlockFields
      <3>2. spoiled' = spoiled
        BY <2>1 DEF EnterBlock
      <3> QED
        BY <3>1, <3>2
    <2>3. ~spoiled[Main]
      <3>1. CASE t \in Inside
        BY <1>w, <2>1, <3>1
      <3>2. CASE t \notin Inside
        BY <1>2, <3>2, NobodyInside
      <3> QED
        BY <3>1, <3>2
    <2>4. First(q.op) \notin {"comment", "leave"}
      BY DEF First
    <2> QED
      BY <1>v, <2>2, <2>3, <2>4
  <1>4. CASE Broken(t)
    <2>1. spoiled[Main] /\ q.pc \notin {"enter", "done", "leave"}
      BY <1>4, <1>q DEF Broken
    <2> QED
      BY <1>n, <1>w, <2>1
  <1>5. CASE InThread(t)
    <2> DEFINE row == SeenTag(t)
               id == IF row = NoTag THEN t ELSE row[1]
               w == CASE q.op = "delete" -> [tag |-> NoTag, comment |-> [v \in Tasks |-> NoRef]]
                      [] q.op = "get_or_create" /\ row # NoTag -> work[Main]
                      [] OTHER -> [work[Main] EXCEPT !.tag = Tag(id, t)]
    <2>1. q.pc \in {"insert", "get", "guard", "collect"} /\ ~spoiled[Main]
      BY <1>5, <1>q DEF InThread, Ready, Stands
    <2>2. CASE Refuse(t)
      BY <1>r, <2>1, <2>2
    <2>3. CASE ~Refuse(t)
      <3>1. Perform(t, w) /\ UNCHANGED spoiled
        BY <1>5, <1>q, <2>3 DEF InThread
      <3>2. r.pc = (IF q.op # "delete" THEN "comment" ELSE "leave") /\ r.id = id
        BY <1>5, <1>t, <2>3, ThreadFields DEF Return
      <3>3. id \in Ids
        BY <1>t, WritesTypes, TagFacts DEF Ids
      <3> HIDE DEF row, id
      <3>4. work'[Main] = w
        BY <1>n, <1>q, <1>t, <2>1, <3>1, PerformInside
      <3>5. CASE q.op = "delete"
        <4>1. w = [tag |-> NoTag, comment |-> [v \in Tasks |-> NoRef]]
          BY <3>5
        <4>2. work'[Main].tag = NoTag
          BY <3>4, <4>1
        <4> QED
          BY <1>q, <1>s, <2>1, <3>1, <3>2, <3>5, <4>2 DEF Written, Wrote
      <3>6. CASE q.op = "update_or_create"
        <4>1. w = [work[Main] EXCEPT !.tag = Tag(id, t)]
          BY <3>6
        <4>2. work'[Main].tag = Tag(id, t)
          BY <1>q, <3>4, <4>1 DEF Works
        <4> QED
          BY <1>q, <1>s, <2>1, <3>1, <3>2, <3>3, <3>6, <4>2 DEF Written, Wrote
      <3>7. CASE q.op \notin {"delete", "update_or_create"}
        BY <1>q, <1>s, <2>1, <3>1, <3>2, <3>3, <3>7 DEF Written
      <3> QED
        BY <3>5, <3>6, <3>7
    <2> QED
      BY <2>2, <2>3
  <1>6. CASE Comment(t)
    <2>1. q.pc = "comment" /\ ~spoiled[Main]
      BY <1>6, <1>q DEF Comment, Ready, Stands
    <2>2. CASE Refuse(t)
      BY <1>r, <2>1, <2>2
    <2>3. CASE ~Refuse(t)
      <3>1. Perform(t, [work[Main] EXCEPT !.comment[t] = q.id]) /\ UNCHANGED spoiled
        BY <1>6, <1>q, <2>3 DEF Comment
      <3>2. r.pc = "leave" /\ r.id = q.id
        BY <1>6, <1>t, <2>3, CommentFields DEF Return
      <3>3. work'[Main].tag = work[Main].tag /\ work'[Main].comment[t] = q.id
        <4>1. work'[Main] = [work[Main] EXCEPT !.comment[t] = q.id]
          BY <1>n, <1>q, <1>t, <2>1, <3>1, PerformInside
        <4> QED
          BY <1>q, <4>1 DEF Works
      <3> QED
        BY <1>q, <1>s, <1>w, <2>1, <3>1, <3>2, <3>3 DEF Written, Wrote
    <2> QED
      BY <2>2, <2>3
  <1>7. CASE LeaveBlock(t)
    <2>1. q.pc = "leave" /\ r.blocks = Front(q.blocks)
      BY <1>7, <1>t, LeaveFields
    <2>2. Len(q.blocks) \in Nat /\ Len(q.blocks) <= 1 /\ Len(q.blocks) >= 1 /\ q.blocks \in Seq(BlockKinds)
      <3>1. Len(q.blocks) <= Under(q) /\ Under(q) = 1
        BY DEF ShapeInv, FlatInv, Under
      <3> QED
        BY <1>q, <2>1, <3>1, BlocksNumber DEF Shaped, Queries
    <2>3. r.blocks = <<>>
      <3> DEFINE s == q.blocks
      <3>1. s \in Seq(BlockKinds) /\ Len(s) \in Nat /\ Len(s) <= 1 /\ Len(s) >= 1
        BY <2>2
      <3>2. s # <<>> <=> Len(s) # 0
        BY <1>q, BlocksNumber
      <3> HIDE DEF s
      <3>3. Len(s) = 1
        <4>1. \A n \in Nat : n <= 1 /\ n >= 1 => n = 1
          OBVIOUS
        <4> QED
          BY <3>1, <4>1, Zenon
      <3>4. Front(s) = <<>>
        BY <3>1, <3>2, <3>3, FrontOf
      <3> QED
        BY <2>1, <3>4 DEF s
    <2>4. r.pc \notin {"comment", "leave"}
      BY <1>n, <1>q, <1>s, <2>3, BlocksInside
    <2>5. t \notin Inside'
      BY <2>3 DEF Inside
    <2> QED
      BY <1>v, <2>4, <2>5
  <1> QED
    BY <1>1, <1>3, <1>4, <1>5, <1>6, <1>7

\* A step of another request on the connection of all.
LEMMA SharedOthersWritten ==
  ASSUME ShapeInv, ~pure, NEW t \in Tasks, t \notin met', query[t].atomic, NEW u \in Tasks \ {t}, QueryStep(u),
         Written(t)
  PROVE  Written(t)'
  <1>1. Asked(u) /\ pure' = pure /\ query'[t] = query[t] /\ query[t] \in Queries /\ Shaped(query[t])
    BY StepKept DEF Asked, ShapeInv, RequestTypes, BlocksInv
  <1>2. CASE t \in Inside
    <2>1. ~Meet(u, Inside)
      BY <1>2 DEF Meet
    <2>2. UNCHANGED databaseVars
      BY <2>1, SharedSteps
    <2> QED
      BY <1>1, <1>2, <2>2 DEF Written, Wrote, databaseVars, Conn, Inside
  <1>3. CASE t \notin Inside
    <2>1. query[t].pc \in {"enter", "done"} /\ t \notin Inside'
      BY <1>1, <1>3, BlocksInside DEF Inside
    <2> QED
      BY <1>1, <2>1 DEF Written
  <1> QED
    BY <1>2, <1>3

-----------------------------------------------------------------------------
(* All or nothing *)

\* Where a request is says which steps it can take.
LEMMA WhoSteps ==
  ASSUME NEW t \in Tasks, QueryStep(t)
  PROVE  /\ query[t].pc # "done"
         /\ query[t].pc = "enter" => Enter(t)
         /\ query[t].pc = "leave" => LeaveBlock(t)
  BY DEF QueryStep, Enter, Broken, Guard, GetTag, InsertTag, Again, Update, Collect, StartDelete,
         DeleteChildren, DeleteRow, InThread, Comment, LeaveBlock, Ready, Stands

\* The inductive invariant of AllOrNothing.
AtomicInv == QueryInv /\ RefInv /\ FreshInv /\ KnownInv /\ ApartInv /\ WrittenInv

\* The invariant holds in the beginning.
LEMMA AtomicInitInv == QueryInit => AtomicInv
  <1> SUFFICES ASSUME QueryInit PROVE AtomicInv
    OBVIOUS
  <1>1. /\ tagRow \in {NoTag, Tag(Old, Old)} /\ comment = [t \in Tasks |-> NoRef]
        /\ work = [c \in Connections |-> Untouched] /\ points = [c \in Connections |-> <<>>]
        /\ spoiled = [c \in Connections |-> FALSE] /\ Old \in Ids
        /\ \A t \in Tasks : query[t].pc = "enter" /\ query[t].blocks = <<>> /\ query[t].id = NoRef
    BY DEF QueryInit, Ids
  <1>2. tagRow = NoTag \/ (tagRow[1] = Old /\ tagRow[2] = Old)
    BY <1>1, TagFacts
  <1>3. Tasks \subseteq Connections /\ \A t \in Tasks : t # Old /\ t # NoRef
    BY TaskAssumption, MarkAssumption DEF Connections, Ids
  <1>4. RefInv
    BY <1>1 DEF RefInv
  <1>5. FreshInv
    BY <1>1, <1>3 DEF FreshInv, Fresh
  <1>6. KnownInv
    BY <1>1, <1>2 DEF KnownInv, IdIn, Known, Untouched
  <1>7. ApartInv
    <2> SUFFICES ASSUME NEW t \in Tasks PROVE Apart(t)
      BY DEF ApartInv
    <2>1. Free(t, tagRow) /\ comment[t] = NoRef /\ \A u \in Tasks : query[u].id # t
      BY <1>1, <1>2, <1>3 DEF Free
    <2>2. ASSUME NEW c \in Connections PROVE CleanAt(t, c)
      <3>1. work[c] = Untouched /\ points[c] = <<>>
        BY <1>1
      <3> QED
        BY <3>1 DEF CleanAt, Clean, Free, Untouched
    <2> QED
      BY <2>1, <2>2 DEF Apart
  <1>8. WrittenInv
    BY <1>1 DEF WrittenInv, Written, Inside
  <1> QED
    BY <1>4, <1>5, <1>6, <1>7, <1>8, QueryInitInv DEF AtomicInv

\* Every step keeps the invariant.
LEMMA AtomicStepInv == AtomicInv /\ [QueryNext]_queryVars => AtomicInv'
  <1> SUFFICES ASSUME AtomicInv, [QueryNext]_queryVars PROVE AtomicInv'
    OBVIOUS
  <1>i. QueryInv /\ ShapeInv /\ QueryInv' /\ ShapeInv' /\ pure \in BOOLEAN
    <2>1. QueryInv /\ QueryInv'
      BY QueryStepInv DEF AtomicInv
    <2> QED
      BY <2>1 DEF QueryInv, ShapeInv, RequestTypes
  <1>1. ASSUME NEW u \in Tasks, QueryStep(u) PROVE AtomicInv'
    <2>1. /\ UNCHANGED pure /\ met \subseteq met' /\ \A t \in Tasks \ {u} : query'[t] = query[t]
          /\ query'[u].atomic = query[u].atomic
      BY <1>1, <1>i, StepKept, StepDepth DEF Asked
    <2>2. RefInv'
      BY <1>1, <1>i, RefKept DEF AtomicInv
    <2>3. pure => \A t \in Tasks : Fresh(t)
      BY DEF AtomicInv, FreshInv
    <2>4. FreshInv'
      <3> SUFFICES ASSUME pure', NEW t \in Tasks PROVE Fresh(t)'
        BY DEF FreshInv
      <3>1. CASE t = u
        BY <1>1, <1>i, <2>1, <2>3, <3>1, OwnFresh
      <3>2. CASE t # u
        BY <1>1, <1>i, <2>1, <2>3, <3>2, OthersFresh
      <3> QED
        BY <3>1, <3>2
    <2>5. KnownInv'
      <3>1. CASE pure
        BY <1>1, <1>i, <2>3, <3>1, KnownKept DEF AtomicInv
      <3>2. CASE ~pure
        BY <2>1, <3>2 DEF KnownInv
      <3> QED
        BY <1>i, <3>1, <3>2
    <2>6. query[u].pc # "done"
      BY <1>1, WhoSteps
    <2>7. ApartInv'
      <3> SUFFICES ASSUME NEW t \in Tasks, t \notin met', query'[t].atomic, query'[t].pc # "done" PROVE Apart(t)'
        BY DEF ApartInv
      <3>1. t \notin met /\ query[t].atomic /\ query[t].pc # "done"
        BY <2>1, <2>6
      <3>2. Apart(t)
        BY <3>1 DEF AtomicInv, ApartInv
      <3>3. CASE t = u
        BY <1>1, <1>i, <3>1, <3>2, <3>3, OwnApart
      <3>4. CASE t # u
        BY <1>1, <1>i, <3>2, <3>4, OthersApart
      <3> QED
        BY <3>3, <3>4
    <2>8. WrittenInv'
      <3> SUFFICES ASSUME NEW t \in Tasks, t \notin met', query'[t].atomic PROVE Written(t)'
        BY DEF WrittenInv
      <3>1. t \notin met /\ query[t].atomic
        BY <2>1
      <3>2. Written(t)
        BY <3>1 DEF AtomicInv, WrittenInv
      <3>3. CASE pure /\ t = u
        BY <1>1, <1>i, <2>3, <3>1, <3>2, <3>3, PureWritten DEF AtomicInv
      <3>4. CASE pure /\ t # u
        BY <1>1, <1>i, <2>3, <3>2, <3>4, PureOthersWritten
      <3>5. CASE ~pure /\ t = u
        BY <1>1, <1>i, <3>1, <3>2, <3>5, SharedWritten
      <3>6. CASE ~pure /\ t # u
        BY <1>1, <1>i, <3>1, <3>2, <3>6, SharedOthersWritten
      <3> QED
        BY <1>i, <3>3, <3>4, <3>5, <3>6
    <2> QED
      BY <1>i, <2>2, <2>4, <2>5, <2>7, <2>8 DEF AtomicInv
  <1>2. CASE UNCHANGED queryVars
    <2>1. RefInv' /\ FreshInv'
      BY <1>2 DEF queryVars, AtomicInv, RefInv, FreshInv, Fresh
    <2>2. KnownInv'
      BY <1>2 DEF queryVars, AtomicInv, KnownInv, IdIn, Known
    <2>3. ApartInv'
      BY <1>2 DEF queryVars, AtomicInv, ApartInv, Apart, CleanAt, Clean, Free, Conn
    <2>4. WrittenInv'
      BY <1>2 DEF queryVars, AtomicInv, WrittenInv, Written, Wrote, Spent, Conn, Inside
    <2> QED
      BY <1>i, <2>1, <2>2, <2>3, <2>4 DEF AtomicInv
  <1> QED
    BY <1>1, <1>2 DEF QueryNext, QueriesEnded

\* A request under Atomic ends by leaving its block, the only one on its connection.
LEMMA EndsByLeaving ==
  ASSUME ShapeInv, ShapeInv', NEW t \in Tasks, QueryStep(t), query[t].atomic, t \notin met', query'[t].pc = "done"
  PROVE  LeaveBlock(t) /\ Len(points[Conn(t)]) = 1 /\ Len(query[t].blocks) = 1
  <1> DEFINE q == query[t]
             r == query'[t]
  <1>q. /\ q \in Queries /\ Shaped(q) /\ r \in Queries /\ Shaped(r) /\ RequestTypes
        /\ Len(q.blocks) \in Nat /\ Len(r.blocks) = 0
    <2>1. q \in Queries /\ Shaped(q) /\ r \in Queries /\ Shaped(r) /\ RequestTypes
      BY DEF ShapeInv, RequestTypes, BlocksInv
    <2> QED
      BY <2>1, BlocksNumber DEF Shaped
  <1>1. q.pc # "enter"
    <2> SUFFICES ASSUME q.pc = "enter" PROVE FALSE
      OBVIOUS
    <2>1. Enter(t)
      BY WhoSteps
    <2>2. r.pc = First(q.op)
      BY <1>q, <2>1, BlockFields DEF Enter
    <2> QED
      BY <2>2 DEF First
  <1>2. q.pc # "done"
    BY WhoSteps
  <1>3. q.blocks # <<>> /\ Len(q.blocks) # 0
    BY <1>1, <1>2, <1>q, BlocksInside, BlocksNumber
  <1>4. Higher(t)
    <2>1. Stays(t) \/ Deeper(t) \/ Higher(t)
      BY StepDepth
    <2>2. ~Stays(t)
      BY <1>3, <1>q DEF Stays
    <2>3. ~Deeper(t)
      <3>1. Len(q.blocks) + 1 # 0
        BY <1>q
      <3> QED
        BY <1>q, <3>1 DEF Deeper
    <2> QED
      BY <2>1, <2>2, <2>3
  <1>5. Len(q.blocks) = 1 /\ q.pc = "leave"
    <2>1. Len(r.blocks) = Len(q.blocks) - 1 /\ q.pc = "leave"
      BY <1>4 DEF Higher
    <2>2. \A n \in Nat : 0 = n - 1 => n = 1
      OBVIOUS
    <2> QED
      BY <1>q, <2>1, <2>2, Zenon
  <1>6. LeaveBlock(t)
    BY <1>5, WhoSteps
  <1>7. Len(points[Conn(t)]) = 1
    <2>1. CASE pure
      BY <1>5, <2>1 DEF Conn, ShapeInv, PointsInv
    <2>2. CASE ~pure
      <3>1. Inside = {t}
        <4>1. t \in Inside
          BY <1>3 DEF Inside
        <4>2. Meet(t, Inside)
          BY <1>6 DEF LeaveBlock
        <4> QED
          BY <2>2, <4>1, <4>2 DEF Meet
      <3>2. Cardinality({t}) = 1
        BY FS_Singleton
      <3> QED
        BY <2>2, <3>1, <3>2 DEF Conn, ShapeInv, PointsInv
    <2> QED
      BY <2>1, <2>2
  <1> QED
    BY <1>5, <1>6, <1>7

\* A request under Atomic that returns has committed what its connection wrote.
LEMMA ReturnsCommit ==
  ASSUME AtomicInv, AtomicInv', NEW t \in Tasks, QueryStep(t), query[t].atomic, t \notin met',
         query'[t].pc = "done", ~query'[t].raised
  PROVE  IF query[t].op = "delete"
         THEN ~HasId(tagRow', query[t].id) /\ \A u \in Tasks : comment'[u] = NoRef \/ comment'[u] # query[t].id
         ELSE /\ comment'[t] = query[t].id /\ HasId(tagRow', query[t].id)
              /\ query[t].op = "update_or_create" => tagRow'[2] = t
  <1> DEFINE q == query[t]
             r == query'[t]
  <1>c. PICK c : c = Conn(t)
    OBVIOUS
  <1> DEFINE w == work[c]
             row == Over(w.tag, tagRow)
  <1>i. ShapeInv /\ ShapeInv' /\ RequestTypes /\ DatabaseTypes /\ RefInv' /\ KnownInv
    BY DEF AtomicInv, QueryInv, ShapeInv
  <1>t. /\ q.raised \in BOOLEAN /\ tagRow' \in Tags /\ Same \notin Tags /\ NoTag # Same /\ NoRef \notin Ids
        /\ Same \notin Ids /\ t \in Ids /\ met \subseteq met' /\ q.op \in Operations /\ q.id \in Refs
    BY <1>i, StepKept, TagFacts DEF RequestTypes, Queries, Kept, DatabaseTypes, Refs, Ids, Asked
  <1>1. LeaveBlock(t) /\ Len(points[c]) = 1 /\ Len(q.blocks) = 1
    BY <1>c, <1>i, EndsByLeaving
  <1>2. Exit(t, q.raised, r.raised) /\ q.pc = "leave"
    BY <1>1, <1>i, LeaveFields
  <1>3. Written(t)
    BY <1>t DEF AtomicInv, WrittenInv
  <1>4. ~(~q.raised /\ spoiled[c] /\ r.raised = pure)
    <2> SUFFICES ASSUME ~q.raised, spoiled[c], ~pure PROVE FALSE
      OBVIOUS
    <2>1. c = Main /\ t \in Inside
      BY <1>2, <1>c, <1>i, LeavesBlock DEF Conn, Inside
    <2> QED
      BY <1>3, <2>1 DEF Written
  <1>5. ~q.raised /\ Referenced(w) /\ Commit(c)
    BY <1>1, <1>2, <1>4, <1>c DEF Exit
  <1>6. tagRow' = row /\ comment' = [u \in Tasks |-> Over(w.comment[u], comment[u])]
    BY <1>5 DEF Commit, MakeDurable
  <1>7. /\ q.op # "delete" => w.comment[t] = q.id /\ q.id \in Ids
        /\ q.op = "update_or_create" => w.tag = Tag(q.id, t) \/ (w.tag = Same /\ Spent(q.id))
        /\ q.op = "delete" => q.id = NoRef \/ w.tag = NoTag \/ (w.tag = Same /\ Spent(q.id))
    BY <1>1, <1>2, <1>3, <1>5, <1>c DEF Written, Wrote
  <1>8. Spent(q.id) => ~HasId(tagRow, q.id)
    BY DEF Spent
  <1>9. CASE q.op = "delete"
    <2>1. ~HasId(tagRow', q.id)
      <3>1. q.id = NoRef => ~HasId(tagRow', q.id)
        BY <1>t, TagFacts DEF HasId
      <3>2. w.tag = NoTag => tagRow' = NoTag
        BY <1>6, <1>t DEF Over
      <3>3. w.tag = Same => tagRow' = tagRow
        BY <1>6 DEF Over
      <3>4. ~HasId(NoTag, q.id)
        BY DEF HasId
      <3> HIDE DEF w
      <3> QED
        BY <1>7, <1>8, <1>9, <3>1, <3>2, <3>3, <3>4
    <2>2. \A u \in Tasks : comment'[u] # NoRef => HasId(tagRow', comment'[u])
      BY <1>i DEF RefInv, HasId
    <2> QED
      BY <1>9, <2>1, <2>2
  <1>10. CASE q.op # "delete"
    <2>1. comment'[t] = q.id
      BY <1>10, <1>6, <1>7, <1>t DEF Over
    <2>2. HasId(row, q.id)
      <3>1. Over(w.comment[t], comment[t]) = q.id /\ w.comment[t] # Same /\ q.id # NoRef
        BY <1>10, <1>7, <1>t DEF Over
      <3>2. Over(w.comment[t], comment[t]) # NoRef /\ (w.comment[t] # Same \/ w.tag # Same) =>
              HasId(row, Over(w.comment[t], comment[t]))
        BY <1>5 DEF Referenced
      <3> HIDE DEF row, w
      <3> QED
        BY <3>1, <3>2
    <2>3. q.op = "update_or_create" => row[2] = t
      <3> SUFFICES ASSUME q.op = "update_or_create" PROVE row[2] = t
        OBVIOUS
      <3>1. w.tag # Same
        <4> SUFFICES ASSUME w.tag = Same PROVE FALSE
          OBVIOUS
        <4>1. row = tagRow
          BY DEF Over
        <4>2. Tag(q.id, t) # Same
          BY <1>10, <1>7, <1>t, TagFacts
        <4> HIDE DEF row, w
        <4> QED
          BY <1>7, <1>8, <2>2, <4>1, <4>2
      <3>2. row = Tag(q.id, t)
        BY <1>7, <3>1 DEF Over
      <3> QED
        BY <1>10, <1>7, <1>t, <3>2, TagFacts
    <2> QED
      BY <1>10, <1>6, <2>1, <2>2, <2>3 DEF HasId
  <1> QED
    BY <1>9, <1>10

\* A request under Atomic that raises leaves nothing.
LEMMA RaisesNothing ==
  ASSUME AtomicInv, AtomicInv', NEW t \in Tasks, QueryStep(t), query[t].atomic, t \notin met',
         query[t].pc # "done", query'[t].pc = "done", query'[t].raised
  PROVE  /\ UNCHANGED <<tagRow, comment>> /\ comment[t] = NoRef
         /\ tagRow = NoTag \/ t \notin {tagRow[1], tagRow[2]}
  <1>1. ShapeInv /\ ShapeInv' /\ RequestTypes /\ met \subseteq met'
    BY StepKept DEF AtomicInv, QueryInv, ShapeInv, Asked
  <1>2. LeaveBlock(t) /\ Len(points[Conn(t)]) = 1
    BY <1>1, EndsByLeaving
  <1>3. Exit(t, query[t].raised, query'[t].raised)
    BY <1>1, <1>2, LeaveFields
  <1>4. Rollback(Conn(t))
    BY <1>2, <1>3 DEF Exit
  <1>5. Apart(t)
    BY <1>1 DEF AtomicInv, ApartInv
  <1>6. tagRow # Same
    BY <1>1, TagFacts DEF ShapeInv, DatabaseTypes
  <1> QED
    BY <1>4, <1>5, <1>6 DEF Rollback, Apart, Free

\* An endpoint under Atomic whose block no other task gets into leaves all it wrote if
\* it returns and nothing if it raises (Atomic of core/orm/plugins/atomic.py, start,
\* commit and rollback of databases/encode.py).
THEOREM QueriesAreAtomic == QuerySpec => AllOrNothing
  <1>1. AtomicInv /\ AtomicInv' /\ [QueryNext]_queryVars =>
          [\A t \in Tasks : Ends(t) /\ query[t].atomic /\ t \notin met' =>
             IF query'[t].raised
             THEN /\ UNCHANGED <<tagRow, comment>> /\ comment[t] = NoRef
                  /\ tagRow = NoTag \/ t \notin {tagRow[1], tagRow[2]}
             ELSE IF query[t].op = "delete"
             THEN ~HasId(tagRow', query[t].id) /\ \A u \in Tasks : comment'[u] = NoRef \/ comment'[u] # query[t].id
             ELSE /\ comment'[t] = query[t].id /\ HasId(tagRow', query[t].id)
                  /\ query[t].op = "update_or_create" => tagRow'[2] = t]_queryVars
    <2> SUFFICES ASSUME AtomicInv, AtomicInv', QueryNext, NEW t \in Tasks, Ends(t), query[t].atomic, t \notin met'
                 PROVE  IF query'[t].raised
                        THEN /\ UNCHANGED <<tagRow, comment>> /\ comment[t] = NoRef
                             /\ tagRow = NoTag \/ t \notin {tagRow[1], tagRow[2]}
                        ELSE IF query[t].op = "delete"
                        THEN /\ ~HasId(tagRow', query[t].id)
                             /\ \A u \in Tasks : comment'[u] = NoRef \/ comment'[u] # query[t].id
                        ELSE /\ comment'[t] = query[t].id /\ HasId(tagRow', query[t].id)
                             /\ query[t].op = "update_or_create" => tagRow'[2] = t
      OBVIOUS
    <2>1. query[t].pc # "done" /\ query'[t].pc = "done"
      BY DEF Ends, Stands
    <2>2. QueryStep(t)
      <3>1. PICK u \in Tasks : QueryStep(u)
        BY <2>1 DEF QueryNext, QueriesEnded, Stands
      <3>2. t # u => query'[t] = query[t]
        BY <3>1, StepKept DEF AtomicInv, QueryInv, Asked
      <3> QED
        BY <2>1, <3>1, <3>2
    <2>3. CASE query'[t].raised
      BY <2>1, <2>2, <2>3, RaisesNothing
    <2>4. CASE ~query'[t].raised
      BY <2>1, <2>2, <2>4, ReturnsCommit
    <2> QED
      BY <2>3, <2>4
  <1> QED
    BY <1>1, AtomicInitInv, AtomicStepInv, PTL DEF QuerySpec, AllOrNothing
=============================================================================
