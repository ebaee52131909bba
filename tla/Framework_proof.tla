--------------------------- MODULE Framework_proof ---------------------------
(***************************************************************************)
(* Proofs about what the code of a service calls while it answers: the     *)
(* HTTP cache (HttpCache), the key cache with limits (KeyCache), the APIs  *)
(* and endpoints (ApiCall) and a schema that is saved (RelationSave).      *)
(***************************************************************************)
EXTENDS HttpCache, KeyCache, ApiCall, RelationSave, FiniteSetTheorems, TLAPS
-----------------------------------------------------------------------------
(***************************************************************************)
(* Proofs about HttpCache.  The validators of a copy are those of the      *)
(* version it was made from; so a 304 that rests on the ETag is given for  *)
(* the current version only, for any visitors, settings and versions.      *)
(***************************************************************************)

Copy == [version: Nat, etag: Nat, date: Nat]

\* The tag of a copy, if it has one, is that of its version.
TagOfVersion == \A v \in Visitors : copy[v].etag # 0 => copy[v].etag = copy[v].version

VisitInv ==
  /\ VisitTypeOK
  /\ version \in Nat \ {0}
  /\ TagOfVersion

\* A copy of the current version has its validators.
LEMMA CopyTyped ==
  ASSUME VisitTypeOK, version \in Nat \ {0}
  PROVE  [version |-> version, etag |-> ETag, date |-> LastModified]
           \in [version: 0..version, etag: 0..version, date: 0..version]
BY DEF VisitTypeOK, ETag, LastModified

\* The service starts at version one and nobody has a copy (VisitInit).
LEMMA VisitInitInv == ASSUME MaxVersion >= 1, VisitInit PROVE VisitInv
<1>1. VisitTypeOK
  BY VisitAssumption DEF VisitInit, VisitTypeOK, NoCopy
<1>2. version \in Nat \ {0} /\ TagOfVersion
  BY DEF VisitInit, NoCopy, TagOfVersion
<1> QED
  BY <1>1, <1>2 DEF VisitInv

\* Neither a change nor a request breaks the invariant (process_response).
LEMMA VisitStepInv == ASSUME VisitInv, [VisitNext]_visitVars PROVE VisitInv'
<1> USE DEF VisitInv, VisitTypeOK, TagOfVersion
<1>1. CASE Change
  <2>1. version' \in 1..MaxVersion /\ version' = version + 1
    BY <1>1, VisitAssumption DEF Change
  <2>2. copy' \in [Visitors -> [version: 0..version', etag: 0..version', date: 0..version']]
    <3>1. copy' = copy
      BY <1>1 DEF Change
    <3>2. 0..version \subseteq 0..version'
      BY <2>1
    <3>3. \A v \in Visitors : copy[v] \in [version: 0..version, etag: 0..version, date: 0..version]
      OBVIOUS
    <3>4. \A c \in [version: 0..version, etag: 0..version, date: 0..version] :
            c \in [version: 0..version', etag: 0..version', date: 0..version']
      BY <3>2
    <3> QED
      BY <3>1, <3>3, <3>4
  <2> QED
    BY <1>1, <2>1, <2>2 DEF Change
<1>2. ASSUME NEW v \in Visitors, Visit(v) PROVE VisitInv'
  <2>1. version' = version /\ setting' = setting
    BY <1>2 DEF Visit
  <2>2. answer' \in [Visitors -> {0, 200, 304}]
    BY <1>2 DEF Visit, Status
  <2>3. CASE Status(v) = 304
    BY <1>2, <2>1, <2>2, <2>3 DEF Visit
  <2>4. CASE Status(v) # 304
    <3> DEFINE new == [version |-> version, etag |-> ETag, date |-> LastModified]
    <3>1. new \in [version: 0..version, etag: 0..version, date: 0..version]
      BY CopyTyped
    <3>2. new.etag # 0 => new.etag = new.version
      BY DEF ETag
    <3>3. copy' = [copy EXCEPT ![v] = new]
      BY <1>2, <2>4 DEF Visit
    <3> HIDE DEF new
    <3>4. copy' \in [Visitors -> [version: 0..version, etag: 0..version, date: 0..version]]
      BY <3>1, <3>3
    <3>5. TagOfVersion'
      BY <3>2, <3>3
    <3> QED
      BY <2>1, <2>2, <3>4, <3>5
  <2> QED
    BY <2>3, <2>4
<1>3. CASE UNCHANGED visitVars
  BY <1>3 DEF visitVars
<1> QED
  BY <1>1, <1>2, <1>3 DEF VisitNext

\* A visit that is answered 304 although no date counts was answered for its tag.
LEMMA SameTagIsCurrent ==
  ASSUME VisitInv, NEW v \in Visitors, Visit(v), answer'[v] = 304,
         copy[v].date = 0 \/ ~setting.last_modified
  PROVE  copy[v].version = version
<1>1. Status(v) = 304
  BY DEF Visit, VisitInv, VisitTypeOK
<1>2. ~ModifiedAfter(copy[v].date)
  BY DEF ModifiedAfter
<1>3. copy[v].etag # 0 /\ ETag # 0 /\ copy[v].etag = ETag
  BY <1>1, <1>2 DEF Status, SameTag
<1>4. ETag = version
  BY <1>3 DEF ETag
<1> QED
  BY <1>3, <1>4 DEF VisitInv, TagOfVersion

\* The invariant holds in every reachable state.
THEOREM VisitInvariant == ASSUME MaxVersion >= 1 PROVE VisitSpec => []VisitInv
<1>1. VisitInit => VisitInv
  BY VisitInitInv
<1>2. VisitInv /\ [VisitNext]_visitVars => VisitInv'
  BY VisitStepInv
<1> QED
  BY <1>1, <1>2, PTL DEF VisitSpec

\* The state has its type (HttpCache VisitTypeOK).
THEOREM VisitTypes == ASSUME MaxVersion >= 1 PROVE VisitSpec => []VisitTypeOK
<1>1. VisitInv => VisitTypeOK
  BY DEF VisitInv
<1> QED
  BY <1>1, VisitInvariant, PTL

\* A 304 that rests on the ETag is true (process_response, cache.py).
THEOREM TaggedIsRight == ASSUME MaxVersion >= 1 PROVE VisitSpec => TaggedIsCurrent
<1>1. VisitInv /\ [VisitNext]_visitVars
        => [\A v \in Visitors :
              /\ answer'[v] = 304 /\ Visit(v)
              /\ copy[v].date = 0 \/ ~setting.last_modified
              => copy[v].version = version]_visitVars
  BY SameTagIsCurrent
<1> QED
  BY <1>1, VisitInvariant, PTL DEF VisitSpec, TaggedIsCurrent
-----------------------------------------------------------------------------
(***************************************************************************)
(* Proofs about KeyCache, for any keys, clients, policies and limits.      *)
(* KeysAccounted speaks of the moments between operations.  The invariant  *)
(* (Shape) follows the one operation that is under way, command by         *)
(* command: which keys are on their way out of the sorted sets or into     *)
(* them, and that what is left outside of the count is at most slack.      *)
(***************************************************************************)

USE CacheAssumption

Commands  == {"idle", "count", "excess", "pop", "pick", "drop", "droph", "dropu", "zadd", "zaddu",
              "write", "pushed", "get", "hit", "scan", "misses", "forget", "forgetu", "clear"}
Operation == [pc: Commands,
              op: {"none", "set", "nx", "xx", "alter", "get", "delete", "keys", "clear", "push"},
              keys: SUBSET CacheKeys, seen: SUBSET CacheKeys, drop: SUBSET CacheKeys, excess: Nat]

\* set, update and alter prepare, and may evict.
Prepared == {"set", "nx", "xx", "alter"}

\* Keys an operation removes, writes or is about to trace.
Removing(q)    == IF q.pc \notin {"drop", "droph", "dropu"} THEN {}
                  ELSE IF q.op = "delete" THEN q.keys ELSE q.drop
Incoming(q)    == IF q.op \in Prepared /\ q.pc \in {"zaddu", "write"} THEN q.keys ELSE {}
Tracing(q, pc) == IF q.pc = pc THEN q.keys ELSE {}

\* H are the keys that exist, Z the members of hits, U those of updates.
DeadHits(q, H, Z)    == ((Z \cup Tracing(q, "hit")) \ (Removing(q) \cup Incoming(q))) \ H
DeadUpdates(q, H, U) == ((U \cup Tracing(q, "pushed")) \ (Removing(q) \cup Incoming(q))) \ H
Unhit(q, H, Z)       == (H \ Removing(q)) \ Z

\* What an operation that is at a command has been begun for.
Suits(q) ==
  /\ q.pc \in {"count", "excess", "pop", "pick", "zadd", "zaddu"} => q.op \in Prepared
  /\ q.pc \in {"drop", "droph", "dropu"} => q.op \in Prepared \cup {"delete"}
  /\ q.pc = "write" => q.op \in Prepared \cup {"push"}
  /\ q.pc = "scan" => q.op \in Prepared \cup {"keys", "clear"}
  /\ q.pc \in {"misses", "forget", "forgetu"} => q.op \in Prepared \cup {"keys"}
  /\ q.pc # "idle" /\ q.op \in Prepared => Cardinality(q.keys) <= BatchSize
  /\ q.pc # "idle" /\ q.op \in {"nx", "xx", "alter", "push"} => \E k \in CacheKeys : q.keys = {k}

Traced(q, H, Z, U) ==
  /\ H \ (Removing(q) \cup Tracing(q, "pushed")) \subseteq U
  /\ q.pc \in {"droph", "dropu"} => H \cap Removing(q) = {}
  /\ q.pc = "dropu" => Z \cap Removing(q) = {}
  /\ q.pc \in {"forget", "forgetu"} => H \cap q.drop = {}
  /\ q.pc \in {"excess", "clear"} => H \subseteq q.seen
  /\ Incoming(q) \subseteq Z
  /\ q.pc = "write" => Incoming(q) \subseteq U

Bounded(q, H, s) ==
  /\ Cardinality(H) <= MaxEntries + Tolerance + BatchSize + s
  /\ q.op \in Prepared =>
       /\ q.pc \in {"pop", "scan", "misses"} => Cardinality(H) <= MaxEntries + q.excess
       /\ q.pc \in {"forget", "forgetu", "pick"} => Cardinality(H \cup q.seen) <= MaxEntries + q.excess
       /\ q.pc = "drop" => Cardinality(H \ q.drop) <= MaxEntries + s
       /\ q.pc \in {"droph", "dropu"} => Cardinality(H) <= MaxEntries + s
       /\ q.pc \in {"zadd", "zaddu", "write"} => Cardinality(H) <= MaxEntries + Tolerance + s

Shape(q, H, Z, U, s) ==
  /\ Suits(q) /\ Traced(q, H, Z, U) /\ Bounded(q, H, s)
  /\ Cardinality(DeadHits(q, H, Z)) <= s
  /\ Cardinality(DeadUpdates(q, H, U)) <= s
  /\ Cardinality(Unhit(q, H, Z)) <= s

\* One operation at a time.
OneBusy == ~mixed => \A c, d \in Clients : ~At(c, "idle") /\ ~At(d, "idle") => c = d

Others(c) == \A d \in Clients \ {c} : At(d, "idle")

CacheInv ==
  /\ CacheTypeOK /\ OneBusy /\ \A c \in Clients : Suits(client[c])
  /\ ~mixed => \A c \in Clients : Others(c) =>
                 Shape(client[c], Held, DOMAIN hits, DOMAIN updates, slack)

-----------------------------------------------------------------------------
(* Types *)

\* A sorted set of keys (the sorted sets hits and updates).
Sorted(z) == DOMAIN z \subseteq CacheKeys /\ z \in [DOMAIN z -> Nat]

\* Keys are finitely many, and so is every set of them.
LEMMA KeysFinite ==
  ASSUME NEW S \in SUBSET CacheKeys PROVE IsFiniteSet(S) /\ Cardinality(S) \in Nat
BY FS_Subset, FS_CardinalityType

\* zrem and zpopmin leave a sorted set.
LEMMA WithoutSorted ==
  ASSUME NEW z, Sorted(z), NEW S
  PROVE  Sorted(Without(z, S)) /\ DOMAIN Without(z, S) = DOMAIN z \ S
BY DEF Sorted, Without

\* zincrby leaves a sorted set.
LEMMA RaiseSorted ==
  ASSUME NEW z, Sorted(z), NEW k \in CacheKeys
  PROVE  Sorted(Raise(z, k)) /\ DOMAIN Raise(z, k) = DOMAIN z \cup {k}
<1> DEFINE f(j) == IF j # k THEN z[j] ELSE IF k \notin DOMAIN z THEN 1 ELSE IF z[k] < MaxHits THEN z[k] + 1 ELSE z[k]
<1>1. Raise(z, k) = [j \in DOMAIN z \cup {k} |-> f(j)]
  BY DEF Raise
<1>2. \A j \in DOMAIN z \cup {k} : f(j) \in Nat
  BY DEF Sorted
<1> HIDE DEF f
<1> QED BY <1>1, <1>2 DEF Sorted

\* zadd with nx leaves a sorted set.
LEMMA AddNewSorted ==
  ASSUME NEW z, Sorted(z), NEW S \in SUBSET CacheKeys
  PROVE  Sorted(AddNew(z, S)) /\ DOMAIN AddNew(z, S) = DOMAIN z \cup S
BY DEF Sorted, AddNew

\* The scores of finitely many members are finitely many, so that ranks are numbers.
LEMMA RankIsNumber ==
  ASSUME NEW z, NEW D \in SUBSET CacheKeys
  PROVE  Cardinality({z[j] : j \in D}) \in Nat
<1> DEFINE T == {z[j] : j \in D}
           f == [j \in D |-> z[j]]
<1>1. f \in Surjection(D, T)
  BY DEF Surjection
<1>2. IsFiniteSet(T)
  BY <1>1, KeysFinite, FS_Surjection DEF ExistsSurjection
<1> QED BY <1>2, FS_CardinalityType

\* zadd of the present time leaves a sorted set.
LEMMA StampSorted ==
  ASSUME NEW z, Sorted(z), NEW S \in SUBSET CacheKeys
  PROVE  Sorted(Stamp(z, S)) /\ DOMAIN Stamp(z, S) = DOMAIN z \cup S
<1> DEFINE y == [k \in DOMAIN z \cup S |-> IF k \in S THEN Cardinality(CacheKeys) + 1 ELSE z[k]]
           below(k) == {j \in DOMAIN y : y[j] < y[k]}
<1>1. DOMAIN y = DOMAIN z \cup S /\ DOMAIN y \subseteq CacheKeys
  BY DEF Sorted
<1>2. \A k \in DOMAIN y : below(k) \in SUBSET CacheKeys
  BY <1>1
<1>3. Stamp(z, S) = [k \in DOMAIN y |-> Cardinality({y[j] : j \in below(k)})]
  BY DEF Stamp, Ranked
<1> HIDE DEF y, below
<1>4. \A k \in DOMAIN y : Cardinality({y[j] : j \in below(k)}) \in Nat
  BY <1>2, RankIsNumber
<1> QED BY <1>1, <1>3, <1>4 DEF Sorted

\* The parts of the type invariant, named.
CacheTypes1 ==
  /\ policy \in {"LFU", "LRU", "RANDOM"} \cap Policies
  /\ val \in [CacheKeys -> Nat] /\ Sorted(hits) /\ Sorted(updates)
  /\ client \in [Clients -> Operation]
  /\ \A c \in Clients : client[c].pc \in {"zadd", "zaddu"} => client[c].op \in Prepared
  /\ ops \in Nat /\ slack \in Nat /\ lapsed \in Nat /\ mixed \in BOOLEAN

\* They are the type invariant.
LEMMA TypesNamed == CacheTypeOK <=> CacheTypes1
BY DEF CacheTypeOK, CacheTypes1, Sorted, Operation, Commands, Prepared

-----------------------------------------------------------------------------
(* Sets of keys *)

\* A set that has become no larger meets a bound that has become no tighter.
LEMMA Smaller ==
  ASSUME NEW A \in SUBSET CacheKeys, NEW B \in SUBSET CacheKeys, A \subseteq B,
         NEW m \in Nat, NEW n \in Nat, Cardinality(B) <= m, m <= n
  PROVE  Cardinality(A) <= n
<1>1. Cardinality(A) <= Cardinality(B)
  BY KeysFinite, FS_Subset
<1> QED BY <1>1, KeysFinite

\* Keys that are added raise the bound by their number.
LEMMA Larger ==
  ASSUME NEW A \in SUBSET CacheKeys, NEW B \in SUBSET CacheKeys, NEW S \in SUBSET CacheKeys, A \subseteq B \cup S,
         NEW m \in Nat, NEW n \in Nat, Cardinality(B) <= m, m + Cardinality(S) <= n
  PROVE  Cardinality(A) <= n
<1>1. Cardinality(A) <= Cardinality(B \cup S)
  BY KeysFinite, FS_Subset
<1>2. Cardinality(B \cup S) = Cardinality(B) + Cardinality(S) - Cardinality(B \cap S)
  BY KeysFinite, FS_Union
<1>3. /\ Cardinality(A) \in Nat /\ Cardinality(B) \in Nat /\ Cardinality(S) \in Nat
      /\ Cardinality(B \cup S) \in Nat /\ Cardinality(B \cap S) \in Nat
  BY KeysFinite
<1> QED BY <1>1, <1>2, <1>3

\* An eviction removes as many keys as it has victims, but for the victims that do not exist.
LEMMA Evicted ==
  ASSUME NEW H \in SUBSET CacheKeys, NEW S \in SUBSET CacheKeys, NEW m \in Nat, NEW n \in Nat,
         Cardinality(H) <= m + Cardinality(S), Cardinality(S \ H) <= n
  PROVE  Cardinality(H \ S) <= m + n
<1>1. Cardinality(H \ S) = Cardinality(H) - Cardinality(H \cap S)
  BY KeysFinite, FS_Difference
<1>2. Cardinality(S \ H) = Cardinality(S) - Cardinality(S \cap H)
  BY KeysFinite, FS_Difference
<1>3. Cardinality(S \cap H) = Cardinality(H \cap S)
  <2>1. S \cap H = H \cap S
    OBVIOUS
  <2> QED BY <2>1
<1>4. /\ Cardinality(H) \in Nat /\ Cardinality(S) \in Nat /\ Cardinality(H \cap S) \in Nat
      /\ Cardinality(H \ S) \in Nat /\ Cardinality(S \ H) \in Nat
  BY KeysFinite
<1> QED BY <1>1, <1>2, <1>3, <1>4
-----------------------------------------------------------------------------
(* The operation under way, command by command *)

\* The keys, traces and slack an operation finds and leaves.
Sets(H, Z, U, s) == H \in SUBSET CacheKeys /\ Z \in SUBSET CacheKeys /\ U \in SUBSET CacheKeys /\ s \in Nat

\* The operation goes on to another command.
Goes(q, r) == /\ q \in Operation /\ r \in Operation
              /\ r.op = q.op /\ r.keys = q.keys /\ r.excess = q.excess

\* What is out of the count only shrinks.
Shrinks(q, H, Z, U, r, H1, Z1, U1) ==
  /\ DeadHits(r, H1, Z1) \subseteq DeadHits(q, H, Z)
  /\ DeadUpdates(r, H1, U1) \subseteq DeadUpdates(q, H, U)
  /\ Unhit(r, H1, Z1) \subseteq Unhit(q, H, Z)

\* Then slack still bounds it.
LEMMA Settled ==
  ASSUME NEW q, NEW H, NEW Z, NEW U, NEW s, NEW r, NEW H1, NEW Z1, NEW U1, NEW s1,
         q \in Operation, r \in Operation, Sets(H, Z, U, s), Sets(H1, Z1, U1, s1), s <= s1,
         Shape(q, H, Z, U, s), Shrinks(q, H, Z, U, r, H1, Z1, U1),
         Suits(r), Traced(r, H1, Z1, U1), Bounded(r, H1, s1)
  PROVE  Shape(r, H1, Z1, U1, s1)
<1>1. /\ DeadHits(r, H1, Z1) \in SUBSET CacheKeys /\ DeadHits(q, H, Z) \in SUBSET CacheKeys
      /\ DeadUpdates(r, H1, U1) \in SUBSET CacheKeys /\ DeadUpdates(q, H, U) \in SUBSET CacheKeys
      /\ Unhit(r, H1, Z1) \in SUBSET CacheKeys /\ Unhit(q, H, Z) \in SUBSET CacheKeys
  BY DEF Sets, DeadHits, DeadUpdates, Unhit, Tracing, Operation
<1>2. s \in Nat /\ s1 \in Nat
  BY DEF Sets
<1>3. /\ Cardinality(DeadHits(q, H, Z)) <= s /\ Cardinality(DeadUpdates(q, H, U)) <= s
      /\ Cardinality(Unhit(q, H, Z)) <= s
  BY DEF Shape
<1>4. Cardinality(DeadHits(r, H1, Z1)) <= s1
  BY <1>1, <1>2, <1>3, Smaller DEF Shrinks
<1>5. Cardinality(DeadUpdates(r, H1, U1)) <= s1
  BY <1>1, <1>2, <1>3, Smaller DEF Shrinks
<1>6. Cardinality(Unhit(r, H1, Z1)) <= s1
  BY <1>1, <1>2, <1>3, Smaller DEF Shrinks
<1> QED BY <1>4, <1>5, <1>6 DEF Shape

\* An idle client is like any other (OneBusy leaves them alone).
LEMMA IdleShape ==
  ASSUME NEW q, NEW r, NEW H, NEW Z, NEW U, NEW s, q.pc = "idle", r.pc = "idle", Shape(q, H, Z, U, s)
  PROVE  Shape(r, H, Z, U, s)
BY DEF Shape, Suits, Traced, Bounded, DeadHits, DeadUpdates, Unhit, Removing, Incoming, Tracing

\* A client begins an operation (Begin).
LEMMA BeginShape ==
  ASSUME NEW q, NEW r, NEW H, NEW Z, NEW U, NEW s, Sets(H, Z, U, s),
         q \in Operation, r \in Operation, Shape(q, H, Z, U, s), q.pc = "idle",
         r.pc \in {"count", "get", "drop", "scan", "write"},
         r.pc = "count" => r.op \in Prepared /\ Cardinality(r.keys) <= BatchSize,
         r.pc = "get" => r.op = "get", r.pc = "drop" => r.op = "delete",
         r.pc = "scan" => r.op \in {"keys", "clear"}, r.pc = "write" => r.op = "push",
         r.op \in {"nx", "xx", "alter", "push"} => \E k \in CacheKeys : r.keys = {k}
  PROVE  Shape(r, H, Z, U, s)
<1>1. Suits(r)
  BY DEF Suits, Prepared
<1>2. Traced(r, H, Z, U) /\ Bounded(r, H, s)
  BY DEF Shape, Traced, Bounded, Prepared, Removing, Incoming, Tracing
<1>3. Shrinks(q, H, Z, U, r, H, Z, U)
  BY DEF Shrinks, DeadHits, DeadUpdates, Unhit, Prepared, Removing, Incoming, Tracing
<1>4. s <= s
  BY DEF Sets
<1> QED BY <1>1, <1>2, <1>3, <1>4, Settled

\* The traced keys are read, and every key is one of them (Trace).
LEMMA TraceShape ==
  ASSUME NEW q, NEW r, NEW H, NEW Z, NEW U, NEW s, Sets(H, Z, U, s), Goes(q, r),
         Shape(q, H, Z, U, s), q.pc = "count", r.pc = "excess", r.seen = U
  PROVE  Shape(r, H, Z, U, s)
<1>1. Suits(r)
  BY DEF Shape, Suits, Goes
<1>2. Traced(r, H, Z, U) /\ Bounded(r, H, s)
  BY DEF Shape, Traced, Bounded, Removing, Incoming, Tracing, Goes
<1>3. Shrinks(q, H, Z, U, r, H, Z, U)
  BY DEF Shrinks, DeadHits, DeadUpdates, Unhit, Removing, Incoming, Tracing
<1>4. s <= s
  BY DEF Sets
<1> QED BY <1>1, <1>2, <1>3, <1>4, Settled DEF Goes

\* The keys beyond max_entries are counted, or more (CountExcess).
LEMMA ExcessShape ==
  ASSUME NEW q, NEW r, NEW H, NEW Z, NEW U, NEW s, Sets(H, Z, U, s), q \in Operation, r \in Operation,
         r.op = q.op, r.keys = q.keys, Shape(q, H, Z, U, s), q.pc = "excess",
         r.pc \in {"zadd", "scan", "pop"}, r.pc = "zadd" => r.excess <= Tolerance,
         Cardinality(H \cap q.seen) <= MaxEntries + r.excess
  PROVE  Shape(r, H, Z, U, s)
<1>1. Suits(r)
  BY DEF Shape, Suits
<1>2. Traced(r, H, Z, U)
  BY <1>1 DEF Shape, Suits, Prepared, Traced, Removing, Incoming, Tracing
<1>3. H \cap q.seen = H
  BY DEF Shape, Traced
<1>4. Cardinality(H) <= MaxEntries + r.excess
  BY <1>3
<1>5. r.pc = "zadd" => Cardinality(H) <= MaxEntries + Tolerance + s
  BY <1>4, KeysFinite DEF Sets, Operation
<1>6. Bounded(r, H, s)
  BY <1>4, <1>5 DEF Shape, Bounded
<1>7. Shrinks(q, H, Z, U, r, H, Z, U)
  BY DEF Shrinks, DeadHits, DeadUpdates, Unhit, Removing, Incoming, Tracing
<1>8. s <= s
  BY DEF Sets
<1> QED BY <1>1, <1>2, <1>6, <1>7, <1>8, Settled

\* After the victims have been taken, the keys that remain are few enough (Pop): as many
\* victims as keys in excess, but for dead traces; or all the traced ones.
LEMMA PopCount ==
  ASSUME NEW H, NEW Z, NEW S, NEW e \in Nat, NEW s \in Nat,
         H \in SUBSET CacheKeys, Z \in SUBSET CacheKeys, S \in SUBSET Z,
         Cardinality(S) = IF e < Cardinality(Z) THEN e ELSE Cardinality(Z),
         Cardinality(H) <= MaxEntries + e, Cardinality(Z \ H) <= s, Cardinality(H \ Z) <= s
  PROVE  Cardinality(H \ S) <= MaxEntries + s
<1>1. CASE Cardinality(S) = e
  <2>1. Cardinality(S \ H) <= s
    <3>1. S \ H \in SUBSET CacheKeys /\ Z \ H \in SUBSET CacheKeys /\ S \ H \subseteq Z \ H
      OBVIOUS
    <3> QED BY <3>1, Smaller
  <2> QED BY <1>1, <2>1, Evicted
<1>2. CASE Cardinality(S) = Cardinality(Z)
  <2>1. S = Z
    BY <1>2, KeysFinite, FS_Subset
  <2>2. Cardinality(H \ Z) \in Nat
    BY KeysFinite
  <2> QED BY <2>1, <2>2
<1> QED BY <1>1, <1>2

\* The least read keys are taken out of hits (Pop).
LEMMA PopHitsShape ==
  ASSUME NEW q, NEW r, NEW H, NEW Z, NEW U, NEW s, NEW S \in SUBSET Z, Sets(H, Z, U, s), Goes(q, r),
         Shape(q, H, Z, U, s), q.pc = "pop", r.pc = IF S = {} THEN "zadd" ELSE "drop", r.drop = S,
         Cardinality(S) = IF q.excess < Cardinality(Z) THEN q.excess ELSE Cardinality(Z)
  PROVE  Shape(r, H, Z \ S, U, s)
<1>1. q.op \in Prepared /\ Suits(r)
  BY DEF Shape, Suits, Goes
<1>2. Traced(r, H, Z \ S, U)
  BY <1>1 DEF Shape, Prepared, Traced, Removing, Incoming, Tracing, Goes
<1>3. /\ Cardinality(H) <= MaxEntries + q.excess
      /\ Cardinality(Z \ H) <= s /\ Cardinality(H \ Z) <= s
  <2>1. DeadHits(q, H, Z) = Z \ H /\ Unhit(q, H, Z) = H \ Z
    BY DEF DeadHits, Unhit, Removing, Incoming, Tracing
  <2> QED BY <1>1, <2>1 DEF Shape, Bounded
<1>4. Cardinality(H \ S) <= MaxEntries + s
  BY <1>3, PopCount DEF Sets, Goes, Operation
<1>6. S = {} => Cardinality(H) <= MaxEntries + Tolerance + s
  <2>1. S = {} => H \ S = H
    OBVIOUS
  <2>2. Cardinality(H) \in Nat /\ s \in Nat
    BY KeysFinite DEF Sets
  <2> QED BY <1>4, <2>1, <2>2
<1>7. Bounded(r, H, s)
  BY <1>4, <1>6 DEF Shape, Bounded
<1>8. Shrinks(q, H, Z, U, r, H, Z \ S, U)
  BY <1>1 DEF Shrinks, DeadHits, DeadUpdates, Unhit, Removing, Incoming, Tracing, Prepared, Goes
<1>9. s <= s /\ Sets(H, Z \ S, U, s)
  BY DEF Sets
<1> QED BY <1>1, <1>2, <1>7, <1>8, <1>9, Settled DEF Goes

\* The keys written longest ago are taken out of updates (Pop).
LEMMA PopUpdatesShape ==
  ASSUME NEW q, NEW r, NEW H, NEW Z, NEW U, NEW s, NEW S \in SUBSET U, Sets(H, Z, U, s), Goes(q, r),
         Shape(q, H, Z, U, s), q.pc = "pop", r.pc = IF S = {} THEN "zadd" ELSE "drop", r.drop = S,
         Cardinality(S) = IF q.excess < Cardinality(U) THEN q.excess ELSE Cardinality(U)
  PROVE  Shape(r, H, Z, U \ S, s)
<1>1. q.op \in Prepared /\ Suits(r)
  BY DEF Shape, Suits, Goes
<1>2. Traced(r, H, Z, U \ S)
  BY <1>1 DEF Shape, Prepared, Traced, Removing, Incoming, Tracing, Goes
<1>3. Cardinality(H) <= MaxEntries + q.excess /\ Cardinality(U \ H) <= s /\ Cardinality(H \ U) <= s
  <2>1. DeadUpdates(q, H, U) = U \ H
    BY DEF DeadUpdates, Removing, Incoming, Tracing
  <2>2. H \ U = {}
    BY DEF Shape, Traced, Removing, Tracing
  <2>3. Cardinality(H \ U) = 0
    BY <2>2, FS_EmptySet
  <2> QED BY <1>1, <2>1, <2>3 DEF Shape, Bounded, Sets
<1>4. Cardinality(H \ S) <= MaxEntries + s
  BY <1>3, PopCount DEF Sets, Goes, Operation
<1>6. S = {} => Cardinality(H) <= MaxEntries + Tolerance + s
  <2>1. S = {} => H \ S = H
    OBVIOUS
  <2>2. Cardinality(H) \in Nat /\ s \in Nat
    BY KeysFinite DEF Sets
  <2> QED BY <1>4, <2>1, <2>2
<1>7. Bounded(r, H, s)
  BY <1>4, <1>6 DEF Shape, Bounded
<1>8. Shrinks(q, H, Z, U, r, H, Z, U \ S)
  BY <1>1 DEF Shrinks, DeadHits, DeadUpdates, Unhit, Removing, Incoming, Tracing, Prepared, Goes
<1>9. s <= s /\ Sets(H, Z, U \ S, s)
  BY DEF Sets
<1> QED BY <1>1, <1>2, <1>7, <1>8, <1>9, Settled DEF Goes

\* keys(), which RANDOM calls too, and clear read the traced keys (Scan).
LEMMA ScanShape ==
  ASSUME NEW q, NEW r, NEW H, NEW Z, NEW U, NEW s, Sets(H, Z, U, s), Goes(q, r),
         Shape(q, H, Z, U, s), q.pc = "scan", r.seen = U,
         r.pc = IF q.op = "clear" THEN "clear" ELSE "misses"
  PROVE  Shape(r, H, Z, U, s)
<1>1. Suits(r)
  BY DEF Shape, Suits, Goes, Prepared
<1>2. Traced(r, H, Z, U) /\ Bounded(r, H, s)
  BY DEF Shape, Traced, Bounded, Removing, Incoming, Tracing, Goes, Prepared
<1>3. Shrinks(q, H, Z, U, r, H, Z, U)
  BY DEF Shrinks, DeadHits, DeadUpdates, Unhit, Removing, Incoming, Tracing
<1>4. s <= s
  BY DEF Sets
<1> QED BY <1>1, <1>2, <1>3, <1>4, Settled DEF Goes

\* The traced keys that do not exist are told from the others (Misses).
LEMMA MissesShape ==
  ASSUME NEW q, NEW r, NEW H, NEW Z, NEW U, NEW s, Sets(H, Z, U, s), Goes(q, r),
         Shape(q, H, Z, U, s), q.pc = "misses", r.pc = "forget",
         r.seen = q.seen \cap H, r.drop = q.seen \ H
  PROVE  Shape(r, H, Z, U, s)
<1>1. Suits(r)
  BY DEF Shape, Suits, Goes
<1>2. Traced(r, H, Z, U)
  BY DEF Shape, Traced, Removing, Incoming, Tracing, Goes
<1>3. H \cup r.seen = H
  OBVIOUS
<1>4. Bounded(r, H, s)
  BY <1>3 DEF Shape, Bounded, Goes
<1>5. Shrinks(q, H, Z, U, r, H, Z, U)
  BY DEF Shrinks, DeadHits, DeadUpdates, Unhit, Removing, Incoming, Tracing
<1>6. s <= s
  BY DEF Sets
<1> QED BY <1>1, <1>2, <1>4, <1>5, <1>6, Settled DEF Goes

\* They are taken out of hits (Forget).
LEMMA ForgetShape ==
  ASSUME NEW q, NEW r, NEW H, NEW Z, NEW U, NEW s, Sets(H, Z, U, s), Goes(q, r),
         r.seen = q.seen, r.drop = q.drop,
         Shape(q, H, Z, U, s), q.pc = "forget", r.pc = "forgetu"
  PROVE  Shape(r, H, Z \ q.drop, U, s)
<1>1. Suits(r)
  BY DEF Shape, Suits, Goes
<1>2. Traced(r, H, Z \ q.drop, U) /\ Bounded(r, H, s)
  BY DEF Shape, Traced, Bounded, Removing, Incoming, Tracing, Goes
<1>3. Shrinks(q, H, Z, U, r, H, Z \ q.drop, U)
  BY DEF Shape, Traced, Shrinks, DeadHits, DeadUpdates, Unhit, Removing, Incoming, Tracing
<1>4. s <= s /\ Sets(H, Z \ q.drop, U, s)
  BY DEF Sets
<1> QED BY <1>1, <1>2, <1>3, <1>4, Settled DEF Goes

\* And out of updates; an eviction then picks among the others (ForgetUpdates).
LEMMA ForgetUpdatesShape ==
  ASSUME NEW q, NEW r, NEW H, NEW Z, NEW U, NEW s, Sets(H, Z, U, s), Goes(q, r),
         r.seen = q.seen, r.drop = q.drop, Shape(q, H, Z, U, s), q.pc = "forgetu",
         r.pc = IF q.op = "keys" THEN "idle" ELSE "pick"
  PROVE  Shape(r, H, Z, U \ q.drop, s)
<1>1. Suits(r)
  BY DEF Shape, Suits, Goes, Prepared
<1>2. Traced(r, H, Z, U \ q.drop) /\ Bounded(r, H, s)
  BY DEF Shape, Traced, Bounded, Removing, Incoming, Tracing, Goes
<1>3. Shrinks(q, H, Z, U, r, H, Z, U \ q.drop)
  BY DEF Shape, Traced, Shrinks, DeadHits, DeadUpdates, Unhit, Removing, Incoming, Tracing
<1>4. s <= s /\ Sets(H, Z, U \ q.drop, s)
  BY DEF Sets
<1> QED BY <1>1, <1>2, <1>3, <1>4, Settled DEF Goes

\* RANDOM picks its victims; those drawn twice are in slack (Pick).
LEMMA PickShape ==
  ASSUME NEW q, NEW r, NEW H, NEW Z, NEW U, NEW s, NEW S \in SUBSET q.seen, Sets(H, Z, U, s), Goes(q, r),
         Shape(q, H, Z, U, s), q.pc = "pick", r.pc = "drop", r.drop = S,
         Cardinality(S) <= q.excess
  PROVE  Shape(r, H, Z, U, s + q.excess - Cardinality(S))
<1> DEFINE s1 == s + q.excess - Cardinality(S)
           B  == H \cup q.seen
<1>1. q.op \in Prepared /\ Suits(r)
  BY DEF Shape, Suits, Goes
<1>2. Traced(r, H, Z, U)
  BY <1>1 DEF Shape, Prepared, Traced, Removing, Incoming, Tracing, Goes
<1>3. /\ H \in SUBSET CacheKeys /\ B \in SUBSET CacheKeys /\ S \in SUBSET CacheKeys
      /\ H \ S \in SUBSET CacheKeys /\ B \ S \in SUBSET CacheKeys
      /\ s \in Nat /\ q.excess \in Nat /\ Cardinality(S) \in Nat
  BY KeysFinite DEF Sets, Goes, Operation
<1>4. s1 \in Nat /\ s <= s1 /\ q.excess <= s1 + Cardinality(S)
  BY <1>3
<1>5. Cardinality(B) <= MaxEntries + q.excess
  BY <1>1 DEF Shape, Bounded
<1>6. Cardinality(B \ S) <= MaxEntries + q.excess - Cardinality(S)
  <2>1. Cardinality(B \ S) = Cardinality(B) - Cardinality(B \cap S)
    BY <1>3, KeysFinite, FS_Difference
  <2>2. Cardinality(B \cap S) = Cardinality(S)
    <3>1. B \cap S = S
      OBVIOUS
    <3> QED BY <3>1
  <2>3. Cardinality(B) \in Nat /\ Cardinality(B \ S) \in Nat
    BY <1>3, KeysFinite
  <2> HIDE DEF B
  <2> QED BY <1>3, <1>5, <2>1, <2>2, <2>3
<1>7. Cardinality(H \ S) <= MaxEntries + s1
  <2>1. H \ S \subseteq B \ S
    OBVIOUS
  <2>2. Cardinality(B \ S) <= MaxEntries + s1
    BY <1>3, <1>4, <1>6, KeysFinite
  <2> QED BY <1>3, <1>4, <2>1, <2>2, Smaller
<1>8. Cardinality(H) <= MaxEntries + Tolerance + BatchSize + s1
  BY <1>3, <1>4, KeysFinite DEF Shape, Bounded
<1>9. Sets(H, Z, U, s1)
  BY <1>4 DEF Sets
<1> HIDE DEF s1, B
<1>10. Bounded(r, H, s1)
  BY <1>7, <1>8 DEF Bounded
<1>11. Shrinks(q, H, Z, U, r, H, Z, U)
  BY <1>1 DEF Shrinks, DeadHits, DeadUpdates, Unhit, Removing, Incoming, Tracing, Prepared, Goes
<1>12. Shape(r, H, Z, U, s1)
  BY <1>1, <1>2, <1>4, <1>9, <1>10, <1>11, Settled DEF Goes
<1> QED BY <1>12 DEF s1

\* The victims cease to exist (Drop).
LEMMA DropShape ==
  ASSUME NEW q, NEW r, NEW H, NEW Z, NEW U, NEW s, Sets(H, Z, U, s), Goes(q, r), Shape(q, H, Z, U, s),
         q.pc = "drop", r.pc = "droph", r.drop = q.drop
  PROVE  Shape(r, H \ Removing(q), Z, U, s)
<1>1. Suits(r)
  BY DEF Shape, Suits, Goes, Prepared
<1>2. Traced(r, H \ Removing(q), Z, U)
  BY DEF Shape, Suits, Traced, Removing, Incoming, Tracing, Goes, Prepared, Sets
<1>3. Bounded(r, H \ Removing(q), s)
  <2>1. H \ Removing(q) \in SUBSET CacheKeys /\ H \in SUBSET CacheKeys /\ H \ Removing(q) \subseteq H /\ s \in Nat
    BY DEF Sets
  <2>2. Cardinality(H) <= MaxEntries + Tolerance + BatchSize + s
    BY DEF Shape, Bounded
  <2>3. Cardinality(H \ Removing(q)) <= MaxEntries + Tolerance + BatchSize + s
    BY <2>1, <2>2, Smaller
  <2>4. q.op \in Prepared => Cardinality(H \ Removing(q)) <= MaxEntries + s
    BY DEF Shape, Bounded, Removing, Prepared
  <2> QED BY <2>3, <2>4 DEF Bounded, Goes
<1>4. Shrinks(q, H, Z, U, r, H \ Removing(q), Z, U)
  BY DEF Shape, Suits, Traced, Shrinks, DeadHits, DeadUpdates, Unhit, Removing, Incoming, Tracing, Prepared, Goes
<1>5. s <= s /\ Sets(H \ Removing(q), Z, U, s)
  BY DEF Sets, Goes, Operation
<1> QED BY <1>1, <1>2, <1>3, <1>4, <1>5, Settled DEF Goes

\* Their hits go (DropHits).
LEMMA DropHitsShape ==
  ASSUME NEW q, NEW r, NEW H, NEW Z, NEW U, NEW s, Sets(H, Z, U, s), Goes(q, r), Shape(q, H, Z, U, s),
         q.pc = "droph", r.pc = "dropu", r.drop = q.drop
  PROVE  Shape(r, H, Z \ Removing(q), U, s)
<1>1. Suits(r)
  BY DEF Shape, Suits, Goes, Prepared
<1>2. Traced(r, H, Z \ Removing(q), U)
  BY DEF Shape, Suits, Traced, Removing, Incoming, Tracing, Goes, Prepared, Sets
<1>3. Bounded(r, H, s)
  BY <1>1 DEF Shape, Bounded, Goes, Prepared
<1>4. Shrinks(q, H, Z, U, r, H, Z \ Removing(q), U)
  BY DEF Shape, Suits, Traced, Shrinks, DeadHits, DeadUpdates, Unhit, Removing, Incoming, Tracing, Prepared, Goes
<1>5. s <= s /\ Sets(H, Z \ Removing(q), U, s)
  BY DEF Sets, Goes, Operation
<1> QED BY <1>1, <1>2, <1>3, <1>4, <1>5, Settled DEF Goes

\* Their updates go, and an eviction is over (DropUpdates).
LEMMA DropUpdatesShape ==
  ASSUME NEW q, NEW r, NEW H, NEW Z, NEW U, NEW s, Sets(H, Z, U, s), Goes(q, r), Shape(q, H, Z, U, s),
         q.pc = "dropu", r.pc = IF q.op = "delete" THEN "idle" ELSE "zadd"
  PROVE  Shape(r, H, Z, U \ Removing(q), s)
<1>1. Suits(r)
  BY DEF Shape, Suits, Goes, Prepared
<1>2. Traced(r, H, Z, U \ Removing(q))
  BY DEF Shape, Suits, Traced, Removing, Incoming, Tracing, Goes, Prepared, Sets
<1>3. Bounded(r, H, s)
  <2>1. Cardinality(H) \in Nat /\ s \in Nat
    BY KeysFinite DEF Sets
  <2> QED BY <2>1 DEF Shape, Bounded, Goes
<1>4. Shrinks(q, H, Z, U, r, H, Z, U \ Removing(q))
  BY DEF Shape, Suits, Traced, Shrinks, DeadHits, DeadUpdates, Unhit, Removing, Incoming, Tracing, Prepared, Goes
<1>5. s <= s /\ Sets(H, Z, U \ Removing(q), s)
  BY DEF Sets, Goes, Operation
<1> QED BY <1>1, <1>2, <1>3, <1>4, <1>5, Settled DEF Goes

\* New keys are traced before they are written: in hits (AddHits),
LEMMA AddHitsShape ==
  ASSUME NEW q, NEW r, NEW H, NEW Z, NEW U, NEW s, Sets(H, Z, U, s), Goes(q, r), Shape(q, H, Z, U, s),
         q.pc = "zadd", r.pc = "zaddu"
  PROVE  Shape(r, H, Z \cup q.keys, U, s)
<1>1. Suits(r)
  BY DEF Shape, Suits, Goes, Prepared
<1>2. Traced(r, H, Z \cup q.keys, U)
  BY DEF Shape, Suits, Traced, Removing, Incoming, Tracing, Goes, Prepared, Sets
<1>3. Bounded(r, H, s)
  BY <1>1 DEF Shape, Bounded, Goes, Prepared
<1>4. Shrinks(q, H, Z, U, r, H, Z \cup q.keys, U)
  BY DEF Shape, Suits, Traced, Shrinks, DeadHits, DeadUpdates, Unhit, Removing, Incoming, Tracing, Prepared, Goes
<1>5. s <= s /\ Sets(H, Z \cup q.keys, U, s)
  BY DEF Sets, Goes, Operation
<1> QED BY <1>1, <1>2, <1>3, <1>4, <1>5, Settled DEF Goes

\* and in updates (AddUpdates).
LEMMA AddUpdatesShape ==
  ASSUME NEW q, NEW r, NEW H, NEW Z, NEW U, NEW s, Sets(H, Z, U, s), Goes(q, r), Shape(q, H, Z, U, s),
         q.pc = "zaddu", r.pc = "write", q.op \in Prepared
  PROVE  Shape(r, H, Z, U \cup q.keys, s)
<1>1. Suits(r)
  BY DEF Shape, Suits, Goes, Prepared
<1>2. Traced(r, H, Z, U \cup q.keys)
  BY DEF Shape, Suits, Traced, Removing, Incoming, Tracing, Goes, Prepared, Sets
<1>3. Bounded(r, H, s)
  BY <1>1 DEF Shape, Bounded, Goes, Prepared
<1>4. Shrinks(q, H, Z, U, r, H, Z, U \cup q.keys)
  BY DEF Shape, Suits, Traced, Shrinks, DeadHits, DeadUpdates, Unhit, Removing, Incoming, Tracing, Prepared, Goes
<1>5. s <= s /\ Sets(H, Z, U \cup q.keys, s)
  BY DEF Sets, Goes, Operation
<1> QED BY <1>1, <1>2, <1>3, <1>4, <1>5, Settled DEF Goes

\* A key that was pushed is traced afterwards (Pushed).
LEMMA PushedShape ==
  ASSUME NEW q, NEW r, NEW H, NEW Z, NEW U, NEW s, Sets(H, Z, U, s), Goes(q, r), Shape(q, H, Z, U, s),
         q.pc = "pushed", r.pc = "idle"
  PROVE  Shape(r, H, Z, U \cup q.keys, s)
<1>1. Suits(r)
  BY DEF Shape, Suits, Goes, Prepared
<1>2. Traced(r, H, Z, U \cup q.keys)
  BY DEF Shape, Suits, Traced, Removing, Incoming, Tracing, Goes, Prepared, Sets
<1>3. Bounded(r, H, s)
  BY <1>1 DEF Shape, Bounded, Goes, Prepared
<1>4. Shrinks(q, H, Z, U, r, H, Z, U \cup q.keys)
  BY DEF Shape, Suits, Traced, Shrinks, DeadHits, DeadUpdates, Unhit, Removing, Incoming, Tracing, Prepared, Goes
<1>5. s <= s /\ Sets(H, Z, U \cup q.keys, s)
  BY DEF Sets, Goes, Operation
<1> QED BY <1>1, <1>2, <1>3, <1>4, <1>5, Settled DEF Goes

\* A key that is there is hit (Get).
LEMMA GetShape ==
  ASSUME NEW q, NEW r, NEW H, NEW Z, NEW U, NEW s, Sets(H, Z, U, s), Goes(q, r), Shape(q, H, Z, U, s),
         q.pc = "get", r.pc = IF q.keys \subseteq H THEN "hit" ELSE "idle"
  PROVE  Shape(r, H, Z, U, s)
<1>1. Suits(r)
  BY DEF Shape, Suits, Goes, Prepared
<1>2. Traced(r, H, Z, U)
  BY DEF Shape, Suits, Traced, Removing, Incoming, Tracing, Goes, Prepared, Sets
<1>3. Bounded(r, H, s)
  BY <1>1 DEF Shape, Suits, Bounded, Goes, Prepared
<1>4. Shrinks(q, H, Z, U, r, H, Z, U)
  BY DEF Shape, Suits, Traced, Shrinks, DeadHits, DeadUpdates, Unhit, Removing, Incoming, Tracing, Prepared, Goes
<1>5. s <= s /\ Sets(H, Z, U, s)
  BY DEF Sets, Goes, Operation
<1> QED BY <1>1, <1>2, <1>3, <1>4, <1>5, Settled DEF Goes

\* The hit is traced (Hit).
LEMMA HitShape ==
  ASSUME NEW q, NEW r, NEW H, NEW Z, NEW U, NEW s, NEW S \in SUBSET q.keys, Sets(H, Z, U, s), Goes(q, r), Shape(q, H, Z, U, s),
         q.pc = "hit", r.pc = "idle"
  PROVE  Shape(r, H, Z \cup S, U, s)
<1>1. Suits(r)
  BY DEF Shape, Suits, Goes, Prepared
<1>2. Traced(r, H, Z \cup S, U)
  BY DEF Shape, Suits, Traced, Removing, Incoming, Tracing, Goes, Prepared, Sets
<1>3. Bounded(r, H, s)
  BY <1>1 DEF Shape, Bounded, Goes, Prepared
<1>4. Shrinks(q, H, Z, U, r, H, Z \cup S, U)
  BY DEF Shape, Suits, Traced, Shrinks, DeadHits, DeadUpdates, Unhit, Removing, Incoming, Tracing, Prepared, Goes
<1>5. s <= s /\ Sets(H, Z \cup S, U, s)
  BY DEF Sets, Goes, Operation
<1> QED BY <1>1, <1>2, <1>3, <1>4, <1>5, Settled DEF Goes

\* One update adds at most its own keys to what the eviction has left (Write, Alter).
LEMMA WriteCount ==
  ASSUME NEW q, NEW H, NEW Z, NEW U, NEW s, NEW T, Sets(H, Z, U, s), q \in Operation,
         Shape(q, H, Z, U, s), q.pc = "write", q.op \in Prepared, T \in SUBSET q.keys
  PROVE  Cardinality(H \cup T) <= MaxEntries + Tolerance + BatchSize + s
<1>1. /\ H \in SUBSET CacheKeys /\ q.keys \in SUBSET CacheKeys /\ H \cup T \in SUBSET CacheKeys
      /\ H \cup T \subseteq H \cup q.keys /\ s \in Nat /\ Cardinality(q.keys) \in Nat
  BY KeysFinite DEF Sets, Operation
<1>2. Cardinality(H) <= MaxEntries + Tolerance + s /\ Cardinality(q.keys) <= BatchSize
  BY DEF Shape, Suits, Bounded
<1>3. MaxEntries + Tolerance + s \in Nat /\ MaxEntries + Tolerance + BatchSize + s \in Nat
  BY <1>1
<1>4. MaxEntries + Tolerance + s + Cardinality(q.keys) <= MaxEntries + Tolerance + BatchSize + s
  BY <1>1, <1>2
<1> QED BY <1>1, <1>2, <1>3, <1>4, Larger

\* The keys of set, update and alter are written (Write, Alter): they are traced, and
\* what exists afterwards is what existed and some of them.
LEMMA WriteShape ==
  ASSUME NEW q, NEW r, NEW H, NEW Z, NEW U, NEW s, NEW T, Sets(H, Z, U, s), Goes(q, r), Shape(q, H, Z, U, s),
         q.pc = "write", q.op \in Prepared, T \in SUBSET q.keys,
         r.pc = "idle" \/ (r.pc = "hit" /\ q.op \in {"alter"} /\ q.keys \subseteq H \cup T),
         q.keys \subseteq H \cup T
  PROVE  Shape(r, H \cup T, Z, U, s)
<1>1. Suits(r)
  BY DEF Shape, Suits, Goes, Prepared
<1>2. Traced(r, H \cup T, Z, U)
  BY DEF Shape, Suits, Traced, Removing, Incoming, Tracing, Goes, Prepared
<1>3. Bounded(r, H \cup T, s)
  BY WriteCount DEF Bounded, Goes, Prepared
<1>4. Shrinks(q, H, Z, U, r, H \cup T, Z, U)
  BY DEF Shape, Suits, Traced, Shrinks, DeadHits, DeadUpdates, Unhit, Removing, Incoming, Tracing, Prepared, Goes
<1>5. s <= s /\ Sets(H \cup T, Z, U, s)
  BY DEF Sets, Goes, Operation
<1> QED BY <1>1, <1>2, <1>3, <1>4, <1>5, Settled DEF Goes

\* Where slack grows by the number of the keys of S, what is out of the count may grow by S.
LEMMA Loosened ==
  ASSUME NEW q, NEW H, NEW Z, NEW U, NEW s, NEW r, NEW H1, NEW Z1, NEW U1, NEW S \in SUBSET CacheKeys,
         q \in Operation, r \in Operation, Sets(H, Z, U, s), Sets(H1, Z1, U1, s), Shape(q, H, Z, U, s),
         DeadHits(r, H1, Z1) \subseteq DeadHits(q, H, Z) \cup S,
         DeadUpdates(r, H1, U1) \subseteq DeadUpdates(q, H, U) \cup S,
         Unhit(r, H1, Z1) \subseteq Unhit(q, H, Z) \cup S,
         Suits(r), Traced(r, H1, Z1, U1), Bounded(r, H1, s + Cardinality(S))
  PROVE  Shape(r, H1, Z1, U1, s + Cardinality(S))
<1>1. /\ DeadHits(r, H1, Z1) \in SUBSET CacheKeys /\ DeadHits(q, H, Z) \in SUBSET CacheKeys
      /\ DeadUpdates(r, H1, U1) \in SUBSET CacheKeys /\ DeadUpdates(q, H, U) \in SUBSET CacheKeys
      /\ Unhit(r, H1, Z1) \in SUBSET CacheKeys /\ Unhit(q, H, Z) \in SUBSET CacheKeys
  BY DEF Sets, DeadHits, DeadUpdates, Unhit, Tracing, Operation
<1>2. s \in Nat /\ Cardinality(S) \in Nat
  BY KeysFinite DEF Sets
<1>3. s + Cardinality(S) \in Nat /\ s + Cardinality(S) <= s + Cardinality(S)
  BY <1>2
<1>4. /\ Cardinality(DeadHits(q, H, Z)) <= s /\ Cardinality(DeadUpdates(q, H, U)) <= s
      /\ Cardinality(Unhit(q, H, Z)) <= s
  BY DEF Shape
<1>5. Cardinality(DeadHits(r, H1, Z1)) <= s + Cardinality(S)
  BY <1>1, <1>2, <1>3, <1>4, Larger
<1>6. Cardinality(DeadUpdates(r, H1, U1)) <= s + Cardinality(S)
  BY <1>1, <1>2, <1>3, <1>4, Larger
<1>7. Cardinality(Unhit(r, H1, Z1)) <= s + Cardinality(S)
  BY <1>1, <1>2, <1>3, <1>4, Larger
<1> QED BY <1>5, <1>6, <1>7 DEF Shape

\* A key that set with xx did not find stays traced, and is in slack (Write).
LEMMA MissedShape ==
  ASSUME NEW q, NEW r, NEW H, NEW Z, NEW U, NEW s, Sets(H, Z, U, s), Goes(q, r), Shape(q, H, Z, U, s),
         q.pc = "write", q.op = "xx", r.pc = "idle"
  PROVE  Shape(r, H, Z, U, s + 1)
<1>1. PICK k \in CacheKeys : q.keys = {k}
  BY DEF Shape, Suits, Goes
<1>2. Suits(r) /\ Traced(r, H, Z, U)
  BY DEF Shape, Suits, Traced, Removing, Incoming, Tracing, Goes, Prepared
<1>3. Cardinality({k}) = 1 /\ {k} \in SUBSET CacheKeys
  BY FS_Singleton
<1>4. Bounded(r, H, s + 1)
  BY KeysFinite DEF Shape, Bounded, Sets
<1>5. /\ DeadHits(r, H, Z) \subseteq DeadHits(q, H, Z) \cup {k}
      /\ DeadUpdates(r, H, U) \subseteq DeadUpdates(q, H, U) \cup {k}
      /\ Unhit(r, H, Z) \subseteq Unhit(q, H, Z) \cup {k}
  BY <1>1 DEF DeadHits, DeadUpdates, Unhit, Removing, Incoming, Tracing
<1>6. s + 1 = s + Cardinality({k})
  BY <1>3
<1> QED BY <1>2, <1>3, <1>4, <1>5, <1>6, Loosened DEF Goes

\* A list is pushed without an eviction, and untraced for a moment; new ones are in slack (Push).
LEMMA PushShape ==
  ASSUME NEW q, NEW r, NEW H, NEW Z, NEW U, NEW s, Sets(H, Z, U, s), Goes(q, r), Shape(q, H, Z, U, s),
         q.pc = "write", q.op = "push", r.pc = "pushed"
  PROVE  Shape(r, H \cup q.keys, Z, U, s + Cardinality(q.keys \ H))
<1> DEFINE S == q.keys \ H
<1>1. S \in SUBSET CacheKeys /\ Sets(H \cup q.keys, Z, U, s)
  BY DEF Goes, Operation, Sets
<1>2. Suits(r) /\ Traced(r, H \cup q.keys, Z, U)
  BY DEF Shape, Suits, Traced, Removing, Incoming, Tracing, Goes, Prepared
<1>3. Bounded(r, H \cup q.keys, s + Cardinality(S))
  <2>1. /\ H \cup q.keys \subseteq H \cup S /\ H \cup q.keys \in SUBSET CacheKeys /\ H \in SUBSET CacheKeys
        /\ s \in Nat /\ Cardinality(S) \in Nat
    BY <1>1, KeysFinite DEF Sets
  <2> HIDE DEF S
  <2>2. /\ MaxEntries + Tolerance + BatchSize + s \in Nat
        /\ MaxEntries + Tolerance + BatchSize + (s + Cardinality(S)) \in Nat
        /\ MaxEntries + Tolerance + BatchSize + s + Cardinality(S)
             <= MaxEntries + Tolerance + BatchSize + (s + Cardinality(S))
    BY <2>1
  <2>3. Cardinality(H) <= MaxEntries + Tolerance + BatchSize + s
    BY DEF Shape, Bounded
  <2>4. Cardinality(H \cup q.keys) <= MaxEntries + Tolerance + BatchSize + (s + Cardinality(S))
    BY <1>1, <2>1, <2>2, <2>3, Larger
  <2> QED BY <2>4 DEF Bounded, Goes, Prepared
<1>4. /\ DeadHits(r, H \cup q.keys, Z) \subseteq DeadHits(q, H, Z) \cup S
      /\ DeadUpdates(r, H \cup q.keys, U) \subseteq DeadUpdates(q, H, U) \cup S
      /\ Unhit(r, H \cup q.keys, Z) \subseteq Unhit(q, H, Z) \cup S
  BY DEF DeadHits, DeadUpdates, Unhit, Removing, Incoming, Tracing, Prepared, Goes
<1> QED BY <1>1, <1>2, <1>3, <1>4, Loosened DEF Goes

\* Nothing is left (Clear).
LEMMA ClearShape ==
  ASSUME NEW q, NEW r, NEW H, NEW Z, NEW U, NEW s, Sets(H, Z, U, s), Goes(q, r), Shape(q, H, Z, U, s),
         q.pc = "clear", r.pc = "idle"
  PROVE  Shape(r, H \ q.seen, {}, {}, s)
<1>1. H \ q.seen = {}
  BY DEF Shape, Traced
<1>2. Suits(r) /\ Traced(r, {}, {}, {})
  BY DEF Shape, Suits, Traced, Removing, Incoming, Tracing
<1>3. Bounded(r, {}, s)
  BY FS_EmptySet DEF Bounded, Sets
<1>4. Shrinks(q, H, Z, U, r, {}, {}, {})
  BY DEF Shrinks, DeadHits, DeadUpdates, Unhit, Removing, Incoming, Tracing
<1>5. s <= s /\ Sets({}, {}, {}, s)
  BY DEF Sets
<1> QED BY <1>1, <1>2, <1>3, <1>4, <1>5, Settled DEF Goes

\* A key expires while any operation is at any command; its traces are in slack (Lapse).
LEMMA LapseShape ==
  ASSUME NEW q \in Operation, NEW H, NEW Z, NEW U, NEW s, NEW k \in CacheKeys, Sets(H, Z, U, s),
         Shape(q, H, Z, U, s)
  PROVE  Shape(q, H \ {k}, Z, U, s + 1)
<1> DEFINE H1 == H \ {k}
<1>1. Cardinality({k}) = 1 /\ {k} \in SUBSET CacheKeys /\ s + 1 = s + Cardinality({k})
  BY FS_Singleton
<1>2. Suits(q) /\ Traced(q, H1, Z, U)
  BY DEF Shape, Traced
<1>3. Sets(H1, Z, U, s)
  BY DEF Sets
<1>4. /\ DeadHits(q, H1, Z) \subseteq DeadHits(q, H, Z) \cup {k}
      /\ DeadUpdates(q, H1, U) \subseteq DeadUpdates(q, H, U) \cup {k}
      /\ Unhit(q, H1, Z) \subseteq Unhit(q, H, Z) \cup {k}
  BY DEF DeadHits, DeadUpdates, Unhit
<1>5. Bounded(q, H1, s + 1)
  <2>1. /\ H \in SUBSET CacheKeys /\ q.seen \in SUBSET CacheKeys /\ q.drop \in SUBSET CacheKeys
        /\ H1 \in SUBSET CacheKeys /\ s \in Nat /\ q.excess \in Nat
    BY DEF Sets, Operation
  <2>2. /\ Cardinality(H1) <= Cardinality(H) /\ Cardinality(H1 \cup q.seen) <= Cardinality(H \cup q.seen)
        /\ Cardinality(H1 \ q.drop) <= Cardinality(H \ q.drop)
    <3>1. H1 \subseteq H /\ H1 \cup q.seen \subseteq H \cup q.seen /\ H1 \ q.drop \subseteq H \ q.drop
      OBVIOUS
    <3>2. IsFiniteSet(H) /\ IsFiniteSet(H \cup q.seen) /\ IsFiniteSet(H \ q.drop)
      BY <2>1, KeysFinite
    <3> HIDE DEF H1
    <3>3. Cardinality(H1) <= Cardinality(H)
      BY <3>1, <3>2, FS_Subset
    <3>4. Cardinality(H1 \cup q.seen) <= Cardinality(H \cup q.seen)
      BY <3>1, <3>2, FS_Subset
    <3>5. Cardinality(H1 \ q.drop) <= Cardinality(H \ q.drop)
      BY <3>1, <3>2, FS_Subset
    <3> QED BY <3>3, <3>4, <3>5
  <2>3. /\ Cardinality(H1) \in Nat /\ Cardinality(H) \in Nat
        /\ Cardinality(H1 \cup q.seen) \in Nat /\ Cardinality(H \cup q.seen) \in Nat
        /\ Cardinality(H1 \ q.drop) \in Nat /\ Cardinality(H \ q.drop) \in Nat
    BY <2>1, KeysFinite
  <2> HIDE DEF H1
  <2> QED BY <2>1, <2>2, <2>3 DEF Shape, Bounded
<1> QED BY <1>1, <1>2, <1>3, <1>4, <1>5, Loosened

-----------------------------------------------------------------------------
(* The invariant *)

\* At the start nobody is busy and nothing is held (CacheInit).
LEMMA CacheInitial == CacheInit => CacheInv
<1> SUFFICES ASSUME CacheInit PROVE CacheInv
  OBVIOUS
<1>1. NoOp \in Operation
  BY DEF NoOp, Operation, Commands
<1>2. CacheTypes1
  <2>1. DOMAIN << >> = {} /\ Sorted(<< >>)
    BY DEF Sorted
  <2>2. hits = << >> /\ updates = << >>
    BY DEF CacheInit
  <2>3. Sorted(hits) /\ Sorted(updates)
    BY <2>1, <2>2
  <2>4. client = [c \in Clients |-> NoOp] /\ NoOp.pc = "idle"
    BY DEF CacheInit, NoOp
  <2>5. /\ client \in [Clients -> Operation]
        /\ \A c \in Clients : client[c].pc \in {"zadd", "zaddu"} => client[c].op \in Prepared
    BY <1>1, <2>4
  <2>6. policy \in {"LFU", "LRU", "RANDOM"} \cap Policies
    BY DEF CacheInit
  <2> QED BY <2>3, <2>5, <2>6 DEF CacheInit, CacheTypes1
<1>3. Held = {} /\ DOMAIN hits = {} /\ DOMAIN updates = {} /\ slack = 0
  BY DEF CacheInit, Held
<1>4. OneBusy
  BY DEF CacheInit, OneBusy, At, NoOp
<1>5. \A c \in Clients : Shape(client[c], {}, {}, {}, 0)
  <2>1. Cardinality({}) = 0
    BY FS_EmptySet
  <2>2. ASSUME NEW q, q.pc = "idle" PROVE Shape(q, {}, {}, {}, 0)
    <3>1. Suits(q) /\ Traced(q, {}, {}, {})
      BY <2>2 DEF Suits, Traced, Removing, Incoming, Tracing
    <3>2. Bounded(q, {}, 0)
      BY <2>1, <2>2 DEF Bounded
    <3>3. DeadHits(q, {}, {}) = {} /\ DeadUpdates(q, {}, {}) = {} /\ Unhit(q, {}, {}) = {}
      BY <2>2 DEF DeadHits, DeadUpdates, Unhit, Removing, Incoming, Tracing
    <3> QED BY <2>1, <3>1, <3>2, <3>3 DEF Shape
  <2>3. \A c \in Clients : client[c].pc = "idle"
    BY DEF CacheInit, NoOp
  <2> QED BY <2>2, <2>3
<1>6. \A c \in Clients : Suits(client[c])
  BY <1>5 DEF Shape
<1> QED BY <1>2, <1>3, <1>4, <1>5, <1>6, TypesNamed DEF CacheInv

\* A step of client c, whose operation becomes r.
Advances(c, r) == r \in Operation /\ Goes(client[c], r) /\ client' = [client EXCEPT ![c] = r]

\* The parts of the type invariant after a step, named.
LEMMA TypesNamedNext == CacheTypeOK' <=> CacheTypes1'
BY TypesNamed, PTL

\* What the cache holds are keys.
LEMMA HeldSets == ASSUME CacheTypes1 PROVE Sets(Held, DOMAIN hits, DOMAIN updates, slack)
BY DEF CacheTypes1, Sorted, Sets, Held

\* A client that goes on to another command keeps the rest of its operation (Go).
LEMMA GoAdvances ==
  ASSUME CacheTypes1, NEW c \in Clients, NEW pc \in Commands, Go(c, pc)
  PROVE  \E r : Advances(c, r) /\ r.pc = pc /\ r.seen = client[c].seen /\ r.drop = client[c].drop
<1> DEFINE r == [client[c] EXCEPT !.pc = pc]
<1>1. client[c] \in Operation
  BY DEF CacheTypes1
<1>2. /\ r \in Operation /\ Goes(client[c], r) /\ r.pc = pc
      /\ r.seen = client[c].seen /\ r.drop = client[c].drop
  BY <1>1 DEF Operation, Goes
<1>3. client' = [client EXCEPT ![c] = r]
  BY DEF Go
<1> HIDE DEF r
<1> QED BY <1>2, <1>3 DEF Advances

\* The invariant holds after a step of a client that was busy, if it holds of that client.
LEMMA Acted ==
  ASSUME CacheInv, NEW c \in Clients, ~At(c, "idle"), NEW r \in Operation,
         client' = [client EXCEPT ![c] = r], Suits(r),
         val' \in [CacheKeys -> Nat], Sorted(hits'), Sorted(updates'), slack' \in Nat,
         UNCHANGED <<policy, ops, lapsed, mixed>>,
         Shape(client[c], Held, DOMAIN hits, DOMAIN updates, slack) =>
           Shape(r, Held', DOMAIN hits', DOMAIN updates', slack')
  PROVE  CacheInv'
<1>1. CacheTypes1
  BY TypesNamed DEF CacheInv
<1>2. client' \in [Clients -> Operation] /\ client'[c] = r /\ \A d \in Clients \ {c} : client'[d] = client[d]
  BY <1>1 DEF CacheTypes1
<1>3. CacheTypes1' /\ \A d \in Clients : Suits(client'[d])
  <2>1. \A d \in Clients : Suits(client'[d])
    BY <1>2 DEF CacheInv
  <2>2. \A d \in Clients : client'[d].pc \in {"zadd", "zaddu"} => client'[d].op \in Prepared
    BY <2>1 DEF Suits
  <2> QED BY <1>1, <1>2, <2>1, <2>2 DEF CacheTypes1
<1>4. OneBusy'
  BY <1>2 DEF CacheInv, OneBusy, At
<1>5. ASSUME ~mixed', NEW d \in Clients, Others(d)'
      PROVE  Shape(client[d], Held, DOMAIN hits, DOMAIN updates, slack)'
  <2>1. ~mixed /\ Others(c)
    BY <1>5 DEF CacheInv, OneBusy, Others
  <2>2. Shape(r, Held', DOMAIN hits', DOMAIN updates', slack')
    BY <2>1 DEF CacheInv
  <2>3. CASE d = c
    BY <1>2, <2>2, <2>3
  <2>4. CASE d # c
    <3>1. r.pc = "idle"
      BY <1>2, <1>5, <2>4 DEF Others, At
    <3>2. client'[d].pc = "idle"
      BY <1>2, <2>1, <2>4 DEF Others, At
    <3> QED BY <2>2, <3>1, <3>2, IdleShape
  <2> QED BY <2>3, <2>4
<1> QED BY <1>3, <1>4, <1>5, TypesNamedNext DEF CacheInv

\* The invariant holds after a client has begun an operation.
LEMMA Begun ==
  ASSUME CacheInv, NEW c \in Clients, NEW op, NEW S \in SUBSET CacheKeys, NEW pc,
         Begin(c, op, S, pc), [NoOp EXCEPT !.pc = pc, !.op = op, !.keys = S] \in Operation,
         pc \in {"count", "get", "drop", "scan", "write"},
         pc = "count" => op \in Prepared /\ Cardinality(S) <= BatchSize,
         pc = "get" => op = "get", pc = "drop" => op = "delete",
         pc = "scan" => op \in {"keys", "clear"}, pc = "write" => op = "push",
         op \in {"nx", "xx", "alter", "push"} => \E k \in CacheKeys : S = {k}
  PROVE  CacheInv'
<1> DEFINE r == [NoOp EXCEPT !.pc = pc, !.op = op, !.keys = S]
<1>1. CacheTypes1
  BY TypesNamed DEF CacheInv
<1>2. r \in Operation /\ r.pc = pc /\ r.op = op /\ r.keys = S
  BY DEF NoOp
<1>3. /\ At(c, "idle") /\ ops' = ops + 1 /\ client' = [client EXCEPT ![c] = r]
      /\ mixed' = (mixed \/ \E d \in Clients \ {c} : ~At(d, "idle"))
      /\ UNCHANGED <<policy, val, hits, updates, slack, lapsed>>
  BY DEF Begin
<1> HIDE DEF r
<1>4. client' \in [Clients -> Operation] /\ client'[c] = r /\ \A d \in Clients \ {c} : client'[d] = client[d]
  BY <1>1, <1>2, <1>3 DEF CacheTypes1
<1>5. CacheTypes1' /\ \A d \in Clients : Suits(client'[d])
  <2>1. mixed' \in BOOLEAN /\ ops' \in Nat
    BY <1>1, <1>3 DEF CacheTypes1
  <2>2. Suits(r)
    BY <1>2 DEF Suits, Prepared
  <2>3. \A d \in Clients : Suits(client'[d])
    BY <1>4, <2>2 DEF CacheInv
  <2> QED BY <1>1, <1>2, <1>3, <1>4, <2>1, <2>3 DEF CacheTypes1
<1>6. ~mixed' => ~mixed /\ Others(c)
  BY <1>3 DEF Others
<1>7. OneBusy'
  BY <1>4, <1>6 DEF OneBusy, At, Others
<1>8. ASSUME ~mixed', NEW d \in Clients, Others(d)'
      PROVE  Shape(client[d], Held, DOMAIN hits, DOMAIN updates, slack)'
  <2>1. Held' = Held
    BY <1>3 DEF Held
  <2>2. Shape(client[c], Held, DOMAIN hits, DOMAIN updates, slack)
    BY <1>6, <1>8 DEF CacheInv
  <2>3. client[c] \in Operation /\ client[c].pc = "idle"
    BY <1>1, <1>3 DEF At, CacheTypes1
  <2>4. Shape(r, Held, DOMAIN hits, DOMAIN updates, slack)
    BY <1>1, <1>2, <2>2, <2>3, HeldSets, BeginShape
  <2>5. CASE d = c
    BY <1>3, <1>4, <2>1, <2>4, <2>5
  <2>6. CASE d # c
    <3>1. r.pc = "idle"
      BY <1>4, <1>8, <2>6 DEF Others, At
    <3> QED BY <1>2, <3>1
  <2> QED BY <2>5, <2>6
<1> QED BY <1>5, <1>7, <1>8, TypesNamedNext DEF CacheInv

\* The invariant of one busy client, named for the steps below.
Busy(c, pc) == /\ CacheTypes1 /\ Sets(Held, DOMAIN hits, DOMAIN updates, slack)
               /\ client[c] \in Operation /\ Suits(client[c]) /\ client[c].pc = pc /\ ~At(c, "idle")

\* A client at a command is busy (At).
LEMMA IsBusy ==
  ASSUME CacheInv, NEW c \in Clients, NEW pc \in Commands \ {"idle"}, At(c, pc)
  PROVE  Busy(c, pc)
BY TypesNamed, HeldSets DEF CacheInv, CacheTypes1, At, Busy

\* A step that leaves what exists and the traces alone needs only the shape of the operation.
LEMMA Unmoved ==
  ASSUME CacheInv, NEW c \in Clients, NEW r \in Operation, client' = [client EXCEPT ![c] = r], ~At(c, "idle"),
         Suits(r), Quiet, UNCHANGED <<val, hits, updates>>,
         Shape(client[c], Held, DOMAIN hits, DOMAIN updates, slack) =>
           Shape(r, Held, DOMAIN hits, DOMAIN updates, slack)
  PROVE  CacheInv'
<1>1. CacheTypes1
  BY TypesNamed DEF CacheInv
<1>2. Held' = Held
  BY DEF Held
<1>3. /\ val' = val /\ hits' = hits /\ updates' = updates /\ slack' = slack
      /\ UNCHANGED <<policy, ops, lapsed, mixed>>
  BY DEF Quiet
<1>4. val' \in [CacheKeys -> Nat] /\ Sorted(hits') /\ Sorted(updates') /\ slack' \in Nat
  BY <1>1, <1>3 DEF CacheTypes1
<1>5. Shape(client[c], Held, DOMAIN hits, DOMAIN updates, slack) =>
        Shape(r, Held', DOMAIN hits', DOMAIN updates', slack')
  BY <1>2, <1>3
<1> QED BY <1>3, <1>4, <1>5, Acted

\* The invariant is kept when prepare reads the traced keys.
LEMMA TraceStep == ASSUME CacheInv, NEW c \in Clients, Trace(c) PROVE CacheInv'
<1>1. Busy(c, "count")
  BY IsBusy DEF Trace, Commands
<1>2. PICK r : Advances(c, r) /\ r.pc = "excess" /\ r.seen = DOMAIN updates
  <2> DEFINE r == [client[c] EXCEPT !.pc = "excess", !.seen = DOMAIN updates]
  <2>1. r \in Operation /\ Goes(client[c], r) /\ r.pc = "excess" /\ r.seen = DOMAIN updates
    BY <1>1 DEF Busy, Operation, Commands, Goes, Sets, Held
  <2>2. client' = [client EXCEPT ![c] = r]
    BY DEF Trace
  <2> HIDE DEF r
  <2> QED BY <2>1, <2>2 DEF Advances
<1>3. Quiet /\ UNCHANGED <<val, hits, updates>>
  BY DEF Trace
<1>4. Suits(r)
  BY <1>1, <1>2 DEF Busy, Suits, Advances, Goes, Prepared
<1>5. Shape(client[c], Held, DOMAIN hits, DOMAIN updates, slack) =>
        Shape(r, Held, DOMAIN hits, DOMAIN updates, slack)
  BY <1>1, <1>2, TraceShape DEF Busy, Advances
<1> QED BY <1>1, <1>2, <1>3, <1>4, <1>5, Unmoved DEF Busy, Advances

\* The invariant is kept when prepare counts those that exist and chooses what to do.
LEMMA ExcessStep == ASSUME CacheInv, NEW c \in Clients, CountExcess(c) PROVE CacheInv'
<1>1. Busy(c, "excess")
  BY IsBusy DEF CountExcess, Commands
<1> DEFINE e == Excess(client[c].seen, client[c].keys)
<1>2. e \in Nat /\ Cardinality(Held \cap client[c].seen) <= MaxEntries + e
  <2>1. Held \cap client[c].seen \in SUBSET CacheKeys /\ Held \cap client[c].keys \in SUBSET CacheKeys
    BY DEF Held
  <2>2. Cardinality(Held \cap client[c].seen) \in Nat /\ Cardinality(Held \cap client[c].keys) \in Nat
    BY <2>1, KeysFinite
  <2> QED BY <2>2 DEF Excess
<1>3. /\ Quiet /\ UNCHANGED <<val, hits, updates>>
      /\ client' = [client EXCEPT ![c].excess = e,
                      ![c].pc = IF e <= Tolerance THEN "zadd" ELSE IF policy = "RANDOM" THEN "scan" ELSE "pop"]
  BY DEF CountExcess
<1> HIDE DEF e
<1>4. PICK r \in Operation :
        /\ client' = [client EXCEPT ![c] = r] /\ r.op = client[c].op /\ r.keys = client[c].keys /\ r.excess = e
        /\ r.pc \in {"zadd", "scan", "pop"} /\ (r.pc = "zadd" => e <= Tolerance)
  <2> DEFINE r == [client[c] EXCEPT !.excess = e, !.pc = IF e <= Tolerance THEN "zadd"
                                                         ELSE IF policy = "RANDOM" THEN "scan" ELSE "pop"]
  <2>1. /\ r \in Operation /\ r.op = client[c].op /\ r.keys = client[c].keys /\ r.excess = e
        /\ r.pc \in {"zadd", "scan", "pop"} /\ (r.pc = "zadd" => e <= Tolerance)
    BY <1>1, <1>2 DEF Busy, Operation, Commands
  <2>2. client' = [client EXCEPT ![c] = r]
    BY <1>3
  <2> HIDE DEF r
  <2> QED BY <2>1, <2>2
<1>5. Suits(r)
  BY <1>1, <1>4 DEF Busy, Suits, Prepared
<1>6. Shape(client[c], Held, DOMAIN hits, DOMAIN updates, slack) =>
        Shape(r, Held, DOMAIN hits, DOMAIN updates, slack)
  BY <1>1, <1>2, <1>4, ExcessShape DEF Busy
<1> QED BY <1>1, <1>3, <1>4, <1>5, <1>6, Unmoved DEF Busy

\* The invariant is kept when keys and clear read the traced keys.
LEMMA ScanStep == ASSUME CacheInv, NEW c \in Clients, Scan(c) PROVE CacheInv'
<1>1. Busy(c, "scan")
  BY IsBusy DEF Scan, Commands
<1>2. PICK r : Advances(c, r) /\ r.seen = DOMAIN updates /\ r.pc = IF client[c].op = "clear" THEN "clear" ELSE "misses"
  <2> DEFINE r == [client[c] EXCEPT !.seen = DOMAIN updates, !.pc = IF client[c].op = "clear" THEN "clear" ELSE "misses"]
  <2>1. /\ r \in Operation /\ Goes(client[c], r) /\ r.seen = DOMAIN updates
        /\ r.pc = IF client[c].op = "clear" THEN "clear" ELSE "misses"
    BY <1>1 DEF Busy, Operation, Commands, Goes, Sets, Held
  <2>2. client' = [client EXCEPT ![c] = r]
    BY DEF Scan
  <2> HIDE DEF r
  <2> QED BY <2>1, <2>2 DEF Advances
<1>3. Quiet /\ UNCHANGED <<val, hits, updates>>
  BY DEF Scan
<1>4. Suits(r)
  BY <1>1, <1>2 DEF Busy, Suits, Advances, Goes, Prepared
<1>5. Shape(client[c], Held, DOMAIN hits, DOMAIN updates, slack) =>
        Shape(r, Held, DOMAIN hits, DOMAIN updates, slack)
  BY <1>1, <1>2, ScanShape DEF Busy, Advances
<1> QED BY <1>1, <1>2, <1>3, <1>4, <1>5, Unmoved DEF Busy, Advances

\* The invariant is kept when keys tells those that do not exist.
LEMMA MissesStep == ASSUME CacheInv, NEW c \in Clients, Misses(c) PROVE CacheInv'
<1>1. Busy(c, "misses")
  BY IsBusy DEF Misses, Commands
<1>2. PICK r : Advances(c, r) /\ r.seen = client[c].seen \cap Held /\ r.drop = client[c].seen \ Held /\ r.pc = "forget"
  <2> DEFINE r == [client[c] EXCEPT !.seen = client[c].seen \cap Held, !.drop = client[c].seen \ Held, !.pc = "forget"]
  <2>1. /\ r \in Operation /\ Goes(client[c], r) /\ r.seen = client[c].seen \cap Held
        /\ r.drop = client[c].seen \ Held /\ r.pc = "forget"
    BY <1>1 DEF Busy, Operation, Commands, Goes, Sets, Held
  <2>2. client' = [client EXCEPT ![c] = r]
    BY DEF Misses
  <2> HIDE DEF r
  <2> QED BY <2>1, <2>2 DEF Advances
<1>3. Quiet /\ UNCHANGED <<val, hits, updates>>
  BY DEF Misses
<1>4. Suits(r)
  BY <1>1, <1>2 DEF Busy, Suits, Advances, Goes, Prepared
<1>5. Shape(client[c], Held, DOMAIN hits, DOMAIN updates, slack) =>
        Shape(r, Held, DOMAIN hits, DOMAIN updates, slack)
  BY <1>1, <1>2, MissesShape DEF Busy, Advances
<1> QED BY <1>1, <1>2, <1>3, <1>4, <1>5, Unmoved DEF Busy, Advances

\* The invariant is kept when get reads the key.
LEMMA GetStep == ASSUME CacheInv, NEW c \in Clients, Get(c) PROVE CacheInv'
<1>1. Busy(c, "get")
  BY IsBusy DEF Get, Commands
<1>2. PICK r : /\ Advances(c, r) /\ r.pc = (IF client[c].keys \subseteq Held THEN "hit" ELSE "idle")
               /\ r.seen = client[c].seen /\ r.drop = client[c].drop
  <2>1. /\ (IF client[c].keys \subseteq Held THEN "hit" ELSE "idle") \in Commands
        /\ Go(c, (IF client[c].keys \subseteq Held THEN "hit" ELSE "idle"))
    BY DEF Get, Commands
  <2> QED BY <1>1, <2>1, GoAdvances DEF Busy
<1>3. Quiet /\ UNCHANGED <<val, hits, updates>>
  BY DEF Get
<1>4. Suits(r)
  BY <1>1, <1>2 DEF Busy, Suits, Advances, Goes, Prepared
<1>5. Shape(client[c], Held, DOMAIN hits, DOMAIN updates, slack) =>
        Shape(r, Held, DOMAIN hits, DOMAIN updates, slack)
  BY <1>1, <1>2, GetShape DEF Busy, Advances
<1> QED BY <1>1, <1>2, <1>3, <1>4, <1>5, Unmoved DEF Busy, Advances

\* The invariant is kept when delete removes the keys.
LEMMA DropStep == ASSUME CacheInv, NEW c \in Clients, Drop(c) PROVE CacheInv'
<1>1. Busy(c, "drop")
  BY IsBusy DEF Drop, Commands
<1>0. Victims(c) = Removing(client[c])
  BY <1>1 DEF Victims, Removing, Busy
<1>2. PICK r : Advances(c, r) /\ r.pc = "droph" /\ r.seen = client[c].seen /\ r.drop = client[c].drop
  <2>1. "droph" \in Commands /\ Go(c, "droph")
    BY DEF Drop, Commands
  <2> QED BY <1>1, <2>1, GoAdvances DEF Busy
<1>3. val' \in [CacheKeys -> Nat] /\ Held' = Held \ Removing(client[c])
  <2>1. val' = [k \in CacheKeys |-> IF k \in Removing(client[c]) THEN 0 ELSE val[k]]
    BY <1>0 DEF Drop
  <2> QED BY <1>1, <2>1 DEF Busy, CacheTypes1, Held
<1>4. Sorted(hits') /\ DOMAIN hits' = DOMAIN hits
  BY <1>1 DEF Drop, Busy, CacheTypes1
<1>5. Sorted(updates') /\ DOMAIN updates' = DOMAIN updates
  BY <1>1 DEF Drop, Busy, CacheTypes1
<1>6. UNCHANGED <<policy, ops, lapsed, mixed>> /\ slack' \in Nat /\ slack' = slack
  BY <1>1 DEF Drop, Quiet, Busy, CacheTypes1
<1>7. Suits(r)
  BY <1>1, <1>2 DEF Busy, Suits, Advances, Goes, Prepared
<1>8. Shape(client[c], Held, DOMAIN hits, DOMAIN updates, slack) =>
        Shape(r, Held', DOMAIN hits', DOMAIN updates', slack')
  BY <1>1, <1>2, <1>3, <1>4, <1>5, <1>6, DropShape DEF Busy, Advances
<1> QED BY <1>1, <1>2, <1>3, <1>4, <1>5, <1>6, <1>7, <1>8, Acted DEF Busy, Advances

\* The invariant is kept when delete removes their hits.
LEMMA DropHitsStep == ASSUME CacheInv, NEW c \in Clients, DropHits(c) PROVE CacheInv'
<1>1. Busy(c, "droph")
  BY IsBusy DEF DropHits, Commands
<1>0. Victims(c) = Removing(client[c])
  BY <1>1 DEF Victims, Removing, Busy
<1>2. PICK r : Advances(c, r) /\ r.pc = "dropu" /\ r.seen = client[c].seen /\ r.drop = client[c].drop
  <2>1. "dropu" \in Commands /\ Go(c, "dropu")
    BY DEF DropHits, Commands
  <2> QED BY <1>1, <2>1, GoAdvances DEF Busy
<1>3. val' \in [CacheKeys -> Nat] /\ Held' = Held
  BY <1>1 DEF DropHits, Busy, CacheTypes1, Held
<1>4. Sorted(hits') /\ DOMAIN hits' = DOMAIN hits \ Removing(client[c])
  <2>1. hits' = Without(hits, Removing(client[c])) /\ Sorted(hits)
    BY <1>0, <1>1 DEF DropHits, Busy, CacheTypes1
  <2> QED BY <2>1, WithoutSorted
<1>5. Sorted(updates') /\ DOMAIN updates' = DOMAIN updates
  BY <1>1 DEF DropHits, Busy, CacheTypes1
<1>6. UNCHANGED <<policy, ops, lapsed, mixed>> /\ slack' \in Nat /\ slack' = slack
  BY <1>1 DEF DropHits, Quiet, Busy, CacheTypes1
<1>7. Suits(r)
  BY <1>1, <1>2 DEF Busy, Suits, Advances, Goes, Prepared
<1>8. Shape(client[c], Held, DOMAIN hits, DOMAIN updates, slack) =>
        Shape(r, Held', DOMAIN hits', DOMAIN updates', slack')
  BY <1>1, <1>2, <1>3, <1>4, <1>5, <1>6, DropHitsShape DEF Busy, Advances
<1> QED BY <1>1, <1>2, <1>3, <1>4, <1>5, <1>6, <1>7, <1>8, Acted DEF Busy, Advances

\* The invariant is kept when delete removes their updates.
LEMMA DropUpdatesStep == ASSUME CacheInv, NEW c \in Clients, DropUpdates(c) PROVE CacheInv'
<1>1. Busy(c, "dropu")
  BY IsBusy DEF DropUpdates, Commands
<1>0. Victims(c) = Removing(client[c])
  BY <1>1 DEF Victims, Removing, Busy
<1>2. PICK r : /\ Advances(c, r) /\ r.pc = (IF client[c].op = "delete" THEN "idle" ELSE "zadd")
               /\ r.seen = client[c].seen /\ r.drop = client[c].drop
  <2>1. /\ (IF client[c].op = "delete" THEN "idle" ELSE "zadd") \in Commands
        /\ Go(c, (IF client[c].op = "delete" THEN "idle" ELSE "zadd"))
    BY DEF DropUpdates, Commands
  <2> QED BY <1>1, <2>1, GoAdvances DEF Busy
<1>3. val' \in [CacheKeys -> Nat] /\ Held' = Held
  BY <1>1 DEF DropUpdates, Busy, CacheTypes1, Held
<1>4. Sorted(hits') /\ DOMAIN hits' = DOMAIN hits
  BY <1>1 DEF DropUpdates, Busy, CacheTypes1
<1>5. Sorted(updates') /\ DOMAIN updates' = DOMAIN updates \ Removing(client[c])
  <2>1. updates' = Without(updates, Removing(client[c])) /\ Sorted(updates)
    BY <1>0, <1>1 DEF DropUpdates, Busy, CacheTypes1
  <2> QED BY <2>1, WithoutSorted
<1>6. UNCHANGED <<policy, ops, lapsed, mixed>> /\ slack' \in Nat /\ slack' = slack
  BY <1>1 DEF DropUpdates, Quiet, Busy, CacheTypes1
<1>7. Suits(r)
  BY <1>1, <1>2 DEF Busy, Suits, Advances, Goes, Prepared
<1>8. Shape(client[c], Held, DOMAIN hits, DOMAIN updates, slack) =>
        Shape(r, Held', DOMAIN hits', DOMAIN updates', slack')
  BY <1>1, <1>2, <1>3, <1>4, <1>5, <1>6, DropUpdatesShape DEF Busy, Advances
<1> QED BY <1>1, <1>2, <1>3, <1>4, <1>5, <1>6, <1>7, <1>8, Acted DEF Busy, Advances

\* The invariant is kept when keys removes the hits of the missing keys.
LEMMA ForgetStep == ASSUME CacheInv, NEW c \in Clients, Forget(c) PROVE CacheInv'
<1>1. Busy(c, "forget")
  BY IsBusy DEF Forget, Commands
<1>2. PICK r : Advances(c, r) /\ r.pc = "forgetu" /\ r.seen = client[c].seen /\ r.drop = client[c].drop
  <2>1. "forgetu" \in Commands /\ Go(c, "forgetu")
    BY DEF Forget, Commands
  <2> QED BY <1>1, <2>1, GoAdvances DEF Busy
<1>3. val' \in [CacheKeys -> Nat] /\ Held' = Held
  BY <1>1 DEF Forget, Busy, CacheTypes1, Held
<1>4. Sorted(hits') /\ DOMAIN hits' = DOMAIN hits \ client[c].drop
  <2>1. hits' = Without(hits, client[c].drop) /\ Sorted(hits)
    BY <1>1 DEF Forget, Busy, CacheTypes1
  <2> QED BY <2>1, WithoutSorted
<1>5. Sorted(updates') /\ DOMAIN updates' = DOMAIN updates
  BY <1>1 DEF Forget, Busy, CacheTypes1
<1>6. UNCHANGED <<policy, ops, lapsed, mixed>> /\ slack' \in Nat /\ slack' = slack
  BY <1>1 DEF Forget, Quiet, Busy, CacheTypes1
<1>7. Suits(r)
  BY <1>1, <1>2 DEF Busy, Suits, Advances, Goes, Prepared
<1>8. Shape(client[c], Held, DOMAIN hits, DOMAIN updates, slack) =>
        Shape(r, Held', DOMAIN hits', DOMAIN updates', slack')
  BY <1>1, <1>2, <1>3, <1>4, <1>5, <1>6, ForgetShape DEF Busy, Advances
<1> QED BY <1>1, <1>2, <1>3, <1>4, <1>5, <1>6, <1>7, <1>8, Acted DEF Busy, Advances

\* The invariant is kept when keys removes their updates.
LEMMA ForgetUpdatesStep == ASSUME CacheInv, NEW c \in Clients, ForgetUpdates(c) PROVE CacheInv'
<1>1. Busy(c, "forgetu")
  BY IsBusy DEF ForgetUpdates, Commands
<1>2. PICK r : /\ Advances(c, r) /\ r.pc = (IF client[c].op = "keys" THEN "idle" ELSE "pick")
               /\ r.seen = client[c].seen /\ r.drop = client[c].drop
  <2>1. /\ (IF client[c].op = "keys" THEN "idle" ELSE "pick") \in Commands
        /\ Go(c, (IF client[c].op = "keys" THEN "idle" ELSE "pick"))
    BY DEF ForgetUpdates, Commands
  <2> QED BY <1>1, <2>1, GoAdvances DEF Busy
<1>3. val' \in [CacheKeys -> Nat] /\ Held' = Held
  BY <1>1 DEF ForgetUpdates, Busy, CacheTypes1, Held
<1>4. Sorted(hits') /\ DOMAIN hits' = DOMAIN hits
  BY <1>1 DEF ForgetUpdates, Busy, CacheTypes1
<1>5. Sorted(updates') /\ DOMAIN updates' = DOMAIN updates \ client[c].drop
  <2>1. updates' = Without(updates, client[c].drop) /\ Sorted(updates)
    BY <1>1 DEF ForgetUpdates, Busy, CacheTypes1
  <2> QED BY <2>1, WithoutSorted
<1>6. UNCHANGED <<policy, ops, lapsed, mixed>> /\ slack' \in Nat /\ slack' = slack
  BY <1>1 DEF ForgetUpdates, Quiet, Busy, CacheTypes1
<1>7. Suits(r)
  BY <1>1, <1>2 DEF Busy, Suits, Advances, Goes, Prepared
<1>8. Shape(client[c], Held, DOMAIN hits, DOMAIN updates, slack) =>
        Shape(r, Held', DOMAIN hits', DOMAIN updates', slack')
  BY <1>1, <1>2, <1>3, <1>4, <1>5, <1>6, ForgetUpdatesShape DEF Busy, Advances
<1> QED BY <1>1, <1>2, <1>3, <1>4, <1>5, <1>6, <1>7, <1>8, Acted DEF Busy, Advances

\* The invariant is kept when prepare traces the new keys in hits.
LEMMA AddHitsStep == ASSUME CacheInv, NEW c \in Clients, AddHits(c) PROVE CacheInv'
<1>1. Busy(c, "zadd")
  BY IsBusy DEF AddHits, Commands
<1>2. PICK r : Advances(c, r) /\ r.pc = "zaddu" /\ r.seen = client[c].seen /\ r.drop = client[c].drop
  <2>1. "zaddu" \in Commands /\ Go(c, "zaddu")
    BY DEF AddHits, Commands
  <2> QED BY <1>1, <2>1, GoAdvances DEF Busy
<1>3. val' \in [CacheKeys -> Nat] /\ Held' = Held
  BY <1>1 DEF AddHits, Busy, CacheTypes1, Held
<1>4. Sorted(hits') /\ DOMAIN hits' = DOMAIN hits \cup client[c].keys
  <2>1. hits' = AddNew(hits, client[c].keys) /\ Sorted(hits) /\ client[c].keys \in SUBSET CacheKeys
    BY <1>1 DEF AddHits, Busy, CacheTypes1, Operation
  <2> QED BY <2>1, AddNewSorted
<1>5. Sorted(updates') /\ DOMAIN updates' = DOMAIN updates
  BY <1>1 DEF AddHits, Busy, CacheTypes1
<1>6. UNCHANGED <<policy, ops, lapsed, mixed>> /\ slack' \in Nat /\ slack' = slack
  BY <1>1 DEF AddHits, Quiet, Busy, CacheTypes1
<1>7. Suits(r)
  BY <1>1, <1>2 DEF Busy, Suits, Advances, Goes, Prepared
<1>8. Shape(client[c], Held, DOMAIN hits, DOMAIN updates, slack) =>
        Shape(r, Held', DOMAIN hits', DOMAIN updates', slack')
  BY <1>1, <1>2, <1>3, <1>4, <1>5, <1>6, AddHitsShape DEF Busy, Advances
<1> QED BY <1>1, <1>2, <1>3, <1>4, <1>5, <1>6, <1>7, <1>8, Acted DEF Busy, Advances

\* The invariant is kept when prepare traces them in updates.
LEMMA AddUpdatesStep == ASSUME CacheInv, NEW c \in Clients, AddUpdates(c) PROVE CacheInv'
<1>1. Busy(c, "zaddu")
  BY IsBusy DEF AddUpdates, Commands
<1>0. client[c].op \in Prepared
  BY <1>1 DEF Busy, CacheTypes1
<1>2. PICK r : Advances(c, r) /\ r.pc = "write" /\ r.seen = client[c].seen /\ r.drop = client[c].drop
  <2>1. "write" \in Commands /\ Go(c, "write")
    BY DEF AddUpdates, Commands
  <2> QED BY <1>1, <2>1, GoAdvances DEF Busy
<1>3. val' \in [CacheKeys -> Nat] /\ Held' = Held
  BY <1>1 DEF AddUpdates, Busy, CacheTypes1, Held
<1>4. Sorted(hits') /\ DOMAIN hits' = DOMAIN hits
  BY <1>1 DEF AddUpdates, Busy, CacheTypes1
<1>5. Sorted(updates') /\ DOMAIN updates' = DOMAIN updates \cup client[c].keys
  <2>1. updates' = Stamp(updates, client[c].keys) /\ Sorted(updates) /\ client[c].keys \in SUBSET CacheKeys
    BY <1>1 DEF AddUpdates, Busy, CacheTypes1, Operation
  <2> QED BY <2>1, StampSorted
<1>6. UNCHANGED <<policy, ops, lapsed, mixed>> /\ slack' \in Nat /\ slack' = slack
  BY <1>1 DEF AddUpdates, Quiet, Busy, CacheTypes1
<1>7. Suits(r)
  BY <1>0, <1>1, <1>2 DEF Busy, Suits, Advances, Goes, Prepared
<1>8. Shape(client[c], Held, DOMAIN hits, DOMAIN updates, slack) =>
        Shape(r, Held', DOMAIN hits', DOMAIN updates', slack')
  BY <1>1, <1>2, <1>3, <1>4, <1>5, <1>6, <1>0, AddUpdatesShape DEF Busy, Advances
<1> QED BY <1>1, <1>2, <1>3, <1>4, <1>5, <1>6, <1>7, <1>8, Acted DEF Busy, Advances

\* The invariant is kept when a list is traced after the push.
LEMMA PushedStep == ASSUME CacheInv, NEW c \in Clients, Pushed(c) PROVE CacheInv'
<1>1. Busy(c, "pushed")
  BY IsBusy DEF Pushed, Commands
<1>2. PICK r : Advances(c, r) /\ r.pc = "idle" /\ r.seen = client[c].seen /\ r.drop = client[c].drop
  <2>1. "idle" \in Commands /\ Go(c, "idle")
    BY DEF Pushed, Commands
  <2> QED BY <1>1, <2>1, GoAdvances DEF Busy
<1>3. val' \in [CacheKeys -> Nat] /\ Held' = Held
  BY <1>1 DEF Pushed, Busy, CacheTypes1, Held
<1>4. Sorted(hits') /\ DOMAIN hits' = DOMAIN hits
  BY <1>1 DEF Pushed, Busy, CacheTypes1
<1>5. Sorted(updates') /\ DOMAIN updates' = DOMAIN updates \cup client[c].keys
  <2>1. updates' = Stamp(updates, client[c].keys) /\ Sorted(updates) /\ client[c].keys \in SUBSET CacheKeys
    BY <1>1 DEF Pushed, Busy, CacheTypes1, Operation
  <2> QED BY <2>1, StampSorted
<1>6. UNCHANGED <<policy, ops, lapsed, mixed>> /\ slack' \in Nat /\ slack' = slack
  BY <1>1 DEF Pushed, Quiet, Busy, CacheTypes1
<1>7. Suits(r)
  BY <1>1, <1>2 DEF Busy, Suits, Advances, Goes, Prepared
<1>8. Shape(client[c], Held, DOMAIN hits, DOMAIN updates, slack) =>
        Shape(r, Held', DOMAIN hits', DOMAIN updates', slack')
  BY <1>1, <1>2, <1>3, <1>4, <1>5, <1>6, PushedShape DEF Busy, Advances
<1> QED BY <1>1, <1>2, <1>3, <1>4, <1>5, <1>6, <1>7, <1>8, Acted DEF Busy, Advances

\* The invariant is kept when get traces the hit.
LEMMA HitStep == ASSUME CacheInv, NEW c \in Clients, Hit(c) PROVE CacheInv'
<1>1. Busy(c, "hit")
  BY IsBusy DEF Hit, Commands
<1>0. PICK k \in client[c].keys : hits' = Raise(hits, k)
  BY DEF Hit
<1>2. PICK r : Advances(c, r) /\ r.pc = "idle" /\ r.seen = client[c].seen /\ r.drop = client[c].drop
  <2>1. "idle" \in Commands /\ Go(c, "idle")
    BY DEF Hit, Commands
  <2> QED BY <1>1, <2>1, GoAdvances DEF Busy
<1>3. val' \in [CacheKeys -> Nat] /\ Held' = Held
  BY <1>1 DEF Hit, Busy, CacheTypes1, Held
<1>4. Sorted(hits') /\ \E S \in SUBSET client[c].keys : DOMAIN hits' = DOMAIN hits \cup S
  <2>1. Sorted(hits) /\ k \in CacheKeys
    BY <1>1 DEF Busy, CacheTypes1, Operation
  <2>2. Sorted(hits') /\ DOMAIN hits' = DOMAIN hits \cup {k}
    BY <1>0, <2>1, RaiseSorted
  <2> QED BY <2>2
<1>5. Sorted(updates') /\ DOMAIN updates' = DOMAIN updates
  BY <1>1 DEF Hit, Busy, CacheTypes1
<1>6. UNCHANGED <<policy, ops, lapsed, mixed>> /\ slack' \in Nat /\ slack' = slack
  BY <1>1 DEF Hit, Quiet, Busy, CacheTypes1
<1>7. Suits(r)
  BY <1>1, <1>2 DEF Busy, Suits, Advances, Goes, Prepared
<1>8. Shape(client[c], Held, DOMAIN hits, DOMAIN updates, slack) =>
        Shape(r, Held', DOMAIN hits', DOMAIN updates', slack')
  BY SMTT(40), <1>1, <1>2, <1>3, <1>4, <1>5, <1>6, HitShape DEF Busy, Advances
<1> QED BY <1>1, <1>2, <1>3, <1>4, <1>5, <1>6, <1>7, <1>8, Acted DEF Busy, Advances

\* The invariant is kept when clear removes everything at once.
LEMMA ClearStep == ASSUME CacheInv, NEW c \in Clients, Clear(c) PROVE CacheInv'
<1>1. Busy(c, "clear")
  BY IsBusy DEF Clear, Commands
<1>2. PICK r : Advances(c, r) /\ r.pc = "idle" /\ r.seen = client[c].seen /\ r.drop = client[c].drop
  <2>1. "idle" \in Commands /\ Go(c, "idle")
    BY DEF Clear, Commands
  <2> QED BY <1>1, <2>1, GoAdvances DEF Busy
<1>3. val' \in [CacheKeys -> Nat] /\ Held' = Held \ client[c].seen
  BY <1>1 DEF Clear, Busy, CacheTypes1, Held
<1>4. Sorted(hits') /\ DOMAIN hits' = {}
  BY DEF Clear, Sorted
<1>5. Sorted(updates') /\ DOMAIN updates' = {}
  BY DEF Clear, Sorted
<1>6. UNCHANGED <<policy, ops, lapsed, mixed>> /\ slack' \in Nat /\ slack' = slack
  BY <1>1 DEF Clear, Quiet, Busy, CacheTypes1
<1>7. Suits(r)
  BY <1>1, <1>2 DEF Busy, Suits, Advances, Goes, Prepared
<1>8. Shape(client[c], Held, DOMAIN hits, DOMAIN updates, slack) =>
        Shape(r, Held', DOMAIN hits', DOMAIN updates', slack')
  BY <1>1, <1>2, <1>3, <1>4, <1>5, <1>6, ClearShape DEF Busy, Advances
<1> QED BY <1>1, <1>2, <1>3, <1>4, <1>5, <1>6, <1>7, <1>8, Acted DEF Busy, Advances

\* The invariant is kept when zpopmin takes the victims of LFU and LRU.
LEMMA PopStep == ASSUME CacheInv, NEW c \in Clients, Pop(c) PROVE CacheInv'
<1>1. Busy(c, "pop")
  BY IsBusy DEF Pop, Commands
<1> DEFINE z == IF policy = "LFU" THEN hits ELSE updates
<1>2. PICK S \in PopMin(z, client[c].excess) :
        /\ client' = [client EXCEPT ![c].drop = S, ![c].pc = IF S = {} THEN "zadd" ELSE "drop"]
        /\ hits'    = IF policy = "LFU" THEN Without(hits, S) ELSE hits
        /\ updates' = IF policy = "LFU" THEN updates ELSE Without(updates, S)
  BY DEF Pop
<1>3. /\ S \in SUBSET DOMAIN z /\ S \in SUBSET CacheKeys
      /\ Cardinality(S) = IF client[c].excess < Cardinality(DOMAIN z) THEN client[c].excess ELSE Cardinality(DOMAIN z)
  BY <1>1 DEF PopMin, Busy, CacheTypes1, Sorted
<1>4. PICK r : Advances(c, r) /\ r.pc = (IF S = {} THEN "zadd" ELSE "drop") /\ r.drop = S
  <2> DEFINE r == [client[c] EXCEPT !.drop = S, !.pc = IF S = {} THEN "zadd" ELSE "drop"]
  <2>1. r \in Operation /\ Goes(client[c], r) /\ r.pc = (IF S = {} THEN "zadd" ELSE "drop") /\ r.drop = S
    BY <1>1, <1>3 DEF Busy, Operation, Commands, Goes
  <2>2. client' = [client EXCEPT ![c] = r]
    BY <1>2
  <2> HIDE DEF r
  <2> QED BY <2>1, <2>2 DEF Advances
<1>5. Suits(r)
  BY <1>1, <1>4 DEF Busy, Suits, Advances, Goes, Prepared
<1>6. UNCHANGED <<policy, val, ops, slack, lapsed, mixed>> /\ Held' = Held
  BY DEF Pop, Quiet, Held
<1>7. /\ Sorted(hits') /\ Sorted(updates')
      /\ policy = "LFU" => DOMAIN hits' = DOMAIN hits \ S /\ DOMAIN updates' = DOMAIN updates
      /\ policy # "LFU" => DOMAIN hits' = DOMAIN hits /\ DOMAIN updates' = DOMAIN updates \ S
  <2>1. Sorted(hits) /\ Sorted(updates)
    BY <1>1 DEF Busy, CacheTypes1
  <2>2. CASE policy = "LFU"
    BY <1>2, <2>1, <2>2, WithoutSorted
  <2>3. CASE policy # "LFU"
    BY <1>2, <2>1, <2>3, WithoutSorted
  <2> QED BY <2>2, <2>3
<1>8. Shape(client[c], Held, DOMAIN hits, DOMAIN updates, slack) =>
        Shape(r, Held, DOMAIN hits', DOMAIN updates', slack)
  <2>1. CASE policy = "LFU"
    BY <1>1, <1>3, <1>4, <1>7, <2>1, PopHitsShape DEF Busy, Advances
  <2>2. CASE policy # "LFU"
    BY <1>1, <1>3, <1>4, <1>7, <2>2, PopUpdatesShape DEF Busy, Advances
  <2> QED BY <2>1, <2>2
<1>9. val' \in [CacheKeys -> Nat] /\ slack' \in Nat
  BY <1>1, <1>6 DEF Busy, CacheTypes1
<1> QED BY <1>1, <1>4, <1>5, <1>6, <1>7, <1>8, <1>9, Acted DEF Busy, Advances

\* There is nothing to pick from, and random.choices raises (Pick).
LEMMA GiveUpShape ==
  ASSUME NEW q, NEW r, NEW H, NEW Z, NEW U, NEW s, Sets(H, Z, U, s), Goes(q, r), Shape(q, H, Z, U, s),
         q.pc = "pick", r.pc = "idle"
  PROVE  Shape(r, H, Z, U, s)
<1>1. Suits(r)
  BY DEF Suits
<1>2. Traced(r, H, Z, U) /\ Bounded(r, H, s)
  BY DEF Shape, Traced, Bounded, Removing, Incoming, Tracing
<1>3. Shrinks(q, H, Z, U, r, H, Z, U)
  BY DEF Shrinks, DeadHits, DeadUpdates, Unhit, Removing, Incoming, Tracing
<1>4. s <= s
  BY DEF Sets
<1> QED BY <1>1, <1>2, <1>3, <1>4, Settled DEF Goes

\* The invariant is kept when random.choices takes those of RANDOM.
LEMMA PickStep == ASSUME CacheInv, NEW c \in Clients, Pick(c) PROVE CacheInv'
<1>1. Busy(c, "pick")
  BY IsBusy DEF Pick, Commands
<1>2. UNCHANGED <<policy, ops, lapsed, mixed, val, hits, updates>> /\ Held' = Held
  BY DEF Pick, Held
<1>3. val' \in [CacheKeys -> Nat] /\ Sorted(hits') /\ Sorted(updates') /\ slack \in Nat
  BY <1>1, <1>2 DEF Busy, CacheTypes1
<1>4. CASE client[c].seen = {} /\ Go(c, "idle") /\ UNCHANGED slack
  <2>1. PICK r : Advances(c, r) /\ r.pc = "idle"
    BY <1>1, <1>4, GoAdvances DEF Busy, Commands
  <2>2. Suits(r)
    BY <2>1 DEF Suits
  <2>3. Shape(client[c], Held, DOMAIN hits, DOMAIN updates, slack) =>
          Shape(r, Held, DOMAIN hits, DOMAIN updates, slack)
    BY <1>1, <2>1, GiveUpShape DEF Busy, Advances
  <2> QED BY <1>1, <1>2, <1>4, <2>1, <2>2, <2>3, Unmoved DEF Busy, Advances, Quiet
<1>5. CASE \E S \in SUBSET client[c].seen \ {{}} :
             /\ Cardinality(S) <= client[c].excess
             /\ client' = [client EXCEPT ![c].drop = S, ![c].pc = "drop"]
             /\ slack' = slack + client[c].excess - Cardinality(S)
  <2>1. PICK S \in SUBSET client[c].seen :
          /\ Cardinality(S) <= client[c].excess
          /\ client' = [client EXCEPT ![c].drop = S, ![c].pc = "drop"]
          /\ slack' = slack + client[c].excess - Cardinality(S)
    BY <1>5
  <2>2. S \in SUBSET CacheKeys /\ Cardinality(S) \in Nat /\ client[c].excess \in Nat
    BY <1>1, KeysFinite DEF Busy, Operation
  <2>3. PICK r : Advances(c, r) /\ r.pc = "drop" /\ r.drop = S
    <3> DEFINE r == [client[c] EXCEPT !.drop = S, !.pc = "drop"]
    <3>1. r \in Operation /\ Goes(client[c], r) /\ r.pc = "drop" /\ r.drop = S
      BY <1>1, <2>2 DEF Busy, Operation, Commands, Goes
    <3>2. client' = [client EXCEPT ![c] = r]
      BY <2>1
    <3> HIDE DEF r
    <3> QED BY <3>1, <3>2 DEF Advances
  <2>4. Suits(r)
    BY <1>1, <2>3 DEF Busy, Suits, Advances, Goes, Prepared
  <2>5. slack' \in Nat
    BY <1>3, <2>1, <2>2
  <2>6. Shape(client[c], Held, DOMAIN hits, DOMAIN updates, slack) =>
          Shape(r, Held, DOMAIN hits, DOMAIN updates, slack')
    BY <1>1, <2>1, <2>3, PickShape DEF Busy, Advances
  <2> QED BY <1>1, <1>2, <1>3, <2>3, <2>4, <2>5, <2>6, Acted DEF Busy, Advances
<1> QED BY <1>4, <1>5 DEF Pick

\* The invariant is kept when SET or MSET writes the keys.
LEMMA WriteStep == ASSUME CacheInv, NEW c \in Clients, Write(c) PROVE CacheInv'
<1>1. Busy(c, "write")
  BY IsBusy DEF Write, Commands
<1> DEFINE S == client[c].keys
           T == IF client[c].op = "nx" THEN S \ Held ELSE IF client[c].op = "xx" THEN S \cap Held ELSE S
<1>2. /\ client[c].op \in {"set", "nx", "xx"} /\ Go(c, "idle") /\ S \in SUBSET CacheKeys /\ T \in SUBSET S
      /\ val' = [k \in CacheKeys |-> IF k \in T THEN 1 ELSE val[k]]
      /\ slack' = slack + IF client[c].op = "xx" /\ T = {} THEN 1 ELSE 0
      /\ UNCHANGED <<policy, ops, lapsed, mixed, hits, updates>>
  BY <1>1 DEF Write, Busy, Operation
<1>3. PICK r : Advances(c, r) /\ r.pc = "idle"
  BY <1>1, <1>2, GoAdvances DEF Busy, Commands
<1>4. Suits(r)
  BY <1>3 DEF Suits
<1>5. val' \in [CacheKeys -> Nat] /\ Held' = Held \cup T
  <2> HIDE DEF T
  <2>1. val \in [CacheKeys -> Nat] /\ T \subseteq CacheKeys
    BY <1>1, <1>2 DEF Busy, CacheTypes1
  <2> QED BY <1>2, <2>1 DEF Held
<1>6. Sorted(hits') /\ Sorted(updates') /\ slack \in Nat /\ slack' \in Nat
  BY <1>1, <1>2 DEF Busy, CacheTypes1
<1>7. Shape(client[c], Held, DOMAIN hits, DOMAIN updates, slack) =>
        Shape(r, Held', DOMAIN hits', DOMAIN updates', slack')
  <2>1. CASE client[c].op = "xx" /\ T = {}
    <3>1. Held' = Held /\ slack' = slack + 1 /\ hits' = hits /\ updates' = updates
      BY <1>2, <1>5, <2>1
    <3> QED BY <1>1, <1>3, <2>1, <3>1, MissedShape DEF Busy, Advances
  <2>2. CASE ~(client[c].op = "xx" /\ T = {})
    <3>1. slack' = slack /\ hits' = hits /\ updates' = updates
      BY <1>2, <1>6, <2>2
    <3>2. client[c].op \in Prepared
      BY <1>2 DEF Prepared
    <3>3. S \subseteq Held \cup T
      <4>1. client[c].op = "xx" => \E k \in CacheKeys : S = {k}
        BY <1>1, <1>2 DEF Busy, Suits
      <4> QED BY <1>2, <2>2, <4>1
    <3> HIDE DEF T
    <3> QED BY <1>1, <1>2, <1>3, <1>5, <3>1, <3>2, <3>3, WriteShape DEF Busy, Advances
  <2> QED BY <2>1, <2>2
<1> QED BY <1>1, <1>2, <1>3, <1>4, <1>5, <1>6, <1>7, Acted DEF Busy, Advances

\* The invariant is kept when alter_amount.lua adds to the number.
LEMMA AlterStep == ASSUME CacheInv, NEW c \in Clients, Alter(c) PROVE CacheInv'
<1>1. Busy(c, "write")
  BY IsBusy DEF Alter, Commands
<1>2. client[c].op = "alter" /\ Quiet /\ UNCHANGED <<hits, updates>>
  BY DEF Alter
<1>3. PICK k \in CacheKeys : client[c].keys = {k}
  BY <1>1, <1>2 DEF Busy, Suits
<1>4. val' = [val EXCEPT ![k] = IF Within(val[k]) THEN val[k] + 1 ELSE val[k]]
  BY <1>3 DEF Alter
<1>5. Go(c, IF Within(val[k]) THEN "hit" ELSE "idle")
  BY <1>3 DEF Alter
<1>6. PICK r : Advances(c, r) /\ r.pc = (IF Within(val[k]) THEN "hit" ELSE "idle")
  <2>1. (IF Within(val[k]) THEN "hit" ELSE "idle") \in Commands
    BY DEF Commands
  <2> QED BY <1>1, <1>5, <2>1, GoAdvances DEF Busy
<1>7. Suits(r)
  BY <1>1, <1>6 DEF Busy, Suits, Advances, Goes, Prepared
<1>8. val' \in [CacheKeys -> Nat] /\ Held' = Held \cup {k}
  <2>1. val \in [CacheKeys -> Nat] /\ (val[k] = 0 => Within(val[k]))
    BY <1>1 DEF Busy, CacheTypes1, Within
  <2>2. val' \in [CacheKeys -> Nat]
    BY <1>4, <2>1
  <2>3. val'[k] # 0 /\ \A j \in CacheKeys \ {k} : val'[j] = val[j]
    BY <1>4, <2>1
  <2> QED BY <2>2, <2>3 DEF Held
<1>9. UNCHANGED <<policy, ops, slack, lapsed, mixed, hits, updates>>
  BY <1>2 DEF Quiet
<1>10. Sorted(hits') /\ Sorted(updates') /\ slack' \in Nat
  BY <1>1, <1>9 DEF Busy, CacheTypes1
<1>11. Shape(client[c], Held, DOMAIN hits, DOMAIN updates, slack) =>
         Shape(r, Held', DOMAIN hits', DOMAIN updates', slack')
  <2>1. PICK T : T = {k}
    OBVIOUS
  <2>2. /\ T \in SUBSET client[c].keys /\ client[c].keys \subseteq Held \cup T /\ Held' = Held \cup T
        /\ client[c].op \in Prepared
    BY <1>2, <1>3, <1>8, <2>1 DEF Prepared
  <2>3. hits' = hits /\ updates' = updates /\ slack' = slack
    BY <1>9
  <2> QED BY <1>1, <1>2, <1>6, <2>2, <2>3, WriteShape DEF Busy, Advances
<1> QED BY <1>1, <1>6, <1>7, <1>8, <1>9, <1>10, <1>11, Acted DEF Busy, Advances

\* The invariant is kept when LPUSH makes or extends a list.
LEMMA PushStep == ASSUME CacheInv, NEW c \in Clients, Push(c) PROVE CacheInv'
<1>1. Busy(c, "write")
  BY IsBusy DEF Push, Commands
<1>2. /\ client[c].op = "push" /\ Go(c, "pushed") /\ client[c].keys \in SUBSET CacheKeys
      /\ slack' = slack + Cardinality(client[c].keys \ Held)
      /\ UNCHANGED <<policy, ops, lapsed, mixed, hits, updates>>
  BY <1>1 DEF Push, Busy, Operation
<1>3. PICK r : Advances(c, r) /\ r.pc = "pushed"
  BY <1>1, <1>2, GoAdvances DEF Busy, Commands
<1>4. Suits(r)
  BY <1>1, <1>3 DEF Busy, Suits, Advances, Goes, Prepared
<1>5. val' \in [CacheKeys -> Nat] /\ Held' = Held \cup client[c].keys
  BY <1>1, <1>2 DEF Push, Busy, CacheTypes1, Held
<1>6. Sorted(hits') /\ Sorted(updates') /\ slack' \in Nat
  <2>1. client[c].keys \ Held \in SUBSET CacheKeys
    BY <1>2
  <2>2. Cardinality(client[c].keys \ Held) \in Nat
    BY <2>1, KeysFinite
  <2> QED BY <1>1, <1>2, <2>2 DEF Busy, CacheTypes1
<1>7. Shape(client[c], Held, DOMAIN hits, DOMAIN updates, slack) =>
        Shape(r, Held', DOMAIN hits', DOMAIN updates', slack')
  BY <1>1, <1>2, <1>3, <1>5, PushShape DEF Busy, Advances
<1> QED BY <1>1, <1>2, <1>3, <1>4, <1>5, <1>6, <1>7, Acted DEF Busy, Advances

\* The invariant is kept when a key expires: the operations go on where they are.
LEMMA LapseStep == ASSUME CacheInv, NEW k \in CacheKeys, Lapse(k) PROVE CacheInv'
<1>1. CacheTypes1 /\ Sets(Held, DOMAIN hits, DOMAIN updates, slack)
  BY TypesNamed, HeldSets DEF CacheInv
<1>2. /\ val' = [val EXCEPT ![k] = 0] /\ lapsed' = lapsed + 1 /\ slack' = slack + 1
      /\ UNCHANGED <<policy, hits, updates, client, ops, mixed>>
  BY DEF Lapse
<1>3. val' \in [CacheKeys -> Nat] /\ Held' = Held \ {k}
  BY <1>1, <1>2 DEF CacheTypes1, Held
<1>4. CacheTypes1'
  BY <1>1, <1>2, <1>3 DEF CacheTypes1
<1>5. OneBusy' /\ \A c \in Clients : Suits(client'[c])
  BY <1>2 DEF CacheInv, OneBusy, At
<1>6. ASSUME ~mixed', NEW c \in Clients, Others(c)'
      PROVE  Shape(client[c], Held, DOMAIN hits, DOMAIN updates, slack)'
  <2>1. ~mixed /\ Others(c)
    BY <1>2, <1>6 DEF Others, At
  <2>2. Shape(client[c], Held, DOMAIN hits, DOMAIN updates, slack) /\ client[c] \in Operation
    BY <1>1, <2>1 DEF CacheInv, CacheTypes1
  <2>3. Shape(client[c], Held \ {k}, DOMAIN hits, DOMAIN updates, slack + 1)
    BY <1>1, <2>2, LapseShape
  <2> QED BY <1>2, <1>3, <2>3
<1> QED BY <1>4, <1>5, <1>6, TypesNamedNext DEF CacheInv

\* The invariant is kept when an operation begins: each starts at the command of its kind.
LEMMA BeginStep ==
  ASSUME CacheInv, NEW c \in Clients,
         \/ \E S \in SUBSET (CacheKeys \ ListKeys) \ {{}} : Cardinality(S) <= BatchSize /\ BeginSet(c, "set", S)
         \/ \E k \in CacheKeys \ ListKeys :
              (\E op \in {"nx", "xx", "alter"} : BeginSet(c, op, {k})) \/ BeginGet(c, k)
         \/ \E k \in ListKeys : BeginPush(c, k)
         \/ \E k \in CacheKeys : BeginDelete(c, {k})
         \/ BeginKeys(c) \/ BeginClear(c)
  PROVE  CacheInv'
<1> DEFINE new(op, S, pc) == [NoOp EXCEPT !.pc = pc, !.op = op, !.keys = S]
<1>0. \A op \in {"set", "nx", "xx", "alter", "get", "delete", "keys", "clear", "push"}, pc \in Commands :
        \A S \in SUBSET CacheKeys : new(op, S, pc) \in Operation
  BY DEF NoOp, Operation
<1> HIDE DEF new
<1>1. CASE \E S \in SUBSET (CacheKeys \ ListKeys) \ {{}} : Cardinality(S) <= BatchSize /\ BeginSet(c, "set", S)
  <2>1. PICK S \in SUBSET CacheKeys : Cardinality(S) <= BatchSize /\ Begin(c, "set", S, "count")
    BY <1>1 DEF BeginSet
  <2>2. new("set", S, "count") \in Operation
    BY <1>0 DEF Commands
  <2> QED BY <2>1, <2>2, Begun DEF Prepared, new
<1>2. CASE \E k \in CacheKeys \ ListKeys : \E op \in {"nx", "xx", "alter"} : BeginSet(c, op, {k})
  <2>1. PICK k \in CacheKeys, op \in {"nx", "xx", "alter"} : Begin(c, op, {k}, "count")
    BY <1>2 DEF BeginSet
  <2>2. new(op, {k}, "count") \in Operation
    BY <1>0 DEF Commands
  <2>3. Cardinality({k}) = 1
    BY FS_Singleton
  <2>4. Cardinality({k}) <= BatchSize /\ op \in Prepared /\ op # "get"
    BY <2>3 DEF Prepared
  <2> QED BY <2>1, <2>2, <2>4, Begun DEF new
<1>3. CASE \E k \in CacheKeys \ ListKeys : BeginGet(c, k)
  <2>1. PICK k \in CacheKeys : Begin(c, "get", {k}, "get")
    BY <1>3 DEF BeginGet
  <2>2. new("get", {k}, "get") \in Operation
    BY <1>0 DEF Commands
  <2> QED BY <2>1, <2>2, Begun DEF new
<1>4. CASE \E k \in ListKeys : BeginPush(c, k)
  <2>1. PICK k \in CacheKeys : Begin(c, "push", {k}, "write")
    BY <1>4 DEF BeginPush
  <2>2. new("push", {k}, "write") \in Operation
    BY <1>0 DEF Commands
  <2> QED BY <2>1, <2>2, Begun DEF new
<1>5. CASE \E k \in CacheKeys : BeginDelete(c, {k})
  <2>1. PICK k \in CacheKeys : Begin(c, "delete", {k}, "drop")
    BY <1>5 DEF BeginDelete
  <2>2. new("delete", {k}, "drop") \in Operation
    BY <1>0 DEF Commands
  <2> QED BY <2>1, <2>2, Begun DEF new
<1>6. CASE BeginKeys(c)
  <2>1. Begin(c, "keys", {}, "scan") /\ new("keys", {}, "scan") \in Operation
    BY <1>0, <1>6 DEF BeginKeys, Commands
  <2> QED BY <2>1, Begun DEF new
<1>7. CASE BeginClear(c)
  <2>1. Begin(c, "clear", {}, "scan") /\ new("clear", {}, "scan") \in Operation
    BY <1>0, <1>7 DEF BeginClear, Commands
  <2> QED BY <2>1, Begun DEF new
<1> QED BY <1>1, <1>2, <1>3, <1>4, <1>5, <1>6, <1>7

\* A stutter changes nothing.
LEMMA CacheStutter == ASSUME CacheInv, UNCHANGED cacheVars PROVE CacheInv'
<1>1. CacheTypes1'
  BY TypesNamed DEF CacheInv, CacheTypes1, cacheVars
<1>2. OneBusy' /\ \A c \in Clients : Suits(client'[c])
  BY DEF CacheInv, OneBusy, At, cacheVars
<1>3. Held' = Held
  BY DEF Held, cacheVars
<1>4. ASSUME ~mixed', NEW c \in Clients, Others(c)'
      PROVE  Shape(client[c], Held, DOMAIN hits, DOMAIN updates, slack)'
  <2>1. Shape(client[c], Held, DOMAIN hits, DOMAIN updates, slack)
    BY <1>4 DEF CacheInv, Others, At, cacheVars
  <2> QED BY <1>3, <2>1 DEF cacheVars
<1> QED BY <1>1, <1>2, <1>4, TypesNamedNext DEF CacheInv

\* The invariant is inductive.
LEMMA CacheStep == CacheInv /\ [CacheNext]_cacheVars => CacheInv'
<1> SUFFICES ASSUME CacheInv, [CacheNext]_cacheVars PROVE CacheInv'
  OBVIOUS
<1>1. CASE UNCHANGED cacheVars
  BY <1>1, CacheStutter
<1>2. ASSUME NEW k \in CacheKeys, Lapse(k) PROVE CacheInv'
  BY <1>2, LapseStep
<1>3. ASSUME NEW c \in Clients,
             \/ Trace(c) \/ CountExcess(c) \/ Pop(c) \/ Pick(c)
             \/ Drop(c) \/ DropHits(c) \/ DropUpdates(c) \/ AddHits(c) \/ AddUpdates(c)
             \/ Write(c) \/ Alter(c) \/ Push(c) \/ Pushed(c) \/ Get(c) \/ Hit(c)
             \/ Scan(c) \/ Misses(c) \/ Forget(c) \/ ForgetUpdates(c) \/ Clear(c)
      PROVE  CacheInv'
  BY <1>3, TraceStep, ExcessStep, PopStep, PickStep, DropStep, DropHitsStep, DropUpdatesStep, AddHitsStep,
     AddUpdatesStep, WriteStep, AlterStep, PushStep, PushedStep, GetStep, HitStep, ScanStep, MissesStep,
     ForgetStep, ForgetUpdatesStep, ClearStep
<1> QED BY <1>1, <1>2, <1>3, BeginStep DEF CacheNext

\* The invariant gives the accounts: when nobody is busy, every client is idle, and its shape
\* says that the keys are traced and bounded.
LEMMA CacheCorrect == CacheInv => KeysAccounted
<1> SUFFICES ASSUME CacheInv, Idle, ~mixed
             PROVE  /\ Held \subseteq DOMAIN updates
                    /\ Cardinality(Held) <= MaxEntries + Tolerance + BatchSize + slack
  BY DEF KeysAccounted, EveryKeyTraced, EntriesBounded
<1>1. PICK c \in Clients : TRUE
  OBVIOUS
<1>2. Shape(client[c], Held, DOMAIN hits, DOMAIN updates, slack) /\ client[c].pc = "idle"
  BY DEF CacheInv, Others, Idle, At
<1> QED BY <1>2 DEF Shape, Traced, Bounded, Removing, Tracing

\* Every variable of the cache keeps its type.
THEOREM CacheTypes == CacheSpec => []CacheTypeOK
<1>1. CacheInv => CacheTypeOK
  BY DEF CacheInv
<1> QED BY <1>1, CacheInitial, CacheStep, PTL DEF CacheSpec

\* Operations that do not overlap leave every key traced and no more keys than the limits allow,
\* but for what slack counts (prepare, save_updates and delete of the redis cache).
THEOREM KeysStayAccounted == CacheSpec => []KeysAccounted
<1> QED BY CacheInitial, CacheStep, CacheCorrect, PTL DEF CacheSpec

HIDE CacheAssumption
-----------------------------------------------------------------------------
(***************************************************************************)
(* Proofs about ApiCall, for any depth of mounted APIs, plugins and hooks. *)
(* A request goes inwards through the layers and its answer or error goes  *)
(* outwards; a repetition turns it inwards again at any layer.  The        *)
(* invariant says what each direction knows: inwards, the APIs outside of  *)
(* the layer are guarded and no other (Guards); while no API has repeated  *)
(* the request, the path is matched as far as the layer (Matches).         *)
(***************************************************************************)

Stages == {"request", "response", "error", "render", "hook", "resolve", "before", "serve", "execute",
           "after", "answered", "failed"}
Inwards == {"request", "resolve", "before"}

CallTypes ==
  /\ plugged \in SUBSET Layers /\ own \in SUBSET (1..Depth) /\ options \in BOOLEAN
  /\ layer \in Layers /\ stage \in Stages /\ rest \in Nat /\ caller \in 0..Depth
  /\ index \in [Layers -> Nat] /\ guarded \in SUBSET (1..Depth) /\ executed \in SUBSET (0..Depth)
  /\ missed \in BOOLEAN /\ restarted \in BOOLEAN

\* Which layers are at which stage, and where an endpoint is called from.
Places ==
  /\ stage \in {"resolve", "before", "serve", "render", "hook", "after"} => layer \in 1..Depth
  /\ stage = "execute" => layer = Depth + 1
  /\ layer = Depth + 1 => caller \in 1..Depth
  /\ stage \in {"before", "serve"} => caller \in {0, layer} /\ (layer = Depth => caller = layer)

Guards ==
  /\ options => guarded = {} /\ layer \in 1..Depth /\ (stage = "serve" => caller # layer)
  /\ ~options /\ layer \in 1..Depth =>
       /\ 1..(layer - 1) \subseteq guarded
       /\ stage \in Inwards => guarded = 1..(layer - 1)
       /\ stage = "serve" => guarded = 1..layer
  /\ layer = Depth + 1 => guarded = 1..caller

Matches ==
  ~restarted =>
    /\ ~missed /\ executed \subseteq {Depth}
    /\ stage \in {"request", "resolve"} /\ layer \in 1..Depth => rest = Depth + 1 - layer
    /\ stage \in {"before", "serve"} => rest = Depth - layer /\ (caller # 0 => layer = Depth)
    /\ layer = Depth + 1 => caller = Depth

CallInv == CallTypes /\ Places /\ Guards /\ Matches

USE CallAssumption

\* A request comes in at the root, with all of its path (CallInit).
LEMMA CallInitial == CallInit => CallInv
<1> SUFFICES ASSUME CallInit PROVE CallInv
  OBVIOUS
<1>1. CallTypes
  <2>1. index \in [Layers -> Nat] /\ plugged \in SUBSET Layers /\ layer \in Layers
    BY DEF CallInit, Layers
  <2>2. rest \in Nat /\ caller \in 0..Depth /\ stage \in Stages
    BY DEF CallInit, Stages
  <2> QED BY <2>1, <2>2 DEF CallInit, CallTypes
<1>2. Places /\ Matches
  BY DEF CallInit, Places, Matches
<1>3. Guards
  BY DEF CallInit, Guards, Inwards
<1> QED BY <1>1, <1>2, <1>3 DEF CallInv

\* An answer or an error that goes outwards finds the layers outside guarded.
LEMMA Outwards ==
  ASSUME CallInv, Returns \/ Escapes,
         UNCHANGED <<request, rest, caller, guarded, executed, missed, restarted>>, index' \in [Layers -> Nat]
  PROVE  CallInv'
<1>1. /\ plugged' = plugged /\ own' = own /\ options' = options /\ rest' = rest /\ caller' = caller
      /\ guarded' = guarded /\ executed' = executed /\ missed' = missed /\ restarted' = restarted
  BY DEF request
<1>2. /\ stage' \in {"answered", "failed", "after", "error"} /\ layer' \in 1..Depth
      /\ stage' \in {"answered", "failed"} \/ layer' = Outer(layer)
      /\ layer # Depth + 1 => layer' <= layer
      /\ layer = Depth + 1 => layer' = caller
  BY DEF Returns, Escapes, Outer, IsEndpoint, CallInv, CallTypes, Places, Layers
<1>3. CallTypes' /\ Places'
  BY SMTT(40), <1>1, <1>2 DEF CallInv, CallTypes, Places, Layers, Stages
<1>4. layer' # Depth + 1 /\ stage' \notin Inwards /\ stage' \notin {"before", "serve", "request", "resolve"}
  BY <1>2 DEF Inwards
<1>5. Guards'
  <2>1. options => guarded = {} /\ layer \in 1..Depth
    BY DEF CallInv, Guards
  <2>2. CASE layer = Depth + 1
    <3>1. caller \in 1..Depth /\ guarded = 1..caller /\ layer' = caller
      BY <1>2, <2>2 DEF CallInv, Places, Guards
    <3>2. 1..(layer' - 1) \subseteq guarded
      BY <3>1
    <3> QED BY <1>1, <1>2, <1>4, <2>1, <3>2 DEF Guards
  <2>3. CASE layer # Depth + 1
    <3>1. layer \in 1..Depth /\ layer' <= layer
      BY <1>2, <2>3 DEF CallInv, CallTypes, Layers
    <3>2. 1..(layer' - 1) \subseteq 1..(layer - 1)
      <4>1. layer \in Nat /\ layer' \in Nat /\ layer' <= layer
        BY <1>2, <3>1
      <4>2. \A m, n \in Nat : m <= n => 1..(m - 1) \subseteq 1..(n - 1)
        OBVIOUS
      <4> QED BY <4>1, <4>2
    <3>3. ~options => 1..(layer' - 1) \subseteq guarded
      BY <3>1, <3>2 DEF CallInv, Guards
    <3> QED BY <1>1, <1>2, <1>4, <2>1, <3>3 DEF Guards
  <2> QED BY <2>2, <2>3
<1>6. Matches'
  BY <1>1, <1>4 DEF CallInv, Matches
<1> QED BY <1>3, <1>5, <1>6 DEF CallInv

\* A layer that stays where it is and goes outwards, or is done, or hands the request on.
LEMMA Stays ==
  ASSUME CallInv, layer' = layer, stage' \in {"response", "error", "render", "hook"},
         stage' \in {"render", "hook"} => ~IsEndpoint(layer),
         UNCHANGED <<request, rest, caller, guarded, executed, missed, restarted>>, index' \in [Layers -> Nat]
  PROVE  CallInv'
<1>1. /\ plugged' = plugged /\ own' = own /\ options' = options /\ rest' = rest /\ caller' = caller
      /\ guarded' = guarded /\ executed' = executed /\ missed' = missed /\ restarted' = restarted
  BY DEF request
<1>2. CallTypes' /\ Places'
  BY <1>1 DEF CallInv, CallTypes, Places, Layers, Stages, IsEndpoint
<1>3. Guards' /\ Matches'
  BY <1>1 DEF CallInv, CallTypes, Guards, Matches, Inwards, Layers
<1> QED BY <1>2, <1>3 DEF CallInv

\* An error leaves the plugins of a layer (LeavesPlugins).
LEMMA Leaves ==
  ASSUME CallInv, LeavesPlugins,
         UNCHANGED <<request, rest, caller, guarded, executed, missed, restarted>>, index' \in [Layers -> Nat]
  PROVE  CallInv'
<1>1. CASE IsEndpoint(layer)
  BY <1>1, Outwards DEF LeavesPlugins
<1>2. CASE ~IsEndpoint(layer)
  BY <1>2, Stays DEF LeavesPlugins
<1> QED BY <1>1, <1>2

\* A repetition starts where its plugin is: what is inside of it is no longer guarded (Repeats).
LEMMA RepeatStep ==
  ASSUME CallInv, Repeats, stage \in {"response", "error"}, UNCHANGED <<request, rest, caller, executed, missed>>
  PROVE  CallInv'
<1>1. index' \in [Layers -> Nat]
  BY DEF Repeats, CallInv, CallTypes
<1>2. CASE index[layer] + 1 >= MaxLoops
  BY <1>1, <1>2, Leaves DEF Repeats
<1>3. CASE ~(index[layer] + 1 >= MaxLoops)
  <2>1. /\ plugged' = plugged /\ own' = own /\ options' = options /\ rest' = rest /\ caller' = caller
        /\ executed' = executed /\ missed' = missed
    BY DEF request
  <2>2. /\ stage' = "request" /\ layer' = layer /\ guarded' = {l \in guarded : l < layer}
        /\ restarted' = (restarted \/ ~IsEndpoint(layer))
    BY <1>3 DEF Repeats
  <2>3. CallTypes' /\ Places'
    BY <1>1, <2>1, <2>2 DEF CallInv, CallTypes, Places, Stages
  <2>4. Guards'
    <3>1. CASE layer = Depth + 1
      <4>1. guarded' = guarded
        <5>1. \A l \in 1..Depth : l < layer
          BY <3>1
        <5>2. guarded \subseteq 1..Depth
          BY DEF CallInv, CallTypes
        <5> QED BY <2>2, <5>1, <5>2
      <4> QED BY <2>1, <2>2, <3>1, <4>1 DEF CallInv, CallTypes, Guards, Inwards, Layers
    <3>2. CASE layer # Depth + 1
      <4>1. layer \in 1..Depth
        BY <3>2 DEF CallInv, CallTypes, Layers
      <4>2. ~options => guarded' = 1..(layer - 1)
        <5>1. guarded \subseteq 1..Depth /\ (~options => 1..(layer - 1) \subseteq guarded)
          BY <4>1 DEF CallInv, CallTypes, Guards
        <5>2. \A l \in 1..Depth : l < layer <=> l \in 1..(layer - 1)
          BY <4>1
        <5>3. ASSUME ~options PROVE guarded' = 1..(layer - 1)
          <6>1. guarded' \subseteq 1..(layer - 1)
            BY <2>2, <5>1, <5>2
          <6>2. \A l \in 1..(layer - 1) : l \in guarded /\ l < layer
            BY <4>1, <5>1, <5>3
          <6> QED BY <2>2, <6>1, <6>2
        <5> QED BY <5>3
      <4>3. options => guarded' = {}
        BY <2>2 DEF CallInv, Guards
      <4> QED BY <2>1, <2>2, <4>1, <4>2, <4>3 DEF Guards, Inwards
    <3> QED BY <3>1, <3>2
  <2>5. Matches'
    <3>1. CASE layer = Depth + 1
      <4>1. layer' \notin 1..Depth /\ stage' \notin {"before", "serve"} /\ restarted' = restarted
        BY <2>2, <3>1 DEF IsEndpoint, CallInv, CallTypes
      <4> QED BY <2>1, <2>2, <3>1, <4>1 DEF CallInv, Matches
    <3>2. CASE layer # Depth + 1
      BY <2>2, <3>2 DEF IsEndpoint, Matches
    <3> QED BY <3>1, <3>2
  <2> QED BY <2>3, <2>4, <2>5 DEF CallInv
<1> QED BY <1>2, <1>3


\* A request is passed on, answered or refused by the plugin of a layer (ProcessRequest).
LEMMA RequestStep == ASSUME CallInv, ProcessRequest PROVE CallInv'
<1>1. /\ stage = "request" /\ layer' = layer
      /\ UNCHANGED <<request, rest, caller, guarded, executed, missed, restarted>> /\ index' \in [Layers -> Nat]
  BY DEF ProcessRequest, history, CallInv, CallTypes
<1>2. CASE stage' \in {"response", "error"}
  BY <1>1, <1>2, Stays
<1>3. CASE stage' = IF IsEndpoint(layer) THEN "execute" ELSE "resolve"
  <2>1. /\ plugged' = plugged /\ own' = own /\ options' = options /\ rest' = rest /\ caller' = caller
        /\ guarded' = guarded /\ executed' = executed /\ missed' = missed /\ restarted' = restarted
    BY <1>1 DEF request
  <2>2. CallTypes' /\ Places'
    BY <1>1, <1>3, <2>1 DEF CallInv, CallTypes, Places, Stages, IsEndpoint, Layers
  <2>3. Guards' /\ Matches'
    BY <1>1, <1>3, <2>1 DEF CallInv, CallTypes, Guards, Matches, Inwards, IsEndpoint, Layers
  <2> QED BY <2>2, <2>3 DEF CallInv
<1> QED BY <1>2, <1>3 DEF ProcessRequest

\* An answer goes on through the plugin of a layer (ProcessResponse).
LEMMA ResponseStep == ASSUME CallInv, ProcessResponse PROVE CallInv'
<1>1. stage = "response" /\ UNCHANGED <<request, rest, caller, executed, missed>>
  BY DEF ProcessResponse
<1>2. index \in [Layers -> Nat]
  BY DEF CallInv, CallTypes
<1>3. CASE /\ IF layer \in plugged \/ IsEndpoint(layer) THEN Returns
              ELSE stage' = "render" /\ layer' = layer
           /\ UNCHANGED <<index, guarded, restarted>>
  <2>1. CASE Returns
    BY <1>1, <1>2, <1>3, <2>1, Outwards
  <2>2. CASE ~IsEndpoint(layer) /\ stage' = "render" /\ layer' = layer
    BY <1>1, <1>2, <1>3, <2>2, Stays
  <2> QED BY <1>3, <2>1, <2>2
<1>4. CASE Repeats
  BY <1>1, <1>4, RepeatStep
<1>5. CASE stage' = "error" /\ UNCHANGED <<layer, index, guarded, restarted>>
  BY <1>1, <1>2, <1>5, Stays
<1> QED BY <1>3, <1>4, <1>5 DEF ProcessResponse

\* An error goes on through the plugin of a layer (HandleError).
LEMMA ErrorStep == ASSUME CallInv, HandleError PROVE CallInv'
<1>1. stage = "error" /\ UNCHANGED <<request, rest, caller, executed, missed>>
  BY DEF HandleError
<1>2. index \in [Layers -> Nat]
  BY DEF CallInv, CallTypes
<1>3. CASE LeavesPlugins /\ UNCHANGED <<index, guarded, restarted>>
  BY <1>1, <1>2, <1>3, Leaves
<1>4. CASE /\ IF IsEndpoint(layer) THEN Returns ELSE stage' = "render" /\ layer' = layer
           /\ UNCHANGED <<index, guarded, restarted>>
  <2>1. CASE Returns
    BY <1>1, <1>2, <1>4, <2>1, Outwards
  <2>2. CASE ~IsEndpoint(layer) /\ stage' = "render" /\ layer' = layer
    BY <1>1, <1>2, <1>4, <2>2, Stays
  <2> QED BY <1>4, <2>1, <2>2
<1>5. CASE Repeats
  BY <1>1, <1>5, RepeatStep
<1> QED BY <1>3, <1>4, <1>5 DEF HandleError

\* Rendering and hooks hand the answer or the error outwards (Render, ErrorHook, AfterHooks).
LEMMA HookStep == ASSUME CallInv, Render \/ ErrorHook \/ AfterHooks PROVE CallInv'
<1>1. UNCHANGED <<request, rest, caller, guarded, executed, missed, restarted>> /\ index' \in [Layers -> Nat]
  BY DEF Render, ErrorHook, AfterHooks, history, CallInv, CallTypes
<1>2. CASE Returns \/ Escapes
  BY <1>1, <1>2, Outwards
<1>3. CASE stage' \in {"response", "error", "render"} /\ layer' = layer /\ stage \in {"hook", "after"}
  <2>1. ~IsEndpoint(layer)
    BY <1>3 DEF CallInv, Places, IsEndpoint
  <2> QED BY <1>1, <1>3, <2>1, Stays
<1> QED BY <1>2, <1>3 DEF Render, ErrorHook, AfterHooks

\* The endpoint runs (Execute).
LEMMA ExecuteStep == ASSUME CallInv, Execute PROVE CallInv'
<1>1. /\ stage = "execute" /\ executed' = executed \cup {caller} /\ stage' \in {"response", "error"}
      /\ plugged' = plugged /\ own' = own /\ options' = options /\ rest' = rest /\ caller' = caller
      /\ layer' = layer /\ index' = index /\ guarded' = guarded /\ missed' = missed /\ restarted' = restarted
  BY DEF Execute, request
<1>2. layer = Depth + 1
  BY <1>1 DEF CallInv, Places
<1>3. CallTypes' /\ Places'
  BY <1>1, <1>2 DEF CallInv, CallTypes, Places, Stages
<1>4. Guards' /\ Matches'
  BY <1>1, <1>2 DEF CallInv, CallTypes, Guards, Matches, Inwards
<1> QED BY <1>3, <1>4 DEF CallInv

\* An API finds its route, or none (Resolve).
LEMMA ResolveStep == ASSUME CallInv, Resolve PROVE CallInv'
<1>1. /\ stage = "resolve" /\ layer' = layer /\ index' = index /\ guarded' = guarded
      /\ plugged' = plugged /\ own' = own /\ options' = options /\ executed' = executed /\ restarted' = restarted
  BY DEF Resolve, request
<1>2. layer \in 1..Depth /\ rest \in Nat /\ Depth \in Nat \ {0}
  BY <1>1 DEF CallInv, CallTypes, Places
<1>3. CASE /\ IsChild \/ IsOwn
           /\ rest' = IF HasEndpoint THEN 0 ELSE rest - 1
           /\ caller' = IF HasEndpoint THEN layer ELSE 0
           /\ stage' = "before" /\ UNCHANGED missed
  <2>1. HasEndpoint \/ (rest = Depth + 1 - layer /\ layer # Depth)
    BY <1>3 DEF HasEndpoint, IsChild
  <2>2. rest' \in Nat /\ caller' \in {0, layer} /\ (layer = Depth => caller' = layer)
    BY <1>2, <1>3, <2>1
  <2>3. CallTypes' /\ Places'
    BY <1>1, <1>2, <1>3, <2>2 DEF CallInv, CallTypes, Places, Stages
  <2>4. Guards'
    BY <1>1, <1>2, <1>3 DEF CallInv, CallTypes, Guards, Inwards
  <2>5. ~restarted => rest' = Depth - layer /\ (caller' # 0 => layer = Depth)
    <3>1. ~restarted => rest = Depth + 1 - layer
      BY <1>1, <1>2 DEF CallInv, Matches
    <3>2. Depth + 1 - layer # 0 /\ Depth + 1 - layer - 1 = Depth - layer /\ (layer = Depth => Depth - layer = 0)
      BY <1>2
    <3>3. ~restarted => ~IsOwn /\ (HasEndpoint <=> layer = Depth)
      BY <3>1, <3>2 DEF IsOwn, HasEndpoint, IsChild
    <3> QED BY <1>2, <1>3, <3>1, <3>2, <3>3
  <2>6. Matches'
    BY <1>1, <1>2, <1>3, <2>5 DEF CallInv, Matches
  <2> QED BY <2>3, <2>4, <2>6 DEF CallInv
<1>4. CASE /\ ~IsChild /\ ~IsOwn /\ stage' = "error" /\ missed' = TRUE /\ UNCHANGED <<rest, caller>>
  <2>1. restarted
    BY <1>1, <1>2, <1>4 DEF CallInv, Matches, IsChild
  <2>2. CallTypes' /\ Places'
    BY <1>1, <1>2, <1>4 DEF CallInv, CallTypes, Places, Stages
  <2>3. Guards' /\ Matches'
    BY <1>1, <1>2, <1>4, <2>1 DEF CallInv, CallTypes, Guards, Matches, Inwards
  <2> QED BY <2>2, <2>3 DEF CallInv
<1> QED BY <1>3, <1>4 DEF Resolve

\* The before hooks of an API pass, or raise (BeforeHooks).
LEMMA BeforeStep == ASSUME CallInv, BeforeHooks PROVE CallInv'
<1>1. /\ stage = "before" /\ layer' = layer /\ index' = index /\ rest' = rest /\ caller' = caller
      /\ plugged' = plugged /\ own' = own /\ options' = options /\ executed' = executed /\ missed' = missed
      /\ restarted' = restarted
  BY DEF BeforeHooks, request
<1>2. layer \in 1..Depth /\ caller \in {0, layer} /\ (layer = Depth => caller = layer)
  BY <1>1 DEF CallInv, Places
<1>3. CASE options
  <2>1. stage' = (IF caller = layer THEN "response" ELSE "serve") /\ guarded' = guarded
    BY <1>3 DEF BeforeHooks
  <2>2. CallTypes' /\ Places'
    BY <1>1, <1>2, <2>1 DEF CallInv, CallTypes, Places, Stages
  <2>3. Guards' /\ Matches'
    BY <1>1, <1>2, <1>3, <2>1 DEF CallInv, CallTypes, Guards, Matches, Inwards
  <2> QED BY <2>2, <2>3 DEF CallInv
<1>4. CASE ~options /\ stage' = "serve" /\ guarded' = guarded \cup {layer}
  <2>1. CallTypes' /\ Places'
    BY <1>1, <1>2, <1>4 DEF CallInv, CallTypes, Places, Stages
  <2>2. guarded' = 1..layer
    <3>1. guarded = 1..(layer - 1)
      BY <1>1, <1>2, <1>4 DEF CallInv, Guards, Inwards
    <3>2. 1..layer = 1..(layer - 1) \cup {layer}
      BY <1>2
    <3> QED BY <1>4, <3>1, <3>2
  <2>3. 1..(layer - 1) \subseteq 1..layer /\ layer # Depth + 1
    BY <1>2
  <2>4. Guards'
    BY <1>1, <1>4, <2>2, <2>3 DEF Guards, Inwards
  <2>5. Matches'
    BY <1>1, <1>2, <1>4 DEF CallInv, Matches
  <2> QED BY <2>1, <2>4, <2>5 DEF CallInv
<1>5. CASE stage' = "error" /\ guarded' = guarded
  <2>1. ~IsEndpoint(layer) /\ index' \in [Layers -> Nat]
    BY <1>1, <1>2 DEF IsEndpoint, CallInv, CallTypes
  <2> QED BY <1>1, <1>5, <2>1, Stays DEF request
<1> QED BY <1>3, <1>4, <1>5 DEF BeforeHooks

\* The mounted API or the chain of the endpoint begins (Serve).
LEMMA ServeStep == ASSUME CallInv, Serve PROVE CallInv'
<1>1. /\ stage = "serve" /\ rest' = rest /\ caller' = caller
      /\ plugged' = plugged /\ own' = own /\ options' = options /\ executed' = executed /\ missed' = missed
      /\ restarted' = restarted /\ guarded' = guarded
  BY DEF Serve, request, history
<1>2. /\ layer \in 1..Depth /\ caller \in {0, layer} /\ (layer = Depth => caller = layer)
      /\ index \in [Layers -> Nat]
  BY <1>1 DEF CallInv, Places, CallTypes
<1>3. CASE /\ layer' = IF caller = layer THEN Depth + 1 ELSE layer + 1
           /\ stage' = "request" /\ index' = [index EXCEPT ![layer'] = 0]
  <2>1. /\ layer' \in Layers /\ (layer' = Depth + 1 <=> caller = layer)
        /\ (caller # layer => layer' = layer + 1 /\ layer' \in 1..Depth)
    BY <1>2, <1>3 DEF Layers
  <2>2. index' \in [Layers -> Nat]
    BY <1>2, <1>3
  <2>3. CallTypes' /\ Places'
    BY <1>1, <1>2, <1>3, <2>1, <2>2 DEF CallInv, CallTypes, Places, Stages
  <2>4. Guards'
    <3>1. options => guarded = {} /\ caller # layer
      BY <1>1 DEF CallInv, Guards
    <3>2. ~options => guarded = 1..layer
      BY <1>1, <1>2 DEF CallInv, Guards
    <3>3. caller # layer => layer' - 1 = layer
      BY <1>2, <2>1
    <3> QED BY <1>1, <1>2, <1>3, <2>1, <3>1, <3>2, <3>3 DEF Guards
  <2>5. Matches'
    <3>1. ~restarted => rest = Depth - layer /\ (caller # 0 => layer = Depth)
      BY <1>1 DEF CallInv, Matches
    <3>2. caller # layer => Depth - layer = Depth + 1 - layer'
      BY <1>2, <2>1
    <3> QED BY <1>1, <1>2, <1>3, <2>1, <3>1, <3>2 DEF CallInv, Matches
  <2> QED BY <2>3, <2>4, <2>5 DEF CallInv
<1>4. CASE stage' = "error" /\ UNCHANGED <<layer, index>>
  <2>1. ~IsEndpoint(layer) /\ index' \in [Layers -> Nat]
    BY <1>2, <1>4 DEF IsEndpoint
  <2> QED BY <1>1, <1>4, <2>1, Stays DEF request
<1> QED BY <1>3, <1>4 DEF Serve

\* The invariant is inductive.
LEMMA CallStep == CallInv /\ [CallNext]_callVars => CallInv'
<1> SUFFICES ASSUME CallInv, [CallNext]_callVars PROVE CallInv'
  OBVIOUS
<1>1. CASE UNCHANGED callVars
  BY <1>1 DEF callVars, CallInv, CallTypes, Places, Guards, Matches
<1> QED BY <1>1, RequestStep, ResponseStep, ErrorStep, HookStep, ExecuteStep, ResolveStep, BeforeStep, ServeStep
        DEF CallNext

\* What an endpoint's call finds: the hooks of all APIs above it have passed.
LEMMA Guarded ==
  ASSUME CallInv, [CallNext]_callVars, stage = "execute", stage' # "execute"
  PROVE  guarded = 1..caller /\ ~options
<1>1. layer = Depth + 1
  BY DEF CallInv, Places
<1> QED BY <1>1 DEF CallInv, Guards

\* When an endpoint runs, the before hooks of the APIs it is mounted in have passed since the
\* request was last repeated outside of them, and the request is no OPTIONS (serve of route.py).
THEOREM EndpointsAreGuarded == CallSpec => RunIsGuarded
<1>1. CallInv /\ [CallNext]_callVars =>
        [stage = "execute" /\ stage' # "execute" => guarded = 1..caller /\ ~options]_callVars
  BY Guarded
<1> QED BY <1>1, CallInitial, CallStep, PTL DEF CallSpec, RunIsGuarded

\* Unless the plugin of an API has the request repeated, the endpoint that the path names runs
\* and no other, however deep it is mounted (_resolve and __serve__ of base.py).
THEOREM PathIsFollowed == CallSpec => []NamedEndpointRuns
<1>1. CallInv => NamedEndpointRuns
  BY DEF CallInv, Matches, NamedEndpointRuns
<1> QED BY <1>1, CallInitial, CallStep, PTL DEF CallSpec

HIDE CallAssumption
-----------------------------------------------------------------------------
(***************************************************************************)
(* Proofs about RelationSave, for any objects, keys and calls.  The        *)
(* invariant follows the call from statement to statement: what the row,   *)
(* the keys and the objects are so far (Stored, while no error has been    *)
(* ignored), and that objects of before stay until those that are no       *)
(* longer given are deleted (Remaining).                                   *)
(***************************************************************************)

USE SaveAssumption

SaveSteps == {"start", "update", "missing", "parent", "child", "create", "keys", "link", "objects",
              "leave", "saved", "raised"}
RowSteps  == {"start", "update", "missing", "parent", "child", "create"}   \* the row is yet to be stored

\* The tables, with any keys.
Rows == [row: {"none", "old", "new"}, base: BOOLEAN, owner: [Objects -> {"none", "this", "other"}],
         links: SUBSET (RelKeys \cup GivenKeys)]

SaveTypes ==
  /\ opt \in Modes /\ db \in Rows /\ before \in Rows /\ broken \in BOOLEAN /\ meddled \in BOOLEAN
  /\ step \in SaveSteps /\ todo \subseteq Given /\ failed \subseteq Given \cup {"keys", "prune"}

\* What the call began with, and where errors leave a trace.
Began ==
  /\ \A o \in Objects : before.owner[o] = "none" <=> o \in NewObjects
  /\ broken => opt.transaction
  /\ ~opt.ignore_errors => failed = {} /\ ~broken
  /\ before.row = "none" => OfThis(before) = {} /\ before.links = {}
  /\ step \in RowSteps \ {"start"} => ~opt.must_create

\* A row that had to be new has nothing else to refer to it.
Fresh ==
  ~meddled /\ opt.must_create /\ step \notin RowSteps /\ step # "raised" =>
    before.row = "none" /\ OfThis(db) \subseteq Given /\ db.links \subseteq GivenKeys

Remaining ==
  ~meddled =>
    /\ step \in RowSteps => db = before
    /\ step = "update" => db.row # "none"
    /\ step \in {"keys", "link", "objects"} => OfThis(before) \subseteq OfThis(db)
    /\ step \in {"leave", "saved"} => failed \cap OfThis(before) \subseteq OfThis(db)

Stored ==
  ~meddled /\ ~opt.ignore_errors =>
    /\ step \in {"keys", "link", "objects", "leave", "saved"} => db.row = "new"
    /\ step \in {"objects", "leave", "saved"} =>
         GivenKeys \subseteq db.links /\ (opt.async /\ ~opt.must_create => db.links = GivenKeys)
    /\ step = "objects" => Given \ todo \subseteq OfThis(db)
    /\ step \in {"leave", "saved"} => Given \subseteq OfThis(db) /\ (~opt.must_create => OfThis(db) = Given)

SaveInv == SaveTypes /\ Began /\ Remaining /\ Stored /\ Fresh /\ FailureLeavesNothing

\* A call begins (save).
LEMMA SaveInitial == SaveInit => SaveInv
<1> SUFFICES ASSUME SaveInit PROVE SaveInv
  OBVIOUS
<1>1. db \in Tables /\ Tables \subseteq Rows
  BY DEF SaveInit, Tables, Rows
<1>2. SaveTypes
  BY <1>1 DEF SaveInit, SaveTypes, SaveSteps, Modes
<1> QED BY <1>2 DEF SaveInit, SaveInv, Began, Remaining, Stored, Fresh, RowSteps, OfThis, FailureLeavesNothing

\* What a step of the call leaves alone.
Fixed == opt' = opt /\ before' = before /\ meddled' = meddled

\* An error that nobody catches ends the call (Raises).
LEMMA RaisesStep ==
  ASSUME SaveInv, Raises, before' = before, meddled' = meddled, UNCHANGED <<broken, failed>>,
         todo' \subseteq Given, opt' \in {opt, [opt EXCEPT !.must_create = TRUE]}
  PROVE  SaveInv'
<1>0. /\ opt' \in Modes /\ opt'.async = opt.async /\ opt'.ignore_errors = opt.ignore_errors
      /\ opt'.transaction = opt.transaction
  BY DEF SaveInv, SaveTypes, Modes
<1>1. /\ before' = before /\ meddled' = meddled /\ broken' = broken /\ failed' = failed
      /\ step' = "raised" /\ db' = IF opt.transaction THEN before ELSE db
  BY DEF Raises
<1>2. SaveTypes' /\ Began'
  BY <1>0, <1>1 DEF SaveInv, SaveTypes, SaveSteps, Began, RowSteps
<1>3. Remaining' /\ Stored' /\ Fresh' /\ FailureLeavesNothing'
  BY <1>0, <1>1 DEF SaveInv, Remaining, Stored, Fresh, FailureLeavesNothing, RowSteps
<1> QED BY <1>2, <1>3 DEF SaveInv

\* The row is written, and must_create may be turned on (save_data).
LEMMA RowStored ==
  ASSUME SaveInv, step \in RowSteps, before' = before, meddled' = meddled, UNCHANGED <<broken, todo, failed>>,
         step' = "keys", opt' \in {opt, [opt EXCEPT !.must_create = TRUE]},
         opt'.must_create => db.row = "none",
         db' \in {[db EXCEPT !.row = "new", !.base = TRUE], [db EXCEPT !.row = "new"]}
         \/ (db' = db /\ db.row = "none" /\ step = "update")
  PROVE  SaveInv'
<1>1. /\ before' = before /\ meddled' = meddled /\ broken' = broken /\ failed' = failed
      /\ todo' = todo
  OBVIOUS
<1>0. /\ opt' \in Modes /\ opt'.async = opt.async /\ opt'.ignore_errors = opt.ignore_errors
      /\ opt'.transaction = opt.transaction
  BY DEF SaveInv, SaveTypes, Modes
<1>2. /\ db' \in Rows /\ db'.owner = db.owner /\ db'.links = db.links
      /\ ~meddled => db'.row = "new"
  <2>1. CASE db' = db /\ db.row = "none" /\ step = "update"
    BY <2>1 DEF SaveInv, SaveTypes, Remaining
  <2>2. CASE db' \in {[db EXCEPT !.row = "new", !.base = TRUE], [db EXCEPT !.row = "new"]}
    BY <2>2 DEF SaveInv, SaveTypes, Rows
  <2> QED BY <2>1, <2>2
<1>3. SaveTypes'
  BY <1>0, <1>1, <1>2 DEF SaveInv, SaveTypes, SaveSteps
<1>4. Began'
  BY <1>0, <1>1, <1>2 DEF SaveInv, Began, OfThis, RowSteps
<1>5. Remaining' /\ Stored' /\ FailureLeavesNothing'
  BY <1>0, <1>1, <1>2 DEF SaveInv, Remaining, Stored, FailureLeavesNothing, RowSteps, OfThis
<1>6. Fresh'
  <2>1. ~meddled /\ db.row = "none" => OfThis(db) = {} /\ db.links = {} /\ before.row = "none"
    BY DEF SaveInv, Began, Remaining
  <2>2. OfThis(db)' = OfThis(db)
    BY <1>2 DEF OfThis
  <2> QED BY <1>1, <1>2, <2>1, <2>2 DEF Fresh
<1> QED BY <1>3, <1>4, <1>5, <1>6 DEF SaveInv

\* The call looks before it writes (aexists, and the row of the parent model).
LEMMA Looked ==
  ASSUME SaveInv, step \in RowSteps, Fixed, UNCHANGED <<db, broken, todo, failed>>,
         step' \in RowSteps, step' = "update" => db.row # "none", ~opt.must_create
  PROVE  SaveInv'
<1>1. /\ opt' = opt /\ before' = before /\ meddled' = meddled /\ broken' = broken /\ failed' = failed
      /\ todo' = todo /\ db' = db
  BY DEF Fixed
<1>2. SaveTypes' /\ Began'
  BY <1>1 DEF SaveInv, SaveTypes, SaveSteps, Began, RowSteps
<1>3. Remaining' /\ Stored' /\ Fresh' /\ FailureLeavesNothing'
  BY <1>1 DEF SaveInv, Remaining, Stored, Fresh, FailureLeavesNothing, RowSteps
<1> QED BY <1>2, <1>3 DEF SaveInv

\* The invariant is kept while the row is looked for and written
\* (SaveRow, UpdateRow, UpdateFailed, LookForParent, InsertRow).
LEMMA RowStep ==
  ASSUME SaveInv, SaveRow \/ UpdateRow \/ UpdateFailed \/ LookForParent \/ InsertRow PROVE SaveInv'
<1>1. /\ before' = before /\ meddled' = meddled /\ UNCHANGED <<broken, todo, failed>> /\ todo' \subseteq Given
      /\ opt' \in {opt, [opt EXCEPT !.must_create = TRUE]}
  <2>1. opt = [opt EXCEPT !.must_create = opt.must_create] /\ opt.must_create \in BOOLEAN /\ opt.async \in BOOLEAN
    BY DEF SaveInv, SaveTypes, Modes
  <2>2. CASE InsertRow
    <3>1. opt.must_create \/ (step = "create" /\ opt.async) \in BOOLEAN
      BY <2>1
    <3> QED BY <2>1, <2>2, <3>1 DEF InsertRow, SaveInv, SaveTypes
  <2> QED BY <2>2 DEF SaveRow, UpdateRow, UpdateFailed, LookForParent, SaveInv, SaveTypes
<1>2. step \in RowSteps /\ (step # "start" => ~opt.must_create)
  BY DEF SaveRow, UpdateRow, UpdateFailed, LookForParent, InsertRow, RowSteps, SaveInv, Began
<1>3. CASE Raises
  BY <1>1, <1>3, RaisesStep
<1>4. CASE /\ step' = "keys" /\ (opt'.must_create => db.row = "none")
           /\ db' \in {[db EXCEPT !.row = "new", !.base = TRUE], [db EXCEPT !.row = "new"]}
  BY <1>1, <1>2, <1>4, RowStored
<1>5. CASE step' = "keys" /\ db' = db /\ db.row = "none" /\ step = "update"
  BY <1>1, <1>2, <1>5, RowStored
<1>6. CASE db' = db /\ step' \in RowSteps /\ (step' = "update" => db.row # "none") /\ Fixed /\ ~opt.must_create
  BY <1>1, <1>2, <1>6, Looked
<1>7. CASE SaveRow
  <2>1. opt' = opt /\ Fixed
    BY <1>7 DEF SaveRow, Fixed
  <2> QED BY <1>3, <1>4, <1>6, <1>7, <2>1 DEF SaveRow, Create, Store, RowSteps
<1>8. CASE UpdateRow
  BY <1>2, <1>3, <1>4, <1>5, <1>8 DEF UpdateRow, Store
<1>9. CASE UpdateFailed
  BY <1>3, <1>9 DEF UpdateFailed
<1>10. CASE LookForParent
  BY <1>2, <1>6, <1>10 DEF LookForParent, RowSteps, Fixed
<1>11. CASE InsertRow
  <2>1. opt'.must_create => step = "create"
    BY <1>2, <1>11 DEF InsertRow, SaveInv, SaveTypes, Modes
  <2> QED BY <1>3, <1>4, <1>11, <2>1 DEF InsertRow, Create, Store
<1> QED BY <1>7, <1>8, <1>9, <1>10, <1>11

\* The invariant is kept when the keys are looked for (FindKeys).
LEMMA FindStep == ASSUME SaveInv, FindKeys PROVE SaveInv'
<1>1. /\ opt' = opt /\ before' = before /\ meddled' = meddled /\ broken' = broken /\ failed' = failed
      /\ todo' = todo /\ db' = db /\ step = "keys" /\ step' = "link"
  BY DEF FindKeys
<1>2. SaveTypes' /\ Began'
  BY <1>1 DEF SaveInv, SaveTypes, SaveSteps, Began, RowSteps
<1>3. Remaining' /\ Stored' /\ Fresh' /\ FailureLeavesNothing'
  BY <1>1 DEF SaveInv, Remaining, Stored, Fresh, FailureLeavesNothing, RowSteps
<1> QED BY <1>2, <1>3 DEF SaveInv

\* An error of a relation is ignored: nothing was written, and it is known which (RelationFails).
LEMMA Ignored ==
  ASSUME SaveInv, NEW name, name \subseteq Given \cup {"keys", "prune"}, NEW next, NEW breaks \in BOOLEAN,
         RelationFails(name, next, breaks), opt.ignore_errors, Fixed, todo' \subseteq Given,
         \/ step \in {"link", "objects"} /\ next = "objects"
         \/ step = "objects" /\ next = "leave"
  PROVE  SaveInv'
<1>1. /\ opt' = opt /\ before' = before /\ meddled' = meddled
      /\ failed' = failed \cup name /\ broken' = (broken \/ (opt.transaction /\ breaks))
      /\ step' = next /\ db' = db
  BY DEF Fixed, RelationFails
<1>2. SaveTypes' /\ Began'
  BY <1>1 DEF SaveInv, SaveTypes, SaveSteps, Began, RowSteps
<1>3. Remaining' /\ Stored' /\ Fresh' /\ FailureLeavesNothing'
  BY <1>1 DEF SaveInv, Remaining, Stored, Fresh, FailureLeavesNothing, RowSteps
<1> QED BY <1>2, <1>3 DEF SaveInv

\* Or it ends the call.
LEMMA Failed ==
  ASSUME SaveInv, NEW name, NEW next, NEW breaks, RelationFails(name, next, breaks), ~opt.ignore_errors,
         Fixed, todo' \subseteq Given
  PROVE  SaveInv'
BY RaisesStep DEF RelationFails, Fixed

\* The invariant is kept when the keys are written (Link).
LEMMA LinkStep == ASSUME SaveInv, Link PROVE SaveInv'
<1>1. step = "link" /\ Fixed /\ todo' = Given
  BY DEF Link, Fixed
<1>2. opt.async \in BOOLEAN
  BY DEF SaveInv, SaveTypes, Modes
<1>3. CASE RelationFails({"keys"}, "objects", ~opt.async)
  BY <1>1, <1>2, <1>3, Ignored, Failed
<1>4. CASE Store([db EXCEPT !.links = Linked], "objects") /\ UNCHANGED <<broken, failed>>
  <2>1. /\ opt' = opt /\ before' = before /\ meddled' = meddled /\ broken' = broken /\ failed' = failed
        /\ step' = "objects" /\ db' = [db EXCEPT !.links = Linked]
    BY <1>1, <1>4 DEF Store, Fixed
  <2>2. /\ db' \in Rows /\ db'.owner = db.owner /\ db'.row = db.row /\ GivenKeys \subseteq db'.links
        /\ db'.links \subseteq db.links \cup GivenKeys
        /\ opt.async /\ ~opt.must_create => db'.links = GivenKeys
    BY <2>1 DEF SaveInv, SaveTypes, Rows, Linked
  <2>3. SaveTypes' /\ Began'
    BY <1>1, <2>1, <2>2 DEF SaveInv, SaveTypes, SaveSteps, Began, RowSteps
  <2>4. Remaining' /\ Stored' /\ Fresh' /\ FailureLeavesNothing'
    BY <1>1, <2>1, <2>2 DEF SaveInv, Remaining, Stored, Fresh, FailureLeavesNothing, RowSteps, OfThis
  <2> QED BY <2>3, <2>4 DEF SaveInv
<1> QED BY <1>3, <1>4 DEF Link

\* The invariant is kept when one object is written (SaveObject).
LEMMA ObjectStep == ASSUME SaveInv, NEW o \in Objects, SaveObject(o) PROVE SaveInv'
<1>1. step = "objects" /\ Fixed /\ o \in todo /\ o \in Given /\ todo' = todo \ {o} /\ todo' \subseteq Given
  BY DEF SaveObject, Fixed, SaveInv, SaveTypes
<1>2. opt.aborts \in BOOLEAN
  BY DEF SaveInv, SaveTypes, Modes
<1>3. CASE RelationFails({o}, "objects", opt.aborts)
  BY <1>1, <1>2, <1>3, Ignored, Failed
<1>4. CASE Store([db EXCEPT !.owner[o] = "this"], "objects") /\ UNCHANGED <<broken, failed>>
  <2>1. /\ opt' = opt /\ before' = before /\ meddled' = meddled /\ broken' = broken /\ failed' = failed
        /\ step' = "objects" /\ db' = [db EXCEPT !.owner[o] = "this"]
    BY <1>1, <1>4 DEF Store, Fixed
  <2>2. /\ db' \in Rows /\ db'.row = db.row /\ db'.links = db.links
        /\ db'.owner = [db.owner EXCEPT ![o] = "this"] /\ db.owner \in [Objects -> {"none", "this", "other"}]
    BY <2>1 DEF SaveInv, SaveTypes, Rows
  <2>3. OfThis(db') = OfThis(db) \cup {o}
    BY <2>2 DEF OfThis
  <2>4. SaveTypes' /\ Began'
    BY <1>1, <2>1, <2>2 DEF SaveInv, SaveTypes, SaveSteps, Began, RowSteps
  <2>5. OfThis(before)' = OfThis(before) /\ OfThis(db)' = OfThis(db')
    BY <2>1 DEF OfThis
  <2>6. Remaining' /\ Stored' /\ Fresh' /\ FailureLeavesNothing'
    BY <1>1, <2>1, <2>2, <2>3, <2>5 DEF SaveInv, Remaining, Stored, Fresh, FailureLeavesNothing, RowSteps
  <2> QED BY <2>4, <2>6 DEF SaveInv
<1> QED BY <1>3, <1>4 DEF SaveObject

\* The invariant is kept when the objects that are not given are deleted (Prune): an object that
\* was there before and could not be saved is among those that are kept.
LEMMA PruneStep == ASSUME SaveInv, Prune PROVE SaveInv'
<1>1. step = "objects" /\ Fixed /\ todo = {} /\ todo' \subseteq Given
  BY DEF Prune, Fixed
<1>2. opt.aborts \in BOOLEAN
  BY DEF SaveInv, SaveTypes, Modes
<1>3. CASE RelationFails({"prune"}, "leave", opt.aborts)
  BY <1>1, <1>2, <1>3, Ignored, Failed
<1>4. CASE opt.must_create /\ step' = "leave" /\ UNCHANGED <<db, broken, failed>>
  <2>1. /\ opt' = opt /\ before' = before /\ meddled' = meddled /\ broken' = broken /\ failed' = failed
        /\ step' = "leave" /\ db' = db
    BY <1>1, <1>4 DEF Fixed
  <2>2. SaveTypes' /\ Began'
    BY <1>1, <2>1 DEF SaveInv, SaveTypes, SaveSteps, Began, RowSteps
  <2>3. Remaining' /\ Stored' /\ Fresh' /\ FailureLeavesNothing'
    BY <1>1, <1>4, <2>1 DEF SaveInv, Remaining, Stored, Fresh, FailureLeavesNothing, RowSteps
  <2> QED BY <2>2, <2>3 DEF SaveInv
<1>5. CASE /\ ~opt.must_create /\ UNCHANGED <<broken, failed>>
           /\ Store([db EXCEPT !.owner = [o \in Objects |->
                       IF db.owner[o] = "this" /\ o \notin Kept THEN "none" ELSE db.owner[o]]], "leave")
  <2> DEFINE left == [o \in Objects |-> IF db.owner[o] = "this" /\ o \notin Kept THEN "none" ELSE db.owner[o]]
  <2>1. /\ opt' = opt /\ before' = before /\ meddled' = meddled /\ broken' = broken /\ failed' = failed
        /\ step' = "leave" /\ db' = [db EXCEPT !.owner = left]
    BY <1>1, <1>5 DEF Store, Fixed
  <2>2. left \in [Objects -> {"none", "this", "other"}]
    BY DEF SaveInv, SaveTypes, Rows
  <2>3. db' \in Rows /\ db'.row = db.row /\ db'.links = db.links /\ db'.owner = left
    <3> HIDE DEF left
    <3> QED BY <2>1, <2>2 DEF SaveInv, SaveTypes, Rows
  <2>4. OfThis(db)' = OfThis(db) \cap Kept /\ OfThis(before)' = OfThis(before)
    BY <2>1, <2>3 DEF OfThis
  <2>5. failed \cap OfThis(before) \subseteq Kept
    <3>1. \A o \in OfThis(before) : o \in Objects /\ o \notin NewObjects
      BY DEF SaveInv, Began, OfThis
    <3>2. \A o \in failed \cap Objects : o \in Given
      BY DEF SaveInv, SaveTypes
    <3> QED BY <3>1, <3>2 DEF Kept
  <2>6. ~opt.ignore_errors => Kept = Given
    BY DEF SaveInv, Began, Kept
  <2>7. SaveTypes' /\ Began'
    BY <1>1, <2>1, <2>3 DEF SaveInv, SaveTypes, SaveSteps, Began, RowSteps
  <2>8. Remaining'
    BY <1>1, <2>1, <2>4, <2>5 DEF SaveInv, Remaining, RowSteps
  <2>9. Stored'
    BY <1>1, <2>1, <2>3, <2>4, <2>6 DEF SaveInv, Stored
  <2>10. FailureLeavesNothing'
    BY <2>1 DEF FailureLeavesNothing
  <2>11. Fresh'
    BY <1>5, <2>1 DEF Fresh
  <2> QED BY <2>7, <2>8, <2>9, <2>10, <2>11 DEF SaveInv
<1> QED BY <1>3, <1>4, <1>5 DEF Prune

\* The invariant is kept when the block is left (Leave).
LEMMA LeaveStep == ASSUME SaveInv, Leave PROVE SaveInv'
<1>1. /\ opt' = opt /\ before' = before /\ meddled' = meddled /\ broken' = broken /\ failed' = failed
      /\ todo' = todo /\ step = "leave" /\ step' = "saved" /\ db' = IF broken THEN before ELSE db
  BY DEF Leave
<1>2. SaveTypes' /\ Began'
  BY <1>1 DEF SaveInv, SaveTypes, SaveSteps, Began, RowSteps
<1>3. Remaining' /\ Stored' /\ Fresh' /\ FailureLeavesNothing'
  BY <1>1 DEF SaveInv, Began, Remaining, Stored, Fresh, FailureLeavesNothing, RowSteps
<1> QED BY <1>2, <1>3 DEF SaveInv

\* The invariant is kept when another session writes: the rest is silent about such a call (Meddle).
LEMMA MeddleStep == ASSUME SaveInv, Meddle PROVE SaveInv'
<1>1. /\ opt' = opt /\ before' = before /\ meddled' = TRUE /\ broken' = broken /\ failed' = failed
      /\ todo' = todo /\ step' = step /\ ~opt.transaction
  BY DEF Meddle
<1>2. db' \in Rows
  <2>1. db \in Rows
    BY DEF SaveInv, SaveTypes
  <2>2. CASE db' = [db EXCEPT !.row = "none", !.base = FALSE, !.links = {},
                     !.owner = [o \in Objects |-> IF db.owner[o] = "this" THEN "none" ELSE db.owner[o]]]
    <3> DEFINE left == [o \in Objects |-> IF db.owner[o] = "this" THEN "none" ELSE db.owner[o]]
    <3>1. left \in [Objects -> {"none", "this", "other"}]
      BY <2>1 DEF Rows
    <3>2. db' = [db EXCEPT !.row = "none", !.base = FALSE, !.links = {}, !.owner = left]
      BY <2>2
    <3> HIDE DEF left
    <3> QED BY <2>1, <3>1, <3>2 DEF Rows
  <2>3. CASE \E k \in RelKeys : db' = [db EXCEPT !.links = @ \cup {k}]
    BY <2>1, <2>3 DEF Rows
  <2> QED BY <2>2, <2>3 DEF Meddle
<1> QED BY <1>1, <1>2 DEF SaveInv, SaveTypes, Began, Remaining, Stored, Fresh, FailureLeavesNothing

\* The invariant is inductive.
LEMMA SaveStep == SaveInv /\ [SaveNext]_saveVars => SaveInv'
<1> SUFFICES ASSUME SaveInv, [SaveNext]_saveVars PROVE SaveInv'
  OBVIOUS
<1>1. CASE UNCHANGED saveVars
  BY <1>1 DEF saveVars, SaveInv, SaveTypes, Began, Remaining, Stored, Fresh, FailureLeavesNothing, OfThis
<1> QED BY <1>1, RowStep, FindStep, LinkStep, ObjectStep, PruneStep, LeaveStep, MeddleStep DEF SaveNext

\* A save in a transaction that raises has changed nothing, and one that ended without an error
\* has stored what it did not ignore (save_data, save_relation_keys, bulk_save of compiler.py).
THEOREM SavesAreWhole == SaveSpec => []SaveIsWhole
<1>1. SaveInv => SaveIsWhole
  BY DEF SaveInv, SaveTypes, Remaining, Stored, Fresh, RowSteps, SaveIsWhole, SavedMeansSaved
<1> QED BY <1>1, SaveInitial, SaveStep, PTL DEF SaveSpec
=============================================================================
