------------------------------ MODULE KeyCache ------------------------------
(***************************************************************************)
(* A key cache with limits on redis (core/cache/backends/redis/entity.py). *)
(*                                                                         *)
(* Two sorted sets trace the keys: hits (how often a key was read) and     *)
(* updates (when it was written).  Before a key is written, prepare counts *)
(* the keys that exist and evicts what exceeds max_entries.  Every         *)
(* operation is a sequence of redis commands, each of them atomic, and the *)
(* commands of several clients interleave; a key with a timeout expires    *)
(* without leaving the sorted sets.                                        *)
(*                                                                         *)
(* Values are the numbers that alter adds to; 0 is a missing key.  The     *)
(* cache has no variants.                                                  *)
(***************************************************************************)
EXTENDS Naturals, FiniteSets

CONSTANTS Clients,       \* processes and threads that use the cache
          CacheKeys,
          ListKeys,      \* those that hold a list
          BatchSize,     \* bound: keys of one update
          Policies,      \* the values of max_entries_policy to consider
          MaxEntries, Tolerance,
          AlterLimit,    \* the limit given to alter
          MaxHits,       \* bound: scores of hits
          MaxLapses,     \* bound: keys that expire
          MaxOps         \* bound: operations

ASSUME CacheAssumption ==
  /\ MaxEntries \in Nat \ {0} /\ Tolerance \in Nat /\ AlterLimit \in Nat \ {0}
  /\ Policies \subseteq {"LFU", "LRU", "RANDOM"}
  /\ ListKeys \subseteq CacheKeys /\ BatchSize \in Nat \ {0}
  /\ IsFiniteSet(CacheKeys) /\ Clients # {}

VARIABLES policy,    \* max_entries_policy
          val,       \* [CacheKeys -> the value, 0 if there is no such key]
          hits,      \* sorted set: [the traced keys -> score]
          updates,   \* sorted set: [the traced keys -> rank], the latest write has the highest
          client,    \* [Clients -> the operation under way]
          ops,       \* operations so far
          slack,     \* ghost: traces left without a key, keys written without an eviction,
                     \* victims that were drawn twice
          lapsed,    \* keys that expired
          mixed      \* ghost: two operations have been under way at once

cacheVars == <<policy, val, hits, updates, client, ops, slack, lapsed, mixed>>

NoOp == [pc |-> "idle", op |-> "none", keys |-> {}, seen |-> {}, excess |-> 0, drop |-> {}]

CacheInit ==
  /\ policy \in Policies
  /\ val = [k \in CacheKeys |-> 0]
  /\ hits = << >> /\ updates = << >>
  /\ client = [c \in Clients |-> NoOp]
  /\ ops = 0 /\ slack = 0 /\ lapsed = 0 /\ mixed = FALSE

Held      == {k \in CacheKeys : val[k] # 0}
At(c, pc) == client[c].pc = pc
Go(c, pc) == client' = [client EXCEPT ![c].pc = pc]

-----------------------------------------------------------------------------
(* Sorted sets *)

Without(z, S) == [k \in DOMAIN z \ S |-> z[k]]

\* zincrby, which adds a member that is not there (up to the bound of scores)
Raise(z, k) ==
  [j \in DOMAIN z \cup {k} |->
     IF j # k THEN z[j] ELSE IF k \notin DOMAIN z THEN 1 ELSE IF z[k] < MaxHits THEN z[k] + 1 ELSE z[k]]

\* zadd with nx: present members keep their score
AddNew(z, S) == [k \in DOMAIN z \cup S |-> IF k \in DOMAIN z THEN z[k] ELSE 0]

\* zadd of the present time: S gets the highest rank
Ranked(z) == [k \in DOMAIN z |-> Cardinality({z[j] : j \in {j \in DOMAIN z : z[j] < z[k]}})]
Stamp(z, S) ==
  Ranked([k \in DOMAIN z \cup S |-> IF k \in S THEN Cardinality(CacheKeys) + 1 ELSE z[k]])

\* zpopmin: n members that no other one undercuts; ties go either way
PopMin(z, n) ==
  {S \in SUBSET DOMAIN z :
     /\ Cardinality(S) = IF n < Cardinality(DOMAIN z) THEN n ELSE Cardinality(DOMAIN z)
     /\ \A k \in S, j \in DOMAIN z \ S : z[k] <= z[j]}

-----------------------------------------------------------------------------
(* Operations begin *)

Begin(c, op, S, pc) ==
  /\ At(c, "idle") /\ ops < MaxOps
  /\ ops' = ops + 1
  /\ client' = [client EXCEPT ![c] = [NoOp EXCEPT !.pc = pc, !.op = op, !.keys = S]]
  /\ mixed' = (mixed \/ \E d \in Clients \ {c} : ~At(d, "idle"))
  /\ UNCHANGED <<policy, val, hits, updates, slack, lapsed>>

BeginSet(c, op, S) == Begin(c, op, S, "count")      \* set, update and alter prepare first
BeginGet(c, k)     == Begin(c, "get", {k}, "get")
BeginDelete(c, S)  == Begin(c, "delete", S, "drop")
BeginKeys(c)       == Begin(c, "keys", {}, "scan")
BeginClear(c)      == Begin(c, "clear", {}, "scan")
BeginPush(c, k)    == Begin(c, "push", {k}, "write")

Quiet == UNCHANGED <<policy, ops, slack, lapsed, mixed>>

-----------------------------------------------------------------------------
(* prepare *)

\* The traced keys, and next the number of them and of the new keys that exist:
\* a key that is both counts twice.
Trace(c) ==
  /\ At(c, "count")
  /\ client' = [client EXCEPT ![c].pc = "excess", ![c].seen = DOMAIN updates]
  /\ Quiet /\ UNCHANGED <<val, hits, updates>>

Excess(S, T) ==
  LET n == Cardinality(Held \cap S) + Cardinality(Held \cap T)
  IN  IF n > MaxEntries THEN n - MaxEntries ELSE 0

CountExcess(c) ==
  LET excess == Excess(client[c].seen, client[c].keys) IN
  /\ At(c, "excess")
  /\ client' = [client EXCEPT ![c].excess = excess,
                  ![c].pc = IF excess <= Tolerance THEN "zadd"
                            ELSE IF policy = "RANDOM" THEN "scan" ELSE "pop"]
  /\ Quiet /\ UNCHANGED <<val, hits, updates>>

\* zpopmin takes the victims out of the sorted set of the policy.
Pop(c) ==
  LET z == IF policy = "LFU" THEN hits ELSE updates IN
  /\ At(c, "pop")
  /\ \E S \in PopMin(z, client[c].excess) :
       /\ client' = [client EXCEPT ![c].drop = S, ![c].pc = IF S = {} THEN "zadd" ELSE "drop"]
       /\ hits'    = IF policy = "LFU" THEN Without(hits, S) ELSE hits
       /\ updates' = IF policy = "LFU" THEN updates ELSE Without(updates, S)
  /\ Quiet /\ UNCHANGED val

\* random.choices picks with replacement among the keys that keys() returned,
\* and raises when there are none.
Pick(c) ==
  /\ At(c, "pick")
  /\ \/ \E S \in SUBSET client[c].seen \ {{}} :
          /\ Cardinality(S) <= client[c].excess
          /\ client' = [client EXCEPT ![c].drop = S, ![c].pc = "drop"]
          /\ slack' = slack + client[c].excess - Cardinality(S)
     \/ client[c].seen = {} /\ Go(c, "idle") /\ UNCHANGED slack
  /\ UNCHANGED <<policy, ops, lapsed, mixed, val, hits, updates>>

\* delete: the keys first, then their traces.  An eviction goes on to zadd.
Victims(c) == IF client[c].op = "delete" THEN client[c].keys ELSE client[c].drop

Drop(c) ==
  /\ At(c, "drop")
  /\ val' = [k \in CacheKeys |-> IF k \in Victims(c) THEN 0 ELSE val[k]]
  /\ Go(c, "droph")
  /\ Quiet /\ UNCHANGED <<hits, updates>>

DropHits(c) ==
  /\ At(c, "droph")
  /\ hits' = Without(hits, Victims(c))
  /\ Go(c, "dropu")
  /\ Quiet /\ UNCHANGED <<val, updates>>

DropUpdates(c) ==
  /\ At(c, "dropu")
  /\ updates' = Without(updates, Victims(c))
  /\ Go(c, IF client[c].op = "delete" THEN "idle" ELSE "zadd")
  /\ Quiet /\ UNCHANGED <<val, hits>>

AddHits(c) ==
  /\ At(c, "zadd")
  /\ hits' = AddNew(hits, client[c].keys)
  /\ Go(c, "zaddu")
  /\ Quiet /\ UNCHANGED <<val, updates>>

\* mutant: the time of the write is not traced
AddUpdatesNone(c) ==
  /\ At(c, "zaddu")
  /\ Go(c, "write")
  /\ Quiet /\ UNCHANGED <<val, hits, updates>>

AddUpdates(c) ==
  /\ At(c, "zaddu")
  /\ updates' = Stamp(updates, client[c].keys)
  /\ Go(c, "write")
  /\ Quiet /\ UNCHANGED <<val, hits>>

-----------------------------------------------------------------------------
(* The commands of the operations themselves *)

\* SET or MSET writes 1; SET with nx or xx only if the key is missing or there.
Write(c) ==
  LET S == client[c].keys
      T == IF client[c].op = "nx" THEN S \ Held
           ELSE IF client[c].op = "xx" THEN S \cap Held ELSE S
  IN  /\ At(c, "write") /\ client[c].op \in {"set", "nx", "xx"}
      /\ val' = [k \in CacheKeys |-> IF k \in T THEN 1 ELSE val[k]]
      /\ slack' = slack + IF client[c].op = "xx" /\ T = {} THEN 1 ELSE 0
      /\ Go(c, "idle")
      /\ UNCHANGED <<policy, ops, lapsed, mixed, hits, updates>>

\* alter_amount.lua
Within(v) == v + 1 <= AlterLimit

Alter(c) ==
  /\ At(c, "write") /\ client[c].op = "alter"
  /\ \E k \in client[c].keys :
       val' = [val EXCEPT ![k] = IF Within(@) THEN @ + 1 ELSE @]
  /\ \E k \in client[c].keys : Go(c, IF Within(val[k]) THEN "hit" ELSE "idle")
  /\ Quiet /\ UNCHANGED <<hits, updates>>

\* LPUSH, then the trace; a list is not in hits
Push(c) ==
  /\ At(c, "write") /\ client[c].op = "push"
  /\ val' = [k \in CacheKeys |-> IF k \in client[c].keys THEN 1 ELSE val[k]]
  /\ slack' = slack + Cardinality(client[c].keys \ Held)
  /\ Go(c, "pushed")
  /\ UNCHANGED <<policy, ops, lapsed, mixed, hits, updates>>

Pushed(c) ==
  /\ At(c, "pushed")
  /\ updates' = Stamp(updates, client[c].keys)
  /\ Go(c, "idle")
  /\ Quiet /\ UNCHANGED <<val, hits>>

Get(c) ==
  /\ At(c, "get")
  /\ Go(c, IF client[c].keys \subseteq Held THEN "hit" ELSE "idle")
  /\ Quiet /\ UNCHANGED <<val, hits, updates>>

\* The hit is traced, whether or not the key still exists.
Hit(c) ==
  /\ At(c, "hit")
  /\ \E k \in client[c].keys : hits' = Raise(hits, k)
  /\ Go(c, "idle")
  /\ Quiet /\ UNCHANGED <<val, updates>>

-----------------------------------------------------------------------------
(* keys and clear *)

Scan(c) ==
  /\ At(c, "scan")
  /\ client' = [client EXCEPT ![c].seen = DOMAIN updates,
                  ![c].pc = IF client[c].op = "clear" THEN "clear" ELSE "misses"]
  /\ Quiet /\ UNCHANGED <<val, hits, updates>>

\* batch_exists.lua: the traced keys that do not exist
Misses(c) ==
  /\ At(c, "misses")
  /\ client' = [client EXCEPT ![c].seen = @ \cap Held, ![c].drop = client[c].seen \ Held,
                  ![c].pc = "forget"]
  /\ Quiet /\ UNCHANGED <<val, hits, updates>>

Forget(c) ==
  /\ At(c, "forget")
  /\ hits' = Without(hits, client[c].drop)
  /\ Go(c, "forgetu")
  /\ Quiet /\ UNCHANGED <<val, updates>>

ForgetUpdates(c) ==
  /\ At(c, "forgetu")
  /\ updates' = Without(updates, client[c].drop)
  /\ Go(c, IF client[c].op = "keys" THEN "idle" ELSE "pick")
  /\ Quiet /\ UNCHANGED <<val, hits>>

\* One DEL: the keys and both sorted sets
Clear(c) ==
  /\ At(c, "clear")
  /\ val' = [k \in CacheKeys |-> IF k \in client[c].seen THEN 0 ELSE val[k]]
  /\ hits' = << >> /\ updates' = << >>
  /\ Go(c, "idle")
  /\ Quiet

\* A key with a timeout expires.
Lapse(k) ==
  /\ k \in Held /\ lapsed < MaxLapses
  /\ val' = [val EXCEPT ![k] = 0]
  /\ lapsed' = lapsed + 1 /\ slack' = slack + 1
  /\ UNCHANGED <<policy, hits, updates, client, ops, mixed>>

-----------------------------------------------------------------------------
CacheNext ==
  \/ \E c \in Clients :
       \/ \E S \in SUBSET (CacheKeys \ ListKeys) \ {{}} :
            Cardinality(S) <= BatchSize /\ BeginSet(c, "set", S)
       \/ \E k \in CacheKeys \ ListKeys :
            (\E op \in {"nx", "xx", "alter"} : BeginSet(c, op, {k})) \/ BeginGet(c, k)
       \/ \E k \in ListKeys : BeginPush(c, k)
       \/ \E k \in CacheKeys : BeginDelete(c, {k})
       \/ BeginKeys(c) \/ BeginClear(c)
       \/ Trace(c) \/ CountExcess(c) \/ Pop(c) \/ Pick(c)
       \/ Drop(c) \/ DropHits(c) \/ DropUpdates(c) \/ AddHits(c) \/ AddUpdates(c)
       \/ Write(c) \/ Alter(c) \/ Push(c) \/ Pushed(c) \/ Get(c) \/ Hit(c)
       \/ Scan(c) \/ Misses(c) \/ Forget(c) \/ ForgetUpdates(c) \/ Clear(c)
  \/ \E k \in CacheKeys : Lapse(k)

CacheSpec == CacheInit /\ [][CacheNext]_cacheVars

-----------------------------------------------------------------------------
(* Properties *)

CacheTypeOK ==
  /\ policy \in Policies
  /\ val \in [CacheKeys -> Nat]
  /\ DOMAIN hits \subseteq CacheKeys /\ hits \in [DOMAIN hits -> Nat]
  /\ DOMAIN updates \subseteq CacheKeys /\ updates \in [DOMAIN updates -> Nat]
  /\ client \in [Clients -> [pc: {"idle", "count", "excess", "pop", "pick", "drop", "droph", "dropu",
                                  "zadd", "zaddu", "write", "pushed", "get", "hit", "scan", "misses",
                                  "forget", "forgetu", "clear"},
                             op: {"none", "set", "nx", "xx", "alter", "get", "delete", "keys", "clear", "push"},
                             keys: SUBSET CacheKeys, seen: SUBSET CacheKeys, drop: SUBSET CacheKeys,
                             excess: Nat]]
  /\ \A c \in Clients : client[c].pc \in {"zadd", "zaddu"} => client[c].op \in {"set", "nx", "xx", "alter"}
  /\ ops \in Nat /\ slack \in Nat /\ lapsed \in Nat /\ mixed \in BOOLEAN

Idle == \A c \in Clients : At(c, "idle")

\* Operations that do not overlap leave every key traced, so that clear removes
\* everything and no key escapes the count of max_entries.
EveryKeyTraced == Idle /\ ~mixed => Held \subseteq DOMAIN updates

\* Operations that do not overlap leave no more keys than max_entries allows, but
\* for what one update adds after the eviction, the lists, which are pushed without
\* one, the traces without a key that an eviction takes for keys, and the victims
\* that RANDOM draws twice.
EntriesBounded ==
  Idle /\ ~mixed => Cardinality(Held) <= MaxEntries + Tolerance + BatchSize + slack

\* The cache counts and evicts what it holds (prepare and save_updates, entity.py).
KeysAccounted == EveryKeyTraced /\ EntriesBounded
=============================================================================
