------------------------------ MODULE MCCaches ------------------------------
(* The two engines with a cache, each with the faults and the policy that  *)
(* matter most for it.  The cfg makes Session the cached_db engine; Cache  *)
(* is the engine without a database.  A behaviour looks at one of them, or *)
(* at the assembly of the service they belong to.                          *)
EXTENDS Session, ServiceSetup, TLC

CONSTANTS request1, request2

VARIABLE part

\* the calls of the cache may fail, a key that was lost is replaced
Cache == INSTANCE Session WITH Backend <- "cache", Interrupted <- "cycle", CacheFaults <- TRUE

MCSymmetry == Permutations(Requests)

cachesVars == <<part, vars, setupVars>>

CachesInit ==
  /\ part \in {"cache", "cached_db", "setup"} /\ Init /\ SetupInit
  /\ (part # "setup" => ~service.auto /\ ~service.eager)
  /\ (part = "setup" => jar = [c \in Clients |-> NoKey])

CachesNext ==
  /\ UNCHANGED part
  /\ \/ part = "cached_db" /\ Next       /\ UNCHANGED setupVars
     \/ part = "cache"     /\ Cache!Next /\ UNCHANGED setupVars
     \/ part = "setup"     /\ SetupNext  /\ UNCHANGED vars

CachesSpec == CachesInit /\ [][CachesNext]_cachesVars

\* A revoked session that nobody works on is gone for good, with either engine:
\* no request that starts with the old cookie finds or revives it.
RevokedStaysGone ==
  [][CASE part = "cached_db" -> GoneStaysGone
       [] part = "cache"     -> Cache!GoneStaysGone
       [] part = "setup"     -> TRUE]_cachesVars

\* The cache of a cached_db engine never holds a session that the database has
\* never stored.
CacheOfDbBacked == part = "cached_db" => CacheBacked
=============================================================================
