------------------------------ MODULE HttpCache ------------------------------
(***************************************************************************)
(* The HTTP cache plugin of an API (core/api/plugins/cache.py).            *)
(*                                                                         *)
(* process_response compares what the service answers with the validators  *)
(* the client sent and may answer 304 in its place.  A client keeps the    *)
(* last answer with its validators and sends both of them with every later *)
(* request; between two requests the resource changes.                     *)
(*                                                                         *)
(* A version of the resource stands for its body and for the time it was   *)
(* last modified; a 304 has no validators, the client keeps those it has.  *)
(***************************************************************************)
EXTENDS Naturals

CONSTANTS Visitors,      \* the HTTP clients
          Settings,      \* the settings of the service and of the plugin to consider
          MaxVersion     \* bound: changes of the resource

\* dated: the service sets Last-Modified; tagged: it sets ETag itself
ASSUME VisitAssumption ==
  /\ Settings \subseteq [dated: BOOLEAN, tagged: BOOLEAN, etag: BOOLEAN, last_modified: BOOLEAN]
  /\ MaxVersion \in Nat

VARIABLES setting,   \* one of Settings
          version,   \* of the resource, from 1
          copy,      \* [Visitors -> the version the client has and its validators]
          answer     \* [Visitors -> the status of the last answer, 0 if there is none]

visitVars == <<setting, version, copy, answer>>

NoCopy == [version |-> 0, etag |-> 0, date |-> 0]

VisitInit ==
  /\ setting \in Settings
  /\ version = 1
  /\ copy = [v \in Visitors |-> NoCopy]
  /\ answer = [v \in Visitors |-> 0]

Change ==
  /\ version < MaxVersion
  /\ version' = version + 1
  /\ UNCHANGED <<setting, copy, answer>>

LastModified == IF setting.dated THEN version ELSE 0
ETag == IF setting.tagged \/ setting.etag THEN version ELSE 0

\* Last-Modified against If-Modified-Since, as the code has it
ModifiedAfter(date) == setting.last_modified /\ date # 0 /\ LastModified # 0 /\ LastModified > date

\* mutant: a client that sent an ETag is answered 304 whatever it is
SameTagAny(tag) == setting.etag /\ tag # 0 /\ ETag # 0

SameTag(tag) == setting.etag /\ tag # 0 /\ ETag # 0 /\ tag = ETag

Status(v) == IF ModifiedAfter(copy[v].date) \/ SameTag(copy[v].etag) THEN 304 ELSE 200

\* A GET request; an answer with a body replaces the copy.
Visit(v) ==
  /\ answer' = [answer EXCEPT ![v] = Status(v)]
  /\ copy' = IF Status(v) = 304 THEN copy
             ELSE [copy EXCEPT ![v] = [version |-> version, etag |-> ETag, date |-> LastModified]]
  /\ UNCHANGED <<setting, version>>

VisitNext == Change \/ \E v \in Visitors : Visit(v)

VisitSpec == VisitInit /\ [][VisitNext]_visitVars

-----------------------------------------------------------------------------
VisitTypeOK ==
  /\ setting \in Settings /\ version \in 1..MaxVersion
  /\ copy \in [Visitors -> [version: 0..version, etag: 0..version, date: 0..version]]
  /\ answer \in [Visitors -> {0, 200, 304}]

\* A client that is answered 304 has the version the service would have sent, when
\* the plugin does not look at a modification time.
TaggedIsCurrent ==
  [][\A v \in Visitors :
       /\ answer'[v] = 304 /\ Visit(v)
       /\ copy[v].date = 0 \/ ~setting.last_modified
       => copy[v].version = version]_visitVars

\* The same for every service: "can handle HTTP caching like `Last-Modified` /
\* `Etag` automatically" (docs/en/community/release.md:12).
NotModifiedIsCurrent ==
  [][\A v \in Visitors : answer'[v] = 304 /\ Visit(v) => copy[v].version = version]_visitVars
=============================================================================
