---------------------------- MODULE ResourceSync ----------------------------
(***************************************************************************)
(* The resources of a service and their copies at the supervisor           *)
(* (OperationsStore.setup in ops/store.py, ResourcesManager.sync_resources *)
(* and save_resources in ops/spv/resources.py, the Resource table).        *)
(*                                                                         *)
(* A process that starts looks for the row of its instance and makes one.  *)
(* The first cycle of a primary worker and "meta sync" upload what the     *)
(* code of the process defines, keep the etag of the answer, and bring the *)
(* table in line with it, in queries that no transaction holds together.   *)
(* Processes of one instance, old and new releases among them, do so at    *)
(* the same time.                                                          *)
(*                                                                         *)
(* There is one connected node that all rows belong to, one instance, and  *)
(* a release stands for the endpoints it defines.  The supervisor is       *)
(* outside the repository: it gives an ident the same remote_id always,    *)
(* and may answer 304 to what it has.  The server column is left out.      *)
(***************************************************************************)
EXTENDS Naturals, Sequences, FiniteSets

CONSTANTS Processes,    \* workers and commands
          Releases,     \* [releases -> the idents of their endpoints]
          FirstRelease,
          MaxResources, \* bound: rows of the Resource table
          MaxSyncs,     \* bound: syncs that are begun
          MaxSetups,    \* bound: processes started
          MaxDeploys,   \* bound: deployments
          MaxBreaks     \* bound: failed requests and queries, killed processes

Endpoints == UNION {Releases[r] : r \in DOMAIN Releases}

ASSUME SyncAssumption ==
  /\ IsFiniteSet(Processes) /\ \A r \in DOMAIN Releases : IsFiniteSet(Releases[r])
  /\ FirstRelease \in DOMAIN Releases
  /\ "instance" \notin Endpoints
  /\ {MaxResources, MaxSyncs, MaxSetups, MaxDeploys, MaxBreaks} \subseteq Nat

VARIABLES release,    \* what is deployed
          process,    \* [Processes -> what it is about]
          resources,  \* the Resource table, in order of pk
          etag,       \* Supervisor.resources_etag, as what it is the digest of
          uploaded,   \* what the supervisor has
          count       \* syncs, setups, deployments and failures so far
                      \* ghost overlap: those that met another one

syncVars == <<release, process, resources, etag, uploaded, count>>

Idents    == Endpoints \cup {"instance"}
NoData    == [idents |-> {}, known |-> FALSE]
NoProcess == [pc |-> "down", release |-> FirstRelease, held |-> 0, force |-> FALSE, read |-> NoData,
              data |-> NoData, mapped |-> {}, update |-> {}, alone |-> FALSE]

SyncInit ==
  /\ release = FirstRelease
  /\ process = [p \in Processes |-> NoProcess]
  /\ resources = << >>
  /\ etag = NoData /\ uploaded = NoData
  /\ count = [syncs |-> 0, setups |-> 0, deploys |-> 0, breaks |-> 0, overlap |-> 0]

Now(p, pc)    == process[p].pc = pc
Proceed(p, pc) == process' = [process EXCEPT ![p].pc = pc]
Rested(q)     == [NoProcess EXCEPT !.pc = "ready", !.release = q.release, !.held = q.held]
Rest(p)       == process' = [process EXCEPT ![p] = Rested(@)]
ResourceIds   == 1..Len(resources)
Live(i)       == ~resources[i].deleted
RowsOf(ident) == {i \in ResourceIds : resources[i].ident = ident}
LeastOf(S)    == CHOOSE i \in S : \A j \in S : i <= j
Working(p)    == process[p].pc \notin {"down", "ready"}

\* A setup or sync begins; those it meets are not alone.
Counted(p, name, new) ==
  LET alone == \A q \in Processes \ {p} : ~Working(q)
  IN  /\ count' = [count EXCEPT ![name] = @ + 1, !.overlap = @ + IF alone THEN 0 ELSE 1]
      /\ process' = [q \in Processes |->
           IF q = p THEN [new EXCEPT !.alone = alone]
           ELSE [process[q] EXCEPT !.alone = @ /\ alone]]

-----------------------------------------------------------------------------
(* store.setup *)

Deploy(r) ==
  /\ count.deploys < MaxDeploys /\ r # release
  /\ release' = r
  /\ count' = [count EXCEPT !.deploys = @ + 1]
  /\ UNCHANGED <<process, resources, etag, uploaded>>

StartProcess(p) ==
  /\ Now(p, "down") /\ count.setups < MaxSetups
  /\ Counted(p, "setups", [NoProcess EXCEPT !.pc = "find", !.release = release])
  /\ UNCHANGED <<release, resources, etag, uploaded>>

\* get_current_instance: the first row that is not deleted
FindInstance(p) ==
  LET found == {i \in RowsOf("instance") : Live(i)} IN
  /\ Now(p, "find")
  /\ process' = [process EXCEPT ![p] =
       IF found = {} THEN [@ EXCEPT !.pc = "make"]
       ELSE Rested([@ EXCEPT !.held = LeastOf(found)])]
  /\ UNCHANGED <<release, resources, etag, uploaded, count>>

\* objects.create: nothing in the table keeps a second row of the ident out
MakeInstance(p) ==
  /\ Now(p, "make") /\ Len(resources) < MaxResources
  /\ resources' = Append(resources, [ident |-> "instance", remote |-> FALSE, deleted |-> FALSE])
  /\ process' = [process EXCEPT ![p] = Rested([@ EXCEPT !.held = Len(resources) + 1])]
  /\ UNCHANGED <<release, etag, uploaded, count>>

-----------------------------------------------------------------------------
(* sync_resources *)

\* The row of the supervisor is read at the start of the cycle or command.
BeginSync(p, force) ==
  /\ Now(p, "ready") /\ count.syncs < MaxSyncs
  /\ Counted(p, "syncs", [process[p] EXCEPT !.pc = "load", !.force = force, !.read = etag])
  /\ UNCHANGED <<release, resources, etag, uploaded>>

\* get_resources: with the remote_id of the instance if it has one by now;
\* None when the digest is the etag that was read
LoadResources(p) ==
  LET data == [idents |-> Releases[process[p].release] \cup {"instance"},
               known  |-> \E i \in RowsOf("instance") : Live(i) /\ resources[i].remote]
  IN  /\ Now(p, "load")
      /\ process' = [process EXCEPT ![p] =
           IF ~process[p].force /\ process[p].read = data THEN Rested(@)
           ELSE [@ EXCEPT !.pc = "upload", !.data = data, !.force = FALSE, !.read = NoData]]
      /\ UNCHANGED <<release, resources, etag, uploaded, count>>

\* upload_resources; a 304 ends the sync
Upload(p) ==
  /\ Now(p, "upload")
  /\ uploaded' = process[p].data
  /\ \/ Proceed(p, "etag")
     \/ uploaded = process[p].data /\ Rest(p)
  /\ UNCHANGED <<release, resources, etag, count>>

\* The etag of the answer is saved before the resources are.
SaveEtag(p) ==
  /\ Now(p, "etag")
  /\ etag' = process[p].data
  /\ Proceed(p, "map")
  /\ UNCHANGED <<release, resources, uploaded, count>>

-----------------------------------------------------------------------------
(* save_resources *)

\* remote_pk_map: the last row of each remote_id, deleted or not
ReadMap(p) ==
  LET remote == {i \in ResourceIds : resources[i].remote} IN
  /\ Now(p, "map")
  /\ process' = [process EXCEPT ![p].pc = "plan",
       ![p].mapped = {i \in remote : \A j \in remote : resources[j].ident = resources[i].ident => i >= j}]
  /\ UNCHANGED <<release, resources, etag, uploaded, count>>

\* mutant: rows without a remote_id are left alone
PlanMapped(p) ==
  /\ Now(p, "plan")
  /\ process' = [process EXCEPT ![p].pc = "update",
       ![p].update = {i \in process[p].mapped : resources[i].ident \in process[p].data.idents}]
  /\ UNCHANGED <<release, resources, etag, uploaded, count>>

\* The rows to update: those of the map, otherwise the first of the ident
\* without a remote_id, deleted or not
Plan(p) ==
  LET idents == process[p].data.idents
      mapped == {i \in process[p].mapped : resources[i].ident \in idents}
      rest   == idents \ {resources[i].ident : i \in mapped}
      first(ident) == LET S == {i \in RowsOf(ident) : ~resources[i].remote}
                      IN  IF S = {} THEN {} ELSE {LeastOf(S)}
  IN  /\ Now(p, "plan")
      /\ process' = [process EXCEPT ![p].pc = "update", ![p].mapped = {},
                                     ![p].update = mapped \cup UNION {first(e) : e \in rest}]
      /\ UNCHANGED <<release, resources, etag, uploaded, count>>

\* bulk_update: they are not deleted any more and have a remote_id
Update(p) ==
  /\ Now(p, "update")
  /\ resources' = [i \in ResourceIds |->
       IF i \in process[p].update THEN [resources[i] EXCEPT !.remote = TRUE, !.deleted = FALSE]
       ELSE resources[i]]
  /\ Proceed(p, "create")
  /\ UNCHANGED <<release, etag, uploaded, count>>

Created(idents, remote) ==
  {rows \in [1..Cardinality(idents) -> [ident: idents, remote: {remote}, deleted: {FALSE}]] :
     \A e \in idents : \E n \in DOMAIN rows : rows[n].ident = e}

Unmapped(p) == process[p].data.idents \ {resources[i].ident : i \in process[p].update}

\* mutant: the new rows have no remote_id
CreateLocal(p) ==
  /\ Now(p, "create") /\ Len(resources) + Cardinality(Unmapped(p)) <= MaxResources
  /\ \E new \in Created(Unmapped(p), FALSE) : resources' = resources \o new
  /\ process' = [process EXCEPT ![p].pc = "delete", ![p].update = {}]
  /\ UNCHANGED <<release, etag, uploaded, count>>

\* bulk_create: remote_id is not unique, so that there are no conflicts to ignore
CreateMissing(p) ==
  /\ Now(p, "create") /\ Len(resources) + Cardinality(Unmapped(p)) <= MaxResources
  /\ \E new \in Created(Unmapped(p), TRUE) : resources' = resources \o new
  /\ process' = [process EXCEPT ![p].pc = "delete", ![p].update = {}]
  /\ UNCHANGED <<release, etag, uploaded, count>>

\* All rows of the node but those with one of the remote ids are deleted, rows
\* without a remote_id too.
DeleteRest(p) ==
  /\ Now(p, "delete")
  /\ resources' = [i \in ResourceIds |->
       IF resources[i].remote /\ resources[i].ident \in process[p].data.idents THEN resources[i]
       ELSE [resources[i] EXCEPT !.deleted = TRUE]]
  /\ Rest(p)
  /\ UNCHANGED <<release, etag, uploaded, count>>

\* A request or a query fails, an upload perhaps after the supervisor has it:
\* the worker tries again in a later cycle.  Or the process is killed.
BreakSync(p, pc) ==
  /\ count.breaks < MaxBreaks /\ Working(p)
  /\ pc = "ready" => process[p].held # 0
  /\ uploaded' \in IF Now(p, "upload") THEN {uploaded, process[p].data} ELSE {uploaded}
  /\ count' = [count EXCEPT !.breaks = @ + 1]
  /\ process' = [process EXCEPT ![p] = IF pc = "down" THEN NoProcess ELSE Rested(@)]
  /\ UNCHANGED <<release, resources, etag>>

ExitProcess(p) ==
  /\ Now(p, "ready")
  /\ process' = [process EXCEPT ![p] = NoProcess]
  /\ UNCHANGED <<release, resources, etag, uploaded, count>>

-----------------------------------------------------------------------------
SyncStep(p) ==
  \/ FindInstance(p) \/ MakeInstance(p) \/ LoadResources(p) \/ Upload(p) \/ SaveEtag(p)
  \/ ReadMap(p) \/ Plan(p) \/ Update(p) \/ CreateMissing(p) \/ DeleteRest(p)

SyncNext ==
  \/ \E r \in DOMAIN Releases : Deploy(r)
  \/ \E p \in Processes :
       \/ StartProcess(p) \/ ExitProcess(p)
       \/ \E force \in BOOLEAN : BeginSync(p, force)
       \/ SyncStep(p)
       \/ \E pc \in {"ready", "down"} : BreakSync(p, pc)

SyncSpec == SyncInit /\ [][SyncNext]_syncVars

-----------------------------------------------------------------------------
(* Properties *)

Data == [idents: SUBSET Idents, known: BOOLEAN]

SyncTypeOK ==
  /\ release \in DOMAIN Releases
  /\ resources \in Seq([ident: Idents, remote: BOOLEAN, deleted: BOOLEAN])
  /\ Len(resources) <= MaxResources
  /\ process \in [Processes -> [pc: {"down", "find", "make", "ready", "load", "upload", "etag", "map", "plan",
                                     "update", "create", "delete"},
                                release: DOMAIN Releases, held: 0..Len(resources), force: BOOLEAN,
                                read: Data, data: Data, mapped: SUBSET ResourceIds,
                                update: SUBSET ResourceIds, alone: BOOLEAN]]
  /\ etag \in Data /\ uploaded \in Data
  /\ count \in [syncs: 0..MaxSyncs, setups: 0..MaxSetups, deploys: 0..MaxDeploys,
                breaks: 0..MaxBreaks, overlap: 0..MaxSyncs + MaxSetups]
  /\ \A p \in Processes : Now(p, "ready") => process[p].held # 0

\* An ident has more than one row that is live or known to the supervisor only
\* where setups or syncs overlapped, one more for each time.
OneRowPerIdent ==
  \A e \in Idents :
    Cardinality({i \in RowsOf(e) : Live(i) \/ resources[i].remote}) <= 1 + count.overlap

\* The row that a process has taken for its instance, and that its worker and
\* its metrics refer to, is not deleted under it unless setups or syncs overlapped.
HeldRowLives ==
  count.overlap = 0 => \A p \in Processes : process[p].held # 0 => Live(process[p].held)

\* Whatever failed or overlapped syncs left behind, one that meets no other and
\* saves what it was answered leaves the live rows of exactly those idents, all of
\* them known to the supervisor.
SavedAloneIsExact(p) ==
  Now(p, "delete") /\ process'[p].pc = "ready" /\ process[p].alone /\ count' = count
  => LET live == {i \in ResourceIds : ~resources'[i].deleted} IN
     /\ {resources[i].ident : i \in live} = process[p].data.idents
     /\ \A i \in live : resources[i].remote

\* A sync that ends because the etag or the supervisor says that nothing changed
\* leaves the table right, unless one failed or two overlapped: then it is taken
\* for right although it is not (resources.py:494, 521).
IdenticalIsSynced(p) ==
  /\ process[p].pc \in {"load", "upload"} /\ process'[p].pc = "ready" /\ count' = count
  /\ count.breaks = 0 /\ count.overlap = 0
  => \A e \in Releases[process[p].release] \cup {"instance"} :
       \E i \in RowsOf(e) : Live(i) /\ resources[i].remote

\* Setups and syncs keep the rows of the table apart and alive (store.setup and
\* save_resources).
RowsSettled == OneRowPerIdent /\ HeldRowLives

\* A sync leaves the table as the supervisor was told it is (sync_resources).
TableFollows == [][\A p \in Processes : SavedAloneIsExact(p) /\ IdenticalIsSynced(p)]_syncVars
=============================================================================
