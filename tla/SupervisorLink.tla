--------------------------- MODULE SupervisorLink ---------------------------
(***************************************************************************)
(* Connecting a service to its supervisor and deleting the connection      *)
(* (ops/spv/connect.py, POST and DELETE of ops/api/__init__.py).           *)
(*                                                                         *)
(* "meta connect --key" leaves a placeholder row with the key, asks the    *)
(* supervisor to add a node, and waits.  The supervisor either calls the   *)
(* service back (POST, save_supervisor) or, when it cannot reach it,       *)
(* returns the data for the command to save.  A command that fails deletes *)
(* its row.  Commands of several terminals, the call backs and the answers *)
(* interleave; requests and answers get lost, and a call back of a command *)
(* that gave up still arrives.                                             *)
(*                                                                         *)
(* The supervisor is outside the repository: it makes a node for every     *)
(* request it gets, drops it when its call back is refused, and calls      *)
(* DELETE before it answers delete_node.  There is one base_url and one    *)
(* ops_api, no supervisor is local or disabled.                            *)
(***************************************************************************)
EXTENDS Naturals, Sequences, FiniteSets

CONSTANTS Terminals,    \* where commands are run
          AccessKeys,   \* the access keys of the platform
          MaxLinkRows,  \* bound: rows of the Supervisor table
          MaxNodes,     \* bound: nodes the supervisor makes
          MaxCommands,  \* bound: commands that are run
          MaxBroken     \* bound: lost requests, answers and timeouts

ASSUME LinkAssumption ==
  /\ 0 \notin AccessKeys
  /\ {MaxLinkRows, MaxNodes, MaxCommands, MaxBroken} \subseteq Nat

VARIABLES links,     \* the Supervisor table, in order of pk
          nodes,     \* the nodes of the supervisor, in order of creation
          command,   \* [Terminals -> the command running there]
          ini,       \* the node in meta.ini, 0 if there is none
          runs,      \* commands so far
          broken,    \* failures so far
          overlaps   \* ghost: commands that ran into another one, a late call back or a taken key

linkVars == <<links, nodes, command, ini, runs, broken, overlaps>>

NoCommand == [pc |-> "idle", key |-> 0, row |-> 0, node |-> 0, conf |-> 0, alone |-> FALSE]

LinkInit ==
  /\ links = << >> /\ nodes = << >>
  /\ command = [c \in Terminals |-> NoCommand]
  /\ ini = 0 /\ runs = 0 /\ broken = 0 /\ overlaps = 0

Doing(c, pc) == command[c].pc = pc
Step(c, pc)  == command' = [command EXCEPT ![c].pc = pc]
Rows         == 1..Len(links)
NodeIds      == 1..Len(nodes)
There(S)     == {i \in S : links[i].there}
FirstOf(S)   == IF S = {} THEN 0 ELSE CHOOSE i \in S : \A j \in S : i <= j
Linked(i)    == links[i].there /\ links[i].node # 0
Alive(n)     == n # 0 /\ nodes[n].state \notin {"dropped", "deleted"}
Calling(n)   == nodes[n].state \in {"sent", "found", "free"}

Break == broken < MaxBroken /\ broken' = broken + 1

\* A linked row has an init_key again: whoever connects with it gets this row,
\* whose node is another (connect.py, save_supervisor).
Taken == \E i \in There(Rows) : links[i].node # 0 /\ links[i].key # 0

Disturbed(S) == [c \in Terminals |-> [S[c] EXCEPT !.alone = FALSE]]

\* A command starts; the ones it meets are no longer alone.
BeginCommand(c, cmd) ==
  LET alone == /\ \A d \in Terminals \ {c} : Doing(d, "idle")
               /\ ~\E n \in NodeIds : Calling(n)
               /\ ~Taken
  IN  /\ Doing(c, "idle") /\ runs < MaxCommands
      /\ runs' = runs + 1
      /\ overlaps' = overlaps + IF alone THEN 0 ELSE 1
      /\ command' = [IF alone THEN command ELSE Disturbed(command)
                       EXCEPT ![c] = [cmd EXCEPT !.alone = alone]]

-----------------------------------------------------------------------------
(* connect_supervisor *)

\* The row of the configured node, or else of the service: nothing is checked
\* further than to its first row.
ThePlaceholder(conf) ==
  FirstOf(There({i \in Rows : conf = 0 \/ links[i].node = conf}))

\* mutant: a row with a public key is taken for a placeholder
LookupAny(c, key) ==
  LET row == ThePlaceholder(ini) IN
  /\ BeginCommand(c, [NoCommand EXCEPT !.key = key, !.row = row, !.conf = ini,
                 !.pc = IF row = 0 THEN "create" ELSE IF links[row].key # key THEN "rekey" ELSE "post"])
  /\ UNCHANGED <<links, nodes, ini, broken>>

Lookup(c, key) ==
  LET row == ThePlaceholder(ini) IN
  /\ BeginCommand(c, [NoCommand EXCEPT !.key = key, !.row = row, !.conf = ini,
                 !.pc = IF row = 0 THEN "create"
                        ELSE IF links[row].node # 0 THEN "resync"
                        ELSE IF links[row].key # key THEN "rekey" ELSE "post"])
  /\ UNCHANGED <<links, nodes, ini, broken>>

\* The supervisor exists already: meta.ini is repaired and the resources synced.
Resync(c) ==
  /\ Doing(c, "resync")
  /\ ini' = IF command[c].conf = 0 THEN links[command[c].row].node ELSE ini
  /\ command' = [command EXCEPT ![c] = NoCommand]
  /\ UNCHANGED <<links, nodes, runs, broken, overlaps>>

\* save(update_fields=["init_key"]), which raises on a row that is gone
Rekey(c) ==
  /\ Doing(c, "rekey")
  /\ IF links[command[c].row].there
     THEN links' = [links EXCEPT ![command[c].row].key = command[c].key] /\ Step(c, "post")
     ELSE command' = [command EXCEPT ![c] = NoCommand] /\ UNCHANGED links
  /\ UNCHANGED <<nodes, ini, runs, broken, overlaps>>

Create(c) ==
  /\ Doing(c, "create") /\ Len(links) < MaxLinkRows
  /\ links' = Append(links, [there |-> TRUE, key |-> command[c].key, node |-> 0])
  /\ command' = [command EXCEPT ![c].pc = "post", ![c].row = Len(links) + 1]
  /\ UNCHANGED <<nodes, ini, runs, broken, overlaps>>

\* add_node: the supervisor makes a node, unless the request is lost.
Post(c) ==
  /\ Doing(c, "post")
  /\ \/ /\ Len(nodes) < MaxNodes
        /\ \E back \in BOOLEAN :
             nodes' = Append(nodes, [state |-> "sent", key |-> command[c].key, back |-> back, row |-> 0])
        /\ command' = [command EXCEPT ![c].pc = "wait", ![c].node = Len(nodes) + 1]
        /\ UNCHANGED broken
     \/ Break /\ Step(c, "fail") /\ UNCHANGED nodes
  /\ UNCHANGED <<links, ini, runs, overlaps>>

\* The command gives up, or loses the answer: a call back goes on, data that
\* was returned is lost.
GiveUp(c) ==
  LET n == command[c].node IN
  /\ Doing(c, "wait") /\ Break
  /\ nodes[n].back \/ nodes[n].state = "sent"
  /\ Step(c, "fail")
  /\ nodes' = IF nodes[n].back THEN nodes ELSE [nodes EXCEPT ![n].state = "refused"]
  /\ UNCHANGED <<links, ini, runs, overlaps>>

-----------------------------------------------------------------------------
(* save_supervisor, for node n: in the service when the supervisor calls back, *)
(* in the command otherwise                                                    *)

\* A refused call back makes the supervisor drop the node; a command that
\* refuses the data it was given leaves it there.
Refuse(n) == IF nodes[n].back THEN "dropped" ELSE "refused"

\* The row with this init_key; one that has a node is returned as it is.
SaveFind(n) ==
  /\ nodes[n].state = "sent"
  /\ LET row == FirstOf(There({i \in Rows : links[i].key = nodes[n].key})) IN
     nodes' = [nodes EXCEPT ![n].row = row,
                 ![n].state = IF row = 0 THEN Refuse(n)
                              ELSE IF links[row].node # 0 THEN "saved" ELSE "found"]
  /\ UNCHANGED <<links, command, ini, runs, broken, overlaps>>

\* No other row may have the node.
SaveExists(n) ==
  /\ nodes[n].state = "found"
  /\ nodes' = [nodes EXCEPT ![n].state =
                 IF \E i \in There(Rows) : links[i].node = n THEN Refuse(n) ELSE "free"]
  /\ UNCHANGED <<links, command, ini, runs, broken, overlaps>>

\* update() by pk: the node and its public key, and an empty init_key
SaveUpdate(n) ==
  /\ nodes[n].state = "free"
  /\ nodes' = [nodes EXCEPT ![n].state = "saved"]
  /\ links' = IF links[nodes[n].row].there
              THEN [links EXCEPT ![nodes[n].row].node = n, ![nodes[n].row].key = 0] ELSE links
  /\ UNCHANGED <<command, ini, runs, broken, overlaps>>

-----------------------------------------------------------------------------
(* The rest of connect_supervisor *)

\* mutant: the row is not read again after a call back
AnswerStale(c) ==
  LET n == command[c].node
      good == nodes[n].state = "saved" /\ ~nodes[n].back /\ links[nodes[n].row].node = n
  IN  /\ Doing(c, "wait") /\ nodes[n].state \in {"saved", "refused", "dropped", "deleted"}
      /\ command' = [command EXCEPT ![c].pc = IF good THEN "link" ELSE "fail"]
      /\ UNCHANGED <<links, nodes, ini, runs, broken, overlaps>>

\* The answer: after a call back the row is read again; otherwise the row that
\* save_supervisor returned must have the node.
Answer(c) ==
  LET n == command[c].node
      row == IF nodes[n].back \/ nodes[n].state = "refused" THEN command[c].row ELSE nodes[n].row
      good == /\ nodes[n].state \in {"saved", "deleted"} /\ Linked(row)
              /\ nodes[n].back \/ links[row].node = n
  IN  /\ Doing(c, "wait") /\ nodes[n].state \in {"saved", "refused", "dropped", "deleted"}
      /\ command' = [command EXCEPT ![c].row = row,
                                    ![c].pc = IF good THEN "link" ELSE "fail"]
      /\ UNCHANGED <<links, nodes, ini, runs, broken, overlaps>>

\* meta.ini gets the node of the row that was read
Link(c) ==
  /\ Doing(c, "link")
  /\ ini' = links[command[c].row].node
  /\ command' = [command EXCEPT ![c] = NoCommand]
  /\ UNCHANGED <<links, nodes, runs, broken, overlaps>>

\* supervisor_obj.delete(), and the exception is raised again
Fail(c) ==
  /\ Doing(c, "fail")
  /\ links' = [links EXCEPT ![command[c].row].there = FALSE]
  /\ command' = [command EXCEPT ![c] = NoCommand]
  /\ UNCHANGED <<nodes, ini, runs, broken, overlaps>>

-----------------------------------------------------------------------------
(* delete_supervisor *)

\* The row of the node; its init_key is cleared as a marker for the deletion.
Unlink(c, n) ==
  LET row == FirstOf(There({i \in Rows : links[i].node = n})) IN
  /\ row # 0
  /\ BeginCommand(c, [NoCommand EXCEPT !.pc = "unlink", !.row = row, !.node = n, !.key = links[row].key])
  /\ links' = [links EXCEPT ![row].key = 0]
  /\ UNCHANGED <<nodes, ini, broken>>

\* delete_node: the supervisor calls DELETE, which removes a row without
\* init_key and the node of meta.ini, and deletes its node.  A node that does
\* not exist counts as deleted; a lost request or answer does not.
DeleteNode(c) ==
  LET n   == command[c].node
      ids == {i \in There(Rows) : links[i].node = n /\ links[i].key = 0}
      remote ==
        /\ nodes' = [nodes EXCEPT ![n].state = "deleted"]
        /\ links' = [i \in Rows |-> IF i \in ids THEN [links[i] EXCEPT !.there = FALSE] ELSE links[i]]
        /\ ini' = 0
  IN  /\ Doing(c, "unlink") /\ nodes[n].state # "sent"
      /\ \/ /\ IF nodes[n].state = "deleted" THEN UNCHANGED <<nodes, links, ini>> ELSE remote
            /\ command' = [command EXCEPT ![c].pc = "unlinked"] /\ UNCHANGED broken
         \/ /\ Break /\ command' = [command EXCEPT ![c].pc = "restore"]
            /\ remote \/ UNCHANGED <<nodes, links, ini>>
      /\ UNCHANGED <<runs, overlaps>>

Unlinked(c) ==
  /\ Doing(c, "unlinked")
  /\ ini' = 0
  /\ links' = [links EXCEPT ![command[c].row].there = FALSE]
  /\ command' = [command EXCEPT ![c] = NoCommand]
  /\ UNCHANGED <<nodes, runs, broken, overlaps>>

\* The init_key is put back, if there was one and the row is still there.
Restore(c) ==
  /\ Doing(c, "restore")
  /\ links' = IF command[c].key # 0 /\ links[command[c].row].there
              THEN [links EXCEPT ![command[c].row].key = command[c].key] ELSE links
  /\ command' = [command EXCEPT ![c] = NoCommand]
  /\ UNCHANGED <<nodes, ini, runs, broken, overlaps>>

-----------------------------------------------------------------------------
LinkNext ==
  \/ \E c \in Terminals :
       \/ \E key \in AccessKeys : Lookup(c, key)
       \/ \E n \in NodeIds : Unlink(c, n)
       \/ Resync(c) \/ Rekey(c) \/ Create(c) \/ Post(c) \/ GiveUp(c) \/ Answer(c)
       \/ Link(c) \/ Fail(c) \/ DeleteNode(c) \/ Unlinked(c) \/ Restore(c)
  \/ \E n \in NodeIds : SaveFind(n) \/ SaveExists(n) \/ SaveUpdate(n)

LinkSpec == LinkInit /\ [][LinkNext]_linkVars

-----------------------------------------------------------------------------
(* Properties *)

LinkTypeOK ==
  /\ links \in Seq([there: BOOLEAN, key: AccessKeys \cup {0}, node: Nat])
  /\ nodes \in Seq([state: {"sent", "found", "free", "saved", "refused", "dropped", "deleted"},
                    key: AccessKeys, back: BOOLEAN, row: 0..Len(links)])
  /\ Len(links) <= MaxLinkRows /\ Len(nodes) <= MaxNodes
  /\ command \in [Terminals -> [pc: {"idle", "create", "resync", "rekey", "post", "wait", "link",
                                     "fail", "unlink", "unlinked", "restore"},
                                key: AccessKeys \cup {0}, row: 0..Len(links), node: 0..Len(nodes),
                                conf: 0..Len(nodes), alone: BOOLEAN]]
  /\ ini \in 0..Len(nodes)
  /\ runs \in 0..MaxCommands /\ broken \in 0..MaxBroken /\ overlaps \in 0..MaxCommands

AllQuiet == (\A c \in Terminals : Doing(c, "idle")) /\ ~\E n \in NodeIds : Calling(n)

\* Nodes of the supervisor that no row knows, and rows whose node is gone.
Strays    == {n \in NodeIds : Alive(n) /\ ~\E i \in There(Rows) : links[i].node = n}
Dangling  == {i \in There(Rows) : links[i].node # 0 /\ ~Alive(links[i].node)}

\* When everything is quiet, both sides agree but for one node or row per
\* failure and two per command that ran into another one or began with a taken key:
\* no run of connect or delete by itself leaves half a connection behind
\* (connect.py:262-266 deletes the row of a failed attempt).
BothSidesAgree ==
  AllQuiet => Cardinality(Strays) + Cardinality(Dangling) <= broken + 2 * overlaps

\* A connect that meets no failure and no other command ends with a row whose
\* node the supervisor has, whatever earlier attempts left behind, unless that
\* is a row whose node is gone.
ConnectAlone(c) ==
  /\ command[c].pc \in {"link", "resync", "fail", "rekey"} /\ command'[c].pc = "idle"
  /\ overlaps = 0 /\ broken = 0
  => /\ ini' # 0 /\ Alive(ini')
     /\ \E i \in Rows : links'[i].there /\ links'[i].node = ini'

\* A delete that meets no failure and no other command leaves neither a row
\* with the node, nor the node, nor its id in meta.ini.
DeleteAlone(c) ==
  command[c].pc = "unlinked" /\ command'[c].pc = "idle" /\ command[c].alone
  => /\ ini' = 0 /\ ~Alive(command[c].node)
     /\ ~\E i \in Rows : links'[i].there /\ links'[i].node = command[c].node

\* A command that meets no other one does what it was run for, or undoes it
\* (connect_supervisor and delete_supervisor).
CommandAlone == [][\A c \in Terminals : ConnectAlone(c) /\ DeleteAlone(c)]_linkVars
=============================================================================
