------------------------ MODULE SupervisorLink_proof ------------------------
(***************************************************************************)
(* Proofs about SupervisorLink, for any terminals and access keys and any  *)
(* number of commands, rows, nodes and failures.  Every node that is on    *)
(* one side only is blamed on a failure or on a command that met another:  *)
(* LinkInv says which nodes may be blamed, and that there are not more of  *)
(* them than of those.                                                     *)
(***************************************************************************)
EXTENDS SupervisorLink, FiniteSetTheorems, SequenceTheorems, WellFoundedInduction, TLAPS

USE LinkAssumption

LinkRow    == [there: BOOLEAN, key: AccessKeys \cup {0}, node: Nat]
LinkNode   == [state: {"sent", "found", "free", "saved", "refused", "dropped", "deleted"},
               key: AccessKeys, back: BOOLEAN, row: Nat]
LinkPcs    == {"idle", "create", "resync", "rekey", "post", "wait", "link",
               "fail", "unlink", "unlinked", "restore"}
LinkThread == [pc: LinkPcs, key: AccessKeys \cup {0}, row: Nat, node: Nat, conf: Nat, alone: BOOLEAN]

Joining == {"rekey", "post", "wait", "fail"}
Leaving == {"unlink", "unlinked", "restore"}
Saved   == {"saved", "deleted"}
NodeOf(i) == links[i].node

LinkTyped ==
  /\ links \in Seq(LinkRow) /\ nodes \in Seq(LinkNode) /\ command \in [Terminals -> LinkThread]
  /\ Len(links) <= MaxLinkRows /\ Len(nodes) <= MaxNodes
  /\ \A n \in NodeIds : nodes[n].row <= Len(links)
  /\ \A c \in Terminals : /\ command[c].row <= Len(links)
                          /\ command[c].node <= Len(nodes) /\ command[c].conf <= Len(nodes)
  /\ ini \in 0..Len(nodes)
  /\ runs \in 0..MaxCommands /\ broken \in 0..MaxBroken /\ overlaps \in 0..runs

\* A node is in one row, once it was saved there.
RowsOK ==
  \A i \in Rows : NodeOf(i) # 0 =>
    /\ NodeOf(i) \in NodeIds /\ nodes[NodeOf(i)].state \in Saved
    /\ \A j \in Rows : NodeOf(i) = NodeOf(j) => i = j

\* What a call back has found.
NodesOK ==
  \A n \in NodeIds :
    /\ nodes[n].state \in {"found", "free"} \cup Saved => nodes[n].row \in Rows
    /\ nodes[n].state \in Saved => NodeOf(nodes[n].row) # 0 \/ ~links[nodes[n].row].there
    /\ nodes[n].state = "dropped" => nodes[n].back

\* What a command works on.
ThreadOK(d) ==
  /\ d.pc = "idle" => ~d.alone
  /\ d.pc \in Joining \cup Leaving \cup {"resync", "link"} => d.row \in Rows
  /\ d.pc \in {"create", "rekey", "post", "wait"} => d.key \in AccessKeys
  /\ d.pc \in {"wait"} \cup Leaving => d.node \in NodeIds
  /\ d.pc \in Leaving => nodes[d.node].state \in Saved
  /\ d.pc = "unlinked" => nodes[d.node].state = "deleted"

ShapeOK == RowsOK /\ NodesOK /\ \A c \in Terminals : ThreadOK(command[c])
-----------------------------------------------------------------------------
(* The operators *)

\* Numbers have a first.
LEMMA FirstNumber ==
  ASSUME NEW S \in SUBSET Nat, S # {}
  PROVE  \E i \in S : \A j \in S : i <= j
  <1> DEFINE Below == OpToRel(<, Nat)
  <1>1. IsWellFoundedOn(Below, Nat)
    BY NatLessThanWellFounded DEF Below
  <1>2. \A m, n \in Nat : <<m, n>> \in Below <=> m < n
    BY DEF Below, OpToRel
  <1> HIDE DEF Below
  <1>3. PICK i \in S : \A j \in S : <<j, i>> \notin Below
    BY <1>1, WFMin
  <1>4. \A j \in S : ~ (j < i) /\ i \in Nat /\ j \in Nat
    BY <1>2, <1>3
  <1>5. \A j \in S : i <= j
    BY <1>4
  <1> QED
    BY <1>5

\* FirstOf is the least of a set, or zero.
LEMMA FirstIs ==
  ASSUME NEW S \in SUBSET (Nat \ {0})
  PROVE  /\ FirstOf(S) \in Nat
         /\ S = {} => FirstOf(S) = 0
         /\ S # {} => FirstOf(S) \in S /\ \A j \in S : FirstOf(S) <= j
  <1>1. CASE S = {}
    BY <1>1 DEF FirstOf
  <1>2. CASE S # {}
    <2>1. \E i \in S : \A j \in S : i <= j
      BY <1>2, FirstNumber
    <2> QED
      BY <1>2, <2>1 DEF FirstOf
  <1> QED
    BY <1>1, <1>2

\* A sequence with one element replaced.
LEMMA Replaced ==
  ASSUME NEW S, NEW s \in Seq(S), NEW i \in 1..Len(s), NEW e \in S
  PROVE  /\ [s EXCEPT ![i] = e] \in Seq(S) /\ Len([s EXCEPT ![i] = e]) = Len(s)
         /\ [s EXCEPT ![i] = e][i] = e
         /\ \A j \in 1..Len(s) : j # i => [s EXCEPT ![i] = e][j] = s[j]
  BY ExceptSeq

\* A sequence with one element more.
LEMMA Added ==
  ASSUME NEW S, NEW s \in Seq(S), NEW e \in S
  PROVE  /\ Append(s, e) \in Seq(S) /\ Len(s) \in Nat /\ Len(Append(s, e)) = Len(s) + 1
         /\ Append(s, e)[Len(s) + 1] = e
         /\ \A j \in 1..Len(s) : Append(s, e)[j] = s[j]
  BY AppendProperties, LenProperties

\* A finite set with at most one element more.
LEMMA OneMoreAt ==
  ASSUME NEW S, NEW x, IsFiniteSet(S), NEW T \in SUBSET (S \cup {x})
  PROVE  IsFiniteSet(T) /\ Cardinality(S) \in Nat /\ Cardinality(T) \in Nat
         /\ Cardinality(T) <= Cardinality(S) + 1
  <1>1. Cardinality(S) \in Nat
    BY FS_CardinalityType
  <1>2. /\ IsFiniteSet(S \cup {x})
        /\ Cardinality(S \cup {x}) = Cardinality(S) \/ Cardinality(S \cup {x}) = Cardinality(S) + 1
    BY FS_AddElement
  <1>3. IsFiniteSet(T) /\ Cardinality(T) <= Cardinality(S \cup {x})
    BY <1>2, FS_Subset
  <1>4. Cardinality(T) \in Nat
    BY <1>3, FS_CardinalityType
  <1> QED
    BY <1>1, <1>2, <1>3, <1>4

\* A command begins: whoever is under way is no longer alone, unless nobody is.
LEMMA BeginIs ==
  ASSUME LinkTyped, NEW c \in Terminals, NEW cmd \in LinkThread, BeginCommand(c, cmd)
  PROVE  \E alone \in BOOLEAN :
           /\ alone = ((\A d \in Terminals \ {c} : Doing(d, "idle")) /\ ~(\E n \in NodeIds : Calling(n)) /\ ~Taken)
           /\ command[c].pc = "idle" /\ runs' = runs + 1 /\ runs < MaxCommands
           /\ overlaps' = overlaps + IF alone THEN 0 ELSE 1
           /\ command' \in [Terminals -> LinkThread]
           /\ command'[c] = [cmd EXCEPT !.alone = alone]
           /\ \A d \in Terminals \ {c} :
                /\ command'[d].pc = command[d].pc /\ command'[d].key = command[d].key
                /\ command'[d].row = command[d].row /\ command'[d].node = command[d].node
                /\ command'[d].conf = command[d].conf
                /\ command'[d].alone = (alone /\ command[d].alone)
  <1> DEFINE alone == (\A d \in Terminals \ {c} : Doing(d, "idle")) /\ ~(\E n \in NodeIds : Calling(n)) /\ ~Taken
             was == IF alone THEN command ELSE Disturbed(command)
  <1>1. /\ command[c].pc = "idle" /\ runs < MaxCommands /\ runs' = runs + 1
        /\ overlaps' = overlaps + IF alone THEN 0 ELSE 1
        /\ command' = [was EXCEPT ![c] = [cmd EXCEPT !.alone = alone]]
    BY DEF BeginCommand, Doing
  <1>2. command \in [Terminals -> LinkThread]
    BY DEF LinkTyped
  <1>3. alone \in BOOLEAN
    OBVIOUS
  <1> HIDE DEF alone
  <1>4. /\ was \in [Terminals -> LinkThread]
        /\ \A d \in Terminals : /\ was[d].pc = command[d].pc /\ was[d].key = command[d].key
                /\ was[d].row = command[d].row /\ was[d].node = command[d].node
                /\ was[d].conf = command[d].conf
                /\ was[d].alone = (alone /\ command[d].alone)
    <2>1. CASE alone
      BY <1>2, <2>1 DEF LinkThread
    <2>2. CASE ~alone
      BY <1>2, <2>2 DEF LinkThread, Disturbed
    <2> QED
      BY <2>1, <2>2
  <1>5. [cmd EXCEPT !.alone = alone] \in LinkThread
    BY <1>3 DEF LinkThread
  <1> HIDE DEF was
  <1>6. command' \in [Terminals -> LinkThread] /\ command'[c] = [cmd EXCEPT !.alone = alone]
        /\ \A d \in Terminals \ {c} : command'[d] = was[d]
    BY <1>1, <1>4, <1>5
  <1>7. alone = ((\A d \in Terminals \ {c} : Doing(d, "idle")) /\ ~(\E n \in NodeIds : Calling(n)) /\ ~Taken)
    BY DEF alone
  <1> WITNESS alone \in BOOLEAN
  <1> QED
    BY <1>1, <1>4, <1>6, <1>7
-----------------------------------------------------------------------------
(* What the steps change *)

SameThreads(c) == \A d \in Terminals \ {c} : command'[d] = command[d]
SameRow(i)  == links'[i] = links[i]
SameNode(n) == nodes'[n] = nodes[n]

\* A row is changed, or none.
RowMoves(i, there, key, node) ==
  /\ links' \in Seq(LinkRow) /\ Len(links') = Len(links)
  /\ \A j \in Rows : j # i => SameRow(j)
  /\ i \in Rows => links'[i].there = there /\ links'[i].key = key /\ links'[i].node = node

\* A node is changed.
NodeMoves(n, state, row) ==
  /\ nodes' \in Seq(LinkNode) /\ Len(nodes') = Len(nodes)
  /\ \A m \in NodeIds : m # n => SameNode(m)
  /\ /\ nodes'[n].state = state /\ nodes'[n].row = row
     /\ nodes'[n].key = nodes[n].key /\ nodes'[n].back = nodes[n].back

\* The type of a row.
LEMMA RowTyped ==
  ASSUME LinkTyped, NEW i \in Rows
  PROVE  /\ links[i] \in LinkRow /\ links[i].there \in BOOLEAN /\ links[i].key \in AccessKeys \cup {0}
         /\ links[i].node \in Nat /\ i \in Nat \ {0} /\ Len(links) \in Nat
  <1>1. links \in Seq(LinkRow)
    BY DEF LinkTyped
  <1>2. links[i] \in LinkRow
    BY <1>1, ElementOfSeq DEF Rows
  <1>3. Len(links) \in Nat
    BY <1>1, LenProperties
  <1> QED
    BY <1>2, <1>3 DEF LinkRow, Rows

\* The type of a node.
LEMMA NodeTyped ==
  ASSUME LinkTyped, NEW n \in NodeIds
  PROVE  /\ nodes[n] \in LinkNode /\ nodes[n].key \in AccessKeys /\ nodes[n].back \in BOOLEAN
         /\ nodes[n].state \in {"sent", "found", "free", "saved", "refused", "dropped", "deleted"}
         /\ nodes[n].row \in Nat /\ n \in Nat \ {0} /\ Len(nodes) \in Nat
  <1>1. nodes \in Seq(LinkNode)
    BY DEF LinkTyped
  <1>2. nodes[n] \in LinkNode
    BY <1>1, ElementOfSeq DEF NodeIds
  <1>3. Len(nodes) \in Nat
    BY <1>1, LenProperties
  <1> QED
    BY <1>2, <1>3 DEF LinkNode, NodeIds

\* An assignment to a row moves this row only.
LEMMA RowSet ==
  ASSUME LinkTyped, NEW i \in Rows, NEW e \in LinkRow, links' = [links EXCEPT ![i] = e]
  PROVE  RowMoves(i, e.there, e.key, e.node)
  <1>1. links \in Seq(LinkRow)
    BY DEF LinkTyped
  <1>2. i \in 1..Len(links)
    BY DEF Rows
  <1> QED
    BY <1>1, <1>2, Replaced DEF RowMoves, Rows, SameRow

\* An assignment to a node moves this node only.
LEMMA NodeSet ==
  ASSUME LinkTyped, NEW n \in NodeIds, NEW e \in LinkNode, nodes' = [nodes EXCEPT ![n] = e],
         e.key = nodes[n].key, e.back = nodes[n].back
  PROVE  NodeMoves(n, e.state, e.row)
  <1>1. nodes \in Seq(LinkNode)
    BY DEF LinkTyped
  <1>2. n \in 1..Len(nodes)
    BY DEF NodeIds
  <1> QED
    BY <1>1, <1>2, Replaced DEF NodeMoves, NodeIds, SameNode

\* What connect_supervisor finds, and where it goes on from there.
LEMMA LookupIs ==
  ASSUME LinkTyped, NEW c \in Terminals, NEW key \in AccessKeys, Lookup(c, key)
  PROVE  \E cmd \in LinkThread :
           /\ BeginCommand(c, cmd) /\ cmd.key = key /\ cmd.conf = ini /\ cmd.node = 0
           /\ cmd.row = 0 \/ (cmd.row \in Rows /\ links[cmd.row].there /\ NodeOf(cmd.row) \in Nat
                               /\ (ini = 0 \/ NodeOf(cmd.row) = ini))
           /\ \/ cmd.pc = "create" /\ cmd.row = 0
              \/ cmd.pc = "resync" /\ cmd.row # 0 /\ NodeOf(cmd.row) # 0
              \/ cmd.pc = "rekey" /\ cmd.row # 0 /\ NodeOf(cmd.row) = 0
              \/ cmd.pc = "post" /\ cmd.row # 0 /\ NodeOf(cmd.row) = 0 /\ links[cmd.row].key = key
           /\ (\E i \in Rows : links[i].there) /\ ini = 0 => cmd.row # 0
           /\ UNCHANGED <<links, nodes, ini, broken>>
  <1> DEFINE row == ThePlaceholder(ini)
             cmd == [NoCommand EXCEPT !.key = key, !.row = row, !.conf = ini,
                 !.pc = IF row = 0 THEN "create"
                        ELSE IF links[row].node # 0 THEN "resync"
                        ELSE IF links[row].key # key THEN "rekey" ELSE "post"]
  <1>1. BeginCommand(c, cmd) /\ UNCHANGED <<links, nodes, ini, broken>>
    BY DEF Lookup
  <1>2. /\ row \in Nat
        /\ row = 0 \/ (row \in Rows /\ links[row].there /\ (ini = 0 \/ NodeOf(row) = ini))
        /\ (\E i \in Rows : links[i].there) /\ ini = 0 => row # 0
    <2> DEFINE S == There({i \in Rows : ini = 0 \/ links[i].node = ini})
    <2>1. /\ S \in SUBSET (Nat \ {0})
          /\ \A i \in S : i \in Rows /\ links[i].there /\ (ini = 0 \/ NodeOf(i) = ini)
          /\ ini = 0 => \A i \in Rows : links[i].there => i \in S
      BY RowTyped DEF There, NodeOf
    <2>2. row = FirstOf(S)
      BY DEF ThePlaceholder
    <2> HIDE DEF S
    <2>3. FirstOf(S) \in Nat /\ (S # {} => FirstOf(S) \in S) /\ (S = {} => FirstOf(S) = 0)
      BY <2>1, FirstIs
    <2> HIDE DEF row
    <2> QED
      BY <2>1, <2>2, <2>3
  <1>3. ini \in Nat /\ (row # 0 => NodeOf(row) \in Nat)
    <2>1. Len(nodes) \in Nat
      BY LenProperties DEF LinkTyped
    <2> QED
      BY <1>2, <2>1, RowTyped DEF LinkTyped, NodeOf
  <1> HIDE DEF row
  <1>4. cmd \in LinkThread
    BY <1>2, <1>3 DEF LinkThread, LinkPcs, NoCommand
  <1>5. /\ cmd.key = key /\ cmd.conf = ini /\ cmd.node = 0 /\ cmd.row = row
        /\ cmd.pc = IF row = 0 THEN "create"
                        ELSE IF links[row].node # 0 THEN "resync"
                        ELSE IF links[row].key # key THEN "rekey" ELSE "post"
    BY DEF NoCommand
  <1> HIDE DEF cmd
  <1> WITNESS cmd \in LinkThread
  <1> QED
    BY <1>1, <1>2, <1>3, <1>5 DEF NodeOf
-----------------------------------------------------------------------------
(* A command that meets no other *)

\* The wait of such a command for its node.
WaitOK(d) ==
  LET n == nodes[d.node] IN
  /\ links[d.row].there
  /\ n.state \in {"sent", "found", "free", "saved"}
  /\ n.state = "sent" => NodeOf(d.row) = 0 /\ links[d.row].key = d.key /\ n.key = d.key
  /\ n.state \in {"found", "free"} => NodeOf(d.row) = 0 /\ NodeOf(n.row) = 0 /\ links[n.row].there
  /\ n.state = "saved" => NodeOf(d.row) \in {0, d.node} /\ NodeOf(n.row) = d.node /\ links[n.row].there

AloneThread(c) ==
  LET d == command[c] IN
  /\ \A e \in Terminals \ {c} : Doing(e, "idle")
  /\ \A n \in NodeIds : Calling(n) => d.node = n /\ d.pc \in {"wait", "fail"}
  /\ ~Taken
  /\ d.pc \in {"rekey", "post"} => links[d.row].there /\ NodeOf(d.row) = 0
  /\ d.pc = "post" => links[d.row].key = d.key
  /\ d.pc = "wait" => WaitOK(d)
  /\ d.pc \in Leaving => NodeOf(d.row) = d.node /\ d.key = 0

AloneOK == \A c \in Terminals : command[c].alone => AloneThread(c)

\* While there was no failure and no command met another, only the command under
\* way has a row without a node, and its call back finds this row.
Clean ==
  overlaps = 0 /\ broken = 0 =>
    /\ \A c \in Terminals : LET d == command[c] IN ~Doing(c, "idle") =>
         /\ d.alone /\ d.pc \notin {"rekey", "fail", "restore"}
         /\ d.pc \in {"resync", "link"} => links[d.row].there /\ NodeOf(d.row) # 0
         /\ d.pc = "resync" => ini = d.conf /\ d.conf \in {0, NodeOf(d.row)}
         /\ d.pc = "wait" /\ nodes[d.node].state # "sent" => nodes[d.node].row = d.row
    /\ \A i \in Rows : links[i].there /\ NodeOf(i) = 0 =>
         \E c \in Terminals : command[c].row = i /\ command[c].pc \in {"post", "wait"}

-----------------------------------------------------------------------------
(* Whom to blame *)

Pending == {c \in Terminals : ~command[c].alone /\ command[c].pc \in {"create", "rekey", "post"}}
HasRow(n) == \E i \in Rows : links[i].there /\ NodeOf(i) = n
Good(n)   == Alive(n) <=> HasRow(n)
Young(n)  == \E c \in Terminals : command[c].alone /\ Doing(c, "wait") /\ command[c].node = n

Settled(C) == \A n \in NodeIds \ C : Good(n) \/ Young(n)

NodesBlamed(C) ==
  \A n \in NodeIds : nodes[n].state \in {"found", "free"} \cup Saved =>
    NodeOf(nodes[n].row) \in C \cup {0, n}

RowsBlamed(C) == \A i \in Rows : NodeOf(i) # 0 /\ links[i].key # 0 => NodeOf(i) \in C

ThreadBlamed(C, d) ==
  /\ d.pc = "wait" /\ ~d.alone => d.node \in C
  /\ d.pc \in Joining => \/ NodeOf(d.row) \in C \cup {0}
                         \/ d.pc = "wait" /\ d.alone /\ NodeOf(d.row) = d.node
  /\ d.pc \in Leaving => NodeOf(d.row) \in C \cup {d.node}
  /\ d.pc \in {"unlink", "restore"} /\ d.key # 0 => NodeOf(d.row) \in C

Blamed(C) ==
  Settled(C) /\ NodesBlamed(C) /\ RowsBlamed(C) /\ \A c \in Terminals : ThreadBlamed(C, command[c])

Accounts(C) ==
  IsFiniteSet(Pending) /\ Cardinality(C) + Cardinality(Pending) <= broken + 2 * overlaps

BlameOK == \E C \in SUBSET NodeIds : Blamed(C) /\ Accounts(C)

LinkInv == LinkTyped /\ ShapeOK /\ AloneOK /\ Clean /\ BlameOK

\* While a command is under way the others are idle, or nobody is alone.
LEMMA NoOtherAlone ==
  ASSUME AloneOK, NEW c \in Terminals, ~Doing(c, "idle")
  PROVE  /\ \A d \in Terminals \ {c} : ~command[d].alone
         /\ \A n : Young(n) <=> command[c].alone /\ Doing(c, "wait") /\ command[c].node = n
  BY DEF AloneOK, AloneThread, Young

-----------------------------------------------------------------------------
(* Steps that leave the rows and the nodes, but for keys *)

SameTable ==
  /\ Len(links') = Len(links) /\ nodes' = nodes
  /\ \A i \in Rows : links'[i].there = links[i].there /\ links'[i].node = links[i].node

\* Steps that change keys only keep the shape of the table.
LEMMA KeysShape ==
  ASSUME LinkTyped, ShapeOK, SameTable
  PROVE  /\ RowsOK' /\ NodesOK'
         /\ \A d \in LinkThread : ThreadOK(d) => ThreadOK(d)'
  <1>1. Rows' = Rows /\ NodeIds' = NodeIds
    BY DEF SameTable, Rows, NodeIds
  <1>2. RowsOK'
    BY <1>1 DEF SameTable, ShapeOK, RowsOK, NodeOf
  <1>3. NodesOK'
    BY <1>1 DEF SameTable, ShapeOK, NodesOK, NodeOf
  <1>4. \A d \in LinkThread : ThreadOK(d) => ThreadOK(d)'
    BY <1>1 DEF SameTable, ThreadOK
  <1> QED
    BY <1>2, <1>3, <1>4

\* Steps that clear keys blame nobody.
LEMMA KeysBlame ==
  ASSUME LinkTyped, ShapeOK, SameTable, NEW C \in SUBSET NodeIds
  PROVE  /\ \A n \in NodeIds : Good(n) => Good(n)'
         /\ NodesBlamed(C) => NodesBlamed(C)'
         /\ \A d \in LinkThread : ThreadOK(d) /\ ThreadBlamed(C, d) => ThreadBlamed(C, d)'
         /\ C \in SUBSET NodeIds'
  <1>1. Rows' = Rows /\ NodeIds' = NodeIds
    BY DEF SameTable, Rows, NodeIds
  <1>2. \A n \in NodeIds : Good(n) => Good(n)'
    BY <1>1 DEF SameTable, Good, HasRow, Alive, NodeOf
  <1>3. NodesBlamed(C) => NodesBlamed(C)'
    BY <1>1 DEF SameTable, ShapeOK, NodesOK, NodesBlamed, NodeOf
  <1>4. \A d \in LinkThread : ThreadOK(d) /\ ThreadBlamed(C, d) => ThreadBlamed(C, d)'
    <2> SUFFICES ASSUME NEW d \in LinkThread, ThreadOK(d), ThreadBlamed(C, d)
                 PROVE  ThreadBlamed(C, d)'
      OBVIOUS
    <2>1. d.pc \in Joining \cup Leaving => NodeOf(d.row)' = NodeOf(d.row)
      BY <1>1 DEF SameTable, ThreadOK, NodeOf
    <2>2. {"unlink", "restore"} \subseteq Leaving
      BY DEF Leaving
    <2> QED
      BY <2>1, <2>2 DEF ThreadBlamed
  <1> QED
    BY <1>1, <1>2, <1>3, <1>4

-----------------------------------------------------------------------------
(* Steps of a command *)

\* When a command is under way, no other is alone.
LEMMA OthersRest ==
  ASSUME AloneOK, NEW c \in Terminals, ~Doing(c, "idle"), SameThreads(c)
  PROVE  /\ \A e \in Terminals \ {c} : ~command[e].alone /\ ~command'[e].alone
         /\ \A n : Young(n) => command[c].alone /\ command[c].pc = "wait" /\ command[c].node = n
         /\ \A n : Young(n)' <=> command'[c].alone /\ command'[c].pc = "wait" /\ command'[c].node = n
  <1>1. \A e \in Terminals \ {c} : ~command[e].alone /\ ~command'[e].alone
    BY DEF AloneOK, AloneThread, SameThreads
  <1> QED
    BY <1>1 DEF Young, Doing

\* The command c goes on; D is to blame afterwards.
LEMMA OwnStep ==
  ASSUME LinkInv, NEW c \in Terminals, ~Doing(c, "idle"), SameThreads(c),
         LinkTyped', RowsOK', NodesOK', Clean',
         \A d \in LinkThread : ThreadOK(d) => ThreadOK(d)',
         ThreadOK(command[c])', command'[c].alone => AloneThread(c)',
         NEW C \in SUBSET NodeIds, Blamed(C), NEW D, D \in SUBSET NodeIds',
         Settled(D)', NodesBlamed(D)', RowsBlamed(D)',
         \A d \in LinkThread : ThreadOK(d) /\ ThreadBlamed(C, d) /\ ~d.alone => ThreadBlamed(D, d)',
         ThreadBlamed(D, command[c])', Accounts(D)'
  PROVE  LinkInv'
  <1>1. \A e \in Terminals \ {c} : /\ command'[e] = command[e] /\ command[e] \in LinkThread
                                   /\ ~command[e].alone
    BY OthersRest DEF LinkInv, LinkTyped, SameThreads
  <1>2. \A e \in Terminals : ThreadOK(command[e])'
    <2> SUFFICES ASSUME NEW e \in Terminals \ {c} PROVE ThreadOK(command[e])'
      OBVIOUS
    <2>1. PICK d \in LinkThread : d = command[e] /\ ThreadOK(d) /\ command'[e] = d
      BY <1>1 DEF LinkInv, ShapeOK
    <2>2. ThreadOK(d)'
      BY <2>1
    <2> QED
      BY <2>1, <2>2 DEF ThreadOK
  <1>3. \A e \in Terminals : ThreadBlamed(D, command[e])'
    <2> SUFFICES ASSUME NEW e \in Terminals \ {c} PROVE ThreadBlamed(D, command[e])'
      OBVIOUS
    <2>1. PICK d \in LinkThread : /\ d = command[e] /\ ThreadOK(d) /\ command'[e] = d /\ ~d.alone
                                  /\ ThreadBlamed(C, d)
      BY <1>1 DEF LinkInv, ShapeOK, Blamed
    <2>2. ThreadBlamed(D, d)'
      BY <2>1
    <2> QED
      BY <2>1, <2>2 DEF ThreadBlamed
  <1>4. AloneOK'
    BY <1>1 DEF AloneOK
  <1>5. BlameOK'
    BY <1>3 DEF BlameOK, Blamed
  <1> QED
    BY <1>2, <1>4, <1>5 DEF LinkInv, ShapeOK

\* The nodes to blame are finitely many.
LEMMA BlameFinite ==
  ASSUME LinkTyped, NEW C \in SUBSET NodeIds
  PROVE  IsFiniteSet(C) /\ Cardinality(C) \in Nat
  <1>1. Len(nodes) \in Nat
    BY LenProperties DEF LinkTyped
  <1>2. IsFiniteSet(1..Len(nodes))
    BY <1>1, FS_Interval
  <1>3. IsFiniteSet(C)
    BY <1>2, FS_Subset DEF NodeIds
  <1> QED
    BY <1>3, FS_CardinalityType

\* One more is to blame for one that was pending.
LEMMA OneForOne ==
  ASSUME NEW a \in Nat, NEW b \in Nat, NEW p \in Nat, NEW q \in Nat, NEW m \in Nat,
         b <= a + 1, q = p - 1, a + p <= m
  PROVE  b + q <= m
  OBVIOUS

\* Who has yet to make a node, when c goes on.
LEMMA PendingAfter ==
  ASSUME LinkTyped, NEW c \in Terminals, SameThreads(c), command' \in [Terminals -> LinkThread],
         NEW C, Accounts(C), C \in SUBSET NodeIds, broken' \in Nat, broken' >= broken, overlaps' = overlaps
  PROVE  /\ IsFiniteSet(Pending') /\ IsFiniteSet(C)
         /\ Cardinality(Pending') \in Nat /\ Cardinality(C) \in Nat /\ Cardinality(Pending) \in Nat
         /\ c \notin Pending' \/ c \in Pending => Cardinality(Pending') <= Cardinality(Pending) /\ Accounts(C)'
         /\ c \notin Pending' /\ c \in Pending => Cardinality(Pending') = Cardinality(Pending) - 1
  <1>1. \A e \in Terminals \ {c} : e \in Pending' <=> e \in Pending
    BY DEF Pending, SameThreads
  <1>2. Pending' \subseteq Terminals /\ Pending \subseteq Terminals
    BY DEF Pending
  <1>3. IsFiniteSet(Pending)
    BY DEF Accounts
  <1>4. Pending' \subseteq Pending \cup {c}
    BY <1>1, <1>2
  <1>5. IsFiniteSet(Pending') /\ Cardinality(Pending') \in Nat /\ Cardinality(Pending) \in Nat
    BY <1>3, <1>4, OneMoreAt
  <1>6. IsFiniteSet(C) /\ Cardinality(C) \in Nat
    BY BlameFinite
  <1>7. ASSUME c \notin Pending' \/ c \in Pending
        PROVE  Cardinality(Pending') <= Cardinality(Pending)
    <2>1. Pending' \in SUBSET Pending
      BY <1>1, <1>2, <1>7
    <2> QED
      BY <2>1, <1>3, FS_Subset
  <1>8. ASSUME c \notin Pending', c \in Pending
        PROVE  Cardinality(Pending') = Cardinality(Pending) - 1
    <2>1. Pending' = Pending \ {c}
      BY <1>1, <1>2, <1>8
    <2> QED
      BY <2>1, <1>3, <1>8, FS_RemoveElement
  <1>9. ASSUME Cardinality(Pending') <= Cardinality(Pending) PROVE Accounts(C)'
    <2>1. broken \in Nat /\ overlaps \in Nat
      BY DEF LinkTyped
    <2>2. Cardinality(C) + Cardinality(Pending) <= broken + 2 * overlaps
      BY DEF Accounts
    <2>3. Cardinality(C) + Cardinality(Pending') <= broken' + 2 * overlaps'
      BY <1>5, <1>6, <1>9, <2>1, <2>2
    <2> QED
      BY <1>5, <2>3 DEF Accounts
  <1> QED
    BY <1>5, <1>6, <1>7, <1>8, <1>9

\* The command c changes keys at most, and does not fail to make a node.
LEMMA KeyStep ==
  ASSUME LinkInv, NEW c \in Terminals, ~Doing(c, "idle"), SameTable, links' \in Seq(LinkRow),
         SameThreads(c), command' \in [Terminals -> LinkThread],
         command'[c].row <= Len(links), command'[c].node <= Len(nodes), command'[c].conf <= Len(nodes),
         ini' \in 0..Len(nodes), UNCHANGED <<runs, overlaps>>, broken' \in 0..MaxBroken, broken' >= broken,
         ThreadOK(command[c])', command'[c].alone => AloneThread(c)', Clean',
         command[c].alone /\ command[c].pc = "wait" => Good(command[c].node),
         c \in Pending' => c \in Pending,
         \A C \in SUBSET NodeIds : Blamed(C) => RowsBlamed(C)' /\ ThreadBlamed(C, command[c])'
  PROVE  LinkInv'
  <1>1. PICK C \in SUBSET NodeIds : Blamed(C) /\ Accounts(C)
    BY DEF LinkInv, BlameOK
  <1>2. /\ RowsOK' /\ NodesOK'
        /\ \A d \in LinkThread : ThreadOK(d) => ThreadOK(d)'
    BY KeysShape DEF LinkInv
  <1>3. LinkTyped'
    <2>1. \A e \in Terminals : /\ command'[e].row <= Len(links)
                          /\ command'[e].node <= Len(nodes) /\ command'[e].conf <= Len(nodes)
      BY DEF LinkInv, LinkTyped, SameThreads
    <2> QED
      BY <2>1 DEF LinkInv, LinkTyped, SameTable, NodeIds
  <1>4. /\ \A n \in NodeIds : Good(n) => Good(n)'
        /\ NodesBlamed(C)' /\ C \in SUBSET NodeIds'
        /\ \A d \in LinkThread : ThreadOK(d) /\ ThreadBlamed(C, d) => ThreadBlamed(C, d)'
    BY <1>1, KeysBlame DEF LinkInv, Blamed
  <1>5. Settled(C)'
    <2>1. NodeIds' = NodeIds
      BY DEF SameTable, NodeIds
    <2>2. \A n \in NodeIds : Young(n) => Good(n)
      BY OthersRest DEF LinkInv
    <2> QED
      BY <1>1, <1>4, <2>1, <2>2 DEF Settled, Blamed
  <1>6. Accounts(C)'
    BY <1>1, PendingAfter DEF LinkInv
  <1> QED
    BY <1>1, <1>2, <1>3, <1>4, <1>5, <1>6, OwnStep

\* A command that is over refers to nothing.
LEMMA Stops ==
  ASSUME LinkTyped, NEW c \in Terminals, command' = [command EXCEPT ![c] = NoCommand]
  PROVE  /\ SameThreads(c) /\ command' \in [Terminals -> LinkThread] /\ command'[c].pc = "idle"
         /\ command'[c].row = 0 /\ command'[c].node = 0 /\ command'[c].conf = 0
         /\ ~command'[c].alone /\ c \notin Pending' /\ ThreadOK(command[c])'
         /\ \A C : ThreadBlamed(C, command[c])'
  <1>1. NoCommand \in LinkThread
    BY DEF NoCommand, LinkThread, LinkPcs
  <1>2. command' \in [Terminals -> LinkThread] /\ command'[c] = NoCommand /\ SameThreads(c)
    BY <1>1 DEF LinkTyped, SameThreads
  <1>3. NoCommand.pc = "idle" /\ NoCommand.row = 0 /\ NoCommand.node = 0 /\ NoCommand.conf = 0 /\ ~NoCommand.alone
    BY DEF NoCommand
  <1>4. ThreadOK(command[c])' /\ c \notin Pending'
    BY <1>2, <1>3 DEF ThreadOK, Joining, Leaving, Pending
  <1>5. \A C : ThreadBlamed(C, command[c])'
    BY <1>2, <1>3 DEF ThreadBlamed, Joining, Leaving
  <1> QED
    BY <1>2, <1>3, <1>4, <1>5

\* What a command under way is, and what its next step makes of it.
LEMMA ThreadTyped ==
  ASSUME LinkTyped, NEW c \in Terminals
  PROVE  /\ command[c] \in LinkThread /\ command[c].row \in Nat /\ command[c].row <= Len(links)
         /\ command[c].node \in Nat /\ command[c].node <= Len(nodes)
         /\ command[c].conf \in Nat /\ command[c].conf <= Len(nodes)
         /\ command[c].key \in AccessKeys \cup {0} /\ command[c].alone \in BOOLEAN
         /\ command[c].pc \in LinkPcs /\ Len(links) \in Nat /\ Len(nodes) \in Nat
  <1>1. command[c] \in LinkThread
    BY DEF LinkTyped
  <1>2. Len(links) \in Nat /\ Len(nodes) \in Nat
    BY LenProperties DEF LinkTyped
  <1> QED
    BY <1>1, <1>2 DEF LinkThread, LinkTyped

\* A command that goes on keeps what it works on.
LEMMA Steps ==
  ASSUME LinkTyped, NEW c \in Terminals, NEW pc \in LinkPcs, Step(c, pc)
  PROVE  /\ SameThreads(c) /\ command' \in [Terminals -> LinkThread] /\ command'[c].pc = pc
         /\ command'[c].row = command[c].row /\ command'[c].node = command[c].node
         /\ command'[c].conf = command[c].conf /\ command'[c].key = command[c].key
         /\ command'[c].alone = command[c].alone
  <1> DEFINE d == [command[c] EXCEPT !.pc = pc]
  <1>1. command[c] \in LinkThread
    BY DEF LinkTyped
  <1>2. /\ d \in LinkThread /\ d.pc = pc /\ d.row = command[c].row /\ d.node = command[c].node
        /\ d.conf = command[c].conf /\ d.key = command[c].key /\ d.alone = command[c].alone
    BY <1>1 DEF LinkThread
  <1>3. command' = [command EXCEPT ![c] = d]
    BY DEF Step
  <1> HIDE DEF d
  <1>4. command' \in [Terminals -> LinkThread] /\ command'[c] = d /\ SameThreads(c)
    BY <1>2, <1>3 DEF LinkTyped, SameThreads
  <1> QED
    BY <1>2, <1>4

\* A command that stops and leaves rows and nodes.
LEMMA StopKeeps ==
  ASSUME LinkInv, NEW c \in Terminals, command[c].pc \in {"resync", "link", "rekey"},
         command' = [command EXCEPT ![c] = NoCommand], ini' \in 0..Len(nodes),
         UNCHANGED <<links, nodes, runs, broken, overlaps>>
  PROVE  LinkInv'
  <1>1. LinkTyped /\ ~Doing(c, "idle")
    BY DEF LinkInv, Doing
  <1>2. /\ SameThreads(c) /\ command' \in [Terminals -> LinkThread] /\ command'[c].pc = "idle"
        /\ command'[c].row = 0 /\ command'[c].node = 0 /\ command'[c].conf = 0
        /\ ~command'[c].alone /\ c \notin Pending' /\ ThreadOK(command[c])'
        /\ \A C : ThreadBlamed(C, command[c])'
    BY <1>1, Stops
  <1>3. SameTable /\ links' \in Seq(LinkRow) /\ broken' \in 0..MaxBroken /\ broken' >= broken
    BY DEF LinkInv, LinkTyped, SameTable
  <1>4. Clean'
    <2>1. \A e \in Terminals \ {c} : command'[e] = command[e]
      BY <1>2 DEF SameThreads
    <2>2. Clean /\ \A e \in Terminals \ {c} : ~command[e].alone
      BY <1>1, <1>2, OthersRest DEF LinkInv
    <2>3. ASSUME overlaps = 0, broken = 0, NEW e \in Terminals, ~Doing(e, "idle")' PROVE FALSE
      BY <1>2, <2>1, <2>2, <2>3 DEF Clean, Doing
    <2>4. ASSUME overlaps = 0, broken = 0, NEW i \in Rows, links[i].there, NodeOf(i) = 0
          PROVE  \E e \in Terminals : command'[e].row = i /\ command'[e].pc \in {"post", "wait"}
      BY <2>1, <2>2, <2>4 DEF Clean
    <2> QED
      BY <2>3, <2>4 DEF Clean, Rows, NodeOf
  <1>5. \A C \in SUBSET NodeIds : Blamed(C) => RowsBlamed(C)'
    BY DEF Blamed, RowsBlamed, Rows, NodeOf
  <1>6. Len(links) \in Nat /\ Len(nodes) \in Nat
    BY <1>1, ThreadTyped
  <1> QED
    BY <1>1, <1>2, <1>3, <1>4, <1>5, <1>6, KeyStep

\* A resync repairs meta.ini and ends the command.
LEMMA ResyncKeeps ==
  ASSUME LinkInv, NEW c \in Terminals, Resync(c) PROVE LinkInv'
  <1>1. command[c].pc = "resync" /\ command[c].row \in Rows
    BY DEF Resync, Doing, LinkInv, ShapeOK, ThreadOK
  <1>2. ini' \in 0..Len(nodes)
    <2>1. NodeOf(command[c].row) = 0 \/ NodeOf(command[c].row) \in NodeIds
      BY <1>1 DEF LinkInv, ShapeOK, RowsOK
    <2>2. Len(nodes) \in Nat /\ ini \in 0..Len(nodes)
      BY LenProperties DEF LinkInv, LinkTyped
    <2> QED
      BY <2>1, <2>2 DEF Resync, NodeOf, NodeIds
  <1> QED
    BY <1>1, <1>2, StopKeeps DEF Resync

\* meta.ini gets the node of the row, and the command ends.
LEMMA LinkKeeps ==
  ASSUME LinkInv, NEW c \in Terminals, Link(c) PROVE LinkInv'
  <1>1. command[c].pc = "link" /\ command[c].row \in Rows
    BY DEF Link, Doing, LinkInv, ShapeOK, ThreadOK
  <1>2. ini' \in 0..Len(nodes)
    <2>1. NodeOf(command[c].row) = 0 \/ NodeOf(command[c].row) \in NodeIds
      BY <1>1 DEF LinkInv, ShapeOK, RowsOK
    <2>2. Len(nodes) \in Nat
      BY LenProperties DEF LinkInv, LinkTyped
    <2> QED
      BY <2>1, <2>2 DEF Link, NodeOf, NodeIds
  <1> QED
    BY <1>1, <1>2, StopKeeps DEF Link

\* A row without a node gets the key of the command.
LEMMA RekeyKeeps ==
  ASSUME LinkInv, NEW c \in Terminals, Rekey(c)
  PROVE  LinkInv'
  <1>1. /\ command[c].pc = "rekey" /\ ~Doing(c, "idle")
        /\ command[c].row \in Rows /\ command[c].key \in AccessKeys
        /\ UNCHANGED <<nodes, ini, runs, broken, overlaps>> /\ LinkTyped
    BY DEF Rekey, Doing, LinkInv, ShapeOK, ThreadOK, Joining
  <1>2. CASE ~links[command[c].row].there
    <2>1. links' = links /\ command' = [command EXCEPT ![c] = NoCommand]
      BY <1>2 DEF Rekey
    <2>2. ini' \in 0..Len(nodes)
      BY <1>1 DEF LinkTyped
    <2> QED
      BY <1>1, <2>1, <2>2, StopKeeps
  <1>3. CASE links[command[c].row].there
    <2>1. PICK r \in Rows, k \in AccessKeys : r = command[c].row /\ k = command[c].key
      BY <1>1
    <2>2. RowMoves(r, TRUE, k, NodeOf(r))
      <3> DEFINE e == [links[r] EXCEPT !.key = k]
      <3>1. e \in LinkRow /\ e.there = TRUE /\ e.key = k /\ e.node = NodeOf(r)
        BY <1>1, <1>3, <2>1, RowTyped DEF LinkRow, NodeOf
      <3>2. links' = [links EXCEPT ![r] = e]
        BY <1>3, <2>1 DEF Rekey
      <3> HIDE DEF e
      <3> QED
        BY <1>1, <3>1, <3>2, RowSet
    <2>3. /\ SameThreads(c) /\ command' \in [Terminals -> LinkThread] /\ command'[c].pc = "post"
          /\ command'[c].row = r /\ command'[c].node = command[c].node
          /\ command'[c].conf = command[c].conf /\ command'[c].key = k
          /\ command'[c].alone = command[c].alone
      BY <1>1, <1>3, <2>1, Steps DEF Rekey, LinkPcs
    <2>4. SameTable /\ links' \in Seq(LinkRow)
      BY <1>1, <1>3, <2>1, <2>2 DEF SameTable, RowMoves, SameRow, NodeOf
    <2>5. Rows' = Rows /\ NodeIds' = NodeIds
      BY <2>4 DEF SameTable, Rows, NodeIds
    <2>6. links'[r].there /\ links'[r].key = k /\ links'[r].node = links[r].node
      BY <2>2 DEF RowMoves, NodeOf
    <2>7. ThreadOK(command[c])'
      BY <1>1, <2>1, <2>3, <2>5 DEF ThreadOK, Joining, Leaving
    <2>8. ASSUME command'[c].alone PROVE AloneThread(c)'
      <3>1. AloneThread(c)
        BY <2>3, <2>8 DEF LinkInv, AloneOK
      <3>2. \A e \in Terminals \ {c} : Doing(e, "idle")'
        BY <2>3, <3>1 DEF AloneThread, Doing, SameThreads
      <3>3. \A n \in NodeIds' : ~Calling(n)'
        BY <1>1, <2>5, <3>1 DEF AloneThread, Calling
      <3>4. links[r].node = 0 /\ ~Taken
        BY <1>1, <2>1, <3>1 DEF AloneThread, NodeOf
      <3>5. ~Taken'
        BY <1>1, <2>2, <2>5, <2>6, <3>4 DEF RowMoves, SameRow, Taken, There
      <3> QED
        BY <2>3, <2>6, <3>2, <3>3, <3>4, <3>5 DEF AloneThread, Leaving, NodeOf
    <2>9. Clean'
      BY <1>1 DEF LinkInv, Clean, Doing
    <2>10. ASSUME NEW C \in SUBSET NodeIds, Blamed(C)
          PROVE  RowsBlamed(C)' /\ ThreadBlamed(C, command[c])'
      <3>1. links[r].node \in C \cup {0}
        BY <1>1, <2>1, <2>10 DEF Blamed, ThreadBlamed, Joining, NodeOf
      <3>2. RowsBlamed(C)'
        BY <2>2, <2>5, <2>6, <2>10, <3>1 DEF Blamed, RowsBlamed, RowMoves, SameRow, NodeOf
      <3>3. ThreadBlamed(C, command[c])'
        BY <2>3, <2>6, <3>1 DEF ThreadBlamed, Joining, Leaving, NodeOf
      <3> QED
        BY <3>2, <3>3
    <2>11. c \in Pending' => c \in Pending
      BY <1>1, <2>3 DEF Pending
    <2>12. /\ broken' \in 0..MaxBroken /\ broken' >= broken /\ ini' \in 0..Len(nodes)
      BY <1>1 DEF LinkTyped
    <2>13. /\ command'[c].row <= Len(links) /\ command'[c].node <= Len(nodes)
           /\ command'[c].conf <= Len(nodes)
      BY <1>1, <2>1, <2>3, ThreadTyped
    <2> QED
      BY <1>1, <2>3, <2>4, <2>7, <2>8, <2>9, <2>10, <2>11, <2>12, <2>13, KeyStep
  <1> QED
    BY <1>2, <1>3

\* The answer sends the command on to link or to fail; the node of one that fails is blamed on it.
LEMMA AnswerKeeps ==
  ASSUME LinkInv, NEW c \in Terminals, Answer(c)
  PROVE  LinkInv'
  <1>1. /\ command[c].pc = "wait" /\ ~Doing(c, "idle") /\ command[c].node \in NodeIds
        /\ command[c].row \in Rows /\ command[c].key \in AccessKeys
        /\ nodes[command[c].node].state \in {"saved", "refused", "dropped", "deleted"}
        /\ UNCHANGED <<links, nodes, ini, runs, broken, overlaps>> /\ LinkTyped
    BY DEF Answer, Doing, LinkInv, ShapeOK, ThreadOK, Joining
  <1>2. PICK n \in NodeIds : n = command[c].node
    BY <1>1
  <1>3. PICK row \in Rows, good \in BOOLEAN :
          /\ row = IF nodes[n].back \/ nodes[n].state = "refused" THEN command[c].row ELSE nodes[n].row
          /\ good = (/\ nodes[n].state \in {"saved", "deleted"} /\ Linked(row)
                     /\ nodes[n].back \/ links[row].node = n)
          /\ command' = [command EXCEPT ![c].row = row, ![c].pc = IF good THEN "link" ELSE "fail"]
    <2> DEFINE row == IF nodes[n].back \/ nodes[n].state = "refused" THEN command[c].row ELSE nodes[n].row
               good == /\ nodes[n].state \in {"saved", "deleted"} /\ Linked(row)
                       /\ nodes[n].back \/ links[row].node = n
    <2>1. row \in Rows
      <3>1. nodes[n].state = "dropped" => nodes[n].back
        BY DEF LinkInv, ShapeOK, NodesOK
      <3>2. nodes[n].state \in {"saved", "deleted"} => nodes[n].row \in Rows
        BY DEF LinkInv, ShapeOK, NodesOK, Saved
      <3> QED
        BY <1>1, <1>2, <3>1, <3>2
    <2>2. command' = [command EXCEPT ![c].row = row, ![c].pc = IF good THEN "link" ELSE "fail"]
      BY <1>2 DEF Answer
    <2>3. good \in BOOLEAN
      OBVIOUS
    <2> HIDE DEF row
    <2>4. good = (/\ nodes[n].state \in {"saved", "deleted"} /\ Linked(row)
                  /\ nodes[n].back \/ links[row].node = n)
      OBVIOUS
    <2>5. row = IF nodes[n].back \/ nodes[n].state = "refused" THEN command[c].row ELSE nodes[n].row
      BY DEF row
    <2> HIDE DEF good
    <2> QED
      BY <2>1, <2>2, <2>3, <2>4, <2>5
  <1>4. /\ SameThreads(c) /\ command' \in [Terminals -> LinkThread]
        /\ command'[c].pc = (IF good THEN "link" ELSE "fail")
        /\ command'[c].row = row /\ command'[c].node = n
        /\ command'[c].conf = command[c].conf /\ command'[c].key = command[c].key
        /\ command'[c].alone = command[c].alone
    <2> DEFINE d == [command[c] EXCEPT !.row = row, !.pc = IF good THEN "link" ELSE "fail"]
    <2>1. command[c] \in LinkThread /\ row \in Nat
      BY <1>1, ThreadTyped, RowTyped
    <2>2. /\ d \in LinkThread /\ d.pc = (IF good THEN "link" ELSE "fail") /\ d.row = row
          /\ d.node = command[c].node /\ d.conf = command[c].conf /\ d.key = command[c].key
          /\ d.alone = command[c].alone
      BY <2>1 DEF LinkThread, LinkPcs
    <2>3. command' = [command EXCEPT ![c] = d]
      BY <1>3
    <2> HIDE DEF d
    <2>4. command' \in [Terminals -> LinkThread] /\ command'[c] = d /\ SameThreads(c)
      BY <1>1, <2>2, <2>3 DEF LinkTyped, SameThreads
    <2> QED
      BY <1>2, <2>2, <2>4
  <1>5. SameTable /\ links' \in Seq(LinkRow) /\ Rows' = Rows /\ NodeIds' = NodeIds
    BY <1>1 DEF SameTable, LinkTyped, Rows, NodeIds
  <1>6. ThreadOK(command[c])'
    BY <1>1, <1>4, <1>5 DEF ThreadOK, Joining, Leaving
  <1>7. ASSUME command[c].alone
        PROVE  /\ nodes[n].state = "saved" /\ links[command[c].row].there /\ links[nodes[n].row].there
               /\ NodeOf(command[c].row) \in {0, n} /\ NodeOf(nodes[n].row) = n /\ nodes[n].row \in Rows
    <2>1. WaitOK(command[c])
      BY <1>1, <1>7 DEF LinkInv, AloneOK, AloneThread
    <2>2. nodes[n].row \in Rows \/ nodes[n].state # "saved"
      BY DEF LinkInv, ShapeOK, NodesOK, Saved
    <2> QED
      BY <1>1, <1>2, <2>1, <2>2 DEF WaitOK
  <1>8. n # 0
    BY DEF NodeIds
  <1>9. ASSUME command'[c].alone PROVE AloneThread(c)'
    <2>1. AloneThread(c)
      BY <1>4, <1>9 DEF LinkInv, AloneOK
    <2>2. \A e \in Terminals \ {c} : Doing(e, "idle")'
      BY <1>4, <2>1 DEF AloneThread, Doing, SameThreads
    <2>3. \A m \in NodeIds' : ~Calling(m)'
      BY <1>1, <1>2, <1>5, <2>1 DEF AloneThread, Calling
    <2>4. ~Taken'
      BY <1>1, <1>5, <2>1 DEF AloneThread, Taken, There
    <2> QED
      BY <1>4, <2>2, <2>3, <2>4 DEF AloneThread, Leaving
  <1>10. command[c].alone => Good(n)
    BY <1>7, <1>8 DEF Good, HasRow, Alive
  <1>11. Clean'
    <2> SUFFICES ASSUME overlaps = 0, broken = 0 PROVE Clean'
      BY <1>1 DEF Clean
    <2>1. command[c].alone /\ nodes[n].row = command[c].row
      BY <1>1, <1>2 DEF LinkInv, Clean
    <2>2. links[command[c].row].there /\ NodeOf(command[c].row) = n /\ row = command[c].row /\ good
      BY <1>3, <1>7, <1>8, <2>1 DEF Linked, NodeOf
    <2>3. \A e \in Terminals \ {c} : command'[e] = command[e]
      BY <1>4 DEF SameThreads
    <2>4. \A e \in Terminals \ {c} : Doing(e, "idle")
      BY <2>1 DEF LinkInv, AloneOK, AloneThread
    <2>5. \A i \in Rows : ~(links[i].there /\ NodeOf(i) = 0)
      BY <1>8, <2>2, <2>4 DEF LinkInv, Clean, Doing
    <2>6. \A e \in Terminals \ {c} : Doing(e, "idle")'
      BY <2>3, <2>4 DEF Doing
    <2>7. /\ command'[c].alone /\ command'[c].pc = "link"
          /\ links'[command'[c].row].there /\ links'[command'[c].row].node # 0
      BY <1>1, <1>4, <1>8, <2>1, <2>2 DEF NodeOf
    <2>8. \A i \in Rows' : ~(links'[i].there /\ NodeOf(i)' = 0)
      BY <1>1, <1>5, <2>5 DEF NodeOf
    <2> QED
      BY <2>6, <2>7, <2>8 DEF Clean, NodeOf
  <1>12. ASSUME NEW C \in SUBSET NodeIds, Blamed(C)
         PROVE  RowsBlamed(C)' /\ ThreadBlamed(C, command[c])'
    <2>1. RowsBlamed(C)'
      BY <1>1, <1>5, <1>12 DEF Blamed, RowsBlamed, NodeOf
    <2>2. good \/ NodeOf(row) \in C \cup {0}
      <3>1. CASE command[c].alone
        BY <1>3, <1>7, <1>8, <3>1 DEF Linked, NodeOf
      <3>2. CASE ~command[c].alone
        <4>1. n \in C /\ NodeOf(command[c].row) \in C \cup {0}
          BY <1>1, <1>2, <1>12, <3>2 DEF Blamed, ThreadBlamed, Joining
        <4>2. nodes[n].state \in {"saved", "deleted"} => NodeOf(nodes[n].row) \in C \cup {0}
          BY <1>12, <4>1 DEF Blamed, NodesBlamed, Saved
        <4>3. nodes[n].state = "dropped" => nodes[n].back
          BY DEF LinkInv, ShapeOK, NodesOK
        <4> QED
          BY <1>1, <1>2, <1>3, <4>1, <4>2, <4>3
      <3> QED
        BY <3>1, <3>2
    <2>3. links' = links
      BY <1>1
    <2>4. ThreadBlamed(C, command[c])'
      BY <1>4, <2>2, <2>3 DEF ThreadBlamed, Joining, Leaving, NodeOf
    <2> QED
      BY <2>1, <2>4
  <1>13. c \in Pending' => c \in Pending
    BY <1>4 DEF Pending
  <1>14. /\ broken' \in 0..MaxBroken /\ broken' >= broken /\ ini' \in 0..Len(nodes)
    BY <1>1 DEF LinkTyped
  <1>15. /\ command'[c].row <= Len(links) /\ command'[c].node <= Len(nodes)
         /\ command'[c].conf <= Len(nodes)
    BY <1>1, <1>2, <1>4, ThreadTyped DEF Rows
  <1> QED
    BY <1>1, <1>2, <1>4, <1>5, <1>6, <1>9, <1>10, <1>11, <1>12, <1>13, <1>14, <1>15, KeyStep

\* The request to add a node is lost.
LEMMA LostKeeps ==
  ASSUME LinkInv, NEW c \in Terminals, command[c].pc = "post", Break, Step(c, "fail"),
         UNCHANGED <<links, nodes, ini, runs, overlaps>>
  PROVE  LinkInv'
  <1>1. /\ ~Doing(c, "idle") /\ LinkTyped /\ command[c].row \in Rows
        /\ broken' = broken + 1 /\ broken < MaxBroken
    BY DEF Break, Doing, LinkInv, ShapeOK, ThreadOK, Joining
  <1>2. /\ SameThreads(c) /\ command' \in [Terminals -> LinkThread] /\ command'[c].pc = "fail"
        /\ command'[c].row = command[c].row /\ command'[c].node = command[c].node
        /\ command'[c].conf = command[c].conf /\ command'[c].key = command[c].key
        /\ command'[c].alone = command[c].alone
    BY <1>1, Steps DEF LinkPcs
  <1>3. SameTable /\ links' \in Seq(LinkRow) /\ Rows' = Rows /\ NodeIds' = NodeIds
    BY <1>1 DEF SameTable, LinkTyped, Rows, NodeIds
  <1>4. ThreadOK(command[c])'
    BY <1>1, <1>2, <1>3 DEF ThreadOK, Joining, Leaving
  <1>5. ASSUME command'[c].alone PROVE AloneThread(c)'
    <2>1. AloneThread(c)
      BY <1>2, <1>5 DEF LinkInv, AloneOK
    <2>2. \A e \in Terminals \ {c} : Doing(e, "idle")'
      BY <1>2, <2>1 DEF AloneThread, Doing, SameThreads
    <2>3. \A m \in NodeIds' : ~Calling(m)'
      BY <1>3, <2>1 DEF AloneThread, Calling
    <2>4. ~Taken'
      BY <1>3, <2>1 DEF AloneThread, Taken, There
    <2> QED
      BY <1>2, <2>2, <2>3, <2>4 DEF AloneThread, Leaving
  <1>6. broken \in Nat /\ broken' \in 0..MaxBroken /\ broken' >= broken /\ ini' \in 0..Len(nodes) /\ broken' # 0
    BY <1>1 DEF LinkTyped
  <1>7. Clean'
    BY <1>6 DEF Clean
  <1>8. ASSUME NEW C \in SUBSET NodeIds, Blamed(C)
        PROVE  RowsBlamed(C)' /\ ThreadBlamed(C, command[c])'
    <2>1. RowsBlamed(C)'
      BY <1>3, <1>8 DEF Blamed, RowsBlamed, NodeOf
    <2>2. NodeOf(command[c].row) \in C \cup {0}
      BY <1>8 DEF Blamed, ThreadBlamed, Joining
    <2>3. ThreadBlamed(C, command[c])'
      BY <1>2, <2>2 DEF ThreadBlamed, Joining, Leaving, NodeOf
    <2> QED
      BY <2>1, <2>3
  <1>9. c \in Pending' => c \in Pending
    BY <1>2 DEF Pending
  <1>10. /\ command'[c].row <= Len(links) /\ command'[c].node <= Len(nodes)
         /\ command'[c].conf <= Len(nodes)
    BY <1>1, <1>2, ThreadTyped
  <1> QED
    BY <1>1, <1>2, <1>3, <1>4, <1>5, <1>6, <1>7, <1>8, <1>9, <1>10, KeyStep

\* An init_key that is put back on a linked row was blamed when the deletion failed.
LEMMA RestoreKeeps ==
  ASSUME LinkInv, NEW c \in Terminals, Restore(c)
  PROVE  LinkInv'
  <1>1. /\ command[c].pc = "restore" /\ ~Doing(c, "idle") /\ LinkTyped /\ command[c].row \in Rows
        /\ command' = [command EXCEPT ![c] = NoCommand]
        /\ UNCHANGED <<nodes, ini, runs, broken, overlaps>>
    BY DEF Restore, Doing, LinkInv, ShapeOK, ThreadOK, Leaving
  <1>2. /\ SameThreads(c) /\ command' \in [Terminals -> LinkThread] /\ command'[c].pc = "idle"
        /\ command'[c].row = 0 /\ command'[c].node = 0 /\ command'[c].conf = 0
        /\ ~command'[c].alone /\ c \notin Pending' /\ ThreadOK(command[c])'
        /\ \A C : ThreadBlamed(C, command[c])'
    BY <1>1, Stops
  <1>3. PICK r \in Rows, k \in AccessKeys \cup {0} : r = command[c].row /\ k = command[c].key
    BY <1>1, ThreadTyped
  <1>4. /\ SameTable /\ links' \in Seq(LinkRow)
        /\ \A i \in Rows : links'[i].key = links[i].key \/ (i = r /\ k # 0 /\ links'[i].key = k)
    <2>1. CASE k # 0 /\ links[r].there
      <3> DEFINE e == [links[r] EXCEPT !.key = k]
      <3>1. e \in LinkRow /\ e.there = links[r].there /\ e.key = k /\ e.node = links[r].node
        BY <1>1, RowTyped DEF LinkRow
      <3>2. links' = [links EXCEPT ![r] = e]
        BY <1>3, <2>1 DEF Restore
      <3> HIDE DEF e
      <3>3. RowMoves(r, links[r].there, k, links[r].node)
        BY <1>1, <3>1, <3>2, RowSet
      <3> QED
        BY <1>1, <2>1, <3>3 DEF RowMoves, SameTable, SameRow
    <2>2. CASE ~(k # 0 /\ links[r].there)
      <3>1. links' = links
        BY <1>3, <2>2 DEF Restore
      <3> QED
        BY <1>1, <3>1 DEF SameTable, LinkTyped
    <2> QED
      BY <2>1, <2>2
  <1>5. Clean'
    BY <1>1 DEF LinkInv, Clean, Doing
  <1>6. ASSUME NEW C \in SUBSET NodeIds, Blamed(C) PROVE RowsBlamed(C)'
    <2>1. k # 0 => links[r].node \in C
      BY <1>1, <1>3, <1>6 DEF Blamed, ThreadBlamed, NodeOf
    <2>2. Rows' = Rows
      BY <1>4 DEF SameTable, Rows
    <2> QED
      BY <1>4, <1>6, <2>1, <2>2 DEF SameTable, Blamed, RowsBlamed, NodeOf
  <1>7. /\ broken' \in 0..MaxBroken /\ broken' >= broken /\ ini' \in 0..Len(nodes)
        /\ Len(links) \in Nat /\ Len(nodes) \in Nat
    BY <1>1, ThreadTyped DEF LinkTyped
  <1> QED
    BY <1>1, <1>2, <1>4, <1>5, <1>6, <1>7, KeyStep

\* The row of a command that failed, or whose node was deleted, goes.
LEMMA DropKeeps ==
  ASSUME LinkInv, NEW c \in Terminals, command[c].pc \in {"fail", "unlinked"},
         links' = [links EXCEPT ![command[c].row].there = FALSE],
         command' = [command EXCEPT ![c] = NoCommand], ini' \in 0..Len(nodes),
         UNCHANGED <<nodes, runs, broken, overlaps>>
  PROVE  LinkInv'
  <1>1. /\ ~Doing(c, "idle") /\ LinkTyped /\ command[c].row \in Rows
    BY DEF Doing, LinkInv, ShapeOK, ThreadOK, Joining, Leaving
  <1>2. /\ SameThreads(c) /\ command' \in [Terminals -> LinkThread] /\ command'[c].pc = "idle"
        /\ command'[c].row = 0 /\ command'[c].node = 0 /\ command'[c].conf = 0
        /\ ~command'[c].alone /\ c \notin Pending' /\ ThreadOK(command[c])'
        /\ \A C : ThreadBlamed(C, command[c])'
    BY <1>1, Stops
  <1>3. PICK r \in Rows : r = command[c].row
    BY <1>1
  <1>4. /\ links' \in Seq(LinkRow) /\ Len(links') = Len(links)
        /\ \A i \in Rows : links'[i].node = links[i].node /\ links'[i].key = links[i].key
        /\ \A i \in Rows : i # r => links'[i].there = links[i].there
        /\ ~links'[r].there
    <2> DEFINE e == [links[r] EXCEPT !.there = FALSE]
    <2>1. e \in LinkRow /\ e.there = FALSE /\ e.key = links[r].key /\ e.node = links[r].node
      BY <1>1, RowTyped DEF LinkRow
    <2>2. links' = [links EXCEPT ![r] = e]
      BY <1>3
    <2> HIDE DEF e
    <2>3. RowMoves(r, FALSE, links[r].key, links[r].node)
      BY <1>1, <2>1, <2>2, RowSet
    <2> QED
      BY <2>3 DEF RowMoves, SameRow
  <1>5. Rows' = Rows /\ NodeIds' = NodeIds /\ nodes' = nodes
    BY <1>4 DEF Rows, NodeIds
  <1>6. LinkTyped'
    <2>1. \A e \in Terminals : /\ command'[e].row <= Len(links)
                          /\ command'[e].node <= Len(nodes) /\ command'[e].conf <= Len(nodes)
      BY <1>1, <1>2, ThreadTyped DEF LinkTyped, SameThreads
    <2> QED
      BY <1>1, <1>2, <1>4, <1>5, <2>1 DEF LinkTyped
  <1>7. RowsOK'
    BY <1>4, <1>5 DEF LinkInv, ShapeOK, RowsOK, NodeOf
  <1>8. NodesOK'
    BY <1>4, <1>5 DEF LinkInv, ShapeOK, NodesOK, NodeOf
  <1>9. \A d \in LinkThread : ThreadOK(d) => ThreadOK(d)'
    BY <1>5 DEF ThreadOK
  <1>10. PICK C \in SUBSET NodeIds : Blamed(C) /\ Accounts(C)
    BY DEF LinkInv, BlameOK
  <1>11. \A e \in Terminals \ {c} : command'[e] = command[e] /\ ~command[e].alone
    BY <1>1, <1>2, OthersRest DEF LinkInv, SameThreads
  <1>12. Settled(C)'
    <2> SUFFICES ASSUME NEW n \in NodeIds \ C PROVE Good(n)'
      BY <1>5 DEF Settled
    <2>1. ~Young(n)
      BY <1>1, <1>2, OthersRest DEF LinkInv
    <2>2. Good(n)
      BY <1>10, <2>1 DEF Blamed, Settled
    <2>3. links[r].node # n \/ (links[r].node = n /\ ~Alive(n))
      <3>1. CASE command[c].pc = "fail"
        <4>1. links[r].node \in C \cup {0}
          BY <1>3, <1>10, <3>1 DEF Blamed, ThreadBlamed, Joining, NodeOf
        <4> QED
          BY <4>1 DEF NodeIds
      <3>2. CASE command[c].pc = "unlinked"
        <4>1. links[r].node \in C \cup {command[c].node}
          BY <1>3, <1>10, <3>2 DEF Blamed, ThreadBlamed, Leaving, NodeOf
        <4>2. nodes[command[c].node].state = "deleted"
          BY <3>2 DEF LinkInv, ShapeOK, ThreadOK
        <4> QED
          BY <4>1, <4>2 DEF Alive
      <3> QED
        BY <3>1, <3>2
    <2>4. Alive(n)' = Alive(n)
      BY <1>5 DEF Alive
    <2>5. CASE links[r].node # n
      BY <1>4, <1>5, <2>2, <2>4, <2>5 DEF Good, HasRow, NodeOf
    <2>6. CASE links[r].node = n /\ ~Alive(n)
      BY <1>4, <1>5, <2>2, <2>4, <2>6 DEF Good, HasRow, NodeOf
    <2> QED
      BY <2>3, <2>5, <2>6
  <1>13. NodesBlamed(C)'
    BY <1>4, <1>5, <1>10 DEF Blamed, NodesBlamed, NodeOf, LinkInv, ShapeOK, NodesOK
  <1>14. RowsBlamed(C)'
    BY <1>4, <1>5, <1>10 DEF Blamed, RowsBlamed, NodeOf
  <1>15. \A d \in LinkThread : ThreadOK(d) /\ ThreadBlamed(C, d) => ThreadBlamed(C, d)'
    <2> SUFFICES ASSUME NEW d \in LinkThread, ThreadOK(d), ThreadBlamed(C, d)
                 PROVE  ThreadBlamed(C, d)'
      OBVIOUS
    <2>1. d.pc \in Joining \cup Leaving => NodeOf(d.row)' = NodeOf(d.row)
      BY <1>4 DEF ThreadOK, NodeOf
    <2>2. {"unlink", "restore"} \subseteq Leaving
      BY DEF Leaving
    <2> QED
      BY <2>1, <2>2 DEF ThreadBlamed
  <1>16. Accounts(C)'
    BY <1>1, <1>2, <1>10, PendingAfter DEF LinkTyped
  <1>17. Clean'
    <2> SUFFICES ASSUME overlaps = 0, broken = 0 PROVE Clean'
      BY DEF Clean
    <2>1. \A e \in Terminals \ {c} : Doing(e, "idle") /\ Doing(e, "idle")'
      BY <1>11 DEF LinkInv, Clean, Doing
    <2>2. \A i \in Rows : ~(links[i].there /\ NodeOf(i) = 0)
      BY <2>1 DEF LinkInv, Clean, Doing
    <2>3. \A i \in Rows' : ~(links'[i].there /\ NodeOf(i)' = 0)
      BY <1>4, <1>5, <2>2 DEF NodeOf
    <2> QED
      BY <1>2, <2>1, <2>3 DEF Clean, Doing
  <1>18. C \in SUBSET NodeIds'
    BY <1>5
  <1> QED
    BY <1>1, <1>2, <1>6, <1>7, <1>8, <1>9, <1>10, <1>12, <1>13, <1>14, <1>15, <1>16, <1>17, <1>18, OwnStep

\* A new row has no node; a command that met another pays for the node to come.
LEMMA CreateKeeps ==
  ASSUME LinkInv, NEW c \in Terminals, Create(c)
  PROVE  LinkInv'
  <1>1. /\ command[c].pc = "create" /\ ~Doing(c, "idle") /\ LinkTyped
        /\ command[c].key \in AccessKeys /\ Len(links) < MaxLinkRows
        /\ UNCHANGED <<nodes, ini, runs, broken, overlaps>>
    BY DEF Create, Doing, LinkInv, ShapeOK, ThreadOK
  <1>2. PICK k \in AccessKeys, r \in Nat \ {0} : k = command[c].key /\ r = Len(links) + 1
    BY <1>1, ThreadTyped
  <1>3. /\ links' \in Seq(LinkRow) /\ Len(links') = r
        /\ \A i \in Rows : links'[i] = links[i]
        /\ links'[r].there /\ links'[r].key = k /\ links'[r].node = 0
    <2> DEFINE e == [there |-> TRUE, key |-> k, node |-> 0]
    <2>1. e \in LinkRow /\ e.there /\ e.key = k /\ e.node = 0
      BY DEF LinkRow
    <2>2. links' = Append(links, e)
      BY <1>2 DEF Create
    <2> HIDE DEF e
    <2>3. links \in Seq(LinkRow)
      BY <1>1 DEF LinkTyped
    <2> QED
      BY <1>2, <2>1, <2>2, <2>3, Added DEF Rows
  <1>4. Rows' = Rows \cup {r} /\ r \notin Rows /\ NodeIds' = NodeIds /\ nodes' = nodes
    BY <1>1, <1>2, <1>3, ThreadTyped DEF Rows, NodeIds
  <1>5. /\ SameThreads(c) /\ command' \in [Terminals -> LinkThread]
        /\ command'[c].pc = "post" /\ command'[c].row = r /\ command'[c].node = command[c].node
        /\ command'[c].conf = command[c].conf /\ command'[c].key = k
        /\ command'[c].alone = command[c].alone
    <2> DEFINE d == [command[c] EXCEPT !.pc = "post", !.row = r]
    <2>1. command[c] \in LinkThread
      BY <1>1, ThreadTyped
    <2>2. /\ d \in LinkThread /\ d.pc = "post" /\ d.row = r
          /\ d.node = command[c].node /\ d.conf = command[c].conf /\ d.key = k
          /\ d.alone = command[c].alone
      BY <1>2, <2>1 DEF LinkThread, LinkPcs
    <2>3. command' = [command EXCEPT ![c] = d]
      BY <1>2 DEF Create
    <2> HIDE DEF d
    <2>4. command' \in [Terminals -> LinkThread] /\ command'[c] = d /\ SameThreads(c)
      BY <1>1, <2>2, <2>3 DEF LinkTyped, SameThreads
    <2> QED
      BY <2>2, <2>4
  <1>6. LinkTyped'
    <2>1. \A e \in Terminals : /\ command'[e].row <= r
                          /\ command'[e].node <= Len(nodes) /\ command'[e].conf <= Len(nodes)
      BY <1>1, <1>2, <1>5, ThreadTyped DEF LinkTyped, SameThreads
    <2>2. \A n \in NodeIds : nodes[n].row <= r
      BY <1>1, <1>2, NodeTyped, ThreadTyped DEF LinkTyped
    <2>3. r <= MaxLinkRows
      BY <1>1, <1>2, ThreadTyped
    <2> QED
      BY <1>1, <1>3, <1>4, <1>5, <2>1, <2>2, <2>3 DEF LinkTyped
  <1>7. RowsOK'
    BY <1>3, <1>4 DEF LinkInv, ShapeOK, RowsOK, NodeOf
  <1>8. NodesOK'
    BY <1>3, <1>4 DEF LinkInv, ShapeOK, NodesOK, NodeOf
  <1>9. \A d \in LinkThread : ThreadOK(d) => ThreadOK(d)'
    BY <1>4 DEF ThreadOK
  <1>10. PICK C \in SUBSET NodeIds : Blamed(C) /\ Accounts(C)
    BY DEF LinkInv, BlameOK
  <1>11. Settled(C)'
    <2> SUFFICES ASSUME NEW n \in NodeIds \ C PROVE Good(n)'
      BY <1>4 DEF Settled
    <2>1. ~Young(n)
      BY <1>1, <1>5, OthersRest DEF LinkInv
    <2>2. Good(n) /\ n # 0
      BY <1>10, <2>1 DEF Blamed, Settled, NodeIds
    <2>3. Alive(n)' = Alive(n)
      BY <1>4 DEF Alive
    <2> QED
      BY <1>3, <1>4, <2>2, <2>3 DEF Good, HasRow, NodeOf
  <1>12. NodesBlamed(C)'
    BY <1>3, <1>4, <1>10 DEF Blamed, NodesBlamed, NodeOf, LinkInv, ShapeOK, NodesOK
  <1>13. RowsBlamed(C)'
    BY <1>3, <1>4, <1>10 DEF Blamed, RowsBlamed, NodeOf
  <1>14. \A d \in LinkThread : ThreadOK(d) /\ ThreadBlamed(C, d) => ThreadBlamed(C, d)'
    <2> SUFFICES ASSUME NEW d \in LinkThread, ThreadOK(d), ThreadBlamed(C, d)
                 PROVE  ThreadBlamed(C, d)'
      OBVIOUS
    <2>1. d.pc \in Joining \cup Leaving => NodeOf(d.row)' = NodeOf(d.row)
      BY <1>3 DEF ThreadOK, NodeOf
    <2>2. {"unlink", "restore"} \subseteq Leaving
      BY DEF Leaving
    <2> QED
      BY <2>1, <2>2 DEF ThreadBlamed
  <1>15. ThreadBlamed(C, command[c])' /\ ThreadOK(command[c])'
    BY <1>3, <1>4, <1>5 DEF ThreadBlamed, ThreadOK, Joining, Leaving, NodeOf
  <1>16. Accounts(C)'
    <2>1. c \in Pending' => c \in Pending
      BY <1>1, <1>5 DEF Pending
    <2> QED
      BY <1>1, <1>5, <1>10, <2>1, PendingAfter DEF LinkTyped
  <1>17. ASSUME command'[c].alone PROVE AloneThread(c)'
    <2>1. AloneThread(c)
      BY <1>5, <1>17 DEF LinkInv, AloneOK
    <2>2. \A e \in Terminals \ {c} : Doing(e, "idle")'
      BY <1>5, <2>1 DEF AloneThread, Doing, SameThreads
    <2>3. \A m \in NodeIds' : ~Calling(m)'
      BY <1>1, <1>4, <2>1 DEF AloneThread, Calling
    <2>4. ~Taken'
      BY <1>3, <1>4, <2>1 DEF AloneThread, Taken, There
    <2> QED
      BY <1>3, <1>5, <2>2, <2>3, <2>4 DEF AloneThread, Leaving, NodeOf
  <1>18. Clean'
    <2> SUFFICES ASSUME overlaps = 0, broken = 0 PROVE Clean'
      BY <1>1 DEF Clean
    <2>1. command[c].alone
      BY <1>1 DEF LinkInv, Clean
    <2>2. \A e \in Terminals \ {c} : Doing(e, "idle") /\ Doing(e, "idle")'
      BY <1>5, <2>1 DEF LinkInv, AloneOK, AloneThread, Doing, SameThreads
    <2>3. \A i \in Rows : ~(links[i].there /\ NodeOf(i) = 0)
      BY <1>1, <2>2 DEF LinkInv, Clean, Doing
    <2>4. \A i \in Rows' : links'[i].there /\ NodeOf(i)' = 0 => i = r
      BY <1>3, <1>4, <2>3 DEF NodeOf
    <2> QED
      BY <1>5, <2>1, <2>2, <2>4 DEF Clean, Doing
  <1>19. C \in SUBSET NodeIds'
    BY <1>4
  <1> QED
    BY <1>1, <1>5, <1>6, <1>7, <1>8, <1>9, <1>10, <1>11, <1>12, <1>13, <1>14, <1>15, <1>16, <1>17, <1>18, <1>19, OwnStep

\* A command or a node that is not to blame stays so when more are.
LEMMA BlamedMore ==
  ASSUME NEW C, NEW D, C \subseteq D
  PROVE  \A d \in LinkThread : ThreadBlamed(C, d) => ThreadBlamed(D, d)
  BY DEF ThreadBlamed

\* One more is to blame.
LEMMA OneBlamed ==
  ASSUME LinkTyped, NEW C \in SUBSET NodeIds, NEW n \in Nat
  PROVE  /\ Cardinality(C) \in Nat /\ Cardinality(C \cup {n}) \in Nat
         /\ Cardinality(C \cup {n}) <= Cardinality(C) + 1
  BY BlameFinite, OneMoreAt

\* The supervisor gets the request and makes a node.
LEMMA PostedKeeps ==
  ASSUME LinkInv, NEW c \in Terminals, NEW back \in BOOLEAN, command[c].pc = "post", Len(nodes) < MaxNodes,
         nodes' = Append(nodes, [state |-> "sent", key |-> command[c].key, back |-> back, row |-> 0]),
         command' = [command EXCEPT ![c].pc = "wait", ![c].node = Len(nodes) + 1],
         UNCHANGED <<links, ini, runs, broken, overlaps>>
  PROVE  LinkInv'
  <1>1. /\ ~Doing(c, "idle") /\ LinkTyped /\ command[c].row \in Rows /\ command[c].key \in AccessKeys
    BY DEF Doing, LinkInv, ShapeOK, ThreadOK, Joining
  <1>2. PICK k \in AccessKeys, n \in Nat \ {0}, r \in Rows :
          k = command[c].key /\ n = Len(nodes) + 1 /\ r = command[c].row
    <2>1. Len(nodes) \in Nat
      BY <1>1, ThreadTyped
    <2>2. Len(nodes) + 1 \in Nat \ {0}
      BY <2>1
    <2> QED
      BY <1>1, <2>2
  <1>3. /\ nodes' \in Seq(LinkNode) /\ Len(nodes') = n
        /\ \A m \in NodeIds : nodes'[m] = nodes[m]
        /\ nodes'[n].state = "sent" /\ nodes'[n].key = k /\ nodes'[n].row = 0
    <2> DEFINE e == [state |-> "sent", key |-> k, back |-> back, row |-> 0]
    <2>1. e \in LinkNode /\ e.state = "sent" /\ e.key = k /\ e.row = 0
      BY DEF LinkNode
    <2>2. nodes' = Append(nodes, e)
      BY <1>2
    <2> HIDE DEF e
    <2>3. nodes \in Seq(LinkNode)
      BY <1>1 DEF LinkTyped
    <2> QED
      BY <1>2, <2>1, <2>2, <2>3, Added DEF NodeIds
  <1>4. Rows' = Rows /\ NodeIds' = NodeIds \cup {n} /\ n \notin NodeIds /\ links' = links
    BY <1>1, <1>2, <1>3, ThreadTyped DEF Rows, NodeIds
  <1>5. /\ SameThreads(c) /\ command' \in [Terminals -> LinkThread]
        /\ command'[c].pc = "wait" /\ command'[c].row = r /\ command'[c].node = n
        /\ command'[c].conf = command[c].conf /\ command'[c].key = k
        /\ command'[c].alone = command[c].alone
    <2> DEFINE d == [command[c] EXCEPT !.pc = "wait", !.node = n]
    <2>1. command[c] \in LinkThread
      BY <1>1, ThreadTyped
    <2>2. /\ d \in LinkThread /\ d.pc = "wait" /\ d.row = r /\ d.node = n
          /\ d.conf = command[c].conf /\ d.key = k /\ d.alone = command[c].alone
      BY <1>2, <2>1 DEF LinkThread, LinkPcs
    <2>3. command' = [command EXCEPT ![c] = d]
      BY <1>2
    <2> HIDE DEF d
    <2>4. command' \in [Terminals -> LinkThread] /\ command'[c] = d /\ SameThreads(c)
      BY <1>1, <2>2, <2>3 DEF LinkTyped, SameThreads
    <2> QED
      BY <2>2, <2>4
  <1>6. LinkTyped'
    <2>1. \A e \in Terminals : /\ command'[e].row <= Len(links)
                          /\ command'[e].node <= n /\ command'[e].conf <= n
      BY <1>1, <1>2, <1>5, ThreadTyped DEF SameThreads
    <2>2. \A m \in NodeIds' : nodes'[m].row <= Len(links)
      <3>1. \A m \in NodeIds : nodes[m].row <= Len(links)
        BY <1>1 DEF LinkTyped
      <3>2. 0 <= Len(links)
        BY <1>1, ThreadTyped
      <3> QED
        BY <1>3, <1>4, <3>1, <3>2
    <2>3. n <= MaxNodes /\ ini \in 0..n
      BY <1>1, <1>2, ThreadTyped DEF LinkTyped
    <2> QED
      BY <1>1, <1>3, <1>4, <1>5, <2>1, <2>2, <2>3 DEF LinkTyped
  <1>22. \A i : NodeOf(i)' = NodeOf(i)
    BY <1>4 DEF NodeOf
  <1>7. RowsOK'
    BY <1>3, <1>4, <1>22 DEF LinkInv, ShapeOK, RowsOK
  <1>8. NodesOK'
    <2> SUFFICES ASSUME NEW m \in NodeIds'
        PROVE  /\ nodes'[m].state \in {"found", "free"} \cup Saved => nodes'[m].row \in Rows
               /\ nodes'[m].state \in Saved => links[nodes'[m].row].node # 0 \/ ~links[nodes'[m].row].there
               /\ nodes'[m].state = "dropped" => nodes'[m].back
      BY <1>4 DEF NodesOK, NodeOf
    <2>1. CASE m = n
      BY <1>3, <2>1 DEF Saved
    <2>2. CASE m \in NodeIds
      <3>1. /\ nodes[m].state \in {"found", "free"} \cup Saved => nodes[m].row \in Rows
            /\ nodes[m].state \in Saved => links[nodes[m].row].node # 0 \/ ~links[nodes[m].row].there
            /\ nodes[m].state = "dropped" => nodes[m].back
        BY <2>2 DEF LinkInv, ShapeOK, NodesOK, NodeOf
      <3> QED
        BY <1>3, <2>2, <3>1
    <2> QED
      BY <1>4, <2>1, <2>2
  <1>9. \A d \in LinkThread : ThreadOK(d) => ThreadOK(d)'
    <2> SUFFICES ASSUME NEW d \in LinkThread, ThreadOK(d) PROVE ThreadOK(d)'
      OBVIOUS
    <2>1. d.pc \in Leaving => d.node \in NodeIds /\ nodes'[d.node] = nodes[d.node]
      BY <1>3 DEF ThreadOK
    <2>2. "unlinked" \in Leaving
      BY DEF Leaving
    <2> QED
      BY <1>4, <2>1, <2>2 DEF ThreadOK
  <1>10. PICK C \in SUBSET NodeIds : Blamed(C) /\ Accounts(C)
    BY DEF LinkInv, BlameOK
  <1>11. PICK D \in SUBSET (NodeIds \cup {n}) :
           D = IF command[c].alone THEN C ELSE C \cup {n}
    OBVIOUS
  <1>12. C \subseteq D /\ D \in SUBSET NodeIds'
    BY <1>4, <1>11
  <1>13. Settled(D)'
    <2> SUFFICES ASSUME NEW m \in NodeIds', m \notin D PROVE Good(m)' \/ Young(m)'
      BY DEF Settled
    <2>1. CASE m = n
      BY <1>5, <1>11, <2>1 DEF Young, Doing
    <2>2. CASE m # n
      <3>1. m \in NodeIds \ C
        BY <1>4, <1>12, <2>2
      <3>2. ~Young(m)
        BY <1>1, <1>5, OthersRest DEF LinkInv
      <3>3. Good(m) /\ m # 0
        BY <1>10, <3>1, <3>2 DEF Blamed, Settled, NodeIds
      <3>4. Alive(m)' = Alive(m)
        BY <1>3, <3>1 DEF Alive
      <3> QED
        BY <1>4, <3>3, <3>4 DEF Good, HasRow, NodeOf
    <2> QED
      BY <2>1, <2>2
  <1>14. NodesBlamed(D)'
    <2> SUFFICES ASSUME NEW m \in NodeIds', nodes'[m].state \in {"found", "free"} \cup Saved
                 PROVE  NodeOf(nodes[m].row)' \in D \cup {0, m}
      BY DEF NodesBlamed
    <2>1. m # n
      BY <1>3 DEF Saved
    <2>2. m \in NodeIds /\ nodes'[m] = nodes[m]
      BY <1>3, <1>4, <2>1
    <2> QED
      BY <1>4, <1>10, <1>12, <2>2 DEF Blamed, NodesBlamed, NodeOf
  <1>15. RowsBlamed(D)'
    BY <1>4, <1>10, <1>12 DEF Blamed, RowsBlamed, NodeOf
  <1>16. \A d \in LinkThread : ThreadOK(d) /\ ThreadBlamed(C, d) => ThreadBlamed(D, d)'
    <2> SUFFICES ASSUME NEW d \in LinkThread, ThreadBlamed(C, d) PROVE ThreadBlamed(D, d)'
      OBVIOUS
    <2>1. ThreadBlamed(D, d)
      BY <1>12, BlamedMore
    <2> QED
      BY <1>4, <2>1 DEF ThreadBlamed, NodeOf
  <1>17. NodeOf(r) \in C \cup {0}
    BY <1>2, <1>10 DEF Blamed, ThreadBlamed, Joining
  <1>18. ThreadBlamed(D, command[c])' /\ ThreadOK(command[c])'
    <2>1. ThreadOK(command[c])'
      BY <1>4, <1>5 DEF ThreadOK, Joining, Leaving
    <2>2. ~command'[c].alone => n \in D
      BY <1>5, <1>11
    <2>3. links'[r].node \in D \cup {0}
      BY <1>4, <1>12, <1>17 DEF NodeOf
    <2>4. ThreadBlamed(D, command[c])'
      BY <1>5, <2>2, <2>3 DEF ThreadBlamed, Joining, Leaving, NodeOf
    <2> QED
      BY <2>1, <2>4
  <1>19. Accounts(D)'
    <2>1. c \notin Pending' /\ (~command[c].alone => c \in Pending)
      BY <1>5 DEF Pending
    <2>2. broken \in Nat /\ overlaps \in Nat
      BY <1>1 DEF LinkTyped
    <2>3. /\ IsFiniteSet(Pending') /\ Cardinality(Pending') \in Nat /\ Accounts(C)'
          /\ Cardinality(C) \in Nat /\ Cardinality(Pending) \in Nat
          /\ c \in Pending => Cardinality(Pending') = Cardinality(Pending) - 1
      BY <1>1, <1>5, <1>10, <2>1, <2>2, PendingAfter
    <2>4. CASE command[c].alone
      BY <1>11, <2>3, <2>4
    <2>5. CASE ~command[c].alone
      <3>1. /\ Cardinality(D) \in Nat /\ Cardinality(D) <= Cardinality(C) + 1
        BY <1>1, <1>11, <2>5, OneBlamed
      <3>2. Cardinality(C) + Cardinality(Pending) <= broken + 2 * overlaps
        BY <1>10 DEF Accounts
      <3>3. Cardinality(Pending') = Cardinality(Pending) - 1
        BY <2>1, <2>3, <2>5
      <3>4. PICK x \in Nat, y \in Nat, p \in Nat, q \in Nat, m \in Nat :
              /\ x = Cardinality(C) /\ y = Cardinality(D)
              /\ p = Cardinality(Pending) /\ q = Cardinality(Pending') /\ m = broken + 2 * overlaps
        BY <2>2, <2>3, <3>1
      <3>5. y + q <= m
        <4>1. y <= x + 1 /\ q = p - 1 /\ x + p <= m
          BY <3>1, <3>2, <3>3, <3>4
        <4> QED
          BY <4>1, OneForOne
      <3>6. broken' = broken /\ overlaps' = overlaps
        OBVIOUS
      <3> QED
        BY <2>3, <3>4, <3>5, <3>6 DEF Accounts
    <2> QED
      BY <2>4, <2>5
  <1>20. ASSUME command'[c].alone PROVE AloneThread(c)'
    <2>1. AloneThread(c)
      BY <1>5, <1>20 DEF LinkInv, AloneOK
    <2>2. \A e \in Terminals \ {c} : Doing(e, "idle")'
      BY <1>5, <2>1 DEF AloneThread, Doing, SameThreads
    <2>3. \A m \in NodeIds : ~Calling(m)'
      BY <1>3, <2>1 DEF AloneThread, Calling
    <2>4. ~Taken'
      BY <1>4, <2>1 DEF AloneThread, Taken, There
    <2>5. links[r].there /\ links[r].node = 0 /\ links[r].key = k
      BY <1>2, <2>1 DEF AloneThread, NodeOf
    <2>6. WaitOK(command[c])'
      BY <1>3, <1>4, <1>5, <2>5 DEF WaitOK, NodeOf
    <2> QED
      BY <1>4, <1>5, <2>2, <2>3, <2>4, <2>6 DEF AloneThread, Leaving
  <1>21. Clean'
    <2> SUFFICES ASSUME overlaps = 0, broken = 0 PROVE Clean'
      BY DEF Clean
    <2>1. command[c].alone
      BY <1>1 DEF LinkInv, Clean
    <2>2. \A e \in Terminals \ {c} : Doing(e, "idle") /\ Doing(e, "idle")'
      BY <1>5, <2>1 DEF LinkInv, AloneOK, AloneThread, Doing, SameThreads
    <2>3. \A i \in Rows : links[i].there /\ links[i].node = 0 => i = r
      BY <1>1, <1>2, <2>2 DEF LinkInv, Clean, Doing, NodeOf
    <2> QED
      BY <1>3, <1>4, <1>5, <2>1, <2>2, <2>3 DEF Clean, Doing, NodeOf
  <1> QED
    BY <1>1, <1>5, <1>6, <1>7, <1>8, <1>9, <1>10, <1>12, <1>13, <1>14, <1>15, <1>16, <1>18, <1>19, <1>20, <1>21, OwnStep

\* A new node is young with a command alone, or paid for by one that met another.
LEMMA PostKeeps ==
  ASSUME LinkInv, NEW c \in Terminals, Post(c) PROVE LinkInv'
  BY PostedKeeps, LostKeeps DEF Post, Doing

\* A command that gives up is blamed for its node.
LEMMA GiveUpKeeps ==
  ASSUME LinkInv, NEW c \in Terminals, GiveUp(c)
  PROVE  LinkInv'
  <1>1. /\ ~Doing(c, "idle") /\ LinkTyped /\ command[c].row \in Rows /\ command[c].node \in NodeIds
        /\ command[c].pc = "wait" /\ broken' = broken + 1 /\ broken < MaxBroken /\ Step(c, "fail")
        /\ UNCHANGED <<links, ini, runs, overlaps>>
    BY DEF GiveUp, Break, Doing, LinkInv, ShapeOK, ThreadOK, Joining
  <1>2. PICK n \in NodeIds, r \in Rows : n = command[c].node /\ r = command[c].row
    BY <1>1
  <1>3. /\ SameThreads(c) /\ command' \in [Terminals -> LinkThread] /\ command'[c].pc = "fail"
        /\ command'[c].row = r /\ command'[c].node = n
        /\ command'[c].conf = command[c].conf /\ command'[c].key = command[c].key
        /\ command'[c].alone = command[c].alone
    BY <1>1, <1>2, Steps DEF LinkPcs
  <1>4. /\ nodes' \in Seq(LinkNode) /\ Len(nodes') = Len(nodes)
        /\ \A m \in NodeIds : m # n => nodes'[m] = nodes[m]
        /\ nodes'[n].row = nodes[n].row /\ nodes'[n].back = nodes[n].back
        /\ nodes'[n].state = nodes[n].state \/ (nodes[n].state = "sent" /\ nodes'[n].state = "refused")
    <2>1. CASE nodes[n].back
      BY <1>1, <1>2, <2>1 DEF GiveUp, LinkTyped
    <2>2. CASE ~nodes[n].back
      <3> DEFINE e == [nodes[n] EXCEPT !.state = "refused"]
      <3>1. /\ e \in LinkNode /\ e.state = "refused" /\ e.row = nodes[n].row
            /\ e.key = nodes[n].key /\ e.back = nodes[n].back
        BY <1>1, NodeTyped DEF LinkNode
      <3>2. nodes' = [nodes EXCEPT ![n] = e] /\ nodes[n].state = "sent"
        BY <1>2, <2>2 DEF GiveUp
      <3> HIDE DEF e
      <3>3. NodeMoves(n, "refused", nodes[n].row)
        BY <1>1, <3>1, <3>2, NodeSet
      <3> QED
        BY <3>2, <3>3 DEF NodeMoves, SameNode
    <2> QED
      BY <2>1, <2>2
  <1>5. Rows' = Rows /\ NodeIds' = NodeIds /\ links' = links
    BY <1>1, <1>4 DEF Rows, NodeIds
  <1> DEFINE Stays(m) == /\ nodes'[m].row = nodes[m].row /\ nodes'[m].back = nodes[m].back
                         /\ nodes'[m].state = nodes[m].state
                              \/ (nodes[m].state = "sent" /\ nodes'[m].state = "refused")
  <1>22. \A m \in NodeIds : Stays(m)
    <2> SUFFICES ASSUME NEW m \in NodeIds PROVE Stays(m)
      OBVIOUS
    <2>1. CASE m = n
      BY <1>4, <2>1
    <2>2. CASE m # n
      BY <1>4, <2>2
    <2> QED
      BY <2>1, <2>2
  <1>6. LinkTyped'
    <2>1. \A e \in Terminals : /\ command'[e].row <= Len(links)
                          /\ command'[e].node <= Len(nodes) /\ command'[e].conf <= Len(nodes)
      BY <1>1, <1>2, <1>3, ThreadTyped DEF SameThreads
    <2>2. \A m \in NodeIds : nodes'[m].row <= Len(links)
      <3>1. \A m \in NodeIds : nodes[m].row <= Len(links)
        BY <1>1 DEF LinkTyped
      <3> QED
        BY <1>22, <3>1
    <2>3. broken' \in 0..MaxBroken
      BY <1>1 DEF LinkTyped
    <2> QED
      BY <1>1, <1>3, <1>4, <1>5, <2>1, <2>2, <2>3 DEF LinkTyped
  <1>23. \A m \in NodeIds : nodes'[m].state \in Saved <=> nodes[m].state \in Saved
    BY <1>22 DEF Saved
  <1>24. \A i : NodeOf(i)' = NodeOf(i)
    BY <1>5 DEF NodeOf
  <1>7. RowsOK'
    BY <1>5, <1>23, <1>24 DEF LinkInv, ShapeOK, RowsOK
  <1>8. NodesOK'
    <2> SUFFICES ASSUME NEW m \in NodeIds
        PROVE  /\ nodes'[m].state \in {"found", "free"} \cup Saved => nodes'[m].row \in Rows
               /\ nodes'[m].state \in Saved => links[nodes'[m].row].node # 0 \/ ~links[nodes'[m].row].there
               /\ nodes'[m].state = "dropped" => nodes'[m].back
      BY <1>5 DEF NodesOK, NodeOf
    <2>1. /\ nodes[m].state \in {"found", "free"} \cup Saved => nodes[m].row \in Rows
          /\ nodes[m].state \in Saved => links[nodes[m].row].node # 0 \/ ~links[nodes[m].row].there
          /\ nodes[m].state = "dropped" => nodes[m].back
      BY DEF LinkInv, ShapeOK, NodesOK, NodeOf
    <2>2. Stays(m)
      BY <1>22
    <2> QED
      BY <2>1, <2>2 DEF Saved
  <1>9. \A d \in LinkThread : ThreadOK(d) => ThreadOK(d)'
    <2> SUFFICES ASSUME NEW d \in LinkThread, ThreadOK(d) PROVE ThreadOK(d)'
      OBVIOUS
    <2>1. d.pc \in Leaving => d.node \in NodeIds /\ nodes'[d.node].state = nodes[d.node].state
      BY <1>4 DEF ThreadOK, Saved
    <2>2. "unlinked" \in Leaving
      BY DEF Leaving
    <2> QED
      BY <1>5, <2>1, <2>2 DEF ThreadOK
  <1>10. PICK C \in SUBSET NodeIds : Blamed(C) /\ Accounts(C)
    BY DEF LinkInv, BlameOK
  <1>11. PICK D \in SUBSET NodeIds : D = C \cup {n}
    OBVIOUS
  <1>12. C \subseteq D /\ D \in SUBSET NodeIds'
    BY <1>5, <1>11
  <1>13. Settled(D)'
    <2> SUFFICES ASSUME NEW m \in NodeIds \ D PROVE Good(m)'
      BY <1>5 DEF Settled
    <2>1. m \in NodeIds \ C /\ m # n
      BY <1>11
    <2>2. ~Young(m)
      BY <1>1, <1>2, <1>3, <2>1, OthersRest DEF LinkInv
    <2>3. Good(m)
      BY <1>10, <2>1, <2>2 DEF Blamed, Settled
    <2>4. Alive(m)' = Alive(m)
      BY <1>4, <2>1 DEF Alive
    <2> QED
      BY <1>5, <2>3, <2>4 DEF Good, HasRow, NodeOf
  <1>14. NodesBlamed(D)'
    BY <1>4, <1>5, <1>10, <1>12 DEF Blamed, NodesBlamed, NodeOf, Saved
  <1>15. RowsBlamed(D)'
    BY <1>5, <1>10, <1>12 DEF Blamed, RowsBlamed, NodeOf
  <1>16. \A d \in LinkThread : ThreadOK(d) /\ ThreadBlamed(C, d) => ThreadBlamed(D, d)'
    <2> SUFFICES ASSUME NEW d \in LinkThread, ThreadBlamed(C, d) PROVE ThreadBlamed(D, d)'
      OBVIOUS
    <2>1. ThreadBlamed(D, d)
      BY <1>12, BlamedMore
    <2> QED
      BY <1>5, <2>1 DEF ThreadBlamed, NodeOf
  <1>17. ThreadOK(command[c])'
    BY <1>3, <1>5 DEF ThreadOK, Joining, Leaving
  <1>18. ThreadBlamed(D, command[c])'
    <2>1. links[r].node \in C \cup {0, n}
      BY <1>1, <1>2, <1>10 DEF Blamed, ThreadBlamed, Joining, NodeOf
    <2>2. links'[r].node \in D \cup {0}
      BY <1>5, <1>11, <2>1
    <2> QED
      BY <1>3, <2>2 DEF ThreadBlamed, Joining, Leaving, NodeOf
  <1>19. Accounts(D)'
    <2>1. c \notin Pending'
      BY <1>3 DEF Pending
    <2>2. broken \in Nat /\ overlaps \in Nat /\ broken' \in Nat /\ broken' >= broken
      BY <1>1 DEF LinkTyped
    <2>3. /\ IsFiniteSet(Pending') /\ Cardinality(Pending') \in Nat
          /\ Cardinality(C) \in Nat /\ Cardinality(Pending) \in Nat
          /\ Cardinality(Pending') <= Cardinality(Pending)
      BY <1>1, <1>3, <1>10, <2>1, <2>2, PendingAfter
    <2>4. /\ Cardinality(D) \in Nat /\ Cardinality(D) <= Cardinality(C) + 1
      BY <1>1, <1>11, NodeTyped, OneBlamed
    <2>5. Cardinality(C) + Cardinality(Pending) <= broken + 2 * overlaps
      BY <1>10 DEF Accounts
    <2>7. overlaps' = overlaps /\ broken' = broken + 1
      BY <1>1
    <2>8. Cardinality(D) + Cardinality(Pending') <= Cardinality(C) + Cardinality(Pending) + 1
      BY <2>3, <2>4
    <2>9. Cardinality(D) + Cardinality(Pending') <= broken + 1 + 2 * overlaps
      BY <2>2, <2>3, <2>4, <2>5, <2>8
    <2>6. Cardinality(D) + Cardinality(Pending') <= broken' + 2 * overlaps'
      BY <2>7, <2>9
    <2> QED
      BY <2>3, <2>6 DEF Accounts
  <1>20. ASSUME command'[c].alone PROVE AloneThread(c)'
    <2>1. AloneThread(c)
      BY <1>3, <1>20 DEF LinkInv, AloneOK
    <2>2. \A e \in Terminals \ {c} : Doing(e, "idle")'
      BY <1>3, <2>1 DEF AloneThread, Doing, SameThreads
    <2>3. \A m \in NodeIds' : Calling(m)' => m = n
      BY <1>2, <1>4, <1>5, <2>1 DEF AloneThread, Calling
    <2>4. ~Taken'
      BY <1>5, <2>1 DEF AloneThread, Taken, There
    <2> QED
      BY <1>3, <2>2, <2>3, <2>4 DEF AloneThread, Leaving
  <1>21. Clean'
    BY <1>1 DEF Clean, LinkTyped
  <1> QED
    BY <1>1, <1>3, <1>6, <1>7, <1>8, <1>9, <1>10, <1>12, <1>13, <1>14, <1>15, <1>16, <1>17, <1>18, <1>19, <1>20, <1>21, OwnStep

\* The row of a command that failed is deleted; its node was blamed before.
LEMMA FailKeeps ==
  ASSUME LinkInv, NEW c \in Terminals, Fail(c) PROVE LinkInv'
  BY DropKeeps DEF Fail, Doing, LinkInv, LinkTyped

\* After a deletion the row goes, whose node is gone.
LEMMA UnlinkedKeeps ==
  ASSUME LinkInv, NEW c \in Terminals, Unlinked(c) PROVE LinkInv'
  <1>1. ini' \in 0..Len(nodes)
    BY LenProperties DEF Unlinked, LinkInv, LinkTyped
  <1> QED
    BY <1>1, DropKeeps DEF Unlinked, Doing

\* delete_node gets no answer, or its node was deleted before.
LEMMA UnlinkStays ==
  ASSUME LinkInv, NEW c \in Terminals, command[c].pc = "unlink", NEW pc \in {"unlinked", "restore"},
         Step(c, pc), UNCHANGED <<nodes, links, ini, runs, overlaps>>,
         pc = "unlinked" => nodes[command[c].node].state = "deleted" /\ broken' = broken,
         pc = "restore" => Break
  PROVE  LinkInv'
  <1>1. /\ ~Doing(c, "idle") /\ LinkTyped /\ command[c].row \in Rows /\ command[c].node \in NodeIds
        /\ nodes[command[c].node].state \in Saved
    BY DEF Doing, LinkInv, ShapeOK, ThreadOK, Leaving
  <1>2. PICK r \in Rows, n \in NodeIds : r = command[c].row /\ n = command[c].node
    BY <1>1
  <1>3. /\ SameThreads(c) /\ command' \in [Terminals -> LinkThread] /\ command'[c].pc = pc
        /\ command'[c].row = r /\ command'[c].node = n
        /\ command'[c].conf = command[c].conf /\ command'[c].key = command[c].key
        /\ command'[c].alone = command[c].alone
    BY <1>1, <1>2, Steps DEF LinkPcs
  <1>4. SameTable /\ links' \in Seq(LinkRow) /\ Rows' = Rows /\ NodeIds' = NodeIds
    BY <1>1 DEF SameTable, LinkTyped, Rows, NodeIds
  <1>5. ThreadOK(command[c])'
    BY <1>1, <1>2, <1>3, <1>4 DEF ThreadOK, Joining, Leaving
  <1>6. broken' \in 0..MaxBroken /\ broken' >= broken /\ ini' \in 0..Len(nodes)
        /\ (pc = "restore" => broken' # 0)
    BY <1>1 DEF LinkTyped, Break
  <1>7. ASSUME command[c].alone
        PROVE  /\ \A e \in Terminals \ {c} : Doing(e, "idle") /\ Doing(e, "idle")'
               /\ \A m \in NodeIds' : ~Calling(m)'
               /\ ~Taken' /\ links[r].node = n /\ command[c].key = 0
    <2>1. AloneThread(c)
      BY <1>7 DEF LinkInv, AloneOK
    <2>2. \A e \in Terminals \ {c} : Doing(e, "idle") /\ Doing(e, "idle")'
      BY <1>3, <2>1 DEF AloneThread, Doing, SameThreads
    <2>3. \A m \in NodeIds' : ~Calling(m)'
      BY <1>4, <2>1 DEF AloneThread, Calling
    <2>4. ~Taken'
      BY <1>4, <2>1 DEF AloneThread, Taken, There
    <2>5. links[r].node = n /\ command[c].key = 0
      BY <1>2, <2>1 DEF AloneThread, Leaving, NodeOf
    <2> QED
      BY <2>2, <2>3, <2>4, <2>5
  <1>8. ASSUME command'[c].alone PROVE AloneThread(c)'
    BY <1>3, <1>4, <1>7, <1>8 DEF AloneThread, Leaving, NodeOf
  <1>9. Clean'
    <2> SUFFICES ASSUME overlaps' = 0, broken' = 0 PROVE Clean'
      BY DEF Clean
    <2>1. pc = "unlinked" /\ broken = 0 /\ overlaps = 0
      BY <1>6
    <2>2. command[c].alone
      BY <1>1, <2>1 DEF LinkInv, Clean
    <2>3. \A e \in Terminals \ {c} : Doing(e, "idle") /\ Doing(e, "idle")'
      BY <1>7, <2>2
    <2>4. \A i \in Rows : ~(links[i].there /\ NodeOf(i) = 0)
      BY <2>1, <2>3 DEF LinkInv, Clean, Doing
    <2> QED
      BY <1>3, <1>4, <2>1, <2>2, <2>3, <2>4 DEF Clean, Doing, NodeOf
  <1>10. ASSUME NEW C \in SUBSET NodeIds, Blamed(C)
         PROVE  RowsBlamed(C)' /\ ThreadBlamed(C, command[c])'
    <2>1. RowsBlamed(C)'
      BY <1>4, <1>10 DEF Blamed, RowsBlamed, NodeOf
    <2>2. links[r].node \in C \cup {n} /\ (command[c].key # 0 => links[r].node \in C)
      BY <1>2, <1>10 DEF Blamed, ThreadBlamed, Leaving, NodeOf
    <2>3. ThreadBlamed(C, command[c])'
      BY <1>3, <2>2 DEF ThreadBlamed, Joining, Leaving, NodeOf
    <2> QED
      BY <2>1, <2>3
  <1>11. c \in Pending' => c \in Pending
    BY <1>3 DEF Pending
  <1>12. /\ command'[c].row <= Len(links) /\ command'[c].node <= Len(nodes)
         /\ command'[c].conf <= Len(nodes)
    BY <1>1, <1>2, <1>3, ThreadTyped
  <1> QED
    BY <1>1, <1>3, <1>4, <1>5, <1>6, <1>8, <1>9, <1>10, <1>11, <1>12, KeyStep

\* The supervisor deletes the node, and the row with it.
LEMMA DeletedKeeps ==
  ASSUME LinkInv, NEW c \in Terminals, command[c].pc = "unlink", NEW pc \in {"unlinked", "restore"},
         Step(c, pc), NEW n \in NodeIds, n = command[c].node,
         nodes' = [nodes EXCEPT ![n].state = "deleted"],
         NEW ids, ids = {i \in There(Rows) : links[i].node = n /\ links[i].key = 0},
         links' = [i \in Rows |-> IF i \in ids THEN [links[i] EXCEPT !.there = FALSE] ELSE links[i]],
         ini' = 0, UNCHANGED <<runs, overlaps>>,
         pc = "unlinked" => broken' = broken,
         pc = "restore" => Break
  PROVE  LinkInv'
  <1>1. /\ ~Doing(c, "idle") /\ LinkTyped /\ command[c].row \in Rows /\ nodes[n].state \in Saved
    BY DEF Doing, LinkInv, ShapeOK, ThreadOK, Leaving
  <1>2. PICK r \in Rows : r = command[c].row
    BY <1>1
  <1>3. /\ SameThreads(c) /\ command' \in [Terminals -> LinkThread] /\ command'[c].pc = pc
        /\ command'[c].row = r /\ command'[c].node = n
        /\ command'[c].conf = command[c].conf /\ command'[c].key = command[c].key
        /\ command'[c].alone = command[c].alone
    BY <1>1, <1>2, Steps DEF LinkPcs
  <1>4. /\ links' \in Seq(LinkRow) /\ Len(links') = Len(links)
        /\ \A i \in Rows : links'[i].node = links[i].node /\ links'[i].key = links[i].key
        /\ \A i \in Rows : links'[i].there <=> links[i].there /\ i \notin ids
    <2>1. \A i \in Rows : /\ links'[i] \in LinkRow
                          /\ links'[i].node = links[i].node /\ links'[i].key = links[i].key
                          /\ links'[i].there <=> links[i].there /\ i \notin ids
      <3> SUFFICES ASSUME NEW i \in Rows
          PROVE  /\ links'[i] \in LinkRow
                 /\ links'[i].node = links[i].node /\ links'[i].key = links[i].key
                 /\ links'[i].there <=> links[i].there /\ i \notin ids
        OBVIOUS
      <3>1. links[i] \in LinkRow
        BY <1>1, RowTyped
      <3>2. CASE i \in ids
        BY <3>1, <3>2 DEF LinkRow
      <3>3. CASE i \notin ids
        BY <3>1, <3>3 DEF LinkRow
      <3> QED
        BY <3>2, <3>3
    <2>2. links' \in [1..Len(links) -> LinkRow] /\ Len(links) \in Nat
      BY <1>1, <2>1, ThreadTyped DEF Rows
    <2>3. links' \in Seq(LinkRow)
      BY <2>2, SeqDef
    <2>4. Len(links') = Len(links)
      BY <2>2, <2>3, LenProperties
    <2> QED
      BY <2>1, <2>3, <2>4
  <1>5. /\ nodes' \in Seq(LinkNode) /\ Len(nodes') = Len(nodes)
        /\ \A m \in NodeIds : nodes'[m].row = nodes[m].row /\ nodes'[m].back = nodes[m].back
        /\ \A m \in NodeIds : m # n => nodes'[m].state = nodes[m].state
        /\ nodes'[n].state = "deleted"
    <2> DEFINE e == [nodes[n] EXCEPT !.state = "deleted"]
    <2>1. /\ e \in LinkNode /\ e.state = "deleted" /\ e.row = nodes[n].row
          /\ e.key = nodes[n].key /\ e.back = nodes[n].back
      BY <1>1, NodeTyped DEF LinkNode
    <2>2. nodes' = [nodes EXCEPT ![n] = e]
      OBVIOUS
    <2> HIDE DEF e
    <2>3. nodes \in Seq(LinkNode) /\ n \in 1..Len(nodes)
      BY <1>1 DEF LinkTyped, NodeIds
    <2>4. /\ nodes' \in Seq(LinkNode) /\ Len(nodes') = Len(nodes) /\ nodes'[n] = e
          /\ \A m \in 1..Len(nodes) : m # n => nodes'[m] = nodes[m]
      BY <2>1, <2>2, <2>3, Replaced
    <2>5. \A m \in NodeIds : m # n => nodes'[m] = nodes[m]
      BY <2>4 DEF NodeIds
    <2>6. \A m \in NodeIds : nodes'[m].row = nodes[m].row /\ nodes'[m].back = nodes[m].back
      BY <2>1, <2>4, <2>5
    <2> QED
      BY <2>1, <2>4, <2>5, <2>6
  <1>6. Rows' = Rows /\ NodeIds' = NodeIds
    BY <1>4, <1>5 DEF Rows, NodeIds
  <1>7. \A m \in NodeIds : nodes'[m].state \in Saved <=> nodes[m].state \in Saved
    BY <1>1, <1>5 DEF Saved
  <1>8. broken' \in 0..MaxBroken /\ broken' >= broken /\ (pc = "restore" => broken' # 0)
    BY <1>1 DEF LinkTyped, Break
  <1>9. LinkTyped'
    <2>1. \A e \in Terminals : /\ command'[e].row <= Len(links)
                          /\ command'[e].node <= Len(nodes) /\ command'[e].conf <= Len(nodes)
      BY <1>1, <1>2, <1>3, ThreadTyped DEF SameThreads
    <2>2. \A m \in NodeIds : nodes'[m].row <= Len(links)
      BY <1>1, <1>5 DEF LinkTyped
    <2>3. ini' \in 0..Len(nodes)
      BY <1>1, ThreadTyped
    <2> QED
      BY <1>1, <1>3, <1>4, <1>5, <1>6, <1>8, <2>1, <2>2, <2>3 DEF LinkTyped
  <1>10. RowsOK'
    <2>1. \A i \in Rows : links'[i].node = links[i].node
      BY <1>4
    <2>2. \A i \in Rows : links[i].node # 0 =>
            /\ links[i].node \in NodeIds /\ nodes[links[i].node].state \in Saved
            /\ \A j \in Rows : links[i].node = links[j].node => i = j
      BY DEF LinkInv, ShapeOK, RowsOK, NodeOf
    <2>3. \A i \in Rows : links'[i].node # 0 =>
            /\ links'[i].node \in NodeIds /\ nodes'[links'[i].node].state \in Saved
            /\ \A j \in Rows : links'[i].node = links'[j].node => i = j
      BY <1>7, <2>1, <2>2
    <2> QED
      BY <1>6, <2>3 DEF RowsOK, NodeOf
  <1>11. NodesOK'
    <2> SUFFICES ASSUME NEW m \in NodeIds
        PROVE  /\ nodes'[m].state \in {"found", "free"} \cup Saved => nodes[m].row \in Rows
               /\ nodes'[m].state \in Saved => links'[nodes[m].row].node # 0 \/ ~links'[nodes[m].row].there
               /\ nodes'[m].state = "dropped" => nodes[m].back
      BY <1>5, <1>6 DEF NodesOK, NodeOf
    <2>1. /\ nodes[m].state \in {"found", "free"} \cup Saved => nodes[m].row \in Rows
          /\ nodes[m].state \in Saved => links[nodes[m].row].node # 0 \/ ~links[nodes[m].row].there
          /\ nodes[m].state = "dropped" => nodes[m].back
      BY DEF LinkInv, ShapeOK, NodesOK, NodeOf
    <2>2. nodes'[m].state = nodes[m].state \/ (nodes[m].state \in Saved /\ nodes'[m].state = "deleted")
      BY <1>1, <1>5
    <2> QED
      BY <1>4, <2>1, <2>2 DEF Saved
  <1>12. \A d \in LinkThread : ThreadOK(d) => ThreadOK(d)'
    <2>1. \A m \in NodeIds : nodes[m].state = "deleted" => nodes'[m].state = "deleted"
      BY <1>5
    <2>2. "unlinked" \in Leaving
      BY DEF Leaving
    <2> QED
      BY <1>6, <1>7, <2>1, <2>2 DEF ThreadOK
  <1>13. PICK C \in SUBSET NodeIds : Blamed(C) /\ Accounts(C)
    BY DEF LinkInv, BlameOK
  <1>14. Settled(C)'
    <2> SUFFICES ASSUME NEW m \in NodeIds \ C PROVE Good(m)'
      BY <1>6 DEF Settled
    <2>1. ~Young(m)
      BY <1>1, <1>3, OthersRest DEF LinkInv
    <2>2. Good(m)
      BY <1>13, <2>1 DEF Blamed, Settled
    <2>3. CASE m = n
      <3>1. ~Alive(m)'
        BY <1>5, <2>3 DEF Alive
      <3>2. ASSUME NEW i \in Rows, links[i].there, links[i].node = m PROVE i \in ids
        <4>1. links[i].key = 0
          BY <1>13, <3>2, NodeTyped, <1>1 DEF Blamed, RowsBlamed, NodeOf
        <4> QED
          BY <2>3, <3>2, <4>1 DEF There
      <3>3. ~HasRow(m)'
        BY <1>4, <1>6, <3>2 DEF HasRow, NodeOf
      <3> QED
        BY <3>1, <3>3 DEF Good
    <2>4. CASE m # n
      <3>1. Alive(m)' = Alive(m)
        BY <1>5, <2>4 DEF Alive
      <3>2. HasRow(m)' = HasRow(m)
        BY <1>4, <1>6, <2>4 DEF HasRow, NodeOf
      <3> QED
        BY <2>2, <3>1, <3>2 DEF Good
    <2> QED
      BY <2>3, <2>4
  <1>15. NodesBlamed(C)'
    <2> SUFFICES ASSUME NEW m \in NodeIds, nodes'[m].state \in {"found", "free"} \cup Saved
                 PROVE  links'[nodes[m].row].node \in C \cup {0, m}
      BY <1>5, <1>6 DEF NodesBlamed, NodeOf
    <2>1. nodes[m].state \in {"found", "free"} \cup Saved
      BY <1>1, <1>5 DEF Saved
    <2>2. nodes[m].row \in Rows
      BY <2>1 DEF LinkInv, ShapeOK, NodesOK
    <2> QED
      BY <1>4, <1>13, <2>1, <2>2 DEF Blamed, NodesBlamed, NodeOf
  <1>16. RowsBlamed(C)'
    BY <1>4, <1>6, <1>13 DEF Blamed, RowsBlamed, NodeOf
  <1>17. \A d \in LinkThread : ThreadOK(d) /\ ThreadBlamed(C, d) => ThreadBlamed(C, d)'
    <2> SUFFICES ASSUME NEW d \in LinkThread, ThreadOK(d), ThreadBlamed(C, d)
                 PROVE  ThreadBlamed(C, d)'
      OBVIOUS
    <2>1. d.pc \in Joining \cup Leaving => NodeOf(d.row)' = NodeOf(d.row)
      BY <1>4 DEF ThreadOK, NodeOf
    <2>2. {"unlink", "restore"} \subseteq Leaving
      BY DEF Leaving
    <2> QED
      BY <2>1, <2>2 DEF ThreadBlamed
  <1>18. ThreadOK(command[c])'
    BY <1>3, <1>5, <1>6 DEF ThreadOK, Joining, Leaving, Saved
  <1>19. ThreadBlamed(C, command[c])'
    <2>1. links[r].node \in C \cup {n} /\ (command[c].key # 0 => links[r].node \in C)
      BY <1>2, <1>13 DEF Blamed, ThreadBlamed, Leaving, NodeOf
    <2> QED
      BY <1>3, <1>4, <2>1 DEF ThreadBlamed, Joining, Leaving, NodeOf
  <1>20. Accounts(C)'
    <2>1. c \notin Pending'
      BY <1>3 DEF Pending
    <2>2. broken' \in Nat /\ overlaps' = overlaps
      BY <1>8
    <2> QED
      BY <1>1, <1>3, <1>8, <1>13, <2>1, <2>2, PendingAfter
  <1>21. ASSUME command[c].alone
         PROVE  /\ \A e \in Terminals \ {c} : Doing(e, "idle") /\ Doing(e, "idle")'
                /\ \A m \in NodeIds' : ~Calling(m)'
                /\ ~Taken' /\ links'[r].node = n /\ command[c].key = 0
    <2>1. AloneThread(c)
      BY <1>21 DEF LinkInv, AloneOK
    <2>2. \A e \in Terminals \ {c} : Doing(e, "idle") /\ Doing(e, "idle")'
      BY <1>3, <2>1 DEF AloneThread, Doing, SameThreads
    <2>3. \A m \in NodeIds' : ~Calling(m)'
      <3>1. \A m \in NodeIds : ~Calling(m)
        BY <2>1 DEF AloneThread
      <3>2. ~Calling(n)'
        BY <1>5 DEF Calling
      <3> QED
        BY <1>5, <1>6, <3>1, <3>2 DEF Calling
    <2>4. ~Taken'
      BY <1>4, <1>6, <2>1 DEF AloneThread, Taken, There
    <2>5. links'[r].node = n /\ command[c].key = 0
      BY <1>2, <1>4, <2>1 DEF AloneThread, Leaving, NodeOf
    <2> QED
      BY <2>2, <2>3, <2>4, <2>5
  <1>22. ASSUME command'[c].alone PROVE AloneThread(c)'
    BY <1>3, <1>21, <1>22 DEF AloneThread, Leaving, NodeOf
  <1>23. Clean'
    <2> SUFFICES ASSUME overlaps' = 0, broken' = 0 PROVE Clean'
      BY DEF Clean
    <2>1. pc = "unlinked" /\ broken = 0 /\ overlaps = 0
      BY <1>8
    <2>2. command[c].alone
      BY <1>1, <2>1 DEF LinkInv, Clean
    <2>3. \A e \in Terminals \ {c} : Doing(e, "idle") /\ Doing(e, "idle")'
      BY <1>21, <2>2
    <2>4. \A i \in Rows : ~(links[i].there /\ NodeOf(i) = 0)
      BY <2>1, <2>3 DEF LinkInv, Clean, Doing
    <2>5. \A i \in Rows' : ~(links'[i].there /\ NodeOf(i)' = 0)
      BY <1>4, <1>6, <2>4 DEF NodeOf
    <2> QED
      BY <1>3, <2>1, <2>2, <2>3, <2>5 DEF Clean, Doing
  <1>24. C \in SUBSET NodeIds'
    BY <1>6
  <1> QED
    BY <1>1, <1>3, <1>9, <1>10, <1>11, <1>12, <1>13, <1>14, <1>15, <1>16, <1>17, <1>18, <1>19, <1>20, <1>22, <1>23, <1>24, OwnStep

\* The supervisor deletes node and row, or the failure is blamed.
LEMMA DeleteNodeKeeps ==
  ASSUME LinkInv, NEW c \in Terminals, DeleteNode(c) PROVE LinkInv'
  <1>1. command[c].pc = "unlink" /\ command[c].node \in NodeIds
    BY DEF DeleteNode, Doing, LinkInv, ShapeOK, ThreadOK, Leaving
  <1>2. PICK n \in NodeIds : n = command[c].node
    BY <1>1
  <1> DEFINE ids == {i \in There(Rows) : links[i].node = n /\ links[i].key = 0}
             Remote ==
               /\ nodes' = [nodes EXCEPT ![n].state = "deleted"]
               /\ links' = [i \in Rows |-> IF i \in ids THEN [links[i] EXCEPT !.there = FALSE] ELSE links[i]]
               /\ ini' = 0
  <1>3. /\ UNCHANGED <<runs, overlaps>>
        /\ \/ /\ IF nodes[n].state = "deleted" THEN UNCHANGED <<nodes, links, ini>> ELSE Remote
              /\ Step(c, "unlinked") /\ UNCHANGED broken
           \/ /\ Break /\ Step(c, "restore")
              /\ Remote \/ UNCHANGED <<nodes, links, ini>>
    BY <1>2 DEF DeleteNode, Step
  <1>4. CASE Remote
    <2>1. PICK pc \in {"unlinked", "restore"} : /\ Step(c, pc) /\ (pc = "unlinked" => broken' = broken)
                                                /\ (pc = "restore" => Break)
      BY <1>3
    <2> QED
      BY <1>1, <1>2, <1>3, <1>4, <2>1, DeletedKeeps
  <1>5. CASE ~Remote
    <2>1. PICK pc \in {"unlinked", "restore"} :
            /\ Step(c, pc) /\ UNCHANGED <<nodes, links, ini>>
            /\ pc = "unlinked" => nodes[n].state = "deleted" /\ broken' = broken
            /\ pc = "restore" => Break
      <3> HIDE DEF Remote
      <3> QED
        BY <1>3, <1>5
    <2>2. pc = "unlinked" => nodes[command[c].node].state = "deleted" /\ broken' = broken
      BY <1>2, <2>1
    <2> QED
      BY <1>1, <1>3, <2>1, <2>2, UnlinkStays
  <1> QED
    BY <1>4, <1>5

-----------------------------------------------------------------------------
(* Steps of save_supervisor *)

\* What the steps of a call back have to show.
LEMMA NodeStep ==
  ASSUME LinkInv, UNCHANGED <<command, ini, runs, broken, overlaps>>,
         LinkTyped', RowsOK', NodesOK', Clean', NodeIds' = NodeIds,
         \A d \in LinkThread : ThreadOK(d) => ThreadOK(d)',
         \A c \in Terminals : command[c].alone => AloneThread(c)',
         NEW C \in SUBSET NodeIds, Accounts(C),
         Settled(C)', NodesBlamed(C)', RowsBlamed(C)',
         \A c \in Terminals : ThreadBlamed(C, command[c])'
  PROVE  LinkInv'
  <1>1. \A c \in Terminals : ThreadOK(command[c])'
    <2> SUFFICES ASSUME NEW c \in Terminals PROVE ThreadOK(command[c])'
      OBVIOUS
    <2>1. PICK d \in LinkThread : d = command[c] /\ ThreadOK(d) /\ command'[c] = d
      BY DEF LinkInv, LinkTyped, ShapeOK
    <2>2. ThreadOK(d)'
      BY <2>1
    <2> QED
      BY <2>1, <2>2 DEF ThreadOK
  <1>2. AloneOK'
    BY DEF AloneOK
  <1>3. Accounts(C)'
    BY DEF Accounts, Pending
  <1>4. BlameOK'
    BY <1>3 DEF BlameOK, Blamed
  <1> QED
    BY <1>1, <1>2, <1>4 DEF LinkInv, ShapeOK

\* The command that is alone while a call back is under way waits for it, or gave up.
LEMMA CallerIs ==
  ASSUME LinkInv, NEW n \in NodeIds, Calling(n), NEW c \in Terminals, command[c].alone
  PROVE  /\ command[c].node = n /\ command[c].pc \in {"wait", "fail"} /\ ~Taken
         /\ \A m \in NodeIds : Calling(m) => m = n
         /\ \A e \in Terminals \ {c} : Doing(e, "idle")
         /\ command[c].pc = "wait" => WaitOK(command[c])
  BY DEF LinkInv, AloneOK, AloneThread

\* A node that is not saved yet and not to blame has a command that waits for it.
LEMMA YoungIs ==
  ASSUME LinkInv, NEW n \in NodeIds, Calling(n), NEW C \in SUBSET NodeIds, Blamed(C), n \notin C
  PROVE  \E c \in Terminals : command[c].alone /\ command[c].pc = "wait" /\ command[c].node = n
  <1>1. n # 0 /\ LinkTyped
    BY NodeTyped DEF LinkInv
  <1>2. Alive(n) /\ nodes[n].state \notin Saved
    BY <1>1 DEF Calling, Alive, Saved
  <1>3. ~HasRow(n)
    BY <1>1, <1>2 DEF LinkInv, ShapeOK, RowsOK, HasRow
  <1>4. Young(n)
    BY <1>2, <1>3 DEF Blamed, Settled, Good
  <1> QED
    BY <1>4 DEF Young, Doing

\* A call back goes on in the same row, and the rows stay.
LEMMA CallKeeps ==
  ASSUME LinkInv, NEW n \in NodeIds, Calling(n), UNCHANGED <<links, command, ini, runs, broken, overlaps>>,
         NEW state \in {"found", "free", "saved", "refused", "dropped"}, NEW row \in Nat, row <= Len(links),
         NodeMoves(n, state, row),
         state = "dropped" => nodes[n].back,
         state \in {"found", "free", "saved"} => row \in Rows,
         state = "saved" => links[row].node # 0 /\ links[row].key # 0,
         state \in {"found", "free"} => links[row].node = 0 \/ (nodes[n].row = row /\ nodes[n].state = "found"),
         \A c \in Terminals : command[c].alone /\ command[c].pc = "wait" =>
           /\ state \in {"found", "free"} /\ links[command[c].row].node = 0 /\ links[command[c].row].there
           /\ links[row].node = 0 /\ links[row].there
           /\ overlaps = 0 /\ broken = 0 => row = command[c].row
  PROVE  LinkInv'
  <1>1. LinkTyped /\ n # 0
    BY NodeTyped DEF LinkInv
  <1>2. Rows' = Rows /\ NodeIds' = NodeIds /\ links' = links /\ command' = command
    BY DEF NodeMoves, Rows, NodeIds
  <1>3. /\ nodes' \in Seq(LinkNode) /\ Len(nodes') = Len(nodes)
        /\ \A m \in NodeIds : m # n => nodes'[m] = nodes[m]
        /\ nodes'[n].state = state /\ nodes'[n].row = row /\ nodes'[n].back = nodes[n].back
    BY DEF NodeMoves, SameNode
  <1>4. nodes[n].state \notin Saved
    BY DEF Calling, Saved
  <1>5. LinkTyped'
    <2>1. \A m \in NodeIds : nodes'[m].row <= Len(links)
      <3>1. \A m \in NodeIds : nodes[m].row <= Len(links)
        BY <1>1 DEF LinkTyped
      <3> QED
        BY <1>3, <3>1
    <2> QED
      BY <1>1, <1>2, <1>3, <2>1 DEF LinkTyped
  <1>6. RowsOK'
    <2>1. \A i \in Rows : links[i].node # 0 =>
            /\ links[i].node \in NodeIds /\ nodes[links[i].node].state \in Saved
            /\ \A j \in Rows : links[i].node = links[j].node => i = j
      BY DEF LinkInv, ShapeOK, RowsOK, NodeOf
    <2>2. \A m \in NodeIds : nodes[m].state \in Saved => nodes'[m].state \in Saved
      BY <1>3, <1>4
    <2> QED
      BY <1>2, <2>1, <2>2 DEF RowsOK, NodeOf
  <1>7. NodesOK'
    <2> SUFFICES ASSUME NEW m \in NodeIds
        PROVE  /\ nodes'[m].state \in {"found", "free"} \cup Saved => nodes'[m].row \in Rows
               /\ nodes'[m].state \in Saved => links[nodes'[m].row].node # 0 \/ ~links[nodes'[m].row].there
               /\ nodes'[m].state = "dropped" => nodes'[m].back
      BY <1>2 DEF NodesOK, NodeOf
    <2>1. CASE m = n
      BY <1>3, <2>1 DEF Saved
    <2>2. CASE m # n
      <3>1. /\ nodes[m].state \in {"found", "free"} \cup Saved => nodes[m].row \in Rows
            /\ nodes[m].state \in Saved => links[nodes[m].row].node # 0 \/ ~links[nodes[m].row].there
            /\ nodes[m].state = "dropped" => nodes[m].back
        BY DEF LinkInv, ShapeOK, NodesOK, NodeOf
      <3> QED
        BY <1>3, <2>2, <3>1
    <2> QED
      BY <2>1, <2>2
  <1>8. \A d \in LinkThread : ThreadOK(d) => ThreadOK(d)'
    <2>1. \A m \in NodeIds : nodes[m].state \in Saved => nodes'[m].state = nodes[m].state
      BY <1>3, <1>4
    <2>2. "unlinked" \in Leaving /\ "deleted" \in Saved
      BY DEF Leaving, Saved
    <2> QED
      BY <1>2, <2>1, <2>2 DEF ThreadOK
  <1>9. ASSUME NEW c \in Terminals, command[c].alone PROVE AloneThread(c)'
    <2>1. /\ command[c].node = n /\ command[c].pc \in {"wait", "fail"} /\ ~Taken
          /\ \A m \in NodeIds : Calling(m) => m = n
          /\ \A e \in Terminals \ {c} : Doing(e, "idle")
      BY <1>9, CallerIs
    <2>2. \A m \in NodeIds' : Calling(m)' => m = n
      BY <1>2, <1>3, <2>1 DEF Calling
    <2>3. ~Taken'
      BY <1>2, <2>1 DEF Taken, There
    <2>4. command[c].pc = "wait" => WaitOK(command[c])'
      BY <1>2, <1>3, <1>9, <2>1 DEF WaitOK, NodeOf
    <2>5. \A e \in Terminals \ {c} : Doing(e, "idle")'
      BY <1>2, <2>1 DEF Doing
    <2> QED
      BY <1>2, <2>1, <2>2, <2>3, <2>4, <2>5 DEF AloneThread, Leaving
  <1>10. Clean'
    <2> SUFFICES ASSUME overlaps = 0, broken = 0 PROVE Clean'
      BY DEF Clean
    <2>1. ASSUME NEW c \in Terminals, ~Doing(c, "idle")
          PROVE  LET d == command[c] IN
                 /\ d.alone /\ d.pc \notin {"rekey", "fail", "restore", "resync", "link"}
                 /\ d.pc = "wait" => nodes'[d.node].row = d.row
      <3>1. command[c].alone /\ command[c].pc \notin {"rekey", "fail", "restore"}
        BY <2>1 DEF LinkInv, Clean
      <3>2. command[c].node = n /\ command[c].pc \in {"wait", "fail"}
        BY <3>1, CallerIs
      <3> QED
        BY <1>3, <3>1, <3>2
    <2>2. \A i \in Rows : links[i].there /\ NodeOf(i) = 0 =>
            \E c \in Terminals : command[c].row = i /\ command[c].pc \in {"post", "wait"}
      BY DEF LinkInv, Clean
    <2> QED
      BY <1>2, <2>1, <2>2 DEF Clean, Doing, NodeOf
  <1>11. PICK C \in SUBSET NodeIds : Blamed(C) /\ Accounts(C)
    BY DEF LinkInv, BlameOK
  <1>12. Settled(C)'
    <2> SUFFICES ASSUME NEW m \in NodeIds \ C PROVE Good(m)' \/ Young(m)'
      BY <1>2 DEF Settled
    <2>1. Young(m)' = Young(m)
      BY <1>2 DEF Young, Doing
    <2>2. CASE m = n
      BY <1>11, <2>1, <2>2, YoungIs DEF Young, Doing
    <2>3. CASE m # n
      <3>1. Good(m) \/ Young(m)
        BY <1>11 DEF Blamed, Settled
      <3>2. Alive(m)' = Alive(m)
        BY <1>3, <2>3 DEF Alive
      <3>3. HasRow(m)' = HasRow(m)
        BY <1>2 DEF HasRow, NodeOf
      <3> QED
        BY <2>1, <3>1, <3>2, <3>3 DEF Good
    <2> QED
      BY <2>2, <2>3
  <1>13. NodesBlamed(C)'
    <2> SUFFICES ASSUME NEW m \in NodeIds, nodes'[m].state \in {"found", "free"} \cup Saved
                 PROVE  links[nodes'[m].row].node \in C \cup {0, m}
      BY <1>2 DEF NodesBlamed, NodeOf
    <2>1. CASE m = n
      <3>1. CASE state = "saved"
        BY <1>3, <1>11, <2>1, <3>1 DEF Blamed, RowsBlamed, NodeOf
      <3>2. CASE state \in {"found", "free"} /\ links[row].node = 0
        BY <1>3, <2>1, <3>2
      <3>3. CASE nodes[n].row = row /\ nodes[n].state = "found"
        BY <1>3, <1>11, <2>1, <3>3 DEF Blamed, NodesBlamed, NodeOf
      <3> QED
        BY <1>3, <2>1, <3>1, <3>2, <3>3 DEF Saved
    <2>2. CASE m # n
      BY <1>3, <1>11, <2>2 DEF Blamed, NodesBlamed, NodeOf
    <2> QED
      BY <2>1, <2>2
  <1>14. RowsBlamed(C)'
    BY <1>2, <1>11 DEF Blamed, RowsBlamed, NodeOf
  <1>15. \A c \in Terminals : ThreadBlamed(C, command[c])'
    BY <1>2, <1>11 DEF Blamed, ThreadBlamed, NodeOf
  <1> QED
    BY <1>2, <1>5, <1>6, <1>7, <1>8, <1>9, <1>10, <1>11, <1>12, <1>13, <1>14, <1>15, NodeStep

\* A call back finds its row, or is refused.
LEMMA SaveFindKeeps ==
  ASSUME LinkInv, NEW n \in NodeIds, SaveFind(n)
  PROVE  LinkInv'
  <1>1. /\ LinkTyped /\ n # 0 /\ nodes[n].state = "sent" /\ Calling(n)
        /\ UNCHANGED <<links, command, ini, runs, broken, overlaps>>
    BY NodeTyped DEF LinkInv, SaveFind, Calling
  <1>2. nodes[n].key \in AccessKeys /\ nodes[n].back \in BOOLEAN
    BY <1>1, NodeTyped
  <1> DEFINE S == There({i \in Rows : links[i].key = nodes[n].key})
  <1>3. /\ S \in SUBSET (Nat \ {0})
        /\ \A i : i \in S <=> i \in Rows /\ links[i].there /\ links[i].key = nodes[n].key
    BY <1>1, RowTyped DEF There
  <1>4. FirstOf(S) \in Nat /\ (S # {} => FirstOf(S) \in S) /\ (S = {} => FirstOf(S) = 0)
    BY <1>3, FirstIs
  <1>5. PICK row \in Nat : row = FirstOf(S)
    BY <1>4
  <1> DEFINE to == IF row = 0 THEN Refuse(n) ELSE IF links[row].node # 0 THEN "saved" ELSE "found"
  <1>6. nodes' = [nodes EXCEPT ![n].row = row, ![n].state = to]
    BY <1>5 DEF SaveFind
  <1> HIDE DEF S
  <1>7. row = 0 \/ (row \in Rows /\ links[row].there /\ links[row].key = nodes[n].key)
    BY <1>3, <1>4, <1>5
  <1>8. row = 0 => \A i \in Rows : ~(links[i].there /\ links[i].key = nodes[n].key)
    BY <1>3, <1>4, <1>5
  <1>9. PICK state \in {"found", "free", "saved", "refused", "dropped"} : state = to
    BY DEF Refuse
  <1>10. /\ state = "dropped" => nodes[n].back
         /\ state \in {"found", "saved"} => row # 0
         /\ state = "saved" => links[row].node # 0
         /\ state # "free" /\ (state = "found" => links[row].node = 0)
         /\ row # 0 /\ links[row].node = 0 => state = "found"
    BY <1>9 DEF Refuse
  <1> HIDE DEF to
  <1>11. NodeMoves(n, state, row)
    <2> DEFINE e == [nodes[n] EXCEPT !.row = row, !.state = state]
    <2>1. /\ e \in LinkNode /\ e.state = state /\ e.row = row
          /\ e.key = nodes[n].key /\ e.back = nodes[n].back
      BY <1>1, NodeTyped DEF LinkNode
    <2>2. nodes' = [nodes EXCEPT ![n] = e]
      BY <1>6, <1>9
    <2> HIDE DEF e
    <2> QED
      BY <1>1, <2>1, <2>2, NodeSet
  <1>12. row <= Len(links)
    <2>1. Len(links) \in Nat
      BY <1>1, LenProperties DEF LinkTyped
    <2> QED
      BY <1>7, <2>1 DEF Rows
  <1>13. ASSUME NEW c \in Terminals, command[c].alone, command[c].pc = "wait"
         PROVE  /\ state \in {"found", "free"} /\ links[command[c].row].node = 0 /\ links[command[c].row].there
                /\ links[row].node = 0 /\ links[row].there
                /\ overlaps = 0 /\ broken = 0 => row = command[c].row
    <2>1. /\ command[c].node = n /\ ~Taken /\ WaitOK(command[c])
          /\ \A e \in Terminals \ {c} : Doing(e, "idle")
      BY <1>1, <1>13, CallerIs
    <2>2. /\ command[c].row \in Rows
      BY <1>13 DEF LinkInv, ShapeOK, ThreadOK, Joining
    <2>3. /\ links[command[c].row].node = 0 /\ links[command[c].row].there
          /\ links[command[c].row].key = nodes[n].key
      BY <1>1, <2>1 DEF WaitOK, NodeOf
    <2>4. row # 0
      BY <1>8, <2>2, <2>3
    <2>5. links[row].node = 0 /\ links[row].there /\ row \in Rows
      BY <1>2, <1>7, <2>1, <2>4 DEF Taken, There
    <2>6. overlaps = 0 /\ broken = 0 => row = command[c].row
      BY <2>1, <2>5 DEF LinkInv, Clean, Doing, NodeOf
    <2> QED
      BY <1>10, <2>3, <2>4, <2>5, <2>6
  <1>14. /\ state \in {"found", "free", "saved"} => row \in Rows
         /\ state = "saved" => links[row].node # 0 /\ links[row].key # 0
    BY <1>2, <1>7, <1>10
  <1> QED
    BY <1>1, <1>10, <1>11, <1>12, <1>13, <1>14, CallKeeps

\* A call back goes on if no row has its node.
LEMMA SaveExistsKeeps ==
  ASSUME LinkInv, NEW n \in NodeIds, SaveExists(n)
  PROVE  LinkInv'
  <1>1. /\ LinkTyped /\ n # 0 /\ nodes[n].state = "found" /\ Calling(n)
        /\ UNCHANGED <<links, command, ini, runs, broken, overlaps>>
    BY NodeTyped DEF LinkInv, SaveExists, Calling
  <1>2. ~\E i \in There(Rows) : links[i].node = n
    BY <1>1 DEF LinkInv, ShapeOK, RowsOK, There, NodeOf, Saved
  <1>3. nodes' = [nodes EXCEPT ![n].state = "free"]
    BY <1>2 DEF SaveExists
  <1>4. PICK row \in Nat : row = nodes[n].row
    BY <1>1, NodeTyped
  <1>5. NodeMoves(n, "free", row)
    <2> DEFINE e == [nodes[n] EXCEPT !.state = "free"]
    <2>1. /\ e \in LinkNode /\ e.state = "free" /\ e.row = row
          /\ e.key = nodes[n].key /\ e.back = nodes[n].back
      BY <1>1, <1>4, NodeTyped DEF LinkNode
    <2>2. nodes' = [nodes EXCEPT ![n] = e]
      BY <1>3
    <2> HIDE DEF e
    <2> QED
      BY <1>1, <2>1, <2>2, NodeSet
  <1>6. row \in Rows /\ row <= Len(links)
    BY <1>1, <1>4 DEF LinkInv, ShapeOK, NodesOK, LinkTyped
  <1>7. ASSUME NEW c \in Terminals, command[c].alone, command[c].pc = "wait"
        PROVE  /\ links[command[c].row].node = 0 /\ links[command[c].row].there
               /\ links[row].node = 0 /\ links[row].there
               /\ overlaps = 0 /\ broken = 0 => row = command[c].row
    <2>1. command[c].node = n /\ WaitOK(command[c])
      BY <1>1, <1>7, CallerIs
    <2>2. overlaps = 0 /\ broken = 0 => row = command[c].row
      BY <1>1, <1>4, <1>7, <2>1 DEF LinkInv, Clean, Doing
    <2> QED
      BY <1>1, <1>4, <2>1, <2>2 DEF WaitOK, NodeOf
  <1>8. PICK state \in {"found", "free", "saved", "refused", "dropped"} : state = "free"
    OBVIOUS
  <1>9. /\ NodeMoves(n, state, row) /\ (state = "dropped" => nodes[n].back)
        /\ state \in {"found", "free", "saved"} => row \in Rows
        /\ state = "saved" => links[row].node # 0 /\ links[row].key # 0
        /\ state \in {"found", "free"} => links[row].node = 0 \/ (nodes[n].row = row /\ nodes[n].state = "found")
    BY <1>1, <1>4, <1>5, <1>6, <1>8
  <1>10. \A c \in Terminals : command[c].alone /\ command[c].pc = "wait" =>
           /\ state \in {"found", "free"} /\ links[command[c].row].node = 0 /\ links[command[c].row].there
           /\ links[row].node = 0 /\ links[row].there
           /\ overlaps = 0 /\ broken = 0 => row = command[c].row
    BY <1>7, <1>8
  <1> QED
    BY <1>1, <1>6, <1>9, <1>10, CallKeeps

\* A row gets its node; a node it had before was blamed.
LEMMA SaveUpdateKeeps ==
  ASSUME LinkInv, NEW n \in NodeIds, SaveUpdate(n)
  PROVE  LinkInv'
  <1>1. /\ LinkTyped /\ n \in Nat \ {0} /\ nodes[n].state = "free" /\ Calling(n)
        /\ UNCHANGED <<command, ini, runs, broken, overlaps>>
    BY NodeTyped DEF LinkInv, SaveUpdate, Calling
  <1>2. nodes[n].row \in Rows
    BY <1>1 DEF LinkInv, ShapeOK, NodesOK
  <1>3. PICK p \in Rows : p = nodes[n].row
    BY <1>2
  <1>4. /\ nodes' \in Seq(LinkNode) /\ Len(nodes') = Len(nodes)
        /\ \A m \in NodeIds : nodes'[m].row = nodes[m].row /\ nodes'[m].back = nodes[m].back
        /\ \A m \in NodeIds : m # n => nodes'[m].state = nodes[m].state
        /\ nodes'[n].state = "saved"
    <2> DEFINE e == [nodes[n] EXCEPT !.state = "saved"]
    <2>1. /\ e \in LinkNode /\ e.state = "saved" /\ e.row = nodes[n].row
          /\ e.key = nodes[n].key /\ e.back = nodes[n].back
      BY <1>1, NodeTyped DEF LinkNode
    <2>2. nodes' = [nodes EXCEPT ![n] = e]
      BY DEF SaveUpdate
    <2> HIDE DEF e
    <2>3. NodeMoves(n, "saved", nodes[n].row)
      BY <1>1, <2>1, <2>2, NodeSet
    <2> QED
      BY <2>3 DEF NodeMoves, SameNode
  <1>5. /\ links' \in Seq(LinkRow) /\ Len(links') = Len(links)
        /\ \A i \in Rows : links'[i].there = links[i].there
        /\ \A i \in Rows : i # p => links'[i].node = links[i].node /\ links'[i].key = links[i].key
        /\ links[p].there => links'[p].node = n /\ links'[p].key = 0
        /\ ~links[p].there => links'[p].node = links[p].node /\ links'[p].key = links[p].key
    <2>1. CASE links[p].there
      <3> DEFINE e == [links[p] EXCEPT !.node = n, !.key = 0]
      <3>1. e \in LinkRow /\ e.there = links[p].there /\ e.key = 0 /\ e.node = n
        BY <1>1, RowTyped DEF LinkRow
      <3>2. links' = [links EXCEPT ![p] = e]
        BY <1>3, <2>1 DEF SaveUpdate
      <3> HIDE DEF e
      <3>3. RowMoves(p, links[p].there, 0, n)
        BY <1>1, <3>1, <3>2, RowSet
      <3> QED
        BY <2>1, <3>3 DEF RowMoves, SameRow
    <2>2. CASE ~links[p].there
      <3>1. links' = links
        BY <1>3, <2>2 DEF SaveUpdate
      <3> QED
        BY <1>1, <2>2, <3>1 DEF LinkTyped
    <2> QED
      BY <2>1, <2>2
  <1>6. Rows' = Rows /\ NodeIds' = NodeIds
    BY <1>4, <1>5 DEF Rows, NodeIds
  <1>7. nodes[n].state \notin Saved /\ \A m \in NodeIds : nodes'[m].state \in Saved <=> nodes[m].state \in Saved \/ m = n
    BY <1>1, <1>4 DEF Saved
  <1>8. LinkTyped'
    <2>1. \A m \in NodeIds : nodes'[m].row <= Len(links)
      BY <1>1, <1>4 DEF LinkTyped
    <2> QED
      BY <1>1, <1>4, <1>5, <1>6, <2>1 DEF LinkTyped
  <1>9. \A i \in Rows : links[i].node # 0 =>
            /\ links[i].node \in NodeIds /\ nodes[links[i].node].state \in Saved /\ links[i].node # n
            /\ \A j \in Rows : links[i].node = links[j].node => i = j
    BY <1>7 DEF LinkInv, ShapeOK, RowsOK, NodeOf
  <1>10. \A i \in Rows : links'[i].node = links[i].node \/ (i = p /\ links[p].there /\ links'[i].node = n)
    BY <1>5
  <1>11. RowsOK'
    <2> SUFFICES ASSUME NEW i \in Rows, links'[i].node # 0
        PROVE  /\ links'[i].node \in NodeIds /\ nodes'[links'[i].node].state \in Saved
               /\ \A j \in Rows : links'[i].node = links'[j].node => i = j
      BY <1>6 DEF RowsOK, NodeOf
    <2>1. CASE links'[i].node = n
      BY <1>7, <1>9, <1>10, <2>1
    <2>2. CASE links'[i].node # n
      <3>1. links'[i].node = links[i].node
        BY <1>10, <2>2
      <3>2. \A j \in Rows : links'[i].node = links'[j].node => links'[j].node = links[j].node
        BY <1>10, <2>2
      <3> QED
        BY <1>7, <1>9, <3>1, <3>2
    <2> QED
      BY <2>1, <2>2
  <1>12. NodesOK'
    <2> SUFFICES ASSUME NEW m \in NodeIds
        PROVE  /\ nodes'[m].state \in {"found", "free"} \cup Saved => nodes[m].row \in Rows
               /\ nodes'[m].state \in Saved => links'[nodes[m].row].node # 0 \/ ~links'[nodes[m].row].there
               /\ nodes'[m].state = "dropped" => nodes[m].back
      BY <1>4, <1>6 DEF NodesOK, NodeOf
    <2>1. /\ nodes[m].state \in {"found", "free"} \cup Saved => nodes[m].row \in Rows
          /\ nodes[m].state \in Saved => links[nodes[m].row].node # 0 \/ ~links[nodes[m].row].there
          /\ nodes[m].state = "dropped" => nodes[m].back
      BY DEF LinkInv, ShapeOK, NodesOK, NodeOf
    <2>2. CASE m = n
      BY <1>1, <1>3, <1>4, <1>5, <2>2
    <2>3. CASE m # n
      BY <1>1, <1>4, <1>5, <1>10, <2>1, <2>3 DEF Saved
    <2> QED
      BY <2>2, <2>3
  <1>13. \A d \in LinkThread : ThreadOK(d) => ThreadOK(d)'
    <2>1. \A m \in NodeIds : nodes[m].state \in Saved => nodes'[m].state = nodes[m].state
      BY <1>4, <1>7
    <2>2. "unlinked" \in Leaving /\ "deleted" \in Saved
      BY DEF Leaving, Saved
    <2> QED
      BY <1>6, <2>1, <2>2 DEF ThreadOK
  <1>14. ASSUME NEW c \in Terminals, command[c].alone
         PROVE  /\ AloneThread(c)'
                /\ command[c].node = n /\ command[c].pc \in {"wait", "fail"}
                /\ \A m \in NodeIds : Calling(m) => m = n
                /\ \A e \in Terminals \ {c} : Doing(e, "idle")
                /\ command[c].pc = "wait" => links[p].there /\ links[p].node = 0
    <2>1. /\ command[c].node = n /\ command[c].pc \in {"wait", "fail"} /\ ~Taken
          /\ \A m \in NodeIds : Calling(m) => m = n
          /\ \A e \in Terminals \ {c} : Doing(e, "idle")
          /\ command[c].pc = "wait" => WaitOK(command[c])
      BY <1>1, <1>14, CallerIs
    <2>2. \A m \in NodeIds' : Calling(m)' => m = n
      BY <1>4, <1>6, <2>1 DEF Calling
    <2>3. ~Taken'
      BY <1>5, <1>6, <2>1 DEF Taken, There
    <2>4. command[c].row \in Rows
      BY <2>1 DEF LinkInv, ShapeOK, ThreadOK, Joining
    <2>5. ASSUME command[c].pc = "wait"
          PROVE  /\ links[command[c].row].there /\ links[command[c].row].node = 0
                 /\ links[p].there /\ links[p].node = 0
      BY <1>1, <1>3, <2>1, <2>5 DEF WaitOK, NodeOf
    <2>6. command[c].pc = "wait" => WaitOK(command[c])'
      <3> SUFFICES ASSUME command[c].pc = "wait" PROVE WaitOK(command[c])'
        OBVIOUS
      <3>1. links'[command[c].row].there /\ links'[command[c].row].node \in {0, n}
        BY <1>10, <1>5, <2>4, <2>5
      <3>2. links'[p].there /\ links'[p].node = n
        BY <1>5, <2>5
      <3> QED
        BY <1>1, <1>3, <1>4, <2>1, <3>1, <3>2 DEF WaitOK, NodeOf
    <2>7. \A e \in Terminals \ {c} : Doing(e, "idle")'
      BY <1>1, <2>1 DEF Doing
    <2>8. AloneThread(c)'
      BY <1>1, <1>6, <2>1, <2>2, <2>3, <2>6, <2>7 DEF AloneThread, Leaving
    <2> QED
      BY <2>1, <2>5, <2>8
  <1>15. Clean'
    <2> SUFFICES ASSUME overlaps = 0, broken = 0 PROVE Clean'
      BY <1>1 DEF Clean
    <2>1. ASSUME NEW c \in Terminals, ~Doing(c, "idle")
          PROVE  LET d == command[c] IN
                 /\ d.alone /\ d.pc \notin {"rekey", "fail", "restore", "resync", "link"}
                 /\ d.pc = "wait" => nodes'[d.node].row = d.row
      <3>1. command[c].alone /\ command[c].pc \notin {"rekey", "fail", "restore"}
        BY <2>1 DEF LinkInv, Clean
      <3>2. command[c].node = n /\ command[c].pc \in {"wait", "fail"}
        BY <1>14, <3>1
      <3>3. command[c].pc = "wait" => nodes[n].row = command[c].row
        BY <1>1, <2>1, <3>2 DEF LinkInv, Clean
      <3> QED
        BY <1>4, <3>1, <3>2, <3>3
    <2>2. \A i \in Rows : links[i].there /\ links[i].node = 0 =>
            \E c \in Terminals : command[c].row = i /\ command[c].pc \in {"post", "wait"}
      BY DEF LinkInv, Clean, NodeOf
    <2>3. \A i \in Rows : links'[i].there /\ links'[i].node = 0 => links[i].there /\ links[i].node = 0
      BY <1>1, <1>5, <1>10
    <2> QED
      BY <1>1, <1>6, <2>1, <2>2, <2>3 DEF Clean, Doing, NodeOf
  <1>16. PICK C \in SUBSET NodeIds : Blamed(C) /\ Accounts(C)
    BY DEF LinkInv, BlameOK
  <1>17. ASSUME n \notin C
         PROVE  /\ \E c \in Terminals : command[c].alone /\ command[c].pc = "wait" /\ command[c].node = n
                /\ links[p].there /\ links[p].node = 0
                /\ \A m \in NodeIds : Calling(m) => m = n
    <2>1. PICK c \in Terminals : command[c].alone /\ command[c].pc = "wait" /\ command[c].node = n
      BY <1>1, <1>16, <1>17, YoungIs
    <2> QED
      BY <2>1, <1>14
  <1>18. links[p].node \in C \cup {0, n}
    BY <1>1, <1>3, <1>16 DEF Blamed, NodesBlamed, NodeOf
  <1>19. Settled(C)'
    <2> SUFFICES ASSUME NEW m \in NodeIds \ C PROVE Good(m)' \/ Young(m)'
      BY <1>6 DEF Settled
    <2>1. Young(m)' = Young(m)
      BY <1>1 DEF Young, Doing
    <2>2. CASE m = n
      BY <1>17, <2>1, <2>2 DEF Young, Doing
    <2>3. CASE m # n
      <3>1. Good(m) \/ Young(m)
        BY <1>16 DEF Blamed, Settled
      <3>2. Alive(m)' = Alive(m)
        BY <1>4, <2>3 DEF Alive
      <3>3. m # 0 /\ \A i \in Rows : links'[i].node = m <=> links[i].node = m
        BY <1>1, <1>10, <1>18, <2>3, NodeTyped
      <3>4. HasRow(m)' = HasRow(m)
        BY <1>5, <1>6, <3>3 DEF HasRow, NodeOf
      <3> QED
        BY <2>1, <3>1, <3>2, <3>4 DEF Good
    <2> QED
      BY <2>2, <2>3
  <1>20. NodesBlamed(C)'
    <2> SUFFICES ASSUME NEW m \in NodeIds, nodes'[m].state \in {"found", "free"} \cup Saved
                 PROVE  links'[nodes[m].row].node \in C \cup {0, m}
      BY <1>4, <1>6 DEF NodesBlamed, NodeOf
    <2>1. CASE m = n
      BY <1>1, <1>3, <1>10, <1>18, <2>1
    <2>2. CASE m # n
      <3>1. /\ nodes[m].state \in {"found", "free"} \cup Saved /\ nodes[m].row \in Rows
            /\ nodes[m].state \in Saved => links[nodes[m].row].node # 0 \/ ~links[nodes[m].row].there
        BY <1>4, <2>2 DEF LinkInv, ShapeOK, NodesOK, NodeOf
      <3>2. links[nodes[m].row].node \in C \cup {0, m}
        BY <1>16, <3>1 DEF Blamed, NodesBlamed, NodeOf
      <3>3. CASE n \in C
        BY <1>10, <3>1, <3>2, <3>3
      <3>4. CASE n \notin C
        <4>1. nodes[m].state \in Saved
          BY <1>17, <2>2, <3>1, <3>4 DEF Calling
        <4>2. nodes[m].row # p
          BY <1>17, <3>1, <3>4, <4>1
        <4> QED
          BY <1>10, <3>1, <3>2, <4>2
      <3> QED
        BY <3>3, <3>4
    <2> QED
      BY <2>1, <2>2
  <1>21. RowsBlamed(C)'
    <2>1. \A i \in Rows : links[i].node # 0 /\ links[i].key # 0 => links[i].node \in C
      BY <1>16 DEF Blamed, RowsBlamed, NodeOf
    <2>2. \A i \in Rows : links'[i].key # 0 => links'[i].node = links[i].node /\ links'[i].key = links[i].key
      BY <1>5
    <2> QED
      BY <1>6, <2>1, <2>2 DEF RowsBlamed, NodeOf
  <1>22. ASSUME NEW c \in Terminals PROVE ThreadBlamed(C, command[c])'
    <2>1. ThreadBlamed(C, command[c])
      BY <1>16 DEF Blamed
    <2>2. command[c].pc \in Joining \cup Leaving => command[c].row \in Rows
      BY DEF LinkInv, ShapeOK, ThreadOK
    <2>3. {"unlink", "restore"} \subseteq Leaving
      BY DEF Leaving
    <2>4. CASE command[c].pc \in Joining \cup Leaving /\ links'[command[c].row].node = n /\ n \notin C
      <3>1. PICK e \in Terminals : command[e].alone /\ command[e].pc = "wait" /\ command[e].node = n
        BY <1>17, <2>4
      <3>2. c = e
        BY <1>14, <2>4, <3>1 DEF Doing, Joining, Leaving
      <3> QED
        BY <1>1, <2>4, <3>1, <3>2 DEF ThreadBlamed, Joining, Leaving, NodeOf
    <2>5. CASE ~(command[c].pc \in Joining \cup Leaving /\ links'[command[c].row].node = n /\ n \notin C)
      <3>1. command[c].pc \in Joining \cup Leaving =>
              links'[command[c].row].node = links[command[c].row].node \/ links'[command[c].row].node \in C
        BY <1>10, <2>2, <2>5
      <3> QED
        BY <1>1, <2>1, <2>3, <3>1 DEF ThreadBlamed, NodeOf
    <2> QED
      BY <2>4, <2>5
  <1>23. \A c \in Terminals : command[c].alone => AloneThread(c)'
    BY <1>14
  <1> QED
    BY <1>1, <1>6, <1>8, <1>11, <1>12, <1>13, <1>15, <1>16, <1>19, <1>20, <1>21, <1>22, <1>23, NodeStep

-----------------------------------------------------------------------------
(* A command begins *)

\* Who was alone is to blame for its node, or has yet to make one.
LEMMA BeginBlames ==
  ASSUME LinkInv, NEW c \in Terminals, command[c].pc = "idle", nodes' = nodes,
         command' \in [Terminals -> LinkThread], ~command'[c].alone,
         \A d \in Terminals \ {c} : /\ command'[d].pc = command[d].pc /\ command'[d].row = command[d].row
                                    /\ command'[d].node = command[d].node /\ command'[d].key = command[d].key
                                    /\ ~command'[d].alone,
         broken' = broken, overlaps' = overlaps + 1
  PROVE  \E C \in SUBSET NodeIds, D \in SUBSET NodeIds :
           /\ Blamed(C) /\ C \subseteq D /\ Accounts(D)'
           /\ \A e \in Terminals : command[e].alone /\ command[e].pc = "wait" => command[e].node \in D
  <1>1. LinkTyped /\ broken \in Nat /\ overlaps \in Nat
    BY DEF LinkInv, LinkTyped
  <1>2. PICK C \in SUBSET NodeIds : Blamed(C) /\ Accounts(C)
    BY DEF LinkInv, BlameOK
  <1>3. /\ IsFiniteSet(Pending) /\ Cardinality(Pending) \in Nat /\ Pending \subseteq Terminals
        /\ Cardinality(C) + Cardinality(Pending) <= broken + 2 * overlaps
    BY <1>2, FS_CardinalityType DEF Accounts, Pending
  <1>4. PICK a \in Terminals : \A e \in Terminals \ {a} : ~command[e].alone
    <2>1. CASE \E e \in Terminals : command[e].alone
      <3>1. PICK e \in Terminals : command[e].alone
        BY <2>1
      <3>2. \A d \in Terminals \ {e} : Doing(d, "idle") /\ ~command[d].alone
        BY <3>1 DEF LinkInv, AloneOK, AloneThread, ShapeOK, ThreadOK, Doing
      <3> QED
        BY <3>2
    <2>2. CASE ~\E e \in Terminals : command[e].alone
      BY <2>2
    <2> QED
      BY <2>1, <2>2
  <1>5. Pending' \subseteq (Pending \cup {c}) \cup {a}
    BY <1>4 DEF Pending
  <1>6. CASE command[a].alone /\ command[a].pc = "wait"
    <2>1. PICK n \in NodeIds : n = command[a].node
      BY <1>6 DEF LinkInv, ShapeOK, ThreadOK
    <2>2. PICK D \in SUBSET NodeIds : D = C \cup {n}
      OBVIOUS
    <2>3. Pending' \in SUBSET (Pending \cup {c})
      <3>1. a # c
        BY <1>6
      <3>2. a \notin Pending'
        BY <1>6, <3>1 DEF Pending
      <3> QED
        BY <1>5, <3>2
    <2>4. /\ IsFiniteSet(Pending') /\ Cardinality(Pending') \in Nat
          /\ Cardinality(Pending') <= Cardinality(Pending) + 1
      BY <1>3, <2>3, OneMoreAt
    <2>5. /\ Cardinality(C) \in Nat /\ Cardinality(D) \in Nat /\ Cardinality(D) <= Cardinality(C) + 1
      BY <1>1, <2>2, NodeTyped, OneBlamed
    <2>6. Cardinality(D) + Cardinality(Pending') <= Cardinality(C) + Cardinality(Pending) + 2
      BY <1>3, <2>4, <2>5
    <2>7. Cardinality(D) + Cardinality(Pending') <= broken + 2 * (overlaps + 1)
      BY <1>1, <1>3, <2>4, <2>5, <2>6
    <2>8. Accounts(D)'
      BY <2>4, <2>7 DEF Accounts
    <2>9. \A e \in Terminals : command[e].alone /\ command[e].pc = "wait" => command[e].node \in D
      BY <1>4, <2>1, <2>2
    <2> QED
      BY <1>2, <2>2, <2>8, <2>9
  <1>7. CASE ~(command[a].alone /\ command[a].pc = "wait")
    <2>1. PICK P \in SUBSET (Pending \cup {c}) : P = Pending \cup {c}
      OBVIOUS
    <2>2. /\ IsFiniteSet(P) /\ Cardinality(P) \in Nat /\ Cardinality(P) <= Cardinality(Pending) + 1
      BY <1>3, OneMoreAt
    <2>3. Pending' \in SUBSET (P \cup {a})
      BY <1>5, <2>1
    <2>4. /\ IsFiniteSet(Pending') /\ Cardinality(Pending') \in Nat
          /\ Cardinality(Pending') <= Cardinality(P) + 1
      BY <2>2, <2>3, OneMoreAt
    <2>5. Cardinality(C) \in Nat
      BY <1>1, OneBlamed
    <2>6. Cardinality(C) + Cardinality(Pending') <= Cardinality(C) + Cardinality(Pending) + 2
      BY <1>3, <2>2, <2>4, <2>5
    <2>7. Cardinality(C) + Cardinality(Pending') <= broken + 2 * (overlaps + 1)
      BY <1>1, <1>3, <2>4, <2>5, <2>6
    <2>8. Accounts(C)'
      BY <2>4, <2>7 DEF Accounts
    <2>9. ASSUME NEW e \in Terminals, command[e].alone, command[e].pc = "wait" PROVE FALSE
      <3>1. e = a
        BY <1>4, <2>9
      <3> QED
        BY <1>7, <2>9, <3>1
    <2> QED
      BY <1>2, <2>8, <2>9
  <1> QED
    BY <1>6, <1>7

\* A command begins: it is alone, or one more overlap pays for what it meets.
LEMMA BeginKeeps ==
  ASSUME LinkInv, NEW c \in Terminals, NEW cmd \in LinkThread, BeginCommand(c, cmd), SameTable,
         links' \in Seq(LinkRow), \A i \in Rows : links'[i].key \in {links[i].key, 0},
         ini' = ini, broken' = broken,
         cmd.row <= Len(links), cmd.node <= Len(nodes), cmd.conf <= Len(nodes),
         cmd.pc \in {"create", "resync", "rekey", "post", "unlink"}, ThreadOK(cmd),
         cmd.pc \in {"rekey", "post"} => links[cmd.row].there /\ links[cmd.row].node = 0,
         cmd.pc = "post" => links'[cmd.row].key = cmd.key,
         cmd.pc = "unlink" => /\ links[cmd.row].there /\ links[cmd.row].node = cmd.node
                              /\ links[cmd.row].key = cmd.key,
         cmd.pc = "resync" => /\ links[cmd.row].there /\ links[cmd.row].node # 0
                              /\ cmd.conf = ini /\ ini \in {0, links[cmd.row].node}
  PROVE  LinkInv'
  <1>1. LinkTyped /\ Rows' = Rows /\ NodeIds' = NodeIds /\ nodes' = nodes
    BY DEF LinkInv, SameTable, Rows, NodeIds
  <1>2. PICK alone \in BOOLEAN :
           /\ alone = ((\A d \in Terminals \ {c} : Doing(d, "idle")) /\ ~(\E n \in NodeIds : Calling(n)) /\ ~Taken)
           /\ command[c].pc = "idle" /\ runs' = runs + 1 /\ runs < MaxCommands
           /\ overlaps' = overlaps + IF alone THEN 0 ELSE 1
           /\ command' \in [Terminals -> LinkThread]
           /\ command'[c] = [cmd EXCEPT !.alone = alone]
           /\ \A d \in Terminals \ {c} :
                /\ command'[d].pc = command[d].pc /\ command'[d].key = command[d].key
                /\ command'[d].row = command[d].row /\ command'[d].node = command[d].node
                /\ command'[d].conf = command[d].conf
                /\ command'[d].alone = (alone /\ command[d].alone)
    BY <1>1, BeginIs
  <1>3. /\ command'[c].pc = cmd.pc /\ command'[c].key = cmd.key /\ command'[c].row = cmd.row
        /\ command'[c].node = cmd.node /\ command'[c].conf = cmd.conf /\ command'[c].alone = alone
    BY <1>2 DEF LinkThread
  <1>4. LinkTyped'
    <2>1. \A e \in Terminals : /\ command'[e].row <= Len(links)
                          /\ command'[e].node <= Len(nodes) /\ command'[e].conf <= Len(nodes)
      <3>1. \A e \in Terminals : /\ command[e].row <= Len(links)
                                 /\ command[e].node <= Len(nodes) /\ command[e].conf <= Len(nodes)
        BY <1>1 DEF LinkTyped
      <3> SUFFICES ASSUME NEW e \in Terminals
          PROVE  /\ command'[e].row <= Len(links)
                 /\ command'[e].node <= Len(nodes) /\ command'[e].conf <= Len(nodes)
        OBVIOUS
      <3>2. CASE e = c
        BY <1>3, <3>2
      <3>3. CASE e # c
        <4>1. /\ command'[e].row = command[e].row
              /\ command'[e].node = command[e].node /\ command'[e].conf = command[e].conf
          BY <1>2, <3>3
        <4> QED
          BY <3>1, <4>1
      <3> QED
        BY <3>2, <3>3
    <2>2. runs' \in 0..MaxCommands /\ overlaps' \in 0..runs' /\ broken' \in 0..MaxBroken
      BY <1>1, <1>2 DEF LinkTyped
    <2>3. Len(links') = Len(links) /\ Len(links) <= MaxLinkRows
      BY <1>1 DEF SameTable, LinkTyped
    <2> QED
      BY <1>1, <1>2, <2>1, <2>2, <2>3 DEF LinkTyped
  <1>5. /\ RowsOK' /\ NodesOK'
        /\ \A d \in LinkThread : ThreadOK(d) => ThreadOK(d)'
    BY <1>1, KeysShape DEF LinkInv
  <1>6. ASSUME NEW e \in Terminals PROVE ThreadOK(command[e])'
    <2>1. CASE e = c
      <3>1. ThreadOK(cmd)'
        BY <1>5
      <3> QED
        BY <1>3, <2>1, <3>1 DEF ThreadOK
    <2>2. CASE e # c
      <3>1. PICK d \in LinkThread : d = command[e] /\ ThreadOK(d)
        BY <1>1 DEF LinkTyped, LinkInv, ShapeOK
      <3>2. ThreadOK(d)'
        BY <3>1, <1>5
      <3>3. /\ command'[e].pc = d.pc /\ command'[e].key = d.key
            /\ command'[e].row = d.row /\ command'[e].node = d.node
            /\ command'[e].alone = (alone /\ d.alone)
        BY <1>2, <2>2, <3>1
      <3> QED
        BY <3>2, <3>3 DEF ThreadOK
    <2> QED
      BY <2>1, <2>2
  <1>7. ASSUME alone
        PROVE  /\ \A e \in Terminals \ {c} : Doing(e, "idle") /\ Doing(e, "idle")' /\ ~command'[e].alone
               /\ ~\E n \in NodeIds : Calling(n)
               /\ ~Taken
    BY <1>2, <1>7 DEF Doing, LinkInv, ShapeOK, ThreadOK
  <1>8. AloneOK'
    <2>1. CASE ~alone
      BY <1>2, <1>3, <2>1 DEF AloneOK
    <2>2. CASE alone
      <3>1. \A n \in NodeIds : ~Calling(n)'
        BY <1>1, <1>7, <2>2 DEF Calling
      <3>2. ~Taken'
        BY <1>1, <1>7, <2>2 DEF Taken, There, SameTable
      <3>3. cmd.pc \in {"rekey", "post"} => links'[cmd.row].there /\ links'[cmd.row].node = 0
        BY DEF SameTable, ThreadOK, Joining
      <3>4. cmd.pc \in Leaving => links'[cmd.row].node = cmd.node /\ cmd.key = 0
        <4> SUFFICES ASSUME cmd.pc \in Leaving PROVE links'[cmd.row].node = cmd.node /\ cmd.key = 0
          OBVIOUS
        <4>1. cmd.pc = "unlink" /\ cmd.row \in Rows /\ cmd.node # 0
          BY DEF ThreadOK, Leaving, NodeIds
        <4>2. links[cmd.row].key = 0
          BY <1>7, <2>2, <4>1 DEF Taken, There
        <4> QED
          BY <4>1, <4>2 DEF SameTable
      <3>5. AloneThread(c)'
        BY <1>1, <1>3, <1>7, <2>2, <3>1, <3>2, <3>3, <3>4 DEF AloneThread, NodeOf
      <3> QED
        BY <1>7, <2>2, <3>5 DEF AloneOK
    <2> QED
      BY <2>1, <2>2
  <1>9. Clean'
    <2> SUFFICES ASSUME overlaps' = 0, broken' = 0 PROVE Clean'
      BY DEF Clean
    <2>1. overlaps \in Nat
      BY <1>1 DEF LinkTyped
    <2>2. alone /\ overlaps = 0 /\ broken = 0
      BY <1>2, <2>1
    <2>3. \A i \in Rows : ~(links[i].there /\ links[i].node = 0)
      BY <1>2, <1>7, <2>2 DEF LinkInv, Clean, Doing, NodeOf
    <2>4. cmd.pc \in {"create", "resync", "unlink"}
      BY <2>3 DEF ThreadOK, Joining
    <2>5. \A i \in Rows' : ~(links'[i].there /\ links'[i].node = 0)
      BY <1>1, <2>3 DEF SameTable
    <2>6. cmd.pc = "resync" => links'[cmd.row].there /\ links'[cmd.row].node = links[cmd.row].node
      BY DEF SameTable, ThreadOK
    <2>7. ASSUME NEW e \in Terminals, ~Doing(e, "idle")' PROVE e = c
      BY <1>7, <2>2, <2>7 DEF Doing
    <2>8. /\ command'[c].alone /\ command'[c].pc \notin {"rekey", "fail", "restore", "link", "wait"}
          /\ command'[c].pc = "resync" =>
               /\ links'[command'[c].row].there /\ links'[command'[c].row].node # 0
               /\ ini' = command'[c].conf /\ command'[c].conf \in {0, links'[command'[c].row].node}
      BY <1>3, <2>2, <2>4, <2>6
    <2> QED
      BY <2>5, <2>7, <2>8 DEF Clean, NodeOf
  <1>10. BlameOK'
    <2>1. PICK C \in SUBSET NodeIds, D \in SUBSET NodeIds :
           /\ Blamed(C) /\ C \subseteq D /\ Accounts(D)'
           /\ \A e \in Terminals \ {c} : command[e].alone /\ command[e].pc = "wait" => command[e].node \in D
      <3>1. CASE ~alone
        <4>1. /\ ~command'[c].alone /\ overlaps' = overlaps + 1
              /\ \A d \in Terminals \ {c} : /\ command'[d].pc = command[d].pc /\ command'[d].row = command[d].row
                                    /\ command'[d].node = command[d].node /\ command'[d].key = command[d].key
                                    /\ ~command'[d].alone
          BY <1>2, <1>3, <3>1
        <4>2. \E C \in SUBSET NodeIds, D \in SUBSET NodeIds :
                /\ Blamed(C) /\ C \subseteq D /\ Accounts(D)'
                /\ \A e \in Terminals : command[e].alone /\ command[e].pc = "wait" => command[e].node \in D
          <5>1. command[c].pc = "idle" /\ command' \in [Terminals -> LinkThread]
            BY <1>2
          <5> QED
            BY <1>1, <4>1, <5>1, BeginBlames
        <4> QED
          BY <4>2
      <3>2. CASE alone
        <4>1. PICK C \in SUBSET NodeIds : Blamed(C) /\ Accounts(C)
          BY DEF LinkInv, BlameOK
        <4>2. Pending' \in SUBSET Pending
          BY <1>3, <1>7, <3>2 DEF Pending, Doing
        <4>3. /\ IsFiniteSet(Pending') /\ Cardinality(Pending') <= Cardinality(Pending)
              /\ Cardinality(Pending) \in Nat /\ Cardinality(Pending') \in Nat
          BY <4>1, <4>2, FS_Subset, FS_CardinalityType DEF Accounts
        <4>9. Cardinality(C) \in Nat
          BY <1>1, OneBlamed
        <4>4. Cardinality(C) \in Nat /\ broken \in Nat /\ overlaps \in Nat
          BY <1>1, <4>9 DEF LinkTyped
        <4>5. Cardinality(C) + Cardinality(Pending) <= broken + 2 * overlaps
          BY <4>1 DEF Accounts
        <4>6. Cardinality(C) + Cardinality(Pending') <= broken + 2 * overlaps
          BY <4>3, <4>4, <4>5
        <4>7. broken' = broken /\ overlaps' = overlaps
          BY <1>2, <3>2, <4>4
        <4>8. Accounts(C)'
          BY <4>3, <4>6, <4>7 DEF Accounts
        <4> QED
          BY <1>7, <3>2, <4>1, <4>8 DEF Doing
      <3> QED
        BY <3>1, <3>2
    <2>2. /\ \A n \in NodeIds : Good(n) => Good(n)'
          /\ NodesBlamed(C)'
      BY <1>1, <2>1, KeysBlame DEF LinkInv, Blamed
    <2>3. Settled(D)'
      <3> SUFFICES ASSUME NEW n \in NodeIds \ D PROVE Good(n)'
        BY <1>1 DEF Settled
      <3>1. ~Young(n)
        BY <1>2, <2>1 DEF Young, Doing
      <3> QED
        BY <2>1, <2>2, <3>1 DEF Blamed, Settled
    <2>4. NodesBlamed(D)'
      BY <2>1, <2>2 DEF NodesBlamed
    <2>5. RowsBlamed(D)'
      <3>1. \A i \in Rows : links[i].node # 0 /\ links[i].key # 0 => links[i].node \in D
        BY <2>1 DEF Blamed, RowsBlamed, NodeOf
      <3> QED
        BY <1>1, <3>1 DEF RowsBlamed, NodeOf, SameTable
    <2>6. ASSUME NEW e \in Terminals PROVE ThreadBlamed(D, command[e])'
      <3>1. CASE e = c
        <4>1. cmd.pc \in {"rekey", "post", "unlink"} =>
                cmd.row \in Rows /\ links'[cmd.row].node = links[cmd.row].node
          BY DEF ThreadOK, Joining, Leaving, SameTable
        <4>2. cmd.pc = "unlink" => cmd.node # 0 /\ (cmd.key # 0 => links[cmd.row].node \in D)
          BY <2>1, <4>1 DEF Blamed, RowsBlamed, ThreadOK, Leaving, NodeIds, NodeOf
        <4> QED
          BY <1>3, <3>1, <4>1, <4>2 DEF ThreadBlamed, Joining, Leaving, NodeOf
      <3>2. CASE e # c
        <4>1. /\ ThreadBlamed(C, command[e])
              /\ command[e].pc \in Joining \cup Leaving => command[e].row \in Rows
          BY <2>1 DEF Blamed, LinkInv, ShapeOK, ThreadOK
        <4>2. command[e].pc \in Joining \cup Leaving => links'[command[e].row].node = links[command[e].row].node
          BY <4>1 DEF SameTable
        <4>3. /\ command'[e].pc = command[e].pc /\ command'[e].key = command[e].key
              /\ command'[e].row = command[e].row /\ command'[e].node = command[e].node
              /\ command[e].alone /\ command[e].pc = "wait" => command[e].node \in D
          BY <1>2, <2>1, <3>2
        <4>4. {"unlink", "restore"} \subseteq Leaving
          BY DEF Leaving
        <4> QED
          BY <2>1, <4>1, <4>2, <4>3, <4>4 DEF ThreadBlamed, NodeOf
      <3> QED
        BY <3>1, <3>2
    <2> QED
      BY <1>1, <2>1, <2>3, <2>4, <2>5, <2>6 DEF BlameOK, Blamed
  <1> QED
    BY <1>4, <1>5, <1>6, <1>8, <1>9, <1>10 DEF LinkInv, ShapeOK

\* A connect begins.
LEMMA LookupKeeps ==
  ASSUME LinkInv, NEW c \in Terminals, NEW key \in AccessKeys, Lookup(c, key)
  PROVE  LinkInv'
  <1>1. LinkTyped /\ ini <= Len(nodes) /\ 0 <= Len(nodes) /\ Len(links) \in Nat
    BY LenProperties DEF LinkInv, LinkTyped
  <1>2. PICK cmd \in LinkThread :
           /\ BeginCommand(c, cmd) /\ cmd.key = key /\ cmd.conf = ini /\ cmd.node = 0
           /\ cmd.row = 0 \/ (cmd.row \in Rows /\ links[cmd.row].there /\ NodeOf(cmd.row) \in Nat
                               /\ (ini = 0 \/ NodeOf(cmd.row) = ini))
           /\ \/ cmd.pc = "create" /\ cmd.row = 0
              \/ cmd.pc = "resync" /\ cmd.row # 0 /\ NodeOf(cmd.row) # 0
              \/ cmd.pc = "rekey" /\ cmd.row # 0 /\ NodeOf(cmd.row) = 0
              \/ cmd.pc = "post" /\ cmd.row # 0 /\ NodeOf(cmd.row) = 0 /\ links[cmd.row].key = key
           /\ UNCHANGED <<links, nodes, ini, broken>>
    BY <1>1, LookupIs
  <1>3. SameTable /\ links' \in Seq(LinkRow) /\ \A i \in Rows : links'[i].key \in {links[i].key, 0}
    BY <1>1, <1>2 DEF SameTable, LinkTyped
  <1>4. cmd.row <= Len(links) /\ cmd.node <= Len(nodes) /\ cmd.conf <= Len(nodes)
    BY <1>1, <1>2 DEF Rows
  <1>5. ThreadOK(cmd)
    BY <1>2 DEF ThreadOK, Joining, Leaving
  <1>6. /\ cmd.pc \in {"create", "resync", "rekey", "post", "unlink"}
        /\ cmd.pc \in {"rekey", "post"} => links[cmd.row].there /\ links[cmd.row].node = 0
        /\ cmd.pc = "post" => links'[cmd.row].key = cmd.key
        /\ cmd.pc = "unlink" => /\ links[cmd.row].there /\ links[cmd.row].node = cmd.node
                                /\ links[cmd.row].key = cmd.key
        /\ cmd.pc = "resync" => /\ links[cmd.row].there /\ links[cmd.row].node # 0
                                /\ cmd.conf = ini /\ ini \in {0, links[cmd.row].node}
    BY <1>2 DEF NodeOf
  <1>7. BeginCommand(c, cmd) /\ ini' = ini /\ broken' = broken
    BY <1>2
  <1> QED
    BY <1>3, <1>4, <1>5, <1>6, <1>7, BeginKeeps

\* A deletion begins and clears the key of its row.
LEMMA UnlinkKeeps ==
  ASSUME LinkInv, NEW c \in Terminals, NEW n \in NodeIds, Unlink(c, n)
  PROVE  LinkInv'
  <1>1. LinkTyped /\ n \in Nat \ {0} /\ n <= Len(nodes) /\ 0 <= Len(nodes)
    BY LenProperties, NodeTyped DEF LinkInv, LinkTyped, NodeIds
  <1> DEFINE S == There({i \in Rows : links[i].node = n})
  <1>2. /\ S \in SUBSET (Nat \ {0})
        /\ \A i : i \in S <=> i \in Rows /\ links[i].there /\ links[i].node = n
    BY <1>1, RowTyped DEF There
  <1>3. FirstOf(S) \in Nat /\ (S # {} => FirstOf(S) \in S) /\ (S = {} => FirstOf(S) = 0)
    BY <1>2, FirstIs
  <1>4. FirstOf(S) # 0
    BY DEF Unlink
  <1>5. PICK row \in Rows : row = FirstOf(S) /\ links[row].there /\ links[row].node = n
    BY <1>2, <1>3, <1>4
  <1>6. /\ BeginCommand(c, [NoCommand EXCEPT !.pc = "unlink", !.row = row, !.node = n, !.key = links[row].key])
        /\ links' = [links EXCEPT ![row].key = 0]
        /\ UNCHANGED <<nodes, ini, broken>>
    BY <1>5 DEF Unlink
  <1> HIDE DEF S
  <1>7. RowMoves(row, links[row].there, 0, links[row].node)
    <2> DEFINE e == [links[row] EXCEPT !.key = 0]
    <2>1. e \in LinkRow /\ e.there = links[row].there /\ e.key = 0 /\ e.node = links[row].node
      BY <1>1, RowTyped DEF LinkRow
    <2>2. links' = [links EXCEPT ![row] = e]
      BY <1>6
    <2> HIDE DEF e
    <2> QED
      BY <1>1, <2>1, <2>2, RowSet
  <1>8. SameTable /\ links' \in Seq(LinkRow) /\ \A i \in Rows : links'[i].key \in {links[i].key, 0}
    BY <1>6, <1>7 DEF RowMoves, SameTable, SameRow
  <1>9. PICK cmd \in LinkThread :
          /\ BeginCommand(c, cmd) /\ cmd.pc = "unlink" /\ cmd.row = row /\ cmd.node = n
          /\ cmd.key = links[row].key /\ cmd.conf = 0
    <2> DEFINE cmd == [NoCommand EXCEPT !.pc = "unlink", !.row = row, !.node = n, !.key = links[row].key]
    <2>1. /\ cmd \in LinkThread /\ cmd.pc = "unlink" /\ cmd.row = row /\ cmd.node = n
          /\ cmd.key = links[row].key /\ cmd.conf = 0
      BY <1>1, RowTyped DEF LinkThread, LinkPcs, NoCommand
    <2>2. BeginCommand(c, cmd)
      BY <1>6
    <2> HIDE DEF cmd
    <2> QED
      BY <2>1, <2>2
  <1>10. ThreadOK(cmd)
    <2>1. nodes[n].state \in Saved
      BY <1>1, <1>5 DEF LinkInv, ShapeOK, RowsOK, NodeOf
    <2> QED
      BY <1>9, <2>1 DEF ThreadOK, Joining, Leaving
  <1>11. cmd.row <= Len(links) /\ cmd.node <= Len(nodes) /\ cmd.conf <= Len(nodes)
    BY <1>1, <1>9 DEF Rows
  <1>12. /\ cmd.pc \in {"create", "resync", "rekey", "post", "unlink"}
         /\ cmd.pc \in {"rekey", "post"} => links[cmd.row].there /\ links[cmd.row].node = 0
         /\ cmd.pc = "post" => links'[cmd.row].key = cmd.key
         /\ cmd.pc = "unlink" => /\ links[cmd.row].there /\ links[cmd.row].node = cmd.node
                                 /\ links[cmd.row].key = cmd.key
         /\ cmd.pc = "resync" => /\ links[cmd.row].there /\ links[cmd.row].node # 0
                                 /\ cmd.conf = ini /\ ini \in {0, links[cmd.row].node}
    BY <1>5, <1>9
  <1>13. BeginCommand(c, cmd) /\ ini' = ini /\ broken' = broken
    BY <1>6, <1>9
  <1> QED
    BY <1>8, <1>10, <1>11, <1>12, <1>13, BeginKeeps

-----------------------------------------------------------------------------
(* The invariant *)

\* The invariant holds in the beginning.
LEMMA LinkInitInv == LinkInit => LinkInv
  <1> SUFFICES ASSUME LinkInit PROVE LinkInv
    OBVIOUS
  <1>1. links = << >> /\ nodes = << >> /\ ini = 0 /\ runs = 0 /\ broken = 0 /\ overlaps = 0
    BY DEF LinkInit
  <1>2. Rows = {} /\ NodeIds = {} /\ Len(links) = 0 /\ Len(nodes) = 0
    BY <1>1 DEF Rows, NodeIds
  <1>3. NoCommand \in LinkThread /\ NoCommand.pc = "idle" /\ ~NoCommand.alone
        /\ NoCommand.row = 0 /\ NoCommand.node = 0 /\ NoCommand.conf = 0
    BY DEF NoCommand, LinkThread, LinkPcs
  <1>4. command \in [Terminals -> LinkThread] /\ \A c \in Terminals : command[c] = NoCommand
    BY <1>3 DEF LinkInit
  <1>5. LinkTyped
    <2>1. links \in Seq(LinkRow) /\ nodes \in Seq(LinkNode)
      BY <1>1
    <2>2. \A c \in Terminals : command[c].row <= 0 /\ command[c].node <= 0 /\ command[c].conf <= 0
      BY <1>3, <1>4
    <2>3. 0 <= MaxLinkRows /\ 0 <= MaxNodes /\ 0 \in 0..MaxCommands /\ 0 \in 0..MaxBroken /\ 0 \in 0..0
      OBVIOUS
    <2> QED
      BY <1>1, <1>2, <1>4, <2>1, <2>2, <2>3 DEF LinkTyped
  <1>6. ShapeOK
    BY <1>2, <1>3, <1>4 DEF ShapeOK, RowsOK, NodesOK, ThreadOK, Joining, Leaving
  <1>7. AloneOK
    BY <1>3, <1>4 DEF AloneOK
  <1>8. Clean
    BY <1>2, <1>3, <1>4 DEF Clean, Doing
  <1>9. BlameOK
    <2>1. Blamed({})
      BY <1>2, <1>3, <1>4 DEF Blamed, Settled, NodesBlamed, RowsBlamed, ThreadBlamed, Joining, Leaving
    <2>2. Pending = {}
      BY <1>3, <1>4 DEF Pending
    <2>3. IsFiniteSet({}) /\ Cardinality({}) = 0
      BY FS_EmptySet
    <2>4. Accounts({})
      BY <1>1, <2>2, <2>3 DEF Accounts
    <2> QED
      BY <2>1, <2>4 DEF BlameOK
  <1> QED
    BY <1>5, <1>6, <1>7, <1>8, <1>9 DEF LinkInv

\* Every step keeps the invariant.
LEMMA LinkStepInv == LinkInv /\ [LinkNext]_linkVars => LinkInv'
  <1> SUFFICES ASSUME LinkInv, [LinkNext]_linkVars PROVE LinkInv'
    OBVIOUS
  <1>1. ASSUME NEW c \in Terminals, NEW key \in AccessKeys, Lookup(c, key) PROVE LinkInv'
    BY <1>1, LookupKeeps
  <1>2. ASSUME NEW c \in Terminals, NEW n \in NodeIds, Unlink(c, n) PROVE LinkInv'
    BY <1>2, UnlinkKeeps
  <1>3. ASSUME NEW c \in Terminals, Resync(c) PROVE LinkInv'
    BY <1>3, ResyncKeeps
  <1>4. ASSUME NEW c \in Terminals, Rekey(c) PROVE LinkInv'
    BY <1>4, RekeyKeeps
  <1>5. ASSUME NEW c \in Terminals, Create(c) PROVE LinkInv'
    BY <1>5, CreateKeeps
  <1>6. ASSUME NEW c \in Terminals, Post(c) PROVE LinkInv'
    BY <1>6, PostKeeps
  <1>7. ASSUME NEW c \in Terminals, GiveUp(c) PROVE LinkInv'
    BY <1>7, GiveUpKeeps
  <1>8. ASSUME NEW c \in Terminals, Answer(c) PROVE LinkInv'
    BY <1>8, AnswerKeeps
  <1>9. ASSUME NEW c \in Terminals, Link(c) PROVE LinkInv'
    BY <1>9, LinkKeeps
  <1>10. ASSUME NEW c \in Terminals, Fail(c) PROVE LinkInv'
    BY <1>10, FailKeeps
  <1>11. ASSUME NEW c \in Terminals, DeleteNode(c) PROVE LinkInv'
    BY <1>11, DeleteNodeKeeps
  <1>12. ASSUME NEW c \in Terminals, Unlinked(c) PROVE LinkInv'
    BY <1>12, UnlinkedKeeps
  <1>13. ASSUME NEW c \in Terminals, Restore(c) PROVE LinkInv'
    BY <1>13, RestoreKeeps
  <1>14. ASSUME NEW n \in NodeIds, SaveFind(n) \/ SaveExists(n) \/ SaveUpdate(n) PROVE LinkInv'
    BY <1>14, SaveFindKeeps, SaveExistsKeeps, SaveUpdateKeeps
  <1>15. CASE UNCHANGED linkVars
    <2>1. /\ links' = links /\ nodes' = nodes /\ command' = command
          /\ ini' = ini /\ runs' = runs /\ broken' = broken /\ overlaps' = overlaps
          /\ Rows' = Rows /\ NodeIds' = NodeIds
      BY <1>15 DEF linkVars, Rows, NodeIds
    <2>2. LinkTyped'
      BY <2>1 DEF LinkInv, LinkTyped
    <2>3. ShapeOK'
      BY <2>1 DEF LinkInv, ShapeOK, RowsOK, NodesOK, ThreadOK, NodeOf
    <2>4. AloneOK'
      BY <2>1 DEF LinkInv, AloneOK, AloneThread, WaitOK, Calling, Taken, There, Doing, NodeOf
    <2>5. Clean'
      BY <2>1 DEF LinkInv, Clean, Doing, NodeOf
    <2>6. \A C \in SUBSET NodeIds : Blamed(C) => Blamed(C)'
      BY <2>1 DEF Blamed, Settled, NodesBlamed, RowsBlamed, ThreadBlamed, Good, HasRow, Young, Alive, Doing, NodeOf
    <2>7. BlameOK'
      BY <2>1, <2>6 DEF LinkInv, BlameOK, Accounts, Pending
    <2> QED
      BY <2>2, <2>3, <2>4, <2>5, <2>7 DEF LinkInv
  <1> QED
    BY <1>1, <1>2, <1>3, <1>4, <1>5, <1>6, <1>7, <1>8, <1>9, <1>10, <1>11, <1>12, <1>13, <1>14, <1>15
    DEF LinkNext

\* The invariant holds always.
LEMMA LinkInvariant == LinkSpec => []LinkInv
  BY LinkInitInv, LinkStepInv, PTL DEF LinkSpec

\* A node that is on one side only is to blame.
LEMMA InvAgree == LinkInv => BothSidesAgree
  <1> SUFFICES ASSUME LinkInv, AllQuiet
               PROVE  Cardinality(Strays) + Cardinality(Dangling) <= broken + 2 * overlaps
    BY DEF BothSidesAgree
  <1>1. PICK C \in SUBSET NodeIds : Blamed(C) /\ Accounts(C)
    BY DEF LinkInv, BlameOK
  <1>2. LinkTyped /\ broken \in Nat /\ overlaps \in Nat
    BY DEF LinkInv, LinkTyped
  <1>3. ASSUME NEW n \in NodeIds, ~Good(n) PROVE n \in C
    BY <1>1, <1>3 DEF AllQuiet, Young, Doing, Blamed, Settled
  <1>4. Strays \in SUBSET C
    BY <1>3 DEF Strays, Good, HasRow, There, NodeOf
  <1>5. ASSUME NEW i \in Dangling PROVE i \in Rows /\ links[i].node # 0 /\ links[i].node \in C \ Strays
    <2>1. i \in Rows /\ links[i].there /\ links[i].node # 0 /\ ~Alive(links[i].node)
      BY DEF Dangling, There
    <2>2. links[i].node \in NodeIds
      BY <2>1 DEF LinkInv, ShapeOK, RowsOK, NodeOf
    <2>3. ~Good(links[i].node)
      BY <2>1 DEF Good, HasRow, NodeOf
    <2>4. links[i].node \notin Strays
      BY <2>1 DEF Strays
    <2> QED
      BY <1>3, <2>1, <2>2, <2>3, <2>4
  <1> DEFINE f == [i \in Dangling |-> links[i].node]
  <1>6. f \in [Dangling -> C \ Strays]
    BY <1>5
  <1>7. \A i, j \in Dangling : f[i] = f[j] => i = j
    BY <1>5 DEF LinkInv, ShapeOK, RowsOK, NodeOf
  <1> HIDE DEF f
  <1>8. f \in Injection(Dangling, C \ Strays)
    BY <1>6, <1>7 DEF Injection, IsInjective
  <1>9. IsFiniteSet(C) /\ Cardinality(C) \in Nat
    BY <1>2, BlameFinite
  <1>10. /\ IsFiniteSet(C \ Strays) /\ IsFiniteSet(Strays) /\ C \cap Strays = Strays
    BY <1>4, <1>9, FS_Subset
  <1>11. Cardinality(C \ Strays) = Cardinality(C) - Cardinality(Strays)
    BY <1>9, <1>10, FS_Difference
  <1>12. IsFiniteSet(Dangling) /\ Cardinality(Dangling) <= Cardinality(C \ Strays)
    BY <1>8, <1>10, FS_Injection
  <1>13. /\ Cardinality(Dangling) \in Nat /\ Cardinality(Strays) \in Nat /\ Cardinality(Pending) \in Nat
    BY <1>1, <1>10, <1>12, FS_CardinalityType DEF Accounts
  <1>14. Cardinality(C) + Cardinality(Pending) <= broken + 2 * overlaps
    BY <1>1 DEF Accounts
  <1>15. Cardinality(Strays) + Cardinality(Dangling) <= Cardinality(C)
    BY <1>9, <1>11, <1>12, <1>13
  <1> QED
    BY <1>2, <1>9, <1>13, <1>14, <1>15

\* Which step ends a command.
LEMMA EndsIs ==
  ASSUME LinkTyped, LinkNext, NEW c \in Terminals,
         command[c].pc \in {"link", "resync", "fail", "rekey", "unlinked"}, command'[c].pc = "idle"
  PROVE  Link(c) \/ Resync(c) \/ Fail(c) \/ Rekey(c) \/ Unlinked(c)
  <1>1. \A e \in Terminals : command[e].pc \in LinkPcs /\ command \in [Terminals -> LinkThread]
    BY ThreadTyped DEF LinkTyped
  <1>2. ASSUME NEW e \in Terminals, NEW cmd, BeginCommand(e, cmd) PROVE FALSE
    <2>1. e # c
      BY <1>2 DEF BeginCommand, Doing
    <2>2. command'[c].pc = command[c].pc
      BY <1>1, <1>2, <2>1 DEF BeginCommand, Disturbed, LinkThread
    <2> QED
      BY <2>2
  <1>3. ASSUME NEW e \in Terminals, NEW key \in AccessKeys, Lookup(e, key) PROVE FALSE
    BY <1>2, <1>3 DEF Lookup
  <1>4. ASSUME NEW e \in Terminals, NEW n \in NodeIds, Unlink(e, n) PROVE FALSE
    BY <1>2, <1>4 DEF Unlink
  <1>5. ASSUME NEW e \in Terminals, Resync(e) \/ Rekey(e) \/ Link(e) \/ Fail(e) \/ Unlinked(e)
        PROVE  e = c
    BY <1>1, <1>5 DEF Resync, Rekey, Link, Fail, Unlinked, Step
  <1>6. ASSUME NEW e \in Terminals, Create(e) \/ Post(e) \/ GiveUp(e) \/ Answer(e) \/ DeleteNode(e) \/ Restore(e)
        PROVE  FALSE
    <2>1. e # c
      BY <1>6 DEF Create, Post, GiveUp, Answer, DeleteNode, Restore, Doing
    <2>2. command'[c] = command[c]
      BY <1>1, <1>6, <2>1 DEF Create, Post, GiveUp, Answer, DeleteNode, Restore, Step
    <2> QED
      BY <2>2
  <1>7. ASSUME NEW n \in NodeIds, SaveFind(n) \/ SaveExists(n) \/ SaveUpdate(n) PROVE FALSE
    BY <1>7 DEF SaveFind, SaveExists, SaveUpdate
  <1> QED
    BY <1>3, <1>4, <1>5, <1>6, <1>7 DEF LinkNext

\* Nobody is to blame yet.
LEMMA NoneBlamed ==
  ASSUME LinkInv, overlaps = 0, broken = 0, NEW n \in NodeIds, \A c \in Terminals : command[c].pc # "wait"
  PROVE  Good(n)
  <1>1. PICK C \in SUBSET NodeIds : Blamed(C) /\ Accounts(C)
    BY DEF LinkInv, BlameOK
  <1>2. Cardinality(C) \in Nat /\ IsFiniteSet(C)
    BY BlameFinite DEF LinkInv
  <1>3. Cardinality(Pending) \in Nat /\ Cardinality(C) + Cardinality(Pending) <= 0
    BY <1>1, FS_CardinalityType DEF Accounts
  <1>4. Cardinality(C) = 0
    BY <1>2, <1>3
  <1>5. C = {}
    BY <1>2, <1>4, FS_EmptySet
  <1> QED
    BY <1>1, <1>5 DEF Blamed, Settled, Young, Doing

\* A connect that nothing disturbed ends linked.
LEMMA StepConnect ==
  ASSUME LinkInv, LinkNext, NEW c \in Terminals
  PROVE  ConnectAlone(c)
  <1> SUFFICES ASSUME command[c].pc \in {"link", "resync", "fail", "rekey"}, command'[c].pc = "idle",
                      overlaps = 0, broken = 0
               PROVE  /\ ini' # 0 /\ Alive(ini')
                      /\ \E i \in Rows : links'[i].there /\ links'[i].node = ini'
    BY DEF ConnectAlone
  <1>1. /\ command[c].alone /\ command[c].pc \notin {"rekey", "fail"}
        /\ links[command[c].row].there /\ NodeOf(command[c].row) # 0
        /\ command[c].pc = "resync" => ini = command[c].conf /\ command[c].conf \in {0, NodeOf(command[c].row)}
    BY DEF LinkInv, Clean, Doing
  <1>2. PICK r \in Rows : r = command[c].row
    BY <1>1 DEF LinkInv, ShapeOK, ThreadOK
  <1>3. Link(c) \/ Resync(c)
    <2>1. Link(c) \/ Resync(c) \/ Fail(c) \/ Rekey(c) \/ Unlinked(c)
      BY EndsIs DEF LinkInv
    <2> QED
      BY <1>1, <2>1 DEF Fail, Rekey, Unlinked, Doing
  <1>4. ini' = links[r].node /\ links' = links
    <2>1. CASE Link(c)
      BY <1>2, <2>1 DEF Link
    <2>2. CASE Resync(c)
      <3>1. command[c].pc = "resync"
        BY <2>2 DEF Resync, Doing
      <3>2. ini = command[c].conf /\ command[c].conf \in {0, links[r].node}
        BY <1>1, <1>2, <3>1 DEF NodeOf
      <3> QED
        BY <1>2, <2>2, <3>2 DEF Resync
    <2> QED
      BY <1>3, <2>1, <2>2
  <1>5. links[r].there /\ links[r].node # 0 /\ links[r].node \in NodeIds
    BY <1>1, <1>2 DEF LinkInv, ShapeOK, RowsOK, NodeOf
  <1>6. \A e \in Terminals : command[e].pc # "wait"
    BY <1>1 DEF LinkInv, AloneOK, AloneThread, Doing
  <1>7. Good(links[r].node)
    BY <1>5, <1>6, NoneBlamed
  <1>8. Alive(links[r].node)
    BY <1>5, <1>7 DEF Good, HasRow, NodeOf
  <1> QED
    BY <1>4, <1>5, <1>8

\* A deletion that nothing disturbed ends with both sides gone.
LEMMA StepDelete ==
  ASSUME LinkInv, LinkNext, NEW c \in Terminals
  PROVE  DeleteAlone(c)
  <1> SUFFICES ASSUME command[c].pc = "unlinked", command'[c].pc = "idle", command[c].alone
               PROVE  /\ ini' = 0 /\ ~Alive(command[c].node)
                      /\ ~\E i \in Rows : links'[i].there /\ links'[i].node = command[c].node
    BY DEF DeleteAlone
  <1>1. LinkTyped /\ command[c].row \in Rows /\ command[c].node \in NodeIds
        /\ nodes[command[c].node].state = "deleted"
    BY DEF LinkInv, ShapeOK, ThreadOK, Leaving
  <1>2. PICK r \in Rows, n \in NodeIds : r = command[c].row /\ n = command[c].node
    BY <1>1
  <1>3. Unlinked(c)
    <2>1. Link(c) \/ Resync(c) \/ Fail(c) \/ Rekey(c) \/ Unlinked(c)
      BY <1>1, EndsIs
    <2> QED
      BY <2>1 DEF Link, Resync, Fail, Rekey, Doing
  <1>4. ini' = 0 /\ links' = [links EXCEPT ![r].there = FALSE]
    BY <1>2, <1>3 DEF Unlinked
  <1>5. RowMoves(r, FALSE, links[r].key, links[r].node)
    <2> DEFINE e == [links[r] EXCEPT !.there = FALSE]
    <2>1. e \in LinkRow /\ e.there = FALSE /\ e.key = links[r].key /\ e.node = links[r].node
      BY <1>1, RowTyped DEF LinkRow
    <2>2. links' = [links EXCEPT ![r] = e]
      BY <1>4
    <2> HIDE DEF e
    <2> QED
      BY <1>1, <2>1, <2>2, RowSet
  <1>6. links[r].node = n /\ n # 0
    BY <1>1, <1>2, NodeTyped DEF LinkInv, AloneOK, AloneThread, Leaving, NodeOf
  <1>7. ASSUME NEW i \in Rows, links'[i].there, links'[i].node = n PROVE FALSE
    <2>1. i # r /\ links[i].node = n
      BY <1>5, <1>7 DEF RowMoves, SameRow
    <2> QED
      BY <1>6, <2>1 DEF LinkInv, ShapeOK, RowsOK, NodeOf
  <1>8. ~Alive(n)
    BY <1>1, <1>2 DEF Alive
  <1> QED
    BY <1>2, <1>4, <1>7, <1>8

\* The invariant implies the type invariant.
LEMMA InvTypes == LinkInv => LinkTypeOK
  <1> SUFFICES ASSUME LinkInv PROVE LinkTypeOK
    OBVIOUS
  <1>1. LinkTyped /\ Len(links) \in Nat /\ Len(nodes) \in Nat
    BY LenProperties DEF LinkInv, LinkTyped
  <1> DEFINE R == 0..Len(links)
             N == 0..Len(nodes)
             T == [state: {"sent", "found", "free", "saved", "refused", "dropped", "deleted"},
                    key: AccessKeys, back: BOOLEAN, row: R]
  <1>2. nodes \in Seq(T)
    <2>1. ASSUME NEW n \in 1..Len(nodes) PROVE nodes[n] \in T
      <3>1. nodes[n] \in LinkNode
        BY <1>1, <2>1, NodeTyped DEF NodeIds
      <3>2. nodes[n].row \in R
        BY <1>1, <2>1, NodeTyped DEF LinkTyped, NodeIds
      <3> HIDE DEF R
      <3> QED
        BY <3>1, <3>2 DEF LinkNode
    <2>2. DOMAIN nodes = 1..Len(nodes) /\ nodes \in [1..Len(nodes) -> LinkNode]
      BY <1>1, LenProperties DEF LinkTyped
    <2>3. nodes \in [1..Len(nodes) -> T]
      BY <2>1, <2>2
    <2> HIDE DEF T
    <2> QED
      BY <1>1, <2>3, SeqDef
  <1>3. command \in [Terminals -> [pc: LinkPcs, key: AccessKeys \cup {0}, row: R, node: N, conf: N, alone: BOOLEAN]]
    <2>1. ASSUME NEW c \in Terminals
          PROVE  command[c] \in [pc: LinkPcs, key: AccessKeys \cup {0}, row: R, node: N, conf: N, alone: BOOLEAN]
      <3>1. command[c].row \in R /\ command[c].node \in N /\ command[c].conf \in N
        BY <1>1, ThreadTyped
      <3>2. command[c] \in LinkThread
        BY <1>1, ThreadTyped
      <3> HIDE DEF R, N
      <3> QED
        BY <3>1, <3>2 DEF LinkThread
    <2>2. command \in [Terminals -> LinkThread]
      BY <1>1 DEF LinkTyped
    <2> HIDE DEF R, N
    <2> QED
      BY <2>1, <2>2
  <1>4. overlaps \in 0..MaxCommands /\ ini \in 0..Len(nodes) /\ runs \in 0..MaxCommands /\ broken \in 0..MaxBroken
    BY <1>1 DEF LinkTyped
  <1>5. links \in Seq([there: BOOLEAN, key: AccessKeys \cup {0}, node: Nat])
    BY <1>1 DEF LinkTyped, LinkRow
  <1>6. Len(links) <= MaxLinkRows /\ Len(nodes) <= MaxNodes
    BY <1>1 DEF LinkTyped
  <1> QED
    BY <1>2, <1>3, <1>4, <1>5, <1>6 DEF LinkTypeOK, LinkPcs

\* The rows, nodes and commands have their types, and name rows and nodes
\* that are there (ops/spv/connect.py).
THEOREM LinkTypes == LinkSpec => []LinkTypeOK
  BY LinkInvariant, InvTypes, PTL

\* When everything is quiet, there are at most as many nodes without a row and
\* rows without a node as failures, and two for every command that met another
\* or a taken key (connect_supervisor, delete_supervisor and save_supervisor).
THEOREM SidesAgree == LinkSpec => []BothSidesAgree
  BY LinkInvariant, InvAgree, PTL

\* A connect or delete that meets no failure and no other command does what it
\* was run for (connect_supervisor and delete_supervisor).
THEOREM CommandsWork == LinkSpec => CommandAlone
  <1>1. LinkInv /\ [LinkNext]_linkVars => [\A c \in Terminals : ConnectAlone(c) /\ DeleteAlone(c)]_linkVars
    BY StepConnect, StepDelete
  <1> QED
    BY <1>1, LinkInvariant, PTL DEF LinkSpec, CommandAlone

=============================================================================
