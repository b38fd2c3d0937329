------------------------------ MODULE NodeStore ------------------------------
(***************************************************************************)
(* The node database, pkg/connector/meshdb/mesh_node.go, and the           *)
(* goroutines that work on its rows: UpdateGhostMeshNames and the key      *)
(* accessors in handle_matrix.go, Connect in client.go, handleMeshNodeInfo,*)
(* handleMapReport and sendNodeInfo in handle_meshtastic.go, and the       *)
(* periodic node info of background_tasks.go.  Each of them reads a row    *)
(* into a struct, changes the struct and writes back every column, without *)
(* a transaction; only SetLastSeen is a single statement.                  *)
(*                                                                         *)
(* A row is reduced to its keys, to is_managed and to whether last_seen is *)
(* set.  Generated key pairs are numbered: the halves of a pair carry the  *)
(* same number, and 0 is no key.  The packets of local nodes never reach   *)
(* the handlers (PacketIntake).  The row of the bridge's own node is left  *)
(* out: no code creates it.                                                *)
(***************************************************************************)
EXTENDS Integers

CONSTANTS
    Local,           \* nodes of Matrix users
    Remote,          \* nodes heard on the mesh
    RemoteKeys,      \* public keys their node infos carry
    NoRow,           \* QueryOne found nothing
    Actors,          \* goroutines
    NoNode,
    MaxCalls,        \* bound: operations begun
    MaxRestarts      \* bound: restarts of the bridge

Nodes == Local \cup Remote

ASSUME NodesAssumption == Local \cap Remote = {} /\ NoNode \notin Nodes
ASSUME KeysAssumption == RemoteKeys \cap Int = {}
ASSUME NoRowAssumption ==
    NoRow \notin [pub : Int \cup RemoteKeys, priv : Int, managed : BOOLEAN, seen : BOOLEAN]
ASSUME BoundsAssumption == MaxCalls \in Nat /\ MaxRestarts \in Nat

VARIABLES
    row,             \* the row of each node, or NoRow
    op, node, pc,    \* what each actor does, for which node, and where it is
    evtKey, to,      \* of a packet: the key in it, and the local node it wants an answer from
    copy,            \* the struct it read, or NoRow
    keys,            \* key pairs generated so far
    told,            \* the public key that peers last got from the bridge for a node
    heard,           \* the key in the node info last stored for a node
    named,           \* local nodes whose names were set (a login needs it)
    calls, restarts,
    overlapped,      \* nodes two writers were under way for at once
    blind,           \* nodes whose row a handler could not read and replaced
    seenFirst        \* local nodes whose row was there before their names

actor   == <<op, node, pc, evtKey, to, copy>>
bounds  == <<calls, restarts>>
history == <<overlapped, blind, seenFirst>>
vars    == <<row, actor, keys, told, heard, named, bounds, history>>

NewRow == [pub |-> 0, priv |-> 0, managed |-> FALSE, seen |-> FALSE]

Handlers == {"nodeinfo", "mapreport"}
Writers == {"names", "connect"} \cup Handlers
Ops(n) == IF n \in Local
          THEN {"names", "connect", "pubkey", "privkey", "command", "periodic"}
          ELSE {"nodeinfo", "mapreport", "pubkey"}
AllOps == {"names", "connect", "pubkey", "privkey", "command", "periodic", "nodeinfo", "mapreport"}

Init ==
    /\ row = [n \in Nodes |-> NoRow]
    /\ op = [a \in Actors |-> "idle"]
    /\ node = [a \in Actors |-> NoNode]
    /\ evtKey = [a \in Actors |-> 0]
    /\ to = [a \in Actors |-> NoNode]
    /\ pc = [a \in Actors |-> "idle"]
    /\ copy = [a \in Actors |-> NoRow]
    /\ keys = 0
    /\ told = [n \in Nodes |-> 0]
    /\ heard = [n \in Nodes |-> 0]
    /\ named = {}
    /\ calls = 0 /\ restarts = 0
    /\ overlapped = {} /\ blind = {} /\ seenFirst = {}

-----------------------------------------------------------------------------
Set(f, x, v) == f' = [f EXCEPT ![x] = v]
Reads(a, o) == pc[a] = "read" /\ op[a] = o
Found(a) == row[node[a]] # NoRow
Writing(a, n) == node[a] = n /\ op[a] \in Writers /\ pc[a] \notin {"idle", "send"}

(* The struct is changed and will be written.                              *)
Hold(a, r) ==
    /\ Set(copy, a, r)
    /\ Set(pc, a, "write")
    /\ UNCHANGED <<op, node, evtKey, to>>

(* The goroutine's call returns.                                           *)
Finish(a) ==
    /\ Set(op, a, "idle") /\ Set(node, a, NoNode) /\ Set(pc, a, "idle")
    /\ Set(evtKey, a, 0) /\ Set(to, a, NoNode) /\ Set(copy, a, NoRow)

(* A command or login, the start of a login's client, a message to a node, *)
(* a request for a key, a command that sends node info, the periodic task, *)
(* or a packet from the mesh.                                              *)
Begin(a, n, o, k, t) ==
    /\ pc[a] = "idle"
    /\ calls < MaxCalls
    /\ o \in Ops(n)
    /\ o = "connect" => n \in named
    /\ k # 0 => o = "nodeinfo"
    /\ t # NoNode => o \in Handlers
    /\ calls' = calls + 1
    /\ Set(op, a, o) /\ Set(node, a, n) /\ Set(evtKey, a, k) /\ Set(to, a, t)
    /\ Set(pc, a, IF o \in Handlers THEN "asked" ELSE "read")
    /\ overlapped' = IF o \in Writers /\ \E b \in Actors : Writing(b, n)
                     THEN overlapped \cup {n} ELSE overlapped
    /\ UNCHANGED <<row, copy, keys, told, heard, named, restarts, blind, seenFirst>>

(* The call returns early: a query that it does not go on without fails,   *)
(* the bridge has no authority over the node, or its last_seen is too old  *)
(* for the periodic task.  A key accessor that finds no row panics, with   *)
(* the same effect on the database.                                        *)
QueryFails(a) ==
    /\ pc[a] = IF op[a] \in Handlers THEN "asked" ELSE "read"
    /\ Finish(a)
    /\ UNCHANGED <<row, keys, told, heard, named, bounds, history>>

-----------------------------------------------------------------------------
(* Key pairs.                                                              *)
WithPair(r, k) == [r EXCEPT !.pub = k, !.priv = k]

Generate(a, r) ==
    /\ keys' = keys + 1
    /\ Hold(a, WithPair(r, keys + 1))

(* History: the row was there, unmarked, before the names.                 *)
NotesRow(a) ==
    seenFirst' = IF Found(a) /\ ~row[node[a]].managed
                 THEN seenFirst \cup {node[a]} ELSE seenFirst

(* Variant: the public half is not stored.                                 *)
UpdateGhostMeshNamesHalf(a) ==
    /\ Reads(a, "names")
    /\ LET r == IF Found(a) THEN row[node[a]] ELSE [NewRow EXCEPT !.managed = TRUE]
       IN  IF r.priv = 0 THEN keys' = keys + 1 /\ Hold(a, [r EXCEPT !.priv = keys + 1])
                         ELSE Hold(a, r) /\ UNCHANGED keys
    /\ NotesRow(a)
    /\ UNCHANGED <<row, told, heard, named, bounds, overlapped, blind>>

(* Variant: only a row that was there gets keys.                           *)
UpdateGhostMeshNamesLate(a) ==
    /\ Reads(a, "names")
    /\ IF Found(a)
       THEN Generate(a, row[node[a]])
       ELSE Hold(a, [NewRow EXCEPT !.managed = TRUE]) /\ UNCHANGED keys
    /\ NotesRow(a)
    /\ UNCHANGED <<row, told, heard, named, bounds, overlapped, blind>>

(* Variant: new names come with new keys.                                  *)
UpdateGhostMeshNamesRekeying(a) ==
    /\ Reads(a, "names")
    /\ Generate(a, IF Found(a) THEN row[node[a]] ELSE [NewRow EXCEPT !.managed = TRUE])
    /\ NotesRow(a)
    /\ UNCHANGED <<row, told, heard, named, bounds, overlapped, blind>>

(* Variant: the new row is not marked.                                     *)
UpdateGhostMeshNamesUnmarked(a) ==
    /\ Reads(a, "names")
    /\ LET r == IF Found(a) THEN row[node[a]] ELSE NewRow
       IN  IF r.priv = 0 THEN Generate(a, r) ELSE Hold(a, r) /\ UNCHANGED keys
    /\ NotesRow(a)
    /\ UNCHANGED <<row, told, heard, named, bounds, overlapped, blind>>

(* Only a new row is marked as managed; a row without private key gets a   *)
(* pair.                                                                   *)
UpdateGhostMeshNames(a) ==
    /\ Reads(a, "names")
    /\ LET r == IF Found(a) THEN row[node[a]] ELSE [NewRow EXCEPT !.managed = TRUE]
       IN  IF r.priv = 0 THEN Generate(a, r) ELSE Hold(a, r) /\ UNCHANGED keys
    /\ NotesRow(a)
    /\ UNCHANGED <<row, told, heard, named, bounds, overlapped, blind>>

(* The client of a login refuses to start without a row.                   *)
Connect(a) ==
    /\ Reads(a, "connect")
    /\ IF Found(a) /\ row[node[a]].priv = 0
       THEN Generate(a, row[node[a]])
       ELSE Finish(a) /\ UNCHANGED keys
    /\ UNCHANGED <<row, told, heard, named, bounds, history>>

getGhostPublicKey(a) ==
    /\ Reads(a, "pubkey") /\ Found(a)
    /\ LET r == row[node[a]]
       IN  IF r.pub = 0 /\ r.managed
           THEN Generate(a, r) /\ UNCHANGED told
           ELSE /\ told' = IF r.pub # 0 THEN [told EXCEPT ![node[a]] = r.pub] ELSE told
                /\ Finish(a) /\ UNCHANGED keys
    /\ UNCHANGED <<row, heard, named, bounds, history>>

(* The private key stays inside the bridge.                                *)
getGhostPrivateKey(a) ==
    /\ Reads(a, "privkey") /\ Found(a)
    /\ LET r == row[node[a]]
       IN  IF r.priv = 0 /\ r.managed
           THEN Generate(a, r)
           ELSE Finish(a) /\ UNCHANGED keys
    /\ UNCHANGED <<row, told, heard, named, bounds, history>>

-----------------------------------------------------------------------------
(* A node info or map report.  A local node that the packet wants an       *)
(* answer from is announced to the sender first; sendNodeInfo reads its    *)
(* row, or gives up.                                                       *)
AnswerRequest(a) ==
    /\ pc[a] = "asked"
    /\ \/ /\ to[a] # NoNode
          /\ Set(copy, a, IF row[to[a]] # NoRow THEN row[to[a]] ELSE NewRow)
          /\ Set(pc, a, "answer")
       \/ /\ Set(pc, a, "read")
          /\ UNCHANGED copy
    /\ UNCHANGED <<row, op, node, evtKey, to, keys, told, heard, named, bounds, history>>

SendAnswer(a) ==
    /\ pc[a] = "answer"
    /\ \/ Set(told, to[a], copy[a].pub)
       \/ UNCHANGED told
    /\ Set(pc, a, "read")
    /\ Set(copy, a, NoRow)
    /\ UNCHANGED <<row, op, node, evtKey, to, keys, heard, named, bounds, history>>

(* A row that is missing, or could not be read, starts afresh.             *)
ReadOrNew(a, ok) == IF ok /\ Found(a) THEN row[node[a]] ELSE NewRow

(* Variant: the key of the packet is taken for the node's private key.     *)
handleMeshNodeInfoSwapped(a) ==
    /\ Reads(a, "nodeinfo")
    /\ \E ok \in BOOLEAN :
          /\ Hold(a, [ReadOrNew(a, ok) EXCEPT !.priv = evtKey[a], !.seen = TRUE])
          /\ blind' = IF ok THEN blind ELSE blind \cup {node[a]}
    /\ UNCHANGED <<row, keys, told, heard, named, bounds, overlapped, seenFirst>>

(* The row of the sender gets the key in the packet.                       *)
handleMeshNodeInfo(a) ==
    /\ Reads(a, "nodeinfo")
    /\ \E ok \in BOOLEAN :
          /\ Hold(a, [ReadOrNew(a, ok) EXCEPT !.pub = evtKey[a], !.seen = TRUE])
          /\ blind' = IF ok THEN blind ELSE blind \cup {node[a]}
    /\ UNCHANGED <<row, keys, told, heard, named, bounds, overlapped, seenFirst>>

(* Variant: the report is written like a node info without a key.          *)
handleMapReportPlain(a) ==
    /\ Reads(a, "mapreport")
    /\ \E ok \in BOOLEAN :
          /\ Hold(a, [ReadOrNew(a, ok) EXCEPT !.pub = evtKey[a], !.seen = TRUE])
          /\ blind' = IF ok THEN blind ELSE blind \cup {node[a]}
    /\ UNCHANGED <<row, keys, told, heard, named, bounds, overlapped, seenFirst>>

(* A map report carries no key.                                            *)
handleMapReport(a) ==
    /\ Reads(a, "mapreport")
    /\ \E ok \in BOOLEAN :
          /\ Hold(a, [ReadOrNew(a, ok) EXCEPT !.seen = TRUE])
          /\ blind' = IF ok THEN blind ELSE blind \cup {node[a]}
    /\ UNCHANGED <<row, keys, told, heard, named, bounds, overlapped, seenFirst>>

(* Every column is written from the struct.  The names go out next, with   *)
(* the key in the struct; a pair that getGhostPublicKey generated is       *)
(* returned.                                                               *)
SetAll(a) ==
    LET n == node[a]
    IN  /\ pc[a] = "write"
        /\ Set(row, n, copy[a])
        /\ heard' = IF op[a] = "nodeinfo" THEN [heard EXCEPT ![n] = copy[a].pub] ELSE heard
        /\ named' = IF op[a] = "names" THEN named \cup {n} ELSE named
        /\ IF op[a] \in {"names", "pubkey"}
           THEN Set(pc, a, "send") /\ UNCHANGED <<op, node, evtKey, to, copy>>
           ELSE Finish(a)
        /\ UNCHANGED <<keys, told, bounds, history>>

SetAllFails(a) ==
    /\ pc[a] = "write"
    /\ Finish(a)
    /\ UNCHANGED <<row, keys, told, heard, named, bounds, history>>

(* One upsert; a new row has the defaults of the schema.                   *)
SetLastSeen(n) ==
    /\ row' = [row EXCEPT ![n] = [IF @ = NoRow THEN NewRow ELSE @ EXCEPT !.seen = TRUE]]
    /\ UNCHANGED <<actor, keys, told, heard, named, bounds, history>>

-----------------------------------------------------------------------------
(* A node info sent on a user's command carries the key in the row, if any.*)
sendNodeInfo(a) ==
    /\ Reads(a, "command")
    /\ Set(copy, a, IF Found(a) THEN row[node[a]] ELSE NewRow)
    /\ Set(pc, a, "send")
    /\ UNCHANGED <<op, node, evtKey, to>>
    /\ UNCHANGED <<row, keys, told, heard, named, bounds, history>>

(* doForAllManagedGhosts reads the rows; each is used up to five minutes   *)
(* later, unless the tasks were cancelled.                                 *)
doForAllManagedGhosts(a) ==
    /\ Reads(a, "periodic")
    /\ IF Found(a) /\ row[node[a]].managed /\ row[node[a]].seen
       THEN /\ Set(copy, a, row[node[a]])
            /\ Set(pc, a, "send")
            /\ UNCHANGED <<op, node, evtKey, to>>
       ELSE Finish(a)
    /\ UNCHANGED <<row, keys, told, heard, named, bounds, history>>

(* The node info of a names update, a command or the periodic task goes    *)
(* out with the key in the struct, or is refused.                          *)
SendNodeInfo(a) ==
    /\ pc[a] = "send"
    /\ \/ Set(told, node[a], copy[a].pub)
       \/ UNCHANGED told
    /\ Finish(a)
    /\ UNCHANGED <<row, keys, heard, named, bounds, history>>

(* The process ends and starts again; the database stays.                  *)
Restart ==
    /\ restarts < MaxRestarts
    /\ restarts' = restarts + 1
    /\ op' = [a \in Actors |-> "idle"]
    /\ node' = [a \in Actors |-> NoNode]
    /\ evtKey' = [a \in Actors |-> 0]
    /\ to' = [a \in Actors |-> NoNode]
    /\ pc' = [a \in Actors |-> "idle"]
    /\ copy' = [a \in Actors |-> NoRow]
    /\ UNCHANGED <<row, keys, told, heard, named, calls, history>>

Step(a) ==
    \/ QueryFails(a)
    \/ UpdateGhostMeshNames(a) \/ Connect(a) \/ getGhostPublicKey(a) \/ getGhostPrivateKey(a)
    \/ AnswerRequest(a) \/ SendAnswer(a) \/ handleMeshNodeInfo(a) \/ handleMapReport(a)
    \/ SetAll(a) \/ SetAllFails(a)
    \/ sendNodeInfo(a) \/ doForAllManagedGhosts(a) \/ SendNodeInfo(a)

Next ==
    \/ \E a \in Actors : Step(a)
    \/ \E a \in Actors, n \in Nodes, o \in AllOps, k \in RemoteKeys \cup {0},
          t \in Local \cup {NoNode} : Begin(a, n, o, k, t)
    \/ \E n \in Nodes : SetLastSeen(n)
    \/ Restart

Spec == Init /\ [][Next]_vars

-----------------------------------------------------------------------------
PublicKeys == 0..keys \cup RemoteKeys
Rows == [pub : PublicKeys, priv : 0..keys, managed : BOOLEAN, seen : BOOLEAN]

TypeOK ==
    /\ keys \in Nat
    /\ row \in [Nodes -> Rows \cup {NoRow}]
    /\ op \in [Actors -> AllOps \cup {"idle"}]
    /\ node \in [Actors -> Nodes \cup {NoNode}]
    /\ evtKey \in [Actors -> RemoteKeys \cup {0}]
    /\ to \in [Actors -> Local \cup {NoNode}]
    /\ pc \in [Actors -> {"idle", "asked", "answer", "read", "write", "send"}]
    /\ copy \in [Actors -> Rows \cup {NoRow}]
    /\ told \in [Nodes -> PublicKeys] /\ heard \in [Nodes -> PublicKeys]
    /\ named \subseteq Local
    /\ calls \in 0..MaxCalls /\ restarts \in 0..MaxRestarts
    /\ overlapped \subseteq Nodes /\ blind \subseteq Nodes /\ seenFirst \subseteq Nodes

(* However the goroutines overlap and whichever queries fail, the two keys *)
(* in a local node's row belong to one pair, and no remote node is ever    *)
(* given a private key or marked as managed (SetAll writes both columns).  *)
KeysBelong ==
    \A n \in Nodes : row[n] # NoRow =>
        IF n \in Local THEN row[n].pub = row[n].priv
                       ELSE row[n].priv = 0 /\ ~row[n].managed

(* A row marked as managed has its keys: the accessors never come to       *)
(* generate a pair themselves, where getGhostPrivateKey would return the   *)
(* public half of it.                                                      *)
ManagedHasKeys ==
    \A n \in Nodes : row[n] # NoRow /\ row[n].managed => row[n].priv # 0

(* The key that peers last got for a local node is the one in its row,     *)
(* after failed writes, delayed periodic packets and restarts too, unless  *)
(* two writers of the row overlapped (UpdateGhostMeshNames, SendNodeInfo). *)
ToldKeyIsStored ==
    \A n \in Local : told[n] # 0 /\ n \notin overlapped =>
        row[n] # NoRow /\ told[n] = row[n].pub

(* A remote node's row holds the key of the node info last stored: a map   *)
(* report or an update of last_seen does not touch it, unless writers      *)
(* overlapped or a row could not be read (handleMapReport).                *)
RemoteKeyIsLatest ==
    \A n \in Remote : n \notin overlapped \cup blind =>
        heard[n] = IF row[n] = NoRow THEN 0 ELSE row[n].pub

(* A node that was given names takes part in the periodic broadcasts,      *)
(* unless its row was there first: a reaction removed by a user without    *)
(* names leaves an unmarked row (UpdateGhostMeshNames, GetManagedNodes).   *)
NamedIsManaged ==
    \A n \in named : n \notin seenFirst => row[n] # NoRow /\ row[n].managed
=============================================================================
