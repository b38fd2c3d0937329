--------------------------- MODULE NodeStoreProofs ---------------------------
(***************************************************************************)
(* The keys in the node database, for any nodes, goroutines and bounds.    *)
(* KeysBelong and ManagedHasKeys are not inductive: a goroutine may write  *)
(* a struct that it read long ago, so the structs in the goroutines' hands *)
(* must keep the same promise (StructsKept), and each operation must be    *)
(* one that the kind of its node allows (OpsFit).  What was told, heard    *)
(* and named needs more: History below.                                    *)
(***************************************************************************)
EXTENDS NodeStore, TLAPS

(* What KeysBelong and ManagedHasKeys say of one row of node n.            *)
Sound(n, r) ==
    /\ r.managed => r.priv # 0
    /\ IF n \in Local THEN r.pub = r.priv ELSE r.priv = 0 /\ ~r.managed

RowsKept == \A n \in Nodes : row[n] # NoRow => Sound(n, row[n])

StructsKept ==
    \A a \in Actors : /\ pc[a] \in {"write", "send"} => copy[a] \in Rows /\ Sound(node[a], copy[a])
                      /\ pc[a] = "answer" => copy[a] \in Rows /\ to[a] \in Local

OpsFit ==
    \A a \in Actors : pc[a] # "idle" => node[a] \in Nodes /\ op[a] \in Ops(node[a])

Inv == TypeOK /\ RowsKept /\ StructsKept /\ OpsFit

-----------------------------------------------------------------------------
(* The numbered keys only grow.                                            *)
LEMMA RowsGrow ==
  ASSUME keys \in Nat, keys' \in {keys, keys + 1}
  PROVE  /\ PublicKeys \subseteq PublicKeys'
         /\ 0..keys \subseteq 0..keys'
         /\ Rows \subseteq Rows'
  <1>1. 0..keys \subseteq 0..keys'
    OBVIOUS
  <1>2. PublicKeys \subseteq PublicKeys'
    BY <1>1 DEF PublicKeys
  <1> QED
    BY <1>1, <1>2 DEF Rows

(* A row is not the missing one.                                           *)
LEMMA RowsAreNotMissing == keys \in Nat => NoRow \notin Rows
  BY NoRowAssumption DEF Rows, PublicKeys

LEMMA NewRowIsRow == keys \in Nat => NewRow \in Rows /\ \A n \in Nodes : Sound(n, NewRow)
  BY DEF NewRow, Rows, PublicKeys, Sound

LEMMA InitInv == Init => Inv
  <1> SUFFICES ASSUME Init PROVE Inv
    OBVIOUS
  <1>1. TypeOK
    BY BoundsAssumption DEF Init, TypeOK, PublicKeys, AllOps
  <1>2. RowsKept /\ StructsKept /\ OpsFit
    BY DEF Init, RowsKept, StructsKept, OpsFit
  <1> QED
    BY <1>1, <1>2 DEF Inv

(* A goroutine that returns keeps the promise.                             *)
LEMMA FinishKeeps ==
  ASSUME Inv, NEW a \in Actors, Finish(a), UNCHANGED <<row, keys>>
  PROVE  /\ op' \in [Actors -> AllOps \cup {"idle"}]
         /\ node' \in [Actors -> Nodes \cup {NoNode}]
         /\ evtKey' \in [Actors -> RemoteKeys \cup {0}]
         /\ to' \in [Actors -> Local \cup {NoNode}]
         /\ pc' \in [Actors -> {"idle", "asked", "answer", "read", "write", "send"}]
         /\ copy' \in [Actors -> (Rows \cup {NoRow})']
         /\ StructsKept' /\ OpsFit'
  <1> USE DEF Inv, Finish, Set
  <1>1. /\ op' \in [Actors -> AllOps \cup {"idle"}]
        /\ node' \in [Actors -> Nodes \cup {NoNode}]
        /\ evtKey' \in [Actors -> RemoteKeys \cup {0}]
        /\ to' \in [Actors -> Local \cup {NoNode}]
        /\ pc' \in [Actors -> {"idle", "asked", "answer", "read", "write", "send"}]
    BY DEF TypeOK
  <1>2. Rows' = Rows
    BY DEF Rows, PublicKeys
  <1>3. copy' \in [Actors -> (Rows \cup {NoRow})']
    BY <1>2 DEF TypeOK
  <1>4. StructsKept'
    BY <1>2 DEF TypeOK, StructsKept, Sound
  <1>5. OpsFit'
    BY DEF TypeOK, OpsFit
  <1> QED
    BY <1>1, <1>3, <1>4, <1>5

(* A goroutine that keeps a sound struct to write.                         *)
LEMMA HoldKeeps ==
  ASSUME Inv, NEW a \in Actors, pc[a] # "idle", NEW r, Hold(a, r),
         keys' \in {keys, keys + 1},
         r \in Rows', Sound(node[a], r)
  PROVE  /\ op' \in [Actors -> AllOps \cup {"idle"}]
         /\ node' \in [Actors -> Nodes \cup {NoNode}]
         /\ evtKey' \in [Actors -> RemoteKeys \cup {0}]
         /\ to' \in [Actors -> Local \cup {NoNode}]
         /\ pc' \in [Actors -> {"idle", "asked", "answer", "read", "write", "send"}]
         /\ copy' \in [Actors -> (Rows \cup {NoRow})']
         /\ StructsKept' /\ OpsFit'
  <1> USE DEF Inv, Hold, Set
  <1>1. /\ op' \in [Actors -> AllOps \cup {"idle"}]
        /\ node' \in [Actors -> Nodes \cup {NoNode}]
        /\ evtKey' \in [Actors -> RemoteKeys \cup {0}]
        /\ to' \in [Actors -> Local \cup {NoNode}]
        /\ pc' \in [Actors -> {"idle", "asked", "answer", "read", "write", "send"}]
    BY DEF TypeOK
  <1>2. Rows \subseteq Rows'
    BY RowsGrow DEF TypeOK
  <1>3. copy' \in [Actors -> (Rows \cup {NoRow})']
    BY <1>2 DEF TypeOK
  <1>4. StructsKept'
    BY <1>2 DEF TypeOK, StructsKept, Sound
  <1>5. OpsFit'
    BY DEF TypeOK, OpsFit
  <1> QED
    BY <1>1, <1>3, <1>4, <1>5

(* Generating a pair for a row of a local node.                            *)
LEMMA GenerateIsSound ==
  ASSUME keys \in Nat, keys' = keys + 1, NEW n \in Local, NEW r \in Rows
  PROVE  WithPair(r, keys + 1) \in Rows' /\ Sound(n, WithPair(r, keys + 1))
  <1>1. Rows \subseteq Rows' /\ keys + 1 \in 0..keys' /\ keys + 1 # 0
    BY RowsGrow
  <1>2. r \in Rows'
    BY <1>1
  <1>3. WithPair(r, keys + 1) \in Rows'
    BY <1>1, <1>2 DEF WithPair, Rows, PublicKeys
  <1>4. Sound(n, WithPair(r, keys + 1))
    BY <1>1, <1>2 DEF WithPair, Rows, Sound
  <1> QED
    BY <1>3, <1>4

(* The variables outside the goroutines and the rows.                      *)
TypeRest ==
    /\ told \in [Nodes -> PublicKeys] /\ heard \in [Nodes -> PublicKeys]
    /\ named \subseteq Local
    /\ calls \in 0..MaxCalls /\ restarts \in 0..MaxRestarts
    /\ overlapped \subseteq Nodes /\ blind \subseteq Nodes /\ seenFirst \subseteq Nodes

ActorsKept ==
    /\ op \in [Actors -> AllOps \cup {"idle"}]
    /\ node \in [Actors -> Nodes \cup {NoNode}]
    /\ evtKey \in [Actors -> RemoteKeys \cup {0}]
    /\ to \in [Actors -> Local \cup {NoNode}]
    /\ pc \in [Actors -> {"idle", "asked", "answer", "read", "write", "send"}]
    /\ copy \in [Actors -> (Rows \cup {NoRow})]
    /\ StructsKept /\ OpsFit

(* A step that leaves the rows alone and moves only the goroutine.         *)
LEMMA RowsStay ==
  ASSUME Inv, UNCHANGED row, keys' \in {keys, keys + 1}
  PROVE  /\ keys' \in Nat
         /\ (row \in [Nodes -> Rows \cup {NoRow}])'
         /\ RowsKept'
         /\ UNCHANGED <<told, heard>> =>
               (told \in [Nodes -> PublicKeys] /\ heard \in [Nodes -> PublicKeys])'
  <1>1. Rows \subseteq Rows' /\ PublicKeys \subseteq PublicKeys' /\ keys' \in Nat
    BY RowsGrow DEF Inv, TypeOK
  <1>2. (row \in [Nodes -> Rows \cup {NoRow}])'
    BY <1>1 DEF Inv, TypeOK
  <1>3. RowsKept'
    BY DEF Inv, RowsKept, Sound
  <1> QED
    BY <1>1, <1>2, <1>3 DEF Inv, TypeOK

(* One step of a goroutine.                                                *)
LEMMA StepKeepsInv ==
  ASSUME Inv, NEW a \in Actors, Step(a)
  PROVE  Inv'
  <1> DEFINE n == node[a]
  <1>0. /\ pc[a] # "idle" => n \in Nodes /\ op[a] \in Ops(n)
        /\ keys \in Nat /\ TypeRest
        /\ n \in Nodes /\ row[n] # NoRow => row[n] \in Rows /\ Sound(n, row[n])
    BY DEF Inv, TypeOK, OpsFit, RowsKept, TypeRest
  <1>f. ASSUME Finish(a), UNCHANGED <<row, keys, bounds, history, heard, named>>,
               told' = told \/ (n \in Nodes /\ \E k \in PublicKeys : Set(told, n, k))
        PROVE  Inv'
    <2>1. ActorsKept'
      BY <1>f, FinishKeeps DEF ActorsKept
    <2>2. PublicKeys' = PublicKeys
      BY <1>f DEF PublicKeys
    <2>3. TypeRest'
      BY <1>0, <1>f, <2>2 DEF TypeRest, Set, bounds, history
    <2>4. keys' \in Nat /\ (row \in [Nodes -> Rows \cup {NoRow}])' /\ RowsKept'
      BY <1>f, RowsStay
    <2> QED
      BY <2>1, <2>3, <2>4 DEF Inv, TypeOK, ActorsKept, TypeRest
  <1>h. ASSUME pc[a] # "idle", NEW r, Hold(a, r), keys' \in {keys, keys + 1},
               r \in Rows', Sound(n, r),
               UNCHANGED <<row, told, heard, named, bounds, overlapped>>,
               blind' \in {blind, blind \cup {n}}, seenFirst' \in {seenFirst, seenFirst \cup {n}}
        PROVE  Inv'
    <2>1. ActorsKept'
      BY <1>h, HoldKeeps DEF ActorsKept
    <2>2. PublicKeys \subseteq PublicKeys'
      BY <1>0, <1>h, RowsGrow
    <2>3. TypeRest'
      BY <1>0, <1>h, <2>2 DEF TypeRest, bounds
    <2>4. keys' \in Nat /\ (row \in [Nodes -> Rows \cup {NoRow}])' /\ RowsKept'
      BY <1>h, RowsStay
    <2> QED
      BY <2>1, <2>3, <2>4 DEF Inv, TypeOK, ActorsKept, TypeRest
  <1>1. CASE QueryFails(a)
    BY <1>1, <1>f DEF QueryFails
  <1>g. ASSUME pc[a] # "idle", n \in Local, NEW r \in Rows, Generate(a, r),
               UNCHANGED <<row, told, heard, named, bounds, overlapped, blind>>,
               seenFirst' \in {seenFirst, seenFirst \cup {n}}
        PROVE  Inv'
    <2>1. keys' = keys + 1 /\ Hold(a, WithPair(r, keys + 1))
      BY <1>g DEF Generate
    <2>2. WithPair(r, keys + 1) \in Rows' /\ Sound(n, WithPair(r, keys + 1))
      BY <1>0, <1>g, <2>1, GenerateIsSound
    <2>3. PICK w : w = WithPair(r, keys + 1)
      OBVIOUS
    <2>4. Hold(a, w)
      BY <2>1, <2>3 DEF Hold, Set
    <2>5. w \in Rows'
      BY <2>2, <2>3
    <2>6. Sound(n, w)
      BY <2>2, <2>3 DEF Sound
    <2> QED
      BY <1>g, <1>h, <2>1, <2>4, <2>5, <2>6
  <1>2. CASE UpdateGhostMeshNames(a)
    <2>1. PICK r : r = IF Found(a) THEN row[n] ELSE [NewRow EXCEPT !.managed = TRUE]
      OBVIOUS
    <2>2. n \in Local /\ n \in Nodes /\ pc[a] # "idle"
      BY <1>0, <1>2 DEF UpdateGhostMeshNames, Reads, Ops, Nodes
    <2>3. NewRow \in Rows
      BY <1>0, NewRowIsRow
    <2>4. [NewRow EXCEPT !.managed = TRUE] \in Rows
      BY <2>3 DEF Rows
    <2>5. r \in Rows
      BY <1>0, <2>1, <2>2, <2>4 DEF Found
    <2>6. /\ UNCHANGED <<row, told, heard, named, bounds, overlapped, blind>>
          /\ seenFirst' \in {seenFirst, seenFirst \cup {n}}
      BY <1>2 DEF UpdateGhostMeshNames, NotesRow
    <2>9. IF r.priv = 0 THEN Generate(a, r) ELSE Hold(a, r) /\ UNCHANGED keys
      BY <1>2, <2>1 DEF UpdateGhostMeshNames, Generate, Hold, Set
    <2>7. CASE r.priv = 0
      BY <1>g, <2>2, <2>5, <2>6, <2>7, <2>9
    <2>8. CASE r.priv # 0
      <3>1. Rows' = Rows
        BY <2>8, <2>9 DEF Rows, PublicKeys
      <3>2. Sound(n, r)
        BY <1>0, <2>1, <2>2, <2>8 DEF Found, NewRow
      <3> QED
        BY <1>h, <2>2, <2>5, <2>6, <2>8, <2>9, <3>1, <3>2
    <2> QED
      BY <2>7, <2>8
  <1>3. CASE Connect(a)
    <2>1. CASE Found(a) /\ row[n].priv = 0
      <3>1. n \in Local /\ n \in Nodes /\ pc[a] # "idle"
        BY <1>0, <1>3 DEF Connect, Reads, Ops, Nodes
      <3>2. PICK r : r = row[n]
        OBVIOUS
      <3>3. r \in Rows
        BY <1>0, <2>1, <3>1, <3>2 DEF Found
      <3>4. Generate(a, r) /\ UNCHANGED <<row, told, heard, named, bounds, overlapped, blind, seenFirst>>
        BY <1>3, <2>1, <3>2 DEF Connect, history
      <3> QED
        BY <1>g, <3>1, <3>3, <3>4
    <2>2. CASE ~(Found(a) /\ row[n].priv = 0)
      BY <1>3, <1>f, <2>2 DEF Connect
    <2> QED
      BY <2>1, <2>2
  <1>4. CASE getGhostPublicKey(a)
    <2>1. n \in Nodes /\ row[n] \in Rows /\ Sound(n, row[n])
      BY <1>0, <1>4 DEF getGhostPublicKey, Reads, Found
    <2>2. ~(row[n].pub = 0 /\ row[n].managed)
      BY <2>1 DEF Sound, Rows
    <2>3. row[n].pub \in PublicKeys
      BY <2>1 DEF Rows
    <2> QED
      BY <1>4, <1>f, <2>1, <2>2, <2>3 DEF getGhostPublicKey, Set
  <1>5. CASE getGhostPrivateKey(a)
    <2>1. n \in Nodes /\ row[n] \in Rows /\ Sound(n, row[n])
      BY <1>0, <1>5 DEF getGhostPrivateKey, Reads, Found
    <2>2. ~(row[n].priv = 0 /\ row[n].managed)
      BY <2>1 DEF Sound
    <2> QED
      BY <1>5, <1>f, <2>2 DEF getGhostPrivateKey
  <1>6. ASSUME handleMeshNodeInfo(a) \/ handleMapReport(a)
        PROVE  Inv'
    <2>1. n \in Nodes /\ n \notin Local /\ pc[a] # "idle"
      BY <1>0, <1>6 DEF handleMeshNodeInfo, handleMapReport, Reads, Ops
    <2>0. PICK ok \in BOOLEAN :
            /\ \/ Hold(a, [ReadOrNew(a, ok) EXCEPT !.pub = evtKey[a], !.seen = TRUE])
               \/ Hold(a, [ReadOrNew(a, ok) EXCEPT !.seen = TRUE])
            /\ blind' = IF ok THEN blind ELSE blind \cup {n}
            /\ UNCHANGED <<row, keys, told, heard, named, bounds, overlapped, seenFirst>>
      BY <1>6 DEF handleMeshNodeInfo, handleMapReport, Hold
    <2>2. PICK r :
            /\ \/ r = [ReadOrNew(a, ok) EXCEPT !.pub = evtKey[a], !.seen = TRUE]
               \/ r = [ReadOrNew(a, ok) EXCEPT !.seen = TRUE]
            /\ Set(copy, a, r)
            /\ Set(pc, a, "write")
            /\ UNCHANGED <<op, node, evtKey, to>>
      BY <2>0 DEF Hold
    <2>3. ReadOrNew(a, ok) \in Rows /\ Sound(n, ReadOrNew(a, ok))
      BY <1>0, <2>1, NewRowIsRow DEF ReadOrNew, Found
    <2>4. Hold(a, r)
      BY <2>2 DEF Hold
    <2>5. evtKey[a] \in PublicKeys
      BY DEF Inv, TypeOK, PublicKeys
    <2>6. r \in Rows /\ Sound(n, r)
      BY <2>1, <2>2, <2>3, <2>5 DEF Rows, Sound
    <2>7. Rows' = Rows
      BY <2>0 DEF Rows, PublicKeys
    <2> QED
      BY <1>h, <2>0, <2>1, <2>4, <2>6, <2>7
  <1>7. CASE SetAllFails(a)
    BY <1>7, <1>f DEF SetAllFails
  <1>8. CASE SetAll(a)
    <2>1. n \in Nodes /\ op[a] \in Ops(n) /\ copy[a] \in Rows /\ Sound(n, copy[a])
      BY <1>0, <1>8 DEF SetAll, Inv, StructsKept
    <2>2. UNCHANGED keys /\ Rows' = Rows /\ PublicKeys' = PublicKeys
      BY <1>8 DEF SetAll, Rows, PublicKeys
    <2>3. row' = [row EXCEPT ![n] = copy[a]]
      BY <1>8 DEF SetAll, Set
    <2>4. (row \in [Nodes -> Rows \cup {NoRow}])'
      BY <2>1, <2>2, <2>3 DEF Inv, TypeOK
    <2>5. RowsKept'
      BY <2>1, <2>3 DEF Inv, TypeOK, RowsKept, Sound
    <2>6. copy[a].pub \in PublicKeys /\ (op[a] = "names" => n \in Local)
      BY <2>1 DEF Rows, Ops
    <2>7. TypeRest'
      BY <1>0, <1>8, <2>1, <2>2, <2>6 DEF SetAll, TypeRest, bounds, history
    <2>8. ActorsKept'
      BY <1>8, <2>2 DEF SetAll, Set, Finish, Inv, TypeOK, ActorsKept, StructsKept, OpsFit, Sound
    <2> QED
      BY <1>0, <2>2, <2>4, <2>5, <2>7, <2>8 DEF Inv, TypeOK, ActorsKept, TypeRest
  <1>s. ASSUME n \in Nodes, pc[a] # "idle", NEW r \in Rows, Sound(n, r),
               Set(copy, a, r), Set(pc, a, "send"), UNCHANGED <<op, node, evtKey, to>>,
               UNCHANGED <<row, keys, told, heard, named, bounds, history>>
        PROVE  Inv'
    <2>1. Rows' = Rows /\ PublicKeys' = PublicKeys
      BY <1>s DEF Rows, PublicKeys
    <2>2. ActorsKept'
      BY <1>s, <2>1 DEF Set, Inv, TypeOK, ActorsKept, StructsKept, OpsFit, Sound
    <2>3. TypeRest'
      BY <1>0, <1>s, <2>1 DEF TypeRest, bounds, history
    <2>4. keys' \in Nat /\ (row \in [Nodes -> Rows \cup {NoRow}])' /\ RowsKept'
      BY <1>s, RowsStay
    <2> QED
      BY <2>2, <2>3, <2>4 DEF Inv, TypeOK, ActorsKept, TypeRest
  <1>9. CASE sendNodeInfo(a)
    <2>1. PICK r : r = IF Found(a) THEN row[n] ELSE NewRow
      OBVIOUS
    <2>2. n \in Nodes /\ pc[a] # "idle" /\ r \in Rows /\ Sound(n, r)
      BY <1>0, <1>9, <2>1, NewRowIsRow DEF sendNodeInfo, Reads, Found
    <2>3. /\ Set(copy, a, r) /\ Set(pc, a, "send") /\ UNCHANGED <<op, node, evtKey, to>>
          /\ UNCHANGED <<row, keys, told, heard, named, bounds, history>>
      BY <1>9, <2>1 DEF sendNodeInfo, Set
    <2> QED
      BY <1>s, <2>2, <2>3
  <1>10. CASE doForAllManagedGhosts(a)
    <2>1. CASE ~(Found(a) /\ row[n].managed /\ row[n].seen)
      BY <1>10, <1>f, <2>1 DEF doForAllManagedGhosts
    <2>2. CASE Found(a) /\ row[n].managed /\ row[n].seen
      <3>1. n \in Nodes /\ row[n] \in Rows /\ Sound(n, row[n])
        BY <1>0, <1>10, <2>2 DEF doForAllManagedGhosts, Reads, Found
      <3>2. PICK r : r = row[n]
        OBVIOUS
      <3>3. /\ Set(copy, a, r) /\ Set(pc, a, "send") /\ UNCHANGED <<op, node, evtKey, to>>
            /\ UNCHANGED <<row, keys, told, heard, named, bounds, history>>
            /\ pc[a] # "idle"
        BY <1>10, <2>2, <3>2 DEF doForAllManagedGhosts, Set, Reads
      <3> QED
        BY <1>s, <3>1, <3>2, <3>3
    <2> QED
      BY <2>1, <2>2
  <1>11. CASE SendNodeInfo(a)
    <2>1. n \in Nodes /\ copy[a].pub \in PublicKeys
      BY <1>0, <1>11 DEF SendNodeInfo, Inv, StructsKept, Rows
    <2> QED
      BY <1>11, <1>f, <2>1 DEF SendNodeInfo
  <1>12. CASE AnswerRequest(a)
    <2>1. /\ UNCHANGED <<row, keys, told, heard, named, bounds, history>>
          /\ Rows' = Rows /\ PublicKeys' = PublicKeys
      BY <1>12 DEF AnswerRequest, Rows, PublicKeys
    <2>2. ActorsKept'
      <3>1. CASE pc' = [pc EXCEPT ![a] = "read"] /\ UNCHANGED copy
        BY <1>12, <2>1, <3>1
           DEF AnswerRequest, Inv, TypeOK, ActorsKept, StructsKept, OpsFit, Sound
      <3>2. CASE /\ to[a] # NoNode
                 /\ copy' = [copy EXCEPT ![a] = IF row[to[a]] # NoRow THEN row[to[a]] ELSE NewRow]
                 /\ pc' = [pc EXCEPT ![a] = "answer"]
        <4>1. to[a] \in Local /\ to[a] \in Nodes
          BY <3>2 DEF Inv, TypeOK, Nodes
        <4>2. PICK r \in Rows : copy' = [copy EXCEPT ![a] = r]
          BY <1>0, <3>2, <4>1, NewRowIsRow DEF Inv, TypeOK
        <4>3. pc[a] # "idle" /\ UNCHANGED <<op, node, evtKey, to>>
          BY <1>12 DEF AnswerRequest
        <4> QED
          BY <2>1, <3>2, <4>1, <4>2, <4>3
             DEF Inv, TypeOK, ActorsKept, StructsKept, OpsFit, Sound
      <3> QED
        BY <1>12, <3>1, <3>2 DEF AnswerRequest, Set
    <2>3. TypeRest'
      BY <1>0, <2>1 DEF TypeRest, bounds, history
    <2>4. keys' \in Nat /\ (row \in [Nodes -> Rows \cup {NoRow}])' /\ RowsKept'
      BY <2>1, RowsStay
    <2> QED
      BY <2>2, <2>3, <2>4 DEF Inv, TypeOK, ActorsKept, TypeRest
  <1>13. CASE SendAnswer(a)
    <2>1. /\ UNCHANGED <<row, keys, heard, named, bounds, history>>
          /\ Rows' = Rows /\ PublicKeys' = PublicKeys
      BY <1>13 DEF SendAnswer, Rows, PublicKeys
    <2>2. to[a] \in Nodes /\ copy[a].pub \in PublicKeys
      BY <1>13 DEF SendAnswer, Inv, StructsKept, Rows, Nodes
    <2>3. ActorsKept'
      BY <1>13, <2>1 DEF SendAnswer, Set, Inv, TypeOK, ActorsKept, StructsKept, OpsFit, Sound
    <2>4. TypeRest'
      BY <1>0, <1>13, <2>1, <2>2 DEF SendAnswer, Set, TypeRest, bounds, history
    <2>5. keys' \in Nat /\ (row \in [Nodes -> Rows \cup {NoRow}])' /\ RowsKept'
      BY <2>1, RowsStay
    <2> QED
      BY <2>3, <2>4, <2>5 DEF Inv, TypeOK, ActorsKept, TypeRest
  <1> QED
    BY <1>1, <1>2, <1>3, <1>4, <1>5, <1>6, <1>7, <1>8, <1>9, <1>10, <1>11, <1>12, <1>13 DEF Step

-----------------------------------------------------------------------------
(* The inductive invariant holds throughout.                               *)
THEOREM Invariance == Spec => []Inv
  <1>1. ASSUME Inv, [Next]_vars
        PROVE  Inv'
    <2>1. ASSUME NEW a \in Actors, Step(a)
          PROVE  Inv'
      BY <1>1, <2>1, StepKeepsInv
    <2>2. ASSUME NEW a \in Actors, NEW n \in Nodes, NEW o \in AllOps, NEW k \in RemoteKeys \cup {0},
                 NEW t \in Local \cup {NoNode}, Begin(a, n, o, k, t)
          PROVE  Inv'
      <3>1. Rows' = Rows /\ PublicKeys' = PublicKeys /\ UNCHANGED <<row, keys, told, heard>>
        BY <2>2 DEF Begin, Rows, PublicKeys
      <3>2. ActorsKept'
        BY <1>1, <2>2, <3>1
           DEF Begin, Set, Inv, TypeOK, ActorsKept, StructsKept, OpsFit, Sound
      <3>3. TypeRest'
        BY <1>1, <2>2, <3>1, BoundsAssumption DEF Begin, Inv, TypeOK, TypeRest
      <3>4. keys' \in Nat /\ (row \in [Nodes -> Rows \cup {NoRow}])' /\ RowsKept'
        BY <1>1, <3>1, RowsStay
      <3> QED
        BY <3>2, <3>3, <3>4 DEF Inv, TypeOK, ActorsKept, TypeRest
    <2>3. ASSUME NEW n \in Nodes, SetLastSeen(n)
          PROVE  Inv'
      <3>1. PICK r : r = IF row[n] = NoRow THEN NewRow ELSE row[n]
        OBVIOUS
      <3>2. r \in Rows /\ Sound(n, r)
        BY <1>1, <3>1, NewRowIsRow DEF Inv, TypeOK, RowsKept
      <3>3. [r EXCEPT !.seen = TRUE] \in Rows /\ Sound(n, [r EXCEPT !.seen = TRUE])
        BY <3>2 DEF Rows, Sound
      <3>4. /\ row' = [row EXCEPT ![n] = [r EXCEPT !.seen = TRUE]]
            /\ UNCHANGED <<op, node, evtKey, to, pc, copy, keys, told, heard, named, bounds, history>>
        BY <2>3, <3>1 DEF SetLastSeen, actor
      <3>5. Rows' = Rows /\ PublicKeys' = PublicKeys
        BY <3>4 DEF Rows, PublicKeys
      <3>6. (row \in [Nodes -> Rows \cup {NoRow}])' /\ RowsKept'
        BY <1>1, <3>3, <3>4, <3>5 DEF Inv, TypeOK, RowsKept, Sound
      <3>7. ActorsKept' /\ TypeRest'
        BY <1>1, <3>4, <3>5
           DEF Inv, TypeOK, ActorsKept, StructsKept, OpsFit, Sound, TypeRest, bounds, history
      <3> QED
        BY <1>1, <3>4, <3>6, <3>7 DEF Inv, TypeOK, ActorsKept, TypeRest
    <2>4. CASE Restart
      <3>1. Rows' = Rows /\ PublicKeys' = PublicKeys /\ UNCHANGED <<row, keys, told, heard>>
        BY <2>4 DEF Restart, Rows, PublicKeys
      <3>2. ActorsKept'
        BY <2>4 DEF Restart, ActorsKept, StructsKept, OpsFit
      <3>3. TypeRest'
        BY <1>1, <2>4, <3>1, BoundsAssumption DEF Restart, Inv, TypeOK, TypeRest, history
      <3>4. keys' \in Nat /\ (row \in [Nodes -> Rows \cup {NoRow}])' /\ RowsKept'
        BY <1>1, <3>1, RowsStay
      <3> QED
        BY <3>2, <3>3, <3>4 DEF Inv, TypeOK, ActorsKept, TypeRest
    <2>5. CASE UNCHANGED vars
      <3>1. Rows' = Rows /\ PublicKeys' = PublicKeys
        BY <2>5 DEF vars, Rows, PublicKeys
      <3> QED
        BY <1>1, <2>5, <3>1
           DEF vars, actor, bounds, history, Inv, TypeOK, RowsKept, StructsKept, OpsFit, Sound
    <2> QED
      BY <1>1, <2>1, <2>2, <2>3, <2>4, <2>5 DEF Next
  <1> QED
    BY InitInv, <1>1, PTL DEF Spec

(* Rows and structs stay in their types.                                   *)
THEOREM TypeCorrect == Spec => []TypeOK
  <1>1. Inv => TypeOK
    BY DEF Inv
  <1> QED
    BY Invariance, <1>1, PTL

(* The keys in a local row are one pair, and remote rows have no private   *)
(* key, for any number of nodes and goroutines.                            *)
THEOREM KeysAlwaysBelong == Spec => []KeysBelong
  <1>1. Inv => KeysBelong
    BY DEF Inv, RowsKept, Sound, KeysBelong
  <1> QED
    BY Invariance, <1>1, PTL

(* Managed rows have keys: the generating branches of the two accessors    *)
(* are never taken.                                                        *)
THEOREM ManagedRowsHaveKeys == Spec => []ManagedHasKeys
  <1>1. Inv => ManagedHasKeys
    BY DEF Inv, RowsKept, Sound, ManagedHasKeys
  <1> QED
    BY Invariance, <1>1, PTL
-----------------------------------------------------------------------------
(* What rows and structs have to do with the past: told, heard and named.  *)
(* The public key of a node as the database has it, 0 for none.            *)
Pub(n) == IF row[n] = NoRow THEN 0 ELSE row[n].pub

(* Only writers write, in the order of their steps, and where no writers   *)
(* of a node overlapped there is one at most.                              *)
Places ==
    \A a \in Actors :
        /\ pc[a] = "idle" => node[a] = NoNode
        /\ pc[a] = "write" => op[a] \in Writers
        /\ pc[a] \in {"asked", "answer"} => op[a] \in Handlers
        /\ pc[a] \in {"read", "write"} /\ op[a] = "connect" => node[a] \in named

OneWriter ==
    \A a, b \in Actors : \A n \in Nodes \ overlapped : Writing(a, n) /\ Writing(b, n) => a = b

(* The key of a local node never changes once it is there, so everything   *)
(* that was read of it, or told, is the key or no key.                     *)
KeyFixed ==
    /\ \A n \in Local \ overlapped : told[n] \in {0, Pub(n)}
    /\ \A a \in Actors :
          /\ pc[a] = "send" /\ node[a] \in Local \ overlapped => copy[a].pub \in {0, Pub(node[a])}
          /\ pc[a] = "answer" /\ to[a] \in Local \ overlapped => copy[a].pub \in {0, Pub(to[a])}
          /\ pc[a] = "write" /\ node[a] \in Local \ overlapped => Pub(node[a]) \in {0, copy[a].pub}

(* A map report brings back the key it read.                               *)
KeyHeard ==
    /\ \A n \in Remote : n \notin overlapped \cup blind => heard[n] = Pub(n)
    /\ \A a \in Actors :
          /\ pc[a] = "write" /\ op[a] = "mapreport" /\ node[a] \notin overlapped \cup blind
          => copy[a].pub = Pub(node[a])

(* A struct that will be written to a local row is marked, unless an       *)
(* unmarked row was there before the names.                                *)
Marked ==
    /\ NamedIsManaged
    /\ \A a \in Actors : pc[a] = "write" /\ node[a] \in Local \ seenFirst => copy[a].managed

History == Places /\ OneWriter /\ KeyFixed /\ KeyHeard /\ Marked

LEMMA InitHistory == Init => History
  BY NodesAssumption
     DEF Init, History, Places, OneWriter, Writing, KeyFixed, KeyHeard, Marked, NamedIsManaged, Pub, Nodes

(* The steps of a goroutine keep each part of History.                     *)
LEMMA PlacesStep ==
  ASSUME Inv, History, NEW a \in Actors, Step(a)
  PROVE  Places'
  <1> USE NodesAssumption DEF Inv, TypeOK, History, Set, bounds, history, Places, OpsFit, Ops, Writers, Handlers, RowsKept, Sound, Rows
  <1>1. CASE QueryFails(a)
    BY <1>1 DEF QueryFails, Finish
  <1>2. CASE UpdateGhostMeshNames(a)
    BY <1>2 DEF UpdateGhostMeshNames, Reads, Generate, Hold, NotesRow, Found, WithPair, NewRow
  <1>3. CASE Connect(a)
    BY <1>3 DEF Connect, Reads, Generate, Hold, Finish, Found, WithPair
  <1>4. CASE getGhostPublicKey(a)
    BY <1>4 DEF getGhostPublicKey, Reads, Generate, Hold, Finish, Found, WithPair
  <1>5. CASE getGhostPrivateKey(a)
    BY <1>5 DEF getGhostPrivateKey, Reads, Generate, Hold, Finish, Found, WithPair
  <1>6. CASE AnswerRequest(a)
    BY <1>6 DEF AnswerRequest, NewRow
  <1>7. CASE SendAnswer(a)
    BY <1>7 DEF SendAnswer
  <1>8. CASE handleMeshNodeInfo(a)
    BY <1>8 DEF handleMeshNodeInfo, Reads, Hold, ReadOrNew, Found, NewRow
  <1>9. CASE handleMapReport(a)
    BY <1>9 DEF handleMapReport, Reads, Hold, ReadOrNew, Found, NewRow
  <1>10. CASE SetAll(a)
    BY <1>10 DEF SetAll, Finish
  <1>11. CASE SetAllFails(a)
    BY <1>11 DEF SetAllFails, Finish
  <1>12. CASE sendNodeInfo(a)
    BY <1>12 DEF sendNodeInfo, Reads, Found, NewRow
  <1>13. CASE doForAllManagedGhosts(a)
    BY <1>13 DEF doForAllManagedGhosts, Reads, Found, Finish
  <1>14. CASE SendNodeInfo(a)
    BY <1>14 DEF SendNodeInfo, Finish
  <1> QED
    BY <1>1, <1>2, <1>3, <1>4, <1>5, <1>6, <1>7, <1>8, <1>9, <1>10, <1>11, <1>12, <1>13, <1>14 DEF Step

LEMMA OneWriterStep ==
  ASSUME Inv, History, NEW a \in Actors, Step(a)
  PROVE  OneWriter'
  <1> USE NodesAssumption DEF Inv, TypeOK, History, Set, bounds, history, OneWriter, Writing, Places
  <1>1. CASE QueryFails(a)
    BY <1>1 DEF QueryFails, Finish
  <1>2. CASE UpdateGhostMeshNames(a)
    BY <1>2 DEF UpdateGhostMeshNames, Reads, Generate, Hold, NotesRow, Found, WithPair, NewRow
  <1>3. CASE Connect(a)
    BY <1>3 DEF Connect, Reads, Generate, Hold, Finish, Found, WithPair
  <1>4. CASE getGhostPublicKey(a)
    BY <1>4 DEF getGhostPublicKey, Reads, Generate, Hold, Finish, Found, WithPair
  <1>5. CASE getGhostPrivateKey(a)
    BY <1>5 DEF getGhostPrivateKey, Reads, Generate, Hold, Finish, Found, WithPair
  <1>6. CASE AnswerRequest(a)
    BY <1>6 DEF AnswerRequest, NewRow
  <1>7. CASE SendAnswer(a)
    BY <1>7 DEF SendAnswer
  <1>8. CASE handleMeshNodeInfo(a)
    BY <1>8 DEF handleMeshNodeInfo, Reads, Hold, ReadOrNew, Found, NewRow
  <1>9. CASE handleMapReport(a)
    BY <1>9 DEF handleMapReport, Reads, Hold, ReadOrNew, Found, NewRow
  <1>10. CASE SetAll(a)
    BY <1>10 DEF SetAll, Finish
  <1>11. CASE SetAllFails(a)
    BY <1>11 DEF SetAllFails, Finish
  <1>12. CASE sendNodeInfo(a)
    BY <1>12 DEF sendNodeInfo, Reads, Found, NewRow
  <1>13. CASE doForAllManagedGhosts(a)
    BY <1>13 DEF doForAllManagedGhosts, Reads, Found, Finish
  <1>14. CASE SendNodeInfo(a)
    BY <1>14 DEF SendNodeInfo, Finish
  <1> QED
    BY <1>1, <1>2, <1>3, <1>4, <1>5, <1>6, <1>7, <1>8, <1>9, <1>10, <1>11, <1>12, <1>13, <1>14 DEF Step

LEMMA MarkedStep ==
  ASSUME Inv, History, NEW a \in Actors, Step(a)
  PROVE  Marked'
  <1> USE NodesAssumption DEF Inv, TypeOK, History, Set, bounds, history, Marked, NamedIsManaged, Places, Writers, Handlers, OpsFit, Ops, Nodes, RowsKept, StructsKept, Sound, Rows
  <1>1. CASE QueryFails(a)
    BY <1>1 DEF QueryFails, Finish
  <1>2. CASE UpdateGhostMeshNames(a)
    <2>1. NamedIsManaged'
      BY <1>2 DEF UpdateGhostMeshNames, NotesRow
    <2>2. PICK r : r = IF Found(a) THEN row[node[a]] ELSE [NewRow EXCEPT !.managed = TRUE]
      OBVIOUS
    <2>3. node[a] \in Nodes /\ (Found(a) => row[node[a]] \in Rows)
      BY <1>2 DEF UpdateGhostMeshNames, Reads, Found
    <2>4. r.managed \/ (Found(a) /\ ~row[node[a]].managed)
      BY <2>2, <2>3 DEF NewRow
    <2>5. IF r.priv = 0 THEN Generate(a, r) ELSE Hold(a, r)
      BY <1>2, <2>2 DEF UpdateGhostMeshNames, Generate, Hold
    <2>6. r.managed = WithPair(r, keys + 1).managed
      BY <2>2, <2>3 DEF WithPair, NewRow
    <2>7. PICK h : Hold(a, h) /\ (h.managed \/ (Found(a) /\ ~row[node[a]].managed))
      BY <2>4, <2>5, <2>6 DEF Generate
    <2> QED
      BY <1>2, <2>1, <2>7 DEF UpdateGhostMeshNames, NotesRow, Hold
  <1>3. CASE Connect(a)
    BY <1>3 DEF Connect, Reads, Generate, Hold, Finish, Found, WithPair
  <1>4. CASE getGhostPublicKey(a)
    BY <1>4 DEF getGhostPublicKey, Reads, Generate, Hold, Finish, Found, WithPair
  <1>5. CASE getGhostPrivateKey(a)
    BY <1>5 DEF getGhostPrivateKey, Reads, Generate, Hold, Finish, Found, WithPair
  <1>6. CASE AnswerRequest(a)
    BY <1>6 DEF AnswerRequest, NewRow
  <1>7. CASE SendAnswer(a)
    BY <1>7 DEF SendAnswer
  <1>8. CASE handleMeshNodeInfo(a)
    BY <1>8 DEF handleMeshNodeInfo, Reads, Hold, ReadOrNew, Found, NewRow
  <1>9. CASE handleMapReport(a)
    BY <1>9 DEF handleMapReport, Reads, Hold, ReadOrNew, Found, NewRow
  <1>10. CASE SetAll(a)
    <2>1. /\ node[a] \in Nodes /\ copy[a] \in Rows /\ pc[a] = "write"
          /\ row' = [row EXCEPT ![node[a]] = copy[a]]
          /\ UNCHANGED seenFirst
      BY <1>10 DEF SetAll
    <2>2. copy[a] # NoRow
      BY <2>1, RowsAreNotMissing
    <2>3. named' \subseteq Local
      BY <1>10, <2>1 DEF SetAll
    <2>4. NamedIsManaged'
      BY <1>10, <2>1, <2>2, <2>3 DEF SetAll
    <2>5. \A b \in Actors : pc'[b] = "write" => pc[b] = "write" /\ copy'[b] = copy[b] /\ node'[b] = node[b]
      BY <1>10 DEF SetAll, Finish
    <2> QED
      BY <2>1, <2>4, <2>5
  <1>11. CASE SetAllFails(a)
    BY <1>11 DEF SetAllFails, Finish
  <1>12. CASE sendNodeInfo(a)
    BY <1>12 DEF sendNodeInfo, Reads, Found, NewRow
  <1>13. CASE doForAllManagedGhosts(a)
    BY <1>13 DEF doForAllManagedGhosts, Reads, Found, Finish
  <1>14. CASE SendNodeInfo(a)
    BY <1>14 DEF SendNodeInfo, Finish
  <1> QED
    BY <1>1, <1>2, <1>3, <1>4, <1>5, <1>6, <1>7, <1>8, <1>9, <1>10, <1>11, <1>12, <1>13, <1>14 DEF Step

(* The only write to a row whose key is told brings the same key.          *)
LEMMA KeyFixedStep ==
  ASSUME Inv, History, NEW a \in Actors, Step(a)
  PROVE  KeyFixed'
  <1> USE NodesAssumption DEF Inv, TypeOK, History, Set, bounds, history, KeyFixed, Pub, OneWriter, Writing, Places, Writers, Handlers, OpsFit, Ops, Nodes, RowsKept, StructsKept, Sound, Rows
  <1>1. CASE QueryFails(a)
    BY <1>1 DEF QueryFails, Finish
  <1>2. CASE UpdateGhostMeshNames(a)
    BY <1>2 DEF UpdateGhostMeshNames, Reads, Generate, Hold, NotesRow, Found, WithPair, NewRow
  <1>3. CASE Connect(a)
    BY <1>3 DEF Connect, Reads, Generate, Hold, Finish, Found, WithPair
  <1>4. CASE getGhostPublicKey(a)
    BY <1>4 DEF getGhostPublicKey, Reads, Generate, Hold, Finish, Found, WithPair
  <1>5. CASE getGhostPrivateKey(a)
    BY <1>5 DEF getGhostPrivateKey, Reads, Generate, Hold, Finish, Found, WithPair
  <1>6. CASE AnswerRequest(a)
    BY <1>6 DEF AnswerRequest, NewRow
  <1>7. CASE SendAnswer(a)
    BY <1>7 DEF SendAnswer
  <1>8. CASE handleMeshNodeInfo(a)
    BY <1>8 DEF handleMeshNodeInfo, Reads, Hold, ReadOrNew, Found, NewRow
  <1>9. CASE handleMapReport(a)
    BY <1>9 DEF handleMapReport, Reads, Hold, ReadOrNew, Found, NewRow
  <1>10. CASE SetAll(a)
    <2> DEFINE n == node[a]
    <2>1. /\ n \in Nodes /\ copy[a] \in Rows /\ pc[a] = "write" /\ op[a] \in Writers
          /\ row' = [row EXCEPT ![n] = copy[a]]
          /\ UNCHANGED <<told, overlapped, blind>>
      BY <1>10 DEF SetAll
    <2>2. copy[a] # NoRow
      BY <2>1, RowsAreNotMissing
    <2>3. \A m \in Nodes : Pub(m)' = IF m = n THEN copy[a].pub ELSE Pub(m)
      BY <2>1, <2>2
    <2>4. /\ pc'[a] \in {"idle", "send"} /\ (pc'[a] = "send" => copy'[a] = copy[a] /\ node'[a] = n)
          /\ \A b \in Actors \ {a} : /\ pc'[b] = pc[b] /\ copy'[b] = copy[b] /\ node'[b] = node[b]
                                     /\ to'[b] = to[b] /\ op'[b] = op[b]
      BY <1>10 DEF SetAll, Finish
    <2>5. \A b \in Actors \ {a} : pc[b] = "write" /\ node[b] \in Nodes \ overlapped => node[b] # n
      BY <2>1
    <2>6. \A m \in Local \ overlapped : Pub(m) \in {0, Pub(m)'}
      BY <2>1, <2>3
    <2>7. \A m \in Local \ overlapped' : told'[m] \in {0, Pub(m)'}
      BY <2>1, <2>6
    <2>8. \A b \in Actors : pc'[b] = "send" /\ node'[b] \in Local \ overlapped' => copy'[b].pub \in {0, Pub(node[b])'}
      BY <2>1, <2>3, <2>4, <2>6
    <2>9. \A b \in Actors : pc'[b] = "answer" /\ to'[b] \in Local \ overlapped' => copy'[b].pub \in {0, Pub(to[b])'}
      BY <2>1, <2>4, <2>6
    <2>10. \A b \in Actors : pc'[b] = "write" /\ node'[b] \in Local \ overlapped' => Pub(node[b])' \in {0, copy'[b].pub}
      BY <2>1, <2>3, <2>4, <2>5
    <2> QED
      BY <2>7, <2>8, <2>9, <2>10
  <1>11. CASE SetAllFails(a)
    BY <1>11 DEF SetAllFails, Finish
  <1>12. CASE sendNodeInfo(a)
    BY <1>12 DEF sendNodeInfo, Reads, Found, NewRow
  <1>13. CASE doForAllManagedGhosts(a)
    BY <1>13 DEF doForAllManagedGhosts, Reads, Found, Finish
  <1>14. CASE SendNodeInfo(a)
    BY <1>14 DEF SendNodeInfo, Finish
  <1> QED
    BY <1>1, <1>2, <1>3, <1>4, <1>5, <1>6, <1>7, <1>8, <1>9, <1>10, <1>11, <1>12, <1>13, <1>14 DEF Step

LEMMA KeyHeardStep ==
  ASSUME Inv, History, NEW a \in Actors, Step(a)
  PROVE  KeyHeard'
  <1> USE NodesAssumption DEF Inv, TypeOK, History, Set, bounds, history, KeyHeard, Pub, OneWriter, Writing, Places, Writers, Handlers, OpsFit, Ops, Nodes, RowsKept, StructsKept, Sound, Rows
  <1>1. CASE QueryFails(a)
    BY <1>1 DEF QueryFails, Finish
  <1>2. CASE UpdateGhostMeshNames(a)
    BY <1>2 DEF UpdateGhostMeshNames, Reads, Generate, Hold, NotesRow, Found, WithPair, NewRow
  <1>3. CASE Connect(a)
    BY <1>3 DEF Connect, Reads, Generate, Hold, Finish, Found, WithPair
  <1>4. CASE getGhostPublicKey(a)
    BY <1>4 DEF getGhostPublicKey, Reads, Generate, Hold, Finish, Found, WithPair
  <1>5. CASE getGhostPrivateKey(a)
    BY <1>5 DEF getGhostPrivateKey, Reads, Generate, Hold, Finish, Found, WithPair
  <1>6. CASE AnswerRequest(a)
    BY <1>6 DEF AnswerRequest, NewRow
  <1>7. CASE SendAnswer(a)
    BY <1>7 DEF SendAnswer
  <1>8. CASE handleMeshNodeInfo(a)
    BY <1>8 DEF handleMeshNodeInfo, Reads, Hold, ReadOrNew, Found, NewRow
  <1>9. CASE handleMapReport(a)
    BY <1>9 DEF handleMapReport, Reads, Hold, ReadOrNew, Found, NewRow
  <1>10. CASE SetAll(a)
    <2> DEFINE n == node[a]
    <2>1. /\ n \in Nodes /\ copy[a] \in Rows /\ pc[a] = "write" /\ op[a] \in Writers
          /\ row' = [row EXCEPT ![n] = copy[a]]
          /\ UNCHANGED <<told, overlapped, blind>>
      BY <1>10 DEF SetAll
    <2>2. copy[a] # NoRow
      BY <2>1, RowsAreNotMissing
    <2>3. \A m \in Nodes : Pub(m)' = IF m = n THEN copy[a].pub ELSE Pub(m)
      BY <2>1, <2>2
    <2>4. /\ pc'[a] \in {"idle", "send"} /\ (pc'[a] = "send" => copy'[a] = copy[a] /\ node'[a] = n)
          /\ \A b \in Actors \ {a} : /\ pc'[b] = pc[b] /\ copy'[b] = copy[b] /\ node'[b] = node[b]
                                     /\ to'[b] = to[b] /\ op'[b] = op[b]
      BY <1>10 DEF SetAll, Finish
    <2>5. \A b \in Actors \ {a} : pc[b] = "write" /\ node[b] \in Nodes \ overlapped => node[b] # n
      BY <2>1
    <2>6. heard' = IF op[a] = "nodeinfo" THEN [heard EXCEPT ![n] = copy[a].pub] ELSE heard
      BY <1>10 DEF SetAll
    <2>7. n \in Remote => op[a] \in {"nodeinfo", "mapreport"}
      BY <2>1
    <2>8. \A m \in Remote : m \notin (overlapped \cup blind)' => heard'[m] = Pub(m)'
      BY <2>1, <2>3, <2>6, <2>7
    <2> QED
      BY <2>1, <2>3, <2>4, <2>5, <2>8
  <1>11. CASE SetAllFails(a)
    BY <1>11 DEF SetAllFails, Finish
  <1>12. CASE sendNodeInfo(a)
    BY <1>12 DEF sendNodeInfo, Reads, Found, NewRow
  <1>13. CASE doForAllManagedGhosts(a)
    BY <1>13 DEF doForAllManagedGhosts, Reads, Found, Finish
  <1>14. CASE SendNodeInfo(a)
    BY <1>14 DEF SendNodeInfo, Finish
  <1> QED
    BY <1>1, <1>2, <1>3, <1>4, <1>5, <1>6, <1>7, <1>8, <1>9, <1>10, <1>11, <1>12, <1>13, <1>14 DEF Step

(* An operation begins, last_seen is set, the bridge restarts.             *)
LEMMA OtherSteps ==
  ASSUME Inv, History, [Next]_vars, ~\E a \in Actors : Step(a)
  PROVE  History'
  <1> USE NodesAssumption DEF Inv, TypeOK, History
  <1>1. ASSUME NEW a \in Actors, NEW n \in Nodes, NEW o \in AllOps, NEW k \in RemoteKeys \cup {0},
               NEW t \in Local \cup {NoNode}, Begin(a, n, o, k, t)
        PROVE  History'
    <2> USE <1>1 DEF Begin, Set
    <2>1. Places'
      BY DEF Places, Handlers, Writers
    <2>2. OneWriter'
      BY DEF OneWriter, Writing, Places
    <2>3. KeyFixed'
      BY DEF KeyFixed, Pub, Nodes
    <2>4. KeyHeard'
      BY DEF KeyHeard, Pub, Nodes
    <2>5. Marked'
      BY DEF Marked, NamedIsManaged
    <2> QED
      BY <2>1, <2>2, <2>3, <2>4, <2>5
  <1>2. ASSUME NEW n \in Nodes, SetLastSeen(n)
        PROVE  History'
    <2>1. PICK r \in Rows : /\ row' = [row EXCEPT ![n] = r] /\ r.pub = Pub(n)
                            /\ row[n] # NoRow => r.managed = row[n].managed
      <3>1. PICK q : q = IF row[n] = NoRow THEN NewRow ELSE row[n]
        OBVIOUS
      <3>2. q \in Rows /\ q.pub = Pub(n) /\ (row[n] # NoRow => q.managed = row[n].managed)
        BY <3>1, NewRowIsRow DEF Pub, NewRow
      <3>3. row' = [row EXCEPT ![n] = [q EXCEPT !.seen = TRUE]]
        BY <1>2, <3>1 DEF SetLastSeen
      <3>4. PICK w : w = [q EXCEPT !.seen = TRUE]
        OBVIOUS
      <3>5. w \in Rows /\ w.pub = q.pub /\ w.managed = q.managed
        BY <3>2, <3>4 DEF Rows
      <3> QED
        BY <3>2, <3>3, <3>4, <3>5
    <2>2. r # NoRow
      BY RowsAreNotMissing
    <2>3. \A m \in Nodes : Pub(m)' = Pub(m)
      BY <2>1, <2>2 DEF Pub
    <2>4. UNCHANGED <<op, node, pc, evtKey, to, copy, keys, told, heard, named, overlapped, blind, seenFirst>>
      BY <1>2 DEF SetLastSeen, actor, history
    <2>5. Places' /\ OneWriter'
      BY <2>4 DEF Places, OneWriter, Writing
    <2>6. KeyFixed'
      BY <2>3, <2>4 DEF KeyFixed, Nodes
    <2>7. KeyHeard'
      BY <2>3, <2>4 DEF KeyHeard, Nodes, Places, OpsFit
    <2>8. Marked'
      BY <2>1, <2>2, <2>4 DEF Marked, NamedIsManaged
    <2> QED
      BY <2>5, <2>6, <2>7, <2>8
  <1>3. CASE Restart
    BY <1>3 DEF Restart, history, Places, OneWriter, Writing, KeyFixed, KeyHeard, Marked, NamedIsManaged, Pub
  <1>4. CASE UNCHANGED vars
    BY <1>4 DEF vars, actor, bounds, history, Places, OneWriter, Writing, KeyFixed, KeyHeard, Marked,
                NamedIsManaged, Pub
  <1> QED
    BY <1>1, <1>2, <1>3, <1>4 DEF Next

(* The past agrees with the database throughout.                           *)
THEOREM HistoryInvariance == Spec => []History
  <1>1. ASSUME Inv, History, [Next]_vars
        PROVE  History'
    <2>1. ASSUME NEW a \in Actors, Step(a)
          PROVE  History'
      BY <1>1, <2>1, PlacesStep, OneWriterStep, KeyFixedStep, KeyHeardStep, MarkedStep DEF History
    <2> QED
      BY <1>1, <2>1, OtherSteps
  <1> QED
    BY Invariance, InitHistory, <1>1, PTL DEF Spec

(* Peers have the key that is in the row of a local node, after any        *)
(* failures, delays and restarts, unless two writers of that row           *)
(* overlapped.                                                             *)
THEOREM ToldKeyAlwaysStored == Spec => []ToldKeyIsStored
  <1>1. History => ToldKeyIsStored
    BY DEF History, KeyFixed, Pub, ToldKeyIsStored
  <1> QED
    BY HistoryInvariance, <1>1, PTL

(* The row of a remote node has the key of the node info stored last; map  *)
(* reports and last_seen leave it alone.                                   *)
THEOREM RemoteKeyAlwaysLatest == Spec => []RemoteKeyIsLatest
  <1>1. History => RemoteKeyIsLatest
    BY DEF History, KeyHeard, Pub, RemoteKeyIsLatest
  <1> QED
    BY HistoryInvariance, <1>1, PTL

(* Nodes that were given names stay marked as managed, whatever overlaps   *)
(* and fails, unless an unmarked row was there before.                     *)
THEOREM NamedAlwaysManaged == Spec => []NamedIsManaged
  <1>1. History => NamedIsManaged
    BY DEF History, Marked
  <1> QED
    BY HistoryInvariance, <1>1, PTL
=============================================================================
