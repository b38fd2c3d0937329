------------------------- MODULE MessageRoomsProofs -------------------------
(***************************************************************************)
(* Any number of logins, channels, receiving goroutines and events.        *)
(***************************************************************************)
EXTENDS MessageRooms, TLAPS

Labels == {"idle", "handler", "queue", "waypoint", "save"}
ThreadType == [pc : Labels, evt : Events \cup {None}, todo : Seq(Logins)]
CleanupType == [pc : {"idle", "portal", "member", "leave"}, threshold : Int,
                rooms : SUBSET ChannelRooms, room : ChannelRooms \cup {None},
                left : SUBSET Nodes, ghost : Nodes \cup {None}, misjudged : BOOLEAN]
Items == Events \cup Own
MessageType == [id : MessageIds, from : Nodes]
ReactionType == [target : MessageIds, from : Nodes]

(* A goroutine's event arrived and is not done with, no other goroutine    *)
(* has it, and it is queued only for a login it is for.                    *)
ThreadsOK ==
    /\ \A t \in Threads : ~At(t, "idle") =>
          /\ thread[t].evt \in received \ done
          /\ thread[t].evt.kind = "waypoint" => thread[t].todo = << >>
          /\ At(t, "queue") => thread[t].todo # << >> /\ ForLogin(thread[t].evt, Head(thread[t].todo))
    /\ \A t, u \in Threads :
          ~At(t, "idle") /\ ~At(u, "idle") /\ thread[t].evt = thread[u].evt => t = u

(* What waits in a room's queue belongs there.                             *)
QueuesOK ==
    \A r \in Rooms : \A k \in 1..Len(queue[r]) :
        IF queue[r][k].kind = "own"
        THEN /\ r \in DMRooms => queue[r][k].from = NodeOf[r[3]]
             /\ queue[r][k].id # None => <<r, queue[r][k].id>> \in sent
        ELSE /\ queue[r][k] \in received /\ queue[r][k].kind # "waypoint"
             /\ r \in RoomsOf(queue[r][k])

(* What is stored in a room came from the mesh for it or was sent from it. *)
CameWith(r, id) ==
    \/ \E e \in received : e.kind = "message" /\ r \in RoomsOf(e) /\ IdOf(e) = id
    \/ \E p \in sent : p[1] = r /\ IdIn(r, p[2]) = id

OriginOK == \A r \in Rooms : \A m \in messages[r] : CameWith(r, m.id)

(* The cleanup's threshold only gets older, and the ghost it is about to   *)
(* remove was inactive then, or it was misjudged.                          *)
CleanupOK ==
    /\ cleanup.pc \in {"member", "leave"} => cleanup.room \in ChannelRooms
    /\ cleanup.pc # "leave" => cleanup.ghost = None
    /\ cleanup.pc # "idle" => cleanup.threshold <= today - InactivityThreshold
    /\ cleanup.pc = "leave" =>
          /\ cleanup.ghost \in Nodes
          /\ \/ cleanup.misjudged
             \/ cleanup.ghost \notin Managed /\ ~Active(cleanup.room, cleanup.ghost)

-----------------------------------------------------------------------------
(* The way of an event: handlers still to come, the queue of its room, and *)
(* the room's tables.                                                      *)
Wants(e, l) == ForLogin(e, l) /\ InPortal(e, l)

UnderWay(e) ==
    \E t \in Threads :
        /\ thread[t].pc \in {"handler", "queue"} /\ thread[t].evt = e
        /\ \E k \in 1..Len(thread[t].todo) : Wants(e, thread[t].todo[k])

Queued(e) == \E r \in RoomsOf(e) : \E k \in 1..Len(queue[r]) : queue[r][k] = e
Shown(e) == \E r \in RoomsOf(e) : HasMessage(r, IdOf(e))

Target(r, e) == IdIn(r, e.replyId)
Attached(e) == \E r \in RoomsOf(e) : [target |-> Target(r, e), from |-> e.from] \in reactions[r]

NotLost ==
    \A e \in due \ failed :
        /\ \E l \in Logins : ForLogin(e, l)
        /\ e.kind = "message" => UnderWay(e) \/ Queued(e) \/ Shown(e)
        /\ e.kind = "reaction" /\ e \in ordered => UnderWay(e) \/ Queued(e) \/ Attached(e)

(* The room has a message with the id, or will have it from its queue.     *)
Provides(r, q, id) ==
    \/ q.kind = "message" /\ IdOf(q) = id
    \/ q.kind = "own" /\ q.id # None /\ IdIn(r, q.id) = id

Provided(r, id) == HasMessage(r, id) \/ \E k \in 1..Len(queue[r]) : Provides(r, queue[r][k], id)

(* What a reaction in order needs is there or in front of it.              *)
InOrder ==
    /\ \A p \in sent : Provided(p[1], IdIn(p[1], p[2]))
    /\ \A e \in ordered : \A r \in RoomsOf(e) : Provided(r, Target(r, e))
    /\ \A r \in Rooms : \A k \in 1..Len(queue[r]) : queue[r][k] \in ordered =>
          \/ HasMessage(r, Target(r, queue[r][k]))
          \/ \E j \in 1..k - 1 : Provides(r, queue[r][j], Target(r, queue[r][k]))

Inv ==
    /\ TypeOK /\ ThreadsOK /\ QueuesOK /\ CleanupOK /\ OriginOK /\ DirectStaysPrivate

WayInv == NotLost /\ InOrder
-----------------------------------------------------------------------------
(* Events and rooms.                                                       *)
LEMMA EventFields ==
    ASSUME NEW e \in Events
    PROVE  /\ e.kind \in {"message", "reaction", "waypoint"} /\ e.id \in Nat
           /\ e.from \in Nodes /\ e.from \notin Managed /\ e.timestamp \in Nat
           /\ e.channel \in ChannelNames /\ e.key \in Keys \cup {None}
           /\ e.lockedTo \in Nodes \cup {None} /\ e.isDelete \in BOOLEAN
           /\ IsDM(e) => e.to \in Managed
<1>1. e \in Event /\ e.from \notin Managed /\ e.to \in Managed \cup {Broadcast}
  BY EventsAssumption
<1> QED
  BY <1>1 DEF Event, IsDM

LEMMA ManagedNodes == Managed \subseteq Nodes /\ \A l \in Logins : NodeOf[l] \in Managed
BY NodesAssumption DEF Managed

LEMMA RoomKinds ==
    /\ \A r \in ChannelRooms : r[1] \in ChannelNames /\ r = <<r[1], r[2]>> /\ r \notin DMRooms
    /\ \A r \in DMRooms : /\ r[1] \in Nodes \ Managed /\ r[2] \in Managed /\ r[3] \in Logins
                          /\ r = <<r[1], r[2], r[3]>> /\ r \notin ChannelRooms
<1>1. \A n, k, a, b, c : <<n, k>> # <<a, b, c>>
  OBVIOUS
<1>2. ASSUME NEW r \in ChannelRooms
      PROVE  r[1] \in ChannelNames /\ r = <<r[1], r[2]>> /\ r \notin DMRooms
  <2>1. PICK n \in ChannelNames, k \in Keys \cup {None} : r = <<n, k>>
    BY DEF ChannelRooms, makePortalKey
  <2> QED
    BY <1>1, <2>1 DEF DMRooms, makeDMPortalKey
<1>3. ASSUME NEW r \in DMRooms
      PROVE  /\ r[1] \in Nodes \ Managed /\ r[2] \in Managed /\ r[3] \in Logins
             /\ r = <<r[1], r[2], r[3]>> /\ r \notin ChannelRooms
  <2>1. PICK n \in Nodes \ Managed, m \in Managed, l \in Logins : r = <<n, m, l>>
    BY DEF DMRooms, makeDMPortalKey
  <2> QED
    BY <1>1, <2>1 DEF ChannelRooms, makePortalKey
<1> QED
  BY <1>2, <1>3

(* PortalKey names a room of the event, and an event has one.              *)
LEMMA RoomOfEvent ==
    ASSUME NEW e \in Events
    PROVE  /\ \A l \in Logins : ForLogin(e, l) => PortalKey(e, l) \in RoomsOf(e)
           /\ \A r \in RoomsOf(e) :
                 /\ r \in Rooms /\ r[1] = MessIDSender(e) /\ r[1] \in Nodes \cup ChannelNames
                 /\ r \in DMRooms => IsDM(e) /\ r[1] = e.from /\ NodeOf[r[3]] = e.to
                 /\ \A l \in Logins : ForLogin(e, l) => r = PortalKey(e, l)
           /\ \A r, s \in RoomsOf(e) : r = s
<1>0. /\ e.from \in Nodes \ Managed /\ (IsDM(e) => e.to \in Managed)
      /\ e.channel \in ChannelNames /\ e.key \in Keys \cup {None}
  BY EventFields
<1>1. CASE IsDM(e)
  <2>1. /\ RoomsOf(e) = {r \in DMRooms : r[1] = e.from /\ r[2] = e.to /\ NodeOf[r[3]] = e.to}
        /\ MessIDSender(e) = e.from
        /\ \A l \in Logins : /\ ForLogin(e, l) <=> NodeOf[l] = e.to
                            /\ PortalKey(e, l) = <<e.from, e.to, l>>
    BY <1>1 DEF RoomsOf, MessIDSender, ForLogin, PortalKey, makeDMPortalKey
  <2>2. \A l \in Logins : <<e.from, e.to, l>> \in DMRooms
    BY <1>0, <1>1 DEF DMRooms, makeDMPortalKey
  <2>3. \A r \in RoomsOf(e) : \A l \in Logins : NodeOf[l] = e.to => r = <<e.from, e.to, l>>
    BY <2>1, RoomKinds, NodesAssumption
  <2>4. \A r, s \in RoomsOf(e) : r = s
    BY <2>1, RoomKinds, NodesAssumption
  <2> QED
    BY <1>0, <1>1, <2>1, <2>2, <2>3, <2>4 DEF Rooms
<1>2. CASE ~IsDM(e)
  <2>1. /\ RoomsOf(e) = {<<e.channel, e.key>>} /\ MessIDSender(e) = e.channel
        /\ \A l \in Logins : PortalKey(e, l) = <<e.channel, e.key>>
    BY <1>2 DEF RoomsOf, MessIDSender, PortalKey, makePortalKey
  <2>2. <<e.channel, e.key>> \in ChannelRooms
    BY <1>0 DEF ChannelRooms, makePortalKey
  <2> QED
    BY <1>0, <2>1, <2>2, RoomKinds DEF Rooms
<1> QED
  BY <1>1, <1>2

LEMMA NoOwnEvent == \A q \in Items : (q.kind = "own" => q \in Own) /\ (q.kind # "own" => q \in Events)
<1>1. \A q \in Events : q.kind # "own"
  BY EventFields
<1>2. \A q \in Own : q.kind = "own"
  BY DEF Own
<1> QED
  BY <1>1, <1>2 DEF Items

-----------------------------------------------------------------------------
(* Types, in four parts.                                                   *)
MeshType ==
    /\ bound \in Bounds /\ handlers \in Seq(Logins) /\ inPortal \in [ChannelRooms -> SUBSET Logins]
    /\ thread \in [Threads -> ThreadType]
    /\ received \subseteq Events /\ done \subseteq received /\ acked \subseteq received

RoomType ==
    /\ queue \in [Rooms -> Seq(Items)]
    /\ messages \in [Rooms -> SUBSET MessageType] /\ reactions \in [Rooms -> SUBSET ReactionType]
    /\ members \in [Rooms -> SUBSET Nodes] /\ activity \in [Rooms -> [Nodes -> Nat \cup {None}]]
    /\ sent \subseteq Rooms \X OwnIds /\ written \in Nat

CleanType == today \in Nat /\ cleanups \in Nat /\ cleanup \in CleanupType

GhostType == due \subseteq received /\ ordered \subseteq received /\ failed \subseteq received

LEMMA TypeParts ==
    TypeOK <=> MeshType /\ RoomType /\ waypoints \in Row \cup {None} /\ CleanType /\ GhostType
BY DEF TypeOK, MeshType, RoomType, CleanType, GhostType, ThreadType, Labels, CleanupType, Items,
       MessageType, ReactionType

LEMMA InitInv == Init => Inv
<1> SUFFICES ASSUME Init PROVE Inv
  OBVIOUS
<1>1. MeshType
  <2>1. Idle \in ThreadType
    BY DEF Idle, ThreadType, Labels
  <2> QED
    BY <2>1, StartAssumption, ManagedNodes DEF Init, MeshType
<1>2. RoomType
  BY NodesAssumption, StartAssumption DEF Init, RoomType
<1>3. CleanType
  <2>1. Resting \in CleanupType
    BY DEF Resting, CleanupType
  <2> QED
    BY <2>1 DEF Init, CleanType
<1>4. TypeOK
  BY <1>1, <1>2, <1>3, TypeParts DEF Init, GhostType
<1>5. ThreadsOK
  BY DEF Init, ThreadsOK, At, Idle
<1>6. QueuesOK
  BY DEF Init, QueuesOK
<1>7. DirectStaysPrivate /\ OriginOK
  BY DEF Init, DirectStaysPrivate, OriginOK, Rooms
<1>8. CleanupOK
  BY DEF Init, CleanupOK, Resting
<1> QED
  BY <1>4, <1>5, <1>6, <1>7, <1>8 DEF Inv

-----------------------------------------------------------------------------
(* What a goroutine has.                                                   *)
LEMMA ThreadFacts ==
    ASSUME MeshType, ThreadsOK, NEW t \in Threads, ~At(t, "idle")
    PROVE  /\ thread[t] \in ThreadType /\ thread[t].evt \in Events /\ thread[t].evt \in received
           /\ thread[t].evt \notin done
           /\ thread[t].todo \in Seq(Logins)
           /\ thread[t].todo # << >> => /\ Head(thread[t].todo) \in Logins
                                        /\ Tail(thread[t].todo) \in Seq(Logins)
                                        /\ thread[t].evt.kind # "waypoint"
<1>1. thread[t] \in ThreadType /\ thread[t].evt \in received \ done /\ received \subseteq Events
  BY DEF MeshType, ThreadsOK
<1>2. thread[t].todo \in Seq(Logins)
  BY <1>1 DEF ThreadType
<1>3. thread[t].todo # << >> => thread[t].evt.kind # "waypoint"
  BY DEF ThreadsOK
<1> QED
  BY <1>1, <1>2, <1>3

(* The steps of a goroutine, with the record it has afterwards.            *)
ThreadMoves(t, rec) ==
    /\ thread' = [thread EXCEPT ![t] = rec]
    /\ rec.evt = thread[t].evt \/ rec = Idle
    /\ rec.pc \in {"idle", "handler", "queue", "save"}
    /\ rec.pc = "queue" => rec.todo # << >> /\ ForLogin(rec.evt, Head(rec.todo))
    /\ \/ rec.todo = thread[t].todo \/ rec.todo = << >>
       \/ thread[t].todo # << >> /\ rec.todo = Tail(thread[t].todo)
    /\ UNCHANGED <<bound, handlers, inPortal, received, cleanVars>>

LEMMA HandleSteps ==
    ASSUME Inv, NEW t \in Threads, Handle(t)
    PROVE  ~At(t, "idle") /\ \E rec \in ThreadType : ThreadMoves(t, rec)
<1> USE DEF At, ThreadMoves
<1>0. MeshType /\ ThreadsOK /\ thread \in [Threads -> ThreadType] /\ waypoints \in Row \cup {None}
  BY TypeParts DEF Inv, MeshType
<1>1. ~At(t, "idle")
  BY DEF Handle, Acknowledge, QueueRemoteEvent, QueryFails, Return, GetByWaypointID, SetAll,
         WaypointQueryFails
<1>2. /\ thread[t] \in ThreadType
      /\ thread[t].todo # << >> => Tail(thread[t].todo) \in Seq(Logins)
  BY <1>0, <1>1, ThreadFacts
<1>3. CASE Acknowledge(t)
  <2>1. CASE ForLogin(thread[t].evt, Head(thread[t].todo))
    <3> DEFINE rec == [thread[t] EXCEPT !.pc = "queue"]
    <3>1. rec \in ThreadType
      BY <1>2 DEF ThreadType, Labels
    <3>2. ThreadMoves(t, rec)
      BY <1>2, <1>3, <2>1 DEF Acknowledge, ThreadType, ghostVars
    <3> QED
      BY <1>1, <3>1, <3>2
  <2>2. CASE ~ForLogin(thread[t].evt, Head(thread[t].todo))
    <3> DEFINE rec == [thread[t] EXCEPT !.todo = Tail(thread[t].todo)]
    <3>1. rec \in ThreadType
      BY <1>2, <1>3 DEF ThreadType, Labels, Acknowledge
    <3>2. ThreadMoves(t, rec)
      BY <1>2, <1>3, <2>2 DEF Acknowledge, ThreadType, ghostVars
    <3> QED
      BY <1>1, <3>1, <3>2
  <2> QED
    BY <2>1, <2>2
<1>4. CASE QueueRemoteEvent(t) \/ QueryFails(t)
  <2> DEFINE rec == [thread[t] EXCEPT !.pc = "handler", !.todo = Tail(thread[t].todo)]
  <2>1. thread[t].todo # << >>
    BY <1>0, <1>4 DEF ThreadsOK, QueueRemoteEvent, QueryFails
  <2>2. rec \in ThreadType
    BY <1>2, <2>1 DEF ThreadType, Labels
  <2>3. ThreadMoves(t, rec)
    BY <1>2, <1>4, <2>1 DEF QueueRemoteEvent, QueryFails, NextHandler, ThreadType, ghostVars
  <2> QED
    BY <1>1, <2>2, <2>3
<1>5. CASE Return(t)
  <2>1. Idle \in ThreadType /\ Idle.pc = "idle" /\ Idle.todo = << >>
    BY DEF Idle, ThreadType, Labels
  <2>2. ThreadMoves(t, Idle)
    BY <1>5, <2>1 DEF Return, ghostVars
  <2> QED
    BY <1>1, <2>1, <2>2
<1>6. CASE GetByWaypointID(t) \/ SetAll(t) \/ WaypointQueryFails(t)
  <2>1. PICK l \in {"handler", "save"} : thread' = [thread EXCEPT ![t].pc = l]
    BY <1>6 DEF GetByWaypointID, SetAll, WaypointQueryFails
  <2> DEFINE rec == [thread[t] EXCEPT !.pc = l]
  <2>2. rec \in ThreadType
    BY <1>2, <2>1 DEF ThreadType, Labels
  <2>3. UNCHANGED <<bound, handlers, inPortal, received, cleanVars>>
    BY <1>6 DEF GetByWaypointID, SetAll, WaypointQueryFails
  <2>4. ThreadMoves(t, rec)
    BY <1>2, <2>1, <2>3 DEF ThreadType
  <2> QED
    BY <1>1, <2>2, <2>4
<1> QED
  BY <1>3, <1>4, <1>5, <1>6 DEF Handle

-----------------------------------------------------------------------------
(* What a step does to a room: nothing, one item joins the queue, the      *)
(* first one is dealt with, or its message is on the mesh.                 *)
Same(r) ==
    queue'[r] = queue[r] /\ messages'[r] = messages[r] /\ reactions[r] \subseteq reactions'[r]

Joins(r, x) ==
    /\ queue'[r] = Append(queue[r], x)
    /\ messages'[r] = messages[r] /\ reactions'[r] = reactions[r]
    /\ \/ x.kind = "own" /\ x.id = None /\ (r \in DMRooms => x.from = NodeOf[r[3]])
       \/ x.kind \in {"message", "reaction"} /\ x \in received /\ r \in RoomsOf(x)

Leaves(r) ==
    LET q == Head(queue[r]) IN
    /\ queue[r] # << >> /\ queue'[r] = Tail(queue[r])
    /\ messages[r] \subseteq messages'[r] /\ reactions[r] \subseteq reactions'[r]
    /\ \A id : Provides(r, q, id) => HasMessage(r, id)'
    /\ q.kind = "reaction" /\ HasMessage(r, Target(r, q)) =>
          [target |-> Target(r, q), from |-> q.from] \in reactions'[r]
    /\ \/ messages'[r] = messages[r]
       \/ \E m : /\ messages'[r] = messages[r] \cup {m} /\ m.from = q.from
                 /\ \/ q.kind = "message" /\ m.id = IdOf(q)
                    \/ q.kind = "own" /\ q.id # None /\ m.id = IdIn(r, q.id)

Sends(r, i) ==
    /\ queue[r] # << >> /\ Head(queue[r]).kind = "own" /\ Head(queue[r]).id = None
    /\ i \in OwnIds /\ queue'[r] = [queue[r] EXCEPT ![1].id = i] /\ <<r, i>> \in sent'
    /\ messages'[r] = messages[r] /\ reactions'[r] = reactions[r]

RoomMoves(r) ==
    Same(r) \/ (\E x \in Items : Joins(r, x)) \/ Leaves(r) \/ \E i \in OwnIds : Sends(r, i)

RoomsMove ==
    /\ queue' \in [Rooms -> Seq(Items)]
    /\ messages' \in [Rooms -> SUBSET MessageType] /\ reactions' \in [Rooms -> SUBSET ReactionType]
    /\ sent' \subseteq Rooms \X OwnIds
    /\ \A r \in Rooms : RoomMoves(r)
    /\ sent \subseteq sent'
    /\ \A p \in sent' : p \in sent \/ Sends(p[1], p[2])

(* What a room has, or another one that shares its ids, it keeps.          *)
LEMMA HasMessageGrows ==
    ASSUME \A s \in Rooms : messages[s] \subseteq messages'[s], NEW r \in Rooms, NEW id,
           HasMessage(r, id) \/ Stored(r, id)'
    PROVE  HasMessage(r, id)'
<1>1. CASE Stored(r, id)'
  BY <1>1 DEF HasMessage
<1>2. CASE HasMessage(r, id)
  <2>1. PICK s \in Rooms : Receiver(s) = Receiver(r) /\ \E m \in messages[s] : m.id = id
    BY <1>2 DEF HasMessage, Stored
  <2>2. \E m \in messages'[s] : m.id = id
    BY <2>1
  <2> QED
    BY <2>1, <2>2 DEF HasMessage, Stored, Receiver
<1> QED
  BY <1>1, <1>2

LEMMA QueueRemoteEventMoves ==
    ASSUME Inv, NEW t \in Threads, QueueRemoteEvent(t)
    PROVE  RoomsMove
<1> DEFINE e == thread[t].evt
           l == Head(thread[t].todo)
           r0 == PortalKey(e, l)
<1>0. MeshType /\ RoomType /\ ThreadsOK /\ At(t, "queue") /\ ~At(t, "idle")
  BY TypeParts DEF Inv, QueueRemoteEvent, At
<1>1. thread[t].todo # << >> /\ ForLogin(e, l)
  BY <1>0 DEF ThreadsOK
<1>2. e \in Events /\ e \in received /\ e.kind # "waypoint" /\ l \in Logins
  BY <1>0, <1>1, ThreadFacts
<1>3. r0 \in RoomsOf(e) /\ r0 \in Rooms
  BY <1>1, <1>2, RoomOfEvent
<1>4. e.kind \in {"message", "reaction"} /\ e \in Items
  BY <1>2, EventFields DEF Items
<1>5. queue' = queue \/ queue' = [queue EXCEPT ![r0] = Append(queue[r0], e)]
  BY DEF QueueRemoteEvent
<1>6. UNCHANGED <<messages, reactions, sent>>
  BY DEF QueueRemoteEvent
<1> HIDE DEF e, l, r0
<1>7. queue \in [Rooms -> Seq(Items)]
  BY <1>0 DEF RoomType
<1>8. queue' \in [Rooms -> Seq(Items)]
  <2>1. Append(queue[r0], e) \in Seq(Items)
    BY <1>3, <1>4, <1>7
  <2> QED
    BY <1>5, <1>7, <2>1
<1>9. \A r \in Rooms : Same(r) \/ Joins(r, e)
  BY <1>2, <1>3, <1>4, <1>5, <1>6, <1>7 DEF Same, Joins
<1> QED
  BY <1>0, <1>4, <1>6, <1>8, <1>9 DEF RoomsMove, RoomMoves, RoomType

LEMMA MatrixEventMoves ==
    ASSUME Inv, NEW s \in Rooms, NEW l \in Logins, MatrixEvent(l, s)
    PROVE  RoomsMove
<1>0. RoomType
  BY TypeParts DEF Inv
<1>1. PICK x : x = [kind |-> "own", from |-> NodeOf[l], id |-> None]
  OBVIOUS
<1>2. x \in Items /\ x.kind = "own" /\ x.id = None /\ x.from = NodeOf[l]
  BY <1>1, NodesAssumption DEF Items, Own
<1>3. s \in DMRooms => x.from = NodeOf[s[3]]
  BY <1>2, RoomKinds DEF MatrixEvent, MayWrite
<1>4. queue' = [queue EXCEPT ![s] = Append(queue[s], x)] /\ UNCHANGED <<messages, reactions, sent>>
  BY <1>1 DEF MatrixEvent
<1>5. queue \in [Rooms -> Seq(Items)]
  BY <1>0 DEF RoomType
<1>6. queue' \in [Rooms -> Seq(Items)]
  BY <1>2, <1>4, <1>5
<1>7. \A r \in Rooms : Same(r) \/ Joins(r, x)
  BY <1>2, <1>3, <1>4, <1>5 DEF Same, Joins
<1> QED
  BY <1>0, <1>2, <1>4, <1>6, <1>7 DEF RoomsMove, RoomMoves, RoomType

(* The item at the head of a queue.                                        *)
LEMMA HeadFacts ==
    ASSUME Inv, NEW s \in Rooms, queue[s] # << >>
    PROVE  LET q == Head(queue[s]) IN
           /\ queue[s] \in Seq(Items) /\ Tail(queue[s]) \in Seq(Items) /\ q \in Items
           /\ Len(queue[s]) \in Nat \ {0} /\ q = queue[s][1]
           /\ Len(Tail(queue[s])) = Len(queue[s]) - 1
           /\ \A k \in 1..Len(queue[s]) - 1 : Tail(queue[s])[k] = queue[s][k + 1]
           /\ q.kind = "own" => q \in Own /\ q.from \in Nodes /\ q.id \in OwnIds \cup {None}
           /\ q.kind # "own" => q \in Events /\ q \in received /\ s \in RoomsOf(q)
<1>1. queue[s] \in Seq(Items)
  BY TypeParts DEF Inv, RoomType
<1>2. /\ Tail(queue[s]) \in Seq(Items) /\ Head(queue[s]) \in Items
      /\ Len(queue[s]) \in Nat \ {0} /\ Head(queue[s]) = queue[s][1]
      /\ Len(Tail(queue[s])) = Len(queue[s]) - 1
      /\ \A k \in 1..Len(queue[s]) - 1 : Tail(queue[s])[k] = queue[s][k + 1]
  BY <1>1
<1>3. 1 \in 1..Len(queue[s])
  BY <1>2
<1>4. Head(queue[s]).kind # "own" => Head(queue[s]) \in received /\ s \in RoomsOf(Head(queue[s]))
  BY <1>2, <1>3 DEF Inv, QueuesOK
<1>5. Head(queue[s]).kind = "own" => Head(queue[s]) \in Own
  BY <1>2, NoOwnEvent
<1>6. \A q \in Own : q.from \in Nodes /\ q.id \in OwnIds \cup {None}
  BY DEF Own
<1> QED
  BY <1>1, <1>2, <1>4, <1>5, <1>6, NoOwnEvent

LEMMA HandleRemoteEventMoves ==
    ASSUME Inv, NEW s \in Rooms, HandleRemoteEvent(s)
    PROVE  RoomsMove
<1>q. PICK q : q = Head(queue[s])
  OBVIOUS
<1> DEFINE id == IdOf(q)
           target == Target(s, q)
           m == [id |-> id, from |-> q.from]
           x == [target |-> target, from |-> q.from]
<1>0. RoomType /\ queue[s] # << >> /\ q.kind # "own"
  BY <1>q, TypeParts DEF Inv, HandleRemoteEvent
<1>1. q \in Events /\ s \in RoomsOf(q) /\ Tail(queue[s]) \in Seq(Items)
  BY <1>0, <1>q, HeadFacts
<1>2. /\ q.kind \in {"message", "reaction", "waypoint"} /\ q.from \in Nodes /\ q.id \in Nat
      /\ MessIDSender(q) = s[1] /\ s[1] \in Nodes \cup ChannelNames
  BY <1>1, EventFields, RoomOfEvent
<1>3. target = MakeMessageID(MessIDSender(q), q.replyId)
  BY <1>2 DEF Target, IdIn
<1>4. m \in MessageType /\ m.id = id /\ m.from = q.from
  BY <1>2 DEF MessageType, MessageIds, IdOf, MakeMessageID
<1>5. /\ queue' = [queue EXCEPT ![s] = Tail(queue[s])] /\ sent' = sent
      /\ \/ /\ q.kind = "message" /\ ~HasMessage(s, id)
            /\ messages' = [messages EXCEPT ![s] = messages[s] \cup {m}] /\ reactions' = reactions
         \/ /\ q.kind = "reaction" /\ HasMessage(s, target) /\ messages' = messages
            /\ reactions' = [reactions EXCEPT ![s] = reactions[s] \cup {x}]
         \/ /\ messages' = messages /\ reactions' = reactions
            /\ q.kind = "message" => HasMessage(s, id)
            /\ q.kind = "reaction" /\ HasMessage(s, target) => x \in reactions[s]
  <2>1. PICK y : y = [target |-> MakeMessageID(MessIDSender(q), q.replyId), from |-> q.from]
    OBVIOUS
  <2>2. y = x
    BY <1>3, <2>1
  <2> QED
    BY <1>3, <1>q, <2>1, <2>2 DEF HandleRemoteEvent
<1>6. HasMessage(s, target) => x \in ReactionType
  <2>1. ASSUME HasMessage(s, target) PROVE target \in MessageIds
    BY <1>0, <2>1 DEF HasMessage, Stored, RoomType, MessageType
  <2> QED
    BY <1>2, <2>1 DEF ReactionType
<1>7. \A i : Provides(s, q, i) => q.kind = "message" /\ i = id
  BY <1>0 DEF Provides
<1>8. PICK i0 : i0 = id
  OBVIOUS
<1> HIDE DEF id, target, m, x
<1>9. /\ queue \in [Rooms -> Seq(Items)] /\ messages \in [Rooms -> SUBSET MessageType]
      /\ reactions \in [Rooms -> SUBSET ReactionType] /\ sent \subseteq Rooms \X OwnIds
  BY <1>0 DEF RoomType
<1>10. /\ queue' \in [Rooms -> Seq(Items)] /\ messages' \in [Rooms -> SUBSET MessageType]
       /\ reactions' \in [Rooms -> SUBSET ReactionType]
  BY <1>1, <1>4, <1>5, <1>6, <1>9
<1>11. \A r \in Rooms : r # s => Same(r)
  BY <1>5, <1>9 DEF Same
<1>12. /\ queue'[s] = Tail(queue[s])
       /\ \A r \in Rooms : messages[r] \subseteq messages'[r]
       /\ messages[s] \subseteq messages'[s] /\ reactions[s] \subseteq reactions'[s]
  BY <1>5, <1>9
<1>13. q.kind = "message" => HasMessage(s, i0)'
  <2>1. ASSUME q.kind = "message" PROVE HasMessage(s, i0) \/ \E n \in messages'[s] : n.id = i0
    BY <1>4, <1>5, <1>8, <1>9, <2>1
  <2> QED
    BY <1>12, <2>1, HasMessageGrows DEF Stored
<1>14. q.kind = "reaction" /\ HasMessage(s, target) => x \in reactions'[s]
  BY <1>5, <1>9
<1>15. \/ messages'[s] = messages[s]
       \/ /\ messages'[s] = messages[s] \cup {m} /\ q.kind = "message"
          /\ m.from = q.from /\ m.id = id
  BY <1>4, <1>5, <1>9
<1>16. Leaves(s)
  <2>1. \A i : Provides(s, q, i) => HasMessage(s, i)'
    BY <1>7, <1>8, <1>13
  <2> QED
    BY <1>0, <1>12, <1>14, <1>15, <1>q, <2>1 DEF Leaves, x, target, id
<1> QED
  BY <1>5, <1>9, <1>10, <1>11, <1>16 DEF RoomsMove, RoomMoves

LEMMA SaveMessageMoves ==
    ASSUME Inv, NEW s \in Rooms, SaveMessage(s) \/ SendMessageFails(s)
    PROVE  RoomsMove
<1>q. PICK q : q = Head(queue[s])
  OBVIOUS
<1> DEFINE id == IdIn(s, q.id)
           m == [id |-> id, from |-> q.from]
<1>0. RoomType /\ queue[s] # << >> /\ q.kind = "own"
  BY <1>q, TypeParts DEF Inv, SaveMessage, SendMessageFails, OwnAtHead
<1>1. q \in Own /\ q.from \in Nodes /\ q.id \in OwnIds \cup {None} /\ Tail(queue[s]) \in Seq(Items)
  BY <1>0, <1>q, HeadFacts
<1>2. s[1] \in Nodes \cup ChannelNames
  BY RoomKinds DEF Rooms
<1>3. q.id # None => m \in MessageType
  BY <1>1, <1>2, EventsAssumption DEF MessageType, MessageIds, MakeMessageID, IdIn
<1>4. m.id = id /\ m.from = q.from
  OBVIOUS
<1>5. /\ queue' = [queue EXCEPT ![s] = Tail(queue[s])] /\ reactions' = reactions /\ sent' = sent
      /\ \/ q.id = None /\ messages' = messages
         \/ /\ q.id # None
            /\ messages' = IF HasMessage(s, id) THEN messages
                           ELSE [messages EXCEPT ![s] = messages[s] \cup {m}]
  BY <1>q DEF SaveMessage, SendMessageFails
<1>6. \A i : Provides(s, q, i) => q.id # None /\ i = id
  BY <1>0 DEF Provides
<1>7. PICK i0 : i0 = id
  OBVIOUS
<1> HIDE DEF id, m
<1>8. /\ queue \in [Rooms -> Seq(Items)] /\ messages \in [Rooms -> SUBSET MessageType]
      /\ reactions \in [Rooms -> SUBSET ReactionType] /\ sent \subseteq Rooms \X OwnIds
  BY <1>0 DEF RoomType
<1>9. queue' \in [Rooms -> Seq(Items)] /\ messages' \in [Rooms -> SUBSET MessageType]
  BY <1>1, <1>3, <1>5, <1>8
<1>10. \A r \in Rooms : r # s => Same(r)
  BY <1>5, <1>8 DEF Same
<1>11. /\ queue'[s] = Tail(queue[s]) /\ reactions'[s] = reactions[s]
       /\ \A r \in Rooms : messages[r] \subseteq messages'[r]
  BY <1>5, <1>8
<1>12. q.id # None => HasMessage(s, i0)'
  <2>1. ASSUME q.id # None PROVE HasMessage(s, i0) \/ \E n \in messages'[s] : n.id = i0
    BY <1>4, <1>5, <1>7, <1>8, <2>1
  <2> QED
    BY <1>11, <2>1, HasMessageGrows DEF Stored
<1>13. \/ messages'[s] = messages[s]
       \/ /\ messages'[s] = messages[s] \cup {m} /\ m.from = q.from
          /\ q.id # None /\ m.id = id
  BY <1>4, <1>5, <1>8
<1>14. Leaves(s)
  <2>1. \A i : Provides(s, q, i) => HasMessage(s, i)'
    BY <1>6, <1>7, <1>12
  <2> QED
    BY <1>0, <1>11, <1>13, <1>q, <2>1 DEF Leaves, id
<1> QED
  BY <1>5, <1>8, <1>9, <1>10, <1>14 DEF RoomsMove, RoomMoves

LEMMA SendMessageMoves ==
    ASSUME Inv, NEW s \in Rooms, SendMessage(s)
    PROVE  RoomsMove
<1>0. RoomType /\ queue[s] # << >> /\ Head(queue[s]).kind = "own" /\ Head(queue[s]).id = None
  BY TypeParts DEF Inv, SendMessage, OwnAtHead
<1>1. PICK i \in OwnIds : sent' = sent \cup {<<s, i>>} /\ queue' = [queue EXCEPT ![s][1].id = i]
  BY DEF SendMessage
<1>2. UNCHANGED <<messages, reactions>>
  BY DEF SendMessage
<1>3. /\ queue[s] \in Seq(Items) /\ queue[s][1] \in Own /\ Len(queue[s]) \in Nat \ {0}
  BY <1>0, HeadFacts
<1>4. [queue[s][1] EXCEPT !.id = i] \in Items
  BY <1>3 DEF Own, Items
<1>5. PICK x : x = [queue[s][1] EXCEPT !.id = i]
  OBVIOUS
<1>6. [queue[s] EXCEPT ![1] = x] \in Seq(Items)
  BY <1>3, <1>4, <1>5
<1>7. queue \in [Rooms -> Seq(Items)] /\ queue' = [queue EXCEPT ![s] = [queue[s] EXCEPT ![1] = x]]
  BY <1>0, <1>1, <1>5 DEF RoomType
<1>8. queue' \in [Rooms -> Seq(Items)] /\ queue'[s] = [queue[s] EXCEPT ![1] = x]
  BY <1>6, <1>7
<1>9. Sends(s, i)
  BY <1>0, <1>1, <1>2, <1>5, <1>8 DEF Sends
<1>10. \A r \in Rooms : r # s => Same(r)
  BY <1>2, <1>7 DEF Same
<1> QED
  BY <1>0, <1>1, <1>2, <1>8, <1>9, <1>10 DEF RoomsMove, RoomMoves, RoomType

LEMMA ReactionMoves ==
    ASSUME Inv, NEW s \in Rooms, NEW l \in Logins, HandleMatrixReaction(l, s)
    PROVE  RoomsMove
<1>0. RoomType
  BY TypeParts DEF Inv
<1>1. PICK m \in messages[s] :
         reactions' = [reactions EXCEPT ![s] = reactions[s] \cup {[target |-> m.id, from |-> NodeOf[l]]}]
  BY DEF HandleMatrixReaction
<1>2. UNCHANGED <<queue, messages, sent>>
  BY DEF HandleMatrixReaction
<1>3. m.id \in MessageIds /\ NodeOf[l] \in Nodes
  BY <1>0, <1>1, NodesAssumption DEF RoomType, MessageType
<1>4. [target |-> m.id, from |-> NodeOf[l]] \in ReactionType
  BY <1>3 DEF ReactionType
<1>5. reactions' \in [Rooms -> SUBSET ReactionType] /\ \A r \in Rooms : Same(r)
  BY <1>0, <1>1, <1>2, <1>4 DEF RoomType, Same
<1> QED
  BY <1>0, <1>2, <1>5 DEF RoomsMove, RoomMoves, RoomType

-----------------------------------------------------------------------------
(* The steps, by what they may touch.                                      *)
RoomAction ==
    \/ \E t \in Threads : QueueRemoteEvent(t)
    \/ \E r \in Rooms : \/ PortalLoop(r)
                        \/ \E l \in Logins : MatrixEvent(l, r) \/ HandleMatrixReaction(l, r)

MeshAction ==
    \/ \E l \in Logins : Connect(l) \/ \E r \in ChannelRooms : joinChannel(l, r)
    \/ \E t \in Threads : Handle(t) \/ \E e \in Events : Receive(t, e)

CleanAction == Tomorrow \/ Cleanup \/ \E r \in Rooms : HandleRemoteEvent(r)

LEMMA RoomSteps ==
    ASSUME Inv, [Next]_vars
    PROVE  RoomsMove
<1>1. CASE RoomAction
  BY <1>1, QueueRemoteEventMoves, MatrixEventMoves, HandleRemoteEventMoves, SaveMessageMoves,
     SendMessageMoves, ReactionMoves DEF RoomAction, PortalLoop
<1>2. CASE ~RoomAction
  <2>1. UNCHANGED <<queue, messages, reactions, sent>>
    <3>1. CASE Tomorrow \/ Cleanup \/ UNCHANGED vars
      BY <3>1 DEF Tomorrow, Cleanup, cleanupInactiveNodes, JoinedMembers, CheckMember,
                  removeGhostFromPortal, PortalDone, CleanupDone, cleanAside,
                  roomVars, vars
    <3>2. CASE MeshAction /\ ~RoomAction
      BY <3>2 DEF MeshAction, RoomAction, Connect, joinChannel, Handle, Receive, Acknowledge,
                  QueryFails, Return, GetByWaypointID, SetAll, WaypointQueryFails, roomVars
    <3> QED
      BY <1>2, <3>1, <3>2 DEF Next, RoomAction, MeshAction
  <2>2. RoomType
    BY TypeParts DEF Inv
  <2> QED
    BY <2>1, <2>2 DEF RoomsMove, RoomMoves, Same, RoomType
<1> QED
  BY <1>1, <1>2

(* The goroutines.                                                         *)
LEMMA ReceiveKeepsMesh ==
    ASSUME Inv, NEW t \in Threads, NEW e \in Events, Receive(t, e)
    PROVE  (MeshType /\ ThreadsOK)' /\ (waypoints \in Row \cup {None})'
<1> USE DEF At
<1>0. MeshType /\ ThreadsOK /\ waypoints \in Row \cup {None}
  BY TypeParts DEF Inv
<1>1. PICK rec : rec = IF e.kind = "waypoint"
                       THEN [pc |-> "waypoint", evt |-> e, todo |-> << >>]
                       ELSE [pc |-> "handler", evt |-> e, todo |-> handlers]
  OBVIOUS
<1>2. /\ rec \in ThreadType /\ rec.pc \in {"waypoint", "handler"} /\ rec.evt = e
      /\ e.kind = "waypoint" => rec.todo = << >>
  BY <1>0, <1>1 DEF MeshType, ThreadType, Labels
<1>3. /\ thread' = [thread EXCEPT ![t] = rec] /\ received' = received \cup {e} /\ e \notin received
      /\ UNCHANGED <<bound, handlers, inPortal, done, acked, waypoints>>
  BY <1>1 DEF Receive
<1>4. thread \in [Threads -> ThreadType] /\ done \subseteq received
  BY <1>0 DEF MeshType
<1>5. thread'[t] = rec /\ \A u \in Threads : u # t => thread'[u] = thread[u]
  BY <1>3, <1>4
<1>6. MeshType'
  <2>1. thread' \in [Threads -> ThreadType]
    BY <1>2, <1>3, <1>4
  <2> QED
    BY <1>0, <1>3, <2>1 DEF MeshType
<1>7. ThreadsOK'
  <2>1. ASSUME NEW u \in Threads, thread'[u].pc # "idle"
        PROVE  /\ thread'[u].evt \in received' \ done'
               /\ thread'[u].evt.kind = "waypoint" => thread'[u].todo = << >>
               /\ thread'[u].pc = "queue" => thread'[u].todo # << >>
                                             /\ ForLogin(thread'[u].evt, Head(thread'[u].todo))
               /\ u # t => thread'[u].evt # e
    BY <1>0, <1>2, <1>3, <1>4, <1>5, <2>1 DEF ThreadsOK
  <2>2. ASSUME NEW u \in Threads, NEW v \in Threads, thread'[u].pc # "idle", thread'[v].pc # "idle",
               thread'[u].evt = thread'[v].evt
        PROVE  u = v
    BY <1>0, <1>2, <1>5, <2>1, <2>2 DEF ThreadsOK
  <2> QED
    BY <2>1, <2>2 DEF ThreadsOK, ForLogin, IsDM
<1> QED
  BY <1>0, <1>3, <1>6, <1>7

LEMMA HandleKeepsMesh ==
    ASSUME Inv, NEW t \in Threads, Handle(t)
    PROVE  (MeshType /\ ThreadsOK)' /\ (waypoints \in Row \cup {None})'
<1> USE DEF At
<1>0. MeshType /\ ThreadsOK /\ waypoints \in Row \cup {None}
  BY TypeParts DEF Inv
<1>1. PICK rec \in ThreadType : ThreadMoves(t, rec)
  BY HandleSteps
<1>2. ~At(t, "idle")
  BY HandleSteps
<1>3. thread \in [Threads -> ThreadType] /\ thread'[t] = rec
      /\ \A u \in Threads : u # t => thread'[u] = thread[u]
  BY <1>0, <1>1 DEF MeshType, ThreadMoves
<1>4. /\ thread[t].evt \in Events /\ thread[t].evt \in received /\ thread[t].evt \notin done
      /\ thread[t].todo \in Seq(Logins)
      /\ thread[t].todo # << >> => thread[t].evt.kind # "waypoint"
  BY <1>0, <1>2, ThreadFacts
<1>5. /\ done' \subseteq received /\ acked' \subseteq received /\ waypoints' \in Row \cup {None}
      /\ \/ done' = done /\ (rec.pc # "idle" \/ rec = Idle)
         \/ done' = done \cup {thread[t].evt} /\ rec.pc = "idle"
  <2>1. thread[t].evt.from \in Nodes /\ thread[t].evt.id \in Nat
        /\ thread[t].evt.lockedTo \in Nodes \cup {None}
    BY <1>4, EventFields
  <2>2. CASE Acknowledge(t)
    <3>1. UNCHANGED <<done, waypoints>>
      BY <2>2 DEF Acknowledge
    <3>2. acked' \subseteq received
      BY <1>0, <1>4, <2>1, <2>2 DEF Acknowledge, MeshType
    <3>3. rec.pc # "idle"
      BY <1>3, <2>2 DEF Acknowledge, ThreadType
    <3> QED
      BY <1>0, <3>1, <3>2, <3>3 DEF MeshType
  <2>3. CASE QueueRemoteEvent(t) \/ QueryFails(t)
    <3>1. rec.pc # "idle"
      BY <1>3, <2>3 DEF QueueRemoteEvent, QueryFails, NextHandler, ThreadType
    <3> QED
      BY <1>0, <2>3, <3>1 DEF QueueRemoteEvent, QueryFails, MeshType
  <2>4. CASE Return(t)
    <3>1. rec.pc = "idle"
      BY <1>3, <2>4 DEF Return, Idle
    <3> QED
      BY <1>0, <1>4, <2>4, <3>1 DEF Return, MeshType
  <2>5. CASE GetByWaypointID(t)
    <3>1. rec.pc # "idle"
      BY <1>3, <2>5 DEF GetByWaypointID, ThreadType
    <3> QED
      BY <1>0, <2>5, <3>1 DEF GetByWaypointID, MeshType
  <2>6. CASE SetAll(t) \/ WaypointQueryFails(t)
    <3>1. rec.pc # "idle"
      BY <1>3, <2>6 DEF SetAll, WaypointQueryFails, ThreadType
    <3>2. waypoints' \in Row \cup {None}
      BY <1>0, <2>1, <2>6 DEF SetAll, WaypointQueryFails, Row
    <3> QED
      BY <1>0, <2>6, <3>1, <3>2 DEF SetAll, WaypointQueryFails, MeshType
  <2> QED
    BY <2>2, <2>3, <2>4, <2>5, <2>6 DEF Handle
<1>6. MeshType'
  <2>1. thread' \in [Threads -> ThreadType]
    BY <1>1, <1>3 DEF ThreadMoves
  <2> QED
    BY <1>0, <1>1, <1>5, <2>1 DEF MeshType, ThreadMoves
<1>7. ThreadsOK'
  <2>0. /\ received' = received /\ (rec.evt = thread[t].evt \/ rec.pc = "idle")
        /\ rec.pc = "queue" => rec.todo # << >> /\ ForLogin(rec.evt, Head(rec.todo))
        /\ rec.todo # << >> => thread[t].todo # << >>
    BY <1>1, <1>4 DEF ThreadMoves, Idle
  <2>1. \A u \in Threads : u # t /\ thread[u].pc # "idle" => thread[u].evt # thread[t].evt
    BY <1>0, <1>2 DEF ThreadsOK
  <2>2. ASSUME NEW u \in Threads, thread'[u].pc # "idle"
        PROVE  /\ thread'[u].evt \in received' \ done'
               /\ thread'[u].evt.kind = "waypoint" => thread'[u].todo = << >>
               /\ thread'[u].pc = "queue" => thread'[u].todo # << >>
                                             /\ ForLogin(thread'[u].evt, Head(thread'[u].todo))
    <3>1. CASE u = t
      BY <1>3, <1>4, <1>5, <2>0, <2>2, <3>1 DEF Idle
    <3>2. CASE u # t
      BY <1>0, <1>3, <1>5, <2>0, <2>1, <2>2, <3>2 DEF ThreadsOK
    <3> QED
      BY <3>1, <3>2
  <2>3. ASSUME NEW u \in Threads, NEW v \in Threads, thread'[u].pc # "idle", thread'[v].pc # "idle",
               thread'[u].evt = thread'[v].evt
        PROVE  u = v
    BY <1>0, <1>3, <2>0, <2>1, <2>3 DEF ThreadsOK
  <2> QED
    BY <2>2, <2>3 DEF ThreadsOK, ForLogin, IsDM
<1> QED
  BY <1>5, <1>6, <1>7

LEMMA MeshSteps ==
    ASSUME Inv, [Next]_vars
    PROVE  (MeshType /\ ThreadsOK)' /\ (waypoints \in Row \cup {None})'
<1>0. MeshType /\ ThreadsOK /\ waypoints \in Row \cup {None}
  BY TypeParts DEF Inv
<1>1. CASE \E t \in Threads : Handle(t) \/ \E e \in Events : Receive(t, e)
  BY <1>1, HandleKeepsMesh, ReceiveKeepsMesh
<1>2. CASE \E l \in Logins : Connect(l) \/ \E r \in ChannelRooms : joinChannel(l, r)
  <2>1. /\ UNCHANGED <<bound, thread, received, done, acked, waypoints>>
        /\ handlers' \in Seq(Logins) /\ inPortal' \in [ChannelRooms -> SUBSET Logins]
    <3>0. handlers \in Seq(Logins) /\ inPortal \in [ChannelRooms -> SUBSET Logins]
      BY <1>0 DEF MeshType
    <3>1. ASSUME NEW l \in Logins, Connect(l)
          PROVE  UNCHANGED <<bound, thread, received, done, acked, waypoints, inPortal>>
                 /\ handlers' \in Seq(Logins)
      BY <3>0, <3>1 DEF Connect
    <3>2. ASSUME NEW l \in Logins, NEW r \in ChannelRooms, joinChannel(l, r)
          PROVE  UNCHANGED <<bound, thread, received, done, acked, waypoints, handlers>>
                 /\ inPortal' \in [ChannelRooms -> SUBSET Logins]
      BY <3>0, <3>2 DEF joinChannel
    <3> QED
      BY <1>2, <3>0, <3>1, <3>2
  <2> QED
    BY <1>0, <2>1 DEF MeshType, ThreadsOK, At
<1>3. CASE ~MeshAction
  <2>1. UNCHANGED <<meshVars, waypoints>>
    <3>1. CASE Tomorrow \/ Cleanup \/ UNCHANGED vars
      BY <3>1 DEF Tomorrow, Cleanup, cleanupInactiveNodes, JoinedMembers, CheckMember,
                  removeGhostFromPortal, PortalDone, CleanupDone, cleanAside, vars
    <3>2. CASE \E r \in Rooms : \/ PortalLoop(r)
                                \/ \E l \in Logins : MatrixEvent(l, r) \/ HandleMatrixReaction(l, r)
      BY <3>2 DEF PortalLoop, HandleRemoteEvent, SendMessage, SendMessageFails, SaveMessage,
                  MatrixEvent, HandleMatrixReaction
    <3> QED
      BY <1>3, <3>1, <3>2 DEF Next, MeshAction
  <2> QED
    BY <1>0, <2>1 DEF meshVars, MeshType, ThreadsOK, At
<1> QED
  BY <1>1, <1>2, <1>3 DEF MeshAction

-----------------------------------------------------------------------------
(* The cleanup.                                                            *)
MemberType ==
    members \in [Rooms -> SUBSET Nodes] /\ activity \in [Rooms -> [Nodes -> Nat \cup {None}]]

LEMMA CleanFacts ==
    ASSUME Inv
    PROVE  /\ MemberType /\ CleanType /\ CleanupOK /\ cleanup \in CleanupType
           /\ cleanup.threshold \in Int /\ today \in Nat /\ InactivityThreshold \in Nat
           /\ ChannelRooms \subseteq Rooms
BY TypeParts, StartAssumption DEF Inv, MemberType, RoomType, CleanType, CleanupType, Rooms

(* A ghost that speaks is active, or was misjudged already.                *)
LEMMA SpeakKeepsClean ==
    ASSUME Inv, NEW r \in Rooms, NEW e \in Events, Speak(r, e), UNCHANGED <<cleanups, today>>
    PROVE  (MemberType /\ CleanType /\ CleanupOK)'
<1>0. /\ MemberType /\ CleanType /\ CleanupOK /\ today \in Nat /\ cleanup \in CleanupType
      /\ ChannelRooms \subseteq Rooms /\ e.from \in Nodes /\ e.timestamp \in Nat
  BY CleanFacts, EventFields
<1>1. members' = [members EXCEPT ![r] = members[r] \cup {e.from}]
  BY DEF Speak
<1>2. \/ activity' = activity
      \/ activity' = [activity EXCEPT ![r] = [activity[r] EXCEPT ![e.from] = e.timestamp]]
  BY <1>0 DEF Speak, MemberType
<1>3. MemberType'
  <2>1. [activity[r] EXCEPT ![e.from] = e.timestamp] \in [Nodes -> Nat \cup {None}]
    BY <1>0 DEF MemberType
  <2> QED
    BY <1>0, <1>1, <1>2, <2>1 DEF MemberType
<1>4. \A s \in Rooms, n \in Nodes : ~(s = r /\ n = e.from) => activity'[s][n] = activity[s][n]
  BY <1>0, <1>2 DEF MemberType
<1>5. /\ cleanup' \in CleanupType
      /\ cleanup'.pc = cleanup.pc /\ cleanup'.room = cleanup.room /\ cleanup'.ghost = cleanup.ghost
      /\ cleanup'.threshold = cleanup.threshold
      /\ IF cleanup.room = r /\ cleanup.ghost = e.from THEN cleanup'.misjudged
         ELSE cleanup'.misjudged = cleanup.misjudged
  BY <1>0 DEF Speak, CleanupType
<1>6. CleanupOK'
  <2>1. ASSUME cleanup.pc = "leave"
        PROVE  /\ cleanup.ghost \in Nodes
               /\ \/ cleanup'.misjudged
                  \/ /\ cleanup.ghost \notin Managed
                     /\ ~(/\ activity'[cleanup.room][cleanup.ghost] # None
                          /\ activity'[cleanup.room][cleanup.ghost] >= cleanup.threshold)
    <3>1. cleanup.room \in Rooms /\ cleanup.ghost \in Nodes
      BY <1>0, <2>1 DEF CleanupOK
    <3>2. CASE cleanup.room = r /\ cleanup.ghost = e.from
      BY <1>5, <3>1, <3>2
    <3>3. CASE ~(cleanup.room = r /\ cleanup.ghost = e.from)
      BY <1>0, <1>4, <1>5, <2>1, <3>1, <3>3 DEF CleanupOK, Active
    <3> QED
      BY <3>2, <3>3
  <2> QED
    BY <1>0, <1>5, <2>1 DEF CleanupOK, Active, Managed
<1> QED
  BY <1>0, <1>3, <1>5, <1>6 DEF CleanType

LEMMA CleanupKeepsClean ==
    ASSUME Inv, Cleanup
    PROVE  (MemberType /\ CleanType /\ CleanupOK)'
<1>0. /\ MemberType /\ CleanType /\ CleanupOK
      /\ cleanup.threshold \in Int /\ today \in Nat /\ InactivityThreshold \in Nat
      /\ ChannelRooms \subseteq Rooms /\ cleanup \in CleanupType /\ cleanups \in Nat
  BY CleanFacts DEF CleanType
<1>1. UNCHANGED <<activity, today>>
  BY DEF Cleanup, cleanupInactiveNodes, JoinedMembers, CheckMember,
         removeGhostFromPortal, PortalDone, CleanupDone, cleanAside
<1>2. CASE cleanupInactiveNodes
  <2>1. PICK d \in Int : d = today - InactivityThreshold
    BY <1>0
  <2>2. /\ cleanup' = [Resting EXCEPT !.pc = "portal", !.threshold = d, !.rooms = ChannelRooms]
        /\ cleanups' = cleanups + 1 /\ UNCHANGED members
    BY <1>2, <2>1 DEF cleanupInactiveNodes
  <2>3. /\ cleanup' \in CleanupType /\ cleanup'.pc = "portal" /\ cleanup'.threshold = d
        /\ cleanup'.ghost = None
    BY <2>1, <2>2 DEF Resting, CleanupType
  <2> QED
    BY <1>0, <1>1, <2>1, <2>2, <2>3 DEF MemberType, CleanType, CleanupOK
<1>3. CASE \/ \E r \in ChannelRooms : JoinedMembers(r)
           \/ PortalDone \/ CleanupDone
  <2>1. /\ UNCHANGED <<members, cleanups>> /\ cleanup.pc \in {"portal", "member"}
    BY <1>3 DEF JoinedMembers, PortalDone, CleanupDone
  <2>2. /\ cleanup' \in CleanupType /\ cleanup'.ghost = None
        /\ cleanup'.pc \in {"idle", "portal", "member"}
        /\ cleanup'.pc = "member" => cleanup'.room \in ChannelRooms
        /\ cleanup'.pc # "idle" => cleanup'.threshold = cleanup.threshold
    <3>1. CASE \E r \in ChannelRooms : JoinedMembers(r)
      <4>1. PICK r \in ChannelRooms : JoinedMembers(r)
        BY <3>1
      <4>2. members[r] \in SUBSET Nodes
        BY <1>0 DEF MemberType
      <4>3. cleanup.pc = "portal" /\ cleanup.ghost = None
        BY <1>0, <4>1 DEF JoinedMembers, CleanupOK
      <4>4. CASE cleanup' = [cleanup EXCEPT !.pc = "member", !.rooms = cleanup.rooms \ {r},
                                            !.room = r, !.left = members[r]]
        BY <1>0, <4>2, <4>3, <4>4 DEF CleanupType
      <4>5. CASE cleanup' = [cleanup EXCEPT !.rooms = cleanup.rooms \ {r}]
        BY <1>0, <4>3, <4>5 DEF CleanupType
      <4> QED
        BY <4>1, <4>4, <4>5 DEF JoinedMembers
    <3>2. CASE PortalDone
      BY <1>0, <3>2 DEF PortalDone, CleanupType, CleanupOK
    <3>3. CASE CleanupDone
      BY <3>3 DEF CleanupDone, CleanupType, Resting
    <3> QED
      BY <1>3, <3>1, <3>2, <3>3
  <2> QED
    BY <1>0, <1>1, <2>1, <2>2 DEF MemberType, CleanType, CleanupOK
<1>4. CASE \E n \in Nodes : CheckMember(n)
  <2>1. PICK n \in Nodes : CheckMember(n)
    BY <1>4
  <2>2. cleanup.pc = "member" /\ cleanup.room \in ChannelRooms /\ cleanup.ghost = None
        /\ UNCHANGED <<members, cleanups>>
    BY <1>0, <2>1 DEF CheckMember, CleanupOK
  <2>3. CASE cleanup' = [cleanup EXCEPT !.left = cleanup.left \ {n}]
    <3>1. /\ cleanup' \in CleanupType /\ cleanup'.pc = "member" /\ cleanup'.room = cleanup.room
          /\ cleanup'.ghost = None /\ cleanup'.threshold = cleanup.threshold
      BY <1>0, <2>2, <2>3 DEF CleanupType
    <3> QED
      BY <1>0, <1>1, <2>2, <3>1 DEF MemberType, CleanType, CleanupOK
  <2>4. CASE cleanup' = [cleanup EXCEPT !.pc = "leave", !.left = cleanup.left \ {n}, !.ghost = n,
                            !.misjudged = n \in Managed \/ Active(cleanup.room, n)]
    <3>1. PICK b \in BOOLEAN : b = (n \in Managed \/ Active(cleanup.room, n))
      OBVIOUS
    <3>2. cleanup' = [cleanup EXCEPT !.pc = "leave", !.left = cleanup.left \ {n}, !.ghost = n,
                            !.misjudged = b]
      BY <2>4, <3>1
    <3>3. /\ cleanup' \in CleanupType /\ cleanup'.pc = "leave" /\ cleanup'.room = cleanup.room
          /\ cleanup'.ghost = n /\ cleanup'.threshold = cleanup.threshold /\ cleanup'.misjudged = b
      BY <1>0, <2>2, <3>2 DEF CleanupType
    <3>4. MemberType' /\ CleanType'
      BY <1>0, <1>1, <2>2, <3>3 DEF MemberType, CleanType
    <3>5. CleanupOK'
      BY <1>0, <1>1, <2>2, <3>1, <3>3 DEF CleanupOK, Active, Managed
    <3> QED
      BY <3>4, <3>5
  <2> QED
    BY <2>1, <2>3, <2>4 DEF CheckMember
<1>5. CASE removeGhostFromPortal
  <2>1. /\ cleanup.pc = "leave" /\ cleanup.room \in ChannelRooms /\ UNCHANGED cleanups
        /\ cleanup' = [cleanup EXCEPT !.pc = "member", !.ghost = None, !.misjudged = FALSE]
        /\ \/ members' = [members EXCEPT ![cleanup.room] = members[cleanup.room] \ {cleanup.ghost}]
           \/ members' = members
    BY <1>0, <1>5 DEF removeGhostFromPortal, CleanupOK
  <2>2. /\ cleanup' \in CleanupType /\ cleanup'.pc = "member" /\ cleanup'.room = cleanup.room
        /\ cleanup'.ghost = None /\ cleanup'.threshold = cleanup.threshold
    BY <1>0, <2>1 DEF CleanupType
  <2>3. CleanupOK' /\ CleanType'
    BY <1>0, <1>1, <2>1, <2>2 DEF CleanupOK, CleanType
  <2>4. MemberType'
    BY <1>0, <1>1, <2>1 DEF MemberType
  <2> QED
    BY <2>3, <2>4
<1> QED
  BY <1>2, <1>3, <1>4, <1>5 DEF Cleanup

(* Everyone else leaves the cleanup and the ghosts' rooms alone.           *)
LEMMA OthersKeepClean ==
    ASSUME Inv, [Next]_vars, ~CleanAction
    PROVE  /\ UNCHANGED <<activity, cleanVars>> /\ MemberType'
           /\ \A r \in Rooms : members[r] \subseteq members'[r]
<1>0. MemberType /\ ChannelRooms \subseteq Rooms
  BY CleanFacts
<1>1. CASE \E l \in Logins, r \in ChannelRooms : joinChannel(l, r)
  <2>1. PICK l \in Logins, r \in ChannelRooms : joinChannel(l, r)
    BY <1>1
  <2>2. /\ UNCHANGED <<activity, cleanVars>>
        /\ \/ members' = [members EXCEPT ![r] = members[r] \cup {NodeOf[l]}]
           \/ members' = members
    BY <2>1 DEF joinChannel
  <2>3. r \in Rooms /\ NodeOf[l] \in Nodes
    BY <1>0, NodesAssumption
  <2> QED
    BY <1>0, <2>2, <2>3 DEF MemberType
<1>2. CASE ~\E l \in Logins, r \in ChannelRooms : joinChannel(l, r)
  <2>1. UNCHANGED <<members, activity, cleanVars>>
    <3>1. CASE UNCHANGED vars
      BY <3>1 DEF vars, roomVars, ghostVars
    <3>2. CASE MeshAction
      BY <1>2, <3>2 DEF MeshAction, Connect, Handle, Receive, Acknowledge, QueueRemoteEvent,
                  QueryFails, Return, GetByWaypointID, SetAll, WaypointQueryFails, roomVars, ghostVars
    <3>3. CASE \E r \in Rooms : \/ SendMessage(r) \/ SendMessageFails(r) \/ SaveMessage(r)
                                \/ \E l \in Logins : MatrixEvent(l, r) \/ HandleMatrixReaction(l, r)
      BY <3>3 DEF SendMessage, SendMessageFails, SaveMessage, MatrixEvent, HandleMatrixReaction,
                  ghostVars
    <3> QED
      BY <3>1, <3>2, <3>3 DEF Next, MeshAction, CleanAction, PortalLoop
  <2> QED
    BY <1>0, <2>1 DEF MemberType
<1> QED
  BY <1>1, <1>2

(* A portal's loop lets a ghost speak or leaves it alone.                  *)
LEMMA RemoteEventSpeaks ==
    ASSUME Inv, NEW r \in Rooms, HandleRemoteEvent(r)
    PROVE  /\ Stay \/ \E e \in Events : Speak(r, e)
           /\ UNCHANGED <<cleanups, today>>
<1>1. Head(queue[r]) \in Events
  BY HeadFacts DEF HandleRemoteEvent
<1> QED
  BY <1>1 DEF HandleRemoteEvent

LEMMA CleanSteps ==
    ASSUME Inv, [Next]_vars
    PROVE  (MemberType /\ CleanType /\ CleanupOK)'
<1>0. /\ MemberType /\ CleanType /\ CleanupOK
      /\ cleanup.threshold \in Int /\ today \in Nat /\ InactivityThreshold \in Nat
  BY CleanFacts
<1>1. CASE Cleanup
  BY <1>1, CleanupKeepsClean
<1>2. CASE Tomorrow
  <2>1. /\ today' = today + 1 /\ UNCHANGED <<members, activity, cleanup, cleanups>>
    BY <1>2 DEF Tomorrow, roomVars
  <2>2. CleanupOK'
    <3>1. cleanup.threshold <= today - InactivityThreshold
             => cleanup.threshold <= today + 1 - InactivityThreshold
      BY <1>0
    <3> QED
      BY <1>0, <2>1, <3>1 DEF CleanupOK, Active, Managed
  <2> QED
    BY <1>0, <2>1, <2>2 DEF MemberType, CleanType
<1>3. CASE \E r \in Rooms : HandleRemoteEvent(r)
  <2>1. PICK r \in Rooms : HandleRemoteEvent(r)
    BY <1>3
  <2>2. (Stay \/ \E e \in Events : Speak(r, e)) /\ UNCHANGED <<cleanups, today>>
    BY <2>1, RemoteEventSpeaks
  <2>3. CASE Stay
    BY <1>0, <2>2, <2>3 DEF Stay, MemberType, CleanType, CleanupOK, Active, Managed
  <2> QED
    BY <2>2, <2>3, SpeakKeepsClean
<1>4. CASE ~CleanAction
  <2>1. UNCHANGED <<activity, cleanVars>> /\ MemberType'
    BY <1>4, OthersKeepClean
  <2> QED
    BY <1>0, <2>1 DEF cleanVars, CleanType, CleanupOK, Active, Managed
<1> QED
  BY <1>1, <1>2, <1>3, <1>4 DEF CleanAction

-----------------------------------------------------------------------------
(* What arrived, was due or failed stays so.                               *)
LEMMA RecordsGrow ==
    ASSUME Inv, [Next]_vars
    PROVE  /\ received \subseteq received' /\ due \subseteq due' /\ ordered \subseteq ordered'
           /\ failed \subseteq failed'
           /\ (due \subseteq received)' /\ (ordered \subseteq received)' /\ (failed \subseteq received)'
           /\ written' \in Nat
<1>0. /\ due \subseteq received /\ ordered \subseteq received /\ failed \subseteq received
      /\ written \in Nat /\ MeshType /\ ThreadsOK
  BY TypeParts DEF Inv, GhostType, RoomType
<1>1. CASE \E t \in Threads, e \in Events : Receive(t, e)
  BY <1>0, <1>1 DEF Receive, roomVars
<1>2. CASE \E t \in Threads : QueryFails(t)
  <2>1. PICK t \in Threads : QueryFails(t)
    BY <1>2
  <2>2. thread[t].evt \in received
    BY <1>0, <2>1, ThreadFacts DEF QueryFails, At
  <2> QED
    BY <1>0, <2>1, <2>2 DEF QueryFails, roomVars
<1>3. CASE \E r \in Rooms, l \in Logins : MatrixEvent(l, r) \/ HandleMatrixReaction(l, r)
  BY <1>0, <1>3 DEF MatrixEvent, HandleMatrixReaction, meshVars, ghostVars
<1>4. CASE \E r \in Rooms : PortalLoop(r)
  BY <1>0, <1>4 DEF PortalLoop, HandleRemoteEvent, SendMessage, SendMessageFails, SaveMessage,
                    meshVars, ghostVars
<1>5. CASE Tomorrow \/ Cleanup \/ UNCHANGED vars
  BY <1>0, <1>5 DEF Tomorrow, Cleanup, cleanupInactiveNodes, JoinedMembers, CheckMember,
                    removeGhostFromPortal, PortalDone, CleanupDone, cleanAside,
                    vars, meshVars, roomVars, ghostVars
<1>6. CASE \/ \E l \in Logins : Connect(l) \/ \E r \in ChannelRooms : joinChannel(l, r)
           \/ \E t \in Threads : Handle(t) /\ ~QueryFails(t)
  BY <1>0, <1>6 DEF Connect, joinChannel, Handle, Acknowledge, QueueRemoteEvent, Return,
                    GetByWaypointID, SetAll, WaypointQueryFails, roomVars, ghostVars
<1> QED
  BY <1>1, <1>2, <1>3, <1>4, <1>5, <1>6 DEF Next

LEMMA TypeNext ==
    ASSUME Inv, [Next]_vars
    PROVE  TypeOK'
<1>1. MeshType' /\ (waypoints \in Row \cup {None})'
  BY MeshSteps
<1>2. MemberType' /\ CleanType'
  BY CleanSteps
<1>3. RoomsMove
  BY RoomSteps
<1>4. RoomType'
  BY <1>2, <1>3, RecordsGrow DEF RoomType, RoomsMove, MemberType
<1>5. GhostType'
  BY <1>2, RecordsGrow DEF GhostType, MemberType
<1>6. (MeshType /\ RoomType /\ waypoints \in Row \cup {None} /\ CleanType /\ GhostType)'
  BY <1>1, <1>2, <1>4, <1>5
<1> QED
  BY <1>6, TypeParts, PTL

(* A message that is being sent stays at the head of its queue.            *)
LEMMA SendsFacts ==
    ASSUME Inv, NEW r \in Rooms, NEW i \in OwnIds, Sends(r, i)
    PROVE  /\ Len(queue'[r]) = Len(queue[r]) /\ Len(queue[r]) \in Nat \ {0}
           /\ queue'[r][1].kind = "own" /\ queue'[r][1].from = queue[r][1].from
           /\ queue'[r][1].id = i /\ queue[r][1].kind = "own" /\ queue[r][1].id = None
           /\ \A k \in 2..Len(queue[r]) : queue'[r][k] = queue[r][k]
<1>1. /\ queue[r] \in Seq(Items) /\ Len(queue[r]) \in Nat \ {0} /\ queue[r][1] \in Own
      /\ queue[r][1].kind = "own" /\ queue[r][1].id = None
  BY HeadFacts DEF Sends
<1>2. PICK x : x = [queue[r][1] EXCEPT !.id = i]
  OBVIOUS
<1>3. x.kind = "own" /\ x.from = queue[r][1].from /\ x.id = i
  BY <1>1, <1>2 DEF Own
<1>4. queue'[r] = [queue[r] EXCEPT ![1] = x]
  BY <1>2 DEF Sends
<1> QED
  BY <1>1, <1>3, <1>4

LEMMA QueuesNext ==
    ASSUME Inv, [Next]_vars
    PROVE  QueuesOK'
<1>0. QueuesOK /\ received \subseteq received' /\ RoomsMove /\ sent \subseteq sent'
  BY RecordsGrow, RoomSteps DEF Inv, RoomsMove
<1>1. ASSUME NEW r \in Rooms, NEW k \in 1..Len(queue'[r])
      PROVE  IF queue'[r][k].kind = "own"
             THEN /\ r \in DMRooms => queue'[r][k].from = NodeOf[r[3]]
                  /\ queue'[r][k].id # None => <<r, queue'[r][k].id>> \in sent'
             ELSE /\ queue'[r][k] \in received' /\ queue'[r][k].kind # "waypoint"
                  /\ r \in RoomsOf(queue'[r][k])
  <2>1. queue[r] \in Seq(Items) /\ Len(queue[r]) \in Nat
    BY TypeParts DEF Inv, RoomType
  <2>2. ASSUME NEW j \in 1..Len(queue[r]), queue'[r][k] = queue[r][j]
        PROVE  IF queue'[r][k].kind = "own"
               THEN /\ r \in DMRooms => queue'[r][k].from = NodeOf[r[3]]
                    /\ queue'[r][k].id # None => <<r, queue'[r][k].id>> \in sent'
               ELSE /\ queue'[r][k] \in received' /\ queue'[r][k].kind # "waypoint"
                    /\ r \in RoomsOf(queue'[r][k])
    BY <1>0, <2>2 DEF QueuesOK
  <2>3. CASE Same(r)
    BY <2>2, <2>3 DEF Same
  <2>4. CASE \E x \in Items : Joins(r, x)
    <3>1. PICK x \in Items : Joins(r, x)
      BY <2>4
    <3>2. \/ k \in 1..Len(queue[r]) /\ queue'[r][k] = queue[r][k]
          \/ queue'[r][k] = x
      BY <2>1, <3>1 DEF Joins
    <3>3. CASE queue'[r][k] = x
      BY <1>0, <3>1, <3>3 DEF Joins
    <3> QED
      BY <2>2, <3>2, <3>3
  <2>5. CASE Leaves(r)
    <3>1. k + 1 \in 1..Len(queue[r]) /\ queue'[r][k] = queue[r][k + 1]
      BY <2>5, HeadFacts DEF Leaves
    <3> QED
      BY <2>2, <3>1
  <2>6. CASE \E i \in OwnIds : Sends(r, i)
    <3>1. PICK i \in OwnIds : Sends(r, i)
      BY <2>6
    <3>2. CASE k = 1
      <4>1. 1 \in 1..Len(queue[r])
        BY <3>1, SendsFacts
      <4> QED
        BY <1>0, <3>1, <3>2, <4>1, SendsFacts DEF QueuesOK, Sends
    <3>3. CASE k # 1
      <4>1. k \in 2..Len(queue[r]) /\ k \in 1..Len(queue[r])
        BY <3>1, <3>3, SendsFacts
      <4> QED
        BY <2>2, <3>1, <4>1, SendsFacts
    <3> QED
      BY <3>2, <3>3
  <2> QED
    BY <1>0, <2>3, <2>4, <2>5, <2>6 DEF RoomsMove, RoomMoves
<1> QED
  BY <1>1 DEF QueuesOK

(* A room's table gets one message at a time, from the head of its queue.  *)
LEMMA MessagesNext ==
    ASSUME Inv, [Next]_vars
    PROVE  DirectStaysPrivate' /\ OriginOK'
<1>0. /\ RoomsMove /\ received \subseteq received' /\ sent \subseteq sent'
      /\ DirectStaysPrivate /\ OriginOK
  BY RecordsGrow, RoomSteps DEF Inv, RoomsMove
<1>1. ASSUME NEW r \in Rooms
      PROVE  \/ messages'[r] = messages[r]
             \/ \E m : LET q == Head(queue[r]) IN
                  /\ Leaves(r) /\ messages'[r] = messages[r] \cup {m} /\ m.from = q.from
                  /\ \/ q.kind = "message" /\ m.id = IdOf(q)
                     \/ q.kind = "own" /\ q.id # None /\ m.id = IdIn(r, q.id)
  <2>1. CASE Leaves(r)
    BY <2>1 DEF Leaves
  <2>2. CASE ~Leaves(r)
    BY <1>0, <2>2 DEF RoomsMove, RoomMoves, Same, Joins, Sends
  <2> QED
    BY <2>1, <2>2
<1>2. OriginOK'
  <2>1. ASSUME NEW r \in Rooms, NEW n \in messages'[r], NEW id, id = n.id
        PROVE  \/ \E e \in received' : e.kind = "message" /\ r \in RoomsOf(e) /\ IdOf(e) = id
               \/ \E p \in sent' : p[1] = r /\ IdIn(r, p[2]) = id
    <3>1. CASE n \in messages[r]
      BY <1>0, <2>1, <3>1 DEF OriginOK, CameWith
    <3>2. CASE n \notin messages[r]
      <4>1. PICK q : q = Head(queue[r])
        OBVIOUS
      <4>2. /\ Leaves(r)
            /\ \/ q.kind = "message" /\ n.id = IdOf(q)
               \/ q.kind = "own" /\ q.id # None /\ n.id = IdIn(r, q.id)
        BY <1>1, <2>1, <3>2, <4>1
      <4>3. /\ q = queue[r][1] /\ 1 \in 1..Len(queue[r])
            /\ q.kind = "message" => q \in received /\ r \in RoomsOf(q)
        BY <4>1, <4>2, HeadFacts DEF Leaves
      <4>4. q.kind = "own" /\ q.id # None => <<r, q.id>> \in sent
        BY <4>3 DEF Inv, QueuesOK
      <4>5. CASE q.kind = "message" /\ n.id = IdOf(q)
        BY <1>0, <2>1, <4>3, <4>5
      <4>6. CASE q.kind = "own" /\ q.id # None /\ n.id = IdIn(r, q.id)
        <5>1. <<r, q.id>> \in sent' /\ <<r, q.id>>[1] = r /\ <<r, q.id>>[2] = q.id
          BY <1>0, <4>4, <4>6
        <5> QED
          BY <2>1, <4>6, <5>1
      <4> QED
        BY <4>2, <4>5, <4>6
    <3> QED
      BY <3>1, <3>2
  <2> QED
    BY <2>1 DEF OriginOK, CameWith, RoomsOf, IdOf, IdIn, MakeMessageID, MessIDSender, IsDM
<1>3. ASSUME NEW r \in DMRooms, NEW n \in messages'[r]
      PROVE  \/ n.from = NodeOf[r[3]]
             \/ \E e \in received' : /\ e.kind = "message" /\ IsDM(e) /\ e.id = n.id[2]
                                     /\ n.from = e.from /\ e.from = r[1] /\ e.to = NodeOf[r[3]]
  <2>0. r \in Rooms
    BY DEF Rooms
  <2>1. CASE n \in messages[r]
    BY <1>0, <2>1 DEF DirectStaysPrivate
  <2>2. CASE n \notin messages[r]
    <3>1. PICK q : q = Head(queue[r])
      OBVIOUS
    <3>2. /\ Leaves(r) /\ n.from = q.from /\ (q.kind = "message" => n.id = IdOf(q))
          /\ q.kind \in {"own", "message"}
      BY <1>1, <2>0, <2>2, <3>1
    <3>3. /\ q = queue[r][1] /\ 1 \in 1..Len(queue[r])
          /\ q.kind = "message" => q \in Events /\ q \in received /\ r \in RoomsOf(q)
      BY <2>0, <3>1, <3>2, HeadFacts DEF Leaves
    <3>4. CASE q.kind = "own"
      BY <2>0, <3>2, <3>3, <3>4 DEF Inv, QueuesOK
    <3>5. CASE q.kind = "message"
      <4>1. IsDM(q) /\ r[1] = q.from /\ NodeOf[r[3]] = q.to
        BY <3>3, <3>5, RoomOfEvent
      <4>2. n.id[2] = q.id
        BY <3>2, <3>5 DEF IdOf, MakeMessageID
      <4> QED
        BY <1>0, <3>2, <3>3, <3>5, <4>1, <4>2
    <3> QED
      BY <3>2, <3>4, <3>5
  <2> QED
    BY <2>1, <2>2
<1>4. DirectStaysPrivate'
  BY <1>3 DEF DirectStaysPrivate, IsDM
<1> QED
  BY <1>2, <1>4

LEMMA NextKeepsInv == Inv /\ [Next]_vars => Inv'
BY TypeNext, MeshSteps, CleanSteps, QueuesNext, MessagesNext DEF Inv

(* The strengthening holds in every reachable state.                       *)
THEOREM Invariance == Spec => []Inv
BY InitInv, NextKeepsInv, PTL DEF Spec

(* The types, for any logins, channels and events.                         *)
THEOREM TypeCorrect == Spec => []TypeOK
<1>1. Inv => TypeOK
  BY DEF Inv
<1> QED
  BY <1>1, Invariance, PTL

(* A direct chat shows only what its remote node sent to its user and what *)
(* the user wrote, whatever the number of logins whose handlers see every  *)
(* message (handleMeshMessage).                                            *)
THEOREM DirectAlwaysPrivate == Spec => []DirectStaysPrivate
<1>1. Inv => DirectStaysPrivate
  BY DEF Inv
<1> QED
  BY <1>1, Invariance, PTL

(* The cleanup takes only inactive ghosts it judged rightly out of a room, *)
(* for any threshold and any number of rooms and ghosts                    *)
(* (cleanupInactiveNodes, removeGhostFromPortal).                          *)
THEOREM ActiveGhostsAlwaysStay == Spec => ActiveGhostsStay
<1>1. ASSUME Inv, [Next]_vars, NEW r \in ChannelRooms, NEW n \in members[r] \ members'[r],
             ~cleanup.misjudged
      PROVE  /\ n \notin Managed
             /\ activity[r][n] # None => activity[r][n] < today - InactivityThreshold
  <2>0. /\ MemberType /\ CleanupOK /\ r \in Rooms /\ n \in Nodes
        /\ cleanup.threshold \in Int /\ today \in Nat /\ InactivityThreshold \in Nat
    BY <1>1, CleanFacts DEF MemberType
  <2>1. removeGhostFromPortal
    <3>1. CASE ~CleanAction
      BY <1>1, <2>0, <3>1, OthersKeepClean
    <3>2. CASE \E s \in Rooms : HandleRemoteEvent(s)
      BY <1>1, <2>0, <3>2, RemoteEventSpeaks DEF Stay, Speak, MemberType
    <3>3. CASE Tomorrow \/ (Cleanup /\ ~removeGhostFromPortal)
      BY <1>1, <3>3 DEF Tomorrow, roomVars, Cleanup, cleanupInactiveNodes, JoinedMembers, CheckMember,
                        PortalDone, CleanupDone
    <3> QED
      BY <3>1, <3>2, <3>3 DEF CleanAction
  <2>2. /\ cleanup.pc = "leave" /\ cleanup.room = r /\ cleanup.ghost = n
    BY <1>1, <2>0, <2>1 DEF removeGhostFromPortal, MemberType
  <2>3. n \notin Managed /\ ~Active(r, n) /\ cleanup.threshold <= today - InactivityThreshold
    BY <1>1, <2>0, <2>2 DEF CleanupOK
  <2>4. ASSUME activity[r][n] # None PROVE activity[r][n] < today - InactivityThreshold
    <3>1. PICK a \in Nat : a = activity[r][n]
      BY <2>0, <2>4 DEF MemberType
    <3>2. ~(a >= cleanup.threshold)
      BY <2>3, <2>4, <3>1 DEF Active
    <3> QED
      BY <2>0, <2>3, <3>1, <3>2
  <2> QED
    BY <2>3, <2>4
<1>2. Inv /\ [Next]_vars =>
        [\A r \in ChannelRooms : \A n \in members[r] \ members'[r] :
            \/ cleanup.misjudged
            \/ /\ n \notin Managed
               /\ activity[r][n] # None => activity[r][n] < today - InactivityThreshold]_vars
  BY <1>1
<1> QED
  BY <1>2, Invariance, PTL DEF Spec, ActiveGhostsStay

-----------------------------------------------------------------------------
(* Rooms lose nothing: what is stored stays, what a queue will provide is  *)
(* provided.                                                               *)
LEMMA RoomGrows ==
    ASSUME Inv, [Next]_vars, NEW r \in Rooms
    PROVE  /\ messages[r] \subseteq messages'[r] /\ reactions[r] \subseteq reactions'[r]
           /\ \A id : HasMessage(r, id) => HasMessage(r, id)'
<1>1. \A s \in Rooms : RoomMoves(s)
  BY RoomSteps DEF RoomsMove
<1>2. \A s \in Rooms : messages[s] \subseteq messages'[s] /\ reactions[s] \subseteq reactions'[s]
  BY <1>1 DEF RoomMoves, Same, Joins, Leaves, Sends
<1> QED
  BY <1>2, HasMessageGrows

LEMMA QueueType ==
    ASSUME Inv, NEW r \in Rooms
    PROVE  /\ queue[r] \in Seq(Items) /\ Len(queue[r]) \in Nat
           /\ \A k \in 1..Len(queue[r]) : queue[r][k] \in Items
BY TypeParts DEF Inv, RoomType

LEMMA ProvidedStays ==
    ASSUME Inv, [Next]_vars, NEW r \in Rooms, NEW id, Provided(r, id)
    PROVE  Provided(r, id)'
<1>0. RoomMoves(r) /\ queue[r] \in Seq(Items) /\ Len(queue[r]) \in Nat
  BY RoomSteps, QueueType DEF RoomsMove
<1>1. SUFFICES HasMessage(r, id)' \/ \E j \in 1..Len(queue'[r]) : Provides(r, queue'[r][j], id)
  BY DEF Provided, Provides, IdOf, MakeMessageID, MessIDSender, IsDM, IdIn
<1>2. CASE HasMessage(r, id)
  BY <1>2, RoomGrows
<1>3. CASE \E k \in 1..Len(queue[r]) : Provides(r, queue[r][k], id)
  <2>1. PICK k \in 1..Len(queue[r]) : Provides(r, queue[r][k], id)
    BY <1>3
  <2>2. CASE Same(r)
    BY <2>1, <2>2 DEF Same
  <2>3. CASE \E x \in Items : Joins(r, x)
    <3>1. k \in 1..Len(queue'[r]) /\ queue'[r][k] = queue[r][k]
      BY <1>0, <2>3 DEF Joins
    <3> QED
      BY <2>1, <3>1
  <2>4. CASE Leaves(r)
    <3>1. CASE k = 1
      BY <2>1, <2>4, <3>1, HeadFacts DEF Leaves
    <3>2. CASE k # 1
      <4>1. k - 1 \in 1..Len(queue'[r]) /\ queue'[r][k - 1] = queue[r][k]
        BY <2>4, <3>2, HeadFacts DEF Leaves
      <4> QED
        BY <2>1, <4>1
    <3> QED
      BY <3>1, <3>2
  <2>5. CASE \E i \in OwnIds : Sends(r, i)
    <3>1. PICK i \in OwnIds : Sends(r, i)
      BY <2>5
    <3>2. k # 1
      BY <2>1, <3>1, SendsFacts DEF Provides
    <3>3. k \in 1..Len(queue'[r]) /\ queue'[r][k] = queue[r][k]
      BY <3>1, <3>2, SendsFacts
    <3> QED
      BY <2>1, <3>3
  <2> QED
    BY <1>0, <2>2, <2>3, <2>4, <2>5 DEF RoomMoves
<1> QED
  BY <1>2, <1>3 DEF Provided

(* A step that makes an event due or puts it in order receives it.         *)
LEMMA NewRecords ==
    ASSUME Inv, [Next]_vars, NEW e
    PROVE  /\ e \in due' /\ e \notin due => \E t \in Threads : Receive(t, e) /\ Audience(e) # {}
           /\ e \in ordered' /\ e \notin ordered =>
                 \E t \in Threads :
                    /\ Receive(t, e)
                    /\ \/ \E p \in sent : p[2] = e.replyId /\ p[1] \in RoomsOf(e)
                       \/ \E m \in (done \cap due) \ failed :
                             m.kind = "message" /\ m.id = e.replyId /\ RoomsOf(m) = RoomsOf(e)
<1>1. CASE \E t \in Threads, f \in Events : Receive(t, f)
  <2>1. PICK t \in Threads, f \in Events : Receive(t, f)
    BY <1>1
  <2>2. /\ due' = due \/ (due' = due \cup {f} /\ Audience(f) # {})
        /\ \/ ordered' = ordered
           \/ /\ ordered' = ordered \cup {f}
              /\ \/ \E p \in sent : p[2] = f.replyId /\ p[1] \in RoomsOf(f)
                 \/ \E m \in (done \cap due) \ failed :
                       m.kind = "message" /\ m.id = f.replyId /\ RoomsOf(m) = RoomsOf(f)
    BY <2>1 DEF Receive
  <2> QED
    BY <2>1, <2>2
<1>2. CASE \E t \in Threads : Handle(t)
  BY <1>2 DEF Handle, Acknowledge, QueueRemoteEvent, QueryFails, Return, GetByWaypointID, SetAll,
              WaypointQueryFails, ghostVars
<1>3. CASE \E r \in Rooms : \/ PortalLoop(r)
                            \/ \E l \in Logins : MatrixEvent(l, r) \/ HandleMatrixReaction(l, r)
  BY <1>3 DEF PortalLoop, HandleRemoteEvent, SendMessage, SendMessageFails, SaveMessage, MatrixEvent,
              HandleMatrixReaction, ghostVars
<1>4. CASE Tomorrow \/ Cleanup \/ UNCHANGED vars
  BY <1>4 DEF Tomorrow, Cleanup, cleanupInactiveNodes, JoinedMembers, CheckMember,
              removeGhostFromPortal, PortalDone, CleanupDone, cleanAside, vars, ghostVars
<1>5. CASE \E l \in Logins : Connect(l) \/ \E r \in ChannelRooms : joinChannel(l, r)
  BY <1>5 DEF Connect, joinChannel, ghostVars
<1> QED
  BY <1>1, <1>2, <1>3, <1>4, <1>5 DEF Next

(* The goroutines that a step leaves alone; a login stays in its portals.  *)
LEMMA ThreadStays ==
    ASSUME Inv, [Next]_vars, NEW t \in Threads
    PROVE  /\ thread'[t] = thread[t] \/ Handle(t) \/ \E e \in Events : Receive(t, e)
           /\ \A e \in Events, l \in Logins : Wants(e, l) => Wants(e, l)'
<1>0. thread \in [Threads -> ThreadType] /\ inPortal \in [ChannelRooms -> SUBSET Logins]
  BY TypeParts DEF Inv, MeshType
<1>1. CASE \E u \in Threads : Handle(u)
  <2>1. PICK u \in Threads : Handle(u)
    BY <1>1
  <2>2. PICK rec \in ThreadType : ThreadMoves(u, rec)
    BY <2>1, HandleSteps
  <2> QED
    BY <1>0, <2>1, <2>2 DEF ThreadMoves, Wants, InPortal, ForLogin, IsDM, makePortalKey
<1>2. CASE \E u \in Threads, e \in Events : Receive(u, e)
  BY <1>0, <1>2 DEF Receive, Wants, InPortal, ForLogin, IsDM, makePortalKey
<1>3. CASE \E l \in Logins : Connect(l) \/ \E r \in ChannelRooms : joinChannel(l, r)
  <2>1. thread' = thread /\ \A r \in ChannelRooms : inPortal[r] \subseteq inPortal'[r]
    BY <1>0, <1>3 DEF Connect, joinChannel
  <2> QED
    BY <2>1, EventFields DEF Wants, InPortal, ForLogin, IsDM, ChannelRooms, makePortalKey
<1>4. CASE ~MeshAction
  <2>1. UNCHANGED meshVars
    <3>1. CASE Tomorrow \/ Cleanup \/ UNCHANGED vars
      BY <3>1 DEF Tomorrow, Cleanup, cleanupInactiveNodes, JoinedMembers, CheckMember,
                  removeGhostFromPortal, PortalDone, CleanupDone, cleanAside, vars
    <3>2. CASE \E r \in Rooms : \/ PortalLoop(r)
                                \/ \E l \in Logins : MatrixEvent(l, r) \/ HandleMatrixReaction(l, r)
      BY <3>2 DEF PortalLoop, HandleRemoteEvent, SendMessage, SendMessageFails, SaveMessage,
                  MatrixEvent, HandleMatrixReaction
    <3> QED
      BY <1>4, <3>1, <3>2 DEF Next, MeshAction
  <2> QED
    BY <2>1 DEF meshVars, Wants, InPortal, ForLogin, IsDM, makePortalKey
<1> QED
  BY <1>1, <1>2, <1>3, <1>4 DEF MeshAction

-----------------------------------------------------------------------------
(* What a reaction in order needs is provided when it arrives: the message *)
(* was sent, or all handlers are done with it and it did not get lost.     *)
LEMMA NewTarget ==
    ASSUME Inv, WayInv, [Next]_vars, NEW e, e \in ordered', e \notin ordered, NEW r \in RoomsOf(e)
    PROVE  r \in Rooms /\ Provided(r, Target(r, e))
<1>1. PICK t \in Threads :
         /\ Receive(t, e)
         /\ \/ \E p \in sent : p[2] = e.replyId /\ p[1] \in RoomsOf(e)
            \/ \E m \in (done \cap due) \ failed :
                  m.kind = "message" /\ m.id = e.replyId /\ RoomsOf(m) = RoomsOf(e)
  BY NewRecords
<1>2. e \in Events /\ received \subseteq Events /\ done \subseteq received
  <2>1. /\ received' \subseteq Events /\ ordered' \subseteq received'
        /\ received \subseteq Events /\ done \subseteq received
    BY MeshSteps, RecordsGrow, TypeParts DEF Inv, MeshType
  <2> QED
    BY <2>1
<1>3. r \in Rooms /\ \A s \in RoomsOf(e) : s = r
  BY <1>2, RoomOfEvent
<1>4. CASE \E p \in sent : p[2] = e.replyId /\ p[1] \in RoomsOf(e)
  <2>1. PICK p \in sent : p[2] = e.replyId /\ p[1] = r
    BY <1>3, <1>4
  <2>2. Provided(p[1], IdIn(p[1], p[2]))
    BY <2>1 DEF WayInv, InOrder
  <2> QED
    BY <1>3, <2>1, <2>2 DEF Target
<1>5. CASE \E m \in (done \cap due) \ failed :
              m.kind = "message" /\ m.id = e.replyId /\ RoomsOf(m) = RoomsOf(e)
  <2>1. PICK m \in (done \cap due) \ failed :
           m.kind = "message" /\ m.id = e.replyId /\ RoomsOf(m) = RoomsOf(e)
    BY <1>5
  <2>2. m \in Events
    BY <1>2, <2>1
  <2>3. IdOf(m) = Target(r, e)
    <3>1. r[1] = MessIDSender(m)
      BY <2>1, <2>2, RoomOfEvent
    <3> QED
      BY <2>1, <3>1 DEF IdOf, Target, IdIn
  <2>4. ~UnderWay(m)
    BY <2>1 DEF UnderWay, Inv, ThreadsOK, At
  <2>5. Queued(m) \/ Shown(m)
    BY <2>1, <2>4 DEF WayInv, NotLost
  <2>6. CASE Shown(m)
    BY <1>3, <2>1, <2>3, <2>6 DEF Shown, Provided
  <2>7. CASE Queued(m)
    <3>1. PICK k \in 1..Len(queue[r]) : queue[r][k] = m
      BY <1>3, <2>1, <2>7 DEF Queued
    <3>2. Provides(r, queue[r][k], Target(r, e))
      BY <2>1, <2>3, <3>1 DEF Provides
    <3> QED
      BY <1>3, <3>2 DEF Provided
  <2> QED
    BY <2>5, <2>6, <2>7
<1> QED
  BY <1>1, <1>4, <1>5

(* What is in a queue already is not new.                                  *)
LEMMA QueuedIsOld ==
    ASSUME Inv, [Next]_vars, NEW q \in Items, q \in ordered', q.kind # "own" => q \in received
    PROVE  q \in ordered /\ q.kind # "own"
<1>1. ordered' \subseteq received' /\ received' \subseteq Events
  BY MeshSteps, RecordsGrow DEF MeshType
<1>2. q.kind # "own"
  BY <1>1, EventFields
<1> QED
  BY <1>2, NewRecords DEF Receive

LEMMA FrontNext ==
    ASSUME Inv, WayInv, [Next]_vars, NEW r \in Rooms, NEW k \in 1..Len(queue'[r]),
           queue'[r][k] \in ordered'
    PROVE  \/ \E s \in Rooms : /\ Receiver(s) = Receiver(r)
                              /\ \E m \in messages'[s] : m.id = Target(r, queue'[r][k])
           \/ \E j \in 1..k - 1 : Provides(r, queue'[r][j], Target(r, queue'[r][k]))
<1>0. /\ RoomMoves(r) /\ queue[r] \in Seq(Items) /\ Len(queue[r]) \in Nat
      /\ \A j \in 1..Len(queue[r]) : queue[r][j] \in Items
  BY RoomSteps, QueueType DEF RoomsMove
<1>q. PICK q : q = queue'[r][k]
  OBVIOUS
<1> DEFINE id == Target(r, q)
<1>1. SUFFICES HasMessage(r, id)' \/ \E j \in 1..k - 1 : Provides(r, queue'[r][j], id)
  BY <1>q DEF HasMessage, Stored, Receiver
<1>2. ASSUME NEW j \in 1..Len(queue[r]), q = queue[r][j]
      PROVE  HasMessage(r, id) \/ \E i \in 1..j - 1 : Provides(r, queue[r][i], id)
  <2>1. q \in ordered
    <3>1. q.kind # "own" => q \in received
      BY <1>2 DEF Inv, QueuesOK
    <3> QED
      BY <1>0, <1>2, <1>q, <3>1, QueuedIsOld
  <2> QED
    BY <1>2, <2>1 DEF WayInv, InOrder
<1>3. HasMessage(r, id) => HasMessage(r, id)'
  BY RoomGrows
<1> HIDE DEF id
<1>4. CASE Same(r)
  BY <1>2, <1>3, <1>4, <1>q DEF Same
<1>5. CASE \E x \in Items : Joins(r, x)
  <2>1. PICK x \in Items : Joins(r, x)
    BY <1>5
  <2>2. /\ \A j \in 1..Len(queue[r]) : queue'[r][j] = queue[r][j]
        /\ k \in 1..Len(queue[r]) \/ (k = Len(queue[r]) + 1 /\ q = x)
    BY <1>0, <1>q, <2>1 DEF Joins
  <2>3. CASE k \in 1..Len(queue[r])
    <3>1. \A j \in 1..k - 1 : queue'[r][j] = queue[r][j]
      BY <1>0, <2>2, <2>3
    <3> QED
      BY <1>2, <1>3, <1>q, <2>2, <2>3, <3>1
  <2>4. CASE k = Len(queue[r]) + 1 /\ q = x
    <3>1. x.kind # "own" => x \in received /\ r \in RoomsOf(x)
      BY <2>1 DEF Joins
    <3>2. x \in ordered /\ r \in RoomsOf(x)
      BY <1>q, <2>4, <3>1, QueuedIsOld
    <3>3. Provided(r, id)
      BY <2>4, <3>2 DEF WayInv, InOrder, id
    <3>4. 1..k - 1 = 1..Len(queue[r])
      BY <1>0, <2>4
    <3> QED
      BY <1>3, <2>2, <3>3, <3>4 DEF Provided
  <2> QED
    BY <2>2, <2>3, <2>4
<1>6. CASE Leaves(r)
  <2>1. /\ k + 1 \in 1..Len(queue[r]) /\ q = queue[r][k + 1]
        /\ \A j \in 2..k : queue'[r][j - 1] = queue[r][j] /\ j - 1 \in 1..k - 1
    BY <1>6, <1>q, HeadFacts DEF Leaves
  <2>2. Provides(r, queue[r][1], id) => HasMessage(r, id)'
    BY <1>6, HeadFacts DEF Leaves
  <2>3. HasMessage(r, id) \/ \E i \in 1..k : Provides(r, queue[r][i], id)
    BY <1>2, <2>1
  <2>4. ASSUME NEW i \in 1..k, i # 1, Provides(r, queue[r][i], id)
        PROVE  i - 1 \in 1..k - 1 /\ Provides(r, queue'[r][i - 1], id)
    <3>1. i \in 2..k
      BY <2>4
    <3> QED
      BY <2>1, <2>4, <3>1
  <2> QED
    BY <1>3, <2>2, <2>3, <2>4
<1>7. CASE \E i \in OwnIds : Sends(r, i)
  <2>1. PICK i \in OwnIds : Sends(r, i)
    BY <1>7
  <2>2. k # 1
    <3>1. ordered' \subseteq Events
      BY MeshSteps, RecordsGrow DEF MeshType
    <3> QED
      BY <2>1, <3>1, SendsFacts, EventFields
  <2>3. k \in 1..Len(queue[r]) /\ q = queue[r][k]
    BY <1>q, <2>1, <2>2, SendsFacts
  <2>4. \A j \in 1..k - 1 : Provides(r, queue[r][j], id) => queue'[r][j] = queue[r][j]
    <3>1. ~Provides(r, queue[r][1], id)
      BY <2>1, SendsFacts DEF Provides
    <3> QED
      BY <2>1, <2>3, <3>1, SendsFacts
  <2> QED
    BY <1>2, <1>3, <2>3, <2>4
<1> QED
  BY <1>0, <1>4, <1>5, <1>6, <1>7 DEF RoomMoves

LEMMA OrderNext ==
    ASSUME Inv, WayInv, [Next]_vars
    PROVE  InOrder'
<1>1. ASSUME NEW p \in sent' PROVE Provided(p[1], IdIn(p[1], p[2]))'
  <2>0. PICK r \in Rooms, i \in OwnIds : p = <<r, i>>
    BY RoomSteps DEF RoomsMove
  <2>1. SUFFICES Provided(r, IdIn(r, i))'
    BY <2>0
  <2>2. p \in sent \/ Sends(r, i)
    BY <2>0, RoomSteps DEF RoomsMove
  <2>3. CASE p \in sent
    <3>1. Provided(r, IdIn(r, i))
      BY <2>0, <2>3 DEF WayInv, InOrder
    <3> QED
      BY <3>1, ProvidedStays
  <2>4. CASE Sends(r, i)
    <3>1. 1 \in 1..Len(queue'[r]) /\ queue'[r][1].kind = "own" /\ queue'[r][1].id = i
      BY <2>4, SendsFacts
    <3> QED
      BY <3>1, NodesAssumption DEF Provided, Provides, MakeMessageID, IdIn
  <2> QED
    BY <2>2, <2>3, <2>4
<1>2. ASSUME NEW e \in ordered', NEW r \in RoomsOf(e) PROVE Provided(r, Target(r, e))'
  <2>1. r \in Rooms /\ Provided(r, Target(r, e))
    <3>1. CASE e \in ordered
      <4>1. e \in Events
        BY <3>1, TypeParts DEF Inv, GhostType, MeshType
      <4> QED
        BY <3>1, <4>1, RoomOfEvent DEF WayInv, InOrder
    <3> QED
      BY <3>1, NewTarget
  <2> QED
    BY <2>1, ProvidedStays
<1>3. ASSUME NEW r \in Rooms, NEW k \in 1..Len(queue'[r]), queue'[r][k] \in ordered'
      PROVE  (HasMessage(r, Target(r, queue[r][k]))
                \/ \E j \in 1..k - 1 : Provides(r, queue[r][j], Target(r, queue[r][k])))'
  BY <1>3, FrontNext DEF HasMessage, Stored, Receiver, Provides, Target, IdIn, MakeMessageID, IdOf,
                         MessIDSender, IsDM
<1> QED
  BY <1>1, <1>2, <1>3 DEF InOrder

-----------------------------------------------------------------------------
(* An event goes from the handlers to the queue of its room and from there *)
(* to the tables, and is in one of these places all the time.              *)
LEMMA UnderWayNext ==
    ASSUME Inv, [Next]_vars, NEW e \in Events, UnderWay(e), e \notin failed'
    PROVE  UnderWay(e)' \/ Queued(e)'
<1> USE DEF At
<1>0. MeshType /\ ThreadsOK /\ RoomType
  BY TypeParts DEF Inv
<1>1. PICK t \in Threads : /\ thread[t].pc \in {"handler", "queue"} /\ thread[t].evt = e
                           /\ \E k \in 1..Len(thread[t].todo) : Wants(e, thread[t].todo[k])
  BY DEF UnderWay
<1>2. PICK k \in 1..Len(thread[t].todo) : Wants(e, thread[t].todo[k])
  BY <1>1
<1>3. /\ thread[t] \in ThreadType /\ thread[t].todo \in Seq(Logins)
      /\ thread \in [Threads -> ThreadType]
  BY <1>0, <1>1, ThreadFacts DEF MeshType
<1>4. PICK todo \in Seq(Logins) : todo = thread[t].todo
  BY <1>3
<1>5. PICK l \in Logins : l = todo[k] /\ k \in 1..Len(todo) /\ Wants(e, l)
  BY <1>2, <1>4
<1>6. /\ todo # << >> /\ Len(todo) \in Nat /\ Head(todo) = todo[1]
      /\ k # 1 => k - 1 \in 1..Len(Tail(todo)) /\ Tail(todo)[k - 1] = l
  BY <1>5
<1>7. ASSUME thread'[t].pc \in {"handler", "queue"}, thread'[t].evt = e,
             \E j \in 1..Len(thread'[t].todo) : thread'[t].todo[j] = l
      PROVE  UnderWay(e)'
  <2>1. ForLogin(e, l) /\ (IsDM(e) \/ l \in inPortal'[<<e.channel, e.key>>])
    <3>1. Wants(e, l)'
      BY <1>5, ThreadStays
    <3> QED
      BY <3>1 DEF Wants, InPortal, ForLogin, IsDM, makePortalKey
  <2> QED
    BY <1>7, <2>1 DEF UnderWay, Wants, InPortal, ForLogin, IsDM, makePortalKey
<1>8. CASE thread'[t] = thread[t]
  BY <1>1, <1>4, <1>5, <1>7, <1>8
<1>9. CASE \E f \in Events : Receive(t, f)
  BY <1>1, <1>9 DEF Receive
<1>10. CASE Acknowledge(t)
  <2>1. CASE ForLogin(e, Head(todo))
    <3>1. thread'[t] = [thread[t] EXCEPT !.pc = "queue"]
      BY <1>1, <1>3, <1>4, <1>10, <2>1 DEF Acknowledge
    <3>2. thread'[t].pc = "queue" /\ thread'[t].evt = e /\ thread'[t].todo = todo
      BY <1>1, <1>3, <1>4, <3>1 DEF ThreadType
    <3> QED
      BY <1>5, <1>7, <3>2
  <2>2. CASE ~ForLogin(e, Head(todo))
    <3>1. thread'[t] = [thread[t] EXCEPT !.todo = Tail(todo)] /\ thread[t].pc = "handler"
      BY <1>1, <1>3, <1>4, <1>10, <2>2 DEF Acknowledge
    <3>2. thread'[t].pc = "handler" /\ thread'[t].evt = e /\ thread'[t].todo = Tail(todo)
      BY <1>1, <1>3, <3>1 DEF ThreadType
    <3>3. k # 1
      BY <1>5, <1>6, <2>2 DEF Wants
    <3> QED
      BY <1>6, <1>7, <3>2, <3>3
  <2> QED
    BY <2>1, <2>2
<1>11. CASE QueueRemoteEvent(t)
  <2>1. thread'[t] = [thread[t] EXCEPT !.pc = "handler", !.todo = Tail(todo)]
    BY <1>3, <1>4, <1>11 DEF QueueRemoteEvent, NextHandler
  <2>2. thread'[t].pc = "handler" /\ thread'[t].evt = e /\ thread'[t].todo = Tail(todo)
    BY <1>1, <1>3, <2>1 DEF ThreadType
  <2>3. CASE k # 1
    BY <1>6, <1>7, <2>2, <2>3
  <2>4. CASE k = 1
    <3>1. PICK r : r = PortalKey(e, l)
      OBVIOUS
    <3>2. r \in RoomsOf(e) /\ r \in Rooms
      BY <1>5, <3>1, RoomOfEvent DEF Wants
    <3>3. queue' = [queue EXCEPT ![r] = Append(queue[r], e)]
      BY <1>1, <1>4, <1>5, <1>6, <1>11, <2>4, <3>1 DEF QueueRemoteEvent, Wants
    <3>4. queue \in [Rooms -> Seq(Items)] /\ e \in Items
      BY <1>0 DEF RoomType, Items
    <3>5. \E j \in 1..Len(queue'[r]) : queue'[r][j] = e
      <4>1. queue[r] \in Seq(Items) /\ Len(queue[r]) \in Nat /\ queue'[r] = Append(queue[r], e)
        BY <3>2, <3>3, <3>4
      <4>2. PICK q \in Seq(Items) : q = queue[r]
        BY <4>1
      <4>3. Len(q) + 1 \in 1..Len(Append(q, e)) /\ Append(q, e)[Len(q) + 1] = e
        BY <3>4
      <4> QED
        BY <4>1, <4>2, <4>3
    <3> QED
      BY <3>2, <3>5 DEF Queued
  <2> QED
    BY <2>3, <2>4
<1>12. CASE QueryFails(t)
  BY <1>1, <1>12 DEF QueryFails
<1>13. CASE Return(t)
  BY <1>4, <1>6, <1>13 DEF Return
<1>14. CASE GetByWaypointID(t) \/ SetAll(t) \/ WaypointQueryFails(t)
  BY <1>1, <1>14 DEF GetByWaypointID, SetAll, WaypointQueryFails
<1> QED
  BY <1>8, <1>9, <1>10, <1>11, <1>12, <1>13, <1>14, ThreadStays DEF Handle

LEMMA QueuedNext ==
    ASSUME Inv, WayInv, [Next]_vars, NEW e \in Events, Queued(e)
    PROVE  /\ e.kind = "message" => Queued(e)' \/ Shown(e)'
           /\ e.kind = "reaction" /\ e \in ordered => Queued(e)' \/ Attached(e)'
<1>0. PICK r \in RoomsOf(e) : \E k \in 1..Len(queue[r]) : queue[r][k] = e
  BY DEF Queued
<1>1. PICK k \in 1..Len(queue[r]) : queue[r][k] = e
  BY <1>0
<1>2. r \in Rooms /\ e.kind # "own"
  BY <1>1, RoomOfEvent, EventFields
<1>3. RoomMoves(r) /\ queue[r] \in Seq(Items) /\ Len(queue[r]) \in Nat
  BY <1>2, RoomSteps, QueueType DEF RoomsMove
<1>4. ASSUME NEW j \in 1..Len(queue'[r]), queue'[r][j] = e PROVE Queued(e)'
  BY <1>1, <1>4 DEF Queued
<1>5. CASE Same(r)
  BY <1>1, <1>4, <1>5 DEF Same
<1>6. CASE \E x \in Items : Joins(r, x)
  <2>1. k \in 1..Len(queue'[r]) /\ queue'[r][k] = e
    BY <1>1, <1>3, <1>6 DEF Joins
  <2> QED
    BY <1>4, <2>1
<1>7. CASE Leaves(r)
  <2>1. CASE k # 1
    <3>1. k - 1 \in 1..Len(queue'[r]) /\ queue'[r][k - 1] = e
      BY <1>1, <1>2, <1>7, <2>1, HeadFacts DEF Leaves
    <3> QED
      BY <1>4, <3>1
  <2>2. CASE k = 1
    <3>1. Head(queue[r]) = e
      BY <1>1, <1>2, <1>7, <2>2, HeadFacts DEF Leaves
    <3>2. CASE e.kind = "message"
      <4>1. PICK id : id = IdOf(e)
        OBVIOUS
      <4>2. HasMessage(r, id)'
        BY <1>7, <3>1, <3>2, <4>1 DEF Leaves, Provides
      <4>3. \E s \in RoomsOf(e) : HasMessage(s, id)'
        BY <4>2
      <4>4. Shown(e)'
        BY <4>1, <4>3 DEF Shown, IdOf, MakeMessageID, MessIDSender, RoomsOf, IsDM
      <4> QED
        BY <3>2, <4>4
    <3>3. CASE e.kind = "reaction" /\ e \in ordered
      <4>1. HasMessage(r, Target(r, e))
        BY <1>1, <1>2, <2>2, <3>3 DEF WayInv, InOrder
      <4>2. [target |-> Target(r, e), from |-> e.from] \in reactions'[r]
        BY <1>7, <3>1, <3>3, <4>1 DEF Leaves
      <4>3. Attached(e)'
        BY <1>1, <4>2 DEF Attached, Target, IdIn, MakeMessageID
      <4> QED
        BY <3>3, <4>3
    <3> QED
      BY <3>2, <3>3
  <2> QED
    BY <2>1, <2>2
<1>8. CASE \E i \in OwnIds : Sends(r, i)
  <2>1. PICK i \in OwnIds : Sends(r, i)
    BY <1>8
  <2>2. k # 1
    BY <1>1, <1>2, <2>1, SendsFacts
  <2>3. k \in 1..Len(queue'[r]) /\ queue'[r][k] = e
    BY <1>1, <1>2, <2>1, <2>2, SendsFacts
  <2> QED
    BY <1>4, <2>3
<1> QED
  BY <1>3, <1>5, <1>6, <1>7, <1>8 DEF RoomMoves

LEMMA TablesNext ==
    ASSUME Inv, [Next]_vars, NEW e \in Events
    PROVE  (Shown(e) => Shown(e)') /\ (Attached(e) => Attached(e)')
<1>0. PICK id : id = IdOf(e)
  OBVIOUS
<1>1. \A r \in RoomsOf(e) : /\ HasMessage(r, id) => HasMessage(r, id)'
                           /\ reactions[r] \subseteq reactions'[r]
  BY RoomOfEvent, RoomGrows
<1>2. ASSUME Shown(e) PROVE Shown(e)'
  <2>1. \E r \in RoomsOf(e) : HasMessage(r, id)'
    BY <1>0, <1>1, <1>2 DEF Shown
  <2> QED
    BY <1>0, <2>1 DEF Shown, IdOf, MakeMessageID, MessIDSender, RoomsOf, IsDM
<1>3. ASSUME Attached(e) PROVE Attached(e)'
  BY <1>1, <1>3 DEF Attached, Target, IdIn, MakeMessageID
<1> QED
  BY <1>2, <1>3

(* The handlers of a new event include one that wants it.                  *)
LEMMA NewUnderWay ==
    ASSUME Inv, [Next]_vars, NEW e \in Events, e \in due', e \notin due
    PROVE  /\ \E l \in Logins : ForLogin(e, l)
           /\ e.kind # "waypoint" => UnderWay(e)'
<1>1. PICK t \in Threads : Receive(t, e) /\ Audience(e) # {}
  BY NewRecords
<1>2. PICK l \in Logins, k \in 1..Len(handlers) :
         handlers[k] = l /\ ForLogin(e, l) /\ InPortal(e, l)
  BY <1>1 DEF Audience
<1>3. ForLogin(e, l) /\ Wants(e, l)
  BY <1>2 DEF Wants
<1>4. ASSUME e.kind # "waypoint" PROVE UnderWay(e)'
  <2>1. thread \in [Threads -> ThreadType]
    BY TypeParts DEF Inv, MeshType
  <2>2. /\ thread'[t] = [pc |-> "handler", evt |-> e, todo |-> handlers]
        /\ inPortal' = inPortal
    BY <1>1, <1>4, <2>1 DEF Receive
  <2>3. /\ thread'[t].pc = "handler" /\ thread'[t].evt = e
        /\ k \in 1..Len(thread'[t].todo) /\ thread'[t].todo[k] = l
    BY <1>2, <2>2
  <2> QED
    BY <1>3, <2>2, <2>3 DEF UnderWay, Wants, InPortal, ForLogin, IsDM, makePortalKey
<1> QED
  BY <1>3, <1>4

LEMMA LostNext ==
    ASSUME Inv, WayInv, [Next]_vars
    PROVE  NotLost'
<1>1. ASSUME NEW e \in due', e \notin failed'
      PROVE  /\ \E l \in Logins : ForLogin(e, l)
             /\ e.kind = "message" => UnderWay(e)' \/ Queued(e)' \/ Shown(e)'
             /\ e.kind = "reaction" /\ e \in ordered' => UnderWay(e)' \/ Queued(e)' \/ Attached(e)'
  <2>1. e \in Events /\ e \notin failed /\ due \subseteq received
    <3>1. due' \subseteq received' /\ received' \subseteq Events /\ failed \subseteq failed'
      BY RecordsGrow, MeshSteps DEF MeshType
    <3> QED
      BY <1>1, <3>1, TypeParts DEF Inv, GhostType
  <2>2. CASE e \notin due
    BY <2>1, <2>2, NewUnderWay
  <2>3. CASE e \in due
    <3>1. /\ \E l \in Logins : ForLogin(e, l)
          /\ e.kind = "message" => UnderWay(e) \/ Queued(e) \/ Shown(e)
          /\ e.kind = "reaction" /\ e \in ordered => UnderWay(e) \/ Queued(e) \/ Attached(e)
      BY <2>1, <2>3 DEF WayInv, NotLost
    <3>2. e \in ordered' => e \in ordered
      BY <2>1, <2>3, NewRecords DEF Receive
    <3>3. UnderWay(e) => UnderWay(e)' \/ Queued(e)'
      BY <1>1, <2>1, UnderWayNext
    <3>4. Queued(e) => /\ e.kind = "message" => Queued(e)' \/ Shown(e)'
                       /\ e.kind = "reaction" /\ e \in ordered => Queued(e)' \/ Attached(e)'
      BY <2>1, QueuedNext
    <3>5. (Shown(e) => Shown(e)') /\ (Attached(e) => Attached(e)')
      BY <2>1, TablesNext
    <3> QED
      BY <3>1, <3>2, <3>3, <3>4, <3>5
  <2> QED
    BY <2>2, <2>3
<1> QED
  BY <1>1 DEF NotLost, ForLogin, IsDM

LEMMA InitWay == Init => WayInv
BY DEF Init, WayInv, NotLost, InOrder

(* What the handlers were to deliver is always somewhere on its way, and   *)
(* reactions wait behind what they need.                                   *)
THEOREM WayInvariance == Spec => []WayInv
<1>1. Inv /\ WayInv /\ [Next]_vars => WayInv'
  BY OrderNext, LostNext DEF WayInv
<1> QED
  BY <1>1, InitWay, Invariance, PTL DEF Spec

LEMMA RestIsEmpty ==
    ASSUME AtRest, Inv, NEW e \in Events
    PROVE  ~UnderWay(e) /\ ~Queued(e)
<1>1. \A r \in RoomsOf(e) : Len(queue[r]) = 0
  BY RoomOfEvent DEF AtRest
<1> QED
  BY <1>1 DEF AtRest, UnderWay, Queued, At

(* The row with the id is in the room, or the id was another room's.       *)
LEMMA StoredOrTaken ==
    ASSUME Inv, NEW r \in Rooms, NEW id, HasMessage(r, id)
    PROVE  Stored(r, id) \/ IdTaken(r, id)
<1>1. PICK s \in Rooms : Receiver(s) = Receiver(r) /\ Stored(s, id)
  BY DEF HasMessage
<1>2. CameWith(s, id)
  BY <1>1 DEF Inv, OriginOK, Stored
<1> QED
  BY <1>1, <1>2 DEF IdTaken, CameWith

(* No message that was due is lost on the way between the handlers of the  *)
(* logins, its room's queue and the room, for any number of logins, rooms  *)
(* and receiving goroutines (handleMeshMessage, QueueRemoteEvent).         *)
THEOREM DueAlwaysShown == Spec => []DueIsShown
<1>1. ASSUME Inv, WayInv PROVE DueIsShown
  <2>1. ASSUME AtRest, NEW e \in due \ failed, e.kind = "message"
        PROVE  \E r \in RoomsOf(e) : Stored(r, IdOf(e)) \/ IdTaken(r, IdOf(e))
    <3>1. e \in Events
      BY <1>1, <2>1, TypeParts DEF Inv, GhostType, MeshType
    <3>2. Shown(e)
      BY <1>1, <2>1, <3>1, RestIsEmpty DEF WayInv, NotLost
    <3>3. PICK r \in RoomsOf(e) : HasMessage(r, IdOf(e))
      BY <3>2 DEF Shown
    <3>4. r \in Rooms
      BY <3>1, RoomOfEvent
    <3> QED
      BY <1>1, <3>3, <3>4, StoredOrTaken
  <2> QED
    BY <2>1 DEF DueIsShown
<1> QED
  BY <1>1, Invariance, WayInvariance, PTL

(* A reaction that comes after its message, or to a Matrix message that is *)
(* being sent, ends up attached to it, in a channel and in a direct chat   *)
(* (handleMeshReaction, HandleMatrixMessage).                              *)
THEOREM ReactionsAlwaysAttach == Spec => []ReactionsAttach
<1>1. ASSUME Inv, WayInv PROVE ReactionsAttach
  <2>1. ASSUME AtRest, NEW e \in (due \cap ordered) \ failed, NEW r \in RoomsOf(e),
               e.kind = "reaction"
        PROVE  /\ [target |-> IdIn(r, e.replyId), from |-> e.from] \in reactions[r]
               /\ Stored(r, IdIn(r, e.replyId)) \/ IdTaken(r, IdIn(r, e.replyId))
    <3>1. e \in Events
      BY <1>1, <2>1, TypeParts DEF Inv, GhostType, MeshType
    <3>2. Attached(e)
      BY <1>1, <2>1, <3>1, RestIsEmpty DEF WayInv, NotLost
    <3>3. r \in Rooms /\ \A s \in RoomsOf(e) : s = r
      BY <3>1, RoomOfEvent
    <3>4. Provided(r, IdIn(r, e.replyId)) /\ Len(queue[r]) = 0
      BY <1>1, <2>1, <3>3 DEF WayInv, InOrder, Target, AtRest
    <3>5. HasMessage(r, IdIn(r, e.replyId))
      BY <3>4 DEF Provided
    <3>6. Stored(r, IdIn(r, e.replyId)) \/ IdTaken(r, IdIn(r, e.replyId))
      BY <1>1, <3>3, <3>5, StoredOrTaken
    <3> QED
      BY <3>2, <3>3, <3>6 DEF Attached, Target
  <2> QED
    BY <2>1 DEF ReactionsAttach
<1> QED
  BY <1>1, Invariance, WayInvariance, PTL
=============================================================================
