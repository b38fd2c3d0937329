---------------------------- MODULE MessageRooms ----------------------------
(***************************************************************************)
(* What becomes of messages, reactions and waypoints between the mesh and  *)
(* the Matrix rooms: handleMeshMessage, handleMeshReaction and             *)
(* handleMeshWaypoint in pkg/connector/handle_meshtastic.go,               *)
(* HandleMatrixMessage in handle_matrix.go and the inactive node cleanup   *)
(* in background_tasks.go.                                                 *)
(*                                                                         *)
(* A receiving goroutine runs the handler of every login for every event,  *)
(* one after the other.  Handlers put events on the queue of a portal; the *)
(* portal's loop, which belongs to the bridge framework (external), takes  *)
(* one event of either side at a time, tells messages apart by their ids   *)
(* and keeps them in its database.  It looks an id up under the receiver   *)
(* of the portal: all channel portals have none and share their ids, the   *)
(* direct chats of a login share theirs.  (SplitPortals is off.)           *)
(***************************************************************************)
EXTENDS Integers, FiniteSets, Sequences

CONSTANTS
    Threads,             \* receiving goroutines
    Logins, Nodes, NodeOf,   \* user logins; node ids; meta.NodeID of a login
    ChannelNames, Keys,  \* names and key strings of channels
    Broadcast,           \* meshid.BROADCAST_ID
    Events,              \* what the mesh may send, see Event
    OwnIds,              \* packet ids that SendMessage may return
    FirstHandlers,       \* the logins connected at start, in order
    Members,             \* [ChannelRooms -> SUBSET Logins], logins in the portals at start
    InactivityThreshold, \* days
    Bounds,              \* bounds on the environment, see Bound
    None

(* The mesh events of this module.  key is None for a packet that came in  *)
(* the clear: only tryDecryptPSK sets one.  replyId is None for no reply;  *)
(* lockedTo and isDelete are about waypoints only.  timestamp is the day   *)
(* that the gateway gave the packet (rx_time), or the one it came on.      *)
Event == [kind : {"message", "reaction", "waypoint"}, id : Nat, from : Nodes,
          to : Nodes \cup {Broadcast}, channel : ChannelNames, key : Keys \cup {None},
          wantAck : BOOLEAN, timestamp : Nat,
          replyId : Nat \cup {None}, lockedTo : Nodes \cup {None}, isDelete : BOOLEAN]

Managed == {NodeOf[l] : l \in Logins}

IsDM(e) == e.to # Broadcast

(* MakePortalID: no key and an empty one, which a channel joined with its  *)
(* encryption off has, give the same portal.                               *)
makePortalKey(name, key) == <<name, key>>
makeDMPortalKey(remote, synth, l) == <<remote, synth, l>>
ChannelRooms == {makePortalKey(name, key) : name \in ChannelNames, key \in Keys \cup {None}}
DMRooms == {makeDMPortalKey(n, s, l) : n \in Nodes \ Managed, s \in Managed, l \in Logins}
Rooms == ChannelRooms \cup DMRooms
Receiver(r) == IF r \in ChannelRooms THEN None ELSE r[3]

MakeMessageID(senderOrChannel, packetId) == <<senderOrChannel, packetId>>
MessageIds == (Nodes \cup ChannelNames) \X Nat

(* The room of an event for a login, and the id of a packet in that room.  *)
PortalKey(e, l) ==
    IF IsDM(e) THEN makeDMPortalKey(e.from, e.to, l) ELSE makePortalKey(e.channel, e.key)

(* Variant: a direct message is filed under its receiver.                  *)
MessIDSenderReceiver(e) == IF IsDM(e) THEN e.to ELSE e.channel

MessIDSender(e) == IF IsDM(e) THEN e.from ELSE e.channel

(* The rooms that an event is for.                                         *)
RoomsOf(e) ==
    IF IsDM(e) THEN {r \in DMRooms : r[1] = e.from /\ r[2] = e.to /\ NodeOf[r[3]] = e.to}
               ELSE {makePortalKey(e.channel, e.key)}

IdOf(e) == MakeMessageID(MessIDSender(e), e.id)

(* In a room the sender part of an id is the same for both directions: the *)
(* name of the channel, or the remote node of a direct chat.               *)
IdIn(r, packetId) == MakeMessageID(r[1], packetId)

(* What the environment may do in one behaviour: the events it sends, who  *)
(* joins what, the numbers of Connects, Matrix messages, days, cleanups.   *)
Bound == [events : SUBSET Events, joins : SUBSET (Logins \X ChannelRooms), connects : Nat,
          own : Nat, days : Nat, cleanups : Nat]

(* The id of a login is made from its node id (MakeUserLoginID).           *)
ASSUME NodesAssumption ==
    /\ NodeOf \in [Logins -> Nodes] /\ \A k, l \in Logins : NodeOf[k] = NodeOf[l] => k = l
    /\ Broadcast \notin Nodes /\ None \notin Nodes \cup Logins \cup OwnIds \cup Nat
ASSUME EventsAssumption ==
    /\ Events \subseteq Event /\ OwnIds \subseteq Nat
    /\ \A e \in Events : e.from \notin Managed /\ e.to \in Managed \cup {Broadcast}
ASSUME StartAssumption ==
    /\ FirstHandlers \in Seq(Logins) /\ Members \in [ChannelRooms -> SUBSET Logins]
    /\ InactivityThreshold \in Nat /\ Bounds \subseteq Bound

VARIABLES
    bound,       \* the bounds of this behaviour
    handlers,    \* c.eventHandlers without the global one: logins, in order
    inPortal,    \* GetUserLoginsInPortal
    thread,      \* what each receiving goroutine does
    received,    \* the events that arrived
    done,        \* the events all handlers are done with
    acked,       \* the events an acknowledgement was sent for
    queue,       \* the portals' event queues
    messages,    \* the message table, by the room a row is in
    reactions,   \* the reaction table, by room
    members,     \* ghosts joined to a room
    activity,    \* latest timestamp of a ghost's rows in a room, None for no row
    today,
    waypoints,   \* the waypoint table
    written,     \* Matrix messages so far
    sent,        \* their packets on the mesh
    cleanup,     \* the cleanup task
    cleanups,    \* how often it ran
    due,         \* events some login was to see when they arrived
    ordered,     \* reactions whose message was queued or sent before them
    failed       \* events that a failing query took away

meshVars   == <<bound, handlers, inPortal, thread, received, done, acked>>
roomVars   == <<queue, messages, reactions, members, activity, sent, written>>
cleanVars  == <<cleanup, cleanups, today>>
ghostVars  == <<due, ordered, failed>>
vars == <<meshVars, roomVars, waypoints, cleanVars, ghostVars>>

Idle == [pc |-> "idle", evt |-> None, todo |-> << >>]
Resting == [pc |-> "idle", threshold |-> 0, rooms |-> {}, room |-> None, left |-> {}, ghost |-> None,
            misjudged |-> FALSE]

Init ==
    /\ bound \in Bounds
    /\ handlers = FirstHandlers
    /\ inPortal = Members
    /\ thread = [t \in Threads |-> Idle]
    /\ received = {} /\ done = {} /\ acked = {}
    /\ queue = [r \in Rooms |-> << >>]
    /\ messages = [r \in Rooms |-> {}]
    /\ reactions = [r \in Rooms |-> {}]
    /\ members = [r \in Rooms |-> IF r \in ChannelRooms THEN {NodeOf[l] : l \in Members[r]} ELSE {}]
    /\ activity = [r \in Rooms |-> [n \in Nodes |-> None]]
    /\ today = 0
    /\ waypoints = None
    /\ sent = {} /\ written = 0
    /\ cleanup = Resting /\ cleanups = 0
    /\ due = {} /\ ordered = {} /\ failed = {}

-----------------------------------------------------------------------------
(* Logins.                                                                 *)

(* Connect appends a handler; none is ever removed.                        *)
Connect(l) ==
    /\ Len(handlers) < Len(FirstHandlers) + bound.connects
    /\ handlers' = Append(handlers, l)
    /\ UNCHANGED <<bound, inPortal, thread, received, done, acked, roomVars, waypoints, cleanVars, ghostVars>>

(* joinChannel: the login is in the portal, and the first one brings the   *)
(* ghost of its node along.                                                *)
joinChannel(l, r) ==
    /\ <<l, r>> \in bound.joins /\ l \notin inPortal[r]
    /\ inPortal' = [inPortal EXCEPT ![r] = @ \cup {l}]
    /\ members' = IF inPortal[r] = {} THEN [members EXCEPT ![r] = @ \cup {NodeOf[l]}] ELSE members
    /\ UNCHANGED <<bound, handlers, thread, received, done, acked, queue, messages, reactions,
                   activity, sent, written, waypoints, cleanVars, ghostVars>>

-----------------------------------------------------------------------------
(* From the mesh to the portals.                                           *)
At(t, l) == thread[t].pc = l

(* notifyEvent: the handlers of this moment will see the event, the global *)
(* one, which is for waypoints, first; the logins' handlers ignore those.  *)
(* A Matrix message can be answered once it was transmitted.               *)
OfOwn(e) == e.replyId \in OwnIds
InPortal(e, l) == IsDM(e) \/ l \in inPortal[makePortalKey(e.channel, e.key)]
ForLogin(e, l) == ~IsDM(e) \/ NodeOf[l] = e.to
Audience(e) ==
    {l \in Logins : /\ \E k \in 1..Len(handlers) : handlers[k] = l
                    /\ ForLogin(e, l) /\ InPortal(e, l)}

Receive(t, e) ==
    /\ At(t, "idle")
    /\ e \in bound.events \ received
    /\ OfOwn(e) => \E p \in sent : p[2] = e.replyId
    /\ received' = received \cup {e}
    /\ thread' = [thread EXCEPT ![t] =
          IF e.kind = "waypoint"
          THEN [pc |-> "waypoint", evt |-> e, todo |-> << >>]
          ELSE [pc |-> "handler", evt |-> e, todo |-> handlers]]
    /\ due' = IF Audience(e) # {} THEN due \cup {e} ELSE due
    /\ ordered' = IF \/ \E p \in sent : p[2] = e.replyId /\ p[1] \in RoomsOf(e)
                     \/ \E m \in (done \cap due) \ failed : /\ m.kind = "message" /\ m.id = e.replyId
                                                            /\ RoomsOf(m) = RoomsOf(e)
                  THEN ordered \cup {e} ELSE ordered
    /\ UNCHANGED <<bound, handlers, inPortal, done, acked, roomVars, waypoints, cleanVars, failed>>

(* Variant: the receiver of a direct message is not compared.              *)
AcknowledgeAny(t) ==
    LET e == thread[t].evt IN
    /\ At(t, "handler") /\ thread[t].todo # << >>
    /\ thread' = [thread EXCEPT ![t].pc = "queue"]
    /\ acked' = IF e.wantAck THEN acked \cup {e} ELSE acked
    /\ UNCHANGED <<bound, handlers, inPortal, received, done, roomVars, waypoints, cleanVars, ghostVars>>

(* The first part of handleMeshMessage and handleMeshReaction, up to the   *)
(* acknowledgement, which waits for the connectors.                        *)
Acknowledge(t) ==
    LET e == thread[t].evt  l == Head(thread[t].todo) IN
    /\ At(t, "handler") /\ thread[t].todo # << >>
    /\ IF ForLogin(e, l)
       THEN /\ thread' = [thread EXCEPT ![t].pc = "queue"]
            /\ acked' = IF e.wantAck THEN acked \cup {e} ELSE acked
       ELSE /\ thread' = [thread EXCEPT ![t].todo = Tail(@)]
            /\ UNCHANGED acked
    /\ UNCHANGED <<bound, handlers, inPortal, received, done, roomVars, waypoints, cleanVars, ghostVars>>

NextHandler(t) == thread' = [thread EXCEPT ![t].pc = "handler", ![t].todo = Tail(@)]

(* Variant: direct messages are held to a channel's membership too.        *)
QueueRemoteEventMembersOnly(t) ==
    LET e == thread[t].evt  l == Head(thread[t].todo) IN
    /\ At(t, "queue")
    /\ queue' = IF l \in inPortal[makePortalKey(e.channel, e.key)]
                THEN [queue EXCEPT ![PortalKey(e, l)] = Append(@, e)]
                ELSE queue
    /\ NextHandler(t)
    /\ UNCHANGED <<bound, handlers, inPortal, received, done, acked, messages, reactions, members,
                   activity, sent, written, waypoints, cleanVars, ghostVars>>

(* The second part: a channel's event is only for the logins in its        *)
(* portal.                                                                 *)
QueueRemoteEvent(t) ==
    LET e == thread[t].evt  l == Head(thread[t].todo) IN
    /\ At(t, "queue")
    /\ queue' = IF InPortal(e, l)
                THEN [queue EXCEPT ![PortalKey(e, l)] = Append(@, e)]
                ELSE queue
    /\ NextHandler(t)
    /\ UNCHANGED <<bound, handlers, inPortal, received, done, acked, messages, reactions, members,
                   activity, sent, written, waypoints, cleanVars, ghostVars>>

(* GetUserLoginsInPortal fails and the handler returns.                    *)
QueryFails(t) ==
    /\ At(t, "queue") /\ ~IsDM(thread[t].evt)
    /\ NextHandler(t)
    /\ failed' = failed \cup {thread[t].evt}
    /\ UNCHANGED <<bound, handlers, inPortal, received, done, acked, roomVars, waypoints, cleanVars,
                   due, ordered>>

(* notifyEvent's loop ends.                                                *)
Return(t) ==
    /\ At(t, "handler") /\ thread[t].todo = << >>
    /\ done' = done \cup {thread[t].evt}
    /\ thread' = [thread EXCEPT ![t] = Idle]
    /\ UNCHANGED <<bound, handlers, inPortal, received, acked, roomVars, waypoints, cleanVars, ghostVars>>

(* handleMeshWaypoint.  MeshWaypointEvent.WaypointID is never assigned, so *)
(* all waypoints share the row of id 0; an update is refused when the row  *)
(* is locked to another node.                                              *)
GetByWaypointID(t) ==
    LET e == thread[t].evt
        refused == waypoints # None /\ waypoints.lockedTo \notin {None, e.from} IN
    /\ At(t, "waypoint")
    /\ waypoints' = IF e.isDelete THEN None ELSE waypoints
    /\ thread' = [thread EXCEPT ![t].pc = IF e.isDelete \/ refused THEN "handler" ELSE "save"]
    /\ UNCHANGED <<bound, handlers, inPortal, received, done, acked, roomVars, cleanVars, ghostVars>>

SetAll(t) ==
    LET e == thread[t].evt IN
    /\ At(t, "save")
    /\ waypoints' = [lockedTo |-> e.lockedTo, updatedBy |-> e.from]
    /\ thread' = [thread EXCEPT ![t].pc = "handler"]
    /\ UNCHANGED <<bound, handlers, inPortal, received, done, acked, roomVars, cleanVars, ghostVars>>

(* The query for the row, its deletion or SetAll fails: the row stays.     *)
WaypointQueryFails(t) ==
    /\ thread[t].pc \in {"waypoint", "save"}
    /\ thread' = [thread EXCEPT ![t].pc = "handler"]
    /\ UNCHANGED <<bound, handlers, inPortal, received, done, acked, roomVars, waypoints, cleanVars,
                   ghostVars>>

-----------------------------------------------------------------------------
(* The portals' loops.                                                     *)
Stored(r, id) == \E m \in messages[r] : m.id = id
HasMessage(r, id) == \E s \in Rooms : Receiver(s) = Receiver(r) /\ Stored(s, id)

(* A ghost says something in a room: it joins if it has to, and its row    *)
(* has the event's timestamp.  A cleanup that judged it is overtaken.      *)
Speak(r, e) ==
    /\ members' = [members EXCEPT ![r] = @ \cup {e.from}]
    /\ activity' = IF activity[r][e.from] # None /\ activity[r][e.from] >= e.timestamp THEN activity
                   ELSE [activity EXCEPT ![r][e.from] = e.timestamp]
    /\ cleanup' = IF cleanup.room = r /\ cleanup.ghost = e.from
                  THEN [cleanup EXCEPT !.misjudged = TRUE] ELSE cleanup

Stay == UNCHANGED <<members, activity, cleanup>>

(* A remote message is stored unless its id is known; a remote reaction    *)
(* only if its target is known, and not twice with the same emoji.         *)
HandleRemoteEvent(r) ==
    LET e == Head(queue[r])
        target == MakeMessageID(MessIDSender(e), e.replyId)
        row == [target |-> target, from |-> e.from] IN
    /\ queue[r] # << >> /\ e.kind # "own"
    /\ queue' = [queue EXCEPT ![r] = Tail(@)]
    /\ \/ /\ e.kind = "message" /\ ~HasMessage(r, IdOf(e))
          /\ messages' = [messages EXCEPT ![r] = @ \cup {[id |-> IdOf(e), from |-> e.from]}]
          /\ Speak(r, e) /\ UNCHANGED reactions
       \/ /\ e.kind = "reaction" /\ HasMessage(r, target)
          /\ reactions' = [reactions EXCEPT ![r] = @ \cup {row}]
          /\ Speak(r, e) /\ UNCHANGED messages
       \/ /\ \/ e.kind = "message" /\ HasMessage(r, IdOf(e))
             \/ e.kind = "reaction" /\ (row \in reactions[r] \/ ~HasMessage(r, target))
          /\ Stay /\ UNCHANGED <<messages, reactions>>
    /\ UNCHANGED <<meshVars, sent, written, waypoints, cleanups, today, ghostVars>>

(* A user writes in a room.                                                *)
MayWrite(l, r) ==
    IF r \in ChannelRooms THEN l \in inPortal[r] ELSE r[3] = l /\ r[2] = NodeOf[l]

MatrixEvent(l, r) ==
    /\ written < bound.own
    /\ written' = written + 1
    /\ MayWrite(l, r)
    /\ queue' = [queue EXCEPT ![r] = Append(@, [kind |-> "own", from |-> NodeOf[l], id |-> None])]
    /\ UNCHANGED <<meshVars, messages, reactions, members, activity, sent, waypoints, cleanVars, ghostVars>>

OwnAtHead(r) == queue[r] # << >> /\ Head(queue[r]).kind = "own"

(* HandleMatrixMessage: SendMessage returns once the packet is out on the  *)
(* connectors, or fails; the loop waits.                                   *)
SendMessage(r) ==
    /\ OwnAtHead(r) /\ Head(queue[r]).id = None
    /\ \E i \in OwnIds :
          /\ \A p \in sent : p[2] # i
          /\ sent' = sent \cup {<<r, i>>}
          /\ queue' = [queue EXCEPT ![r][1].id = i]
    /\ UNCHANGED <<meshVars, messages, reactions, members, activity, written, waypoints, cleanVars, ghostVars>>

SendMessageFails(r) ==
    /\ OwnAtHead(r) /\ Head(queue[r]).id = None
    /\ queue' = [queue EXCEPT ![r] = Tail(@)]
    /\ UNCHANGED <<meshVars, messages, reactions, members, activity, sent, written, waypoints, cleanVars, ghostVars>>

(* Variant: HandleMatrixMessage does not look at SendMessage's error.      *)
SaveMessageUnsent(r) ==
    LET m == Head(queue[r])  id == IdIn(r, m.id) IN
    /\ OwnAtHead(r)
    /\ queue' = [queue EXCEPT ![r] = Tail(@)]
    /\ messages' = IF HasMessage(r, id) THEN messages
                   ELSE [messages EXCEPT ![r] = @ \cup {[id |-> id, from |-> m.from]}]
    /\ UNCHANGED <<meshVars, reactions, members, activity, sent, written, waypoints, cleanVars, ghostVars>>

(* The framework saves the message under the id HandleMatrixMessage made.  *)
SaveMessage(r) ==
    LET m == Head(queue[r])  id == IdIn(r, m.id) IN
    /\ OwnAtHead(r) /\ m.id # None
    /\ queue' = [queue EXCEPT ![r] = Tail(@)]
    /\ messages' = IF HasMessage(r, id) THEN messages
                   ELSE [messages EXCEPT ![r] = @ \cup {[id |-> id, from |-> m.from]}]
    /\ UNCHANGED <<meshVars, reactions, members, activity, sent, written, waypoints, cleanVars, ghostVars>>

(* HandleMatrixReaction: the packet id of the target goes out again, and   *)
(* the reaction is saved; a failed one leaves nothing.                     *)
HandleMatrixReaction(l, r) ==
    /\ written < bound.own
    /\ queue[r] = << >> /\ MayWrite(l, r)
    /\ \E m \in messages[r] :
          reactions' = [reactions EXCEPT ![r] = @ \cup {[target |-> m.id, from |-> NodeOf[l]]}]
    /\ written' = written + 1
    /\ UNCHANGED <<meshVars, queue, messages, members, activity, sent, waypoints, cleanVars, ghostVars>>

-----------------------------------------------------------------------------
(* The inactive node cleanup.                                              *)
Tomorrow ==
    /\ today < bound.days
    /\ today' = today + 1
    /\ UNCHANGED <<meshVars, roomVars, waypoints, cleanup, cleanups, ghostVars>>

cleanAside == <<meshVars, queue, messages, reactions, activity, sent, written, waypoints, today, due, ordered, failed>>

cleanupInactiveNodes ==
    /\ cleanup.pc = "idle" /\ cleanups < bound.cleanups
    /\ cleanup' = [Resting EXCEPT !.pc = "portal", !.threshold = today - InactivityThreshold,
                                  !.rooms = ChannelRooms]
    /\ cleanups' = cleanups + 1
    /\ UNCHANGED <<members, cleanAside>>

(* JoinedMembers of the next portal; when it fails the portal is skipped.  *)
JoinedMembers(r) ==
    /\ cleanup.pc = "portal" /\ r \in cleanup.rooms
    /\ \/ cleanup' = [cleanup EXCEPT !.pc = "member", !.rooms = @ \ {r}, !.room = r, !.left = members[r]]
       \/ cleanup' = [cleanup EXCEPT !.rooms = @ \ {r}]
    /\ UNCHANGED <<members, cleanups, cleanAside>>

(* Variant: activity at the threshold itself does not count.               *)
ActiveAfter(r, n) == activity[r][n] # None /\ activity[r][n] > cleanup.threshold

(* getLastActivityInPortal.                                                *)
Active(r, n) == activity[r][n] # None /\ activity[r][n] >= cleanup.threshold

(* IsManagedNode never claims a node that is not managed, but denies one   *)
(* that is when its query fails or its cache is old (ManagedNodes).  The   *)
(* query for the activity can fail too, and then looks like no activity.   *)
CheckMember(n) ==
    /\ cleanup.pc = "member" /\ n \in cleanup.left
    /\ \E managed, active \in BOOLEAN :
          /\ managed => n \in Managed
          /\ active => Active(cleanup.room, n)
          /\ cleanup' = IF managed \/ active
                        THEN [cleanup EXCEPT !.left = @ \ {n}]
                        ELSE [cleanup EXCEPT !.pc = "leave", !.left = @ \ {n}, !.ghost = n,
                                 !.misjudged = n \in Managed \/ Active(cleanup.room, n)]
    /\ UNCHANGED <<members, cleanups, cleanAside>>

removeGhostFromPortal ==
    /\ cleanup.pc = "leave"
    /\ cleanup' = [cleanup EXCEPT !.pc = "member", !.ghost = None, !.misjudged = FALSE]
    /\ \/ members' = [members EXCEPT ![cleanup.room] = @ \ {cleanup.ghost}]
       \/ UNCHANGED members
    /\ UNCHANGED <<cleanups, cleanAside>>

PortalDone ==
    /\ cleanup.pc = "member" /\ cleanup.left = {}
    /\ cleanup' = [cleanup EXCEPT !.pc = "portal", !.room = None]
    /\ UNCHANGED <<members, cleanups, cleanAside>>

CleanupDone ==
    /\ cleanup.pc = "portal" /\ cleanup.rooms = {}
    /\ cleanup' = Resting
    /\ UNCHANGED <<members, cleanups, cleanAside>>

-----------------------------------------------------------------------------
Handle(t) ==
    \/ Acknowledge(t) \/ QueueRemoteEvent(t) \/ QueryFails(t) \/ Return(t)
    \/ GetByWaypointID(t) \/ SetAll(t) \/ WaypointQueryFails(t)
PortalLoop(r) == HandleRemoteEvent(r) \/ SendMessage(r) \/ SendMessageFails(r) \/ SaveMessage(r)
Cleanup ==
    \/ cleanupInactiveNodes \/ \E r \in ChannelRooms : JoinedMembers(r)
    \/ \E n \in Nodes : CheckMember(n)
    \/ removeGhostFromPortal \/ PortalDone \/ CleanupDone

Next ==
    \/ \E l \in Logins : Connect(l) \/ \E r \in ChannelRooms : joinChannel(l, r)
    \/ \E t \in Threads : Handle(t) \/ \E e \in Events : Receive(t, e)
    \/ \E r \in Rooms : PortalLoop(r) \/ \E l \in Logins : MatrixEvent(l, r) \/ HandleMatrixReaction(l, r)
    \/ Tomorrow \/ Cleanup

Spec == Init /\ [][Next]_vars

-----------------------------------------------------------------------------
Row == [lockedTo : Nodes \cup {None}, updatedBy : Nodes]
Own == [kind : {"own"}, from : Nodes, id : OwnIds \cup {None}]

(* Types.                                                                  *)
TypeOK ==
    /\ bound \in Bounds /\ handlers \in Seq(Logins) /\ inPortal \in [ChannelRooms -> SUBSET Logins]
    /\ thread \in [Threads -> [pc : {"idle", "handler", "queue", "waypoint", "save"},
                              evt : Events \cup {None}, todo : Seq(Logins)]]
    /\ received \subseteq Events /\ done \subseteq received /\ acked \subseteq received
    /\ queue \in [Rooms -> Seq(Events \cup Own)]
    /\ messages \in [Rooms -> SUBSET [id : MessageIds, from : Nodes]]
    /\ reactions \in [Rooms -> SUBSET [target : MessageIds, from : Nodes]]
    /\ members \in [Rooms -> SUBSET Nodes]
    /\ activity \in [Rooms -> [Nodes -> Nat \cup {None}]]
    /\ waypoints \in Row \cup {None}
    /\ sent \subseteq Rooms \X OwnIds /\ written \in Nat
    /\ today \in Nat /\ cleanups \in Nat
    /\ cleanup \in [pc : {"idle", "portal", "member", "leave"}, threshold : Int,
                    rooms : SUBSET ChannelRooms, room : ChannelRooms \cup {None},
                    left : SUBSET Nodes, ghost : Nodes \cup {None}, misjudged : BOOLEAN]
    /\ due \subseteq received /\ ordered \subseteq received /\ failed \subseteq received

(* Nothing is under way between the mesh and the rooms.                    *)
AtRest == (\A t \in Threads : At(t, "idle")) /\ \A r \in Rooms : queue[r] = << >>

(* Another room that shares the ids of this one had a message with the id: *)
(* the id has the name of the channel in it, not the key.                  *)
IdTaken(r, id) ==
    \E s \in Rooms \ {r} :
        /\ Receiver(s) = Receiver(r)
        /\ \/ \E e \in received : e.kind = "message" /\ s \in RoomsOf(e) /\ IdOf(e) = id
           \/ \E p \in sent : p[1] = s /\ IdIn(s, p[2]) = id

(* What a user's direct chat shows of a node was sent by that node to this *)
(* user, though every login's handler sees every direct message.           *)
DirectStaysPrivate ==
    \A r \in DMRooms : \A m \in messages[r] :
        \/ m.from = NodeOf[r[3]]
        \/ \E e \in received : /\ e.kind = "message" /\ IsDM(e) /\ e.id = m.id[2]
                               /\ m.from = e.from /\ e.from = r[1] /\ e.to = NodeOf[r[3]]

(* A message that some login was to see when it came, in the portal of its *)
(* channel's name and key or in a direct chat, is in its room in the end,  *)
(* or another one that came there with its packet id.  It is acknowledged  *)
(* before it is queued, and its sender takes that for a receipt: it must   *)
(* not get lost between the handlers of the logins.  The exceptions: the   *)
(* logins of the portal could not be read, and the id was another room's.  *)
DueIsShown ==
    AtRest => \A e \in due \ failed : e.kind = "message" =>
        \E r \in RoomsOf(e) : Stored(r, IdOf(e)) \/ IdTaken(r, IdOf(e))

(* Both directions must give a message the same id, or a reaction from the *)
(* mesh does not find it.  A reaction that comes after a message of its    *)
(* room was dealt with, or to a Matrix message that is still being sent,   *)
(* ends up attached to it, unless its id was another room's.               *)
ReactionsAttach ==
    AtRest => \A e \in (due \cap ordered) \ failed : \A r \in RoomsOf(e) :
        e.kind = "reaction" =>
            /\ [target |-> IdIn(r, e.replyId), from |-> e.from] \in reactions[r]
            /\ Stored(r, IdIn(r, e.replyId)) \/ IdTaken(r, IdIn(r, e.replyId))

(* The cleanup takes only inactive ghosts out of a channel: one that is    *)
(* removed is not managed, and when it goes, days after the threshold was  *)
(* taken perhaps, its latest message or reaction is older than the         *)
(* threshold by the gateways' clocks.  It is misjudged, and goes wrongly,  *)
(* if a query failed, IsManagedNode had an old answer, or the ghost spoke  *)
(* between the check and the removal.                                      *)
ActiveGhostsStay ==
    [][\A r \in ChannelRooms : \A n \in members[r] \ members'[r] :
         \/ cleanup.misjudged
         \/ /\ n \notin Managed
            /\ activity[r][n] # None => activity[r][n] < today - InactivityThreshold]_vars
=============================================================================
