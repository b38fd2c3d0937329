-------------------------- MODULE TracerouteTracker --------------------------
(***************************************************************************)
(* The traceroute command and its tracker: fnTraceroute in                 *)
(* pkg/connector/commands.go and pkg/connector/traceroute.go.  Each        *)
(* command runs in a goroutine of its own, the answers arrive from the     *)
(* mesh in another.  The tracker's lock covers single operations only, so  *)
(* the rate limit is checked, the packet sent and the request tracked in   *)
(* three steps with anything in between: SendTraceroute returns when every *)
(* connector is done, and the MQTT connector pauses before it publishes.   *)
(* Nothing calls CleanupExpired: a request stays until it is answered.     *)
(* What the notice shows is built by pkg/mesh/traceroute.go, in            *)
(* RouteDiscovery; requests of other nodes are answered from there too.    *)
(***************************************************************************)
EXTENDS RouteDiscovery, FiniteSets

CONSTANTS
    Commands,                    \* runs of the traceroute command
    Pairs,                       \* tracerouteKey: sender and target
    Rooms,
    PairOf, RoomOf,              \* of each command
    PacketIds,
    NoPacket,                    \* not a packet id
    TracerouteTimeout,           \* between two requests for a pair
    MaxTime,                     \* bound: the clock
    MaxResponses,                \* bound: traceroute packets the mesh delivers
    Arrivals                     \* a packet p with the list d it came by; an answer
                                 \* also brings the list f of the way to the target

ASSUME CommandsAssumption ==
    /\ IsFiniteSet(Commands)
    /\ PairOf \in [Commands -> Pairs]
    /\ RoomOf \in [Commands -> Rooms]

ASSUME PacketIdsAssumption == NoPacket \notin PacketIds

ASSUME TimesAssumption ==
    TracerouteTimeout \in Nat /\ MaxTime \in Nat /\ MaxResponses \in Nat

ASSUME ArrivalsAssumption ==
    \A a \in Arrivals :
        /\ a.p \in Carrier /\ a.d \in List /\ WellFormed(a.d)
        /\ a.f \in List /\ ForwardFormed(a.f, a.p.from)

VARIABLES
    pc,               \* where each command is
    packetID,         \* the packet it sent
    sentAt,           \* when that packet went out, Never before
    timestamp,        \* the Timestamp of its request
    pendingRequests,  \* packet id |-> the command tracked under it
    lastTraceroute,   \* pair |-> time, Never when absent
    clock,
    responses,        \* traceroute packets delivered so far
    answered,         \* packets that were answered
    unsent,           \* packets whose notice Matrix refused
    notices,          \* packet |-> the rooms its notices went to
    garbled,          \* the bridge showed or sent lists that are out of step
    overlapped        \* pairs two commands were under way for at once

commandVars == <<pc, packetID, sentAt, timestamp>>
tracker     == <<pendingRequests, lastTraceroute>>
results     == <<responses, answered, unsent, notices, garbled>>
vars        == <<commandVars, tracker, results, clock, overlapped>>

Never == -1
Times == 0..MaxTime \cup {Never}

Init ==
    /\ pc = [c \in Commands |-> "check"]
    /\ packetID = [c \in Commands |-> NoPacket]
    /\ sentAt = [c \in Commands |-> Never]
    /\ timestamp = [c \in Commands |-> Never]
    /\ pendingRequests = [i \in {} |-> NoPacket]
    /\ lastTraceroute = [p \in Pairs |-> Never]
    /\ clock = 0
    /\ responses = 0
    /\ answered = {} /\ unsent = {}
    /\ notices = [i \in PacketIds |-> << >>]
    /\ garbled = FALSE
    /\ overlapped = {}

-----------------------------------------------------------------------------
At(c, l) == pc[c] = l
GoTo(c, l) == pc' = [pc EXCEPT ![c] = l]
UnderWay(c) == pc[c] \in {"send", "sending", "stamped"}

(* Variant: the comparison is turned around.                               *)
CanSendTracerouteSoon(pair) ==
    \/ lastTraceroute[pair] = Never
    \/ clock - lastTraceroute[pair] <= TracerouteTimeout

CanSendTraceroute(pair) ==
    \/ lastTraceroute[pair] = Never
    \/ clock - lastTraceroute[pair] >= TracerouteTimeout

CheckRateLimit(c) ==
    /\ At(c, "check")
    /\ GoTo(c, IF CanSendTraceroute(PairOf[c]) THEN "send" ELSE "refused")
    /\ overlapped' = IF \E d \in Commands : PairOf[d] = PairOf[c] /\ UnderWay(d)
                     THEN overlapped \cup {PairOf[c]}
                     ELSE overlapped
    /\ UNCHANGED <<packetID, sentAt, timestamp, tracker, results, clock>>

(* The packet is on the air from here on.  Its id is any: generatePacketId *)
(* takes it without a lock, so that commands under way may share one, and  *)
(* it is random for the most part, so that an old one may come up again.   *)
SendTraceroute(c) ==
    /\ At(c, "send")
    /\ \E i \in PacketIds : packetID' = [packetID EXCEPT ![c] = i]
    /\ sentAt' = [sentAt EXCEPT ![c] = clock]
    /\ GoTo(c, "sending")
    /\ UNCHANGED <<timestamp, tracker, results, clock, overlapped>>

(* No channel, a sender that is not managed, or no connector that sends.   *)
SendTracerouteFails(c) ==
    /\ At(c, "send")
    /\ GoTo(c, "failed")
    /\ UNCHANGED <<packetID, sentAt, timestamp, tracker, results, clock, overlapped>>

Stamp(c) ==
    /\ At(c, "sending")
    /\ timestamp' = [timestamp EXCEPT ![c] = clock]
    /\ GoTo(c, "stamped")
    /\ UNCHANGED <<packetID, sentAt, tracker, results, clock, overlapped>>

Put(f, k, v) == [x \in DOMAIN f \cup {k} |-> IF x = k THEN v ELSE f[x]]
Without(f, k) == [x \in DOMAIN f \ {k} |-> f[x]]

AddRequest(c) ==
    /\ At(c, "stamped")
    /\ lastTraceroute' = [lastTraceroute EXCEPT ![PairOf[c]] = timestamp[c]]
    /\ pendingRequests' = Put(pendingRequests, packetID[c], c)
    /\ GoTo(c, "waiting")
    /\ UNCHANGED <<packetID, sentAt, timestamp, results, clock, overlapped>>

(* Variant: the request stays pending.                                     *)
GetRequestOnly(i) == UNCHANGED pendingRequests

GetAndRemoveRequest(i) == pendingRequests' = Without(pendingRequests, i)

(* Whether what the notice shows is right, for each arrival: lists that    *)
(* came in out of step, without a hop count, are not the bridge's.         *)
NoticeOutcomes ==
    {NoticeRight(a.f, a.p.from, handleTracerouteResponse(a.p, a.d), a.p.to)
        : a \in {x \in Arrivals : ~Unpadded(x.p, x.d)}}

(* An answer to a packet on the air.  One that nothing is pending for is   *)
(* ignored; otherwise the request is gone, whether or not Matrix accepts   *)
(* the notice.                                                             *)
handleMeshTraceroute(i) ==
    /\ \E c \in Commands : packetID[c] = i
    /\ responses < MaxResponses
    /\ responses' = responses + 1
    /\ answered' = answered \cup {i}
    /\ IF i \notin DOMAIN pendingRequests
       THEN UNCHANGED <<pendingRequests, notices, unsent, garbled>>
       ELSE LET req == pendingRequests[i]
            IN  /\ GetAndRemoveRequest(i)
                /\ \/ /\ notices' = [notices EXCEPT ![i] = Append(@, RoomOf[req])]
                      /\ \E right \in NoticeOutcomes : garbled' = (garbled \/ ~right)
                      /\ UNCHANGED unsent
                   \/ unsent' = unsent \cup {i} /\ UNCHANGED <<notices, garbled>>
    /\ UNCHANGED <<commandVars, lastTraceroute, clock, overlapped>>

(* Whether both lists of an answer are right; the return list is empty     *)
(* when the request arrives.                                               *)
AnswerOutcomes ==
    {LET answer == handleTracerouteRequest(a.p, a.d, [route |-> << >>, snr |-> << >>])
     IN  ShownRight(answer.towards, a.p.to) /\ Aligned(answer.back)
        : a \in {x \in Arrivals : ~Unpadded(x.p, x.d)}}

(* A request for a managed node; others are ignored.                       *)
AnswerRequest ==
    /\ responses < MaxResponses
    /\ responses' = responses + 1
    /\ \E right \in AnswerOutcomes : garbled' = (garbled \/ ~right)
    /\ UNCHANGED <<commandVars, tracker, answered, unsent, notices, clock, overlapped>>

Tick ==
    /\ clock < MaxTime
    /\ clock' = clock + 1
    /\ UNCHANGED <<commandVars, tracker, results, overlapped>>

Next ==
    \/ \E c \in Commands :
          \/ CheckRateLimit(c) \/ SendTraceroute(c) \/ SendTracerouteFails(c)
          \/ Stamp(c) \/ AddRequest(c)
    \/ \E i \in PacketIds : handleMeshTraceroute(i)
    \/ AnswerRequest
    \/ Tick

Spec == Init /\ [][Next]_vars

-----------------------------------------------------------------------------
TypeOK ==
    /\ pc \in [Commands -> {"check", "refused", "send", "failed", "sending", "stamped", "waiting"}]
    /\ packetID \in [Commands -> PacketIds \cup {NoPacket}]
    /\ sentAt \in [Commands -> Times] /\ timestamp \in [Commands -> Times]
    /\ DOMAIN pendingRequests \subseteq PacketIds
    /\ pendingRequests \in [DOMAIN pendingRequests -> Commands]
    /\ lastTraceroute \in [Pairs -> Times]
    /\ clock \in 0..MaxTime
    /\ responses \in 0..MaxResponses
    /\ answered \subseteq PacketIds /\ unsent \subseteq PacketIds
    /\ notices \in [PacketIds -> Seq(Rooms)]
    /\ garbled \in BOOLEAN
    /\ overlapped \subseteq Pairs

(* However many answers to a packet arrive, and whichever other requests   *)
(* are pending, a result is shown once for each command that sent the      *)
(* packet at most, and only in the room of such a command: for one         *)
(* command, unless an id was drawn twice (GetAndRemoveRequest, RoomID).    *)
NoticeOnceInItsRoom ==
    \A i \in PacketIds :
        LET senders == {c \in Commands : packetID[c] = i}
        IN  /\ Len(notices[i]) <= Cardinality(senders)
            /\ \A n \in 1..Len(notices[i]) : \E c \in senders : notices[i][n] = RoomOf[c]

(* Two packets for the same sender and target are TracerouteTimeout apart  *)
(* as long as no two commands for them were under way at once: only the    *)
(* gap between CanSendTraceroute and AddRequest defeats the limit.         *)
SpacedUnlessOverlapping ==
    \A c, d \in Commands :
        /\ c # d /\ PairOf[c] = PairOf[d] /\ PairOf[c] \notin overlapped
        /\ sentAt[c] # Never /\ sentAt[d] # Never
        => \/ sentAt[c] - sentAt[d] >= TracerouteTimeout
           \/ sentAt[d] - sentAt[c] >= TracerouteTimeout

(* Whichever hops leave no entry, and whether or not the gateway and the   *)
(* bridge are hops, the notices and the answers the bridge sends put no    *)
(* node's SNR beside another (insertUnknownHops, addNodeToRouteIfMissing,  *)
(* formatTracerouteResponse).  Left out are lists that arrive out of step  *)
(* in a packet without hop count, which stay out of step, and the value    *)
(* beside the target when the target's own is missing: the last one there  *)
(* is, a hop's, is shown (NoticeRight).                                    *)
HopsShowTheirSnr == ~garbled

(* A request that the bridge tracks and the mesh answered has been shown,  *)
(* unless Matrix refused the notice (fnTraceroute: "Track the request so   *)
(* we can route the response back to this room").                          *)
AnswersReachTheRoom ==
    \A c \in Commands : pc[c] = "waiting" /\ packetID[c] \in answered =>
        packetID[c] \in unsent \/ notices[packetID[c]] # << >>
=============================================================================
