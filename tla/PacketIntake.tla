---------------------------- MODULE PacketIntake ----------------------------
(***************************************************************************)
(* The receive path of the mesh client: pkg/mesh/incoming_messages.go and  *)
(* pkg/mesh/data_requests.go.  Every connector calls handleMeshPacket from *)
(* a goroutine of its own (the UDP listener, the MQTT callbacks), so the   *)
(* same mesh packet arrives several times, on several threads, and the     *)
(* duplicate cache, the request throttle and the node database are shared. *)
(*                                                                         *)
(* Payloads are abstracted to the port they are addressed to and to the    *)
(* key that sealed them.  The answer of managedNodeFunc is a constant: the *)
(* connector caches it per node for the life of the process.               *)
(***************************************************************************)
EXTENDS Integers, Sequences

CONSTANTS
    Threads,          \* goroutines that call handleMeshPacket
    NoThread,         \* packetCacheLock is free
    Nodes,            \* node ids, including 0 and the broadcast id
    BroadcastId,
    Managed,          \* nodes for which managedNodeFunc answers true
    Packets,          \* the distinct copies of packets that may arrive
    Channels,         \* c.channels, a sequence of [name, hash, key]
    ThrottlePeriod,   \* requestThrottle.throttlePeriod, in ticks
    MaxArrivals,      \* bound: packets received
    MaxForgotten,     \* bound: expiries of one cache entry
    MaxTime           \* bound: the clock

ChannelNames == {"", "PKI"} \cup {Channels[i].name : i \in DOMAIN Channels}
                            \cup {p.envelope : p \in Packets}
Ports == {"text", "nodeinfo", "traceroute", "telemetry", "telemetryOther",
          "neighbor", "neighborDummy", "other"}
Keys == {<<p.from, p.id>> : p \in Packets}

ASSUME ThreadsAssumption == NoThread \notin Threads
ASSUME NodesAssumption == BroadcastId \in Nodes /\ Managed \subseteq Nodes \ {0, BroadcastId}
ASSUME PacketsAssumption ==
    /\ Packets # {}
    /\ \A p \in Packets : /\ p.id \in Nat
                          /\ p.from \in Nodes
                          /\ p.to \in Nodes
                          /\ p.port \in Ports
                          /\ p.sealed = "pki" => p.channel = "PKI"
ASSUME ChannelsAssumption ==
    /\ Channels \in Seq([name : STRING, hash : 0..255, key : STRING])
    /\ \A i \in DOMAIN Channels : Channels[i].key # "pki"
ASSUME BoundsAssumption ==
    /\ ThrottlePeriod \in Nat \ {0}
    /\ MaxArrivals \in Nat
    /\ MaxForgotten \in Nat
    /\ MaxTime \in Nat

VARIABLES
    pc,               \* where each thread is in handleMeshPacket
    packet,           \* the packet each thread handles
    channelName,      \* packet.ChannelName, as the thread last set it
    packetCacheLock,  \* the thread that holds the mutex, or NoThread
    packetCache,      \* the keys the TTL cache holds
    pubKeys,          \* nodes whose public key the node database holds
    last,             \* requestThrottle.lastTelemetry and lastNeighbor
    clock,
    arrivals,         \* number of packets received
    arrived,          \* the packets received at least once
    dispatched,       \* times a key was handed to the event handlers
    events,           \* the (packet, channel name) pairs handed to them
    answered,         \* times a key was answered on the mesh
    granted,          \* per throttle slot and instant, the grants made
    forgotten         \* times the TTL of a cache entry ran out

thread   == <<packet, channelName>>
cache    == <<packetCacheLock, packetCache, forgotten>>
throttle == <<last, granted>>
outcome  == <<dispatched, events, answered, pubKeys>>
outside  == <<clock, arrivals, arrived>>
vars     == <<pc, thread, cache, throttle, outcome, outside>>

Key(p) == <<p.from, p.id>>
Slots == {"telemetry", "neighbor"} \X Managed
Never == -1
AnyPacket == CHOOSE p \in Packets : TRUE     \* a thread that handles none

(* The threads past the cache, which own the packet they carry.            *)
Working == {"decode", "process", "notify"}
Carries(t, k) == pc[t] \in Working /\ Key(packet[t]) = k

Init ==
    /\ pc = [t \in Threads |-> "idle"]
    /\ packet = [t \in Threads |-> AnyPacket]
    /\ channelName = [t \in Threads |-> ""]
    /\ packetCacheLock = NoThread
    /\ packetCache = {}
    /\ pubKeys = {}
    /\ last = [s \in Slots |-> Never]
    /\ clock = 0
    /\ arrivals = 0
    /\ arrived = {}
    /\ dispatched = [k \in Keys |-> 0]
    /\ events = {}
    /\ answered = [k \in Keys |-> 0]
    /\ granted = [s \in Slots |-> [i \in 0..MaxTime |-> 0]]
    /\ forgotten = [k \in Keys |-> 0]

-----------------------------------------------------------------------------
(* Pure helpers of the receive path.                                       *)

(* The name of the first joined channel with this hash, "" if none has it. *)
getChannelNameFromHash(h) ==
    LET matching == {i \in DOMAIN Channels : Channels[i].hash = h}
    IN  IF matching = {} THEN ""
        ELSE Channels[CHOOSE i \in matching : \A j \in matching : i <= j].name

(* Variant: the test for id 0 is inverted.                                 *)
isDuplicatePacketInverted(p) == p.id = 0 /\ Key(p) \in packetCache

isDuplicatePacket(p) == p.id # 0 /\ Key(p) \in packetCache

shouldUsePKIDecryption(p) ==
    p.hash = 0 /\ p.to # 0 /\ p.to # BroadcastId /\ p.to \in Managed

(* Variant: the packet counts as opened although PKI did not open it.      *)
tryDecryptPKIUnchecked(p) == p.from \in pubKeys

(* The private key of a managed node always exists once it was asked for;  *)
(* the sender's public key is there only after its node info.  (A sender   *)
(* without any row makes getGhostPublicKey fail in another way: it         *)
(* dereferences nil.)                                                      *)
tryDecryptPKI(p) == p.from \in pubKeys /\ p.sealed = "pki"

(* Only the channels that carry the name found for the hash are tried, and *)
(* those without a key are skipped.                                        *)
tryDecryptPSK(p) ==
    LET name == getChannelNameFromHash(p.hash)
    IN  /\ name # ""
        /\ \E i \in DOMAIN Channels : /\ Channels[i].name = name
                                      /\ Channels[i].key # ""
                                      /\ Channels[i].key = p.sealed

(* Variant: one tick too early.                                            *)
canRespondEarly(s) == last[s] = Never \/ clock - last[s] >= ThrottlePeriod - 1

(* canRespondTelemetry and canRespondNeighbor, without the recording.      *)
canRespond(s) == last[s] = Never \/ clock - last[s] >= ThrottlePeriod

SlotOf(p) ==
    <<IF p.port \in {"telemetry", "telemetryOther"} THEN "telemetry" ELSE "neighbor", p.to>>

(* The requests that a request handler serves: those for a managed node,   *)
(* the dummy neighbor request excepted.                                    *)
ThrottledPorts == {"telemetry", "telemetryOther", "neighbor"}
IsRequest(p) ==
    /\ p.port \in ThrottledPorts \cup {"traceroute"}
    /\ p.to # BroadcastId
    /\ p.to \in Managed

-----------------------------------------------------------------------------
(* handleMeshPacket, one action per step between shared accesses.          *)

GoTo(t, l) == pc' = [pc EXCEPT ![t] = l]

(* handleMeshPacket returns and its frame is gone.                         *)
Return(t) ==
    /\ GoTo(t, "idle")
    /\ packet' = [packet EXCEPT ![t] = AnyPacket]
    /\ channelName' = [channelName EXCEPT ![t] = ""]

Receive(t, p) ==
    /\ pc[t] = "idle"
    /\ arrivals < MaxArrivals
    /\ arrivals' = arrivals + 1
    /\ arrived' = arrived \cup {p}
    /\ packet' = [packet EXCEPT ![t] = p]
    /\ channelName' = [channelName EXCEPT ![t] = p.envelope]
    /\ GoTo(t, "check")
    /\ UNCHANGED <<cache, throttle, outcome, clock>>

(* Variant: the duplicate check runs without the lock.                     *)
CheckDuplicateUnlocked(t) ==
    /\ pc[t] = "check"
    /\ IF isDuplicatePacket(packet[t])
       THEN Return(t)
       ELSE GoTo(t, "cache") /\ UNCHANGED thread
    /\ UNCHANGED <<cache, throttle, outcome, outside>>

(* Variant: the packet is cached before it is looked up.                   *)
CheckDuplicateCachingFirst(t) ==
    /\ pc[t] = "check"
    /\ packetCacheLock = NoThread
    /\ packetCache' = packetCache \cup {Key(packet[t])}
    /\ IF packet[t].id # 0
       THEN Return(t) /\ UNCHANGED packetCacheLock
       ELSE GoTo(t, "cache") /\ packetCacheLock' = t /\ UNCHANGED thread
    /\ UNCHANGED <<forgotten, throttle, outcome, outside>>

(* The lock is taken and the cache consulted; a duplicate gives the lock   *)
(* back at once, any other packet keeps it until it is cached.             *)
CheckDuplicate(t) ==
    /\ pc[t] = "check"
    /\ packetCacheLock = NoThread
    /\ IF isDuplicatePacket(packet[t])
       THEN Return(t) /\ UNCHANGED packetCacheLock
       ELSE GoTo(t, "cache") /\ packetCacheLock' = t /\ UNCHANGED thread
    /\ UNCHANGED <<packetCache, forgotten, throttle, outcome, outside>>

(* Variant: the cache key lacks the packet id.                             *)
cachePacketBySender(t) ==
    /\ pc[t] = "cache"
    /\ packetCache' = packetCache \cup {<<packet[t].from>>}
    /\ packetCacheLock' = NoThread
    /\ GoTo(t, "decode")
    /\ UNCHANGED <<thread, forgotten, throttle, outcome, outside>>

cachePacket(t) ==
    /\ pc[t] = "cache"
    /\ packetCache' = packetCache \cup {Key(packet[t])}
    /\ packetCacheLock' = NoThread
    /\ GoTo(t, "decode")
    /\ UNCHANGED <<thread, forgotten, throttle, outcome, outside>>

(* A packet of a managed node is the bridge's own and is dropped.  A       *)
(* decoded packet keeps the channel name of its envelope.  PKI is tried    *)
(* first where it applies; a packet that PKI did not open is tried with    *)
(* the pre-shared keys.                                                    *)
Decode(t) ==
    LET p   == packet[t]
        pki == shouldUsePKIDecryption(p) /\ tryDecryptPKI(p)
    IN  /\ pc[t] = "decode"
        /\ \/ /\ p.from \in Managed
              /\ Return(t)
           \/ /\ p.from \notin Managed /\ p.sealed = "clear"
              /\ GoTo(t, "process")
              /\ UNCHANGED thread
           \/ /\ p.from \notin Managed /\ p.sealed # "clear" /\ pki
              /\ channelName' = [channelName EXCEPT ![t] = "PKI"]
              /\ GoTo(t, "process")
              /\ UNCHANGED packet
           \/ /\ p.from \notin Managed /\ p.sealed # "clear" /\ ~pki
              /\ tryDecryptPSK(p)
              /\ channelName' = [channelName EXCEPT ![t] = getChannelNameFromHash(p.hash)]
              /\ GoTo(t, "process")
              /\ UNCHANGED packet
           \/ /\ p.from \notin Managed /\ p.sealed # "clear" /\ ~pki
              /\ ~tryDecryptPSK(p)
              /\ Return(t)
        /\ UNCHANGED <<cache, throttle, outcome, outside>>

(* The throttled part of handleTelemetryRequest and                        *)
(* handleNeighborInfoRequest: the slot is taken under the throttle's own   *)
(* mutex, and a telemetry variant the bridge does not serve takes it       *)
(* without an answer.                                                      *)
RespondThrottled(p) ==
    LET s == SlotOf(p)
    IN  \/ /\ canRespond(s)
           /\ last' = [last EXCEPT ![s] = clock]
           /\ granted' = [granted EXCEPT ![s][clock] = @ + 1]
           /\ answered' = IF p.port = "telemetryOther" THEN answered
                          ELSE [answered EXCEPT ![Key(p)] = @ + 1]
        \/ /\ ~canRespond(s)
           /\ UNCHANGED <<throttle, answered>>

handleTracerouteRequest(p) ==
    /\ answered' = [answered EXCEPT ![Key(p)] = @ + 1]
    /\ UNCHANGED throttle

(* processMessage: a sender without id is refused, a request addressed to  *)
(* a managed node is answered (traceroutes without throttle, the dummy     *)
(* neighbor request not at all), and every other packet goes on as it is.  *)
processMessage(t) ==
    LET p == packet[t]
    IN  /\ pc[t] = "process"
        /\ \/ /\ p.from = 0
              /\ Return(t)
              /\ UNCHANGED <<throttle, answered>>
           \/ /\ p.from # 0 /\ IsRequest(p) /\ p.port \in ThrottledPorts
              /\ RespondThrottled(p)
              /\ GoTo(t, "notify") /\ UNCHANGED thread
           \/ /\ p.from # 0 /\ IsRequest(p) /\ p.port = "traceroute"
              /\ handleTracerouteRequest(p)
              /\ GoTo(t, "notify") /\ UNCHANGED thread
           \/ /\ p.from # 0 /\ ~IsRequest(p)
              /\ GoTo(t, "notify") /\ UNCHANGED <<thread, throttle, answered>>
        /\ UNCHANGED <<cache, dispatched, events, pubKeys, outside>>

(* The node database keeps the public key of a node info, or loses it to   *)
(* one without a key; a write may fail.                                    *)
handleMeshNodeInfo(p) ==
    \/ p.port = "nodeinfo" /\ pubKeys' = pubKeys \cup {p.from}
    \/ p.port = "nodeinfo" /\ pubKeys' = pubKeys \ {p.from}
    \/ UNCHANGED pubKeys

(* notifyEvent: the event goes to every registered handler; the global     *)
(* handler of the connector sees to node infos.                            *)
notifyEvent(t) ==
    LET p == packet[t]
    IN  /\ pc[t] = "notify"
        /\ dispatched' = [dispatched EXCEPT ![Key(p)] = @ + 1]
        /\ events' = events \cup {<<p, channelName[t]>>}
        /\ handleMeshNodeInfo(p)
        /\ Return(t)
        /\ UNCHANGED <<cache, throttle, answered, outside>>

(* The TTL of a cache entry (two hours) runs out.  Handling a packet takes *)
(* seconds, so the entry of a packet in hand is not the one that expires.  *)
Expire(k) ==
    /\ k \in packetCache
    /\ forgotten[k] < MaxForgotten
    /\ \A t \in Threads : ~Carries(t, k)
    /\ packetCache' = packetCache \ {k}
    /\ forgotten' = [forgotten EXCEPT ![k] = @ + 1]
    /\ UNCHANGED <<pc, thread, packetCacheLock, throttle, outcome, outside>>

Tick ==
    /\ clock < MaxTime
    /\ clock' = clock + 1
    /\ UNCHANGED <<pc, thread, cache, throttle, outcome, arrivals, arrived>>

Step(t) ==
    \/ CheckDuplicate(t) \/ cachePacket(t)
    \/ Decode(t) \/ processMessage(t) \/ notifyEvent(t)

Next ==
    \/ \E t \in Threads : Step(t)
    \/ \E t \in Threads, p \in Packets : Receive(t, p)
    \/ \E k \in Keys : Expire(k)
    \/ Tick

(* Every goroutine that can go on is scheduled; arrivals, expiries and the *)
(* clock are not forced.                                                   *)
Fairness == \A t \in Threads : WF_vars(Step(t))

Spec == Init /\ [][Next]_vars /\ Fairness

-----------------------------------------------------------------------------
(* Properties.                                                             *)

TypeOK ==
    /\ pc \in [Threads -> {"idle", "check", "cache"} \cup Working]
    /\ packet \in [Threads -> Packets]
    /\ channelName \in [Threads -> ChannelNames]
    /\ packetCacheLock \in Threads \cup {NoThread}
    /\ packetCache \subseteq Keys
    /\ pubKeys \subseteq Nodes
    /\ last \in [Slots -> Nat \cup {Never}]
    /\ clock \in 0..MaxTime
    /\ arrivals \in 0..MaxArrivals
    /\ arrived \subseteq Packets
    /\ dispatched \in [Keys -> Nat]
    /\ answered \in [Keys -> Nat]
    /\ granted \in [Slots -> [0..MaxTime -> Nat]]
    /\ forgotten \in [Keys -> Nat]

(* However the copies of a packet interleave on the connectors' threads,   *)
(* the event handlers see a packet id at most once per cache lifetime, and *)
(* the mesh gets at most one answer to it: handleMeshPacket's lock around  *)
(* isDuplicatePacket and cachePacket.                                      *)
AtMostOnce ==
    \A k \in Keys : k[2] # 0 => /\ dispatched[k] <= 1 + forgotten[k]
                                /\ answered[k] <= 1 + forgotten[k]

(* Two requests for the same kind of data of the same managed node are     *)
(* never both granted within the throttle period, even when they are       *)
(* handled at once by two threads (canRespondTelemetry, canRespondNeighbor).*)
ThrottleSpacing ==
    \A s \in Slots : \A i, j \in 0..MaxTime :
        granted[s][i] > 0 /\ granted[s][j] > 0 =>
            IF i = j THEN granted[s][i] = 1
            ELSE i - j >= ThrottlePeriod \/ j - i >= ThrottlePeriod

(* Whether a name is the one of the channel a packet was sealed for.  A    *)
(* packet in the clear has the name of its envelope, and a joined channel  *)
(* of another name with the same one-byte hash cannot be told apart.       *)
NamesChannel(p, name) ==
    \/ name = p.channel
    \/ p.sealed = "clear"
    \/ /\ p.sealed # "pki"
       /\ \E i \in DOMAIN Channels : Channels[i].hash = p.hash /\ Channels[i].name # p.channel

(* An event names the channel its packet was sealed for, PKI included,     *)
(* unless a joined channel of another name has the hash of the packet: a   *)
(* failed PKI attempt must not leave its mark on a packet that a           *)
(* pre-shared key opened (tryDecryptPKI, tryDecryptPSK).                   *)
EventsNameTheirChannel == \A e \in events : NamesChannel(e[1], e[2])

(* A copy that can be opened whatever the database holds.                  *)
Intelligible(p) ==
    /\ p.from # 0 /\ p.from \notin Managed
    /\ p.sealed = "clear" \/ tryDecryptPSK(p)

(* A packet all of whose copies can be opened reaches the handlers once it *)
(* arrived on any thread: no interleaving of its copies makes every one of *)
(* them a duplicate of another (isDuplicatePacket, cachePacket).           *)
EventuallyDispatched ==
    \A k \in Keys :
        (\A p \in Packets : Key(p) = k => Intelligible(p)) =>
            ((\E p \in arrived : Key(p) = k) ~> dispatched[k] > 0)

-----------------------------------------------------------------------------
(* The intake implements at-most-once delivery of the keys it can tell     *)
(* apart: packets with id 0 are never duplicates and are left out.         *)
NumberedKeys == {k \in Keys : k[2] # 0}

Window == packetCache \cap NumberedKeys
InHand == {k \in NumberedKeys : \E t \in Threads : Carries(t, k)}
Delivered == [k \in NumberedKeys |-> dispatched[k]]
Forgotten == [k \in NumberedKeys |-> forgotten[k]]

D == INSTANCE Delivery WITH
    Keys <- NumberedKeys, window <- Window, inHand <- InHand,
    delivered <- Delivered, forgotten <- Forgotten

(* Every step of the receive path is a step of the abstract delivery or    *)
(* leaves it unchanged (handleMeshPacket as a whole).                      *)
ImplementsDelivery == D!Spec
=============================================================================
