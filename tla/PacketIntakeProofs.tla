------------------------- MODULE PacketIntakeProofs -------------------------
(***************************************************************************)
(* Proofs about PacketIntake for every set of threads, packets and         *)
(* channels: type correctness, at-most-once delivery, the spacing of       *)
(* throttled answers, and the implementation of Delivery.                  *)
(***************************************************************************)
EXTENDS PacketIntake, WellFoundedInduction, TLAPS

(* A thread between the check and the caching holds the lock, and its key  *)
(* is not in the cache.                                                    *)
LockHeld ==
    \A t \in Threads : pc[t] = "cache" =>
        /\ packetCacheLock = t
        /\ packet[t].id # 0 => Key(packet[t]) \notin packetCache

(* A packet in hand is remembered, and no other thread has it in hand.     *)
OneCarrier ==
    /\ \A t \in Threads : pc[t] \in Working => Key(packet[t]) \in packetCache
    /\ \A t, u \in Threads :
          (pc[t] \in Working /\ pc[u] \in Working /\ packet[t].id # 0
             /\ Key(packet[t]) = Key(packet[u])) => t = u

(* What may still be spent on a key: while it is in hand, or not           *)
(* remembered, one delivery and one answer are left.                       *)
Budget ==
    \A k \in NumberedKeys :
        /\ dispatched[k] <= 1 + forgotten[k]
        /\ answered[k] <= 1 + forgotten[k]
        /\ k \notin packetCache => dispatched[k] <= forgotten[k] /\ answered[k] <= forgotten[k]
        /\ \A t \in Threads : Carries(t, k) =>
              /\ dispatched[k] <= forgotten[k]
              /\ pc[t] # "notify" => answered[k] <= forgotten[k]

DeliveryInv == TypeOK /\ LockHeld /\ OneCarrier /\ Budget

-----------------------------------------------------------------------------
(* Some packet exists to stand for the absent one.                         *)
LEMMA AnyPacketExists == AnyPacket \in Packets
  BY PacketsAssumption DEF AnyPacket

(* The cache key of a packet is a key, and its parts are the packet's.     *)
LEMMA KeyParts ==
    ASSUME NEW p \in Packets
    PROVE  /\ Key(p) \in Keys
           /\ Key(p)[2] = p.id
           /\ p.id # 0 => Key(p) \in NumberedKeys
  <1>1. Key(p) = <<p.from, p.id>>
    BY DEF Key
  <1>2. Key(p) \in Keys
    BY <1>1 DEF Keys
  <1>3. Key(p)[2] = p.id
    BY <1>1
  <1> QED
    BY <1>2, <1>3 DEF NumberedKeys

(* A throttled request occupies a slot of a managed node.                  *)
LEMMA SlotIsSlot ==
    ASSUME NEW p \in Packets, IsRequest(p)
    PROVE  SlotOf(p) \in Slots
  BY DEF SlotOf, Slots, IsRequest

-----------------------------------------------------------------------------
(* The actions keep every variable in its type.                            *)
LEMMA TypeInit == Init => TypeOK
  <1> SUFFICES ASSUME Init PROVE TypeOK
    OBVIOUS
  <1>1. /\ "" \in ChannelNames
        /\ 0 \in 0..MaxTime
        /\ 0 \in 0..MaxArrivals
    BY BoundsAssumption DEF ChannelNames
  <1>2. granted \in [Slots -> [0..MaxTime -> Nat]]
    BY DEF Init
  <1>3. /\ pc \in [Threads -> {"idle", "check", "cache"} \cup Working]
        /\ packet \in [Threads -> Packets]
        /\ channelName \in [Threads -> ChannelNames]
    BY <1>1, AnyPacketExists DEF Init
  <1> QED
    BY <1>1, <1>2, <1>3 DEF Init, TypeOK

LEMMA TypeNext == TypeOK /\ [Next]_vars => TypeOK'
  <1> SUFFICES ASSUME TypeOK, [Next]_vars
               PROVE  TypeOK'
    OBVIOUS
  <1> USE AnyPacketExists, BoundsAssumption DEF TypeOK, Working
  <1>0. "" \in ChannelNames /\ "PKI" \in ChannelNames
    BY DEF ChannelNames
  <1>1. ASSUME NEW t \in Threads, NEW p \in Packets, Receive(t, p)
        PROVE  TypeOK'
    <2>1. p.envelope \in ChannelNames
      BY DEF ChannelNames
    <2> QED
      BY <1>1, <2>1 DEF Receive, GoTo, cache, throttle, outcome
  <1>2. ASSUME NEW t \in Threads, CheckDuplicate(t)
        PROVE  TypeOK'
    BY <1>0, <1>2 DEF CheckDuplicate, Return, GoTo, thread, throttle, outcome, outside
  <1>3. ASSUME NEW t \in Threads, cachePacket(t)
        PROVE  TypeOK'
    BY <1>3, KeyParts DEF cachePacket, GoTo, thread, throttle, outcome, outside
  <1>4. ASSUME NEW t \in Threads, Decode(t)
        PROVE  TypeOK'
    <2>1. ASSUME tryDecryptPSK(packet[t])
          PROVE  getChannelNameFromHash(packet[t].hash) \in ChannelNames
      BY <2>1 DEF tryDecryptPSK, ChannelNames
    <2>2. pc' \in [Threads -> {"idle", "check", "cache"} \cup Working]
      BY <1>4 DEF Decode, Return, GoTo
    <2>3. packet' \in [Threads -> Packets]
      BY <1>4 DEF Decode, Return, thread
    <2>4. channelName' \in [Threads -> ChannelNames]
      BY <1>0, <1>4, <2>1 DEF Decode, Return, thread
    <2>5. UNCHANGED <<cache, throttle, outcome, outside>>
      BY <1>4 DEF Decode
    <2> QED
      BY <2>2, <2>3, <2>4, <2>5 DEF cache, throttle, outcome, outside
  <1>5. ASSUME NEW t \in Threads, processMessage(t)
        PROVE  TypeOK'
    <2> DEFINE p == packet[t]
    <2>1. p \in Packets /\ Key(p) \in Keys
      BY KeyParts
    <2>2. ASSUME IsRequest(p), RespondThrottled(p)
          PROVE  /\ last' \in [Slots -> Nat \cup {Never}]
                 /\ granted' \in [Slots -> [0..MaxTime -> Nat]]
                 /\ answered' \in [Keys -> Nat]
      <3>1. SlotOf(p) \in Slots
        BY <2>1, <2>2, SlotIsSlot
      <3>2. granted' \in [Slots -> [0..MaxTime -> Nat]]
        <4>1. CASE UNCHANGED granted
          BY <4>1
        <4>2. CASE granted' = [granted EXCEPT ![SlotOf(p)][clock] = @ + 1]
          <5>1. granted[SlotOf(p)] \in [0..MaxTime -> Nat]
            BY <3>1
          <5>2. [granted[SlotOf(p)] EXCEPT ![clock] = @ + 1] \in [0..MaxTime -> Nat]
            BY <5>1
          <5>3. granted' = [granted EXCEPT ![SlotOf(p)] = [granted[SlotOf(p)] EXCEPT ![clock] = @ + 1]]
            BY <4>2
          <5> QED
            BY <3>1, <5>2, <5>3
        <4> QED
          BY <2>2, <4>1, <4>2 DEF RespondThrottled, throttle
      <3>3. last' \in [Slots -> Nat \cup {Never}]
        <4>1. last' = last \/ last' = [last EXCEPT ![SlotOf(p)] = clock]
          BY <2>2 DEF RespondThrottled, throttle
        <4> QED
          BY <3>1, <4>1
      <3>4. answered' \in [Keys -> Nat]
        <4>1. answered' = answered \/ answered' = [answered EXCEPT ![Key(p)] = @ + 1]
          BY <2>2 DEF RespondThrottled
        <4>2. answered \in [Keys -> Nat]
          OBVIOUS
        <4>3. [answered EXCEPT ![Key(p)] = @ + 1] \in [Keys -> Nat]
          BY <2>1, <4>2
        <4> QED
          BY <4>1, <4>2, <4>3
      <3> QED
        BY <3>2, <3>3, <3>4
    <2>3. UNCHANGED <<cache, dispatched, events, pubKeys, outside>>
      BY <1>5 DEF processMessage, handleTracerouteRequest
    <2>4. /\ last' \in [Slots -> Nat \cup {Never}]
          /\ granted' \in [Slots -> [0..MaxTime -> Nat]]
          /\ answered' \in [Keys -> Nat]
      BY <1>5, <2>1, <2>2 DEF processMessage, handleTracerouteRequest, throttle
    <2>5. /\ pc' \in [Threads -> {"idle", "check", "cache"} \cup Working]
          /\ packet' \in [Threads -> Packets]
          /\ channelName' \in [Threads -> ChannelNames]
      BY <1>0, <1>5 DEF processMessage, Return, GoTo, thread
    <2> QED
      BY <2>3, <2>4, <2>5 DEF cache, outside
  <1>6. ASSUME NEW t \in Threads, notifyEvent(t)
        PROVE  TypeOK'
    <2>1. packet[t] \in Packets /\ Key(packet[t]) \in Keys /\ packet[t].from \in Nodes
      BY KeyParts, PacketsAssumption
    <2>2. dispatched' \in [Keys -> Nat] /\ pubKeys' \subseteq Nodes
      BY <1>6, <2>1 DEF notifyEvent, handleMeshNodeInfo
    <2>3. /\ pc' \in [Threads -> {"idle", "check", "cache"} \cup Working]
          /\ packet' \in [Threads -> Packets]
          /\ channelName' \in [Threads -> ChannelNames]
      BY <1>0, <1>6 DEF notifyEvent, Return, GoTo
    <2> QED
      BY <1>6, <2>2, <2>3 DEF notifyEvent, cache, throttle, outside
  <1>7. ASSUME NEW k \in Keys, Expire(k)
        PROVE  TypeOK'
    BY <1>7 DEF Expire, thread, throttle, outcome, outside
  <1>8. CASE Tick
    BY <1>8 DEF Tick, thread, cache, throttle, outcome
  <1>9. CASE UNCHANGED vars
    BY <1>9 DEF vars, thread, cache, throttle, outcome, outside
  <1> QED
    BY <1>1, <1>2, <1>3, <1>4, <1>5, <1>6, <1>7, <1>8, <1>9 DEF Next, Step

(* Every reachable state of the receive path is well typed.                *)
THEOREM TypeCorrect == Spec => []TypeOK
  BY TypeInit, TypeNext, PTL DEF Spec

-----------------------------------------------------------------------------
(* At-most-once.  The lock makes check and caching one step for the other  *)
(* threads; hence a key is in the hand of one thread at most, and only     *)
(* that thread spends the key's single delivery.                           *)
LEMMA DeliveryInit == Init => DeliveryInv
  <1> SUFFICES ASSUME Init PROVE DeliveryInv
    OBVIOUS
  <1>1. TypeOK
    BY TypeInit
  <1>2. LockHeld /\ OneCarrier
    BY DEF Init, LockHeld, OneCarrier, Working
  <1>3. Budget
    <2>1. NumberedKeys \subseteq Keys
      BY DEF NumberedKeys
    <2>2. \A t \in Threads : pc[t] = "idle"
      BY DEF Init
    <2>3. \A k \in NumberedKeys : dispatched[k] = 0 /\ answered[k] = 0 /\ forgotten[k] = 0
      BY <2>1 DEF Init
    <2> QED
      BY <2>2, <2>3 DEF Budget, Carries, Working
  <1> QED
    BY <1>1, <1>2, <1>3 DEF DeliveryInv

LEMMA LockNext == DeliveryInv /\ [Next]_vars => LockHeld'
  <1> SUFFICES ASSUME DeliveryInv, [Next]_vars
               PROVE  LockHeld'
    OBVIOUS
  <1> USE ThreadsAssumption DEF DeliveryInv, TypeOK, LockHeld, Working
  <1>1. ASSUME NEW t \in Threads, NEW p \in Packets, Receive(t, p)
        PROVE  LockHeld'
    BY <1>1 DEF Receive, GoTo, cache
  <1>2. ASSUME NEW t \in Threads, CheckDuplicate(t)
        PROVE  LockHeld'
    BY <1>2 DEF CheckDuplicate, isDuplicatePacket, Return, GoTo, thread
  <1>3. ASSUME NEW t \in Threads, cachePacket(t)
        PROVE  LockHeld'
    BY <1>3 DEF cachePacket, GoTo, thread
  <1>4. ASSUME NEW t \in Threads, Decode(t)
        PROVE  LockHeld'
    BY <1>4 DEF Decode, Return, GoTo, thread, cache
  <1>5. ASSUME NEW t \in Threads, processMessage(t)
        PROVE  LockHeld'
    BY <1>5 DEF processMessage, Return, GoTo, thread, cache
  <1>6. ASSUME NEW t \in Threads, notifyEvent(t)
        PROVE  LockHeld'
    BY <1>6 DEF notifyEvent, Return, GoTo, cache
  <1>7. ASSUME NEW k \in Keys, Expire(k)
        PROVE  LockHeld'
    BY <1>7 DEF Expire, thread
  <1>8. CASE Tick
    BY <1>8 DEF Tick, thread, cache
  <1>9. CASE UNCHANGED vars
    BY <1>9 DEF vars, thread, cache
  <1> QED
    BY <1>1, <1>2, <1>3, <1>4, <1>5, <1>6, <1>7, <1>8, <1>9 DEF Next, Step

LEMMA CarrierNext == DeliveryInv /\ [Next]_vars => OneCarrier'
  <1> SUFFICES ASSUME DeliveryInv, [Next]_vars
               PROVE  OneCarrier'
    OBVIOUS
  <1> USE DEF DeliveryInv, TypeOK, OneCarrier, Working
  <1>1. ASSUME NEW t \in Threads, NEW p \in Packets, Receive(t, p)
        PROVE  OneCarrier'
    BY <1>1 DEF Receive, GoTo, cache
  <1>2. ASSUME NEW t \in Threads, CheckDuplicate(t)
        PROVE  OneCarrier'
    <2>1. /\ UNCHANGED packetCache
          /\ pc[t] = "check"
          /\ \/ pc' = [pc EXCEPT ![t] = "cache"] /\ UNCHANGED packet
             \/ pc' = [pc EXCEPT ![t] = "idle"] /\ packet' = [packet EXCEPT ![t] = AnyPacket]
      BY <1>2 DEF CheckDuplicate, Return, GoTo, thread
    <2>2. ASSUME NEW u \in Threads, pc'[u] \in Working
          PROVE  pc[u] \in Working /\ packet'[u] = packet[u]
      BY <2>1, <2>2
    <2> QED
      BY <2>1, <2>2
  <1>3. ASSUME NEW t \in Threads, cachePacket(t)
        PROVE  OneCarrier'
    BY <1>3, KeyParts DEF cachePacket, LockHeld, GoTo, thread
  <1>4. ASSUME NEW t \in Threads, Decode(t)
        PROVE  OneCarrier'
    <2>1. /\ UNCHANGED packetCache
          /\ pc[t] = "decode"
          /\ \/ pc' = [pc EXCEPT ![t] = "process"] /\ UNCHANGED packet
             \/ pc' = [pc EXCEPT ![t] = "idle"] /\ packet' = [packet EXCEPT ![t] = AnyPacket]
      BY <1>4 DEF Decode, Return, GoTo, thread, cache
    <2>2. ASSUME NEW u \in Threads, pc'[u] \in Working
          PROVE  pc[u] \in Working /\ packet'[u] = packet[u]
      BY <2>1, <2>2
    <2> QED
      BY <2>1, <2>2
  <1>5. ASSUME NEW t \in Threads, processMessage(t)
        PROVE  OneCarrier'
    <2>1. /\ UNCHANGED packetCache
          /\ pc[t] = "process"
          /\ \/ pc' = [pc EXCEPT ![t] = "notify"] /\ UNCHANGED packet
             \/ pc' = [pc EXCEPT ![t] = "idle"] /\ packet' = [packet EXCEPT ![t] = AnyPacket]
      BY <1>5 DEF processMessage, Return, GoTo, thread, cache
    <2>2. ASSUME NEW u \in Threads, pc'[u] \in Working
          PROVE  pc[u] \in Working /\ packet'[u] = packet[u]
      BY <2>1, <2>2
    <2> QED
      BY <2>1, <2>2
  <1>6. ASSUME NEW t \in Threads, notifyEvent(t)
        PROVE  OneCarrier'
    BY <1>6 DEF notifyEvent, Return, GoTo, cache
  <1>7. ASSUME NEW k \in Keys, Expire(k)
        PROVE  OneCarrier'
    BY <1>7 DEF Expire, Carries, thread
  <1>8. CASE Tick
    BY <1>8 DEF Tick, thread, cache
  <1>9. CASE UNCHANGED vars
    BY <1>9 DEF vars, thread, cache
  <1> QED
    BY <1>1, <1>2, <1>3, <1>4, <1>5, <1>6, <1>7, <1>8, <1>9 DEF Next, Step

LEMMA BudgetNext == DeliveryInv /\ [Next]_vars => Budget'
  <1> SUFFICES ASSUME DeliveryInv, [Next]_vars
               PROVE  Budget'
    OBVIOUS
  <1> USE DEF DeliveryInv, TypeOK, Budget, Working, Carries
  <1>0. NumberedKeys \subseteq Keys
    BY DEF NumberedKeys
  <1>1. ASSUME NEW t \in Threads, NEW p \in Packets, Receive(t, p)
        PROVE  Budget'
    BY <1>1 DEF Receive, GoTo, cache, outcome
  <1>2. ASSUME NEW t \in Threads, CheckDuplicate(t)
        PROVE  Budget'
    BY <1>2 DEF CheckDuplicate, Return, GoTo, thread, outcome
  <1>3. ASSUME NEW t \in Threads, cachePacket(t)
        PROVE  Budget'
    BY <1>3, KeyParts DEF cachePacket, LockHeld, NumberedKeys, GoTo, thread, outcome
  <1>4. ASSUME NEW t \in Threads, Decode(t)
        PROVE  Budget'
    BY <1>4 DEF Decode, Return, GoTo, thread, cache, outcome
  <1>5. ASSUME NEW t \in Threads, processMessage(t)
        PROVE  Budget'
    <2> DEFINE q == Key(packet[t])
    <2>1. q \in Keys /\ (q \in NumberedKeys => packet[t].id # 0)
      BY KeyParts DEF NumberedKeys
    <2>2. UNCHANGED <<packetCache, forgotten, dispatched>>
      BY <1>5 DEF processMessage, cache
    <2>3. answered' = answered \/ answered' = [answered EXCEPT ![q] = @ + 1]
      BY <1>5 DEF processMessage, handleTracerouteRequest, RespondThrottled
    <2>4. /\ pc[t] = "process"
          /\ \/ pc' = [pc EXCEPT ![t] = "notify"] /\ UNCHANGED packet
             \/ pc' = [pc EXCEPT ![t] = "idle"] /\ packet' = [packet EXCEPT ![t] = AnyPacket]
      BY <1>5 DEF processMessage, Return, GoTo, thread
    <2>5. ASSUME NEW u \in Threads, NEW k \in NumberedKeys, Carries(u, k)'
          PROVE  /\ Carries(u, k)
                 /\ u = t => pc'[u] = "notify"
                 /\ u # t => k # q /\ pc'[u] = pc[u]
      BY <2>1, <2>4, <2>5 DEF OneCarrier
    <2>6. ASSUME NEW k \in NumberedKeys
          PROVE  /\ dispatched'[k] <= 1 + forgotten'[k]
                 /\ answered'[k] <= 1 + forgotten'[k]
                 /\ k \notin packetCache' => dispatched'[k] <= forgotten'[k]
                                             /\ answered'[k] <= forgotten'[k]
      <3>1. CASE k = q
        <4>1. Carries(t, k) /\ pc[t] # "notify" /\ k \in packetCache
          BY <2>4, <3>1 DEF OneCarrier
        <4>2. answered[k] <= forgotten[k] /\ dispatched[k] <= forgotten[k]
          BY <4>1
        <4>3. answered'[k] = answered[k] \/ answered'[k] = answered[k] + 1
          BY <1>0, <2>3, <3>1
        <4> QED
          BY <1>0, <2>2, <4>1, <4>2, <4>3
      <3>2. CASE k # q
        BY <1>0, <2>1, <2>2, <2>3, <3>2
      <3> QED
        BY <3>1, <3>2
    <2>7. ASSUME NEW k \in NumberedKeys, NEW u \in Threads, Carries(u, k)'
          PROVE  /\ dispatched'[k] <= forgotten'[k]
                 /\ pc'[u] # "notify" => answered'[k] <= forgotten'[k]
      <3>1. dispatched'[k] <= forgotten'[k]
        BY <2>2, <2>5, <2>7
      <3>2. CASE u # t
        BY <1>0, <2>1, <2>2, <2>3, <2>5, <2>7, <3>2
      <3> QED
        BY <2>5, <2>7, <3>1, <3>2
    <2> QED
      BY <2>6, <2>7
  <1>6. ASSUME NEW t \in Threads, notifyEvent(t)
        PROVE  Budget'
    <2> DEFINE q == Key(packet[t])
    <2>1. q \in Keys /\ (q \in NumberedKeys => packet[t].id # 0)
      BY KeyParts DEF NumberedKeys
    <2>2. /\ UNCHANGED <<packetCache, forgotten, answered>>
          /\ dispatched' = [dispatched EXCEPT ![q] = @ + 1]
          /\ pc[t] = "notify"
          /\ pc' = [pc EXCEPT ![t] = "idle"]
          /\ packet' = [packet EXCEPT ![t] = AnyPacket]
      BY <1>6 DEF notifyEvent, Return, GoTo, cache
    <2>3. ASSUME NEW u \in Threads, NEW k \in NumberedKeys, Carries(u, k)'
          PROVE  Carries(u, k) /\ u # t /\ k # q /\ pc'[u] = pc[u]
      BY <2>1, <2>2, <2>3 DEF OneCarrier
    <2>4. ASSUME NEW k \in NumberedKeys
          PROVE  /\ dispatched'[k] <= 1 + forgotten'[k]
                 /\ answered'[k] <= 1 + forgotten'[k]
                 /\ k \notin packetCache' => dispatched'[k] <= forgotten'[k]
                                             /\ answered'[k] <= forgotten'[k]
      <3>1. CASE k = q
        BY <1>0, <2>1, <2>2, <3>1 DEF OneCarrier
      <3>2. CASE k # q
        BY <1>0, <2>1, <2>2, <3>2
      <3> QED
        BY <3>1, <3>2
    <2>5. ASSUME NEW k \in NumberedKeys, NEW u \in Threads, Carries(u, k)'
          PROVE  /\ dispatched'[k] <= forgotten'[k]
                 /\ pc'[u] # "notify" => answered'[k] <= forgotten'[k]
      BY <1>0, <2>1, <2>2, <2>3, <2>5
    <2> QED
      BY <2>4, <2>5
  <1>7. ASSUME NEW k \in Keys, Expire(k)
        PROVE  Budget'
    BY <1>0, <1>7 DEF Expire, thread, outcome
  <1>8. CASE Tick
    BY <1>8 DEF Tick, thread, cache, outcome
  <1>9. CASE UNCHANGED vars
    BY <1>9 DEF vars, thread, cache, outcome
  <1> QED
    BY <1>1, <1>2, <1>3, <1>4, <1>5, <1>6, <1>7, <1>8, <1>9 DEF Next, Step

LEMMA DeliveryInvariant == Spec => []DeliveryInv
  <1>1. DeliveryInv /\ [Next]_vars => DeliveryInv'
    BY TypeNext, LockNext, CarrierNext, BudgetNext DEF DeliveryInv
  <1> QED
    BY <1>1, DeliveryInit, PTL DEF Spec

(* For every number of threads and every set of packets, handleMeshPacket  *)
(* delivers and answers a packet id at most once per cache lifetime.       *)
THEOREM DeliveredAtMostOnce == Spec => []AtMostOnce
  <1>1. DeliveryInv => AtMostOnce
    BY DEF DeliveryInv, Budget, AtMostOnce, NumberedKeys
  <1> QED
    BY <1>1, DeliveryInvariant, PTL

-----------------------------------------------------------------------------
(* Channel names.  A packet that is open carries the right name, until its *)
(* event is made.                                                          *)
NamesInv ==
    /\ TypeOK
    /\ \A t \in Threads : pc[t] \in {"process", "notify"} => NamesChannel(packet[t], channelName[t])
    /\ EventsNameTheirChannel

(* A set of numbers has a least one.                                       *)
LEMMA LeastNatural ==
    ASSUME NEW S, S \subseteq Nat, S # {}
    PROVE  \E x \in S : \A y \in S : x <= y
  <1>1. PICK x \in S : \A y \in S : ~(<<y, x>> \in OpToRel(<, Nat))
    BY NatLessThanWellFounded, WFMin
  <1>2. \A y \in S : ~(y < x)
    BY <1>1 DEF OpToRel
  <1> QED
    BY <1>2

LEMMA ChannelIndices == DOMAIN Channels \subseteq Nat
  <1>1. PICK S : Channels \in Seq(S)
    BY ChannelsAssumption, Zenon
  <1> QED
    BY <1>1

(* What getChannelNameFromHash finds is the name of a channel with that    *)
(* hash.                                                                   *)
LEMMA NameHasHash ==
    ASSUME NEW h, getChannelNameFromHash(h) # ""
    PROVE  \E i \in DOMAIN Channels : Channels[i].hash = h /\ Channels[i].name = getChannelNameFromHash(h)
  <1> DEFINE matching == {i \in DOMAIN Channels : Channels[i].hash = h}
             first == CHOOSE i \in matching : \A j \in matching : i <= j
  <1>1. matching # {} /\ getChannelNameFromHash(h) = Channels[first].name
    BY DEF getChannelNameFromHash
  <1>2. matching \subseteq Nat
    BY ChannelIndices, Zenon
  <1>3. \E i \in matching : \A j \in matching : i <= j
    BY <1>1, <1>2, LeastNatural
  <1>4. first \in matching
    BY <1>3
  <1> QED
    BY <1>1, <1>4

(* Either way of opening a packet leaves the right name.                   *)
LEMMA OpenedByKey ==
    ASSUME NEW p \in Packets, tryDecryptPSK(p)
    PROVE  NamesChannel(p, getChannelNameFromHash(p.hash))
  <1>1. p.sealed # "pki"
    BY ChannelsAssumption DEF tryDecryptPSK
  <1>2. getChannelNameFromHash(p.hash) # ""
    BY DEF tryDecryptPSK
  <1> QED
    BY <1>1, <1>2, NameHasHash DEF NamesChannel

LEMMA OpenedByPKI ==
    ASSUME NEW p \in Packets, tryDecryptPKI(p)
    PROVE  NamesChannel(p, "PKI")
  BY PacketsAssumption DEF tryDecryptPKI, NamesChannel

LEMMA NamesNext == NamesInv /\ [Next]_vars => NamesInv'
  <1> SUFFICES ASSUME NamesInv, [Next]_vars
               PROVE  NamesInv'
    OBVIOUS
  <1> USE DEF NamesInv, EventsNameTheirChannel
  <1>0. TypeOK' /\ TypeOK
    BY TypeNext
  <1>1. ASSUME NEW t \in Threads, CheckDuplicate(t) \/ cachePacket(t) \/ \E p \in Packets : Receive(t, p)
        PROVE  NamesInv'
    BY <1>0, <1>1 DEF CheckDuplicate, cachePacket, Receive, Return, GoTo, thread, outcome, TypeOK
  <1>2. ASSUME NEW t \in Threads, Decode(t)
        PROVE  NamesInv'
    <2> DEFINE p == packet[t]
    <2>1. p \in Packets /\ events' = events
      BY <1>0, <1>2 DEF Decode, outcome, TypeOK
    <2>2. \/ pc'[t] = "idle"
          \/ pc'[t] = "process" /\ packet'[t] = p /\ NamesChannel(p, channelName'[t])
      BY <1>0, <1>2, <2>1, OpenedByKey, OpenedByPKI DEF Decode, Return, GoTo, TypeOK, thread, NamesChannel
    <2>3. \A u \in Threads \ {t} : pc'[u] = pc[u] /\ packet'[u] = packet[u] /\ channelName'[u] = channelName[u]
      BY <1>0, <1>2 DEF Decode, Return, GoTo, TypeOK, thread
    <2> QED
      BY <1>0, <2>1, <2>2, <2>3
  <1>3. ASSUME NEW t \in Threads, processMessage(t)
        PROVE  NamesInv'
    <2>1. events' = events /\ pc[t] = "process"
      BY <1>3 DEF processMessage
    <2>2. pc'[t] = "idle" \/ (packet'[t] = packet[t] /\ channelName'[t] = channelName[t])
      BY <1>0, <1>3 DEF processMessage, Return, GoTo, TypeOK, thread
    <2>3. \A u \in Threads \ {t} : pc'[u] = pc[u] /\ packet'[u] = packet[u] /\ channelName'[u] = channelName[u]
      BY <1>0, <1>3 DEF processMessage, Return, GoTo, TypeOK, thread
    <2> QED
      BY <1>0, <2>1, <2>2, <2>3
  <1>4. ASSUME NEW t \in Threads, notifyEvent(t)
        PROVE  NamesInv'
    <2>1. /\ events' = events \cup {<<packet[t], channelName[t]>>}
          /\ NamesChannel(packet[t], channelName[t])
      BY <1>4 DEF notifyEvent
    <2>2. EventsNameTheirChannel'
      BY <2>1
    <2>3. pc'[t] = "idle"
      BY <1>0, <1>4 DEF notifyEvent, Return, GoTo, TypeOK
    <2>4. \A u \in Threads \ {t} : pc'[u] = pc[u] /\ packet'[u] = packet[u] /\ channelName'[u] = channelName[u]
      BY <1>0, <1>4 DEF notifyEvent, Return, GoTo, TypeOK
    <2> QED
      BY <1>0, <2>2, <2>3, <2>4
  <1>5. ASSUME (\E k \in Keys : Expire(k)) \/ Tick \/ UNCHANGED vars
        PROVE  NamesInv'
    BY <1>0, <1>5 DEF Expire, Tick, vars, thread, outcome
  <1> QED
    BY <1>1, <1>2, <1>3, <1>4, <1>5 DEF Next, Step

(* For any channels, keys and packets an event names the channel of its    *)
(* packet, whatever the public keys known at the time and whichever way    *)
(* opened it.                                                              *)
THEOREM EventsAlwaysNamed == Spec => []EventsNameTheirChannel
  <1>1. Init => NamesInv
    BY TypeInit DEF Init, NamesInv, EventsNameTheirChannel
  <1>2. NamesInv => EventsNameTheirChannel
    BY DEF NamesInv
  <1> QED
    BY <1>1, <1>2, NamesNext, PTL DEF Spec

-----------------------------------------------------------------------------
(* The throttle.  The last grant of a slot is the latest one and never     *)
(* lies in the future, so a new grant is at least a period after all.      *)
LastIsLatest ==
    \A s \in Slots : \A i \in 0..MaxTime :
        granted[s][i] > 0 => /\ last[s] # Never
                             /\ i <= last[s]
                             /\ last[s] <= clock

ThrottleInv == TypeOK /\ LastIsLatest /\ ThrottleSpacing

LEMMA ThrottleInit == Init => ThrottleInv
  <1> SUFFICES ASSUME Init PROVE ThrottleInv
    OBVIOUS
  <1>1. \A s \in Slots : \A i \in 0..MaxTime : granted[s][i] = 0
    BY DEF Init
  <1>2. \A s \in Slots : \A i \in 0..MaxTime : ~(granted[s][i] > 0)
    BY <1>1
  <1> QED
    BY <1>2, TypeInit DEF ThrottleInv, LastIsLatest, ThrottleSpacing

(* A grant at the present instant keeps the spacing.                       *)
LEMMA GrantSpacing ==
    ASSUME ThrottleInv, NEW s \in Slots, canRespond(s),
           UNCHANGED clock,
           last' = [last EXCEPT ![s] = clock],
           granted' = [granted EXCEPT ![s][clock] = @ + 1]
    PROVE  LastIsLatest' /\ ThrottleSpacing'
  <1> USE BoundsAssumption DEF ThrottleInv, TypeOK
  <1>1. clock \in 0..MaxTime /\ clock \in Nat
    OBVIOUS
  <1>2. \A u \in Slots : u # s => granted'[u] = granted[u] /\ last'[u] = last[u]
    OBVIOUS
  <1>3. last'[s] = clock /\ clock # Never
    BY <1>1 DEF Never
  <1>4. granted[s] \in [0..MaxTime -> Nat]
    OBVIOUS
  <1>5. /\ granted'[s][clock] = granted[s][clock] + 1
        /\ \A i \in 0..MaxTime : i # clock => granted'[s][i] = granted[s][i]
    BY <1>1, <1>4
  <1>6. \A i \in 0..MaxTime : granted[s][i] > 0 => clock - i >= ThrottlePeriod
    <2> SUFFICES ASSUME NEW i \in 0..MaxTime, granted[s][i] > 0
                 PROVE  clock - i >= ThrottlePeriod
      OBVIOUS
    <2>1. last[s] # Never /\ i <= last[s] /\ last[s] \in Nat
      BY DEF LastIsLatest
    <2>2. clock - last[s] >= ThrottlePeriod
      BY <2>1 DEF canRespond
    <2> QED
      BY <1>1, <2>1, <2>2
  <1>7. granted[s][clock] = 0
    BY <1>1, <1>4, <1>6
  <1>8. LastIsLatest'
    <2> SUFFICES ASSUME NEW u \in Slots, NEW i \in 0..MaxTime, granted'[u][i] > 0
                 PROVE  last'[u] # Never /\ i <= last'[u] /\ last'[u] <= clock
      BY DEF LastIsLatest
    <2>1. CASE u # s
      BY <1>2, <2>1 DEF LastIsLatest
    <2>2. CASE u = s /\ i = clock
      BY <1>1, <1>3, <2>2
    <2>3. CASE u = s /\ i # clock
      BY <1>1, <1>3, <1>5, <1>6, <2>3
    <2> QED
      BY <2>1, <2>2, <2>3
  <1>9. ThrottleSpacing'
    <2> SUFFICES ASSUME NEW u \in Slots, NEW i \in 0..MaxTime, NEW j \in 0..MaxTime,
                        granted'[u][i] > 0, granted'[u][j] > 0
                 PROVE  IF i = j THEN granted'[u][i] = 1
                        ELSE i - j >= ThrottlePeriod \/ j - i >= ThrottlePeriod
      BY DEF ThrottleSpacing
    <2>1. CASE u # s
      BY <1>2, <2>1 DEF ThrottleSpacing
    <2>2. CASE u = s
      <3>1. CASE i = clock /\ j = clock
        BY <1>5, <1>7, <2>2, <3>1
      <3>2. CASE i = clock /\ j # clock
        BY <1>5, <1>6, <2>2, <3>2
      <3>3. CASE i # clock /\ j = clock
        BY <1>5, <1>6, <2>2, <3>3
      <3>4. CASE i # clock /\ j # clock
        BY <1>5, <2>2, <3>4 DEF ThrottleSpacing
      <3> QED
        BY <3>1, <3>2, <3>3, <3>4
    <2> QED
      BY <2>1, <2>2
  <1> QED
    BY <1>8, <1>9

LEMMA ThrottleNext == ThrottleInv /\ [Next]_vars => ThrottleInv'
  <1> SUFFICES ASSUME ThrottleInv, [Next]_vars
               PROVE  ThrottleInv'
    OBVIOUS
  <1>1. TypeOK'
    BY TypeNext DEF ThrottleInv
  <1>2. ASSUME UNCHANGED <<last, granted>>, clock' = clock \/ clock' = clock + 1
        PROVE  LastIsLatest' /\ ThrottleSpacing'
    <2>1. ThrottleSpacing'
      BY <1>2 DEF ThrottleInv, ThrottleSpacing
    <2>2. LastIsLatest'
      <3> SUFFICES ASSUME NEW s \in Slots, NEW i \in 0..MaxTime, granted[s][i] > 0
                   PROVE  last[s] # Never /\ i <= last[s] /\ last[s] <= clock'
        BY <1>2 DEF LastIsLatest
      <3>1. last[s] # Never /\ i <= last[s] /\ last[s] <= clock
        BY DEF ThrottleInv, LastIsLatest
      <3>2. clock \in Nat /\ last[s] \in Nat
        BY <3>1, BoundsAssumption DEF ThrottleInv, TypeOK
      <3> QED
        BY <1>2, <3>1, <3>2
    <2> QED
      BY <2>1, <2>2
  <1>3. ASSUME NEW t \in Threads, processMessage(t)
        PROVE  LastIsLatest' /\ ThrottleSpacing'
    <2> DEFINE p == packet[t]
    <2>1. p \in Packets /\ UNCHANGED clock
      BY <1>3 DEF processMessage, outside, ThrottleInv, TypeOK
    <2>2. CASE UNCHANGED <<last, granted>>
      BY <1>2, <2>1, <2>2
    <2>3. CASE ~UNCHANGED <<last, granted>>
      <3>1. IsRequest(p) /\ RespondThrottled(p)
        BY <1>3, <2>3 DEF processMessage, handleTracerouteRequest, throttle
      <3>2. SlotOf(p) \in Slots
        BY <2>1, <3>1, SlotIsSlot
      <3>3. /\ canRespond(SlotOf(p))
            /\ last' = [last EXCEPT ![SlotOf(p)] = clock]
            /\ granted' = [granted EXCEPT ![SlotOf(p)][clock] = @ + 1]
        BY <2>3, <3>1 DEF RespondThrottled, throttle
      <3> QED
        BY <2>1, <3>2, <3>3, GrantSpacing
    <2> QED
      BY <2>2, <2>3
  <1>4. CASE UNCHANGED <<last, granted>> /\ (clock' = clock \/ clock' = clock + 1)
    BY <1>1, <1>2, <1>4 DEF ThrottleInv
  <1>5. ASSUME NEW t \in Threads, processMessage(t)
        PROVE  ThrottleInv'
    BY <1>1, <1>3, <1>5 DEF ThrottleInv
  <1>6. \/ UNCHANGED <<last, granted>> /\ (clock' = clock \/ clock' = clock + 1)
        \/ \E t \in Threads : processMessage(t)
    BY DEF Next, Step, vars, throttle, outside, Receive, CheckDuplicate, cachePacket,
           Decode, notifyEvent, Expire, Tick
  <1> QED
    BY <1>4, <1>5, <1>6

(* However the requests interleave, the grants of a throttle slot are at   *)
(* least ThrottlePeriod apart, for every period.                           *)
THEOREM GrantsAreSpaced == Spec => []ThrottleSpacing
  <1>1. ThrottleInv => ThrottleSpacing
    BY DEF ThrottleInv
  <1> QED
    BY <1>1, ThrottleInit, ThrottleNext, PTL DEF Spec

-----------------------------------------------------------------------------
(* The receive path implements Delivery.                                   *)

(* A step that leaves the cache, its expiries, the deliveries and what is  *)
(* in hand alone is invisible to Delivery.                                 *)
LEMMA Invisible ==
    ASSUME UNCHANGED <<packetCache, dispatched, forgotten, InHand>>
    PROVE  UNCHANGED D!vars
  BY DEF D!vars, Window, Delivered, Forgotten

(* What is in hand when one thread lets go of its packet.                  *)
LEMMA LetGo ==
    ASSUME DeliveryInv, NEW t \in Threads, pc[t] \in Working,
           pc' = [pc EXCEPT ![t] = "idle"],
           packet' = [packet EXCEPT ![t] = AnyPacket]
    PROVE  IF packet[t].id # 0
           THEN Key(packet[t]) \in InHand /\ InHand' = InHand \ {Key(packet[t])}
           ELSE Key(packet[t]) \notin NumberedKeys /\ InHand' = InHand
  <1> USE DEF DeliveryInv, TypeOK, Working, Carries
  <1> DEFINE q == Key(packet[t])
  <1>1. packet[t] \in Packets /\ (q \in NumberedKeys <=> packet[t].id # 0)
    BY KeyParts DEF NumberedKeys
  <1>2. \A k : ~Carries(t, k)'
    OBVIOUS
  <1>3. ASSUME NEW u \in Threads, u # t
        PROVE  \A k : Carries(u, k)' <=> Carries(u, k)
    BY <1>3
  <1>4. ASSUME NEW u \in Threads, u # t, packet[t].id # 0
        PROVE  ~Carries(u, q)
    BY <1>4 DEF OneCarrier
  <1>5. Carries(t, q) /\ \A k : Carries(t, k) => k = q
    OBVIOUS
  <1>6. CASE packet[t].id # 0
    <2>1. q \in InHand
      BY <1>1, <1>5, <1>6 DEF InHand
    <2>2. \A k \in NumberedKeys : k \in InHand' <=> k \in InHand /\ k # q
      BY <1>2, <1>3, <1>4, <1>5, <1>6 DEF InHand
    <2> QED
      BY <1>6, <2>1, <2>2 DEF InHand
  <1>7. CASE packet[t].id = 0
    <2>1. q \notin NumberedKeys
      BY <1>1, <1>7
    <2>2. \A k \in NumberedKeys : k \in InHand' <=> k \in InHand
      BY <1>2, <1>3, <1>5, <2>1 DEF InHand
    <2> QED
      BY <1>7, <2>1, <2>2 DEF InHand
  <1> QED
    BY <1>6, <1>7

(* What is in hand when a thread goes on with the packet it has.           *)
LEMMA HoldOn ==
    ASSUME TypeOK, NEW t \in Threads, NEW l, pc' = [pc EXCEPT ![t] = l], UNCHANGED packet,
           pc[t] \in Working <=> l \in Working
    PROVE  InHand' = InHand
  <1>1. \A u \in Threads, k \in NumberedKeys : Carries(u, k)' <=> Carries(u, k)
    BY DEF TypeOK, Carries
  <1> QED
    BY <1>1 DEF InHand

(* A dropped packet is discarded, or invisible when it has no id.          *)
LEMMA DropImplements ==
    ASSUME DeliveryInv, NEW t \in Threads, pc[t] \in Working, Return(t),
           UNCHANGED <<packetCache, dispatched, forgotten>>
    PROVE  [D!Next]_(D!vars)
  <1>1. /\ pc' = [pc EXCEPT ![t] = "idle"]
        /\ packet' = [packet EXCEPT ![t] = AnyPacket]
    BY DEF Return, GoTo
  <1>2. CASE packet[t].id # 0
    <2>1. Key(packet[t]) \in InHand /\ InHand' = InHand \ {Key(packet[t])}
      BY <1>1, <1>2, LetGo
    <2>2. UNCHANGED <<Window, Delivered, Forgotten>>
      BY DEF Window, Delivered, Forgotten
    <2>3. D!Discard(Key(packet[t])) /\ Key(packet[t]) \in NumberedKeys
      BY <2>1, <2>2 DEF D!Discard, InHand
    <2> QED
      BY <2>3 DEF D!Next
  <1>3. CASE packet[t].id = 0
    BY <1>1, <1>3, LetGo, Invisible
  <1> QED
    BY <1>2, <1>3, KeyParts, PacketsAssumption DEF DeliveryInv, TypeOK

LEMMA StepImplements ==
    ASSUME DeliveryInv, [Next]_vars
    PROVE  [D!Next]_(D!vars)
  <1> USE DEF DeliveryInv
  <1>1. ASSUME NEW t \in Threads, NEW p \in Packets, Receive(t, p)
        PROVE  [D!Next]_(D!vars)
    <2>1. \A u \in Threads, k \in NumberedKeys : Carries(u, k)' <=> Carries(u, k)
      BY <1>1 DEF Receive, GoTo, TypeOK, Carries, Working
    <2>2. InHand' = InHand
      BY <2>1 DEF InHand
    <2> QED
      BY <1>1, <2>2, Invisible DEF Receive, cache, outcome
  <1>2. ASSUME NEW t \in Threads, CheckDuplicate(t)
        PROVE  [D!Next]_(D!vars)
    <2>1. /\ pc[t] = "check"
          /\ \/ pc' = [pc EXCEPT ![t] = "cache"] /\ UNCHANGED packet
             \/ pc' = [pc EXCEPT ![t] = "idle"] /\ packet' = [packet EXCEPT ![t] = AnyPacket]
          /\ UNCHANGED <<packetCache, dispatched, forgotten>>
      BY <1>2 DEF CheckDuplicate, Return, GoTo, thread, outcome
    <2>2. \A u \in Threads, k \in NumberedKeys : Carries(u, k)' <=> Carries(u, k)
      BY <2>1 DEF TypeOK, Carries, Working
    <2>3. InHand' = InHand
      BY <2>2 DEF InHand
    <2> QED
      BY <2>1, <2>3, Invisible
  <1>3. ASSUME NEW t \in Threads, cachePacket(t)
        PROVE  [D!Next]_(D!vars)
    <2> DEFINE q == Key(packet[t])
    <2>1. /\ pc[t] = "cache"
          /\ pc' = [pc EXCEPT ![t] = "decode"]
          /\ packetCache' = packetCache \cup {q}
          /\ UNCHANGED <<packet, dispatched, forgotten>>
      BY <1>3 DEF cachePacket, GoTo, thread, outcome
    <2>2. packet[t] \in Packets /\ (q \in NumberedKeys <=> packet[t].id # 0)
      BY KeyParts DEF NumberedKeys, TypeOK
    <2>3. \A u \in Threads, k \in NumberedKeys :
             Carries(u, k)' <=> Carries(u, k) \/ (u = t /\ k = q)
      BY <2>1 DEF TypeOK, Carries, Working
    <2>4. CASE packet[t].id # 0
      <3>1. q \notin packetCache
        BY <2>1, <2>4 DEF LockHeld
      <3>2. InHand' = InHand \cup {q}
        BY <2>2, <2>3, <2>4 DEF InHand
      <3>3. Window' = Window \cup {q} /\ q \notin Window
        BY <2>1, <2>2, <2>4, <3>1 DEF Window
      <3>4. UNCHANGED <<Delivered, Forgotten>>
        BY <2>1 DEF Delivered, Forgotten
      <3> QED
        BY <2>2, <2>4, <3>2, <3>3, <3>4 DEF D!Next, D!Accept
    <2>5. CASE packet[t].id = 0
      <3>1. q \notin NumberedKeys
        BY <2>2, <2>5
      <3>2. InHand' = InHand
        BY <2>3, <3>1 DEF InHand
      <3>3. Window' = Window
        BY <2>1, <3>1 DEF Window
      <3> QED
        BY <2>1, <3>2, <3>3 DEF D!vars, Delivered, Forgotten
    <2> QED
      BY <2>4, <2>5
  <1>4. ASSUME NEW t \in Threads, Decode(t)
        PROVE  [D!Next]_(D!vars)
    <2>1. /\ pc[t] = "decode"
          /\ UNCHANGED <<packetCache, dispatched, forgotten>>
          /\ \/ pc' = [pc EXCEPT ![t] = "process"] /\ UNCHANGED packet
             \/ Return(t)
      BY <1>4 DEF Decode, GoTo, thread, cache, outcome
    <2>2. CASE Return(t)
      BY <2>1, <2>2, DropImplements DEF Working
    <2>3. CASE pc' = [pc EXCEPT ![t] = "process"] /\ UNCHANGED packet
      BY <2>1, <2>3, HoldOn, Invisible DEF Working
    <2> QED
      BY <2>1, <2>2, <2>3
  <1>5. ASSUME NEW t \in Threads, processMessage(t)
        PROVE  [D!Next]_(D!vars)
    <2>1. /\ pc[t] = "process"
          /\ UNCHANGED <<packetCache, dispatched, forgotten>>
          /\ \/ pc' = [pc EXCEPT ![t] = "notify"] /\ UNCHANGED packet
             \/ Return(t)
      BY <1>5 DEF processMessage, GoTo, thread, cache, outcome
    <2>2. CASE Return(t)
      BY <2>1, <2>2, DropImplements DEF Working
    <2>3. CASE pc' = [pc EXCEPT ![t] = "notify"] /\ UNCHANGED packet
      BY <2>1, <2>3, HoldOn, Invisible DEF Working
    <2> QED
      BY <2>1, <2>2, <2>3
  <1>6. ASSUME NEW t \in Threads, notifyEvent(t)
        PROVE  [D!Next]_(D!vars)
    <2> DEFINE q == Key(packet[t])
    <2>1. /\ pc[t] = "notify"
          /\ pc' = [pc EXCEPT ![t] = "idle"]
          /\ packet' = [packet EXCEPT ![t] = AnyPacket]
          /\ dispatched' = [dispatched EXCEPT ![q] = @ + 1]
          /\ UNCHANGED <<packetCache, forgotten>>
      BY <1>6 DEF notifyEvent, Return, GoTo, cache
    <2>2. pc[t] \in Working
      BY <2>1 DEF Working
    <2>3. UNCHANGED <<Window, Forgotten>>
      BY <2>1 DEF Window, Forgotten
    <2>4. CASE packet[t].id # 0
      <3>1. q \in InHand /\ InHand' = InHand \ {q}
        BY <2>1, <2>2, <2>4, LetGo
      <3>2. Delivered' = [Delivered EXCEPT ![q] = @ + 1]
        BY <2>1, <3>1 DEF Delivered, InHand, NumberedKeys, TypeOK
      <3> QED
        BY <2>3, <3>1, <3>2 DEF D!Next, D!Deliver, InHand
    <2>5. CASE packet[t].id = 0
      <3>1. q \notin NumberedKeys /\ InHand' = InHand
        BY <2>1, <2>2, <2>5, LetGo
      <3>2. Delivered' = Delivered
        BY <2>1, <3>1 DEF Delivered, NumberedKeys, TypeOK
      <3> QED
        BY <2>3, <3>1, <3>2 DEF D!vars
    <2> QED
      BY <2>4, <2>5
  <1>7. ASSUME NEW k \in Keys, Expire(k)
        PROVE  [D!Next]_(D!vars)
    <2>1. InHand' = InHand
      BY <1>7 DEF Expire, thread, InHand, Carries
    <2>2. Delivered' = Delivered
      BY <1>7 DEF Expire, outcome, Delivered
    <2>3. CASE k \in NumberedKeys
      <3>1. k \in Window \ InHand
        BY <1>7, <2>3 DEF Expire, Window, InHand
      <3>2. Window' = Window \ {k}
        BY <1>7 DEF Expire, Window
      <3>3. Forgotten' = [Forgotten EXCEPT ![k] = @ + 1]
        BY <1>7, <2>3 DEF Expire, Forgotten, NumberedKeys, TypeOK
      <3> QED
        BY <2>1, <2>2, <2>3, <3>1, <3>2, <3>3 DEF D!Next, D!Forget
    <2>4. CASE k \notin NumberedKeys
      <3>1. Window' = Window
        BY <1>7, <2>4 DEF Expire, Window
      <3>2. Forgotten' = Forgotten
        BY <1>7, <2>4 DEF Expire, Forgotten, NumberedKeys, TypeOK
      <3> QED
        BY <2>1, <2>2, <3>1, <3>2 DEF D!vars
    <2> QED
      BY <2>3, <2>4
  <1>8. CASE Tick \/ UNCHANGED vars
    <2>1. UNCHANGED <<pc, packet, packetCache, dispatched, forgotten>>
      BY <1>8 DEF Tick, vars, thread, cache, outcome
    <2>2. InHand' = InHand
      BY <2>1 DEF InHand, Carries
    <2> QED
      BY <2>1, <2>2, Invisible
  <1> QED
    BY <1>1, <1>2, <1>3, <1>4, <1>5, <1>6, <1>7, <1>8 DEF Next, Step

LEMMA InitImplements == Init => D!Init
  <1> SUFFICES ASSUME Init PROVE D!Init
    OBVIOUS
  <1>1. InHand = {}
    BY DEF Init, InHand, Carries, Working
  <1>2. Window = {}
    BY DEF Init, Window
  <1>3. Delivered = [k \in NumberedKeys |-> 0] /\ Forgotten = [k \in NumberedKeys |-> 0]
    BY DEF Init, Delivered, Forgotten, NumberedKeys
  <1> QED
    BY <1>1, <1>2, <1>3 DEF D!Init

(* The threaded receive path, with its lock, decryption and throttle,      *)
(* implements the abstract delivery: each packet id is accepted once per   *)
(* cache lifetime and then delivered or discarded once.                    *)
THEOREM IntakeImplementsDelivery == Spec => ImplementsDelivery
  <1>1. DeliveryInv /\ [Next]_vars => [D!Next]_(D!vars)
    BY StepImplements
  <1> QED
    BY <1>1, InitImplements, DeliveryInvariant, PTL DEF Spec, ImplementsDelivery, D!Spec
=============================================================================
