----------------------- MODULE TracerouteTrackerProofs -----------------------
(***************************************************************************)
(* First the operators of RouteDiscovery: the route and SNR lists stay in  *)
(* step, for any route and any packet.  Then the tracker: any number of    *)
(* traceroute commands, answers and rooms.                                 *)
(***************************************************************************)
EXTENDS TracerouteTracker, FiniteSetTheorems, TLAPS

(* A list in step: as many SNRs as hops, each the hop's own or unknown.    *)
InStep(d) == d \in List /\ Aligned(d)

(* Padding keeps what is there and fills the rest.                         *)
LEMMA PaddedIsLonger ==
    ASSUME NEW S, NEW s \in Seq(S), NEW n \in Int, NEW x \in S
    PROVE  /\ Padded(s, n, x) \in Seq(S)
           /\ Len(Padded(s, n, x)) = IF Len(s) < n THEN n ELSE Len(s)
           /\ \A k \in 1..Len(Padded(s, n, x)) :
                 Padded(s, n, x)[k] = IF k <= Len(s) THEN s[k] ELSE x
<1> DEFINE m == IF Len(s) < n THEN n ELSE Len(s)
<1>1. m \in Nat
  OBVIOUS
<1>2. Padded(s, n, x) = [k \in 1..m |-> IF k <= Len(s) THEN s[k] ELSE x]
  BY DEF Padded
<1>3. \A k \in 1..m : (IF k <= Len(s) THEN s[k] ELSE x) \in S
  OBVIOUS
<1> HIDE DEF m
<1>4. [k \in 1..m |-> IF k <= Len(s) THEN s[k] ELSE x] \in Seq(S)
  BY <1>1, <1>3
<1>5. Len([k \in 1..m |-> IF k <= Len(s) THEN s[k] ELSE x]) = m
  BY <1>1
<1> QED
  BY <1>2, <1>4, <1>5 DEF m

(* After insertUnknownHops the lists are in step, unless it returned early *)
(* on lists that were not.                                                 *)
LEMMA HopsInserted ==
    ASSUME NEW p \in Carrier, NEW d \in List, WellFormed(d), ~Unpadded(p, d)
    PROVE  InStep(insertUnknownHops(p, d))
<1> DEFINE H == Hops \cup {Broadcast}
           M == Hops \cup {Unknown}
<1>0. /\ p.hopStart \in Nat /\ p.hopLimit \in Nat
      /\ d = [route |-> d.route, snr |-> d.snr]
      /\ d.route \in Seq(H) /\ d.snr \in Seq(M)
  BY DEF Carrier, List
<1>1. CASE p.hopStart = 0 \/ p.hopLimit > p.hopStart
  <2>1. insertUnknownHops(p, d) = d
    BY <1>1 DEF insertUnknownHops
  <2>2. Len(d.snr) = Len(d.route)
    BY <1>0, <1>1 DEF WellFormed, Unpadded
  <2> QED
    BY <2>1, <2>2 DEF InStep, Aligned, WellFormed
<1>2. CASE ~(p.hopStart = 0 \/ p.hopLimit > p.hopStart)
  <2> DEFINE r == Padded(d.route, p.hopStart - p.hopLimit, Broadcast)
             s == Padded(d.snr, Len(r), Unknown)
  <2>1. insertUnknownHops(p, d) = [route |-> r, snr |-> s]
    BY <1>2 DEF insertUnknownHops
  <2>2. p.hopStart - p.hopLimit \in Int /\ Broadcast \in H /\ Unknown \in M
    BY <1>0
  <2>3. /\ r \in Seq(H) /\ Len(r) >= Len(d.route)
        /\ \A k \in 1..Len(r) : r[k] = IF k <= Len(d.route) THEN d.route[k] ELSE Broadcast
    <3>1. /\ d.route \in Seq(Hops \cup {Broadcast}) /\ Broadcast \in Hops \cup {Broadcast}
          /\ p.hopStart - p.hopLimit \in Int
      BY <1>0
    <3>2. /\ r \in Seq(Hops \cup {Broadcast})
          /\ Len(r) = IF Len(d.route) < p.hopStart - p.hopLimit
                      THEN p.hopStart - p.hopLimit ELSE Len(d.route)
          /\ \A k \in 1..Len(r) : r[k] = IF k <= Len(d.route) THEN d.route[k] ELSE Broadcast
      BY <3>1, PaddedIsLonger
    <3>3. Len(d.route) \in Nat
      BY <1>0
    <3> HIDE DEF r
    <3> QED
      BY <3>1, <3>2, <3>3
  <2>4. Len(r) \in Int /\ Len(d.snr) <= Len(r)
    BY <1>0, <2>3 DEF WellFormed
  <2> HIDE DEF r
  <2>5. /\ s \in Seq(M) /\ Len(s) = Len(r)
        /\ \A k \in 1..Len(s) : s[k] = IF k <= Len(d.snr) THEN d.snr[k] ELSE Unknown
    <3>0. d.snr \in Seq(Hops \cup {Unknown}) /\ Unknown \in Hops \cup {Unknown}
      BY <1>0
    <3>1. /\ Padded(d.snr, Len(r), Unknown) \in Seq(M)
          /\ Len(Padded(d.snr, Len(r), Unknown)) = IF Len(d.snr) < Len(r) THEN Len(r) ELSE Len(d.snr)
          /\ \A k \in 1..Len(Padded(d.snr, Len(r), Unknown)) :
                Padded(d.snr, Len(r), Unknown)[k] = IF k <= Len(d.snr) THEN d.snr[k] ELSE Unknown
      BY <3>0, <2>4, PaddedIsLonger
    <3>2. Len(d.snr) \in Nat
      BY <1>0
    <3> QED
      BY <3>1, <3>2, <2>4
  <2> HIDE DEF s
  <2>6. \A k \in 1..Len(s) : s[k] \in {Unknown, r[k]}
    <3>1. TAKE k \in 1..Len(s)
    <3>2. CASE k <= Len(d.snr)
      <4>1. k \in 1..Len(d.snr) /\ k \in 1..Len(r) /\ k <= Len(d.route)
        BY <1>0, <2>3, <2>5, <3>2 DEF WellFormed
      <4> QED
        BY <4>1, <2>3, <2>5, <3>1 DEF WellFormed
    <3>3. CASE ~(k <= Len(d.snr))
      BY <3>1, <3>3, <2>5
    <3> QED
      BY <3>2, <3>3
  <2>7. [route |-> r, snr |-> s] \in List
    BY <2>3, <2>5 DEF List
  <2> QED
    BY <2>1, <2>5, <2>6, <2>7 DEF InStep, Aligned
<1> QED
  BY <1>1, <1>2

(* A node is added to both lists or to none.                               *)
LEMMA NodeAdded ==
    ASSUME NEW d, InStep(d), NEW n \in Hops
    PROVE  InStep(addNodeToRouteIfMissing(d, n))
<1>1. CASE In(n, d.route)
  BY <1>1 DEF addNodeToRouteIfMissing
<1>2. CASE ~In(n, d.route)
  <2> DEFINE r == Append(d.route, n)
             s == Append(d.snr, n)
  <2>1. addNodeToRouteIfMissing(d, n) = [route |-> r, snr |-> s]
    BY <1>2 DEF addNodeToRouteIfMissing
  <2>2. d.route \in Seq(Hops \cup {Broadcast}) /\ d.snr \in Seq(Hops \cup {Unknown})
    BY DEF InStep, Aligned, List
  <2>3. /\ r \in Seq(Hops \cup {Broadcast}) /\ s \in Seq(Hops \cup {Unknown})
        /\ Len(r) = Len(d.route) + 1 /\ Len(s) = Len(d.snr) + 1
    BY <2>2
  <2>4. \A k \in 1..Len(s) : s[k] \in {Unknown, r[k]}
    BY <2>2, <2>3 DEF InStep, Aligned
  <2>5. [route |-> r, snr |-> s] \in List
    BY <2>3 DEF List
  <2> QED
    BY <2>1, <2>3, <2>4, <2>5 DEF InStep, Aligned
<1> QED
  BY <1>1, <1>2

(* A completed list shows every hop and the node at its end their own SNR  *)
(* or none.                                                                *)
LEMMA CompletedShownRight ==
    ASSUME NEW p \in Carrier, NEW d \in List, WellFormed(d), ~Unpadded(p, d)
    PROVE  ShownRight(Completed(p, d), p.to)
<1> DEFINE a == insertUnknownHops(p, d)
           b == addGatewayToRoute(p, a)
           e == addBridge(p, b)
<1>1. InStep(a)
  BY HopsInserted
<1>2. InStep(b)
  <2>1. p.gateway \in Hops \cup {NoGateway}
    BY DEF Carrier
  <2> HIDE DEF a
  <2> QED
    BY <1>1, <2>1, NodeAdded DEF addGatewayToRoute
<1>3. InStep(e)
  <2> HIDE DEF b
  <2>1. Self \in Hops
    BY HopsAssumption
  <2> QED
    BY <1>2, <2>1, NodeAdded DEF addBridge
<1>4. Completed(p, d) = [e EXCEPT !.snr = Append(e.snr, p.to)]
  BY DEF Completed, Arrived
<1> HIDE DEF e
<1>5. e.route \in Seq(Hops \cup {Broadcast}) /\ e.snr \in Seq(Hops \cup {Unknown}) /\ p.to \in Hops
  BY <1>3 DEF InStep, Aligned, List, Carrier
<1> DEFINE f == [e EXCEPT !.snr = Append(e.snr, p.to)]
<1>6. f.route = e.route /\ f.snr = Append(e.snr, p.to)
  BY <1>3 DEF InStep, Aligned, List
<1>7. /\ Len(f.snr) = Len(f.route) + 1 /\ f.snr[Len(f.snr)] = p.to
      /\ \A k \in 1..Len(f.route) : f.snr[k] = e.snr[k]
  BY <1>3, <1>5, <1>6 DEF InStep, Aligned
<1>8. Len(f.route) \in Nat
  BY <1>5, <1>6
<1> HIDE DEF f
<1>9. \A k \in 1..Len(f.route) : ShownAt(f, k) \in {Unknown, f.route[k]}
  BY <1>3, <1>6, <1>7, <1>8 DEF ShownAt, InStep, Aligned
<1>10. ShownLast(f) \in {Unknown, p.to}
  BY <1>7 DEF ShownLast
<1> QED
  BY <1>4, <1>9, <1>10 DEF ShownRight, f

(* Whatever route an answer has and however it reached the bridge, the     *)
(* return list shows every hop and the node at the end its own SNR or      *)
(* none, unless the packet has no hop count and SNRs were missing already        *)
(* (handleTracerouteResponse, formatTracerouteResponse).                   *)
THEOREM ReturnRouteShownRight ==
    ASSUME NEW p \in Carrier, NEW d \in List, WellFormed(d), ~Unpadded(p, d)
    PROVE  ShownRight(handleTracerouteResponse(p, d), p.to)
BY CompletedShownRight DEF handleTracerouteResponse

(* The notice as a whole.  The forward list is shown as it arrived: each   *)
(* hop has its own SNR or none, and so has the target unless the list came *)
(* without the target's (formatTracerouteResponse).                        *)
THEOREM NoticeShownRight ==
    ASSUME NEW p \in Carrier, NEW d \in List, WellFormed(d), ~Unpadded(p, d),
           NEW f \in List, ForwardFormed(f, p.from)
    PROVE  NoticeRight(f, p.from, handleTracerouteResponse(p, d), p.to)
<1>0. f.route \in Seq(Hops \cup {Broadcast}) /\ f.snr \in Seq(Hops \cup {Unknown})
  BY DEF List
<1>1. Len(f.route) \in Nat /\ Len(f.snr) \in Nat
  BY <1>0
<1>2. \A k \in 1..Len(f.route) : ShownAt(f, k) \in {Unknown, f.route[k]}
  BY <1>1 DEF ShownAt, ForwardFormed
<1>3. ~Short(f) => ShownLast(f) \in {Unknown, p.from}
  <2> SUFFICES ASSUME ~Short(f) PROVE ShownLast(f) \in {Unknown, p.from}
    OBVIOUS
  <2>1. Len(f.snr) = Len(f.route) + 1
    BY <1>1 DEF Short, ForwardFormed
  <2>2. Len(f.snr) \in 1..Len(f.snr) /\ ~(Len(f.snr) <= Len(f.route))
    BY <1>1, <2>1
  <2>3. f.snr[Len(f.snr)] \in {Unknown, p.from}
    BY <2>2 DEF ForwardFormed
  <2> QED
    BY <2>3 DEF ShownLast
<1> QED
  BY <1>2, <1>3, ReturnRouteShownRight DEF NoticeRight

(* The answer to a request: its forward list shows every hop and the node  *)
(* that was addressed their own SNR or none, and the return list it starts *)
(* has one SNR for each hop (handleTracerouteRequest).                     *)
THEOREM AnswerRoutesShownRight ==
    ASSUME NEW p \in Carrier, NEW d \in List, NEW back \in List,
           WellFormed(d), ~Unpadded(p, d), Aligned(back)
    PROVE  LET answer == handleTracerouteRequest(p, d, back)
           IN  ShownRight(answer.towards, p.to) /\ Aligned(answer.back)
<1>1. ShownRight(Completed(p, d), p.to)
  BY CompletedShownRight
<1>2. Aligned(addBridge(p, back))
  <2>1. InStep(back) /\ Self \in Hops
    BY HopsAssumption DEF InStep
  <2> QED
    BY <2>1, NodeAdded DEF addBridge, InStep
<1> QED
  BY <1>1, <1>2 DEF handleTracerouteRequest

-----------------------------------------------------------------------------
(* The commands and the tracker.                                           *)

Labels == {"check", "refused", "send", "failed", "sending", "stamped", "waiting"}

(* A command has a packet from SendTraceroute on.                          *)
Numbered ==
    \A c \in Commands : packetID[c] # NoPacket <=> pc[c] \in {"sending", "stamped", "waiting"}

(* The commands that put a request on the tracker under a packet's id.     *)
Waiting(i) == {c \in Commands : pc[c] = "waiting" /\ packetID[c] = i}

Pending(i) == IF i \in DOMAIN pendingRequests THEN 1 ELSE 0

(* What is pending was put there, every request put there is good for one  *)
(* notice, and the notices went to the rooms of such commands.             *)
Tracked ==
    /\ \A i \in DOMAIN pendingRequests : pendingRequests[i] \in Waiting(i)
    /\ \A i \in PacketIds : Len(notices[i]) + Pending(i) <= Cardinality(Waiting(i))
    /\ \A i \in PacketIds : \A n \in 1..Len(notices[i]) :
          \E c \in Waiting(i) : notices[i][n] = RoomOf[c]

NoticesInv == TypeOK /\ Numbered /\ Tracked /\ HopsShowTheirSnr

(* The times of a command, and of the commands for a pair that never had   *)
(* two under way at once.                                                  *)
Timed(c) ==
    /\ sentAt[c] # Never <=> pc[c] \in {"sending", "stamped", "waiting"}
    /\ sentAt[c] <= clock
    /\ pc[c] = "stamped" => sentAt[c] <= timestamp[c] /\ timestamp[c] <= clock

Spaced(c, d) ==
    /\ ~(UnderWay(c) /\ UnderWay(d))
    /\ pc[c] = "send" /\ sentAt[d] # Never => clock - sentAt[d] >= TracerouteTimeout
    /\ pc[c] \in {"sending", "stamped"} /\ sentAt[d] # Never => sentAt[c] - sentAt[d] >= TracerouteTimeout

Limited(c) ==
    pc[c] = "waiting" => lastTraceroute[PairOf[c]] # Never /\ sentAt[c] <= lastTraceroute[PairOf[c]]

Separate ==
    /\ \A c \in Commands : Timed(c) /\ (PairOf[c] \notin overlapped => Limited(c))
    /\ \A c, d \in Commands :
          c # d /\ PairOf[c] = PairOf[d] /\ PairOf[c] \notin overlapped => Spaced(c, d)
    /\ SpacedUnlessOverlapping

SpacedInv == TypeOK /\ Separate

-----------------------------------------------------------------------------
(* The lists of every arrival come out in step.                            *)
LEMMA OutcomesAreRight ==
    /\ \A right \in NoticeOutcomes : right
    /\ \A right \in AnswerOutcomes : right
<1> DEFINE empty == [route |-> << >>, snr |-> << >>]
<1>1. empty \in List /\ Aligned(empty)
  BY DEF List, Aligned
<1>2. ASSUME NEW a \in Arrivals, ~Unpadded(a.p, a.d)
      PROVE  /\ a.p \in Carrier /\ a.d \in List /\ WellFormed(a.d)
             /\ a.f \in List /\ ForwardFormed(a.f, a.p.from)
  BY ArrivalsAssumption
<1>3. ASSUME NEW a \in Arrivals, ~Unpadded(a.p, a.d)
      PROVE  NoticeRight(a.f, a.p.from, handleTracerouteResponse(a.p, a.d), a.p.to)
  BY <1>2, <1>3, NoticeShownRight
<1>4. ASSUME NEW a \in Arrivals, ~Unpadded(a.p, a.d)
      PROVE  /\ ShownRight(handleTracerouteRequest(a.p, a.d, empty).towards, a.p.to)
             /\ Aligned(handleTracerouteRequest(a.p, a.d, empty).back)
  <2> HIDE DEF empty
  <2> QED
    BY <1>1, <1>2, <1>4, AnswerRoutesShownRight
<1> QED
  BY <1>3, <1>4, Zenon DEF NoticeOutcomes, AnswerOutcomes

LEMMA InitNotices == Init => NoticesInv
<1> SUFFICES ASSUME Init PROVE NoticesInv
  OBVIOUS
<1>1. TypeOK
  <2>1. garbled \in BOOLEAN
    BY Zenon DEF Init
  <2>2. pendingRequests \in [DOMAIN pendingRequests -> Commands] /\ DOMAIN pendingRequests = {}
    BY DEF Init
  <2>3. notices \in [PacketIds -> Seq(Rooms)]
    BY DEF Init
  <2> QED
    BY <2>1, <2>2, <2>3, TimesAssumption DEF Init, TypeOK, Times, Never
<1>2. Numbered /\ HopsShowTheirSnr
  BY PacketIdsAssumption DEF Init, Numbered, HopsShowTheirSnr
<1>3. Tracked
  <2>1. ASSUME NEW i \in PacketIds
        PROVE  Waiting(i) = {} /\ Pending(i) = 0 /\ notices[i] = << >>
    BY DEF Init, Waiting, Pending
  <2>2. Cardinality({}) = 0
    BY FS_EmptySet
  <2>3. DOMAIN pendingRequests = {}
    BY DEF Init
  <2>4. ASSUME NEW i \in PacketIds
        PROVE  Len(notices[i]) + Pending(i) <= Cardinality(Waiting(i)) /\ Len(notices[i]) = 0
    <3>1. Cardinality(Waiting(i)) = 0 /\ Pending(i) = 0 /\ notices[i] = << >>
      BY <2>1, <2>2
    <3>2. Len(notices[i]) = 0
      BY <3>1
    <3> QED
      BY <3>1, <3>2
  <2> QED
    BY <2>3, <2>4 DEF Tracked
<1> QED
  BY <1>1, <1>2, <1>3 DEF NoticesInv

LEMMA NextKeepsType == TypeOK /\ Numbered /\ [Next]_vars => TypeOK'
<1> SUFFICES ASSUME TypeOK, Numbered, [Next]_vars PROVE TypeOK'
  OBVIOUS
<1> USE DEF At, GoTo
<1>0. /\ pc \in [Commands -> Labels] /\ clock \in Times /\ TracerouteTimeout \in Nat
      /\ Never \in Times /\ MaxTime \in Nat /\ MaxResponses \in Nat
      /\ PairOf \in [Commands -> Pairs] /\ RoomOf \in [Commands -> Rooms]
  BY TimesAssumption, CommandsAssumption DEF TypeOK, Labels, Times
<1>1. ASSUME NEW c \in Commands, CheckRateLimit(c) PROVE TypeOK'
  <2>1. pc' \in [Commands -> Labels]
    BY <1>0, <1>1 DEF CheckRateLimit, Labels
  <2>2. overlapped' \subseteq Pairs
    BY <1>0, <1>1 DEF CheckRateLimit, TypeOK
  <2> QED
    BY <1>1, <2>1, <2>2 DEF CheckRateLimit, TypeOK, Labels, tracker, results
<1>2. ASSUME NEW c \in Commands, SendTraceroute(c) PROVE TypeOK'
  <2>1. pc' \in [Commands -> Labels]
    BY <1>0, <1>2 DEF SendTraceroute, Labels
  <2>2. packetID' \in [Commands -> PacketIds \cup {NoPacket}] /\ sentAt' \in [Commands -> Times]
    BY <1>0, <1>2 DEF SendTraceroute, TypeOK
  <2> QED
    BY <1>2, <2>1, <2>2 DEF SendTraceroute, TypeOK, Labels, tracker, results
<1>3. ASSUME NEW c \in Commands, SendTracerouteFails(c) PROVE TypeOK'
  <2>1. pc' \in [Commands -> Labels]
    BY <1>0, <1>3 DEF SendTracerouteFails, Labels
  <2> QED
    BY <1>3, <2>1 DEF SendTracerouteFails, TypeOK, Labels, tracker, results
<1>4. ASSUME NEW c \in Commands, Stamp(c) PROVE TypeOK'
  <2>1. pc' \in [Commands -> Labels] /\ timestamp' \in [Commands -> Times]
    BY <1>0, <1>4 DEF Stamp, Labels, TypeOK
  <2> QED
    BY <1>4, <2>1 DEF Stamp, TypeOK, Labels, tracker, results
<1>5. ASSUME NEW c \in Commands, AddRequest(c) PROVE TypeOK'
  <2>1. pc' \in [Commands -> Labels]
    BY <1>0, <1>5 DEF AddRequest, Labels
  <2>2. lastTraceroute' \in [Pairs -> Times]
    BY <1>0, <1>5 DEF AddRequest, TypeOK
  <2>3. /\ DOMAIN pendingRequests' \subseteq PacketIds
        /\ pendingRequests' \in [DOMAIN pendingRequests' -> Commands]
    BY <1>5 DEF AddRequest, Put, TypeOK, Numbered
  <2> QED
    BY <1>5, <2>1, <2>2, <2>3 DEF AddRequest, TypeOK, Labels, results
<1>6. ASSUME NEW i \in PacketIds, handleMeshTraceroute(i) PROVE TypeOK'
  <2>1. /\ DOMAIN pendingRequests' \subseteq PacketIds
        /\ pendingRequests' \in [DOMAIN pendingRequests' -> Commands]
    BY <1>6 DEF handleMeshTraceroute, GetAndRemoveRequest, Without, TypeOK
  <2>2. /\ responses' \in 0..MaxResponses /\ answered' \subseteq PacketIds
        /\ unsent' \subseteq PacketIds
    BY <1>0, <1>6 DEF handleMeshTraceroute, TypeOK
  <2>3. notices' \in [PacketIds -> Seq(Rooms)]
    <3>1. CASE notices' = notices
      BY <3>1 DEF TypeOK
    <3>2. CASE notices' # notices
      <4>1. PICK r \in Rooms : notices' = [notices EXCEPT ![i] = Append(notices[i], r)]
        BY <1>0, <1>6, <3>2 DEF handleMeshTraceroute, TypeOK
      <4>2. notices \in [PacketIds -> Seq(Rooms)]
        BY DEF TypeOK
      <4> QED
        BY <4>1, <4>2
    <3> QED
      BY <3>1, <3>2
  <2>4. garbled' \in BOOLEAN
    <3>1. garbled' = garbled \/ \E right : garbled' = (garbled \/ ~right)
      BY <1>6, Zenon DEF handleMeshTraceroute
    <3> QED
      BY <3>1, Zenon DEF TypeOK
  <2> QED
    BY <1>6, <2>1, <2>2, <2>3, <2>4 DEF handleMeshTraceroute, TypeOK, commandVars
<1>7. CASE AnswerRequest
  <2>1. garbled' \in BOOLEAN
    BY <1>7, Zenon DEF AnswerRequest
  <2>2. responses' \in 0..MaxResponses
    BY <1>0, <1>7 DEF AnswerRequest, TypeOK
  <2> QED
    BY <1>7, <2>1, <2>2 DEF AnswerRequest, TypeOK, commandVars, tracker
<1>8. CASE Tick
  BY <1>0, <1>8 DEF Tick, TypeOK, commandVars, tracker, results
<1>9. CASE UNCHANGED vars
  BY <1>9 DEF vars, TypeOK, commandVars, tracker, results
<1> QED
  BY <1>1, <1>2, <1>3, <1>4, <1>5, <1>6, <1>7, <1>8, <1>9 DEF Next

-----------------------------------------------------------------------------
(* Nothing of what the notices depend on changes.                          *)
LEMMA TrackedStays ==
    ASSUME Tracked, \A i : Waiting(i)' = Waiting(i), UNCHANGED <<pendingRequests, notices>>
    PROVE  Tracked'
BY DEF Tracked, Pending

(* A notice goes to the room of the command that is tracked, and the       *)
(* request is gone with it.                                                *)
LEMMA AnswerKeepsNotices ==
    ASSUME NoticesInv, NEW i \in PacketIds, handleMeshTraceroute(i)
    PROVE  Numbered' /\ Tracked' /\ HopsShowTheirSnr'
<1>0. /\ TypeOK /\ packetID' = packetID /\ pc' = pc
      /\ notices \in [PacketIds -> Seq(Rooms)] /\ RoomOf \in [Commands -> Rooms]
      /\ \A j : Waiting(j)' = Waiting(j)
  BY CommandsAssumption DEF NoticesInv, TypeOK, handleMeshTraceroute, commandVars, Waiting
<1>1. Numbered'
  BY <1>0 DEF NoticesInv, Numbered
<1>2. HopsShowTheirSnr'
  BY OutcomesAreRight, Zenon DEF NoticesInv, HopsShowTheirSnr, handleMeshTraceroute
<1>3. CASE i \notin DOMAIN pendingRequests
  BY <1>0, <1>1, <1>2, <1>3, TrackedStays DEF handleMeshTraceroute, NoticesInv
<1>4. CASE i \in DOMAIN pendingRequests
  <2>1. PICK req \in Commands : req = pendingRequests[i] /\ req \in Waiting(i)
    BY <1>4 DEF NoticesInv, Tracked, Waiting
  <2>2. /\ DOMAIN pendingRequests' = DOMAIN pendingRequests \ {i}
        /\ \A j \in DOMAIN pendingRequests' : pendingRequests'[j] = pendingRequests[j]
    BY <1>4 DEF handleMeshTraceroute, GetAndRemoveRequest, Without
  <2>3. /\ \A j \in PacketIds : j # i => notices'[j] = notices[j]
        /\ notices'[i] \in {notices[i], Append(notices[i], RoomOf[req])}
    BY <1>0, <1>4, <2>1 DEF handleMeshTraceroute
  <2>4. ASSUME NEW j \in PacketIds
        PROVE  /\ Len(notices'[j]) + Pending(j)' <= Cardinality(Waiting(j))
               /\ \A n \in 1..Len(notices'[j]) : \E c \in Waiting(j) : notices'[j][n] = RoomOf[c]
    <3>0. /\ Len(notices[j]) + Pending(j) <= Cardinality(Waiting(j))
          /\ \A n \in 1..Len(notices[j]) : \E c \in Waiting(j) : notices[j][n] = RoomOf[c]
      BY DEF NoticesInv, Tracked
    <3>1. CASE j # i
      BY <2>2, <2>3, <3>0, <3>1 DEF Pending
    <3>2. CASE j = i
      <4>1. Pending(j) = 1 /\ Pending(j)' = 0 /\ notices[j] \in Seq(Rooms) /\ RoomOf[req] \in Rooms
        BY <1>0, <1>4, <2>2, <3>2 DEF Pending
      <4>2. Cardinality(Waiting(j)) \in Nat /\ Len(notices[j]) \in Nat
        <5>1. IsFiniteSet(Waiting(j))
          BY CommandsAssumption, FS_Subset DEF Waiting
        <5> QED
          BY <4>1, <5>1, FS_CardinalityType
      <4>3. CASE notices'[j] = notices[j]
        BY <3>0, <4>1, <4>2, <4>3
      <4>4. CASE notices'[j] = Append(notices[j], RoomOf[req])
        <5>1. /\ Len(notices'[j]) = Len(notices[j]) + 1
              /\ \A n \in 1..Len(notices[j]) : notices'[j][n] = notices[j][n]
              /\ notices'[j][Len(notices[j]) + 1] = RoomOf[req]
          BY <4>1, <4>4
        <5>2. Len(notices'[j]) + Pending(j)' <= Cardinality(Waiting(j))
          BY <3>0, <4>1, <4>2, <5>1
        <5>3. ASSUME NEW n \in 1..Len(notices'[j])
              PROVE  \E c \in Waiting(j) : notices'[j][n] = RoomOf[c]
          <6>1. n \in 1..Len(notices[j]) \/ n = Len(notices[j]) + 1
            BY <4>2, <5>1
          <6> QED
            BY <2>1, <3>0, <3>2, <5>1, <6>1
        <5> QED
          BY <5>2, <5>3
      <4> QED
        BY <2>3, <3>2, <4>3, <4>4
    <3> QED
      BY <3>1, <3>2
  <2>5. \A j \in DOMAIN pendingRequests' : pendingRequests'[j] \in Waiting(j)
    BY <2>2 DEF NoticesInv, Tracked
  <2>6. Tracked'
    BY <1>0, <2>4, <2>5 DEF Tracked
  <2> QED
    BY <1>1, <1>2, <2>6
<1> QED
  BY <1>3, <1>4

LEMMA CommandKeepsNotices ==
    ASSUME NoticesInv, NEW c \in Commands,
           \/ CheckRateLimit(c) \/ SendTraceroute(c) \/ SendTracerouteFails(c)
           \/ Stamp(c) \/ AddRequest(c)
    PROVE  Numbered' /\ Tracked' /\ HopsShowTheirSnr'
<1> USE DEF At, GoTo
<1>0. /\ TypeOK /\ notices' = notices /\ garbled' = garbled
      /\ pc \in [Commands -> Labels] /\ packetID \in [Commands -> PacketIds \cup {NoPacket}]
      /\ NoPacket \notin PacketIds
  BY PacketIdsAssumption DEF NoticesInv, TypeOK, CheckRateLimit, SendTraceroute,
     SendTracerouteFails, Stamp, AddRequest, results, Labels
<1>1. HopsShowTheirSnr'
  BY <1>0 DEF NoticesInv, HopsShowTheirSnr
<1>2. CASE CheckRateLimit(c) \/ SendTracerouteFails(c) \/ Stamp(c)
  <2>1. /\ UNCHANGED <<packetID, pendingRequests>>
        /\ pc'[c] \in {"send", "refused", "failed", "stamped"} /\ pc[c] # "waiting"
        /\ pc'[c] = "stamped" <=> pc[c] = "sending"
        /\ pc[c] # "stamped"
        /\ \A d \in Commands : d # c => pc'[d] = pc[d]
    BY <1>0, <1>2 DEF CheckRateLimit, SendTracerouteFails, Stamp, tracker
  <2>2. \A i : Waiting(i)' = Waiting(i)
    BY <2>1 DEF Waiting
  <2>3. Numbered'
    BY <2>1 DEF NoticesInv, Numbered
  <2> QED
    BY <1>0, <1>1, <2>1, <2>2, <2>3, TrackedStays DEF NoticesInv
<1>3. CASE SendTraceroute(c)
  <2>1. PICK i \in PacketIds : packetID' = [packetID EXCEPT ![c] = i]
    BY <1>3 DEF SendTraceroute
  <2>2. /\ packetID'[c] = i /\ pc'[c] = "sending" /\ pc[c] = "send"
        /\ \A d \in Commands : d # c => packetID'[d] = packetID[d] /\ pc'[d] = pc[d]
        /\ pendingRequests' = pendingRequests
    BY <1>0, <1>3, <2>1 DEF SendTraceroute, tracker
  <2>3. Numbered'
    BY <1>0, <2>2 DEF NoticesInv, Numbered
  <2>4. \A j : Waiting(j)' = Waiting(j)
    BY <2>2 DEF Waiting
  <2> QED
    BY <1>0, <1>1, <2>2, <2>3, <2>4, TrackedStays DEF NoticesInv
<1>4. CASE AddRequest(c)
  <2>0. PICK i \in PacketIds : packetID[c] = i
    BY <1>0, <1>4 DEF AddRequest, NoticesInv, Numbered
  <2>1. /\ packetID' = packetID /\ pc[c] = "stamped" /\ pc'[c] = "waiting"
        /\ \A d \in Commands : d # c => pc'[d] = pc[d]
        /\ DOMAIN pendingRequests' = DOMAIN pendingRequests \cup {i}
        /\ pendingRequests'[i] = c
        /\ \A j \in DOMAIN pendingRequests : j # i => pendingRequests'[j] = pendingRequests[j]
    BY <1>0, <1>4, <2>0 DEF AddRequest, Put
  <2>2. Numbered'
    BY <2>1 DEF NoticesInv, Numbered
  <2>3. /\ Waiting(i)' = Waiting(i) \cup {c} /\ c \notin Waiting(i)
        /\ \A j : j # i => Waiting(j)' = Waiting(j)
        /\ \A j : Waiting(j) \subseteq Waiting(j)'
    BY <2>0, <2>1 DEF Waiting
  <2>4. \A j \in DOMAIN pendingRequests' : pendingRequests'[j] \in Waiting(j)'
    BY <2>1, <2>3 DEF NoticesInv, Tracked
  <2>5. ASSUME NEW j \in PacketIds
        PROVE  Len(notices[j]) + Pending(j)' <= Cardinality(Waiting(j)')
    <3>0. Len(notices[j]) + Pending(j) <= Cardinality(Waiting(j))
      BY DEF NoticesInv, Tracked
    <3>1. CASE j = i
      <4>1. IsFiniteSet(Waiting(j))
        BY CommandsAssumption, FS_Subset DEF Waiting
      <4>2. Cardinality(Waiting(j)') = Cardinality(Waiting(j)) + 1 /\ Cardinality(Waiting(j)) \in Nat
        <5>1. /\ Waiting(j)' = Waiting(j) \cup {c} /\ c \notin Waiting(j)
          BY <2>3, <3>1
        <5>2. Cardinality(Waiting(j) \cup {c}) = Cardinality(Waiting(j)) + 1
          BY <4>1, <5>1, FS_AddElement
        <5> QED
          BY <4>1, <5>1, <5>2, FS_CardinalityType
      <4>3. Pending(j) \in {0, 1} /\ Pending(j)' = 1
        BY <2>1, <3>1 DEF Pending
      <4>4. Len(notices[j]) \in Nat
        BY <1>0 DEF TypeOK
      <4> QED
        BY <3>0, <4>2, <4>3, <4>4
    <3>2. CASE j # i
      <4>1. Pending(j)' = Pending(j) /\ Waiting(j)' = Waiting(j)
        BY <2>1, <2>3, <3>2 DEF Pending
      <4> QED
        BY <3>0, <4>1
    <3> QED
      BY <3>1, <3>2
  <2>6. \A j \in PacketIds : \A n \in 1..Len(notices[j]) :
           \E d \in Waiting(j)' : notices[j][n] = RoomOf[d]
    BY <2>3 DEF NoticesInv, Tracked
  <2>7. Tracked'
    BY <1>0, <2>4, <2>5, <2>6 DEF Tracked
  <2> QED
    BY <1>1, <2>2, <2>7
<1> QED
  BY <1>2, <1>3, <1>4

(* The strengthening behind the notices.                                   *)
THEOREM NoticesInvariance == Spec => []NoticesInv
<1>1. ASSUME NoticesInv, [Next]_vars
      PROVE  NoticesInv'
  <2>1. TypeOK'
    BY <1>1, NextKeepsType DEF NoticesInv
  <2>2. Numbered' /\ Tracked' /\ HopsShowTheirSnr'
    <3>1. CASE AnswerRequest
      <4>1. HopsShowTheirSnr'
        BY <1>1, <3>1, OutcomesAreRight, Zenon DEF AnswerRequest, NoticesInv, HopsShowTheirSnr
      <4> QED
        BY <1>1, <3>1, <4>1, TrackedStays DEF AnswerRequest, NoticesInv, Numbered, Waiting,
           commandVars, tracker
    <3>2. CASE Tick \/ UNCHANGED vars
      BY <1>1, <3>2, TrackedStays DEF Tick, vars, NoticesInv, Numbered, Waiting,
         HopsShowTheirSnr, commandVars, tracker, results
    <3> QED
      BY <1>1, <3>1, <3>2, AnswerKeepsNotices, CommandKeepsNotices DEF Next
  <2> QED
    BY <2>1, <2>2 DEF NoticesInv
<1> QED
  BY <1>1, InitNotices, PTL DEF Spec

(* For any number of commands, answers and rooms, and however the packet   *)
(* ids are drawn, a result is shown once for each command that sent the    *)
(* packet at most, in such a command's room (GetAndRemoveRequest).         *)
THEOREM NoticesAreRouted == Spec => []NoticeOnceInItsRoom
<1>1. NoticesInv => NoticeOnceInItsRoom
  <2> SUFFICES ASSUME NoticesInv, NEW i \in PacketIds
               PROVE  LET senders == {c \in Commands : packetID[c] = i}
                      IN  /\ Len(notices[i]) <= Cardinality(senders)
                          /\ \A n \in 1..Len(notices[i]) : \E c \in senders : notices[i][n] = RoomOf[c]
    BY DEF NoticeOnceInItsRoom
  <2> DEFINE senders == {c \in Commands : packetID[c] = i}
  <2>1. IsFiniteSet(senders) /\ Waiting(i) \subseteq senders
    BY CommandsAssumption, FS_Subset DEF Waiting
  <2>2. /\ Cardinality(Waiting(i)) <= Cardinality(senders)
        /\ Cardinality(Waiting(i)) \in Nat /\ Cardinality(senders) \in Nat
    BY <2>1, FS_Subset, FS_CardinalityType
  <2>3. /\ Len(notices[i]) + Pending(i) <= Cardinality(Waiting(i))
        /\ \A n \in 1..Len(notices[i]) : \E c \in Waiting(i) : notices[i][n] = RoomOf[c]
    BY DEF NoticesInv, Tracked
  <2>4. Pending(i) \in {0, 1} /\ Len(notices[i]) \in Nat
    BY DEF Pending, NoticesInv, TypeOK
  <2> HIDE DEF senders
  <2>5. Len(notices[i]) <= Cardinality(senders)
    BY <2>2, <2>3, <2>4
  <2> QED
    BY <2>1, <2>3, <2>5 DEF senders
<1> QED
  BY <1>1, NoticesInvariance, PTL

(* Whatever arrives, every hop is shown its own SNR or none, up to the     *)
(* provisos of the property: the tracker's part of NoticeShownRight and    *)
(* AnswerRoutesShownRight.                                                 *)
THEOREM HopsAlwaysRight == Spec => []HopsShowTheirSnr
<1>1. NoticesInv => HopsShowTheirSnr
  BY DEF NoticesInv
<1> QED
  BY <1>1, NoticesInvariance, PTL

-----------------------------------------------------------------------------
(* The rate limit.  Only these change a command's times: the others leave  *)
(* everything the limit depends on alone.                                  *)
limitVars == <<pc, sentAt, timestamp, lastTraceroute, clock, overlapped>>

LEMMA TimeTypes ==
    ASSUME TypeOK
    PROVE  /\ \A c \in Commands : sentAt[c] \in Int /\ timestamp[c] \in Int
           /\ \A c \in Commands : sentAt[c] # Never => sentAt[c] \in Nat
           /\ \A p \in Pairs : lastTraceroute[p] \in Int
           /\ \A c \in Commands : PairOf[c] \in Pairs
           /\ clock \in Nat /\ Never = -1 /\ TracerouteTimeout \in Nat
           /\ pc \in [Commands -> Labels]
<1>1. Times \subseteq Int /\ \A x \in Times : x # Never => x \in Nat
  BY TimesAssumption DEF Times, Never
<1> QED
  BY <1>1, TimesAssumption, CommandsAssumption DEF TypeOK, Never, Labels

LEMMA CheckKeepsSpaced ==
    ASSUME SpacedInv, NEW c \in Commands, CheckRateLimit(c)
    PROVE  Separate'
<1> USE DEF At, GoTo
<1>0. TypeOK /\ pc \in [Commands -> Labels] /\ clock \in Nat /\ TracerouteTimeout \in Nat
  BY TimeTypes DEF SpacedInv
<1>1. /\ pc[c] = "check" /\ pc'[c] = IF CanSendTraceroute(PairOf[c]) THEN "send" ELSE "refused"
      /\ \A d \in Commands : d # c => pc'[d] = pc[d]
      /\ UNCHANGED <<sentAt, timestamp, lastTraceroute, clock>>
      /\ overlapped \subseteq overlapped'
      /\ PairOf[c] \notin overlapped' =>
            \A d \in Commands : PairOf[d] = PairOf[c] => ~UnderWay(d)
  BY <1>0 DEF CheckRateLimit, tracker
<1>2. \A d \in Commands : Timed(d)' /\ (PairOf[d] \notin overlapped' => Limited(d)')
  BY <1>1 DEF SpacedInv, Separate, Timed, Limited
<1>3. SpacedUnlessOverlapping'
  BY <1>1 DEF SpacedInv, Separate, SpacedUnlessOverlapping
<1>4. ASSUME NEW d \in Commands, d # c, PairOf[d] = PairOf[c], PairOf[c] \notin overlapped'
      PROVE  Spaced(c, d)' /\ Spaced(d, c)'
  <2>1. ~UnderWay(d) /\ ~UnderWay(d)' /\ sentAt'[c] = Never /\ sentAt[c] = Never
    BY <1>1, <1>4 DEF SpacedInv, Separate, Timed, UnderWay
  <2>2. pc'[c] = "send" /\ sentAt[d] # Never => clock - sentAt[d] >= TracerouteTimeout
    <3>1. SUFFICES ASSUME pc'[c] = "send", sentAt[d] # Never
                   PROVE  clock - sentAt[d] >= TracerouteTimeout
      OBVIOUS
    <3>2. pc[d] = "waiting"
      BY <1>0, <2>1, <3>1 DEF SpacedInv, Separate, Timed, UnderWay
    <3>3. lastTraceroute[PairOf[c]] # Never /\ sentAt[d] <= lastTraceroute[PairOf[c]]
      BY <1>1, <1>4, <3>2 DEF SpacedInv, Separate, Limited
    <3>4. clock - lastTraceroute[PairOf[c]] >= TracerouteTimeout
      BY <1>1, <3>1, <3>3 DEF CanSendTraceroute
    <3>5. sentAt[d] \in Int /\ lastTraceroute[PairOf[c]] \in Int
      BY <1>0, TimeTypes
    <3> QED
      BY <1>0, <3>3, <3>4, <3>5
  <2> QED
    BY <1>1, <1>4, <2>1, <2>2 DEF Spaced, UnderWay
<1>5. ASSUME NEW d \in Commands, NEW e \in Commands, d # e, d # c, e # c, PairOf[d] = PairOf[e],
             PairOf[d] \notin overlapped'
      PROVE  Spaced(d, e)'
  <2>1. Spaced(d, e)
    BY <1>1, <1>5 DEF SpacedInv, Separate
  <2> QED
    BY <1>1, <1>5, <2>1 DEF Spaced, UnderWay
<1> QED
  BY <1>2, <1>3, <1>4, <1>5 DEF Separate

LEMMA SendKeepsSpaced ==
    ASSUME SpacedInv, NEW c \in Commands, SendTraceroute(c)
    PROVE  Separate'
<1> USE DEF At, GoTo
<1>0. /\ TypeOK /\ pc \in [Commands -> Labels] /\ clock \in Nat /\ TracerouteTimeout \in Nat
      /\ \A d \in Commands : sentAt[d] \in Int
      /\ Never = -1
  BY TimeTypes DEF SpacedInv
<1>1. /\ pc[c] = "send" /\ pc'[c] = "sending" /\ sentAt'[c] = clock
      /\ \A d \in Commands : d # c => pc'[d] = pc[d] /\ sentAt'[d] = sentAt[d]
      /\ UNCHANGED <<timestamp, lastTraceroute, clock, overlapped>>
  BY <1>0 DEF SendTraceroute, tracker, TypeOK
<1>2. \A d \in Commands : Timed(d)' /\ (PairOf[d] \notin overlapped' => Limited(d)')
  BY <1>0, <1>1 DEF SpacedInv, Separate, Timed, Limited
<1>3. ASSUME NEW d \in Commands, d # c, PairOf[d] = PairOf[c], PairOf[c] \notin overlapped
      PROVE  /\ pc[d] \notin {"send", "sending", "stamped"}
             /\ sentAt[d] # Never => clock - sentAt[d] >= TracerouteTimeout
  <2>1. Spaced(c, d)
    BY <1>3 DEF SpacedInv, Separate
  <2> QED
    BY <1>1, <2>1 DEF Spaced, UnderWay
<1>4. SpacedUnlessOverlapping'
  BY <1>0, <1>1, <1>3 DEF SpacedInv, Separate, SpacedUnlessOverlapping
<1>5. ASSUME NEW d \in Commands, NEW e \in Commands, d # e, PairOf[d] = PairOf[e],
             PairOf[d] \notin overlapped'
      PROVE  Spaced(d, e)'
  <2>1. Spaced(d, e)
    BY <1>1, <1>5 DEF SpacedInv, Separate
  <2>2. CASE d = c
    BY <1>1, <1>3, <1>5, <2>2 DEF Spaced, UnderWay
  <2>3. CASE e = c
    BY <1>1, <1>3, <1>5, <2>3 DEF Spaced, UnderWay
  <2>4. CASE d # c /\ e # c
    BY <1>1, <2>1, <2>4 DEF Spaced, UnderWay
  <2> QED
    BY <2>2, <2>3, <2>4
<1> QED
  BY <1>2, <1>4, <1>5 DEF Separate

(* Steps that leave the send times alone.                                  *)
LEMMA OthersKeepSpaced ==
    ASSUME SpacedInv, NEW c \in Commands, SendTracerouteFails(c) \/ Stamp(c) \/ AddRequest(c)
    PROVE  Separate'
<1> USE DEF At, GoTo
<1>0. /\ TypeOK /\ pc \in [Commands -> Labels] /\ clock \in Nat /\ TracerouteTimeout \in Nat
      /\ \A d \in Commands : sentAt[d] \in Int /\ timestamp[d] \in Int
      /\ \A d \in Commands : sentAt[d] # Never => sentAt[d] \in Nat
      /\ Never = -1
  BY TimeTypes DEF SpacedInv
<1>1. /\ UNCHANGED <<sentAt, clock, overlapped>>
      /\ \A d \in Commands : d # c => pc'[d] = pc[d] /\ timestamp'[d] = timestamp[d]
      /\ \/ pc[c] = "send" /\ pc'[c] = "failed" /\ lastTraceroute' = lastTraceroute
         \/ /\ pc[c] = "sending" /\ pc'[c] = "stamped" /\ timestamp'[c] = clock
            /\ lastTraceroute' = lastTraceroute
         \/ /\ pc[c] = "stamped" /\ pc'[c] = "waiting"
            /\ lastTraceroute' = [lastTraceroute EXCEPT ![PairOf[c]] = timestamp[c]]
  BY <1>0 DEF SendTracerouteFails, Stamp, AddRequest, tracker, TypeOK
<1>2. \A d \in Commands : Timed(d)'
  BY <1>0, <1>1 DEF SpacedInv, Separate, Timed
<1>3. SpacedUnlessOverlapping'
  BY <1>1 DEF SpacedInv, Separate, SpacedUnlessOverlapping
<1>4. ASSUME NEW d \in Commands, NEW e \in Commands, d # e, PairOf[d] = PairOf[e],
             PairOf[d] \notin overlapped'
      PROVE  Spaced(d, e)'
  <2>1. Spaced(d, e)
    BY <1>1, <1>4 DEF SpacedInv, Separate
  <2> QED
    BY <1>1, <2>1 DEF Spaced, UnderWay
<1>5. ASSUME NEW d \in Commands, PairOf[d] \notin overlapped'
      PROVE  Limited(d)'
  <2>1. Limited(d) /\ Timed(c) /\ PairOf[d] \in Pairs
    BY <1>0, <1>1, <1>5, TimeTypes DEF SpacedInv, Separate
  <2>2. CASE lastTraceroute' = lastTraceroute /\ pc'[c] # "waiting"
    BY <1>1, <2>1, <2>2 DEF Limited
  <2>3. CASE /\ pc[c] = "stamped" /\ pc'[c] = "waiting"
             /\ lastTraceroute' = [lastTraceroute EXCEPT ![PairOf[c]] = timestamp[c]]
    <3>1. CASE PairOf[d] = PairOf[c]
      <4>1. lastTraceroute'[PairOf[d]] = timestamp[c]
        BY <1>0, <2>1, <2>3, <3>1 DEF TypeOK
      <4>2. sentAt[c] \in Nat /\ sentAt[c] <= timestamp[c]
        BY <1>0, <2>1, <2>3 DEF Timed
      <4>3. d # c /\ sentAt[d] # Never => sentAt[c] - sentAt[d] >= TracerouteTimeout
        BY <1>1, <1>5, <2>3, <3>1 DEF SpacedInv, Separate, Spaced
      <4>4. sentAt[d] <= timestamp[c] /\ timestamp[c] # Never
        BY <1>0, <4>2, <4>3
      <4> QED
        BY <1>1, <4>1, <4>4 DEF Limited
    <3>2. CASE PairOf[d] # PairOf[c]
      <4>1. lastTraceroute'[PairOf[d]] = lastTraceroute[PairOf[d]] /\ d # c
        BY <1>0, <2>1, <2>3, <3>2 DEF TypeOK
      <4> QED
        BY <1>1, <2>1, <4>1 DEF Limited
    <3> QED
      BY <3>1, <3>2
  <2> QED
    BY <1>1, <2>2, <2>3
<1> QED
  BY <1>2, <1>3, <1>4, <1>5 DEF Separate

LEMMA TickKeepsSpaced ==
    ASSUME SpacedInv, Tick
    PROVE  Separate'
<1>0. /\ clock \in Nat /\ TracerouteTimeout \in Nat
      /\ \A d \in Commands : sentAt[d] \in Int /\ timestamp[d] \in Int
  BY TimeTypes DEF SpacedInv
<1>1. clock' = clock + 1 /\ UNCHANGED <<pc, sentAt, timestamp, lastTraceroute, overlapped>>
  BY DEF Tick, commandVars, tracker
<1>2. \A d \in Commands : Timed(d)' /\ (PairOf[d] \notin overlapped' => Limited(d)')
  BY <1>0, <1>1 DEF SpacedInv, Separate, Timed, Limited
<1>3. ASSUME NEW d \in Commands, NEW e \in Commands, Spaced(d, e)
      PROVE  Spaced(d, e)'
  BY <1>0, <1>1, <1>3 DEF Spaced, UnderWay
<1> QED
  BY <1>1, <1>2, <1>3 DEF SpacedInv, Separate, SpacedUnlessOverlapping

(* Packets for a sender and target are TracerouteTimeout apart unless two  *)
(* commands for them were under way at once, for any number of commands    *)
(* and any timeout (CanSendTraceroute, AddRequest).                        *)
THEOREM RequestsAreSpaced == Spec => []SpacedUnlessOverlapping
<1>1. Init => Separate
  BY DEF Init, Separate, Timed, Limited, Spaced, UnderWay, SpacedUnlessOverlapping, Never
<1>2. ASSUME NoticesInv, Separate, [Next]_vars
      PROVE  Separate'
  <2>1. SpacedInv
    BY <1>2 DEF NoticesInv, SpacedInv
  <2>2. CASE UNCHANGED limitVars
    BY <1>2, <2>2 DEF limitVars, Separate, Timed, Limited, Spaced, UnderWay, SpacedUnlessOverlapping
  <2>3. ASSUME (\E i \in PacketIds : handleMeshTraceroute(i)) \/ AnswerRequest \/ UNCHANGED vars
        PROVE  UNCHANGED limitVars
    BY <2>3 DEF handleMeshTraceroute, AnswerRequest, vars, limitVars, commandVars, tracker
  <2> QED
    BY <1>2, <2>1, <2>2, <2>3, CheckKeepsSpaced, SendKeepsSpaced, OthersKeepSpaced, TickKeepsSpaced
       DEF Next
<1>3. Separate => SpacedUnlessOverlapping
  BY DEF Separate
<1> QED
  BY <1>1, <1>2, <1>3, NoticesInvariance, PTL DEF Spec
=============================================================================
