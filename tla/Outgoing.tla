------------------------------ MODULE Outgoing ------------------------------
(***************************************************************************)
(* The way of a packet from the bridge to the mesh: the Send... family in  *)
(* pkg/mesh/outgoing_messages.go and sendBytes and generatePacketId in     *)
(* pkg/mesh/mesh_client.go.  Matrix handlers, commands, periodic tasks and *)
(* packet handlers all send, each from a goroutine of its own.  sendLock   *)
(* covers the transmission only: the packet id is drawn before it, in      *)
(* three unlocked accesses to currentPacketId.  The transmission waits for *)
(* every connector, and each of them may fail.                             *)
(***************************************************************************)
EXTENDS Naturals, FiniteSets, Sequences

CONSTANTS
    Senders,          \* goroutines that send
    Connectors,       \* c.meshConnectors
    Nodes, Own,       \* node ids; c.nodeId
    Broadcast,        \* meshid.BROADCAST_ID
    Managed,          \* the nodes managedNodeFunc accepts
    Requests,         \* what the goroutines ask for
    High,             \* values of the random upper bits of a packet id
    Rolling,          \* 2^10, the values of the rolling lower bits
    ConfigHops,       \* hop limits an operator may configure
    MaxCalls,         \* bound: calls
    None              \* no goroutine

MaxHops == 7
DefaultHopLimit == 3
Ids == High \X (0..Rolling - 1)
Zero == <<0, 0>>

-----------------------------------------------------------------------------
(* The PacketInfo each function of the family fills in.  The payload is    *)
(* reduced to whether it fits the mesh.                                    *)
PacketInfo == [port : {"TEXT", "NODEINFO", "TELEMETRY", "NEIGHBORINFO", "POSITION", "ROUTING", "TRACEROUTE"},
               enc : {"PSK", "PKI"}, from : Nodes, to : Nodes \cup {Broadcast},
               wantResponse : BOOLEAN, tooLarge : BOOLEAN]

Info(port, from, to) ==
    [port |-> port, enc |-> "PSK", from |-> from, to |-> to,
     wantResponse |-> FALSE, tooLarge |-> FALSE]

(* A text or, with the emoji flag, a reaction.                             *)
SendMessage(from, to, usePKI, tooLarge) ==
    [Info("TEXT", from, to) EXCEPT !.enc = IF usePKI THEN "PKI" ELSE "PSK", !.tooLarge = tooLarge]

SendNodeInfo(from, to, wantResponse) ==
    [Info("NODEINFO", from, to) EXCEPT !.wantResponse = wantResponse]

SendTelemetry(from, to) == Info("TELEMETRY", from, to)

(* The response to a request takes over the encryption of the request.     *)
SendTelemetryResponse(from, to, encType) == [Info("TELEMETRY", from, to) EXCEPT !.enc = encType]
SendNeighborInfo(from, to, encType) == [Info("NEIGHBORINFO", from, to) EXCEPT !.enc = encType]

SendPosition(from, to) == Info("POSITION", from, to)
SendAck(from, to) == Info("ROUTING", from, to)

SendTraceroute(from, to) == [Info("TRACEROUTE", from, to) EXCEPT !.wantResponse = TRUE]

ASSUME NodesAssumption ==
    /\ Own \in Nodes /\ Managed \subseteq Nodes /\ Broadcast \notin Nodes
    /\ None \notin Senders /\ IsFiniteSet(Connectors)

ASSUME RequestsAssumption == Requests \subseteq PacketInfo

ASSUME NumbersAssumption ==
    /\ High \subseteq Nat /\ 0 \in High
    /\ Rolling \in Nat \ {0} /\ ConfigHops \subseteq Nat /\ MaxCalls \in Nat

VARIABLES
    pc,                \* where each goroutine is
    info,              \* what it sends
    call,              \* the number of its call, which is also its time
    rolling,           \* its rollingPacketId
    pending,           \* connectors that have not answered yet
    errs,              \* connectors that failed
    result,            \* what its last call returned
    currentPacketId,
    sendLock,          \* the holder, or None
    nodeInfoSendCache, \* when a node's info was last sent, 0 for never
    hopLimit,
    calls,             \* calls so far; they also tell the time
    issued,            \* the ids given out, in order
    air,               \* the packets that went out, in order
    raced              \* two goroutines drew an id at once

local  == <<pc, info, call, rolling, pending, errs, result>>
shared == <<currentPacketId, sendLock, nodeInfoSendCache, hopLimit>>
vars   == <<local, shared, calls, issued, air, raced>>

NoInfo == Info("TEXT", Own, Broadcast)

(* Variant: the limit is checked against the limit plus one.               *)
SetHopLimitInclusive(h) == IF h > MaxHops THEN DefaultHopLimit ELSE h

SetHopLimit(h) == IF h >= MaxHops THEN DefaultHopLimit ELSE h

Init ==
    /\ pc = [s \in Senders |-> "idle"]
    /\ info = [s \in Senders |-> NoInfo]
    /\ call = [s \in Senders |-> 0]
    /\ rolling = [s \in Senders |-> Zero]
    /\ pending = [s \in Senders |-> {}]
    /\ errs = [s \in Senders |-> {}]
    /\ result = [s \in Senders |-> "none"]
    /\ currentPacketId = Zero
    /\ sendLock = None
    /\ nodeInfoSendCache = [n \in Nodes |-> 0]
    /\ \E h \in ConfigHops : hopLimit = SetHopLimit(h)
    /\ calls = 0 /\ issued = << >> /\ air = << >> /\ raced = FALSE

-----------------------------------------------------------------------------
At(s, l) == pc[s] = l
GoTo(s, l) == pc' = [pc EXCEPT ![s] = l]

(* The call returns and its local variables are gone.                      *)
Return(s, r) ==
    /\ GoTo(s, "idle")
    /\ result' = [result EXCEPT ![s] = r]
    /\ info' = [info EXCEPT ![s] = NoInfo]
    /\ errs' = [errs EXCEPT ![s] = {}]

(* The test of SendNodeInfo asks whether the last node info was sent later *)
(* than five minutes from now.                                             *)
FiveMinutes == 5
SentTooRecently(i) ==
    i.port = "NODEINFO" /\ nodeInfoSendCache[i.from] > calls + FiveMinutes

(* A call that is refused before it draws an id: its throttle, the gate of *)
(* sendBytes, or a payload that is too large.                              *)
Refused(i) == SentTooRecently(i) \/ i.from \notin Managed \/ i.tooLarge

Call(s, i) ==
    /\ At(s, "idle")
    /\ calls < MaxCalls
    /\ calls' = calls + 1
    /\ call' = [call EXCEPT ![s] = calls + 1]
    /\ IF Refused(i)
       THEN Return(s, "error")
       ELSE /\ GoTo(s, "read")
            /\ info' = [info EXCEPT ![s] = i]
            /\ result' = [result EXCEPT ![s] = "none"]
            /\ UNCHANGED errs
    /\ UNCHANGED <<rolling, pending, shared, issued, air, raced>>

(* generatePacketId: the field is read, then written, then read again for  *)
(* the return value.                                                       *)
Drawing(s) == pc[s] \in {"write", "return"}
idAside == <<info, call, pending, errs, result, sendLock, nodeInfoSendCache,
             hopLimit, calls, air>>

ReadPacketId(s) ==
    /\ At(s, "read")
    /\ \E r \in IF currentPacketId = Zero THEN Ids ELSE {currentPacketId} :
          rolling' = [rolling EXCEPT ![s] = r]
    /\ raced' = (raced \/ \E d \in Senders \ {s} : Drawing(d))
    /\ GoTo(s, "write")
    /\ UNCHANGED <<currentPacketId, issued, idAside>>

(* Variant: all bits are random.                                           *)
WritePacketIdRandom(s) ==
    /\ At(s, "write")
    /\ \E i \in Ids : currentPacketId' = i
    /\ GoTo(s, "return")
    /\ UNCHANGED <<rolling, issued, raced, idAside>>

WritePacketId(s) ==
    /\ At(s, "write")
    /\ \E h \in High : currentPacketId' = <<h, (rolling[s][2] + 1) % Rolling>>
    /\ GoTo(s, "return")
    /\ UNCHANGED <<rolling, issued, raced, idAside>>

(* With PKI the private key of the sender and the public key of the        *)
(* receiver are asked for next, and either may be missing.                 *)
ReturnPacketId(s) ==
    /\ At(s, "return")
    /\ issued' = Append(issued, currentPacketId)
    /\ rolling' = [rolling EXCEPT ![s] = Zero]
    /\ \/ /\ GoTo(s, "lock")
          /\ UNCHANGED <<info, errs, result>>
       \/ info[s].enc = "PKI" /\ Return(s, "error")
    /\ UNCHANGED <<call, pending, shared, calls, air, raced>>

(* Variant: nothing is locked.                                             *)
LockNever(s) ==
    /\ At(s, "lock")
    /\ pending' = [pending EXCEPT ![s] = Connectors]
    /\ GoTo(s, "sending")
    /\ UNCHANGED <<info, call, rolling, errs, result, shared, calls, issued, air, raced>>

Lock(s) ==
    /\ At(s, "lock")
    /\ sendLock = None
    /\ sendLock' = s
    /\ pending' = [pending EXCEPT ![s] = Connectors]
    /\ GoTo(s, "sending")
    /\ UNCHANGED <<info, call, rolling, errs, result, currentPacketId,
                   nodeInfoSendCache, hopLimit, calls, issued, air, raced>>

(* What the receivers see of a packet.  A node behind the bridge is one    *)
(* hop further away.                                                       *)
Packet(s) ==
    [call |-> call[s], from |-> info[s].from,
     hopLimit |-> hopLimit,
     hopStart |-> IF info[s].from # Own THEN hopLimit + 1 ELSE hopLimit,
     wantResponse |-> /\ info[s].wantResponse /\ info[s].to # Broadcast
                      /\ info[s].port \in {"NODEINFO", "POSITION", "TRACEROUTE"},
     wantAck |-> info[s].port = "TRACEROUTE" /\ info[s].wantResponse]

(* A packet that is already the last one on the air goes out once more, on *)
(* another connector.                                                      *)
Transmit(p) == air' = IF air # << >> /\ air[Len(air)] = p THEN air ELSE Append(air, p)

(* One connector's SendPacket, in a goroutine of its own.                  *)
SendPacket(s, c) ==
    /\ At(s, "sending")
    /\ c \in pending[s]
    /\ pending' = [pending EXCEPT ![s] = @ \ {c}]
    /\ \/ Transmit(Packet(s)) /\ UNCHANGED errs
       \/ errs' = [errs EXCEPT ![s] = @ \cup {c}] /\ UNCHANGED air
    /\ UNCHANGED <<pc, info, call, rolling, result, shared, calls, issued, raced>>

(* Variant: one failing connector fails the call.                          *)
FailedAnywhere(s) == errs[s] # {}

(* All connectors failed.  Without any connector the joined error is nil.  *)
Failed(s) ==
    Cardinality(errs[s]) = Cardinality(Connectors) /\ Connectors # {}

(* Variant: the lock is kept when the call failed.                         *)
FinishHolding(s) ==
    /\ At(s, "sending") /\ pending[s] = {}
    /\ sendLock' = IF Failed(s) THEN s ELSE None
    /\ Return(s, IF Failed(s) THEN "error" ELSE "ok")
    /\ nodeInfoSendCache' =
          IF info[s].port = "NODEINFO" /\ ~Failed(s)
          THEN [nodeInfoSendCache EXCEPT ![info[s].from] = call[s]]
          ELSE nodeInfoSendCache
    /\ UNCHANGED <<call, rolling, pending, currentPacketId, hopLimit, calls, issued, air, raced>>

Finish(s) ==
    /\ At(s, "sending") /\ pending[s] = {}
    /\ sendLock' = None
    /\ Return(s, IF Failed(s) THEN "error" ELSE "ok")
    /\ nodeInfoSendCache' =
          IF info[s].port = "NODEINFO" /\ ~Failed(s)
          THEN [nodeInfoSendCache EXCEPT ![info[s].from] = call[s]]
          ELSE nodeInfoSendCache
    /\ UNCHANGED <<call, rolling, pending, currentPacketId, hopLimit, calls, issued, air, raced>>

sendBytes(s) ==
    \/ ReadPacketId(s) \/ WritePacketId(s) \/ ReturnPacketId(s)
    \/ \E c \in Connectors : SendPacket(s, c)
    \/ Finish(s)

Next == \E s \in Senders : (\E i \in Requests : Call(s, i)) \/ sendBytes(s) \/ Lock(s)

(* Go runs every runnable goroutine, its mutex does not starve a waiter,   *)
(* and the connectors' SendPacket returns.                                 *)
Fairness == \A s \in Senders : WF_vars(sendBytes(s)) /\ SF_vars(Lock(s))

Spec == Init /\ [][Next]_vars /\ Fairness

-----------------------------------------------------------------------------
PCs == {"idle", "read", "write", "return", "lock", "sending"}

AirPacket == [call : 1..MaxCalls, from : Nodes, hopLimit : 0..MaxHops,
              hopStart : 0..MaxHops, wantResponse : BOOLEAN, wantAck : BOOLEAN]

(* Types.  The hop fields of a packet have three bits, so hopStart must    *)
(* not pass MaxHops whatever is configured (SetHopLimit, sendBytes).       *)
TypeOK ==
    /\ pc \in [Senders -> PCs]
    /\ info \in [Senders -> PacketInfo]
    /\ call \in [Senders -> 0..MaxCalls]
    /\ rolling \in [Senders -> Ids]
    /\ pending \in [Senders -> SUBSET Connectors] /\ errs \in [Senders -> SUBSET Connectors]
    /\ result \in [Senders -> {"none", "ok", "error"}]
    /\ currentPacketId \in Ids
    /\ sendLock \in Senders \cup {None}
    /\ nodeInfoSendCache \in [Nodes -> 0..MaxCalls]
    /\ hopLimit \in 0..MaxHops - 1
    /\ calls \in 0..MaxCalls
    /\ issued \in Seq(Ids) /\ air \in Seq(AirPacket)
    /\ raced \in BOOLEAN

OnAir(n) == \E k \in 1..Len(air) : air[k].call = n

(* HandleMatrixMessage tells Matrix that a failed message is certainly not *)
(* sent (WithIsCertain), and that any other was sent: when sendBytes       *)
(* returns, an error means that nothing of the call went out on any        *)
(* connector, and success that at least one transmitted it, if there is    *)
(* one at all.                                                             *)
ReportIsTrue ==
    \A s \in Senders : At(s, "idle") =>
        /\ result[s] = "error" => ~OnAir(call[s])
        /\ result[s] = "ok" => OnAir(call[s]) \/ Connectors = {}

(* Nodes need time between two packets, so the transmissions of one packet *)
(* on the several connectors are never mixed with those of another         *)
(* (sendLock is held until the last connector is done).                    *)
NotInterleaved ==
    \A i, j \in 1..Len(air) : air[i].call = air[j].call => i = j

(* The mesh drops a second packet with the id of a recent one.  As long as *)
(* no two goroutines draw an id at once, ids within one turn of the        *)
(* rolling counter differ, unless an id came out as zero, after which the  *)
(* counter starts anywhere (generatePacketId).                             *)
IdsDiffer ==
    ~raced =>
        \A i, j \in 1..Len(issued) :
            /\ i < j /\ j - i < Rolling
            /\ \A k \in i..j - 1 : issued[k] # Zero
            => issued[i] # issued[j]

(* Every call returns: whatever fails, the send lock is given back.        *)
CallsReturn == \A s \in Senders : pc[s] # "idle" ~> pc[s] = "idle"
=============================================================================
