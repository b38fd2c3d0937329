--------------------------- MODULE OutgoingProofs ---------------------------
(***************************************************************************)
(* Any number of goroutines send over any finite set of connectors: what   *)
(* sendBytes reports is true, and packets are not mixed on the air.        *)
(***************************************************************************)
EXTENDS Outgoing, FiniteSetTheorems, TLAPS

(* Calls are numbered, and no two goroutines are in the same call.         *)
Numbered ==
    /\ \A s \in Senders : call[s] <= calls /\ (pc[s] # "idle" => call[s] >= 1)
    /\ \A s, t \in Senders : s # t /\ call[s] = call[t] => call[s] = 0
    /\ \A k \in 1..Len(air) : air[k].call <= calls

(* Only the holder of the lock transmits.                                  *)
HolderSends == \A s \in Senders : At(s, "sending") => sendLock = s

(* Nothing of a call is on the air before it transmits.                    *)
QuietBefore ==
    \A s \in Senders :
        /\ pc[s] # "sending" => errs[s] = {}
        /\ pc[s] \notin {"idle", "sending"} => ~OnAir(call[s])

(* While it transmits, its packet is the last on the air or not there, and *)
(* it is there when a connector neither failed nor is still to come.       *)
Transmits(s) ==
    /\ errs[s] \cap pending[s] = {}
    /\ OnAir(call[s]) <=> errs[s] \cup pending[s] # Connectors
    /\ OnAir(call[s]) => air[Len(air)] = Packet(s)

Transmitting == \A s \in Senders : At(s, "sending") => Transmits(s)

Inv == TypeOK /\ Numbered /\ HolderSends /\ QuietBefore /\ Transmitting /\ ReportIsTrue /\ NotInterleaved

(* The id given out last; zero, as at the start, lets the counter begin    *)
(* anywhere.                                                               *)
LastIssued == IF issued = << >> THEN Zero ELSE issued[Len(issued)]

(* One goroutine at a time draws: it goes on from the id given out last.   *)
OneDraws ==
    /\ \A s, t \in Senders : Drawing(s) /\ Drawing(t) => s = t
    /\ (\A s \in Senders : ~At(s, "return")) => currentPacketId = LastIssued
    /\ \A s \in Senders : LastIssued # Zero =>
          /\ At(s, "write") => rolling[s] = LastIssued
          /\ At(s, "return") => currentPacketId[2] = (LastIssued[2] + 1) % Rolling

(* The distance of the last id from each of the Rolling ids before it.     *)
InTurn ==
    \A i \in 1..Len(issued) :
        /\ Len(issued) - i < Rolling
        /\ \A k \in i..Len(issued) - 1 : issued[k] # Zero
        => \/ issued[Len(issued)][2] = issued[i][2] + (Len(issued) - i)
           \/ issued[Len(issued)][2] = issued[i][2] + (Len(issued) - i) - Rolling

DrawInv == ~raced => OneDraws /\ InTurn /\ IdsDiffer

(* The requests have the type of a PacketInfo, and so has the empty one.   *)
LEMMA InfoTypes == NoInfo \in PacketInfo /\ Requests \subseteq PacketInfo
BY NodesAssumption, RequestsAssumption DEF NoInfo, Info, PacketInfo

LEMMA ZeroIsId == Zero \in Ids
BY NumbersAssumption DEF Zero, Ids

(* SetHopLimit leaves room for one more hop.                               *)
LEMMA HopLimitBound == ASSUME NEW h \in ConfigHops PROVE SetHopLimit(h) \in 0..MaxHops - 1
BY NumbersAssumption DEF SetHopLimit, MaxHops, DefaultHopLimit

(* The numbers of calls are numbers.                                       *)
LEMMA CallTypes ==
    ASSUME TypeOK
    PROVE  /\ \A s \in Senders : call[s] \in Nat
           /\ \A k \in 1..Len(air) : air[k] \in AirPacket /\ air[k].call \in Nat \ {0}
           /\ Len(air) \in Nat
<1>1. air \in Seq(AirPacket) /\ call \in [Senders -> 0..MaxCalls]
  BY DEF TypeOK
<1>2. \A k \in 1..Len(air) : air[k] \in AirPacket
  BY <1>1
<1>3. \A p \in AirPacket : p.call \in Nat \ {0}
  BY NumbersAssumption DEF AirPacket
<1> QED
  BY <1>1, <1>2, <1>3, NumbersAssumption

LEMMA InitInv == Init => Inv
<1> SUFFICES ASSUME Init PROVE Inv
  OBVIOUS
<1>1. TypeOK
  <2>1. hopLimit \in 0..MaxHops - 1
    BY HopLimitBound DEF Init
  <2>2. /\ info \in [Senders -> PacketInfo] /\ rolling \in [Senders -> Ids] /\ currentPacketId \in Ids
    BY InfoTypes, ZeroIsId DEF Init
  <2>3. raced \in BOOLEAN
    BY Zenon DEF Init
  <2>4. issued \in Seq(Ids) /\ air \in Seq(AirPacket)
    BY DEF Init
  <2> QED
    BY <2>1, <2>2, <2>3, <2>4, NumbersAssumption DEF Init, TypeOK, PCs
<1>2. Numbered /\ NotInterleaved
  BY DEF Init, Numbered, NotInterleaved
<1>3. HolderSends /\ QuietBefore /\ Transmitting /\ ReportIsTrue
  BY DEF Init, HolderSends, QuietBefore, Transmitting, ReportIsTrue, At, OnAir
<1> QED
  BY <1>1, <1>2, <1>3 DEF Inv

(* A call gets a number that nothing on the air has.                       *)
LEMMA CallKeepsInv ==
    ASSUME Inv, NEW s \in Senders, NEW i \in Requests, Call(s, i)
    PROVE  Inv'
<1> USE DEF At
<1>0. TypeOK /\ i \in PacketInfo /\ NoInfo \in PacketInfo
  BY InfoTypes DEF Inv
<1>1. /\ pc[s] = "idle" /\ calls \in Nat /\ calls + 1 <= MaxCalls /\ calls' = calls + 1
      /\ call' = [call EXCEPT ![s] = calls + 1]
      /\ pending' = pending /\ air' = air /\ hopLimit' = hopLimit /\ sendLock' = sendLock
      /\ MaxCalls \in Nat
  BY <1>0, NumbersAssumption DEF Call, TypeOK, shared
<1>2. /\ \/ pc' = [pc EXCEPT ![s] = "idle"] /\ result' = [result EXCEPT ![s] = "error"]
         \/ pc' = [pc EXCEPT ![s] = "read"] /\ result' = [result EXCEPT ![s] = "none"]
      /\ errs' = errs \/ errs' = [errs EXCEPT ![s] = {}]
      /\ info' = [info EXCEPT ![s] = NoInfo] \/ info' = [info EXCEPT ![s] = i]
  BY DEF Call, Return, GoTo
<1>3. TypeOK'
  <2>1. pc' \in [Senders -> PCs] /\ result' \in [Senders -> {"none", "ok", "error"}]
    BY <1>0, <1>2 DEF TypeOK, PCs
  <2>3. errs' \in [Senders -> SUBSET Connectors]
    BY <1>0, <1>2 DEF TypeOK
  <2>4. info' \in [Senders -> PacketInfo]
    BY <1>0, <1>2 DEF TypeOK
  <2>2. /\ call' \in [Senders -> 0..MaxCalls] /\ calls' \in 0..MaxCalls
    BY <1>0, <1>1 DEF TypeOK
  <2> QED
    BY <2>1, <2>2, <2>3, <2>4, <1>0, <1>1 DEF TypeOK, Call, shared
<1>4. \A t \in Senders : t # s =>
        /\ pc'[t] = pc[t] /\ call'[t] = call[t] /\ errs'[t] = errs[t]
        /\ info'[t] = info[t] /\ result'[t] = result[t]
  BY <1>0, <1>1, <1>2 DEF TypeOK
<1>5. /\ pc'[s] \in {"idle", "read"} /\ call'[s] = calls + 1 /\ errs'[s] = {}
      /\ result'[s] \in {"none", "error"}
  BY <1>0, <1>1, <1>2 DEF TypeOK, Inv, QuietBefore
<1>6. ~OnAir(call[s])'
  BY <1>0, <1>1, <1>5, CallTypes DEF Inv, Numbered, OnAir
<1>7. Numbered'
  <2>1. \A t \in Senders : call[t] \in Nat /\ call[t] <= calls
    BY <1>0, CallTypes DEF Inv, Numbered
  <2>2. \A k \in 1..Len(air) : air[k].call <= calls'
    BY <1>0, <1>1, CallTypes DEF Inv, Numbered
  <2>3. \A t \in Senders : call'[t] <= calls' /\ (pc'[t] # "idle" => call'[t] >= 1)
    BY <2>1, <1>1, <1>4, <1>5 DEF Inv, Numbered
  <2>4. \A t, u \in Senders : t # u /\ call'[t] = call'[u] => call'[t] = 0
    BY <2>1, <1>1, <1>4, <1>5 DEF Inv, Numbered
  <2> QED
    BY <2>2, <2>3, <2>4, <1>1 DEF Numbered
<1>8. HolderSends' /\ QuietBefore'
  BY <1>1, <1>4, <1>5, <1>6 DEF Inv, HolderSends, QuietBefore, OnAir
<1>9. Transmitting'
  BY <1>1, <1>4, <1>5 DEF Inv, Transmitting, Transmits, OnAir, Packet
<1>10. ReportIsTrue'
  BY <1>1, <1>4, <1>5, <1>6 DEF Inv, ReportIsTrue, OnAir
<1>11. NotInterleaved'
  BY <1>1 DEF Inv, NotInterleaved
<1> QED
  BY <1>3, <1>7, <1>8, <1>9, <1>10, <1>11 DEF Inv

(* Drawing an id touches neither the air nor the lock.                     *)
LEMMA DrawKeepsInv ==
    ASSUME Inv, NEW s \in Senders, ReadPacketId(s) \/ WritePacketId(s) \/ ReturnPacketId(s)
    PROVE  Inv'
<1> USE DEF At
<1>0. TypeOK /\ NoInfo \in PacketInfo /\ Zero \in Ids
  BY InfoTypes, ZeroIsId DEF Inv
<1>1. /\ pc[s] \in {"read", "write", "return"}
      /\ call' = call /\ calls' = calls /\ pending' = pending /\ air' = air
      /\ hopLimit' = hopLimit /\ sendLock' = sendLock /\ nodeInfoSendCache' = nodeInfoSendCache
  BY DEF ReadPacketId, WritePacketId, ReturnPacketId, idAside, shared
<1>2. /\ \/ /\ \E l \in {"write", "return", "lock"} : pc' = [pc EXCEPT ![s] = l]
            /\ info' = info /\ errs' = errs /\ result' = result
         \/ /\ pc' = [pc EXCEPT ![s] = "idle"] /\ result' = [result EXCEPT ![s] = "error"]
            /\ info' = [info EXCEPT ![s] = NoInfo] /\ errs' = [errs EXCEPT ![s] = {}]
  BY DEF ReadPacketId, WritePacketId, ReturnPacketId, idAside, GoTo, Return
<1>3. rolling' \in [Senders -> Ids] /\ currentPacketId' \in Ids /\ issued' \in Seq(Ids)
  <2>1. CASE ReadPacketId(s)
    <3>1. PICK r \in Ids : rolling' = [rolling EXCEPT ![s] = r]
      BY <1>0, <2>1 DEF ReadPacketId, TypeOK
    <3> QED
      BY <1>0, <2>1, <3>1 DEF ReadPacketId, TypeOK
  <2>2. CASE WritePacketId(s)
    <3>1. PICK h \in High : currentPacketId' = <<h, (rolling[s][2] + 1) % Rolling>>
      BY <2>2 DEF WritePacketId
    <3>2. rolling[s][2] \in Nat
      BY <1>0, NumbersAssumption DEF TypeOK, Ids
    <3>3. (rolling[s][2] + 1) % Rolling \in 0..Rolling - 1
      BY <3>2, NumbersAssumption
    <3>4. currentPacketId' \in Ids
      BY <3>1, <3>3 DEF Ids
    <3> QED
      BY <1>0, <2>2, <3>4 DEF WritePacketId, TypeOK
  <2>3. CASE ReturnPacketId(s)
    BY <1>0, <2>3 DEF ReturnPacketId, TypeOK, shared
  <2> QED
    BY <2>1, <2>2, <2>3
<1>4. raced' \in BOOLEAN
  <2>1. CASE ReadPacketId(s)
    BY <2>1, Zenon DEF ReadPacketId
  <2>2. CASE WritePacketId(s) \/ ReturnPacketId(s)
    BY <1>0, <2>2 DEF WritePacketId, ReturnPacketId, TypeOK
  <2> QED
    BY <2>1, <2>2
<1>5. TypeOK'
  <2>1. /\ pc' \in [Senders -> PCs] /\ info' \in [Senders -> PacketInfo]
        /\ errs' \in [Senders -> SUBSET Connectors]
        /\ result' \in [Senders -> {"none", "ok", "error"}]
    <3>0. /\ pc \in [Senders -> PCs] /\ info \in [Senders -> PacketInfo]
          /\ errs \in [Senders -> SUBSET Connectors]
          /\ result \in [Senders -> {"none", "ok", "error"}]
      BY <1>0 DEF TypeOK
    <3>1. CASE /\ \E l \in {"write", "return", "lock"} : pc' = [pc EXCEPT ![s] = l]
               /\ info' = info /\ errs' = errs /\ result' = result
      BY <3>0, <3>1 DEF PCs
    <3>2. CASE /\ pc' = [pc EXCEPT ![s] = "idle"] /\ result' = [result EXCEPT ![s] = "error"]
               /\ info' = [info EXCEPT ![s] = NoInfo] /\ errs' = [errs EXCEPT ![s] = {}]
      <4>1. pc' \in [Senders -> PCs] /\ result' \in [Senders -> {"none", "ok", "error"}]
        BY <3>0, <3>2 DEF PCs
      <4>2. info' \in [Senders -> PacketInfo]
        BY <1>0, <3>0, <3>2
      <4>3. errs' \in [Senders -> SUBSET Connectors]
        BY <3>0, <3>2
      <4> QED
        BY <4>1, <4>2, <4>3
    <3> QED
      BY <1>2, <3>1, <3>2
  <2> QED
    BY <2>1, <1>0, <1>1, <1>3, <1>4 DEF TypeOK
<1>6. \A t \in Senders : t # s =>
        pc'[t] = pc[t] /\ errs'[t] = errs[t] /\ info'[t] = info[t] /\ result'[t] = result[t]
  BY <1>0, <1>2 DEF TypeOK
<1>7. /\ pc'[s] \in {"idle", "write", "return", "lock"} /\ errs'[s] = {}
      /\ pc'[s] = "idle" => result'[s] = "error"
  BY <1>0, <1>1, <1>2 DEF TypeOK, Inv, QuietBefore
<1>8. ~OnAir(call[s])
  BY <1>1 DEF Inv, QuietBefore
<1>9. Numbered' /\ HolderSends' /\ QuietBefore'
  BY <1>1, <1>6, <1>7, <1>8 DEF Inv, Numbered, HolderSends, QuietBefore, OnAir
<1>10. Transmitting'
  BY <1>1, <1>6, <1>7 DEF Inv, Transmitting, Transmits, OnAir, Packet
<1>11. ReportIsTrue' /\ NotInterleaved'
  BY <1>1, <1>6, <1>7, <1>8 DEF Inv, ReportIsTrue, NotInterleaved, OnAir
<1> QED
  BY <1>5, <1>9, <1>10, <1>11 DEF Inv

(* The lock is free, so nobody else transmits.                             *)
LEMMA LockKeepsInv ==
    ASSUME Inv, NEW s \in Senders, Lock(s)
    PROVE  Inv'
<1> USE DEF At
<1>0. TypeOK
  BY DEF Inv
<1>1. /\ pc[s] = "lock" /\ sendLock = None /\ sendLock' = s /\ s # None
      /\ pending' = [pending EXCEPT ![s] = Connectors] /\ pc' = [pc EXCEPT ![s] = "sending"]
      /\ UNCHANGED <<info, call, rolling, errs, result, currentPacketId,
                     nodeInfoSendCache, hopLimit, calls, issued, air, raced>>
  BY NodesAssumption DEF Lock, GoTo
<1>2. TypeOK'
  BY <1>0, <1>1 DEF TypeOK, PCs
<1>3. \A t \in Senders : t # s => pc'[t] = pc[t] /\ pending'[t] = pending[t] /\ pc[t] # "sending"
  BY <1>0, <1>1, NodesAssumption DEF TypeOK, Inv, HolderSends
<1>4. pc'[s] = "sending" /\ pending'[s] = Connectors /\ errs[s] = {} /\ ~OnAir(call[s])
  BY <1>0, <1>1 DEF TypeOK, Inv, QuietBefore
<1>5. Numbered' /\ HolderSends' /\ QuietBefore'
  BY <1>1, <1>3, <1>4 DEF Inv, Numbered, HolderSends, QuietBefore, OnAir
<1>6. Transmitting'
  BY <1>1, <1>3, <1>4 DEF Transmitting, Transmits, OnAir
<1>7. ReportIsTrue' /\ NotInterleaved'
  BY <1>1, <1>3, <1>4 DEF Inv, ReportIsTrue, NotInterleaved, OnAir
<1> QED
  BY <1>2, <1>5, <1>6, <1>7 DEF Inv

(* A packet fits the three bits of its hop fields.                         *)
LEMMA PacketType ==
    ASSUME TypeOK, Numbered, NEW s \in Senders, At(s, "sending")
    PROVE  Packet(s) \in AirPacket /\ Packet(s).call = call[s]
<1>1. call[s] \in 1..MaxCalls
  BY NumbersAssumption DEF TypeOK, Numbered, At
<1>2. info[s] \in PacketInfo
  BY DEF TypeOK
<1>3. hopLimit \in 0..MaxHops /\ hopLimit + 1 \in 0..MaxHops
  BY DEF TypeOK, MaxHops
<1> QED
  BY <1>1, <1>2, <1>3 DEF Packet, AirPacket, PacketInfo

(* Only the last packet on the air can be the one that is being sent.      *)
LEMMA TransmitAppends ==
    ASSUME Inv, NEW s \in Senders, At(s, "sending"), Transmit(Packet(s))
    PROVE  /\ air' \in Seq(AirPacket)
           /\ \/ air' = air /\ OnAir(call[s])
              \/ /\ ~OnAir(call[s]) /\ Len(air') = Len(air) + 1
                 /\ \A k \in 1..Len(air) : air'[k] = air[k]
                 /\ air'[Len(air')] = Packet(s)
           /\ air'[Len(air')] = Packet(s) /\ Len(air') \in 1..Len(air) + 1
<1>0. /\ TypeOK /\ Numbered /\ Transmits(s) /\ air \in Seq(AirPacket) /\ Len(air) \in Nat
      /\ \A k \in 1..Len(air) : air[k] \in AirPacket
  BY CallTypes DEF Inv, Transmitting, TypeOK
<1>1. Packet(s) \in AirPacket /\ Packet(s).call = call[s]
  BY <1>0, PacketType
<1>2. CASE air # << >> /\ air[Len(air)] = Packet(s)
  <2>1. Len(air) \in 1..Len(air)
    BY <1>0, <1>2
  <2>2. OnAir(call[s])
    BY <1>1, <1>2, <2>1 DEF OnAir
  <2> QED
    BY <1>0, <1>2, <2>1, <2>2 DEF Transmit
<1>3. CASE ~(air # << >> /\ air[Len(air)] = Packet(s))
  <2>1. ~OnAir(call[s])
    BY <1>0, <1>3 DEF Transmits, OnAir
  <2>2. air' = Append(air, Packet(s))
    BY <1>3 DEF Transmit
  <2> QED
    BY <1>0, <1>1, <2>1, <2>2
<1> QED
  BY <1>2, <1>3

LEMMA SendPacketKeepsInv ==
    ASSUME Inv, NEW s \in Senders, NEW c \in Connectors, SendPacket(s, c)
    PROVE  Inv'
<1> USE DEF At
<1>0. TypeOK /\ Numbered /\ Transmits(s)
  BY DEF Inv, Transmitting, SendPacket
<1>1. /\ pc[s] = "sending" /\ c \in pending[s] /\ sendLock = s
      /\ pending' = [pending EXCEPT ![s] = pending[s] \ {c}]
      /\ UNCHANGED <<pc, info, call, rolling, result, currentPacketId, sendLock,
                     nodeInfoSendCache, hopLimit, calls, issued, raced>>
  BY DEF Inv, HolderSends, SendPacket, shared
<1>2. \A t \in Senders : t # s => pending'[t] = pending[t] /\ pc[t] # "sending"
  BY <1>0, <1>1 DEF TypeOK, Inv, HolderSends
<1>3. pending'[s] = pending[s] \ {c} /\ pending[s] \subseteq Connectors /\ errs[s] \subseteq Connectors
  BY <1>0, <1>1 DEF TypeOK
<1>4. \A t \in Senders : t # s => call[t] # call[s]
  BY <1>0, <1>1, CallTypes DEF Numbered
<1>5. CASE Transmit(Packet(s)) /\ errs' = errs
  <2>1. /\ air' \in Seq(AirPacket)
        /\ \/ air' = air /\ OnAir(call[s])
           \/ /\ ~OnAir(call[s]) /\ Len(air') = Len(air) + 1
              /\ \A k \in 1..Len(air) : air'[k] = air[k]
              /\ air'[Len(air')] = Packet(s)
        /\ air'[Len(air')] = Packet(s) /\ Len(air') \in 1..Len(air) + 1
    BY <1>1, <1>5, TransmitAppends
  <2>2. Packet(s)' = Packet(s) /\ Packet(s).call = call[s] /\ Len(air) \in Nat /\ call[s] <= calls
    BY <1>0, <1>1, PacketType, CallTypes DEF Packet, Numbered
  <2>3. TypeOK'
    BY <1>0, <1>1, <1>5, <2>1 DEF TypeOK
  <2>4. \A n : n # call[s] => (OnAir(n)' <=> OnAir(n))
    BY <2>1, <2>2 DEF OnAir
  <2>5. OnAir(call[s])'
    BY <1>1, <2>1, <2>2 DEF OnAir
  <2>6. Numbered' /\ HolderSends'
    BY <1>1, <2>1, <2>2 DEF Inv, Numbered, HolderSends
  <2>7. QuietBefore' /\ ReportIsTrue'
    BY <1>1, <1>2, <1>4, <1>5, <2>4, <2>5 DEF Inv, QuietBefore, ReportIsTrue
  <2>8. Transmitting'
    <3>1. errs[s] \cup pending'[s] # Connectors /\ errs[s] \cap pending'[s] = {}
      BY <1>0, <1>1, <1>3 DEF Transmits
    <3> QED
      BY <1>1, <1>2, <1>5, <2>1, <2>2, <2>5, <3>1 DEF Transmitting, Transmits
  <2>9. NotInterleaved'
    BY <2>1, <2>2 DEF Inv, NotInterleaved, OnAir
  <2> QED
    BY <2>3, <2>6, <2>7, <2>8, <2>9 DEF Inv
<1>6. CASE errs' = [errs EXCEPT ![s] = errs[s] \cup {c}] /\ air' = air
  <2>1. \A t \in Senders : t # s => errs'[t] = errs[t]
    BY <1>0, <1>6 DEF TypeOK
  <2>2. errs'[s] = errs[s] \cup {c}
    BY <1>0, <1>6 DEF TypeOK
  <2>3. TypeOK'
    <3>1. errs' \in [Senders -> SUBSET Connectors] /\ pending' \in [Senders -> SUBSET Connectors]
      BY <1>0, <1>1, <1>3, <1>6 DEF TypeOK
    <3> QED
      BY <1>0, <1>1, <1>6, <3>1 DEF TypeOK
  <2>4. Numbered' /\ HolderSends' /\ NotInterleaved'
    BY <1>1, <1>6 DEF Inv, Numbered, HolderSends, NotInterleaved
  <2>5. QuietBefore' /\ ReportIsTrue'
    BY <1>1, <1>6, <2>1 DEF Inv, QuietBefore, ReportIsTrue, OnAir
  <2>6. Transmitting'
    <3>1. errs'[s] \cup pending'[s] = errs[s] \cup pending[s] /\ errs'[s] \cap pending'[s] = {}
      BY <1>0, <1>1, <1>3, <2>2 DEF Transmits
    <3>2. Packet(s)' = Packet(s)
      BY <1>1 DEF Packet
    <3> QED
      BY <1>0, <1>1, <1>2, <1>6, <3>1, <3>2 DEF Transmitting, Transmits, OnAir
  <2> QED
    BY <2>3, <2>4, <2>5, <2>6 DEF Inv
<1> QED
  BY <1>5, <1>6 DEF SendPacket

(* All connectors failed exactly when nothing went out.                    *)
LEMMA FailedMeansSilence ==
    ASSUME Inv, NEW s \in Senders, At(s, "sending"), pending[s] = {}
    PROVE  /\ Failed(s) => ~OnAir(call[s])
           /\ ~Failed(s) => OnAir(call[s]) \/ Connectors = {}
<1>1. errs[s] \in SUBSET Connectors /\ IsFiniteSet(Connectors)
  BY NodesAssumption DEF Inv, TypeOK
<1>2. Cardinality(errs[s]) = Cardinality(Connectors) <=> errs[s] = Connectors
  BY <1>1, FS_Subset
<1> QED
  BY <1>2 DEF Failed, Inv, Transmitting, Transmits

LEMMA FinishKeepsInv ==
    ASSUME Inv, NEW s \in Senders, Finish(s)
    PROVE  Inv'
<1> USE DEF At
<1>0. TypeOK /\ NoInfo \in PacketInfo
  BY InfoTypes DEF Inv
<1>1. /\ pc[s] = "sending" /\ pending[s] = {} /\ sendLock' = None
      /\ pc' = [pc EXCEPT ![s] = "idle"] /\ info' = [info EXCEPT ![s] = NoInfo]
      /\ errs' = [errs EXCEPT ![s] = {}]
      /\ result' = [result EXCEPT ![s] = IF Failed(s) THEN "error" ELSE "ok"]
      /\ UNCHANGED <<call, rolling, pending, currentPacketId, hopLimit, calls, issued, air, raced>>
  BY DEF Finish, Return, GoTo
<1>2. nodeInfoSendCache' \in [Nodes -> 0..MaxCalls]
  <2>1. call[s] \in 0..MaxCalls /\ nodeInfoSendCache \in [Nodes -> 0..MaxCalls]
    BY <1>0 DEF TypeOK
  <2> QED
    BY <2>1 DEF Finish
<1>3. TypeOK'
  <2>1. pc' \in [Senders -> PCs] /\ result' \in [Senders -> {"none", "ok", "error"}]
    BY <1>0, <1>1 DEF TypeOK, PCs
  <2>2. errs' \in [Senders -> SUBSET Connectors]
    BY <1>0, <1>1 DEF TypeOK
  <2>3. info' \in [Senders -> PacketInfo]
    BY <1>0, <1>1 DEF TypeOK
  <2> QED
    BY <1>0, <1>1, <1>2, <2>1, <2>2, <2>3 DEF TypeOK
<1>4. \A t \in Senders : t # s =>
        /\ pc'[t] = pc[t] /\ errs'[t] = errs[t] /\ result'[t] = result[t] /\ pc[t] # "sending"
  BY <1>0, <1>1 DEF TypeOK, Inv, HolderSends
<1>5. /\ pc'[s] = "idle" /\ errs'[s] = {} /\ result'[s] = IF Failed(s) THEN "error" ELSE "ok"
  BY <1>0, <1>1 DEF TypeOK
<1>6. Numbered' /\ HolderSends' /\ QuietBefore' /\ Transmitting'
  BY <1>1, <1>4, <1>5 DEF Inv, Numbered, HolderSends, QuietBefore, Transmitting, OnAir
<1>7. ReportIsTrue' /\ NotInterleaved'
  BY <1>1, <1>4, <1>5, FailedMeansSilence DEF Inv, ReportIsTrue, NotInterleaved, OnAir
<1> QED
  BY <1>3, <1>6, <1>7 DEF Inv

LEMMA NextKeepsInv == Inv /\ [Next]_vars => Inv'
<1> SUFFICES ASSUME Inv, [Next]_vars PROVE Inv'
  OBVIOUS
<1>1. CASE Next
  <2>1. PICK s \in Senders : (\E i \in Requests : Call(s, i)) \/ sendBytes(s) \/ Lock(s)
    BY <1>1 DEF Next
  <2>2. CASE \E i \in Requests : Call(s, i)
    BY <2>2, CallKeepsInv
  <2>3. CASE ReadPacketId(s) \/ WritePacketId(s) \/ ReturnPacketId(s)
    BY <2>3, DrawKeepsInv
  <2>4. CASE \E c \in Connectors : SendPacket(s, c)
    BY <2>4, SendPacketKeepsInv
  <2>5. CASE Finish(s)
    BY <2>5, FinishKeepsInv
  <2>6. CASE Lock(s)
    BY <2>6, LockKeepsInv
  <2> QED
    BY <2>1, <2>2, <2>3, <2>4, <2>5, <2>6 DEF sendBytes
<1>2. CASE UNCHANGED vars
  <2>1. TypeOK'
    BY <1>2 DEF vars, local, shared, Inv, TypeOK
  <2>2. Numbered' /\ HolderSends' /\ QuietBefore'
    BY <1>2 DEF vars, local, shared, Inv, Numbered, HolderSends, QuietBefore, OnAir, At
  <2>3. Transmitting'
    BY <1>2 DEF vars, local, shared, Inv, Transmitting, Transmits, OnAir, At, Packet
  <2>4. ReportIsTrue' /\ NotInterleaved'
    BY <1>2 DEF vars, local, shared, Inv, ReportIsTrue, NotInterleaved, OnAir, At
  <2> QED
    BY <2>1, <2>2, <2>3, <2>4 DEF Inv
<1> QED
  BY <1>1, <1>2

(* The strengthening holds in every state sendBytes reaches.              *)
THEOREM Invariance == Spec => []Inv
BY InitInv, NextKeepsInv, PTL DEF Spec

(* The types, and with them that no packet claims more hops than its three *)
(* bits hold, for any configured hop limit (SetHopLimit, sendBytes).       *)
THEOREM TypeCorrect == Spec => []TypeOK
<1>1. Inv => TypeOK
  BY DEF Inv
<1> QED
  BY <1>1, Invariance, PTL

(* What sendBytes returns is true, for any number of goroutines and of     *)
(* connectors, whichever of them fail.                                     *)
THEOREM ReportAlwaysTrue == Spec => []ReportIsTrue
<1>1. Inv => ReportIsTrue
  BY DEF Inv
<1> QED
  BY <1>1, Invariance, PTL

(* The transmissions of one packet are never mixed with another's.         *)
THEOREM NeverInterleaved == Spec => []NotInterleaved
<1>1. Inv => NotInterleaved
  BY DEF Inv
<1> QED
  BY <1>1, Invariance, PTL
-----------------------------------------------------------------------------
(* The rolling counter.                                                    *)
LEMMA RollsOver ==
    ASSUME NEW x \in 0..Rolling - 1
    PROVE  (x + 1) % Rolling = IF x + 1 = Rolling THEN 0 ELSE x + 1
<1>1. Rolling \in Nat /\ Rolling > 0
  BY NumbersAssumption
<1> QED
  BY <1>1

LEMMA OneStepOn ==
    ASSUME NEW R \in Nat, NEW x \in 0..R - 1, NEW y \in 0..R - 1, NEW d \in Nat, d + 1 < R,
           y = x + d \/ y = x + d - R,
           NEW z, z = IF y + 1 = R THEN 0 ELSE y + 1
    PROVE  z = x + (d + 1) \/ z = x + (d + 1) - R
<1>1. CASE y + 1 = R
  BY <1>1
<1>2. CASE y + 1 # R
  <2>1. z = y + 1
    BY <1>2
  <2> QED
    BY <2>1
<1> QED
  BY <1>1, <1>2

LEMMA IdTypes ==
    ASSUME TypeOK
    PROVE  /\ \A i \in Ids : i[2] \in 0..Rolling - 1
           /\ issued \in Seq(Ids) /\ Len(issued) \in Nat
           /\ \A k \in 1..Len(issued) : issued[k] \in Ids
           /\ currentPacketId \in Ids /\ LastIssued \in Ids
<1>1. issued \in Seq(Ids) /\ currentPacketId \in Ids
  BY DEF TypeOK
<1>2. \A i \in Ids : i[2] \in 0..Rolling - 1
  BY DEF Ids
<1> QED
  BY <1>1, <1>2, ZeroIsId DEF LastIssued

(* An id that follows the last one is new for a turn.                      *)
LEMMA AppendKeepsTurn ==
    ASSUME TypeOK, InTurn, IdsDiffer, ~raced, issued' = Append(issued, currentPacketId),
           LastIssued # Zero => currentPacketId[2] = (LastIssued[2] + 1) % Rolling
    PROVE  InTurn' /\ IdsDiffer'
<1> DEFINE n == Len(issued)
<1>0. /\ issued \in Seq(Ids) /\ n \in Nat /\ Rolling \in Nat
      /\ \A k \in 1..n : issued[k] \in Ids /\ issued[k][2] \in 0..Rolling - 1
      /\ currentPacketId \in Ids /\ currentPacketId[2] \in 0..Rolling - 1
  BY IdTypes, NumbersAssumption
<1>1. /\ Len(issued') = n + 1 /\ issued'[n + 1] = currentPacketId
      /\ \A k \in 1..n : issued'[k] = issued[k]
  BY <1>0
<1>n. n \in Nat
  BY <1>0
<1>p. \A k \in 1..n + 1 : k = n + 1 \/ k \in 1..n
  <2> HIDE DEF n
  <2> QED
    BY <1>n
<1>2. ASSUME NEW i \in 1..n, n + 1 - i < Rolling, \A k \in i..n : issued[k] # Zero
      PROVE  \/ currentPacketId[2] = issued[i][2] + (n + 1 - i)
             \/ currentPacketId[2] = issued[i][2] + (n + 1 - i) - Rolling
  <2>1. issued[n] # Zero /\ LastIssued = issued[n] /\ issued[n][2] \in 0..Rolling - 1
    BY <1>0, <1>2 DEF LastIssued
  <2>2. \/ issued[n][2] = issued[i][2] + (n - i)
        \/ issued[n][2] = issued[i][2] + (n - i) - Rolling
    <3>1. i \in 1..Len(issued) /\ Len(issued) - i < Rolling
      BY <1>0, <1>2
    <3>2. \A k \in i..Len(issued) - 1 : issued[k] # Zero
      BY <1>0, <1>2
    <3> QED
      BY <3>1, <3>2 DEF InTurn
  <2>3. currentPacketId[2] = IF issued[n][2] + 1 = Rolling THEN 0 ELSE issued[n][2] + 1
    BY <2>1, RollsOver
  <2>4. issued[i][2] \in 0..Rolling - 1
    BY <1>0, <1>2
  <2>5. PICK d : d = n - i
    OBVIOUS
  <2>6. n \in Nat /\ Rolling \in Nat
    BY <1>0
  <2>7. d \in Nat /\ n + 1 - i = d + 1 /\ d + 1 < Rolling
    <3> HIDE DEF n
    <3> QED
      BY <1>2, <2>5, <2>6
  <2>8. issued[n][2] = issued[i][2] + d \/ issued[n][2] = issued[i][2] + d - Rolling
    BY <2>2, <2>5
  <2>9. issued[n][2] \in 0..Rolling - 1 /\ Rolling \in Nat /\ d \in Nat /\ d + 1 < Rolling
    BY <2>1, <2>6, <2>7
  <2>10. \/ currentPacketId[2] = issued[i][2] + (d + 1)
         \/ currentPacketId[2] = issued[i][2] + (d + 1) - Rolling
    BY <2>3, <2>4, <2>8, <2>9, OneStepOn, Zenon
  <2> QED
    BY <2>7, <2>10
<1>3. InTurn'
  <2> SUFFICES ASSUME NEW i \in 1..n + 1, n + 1 - i < Rolling, \A k \in i..n : issued'[k] # Zero
               PROVE  \/ issued'[n + 1][2] = issued'[i][2] + (n + 1 - i)
                      \/ issued'[n + 1][2] = issued'[i][2] + (n + 1 - i) - Rolling
    BY <1>0, <1>1 DEF InTurn
  <2>1. CASE i = n + 1
    BY <1>0, <1>1, <2>1
  <2>2. CASE i \in 1..n
    <3>1. \A k \in i..n : issued[k] # Zero
      BY <1>0, <1>1, <2>2
    <3> QED
      BY <1>1, <1>2, <2>2, <3>1
  <2> QED
    BY <1>p, <2>1, <2>2
<1>4. IdsDiffer'
  <2> SUFFICES ASSUME NEW i \in 1..n + 1, NEW j \in 1..n + 1, i < j, j - i < Rolling,
                      \A k \in i..j - 1 : issued'[k] # Zero
               PROVE  issued'[i] # issued'[j]
    BY <1>0, <1>1 DEF IdsDiffer
  <2>0. i \in 1..n /\ \A k \in i..j - 1 : k \in 1..n
    <3> HIDE DEF n
    <3> QED
      BY <1>n
  <2>1. i \in 1..n /\ \A k \in i..j - 1 : issued[k] # Zero
    BY <1>1, <2>0
  <2>2. CASE j = n + 1
    <3>1. \/ currentPacketId[2] = issued[i][2] + (n + 1 - i)
          \/ currentPacketId[2] = issued[i][2] + (n + 1 - i) - Rolling
      BY <1>0, <1>2, <2>1, <2>2
    <3>2. issued[i][2] \in 0..Rolling - 1
      BY <1>0, <2>1
    <3>3. currentPacketId[2] # issued[i][2]
      <4> HIDE DEF n
      <4> QED
        BY <1>0, <2>1, <2>2, <3>1, <3>2
    <3> QED
      BY <1>1, <2>1, <2>2, <3>3
  <2>3. CASE j \in 1..n
    BY <1>1, <2>1, <2>3 DEF IdsDiffer
  <2>4. j = n + 1 \/ j \in 1..n
    BY <1>p
  <2> QED
    BY <2>2, <2>3, <2>4
<1> QED
  BY <1>3, <1>4

LEMMA DrawInvNext == Inv /\ DrawInv /\ [Next]_vars => DrawInv'
<1> SUFFICES ASSUME Inv, DrawInv, [Next]_vars, ~raced' PROVE (OneDraws /\ InTurn /\ IdsDiffer)'
  BY DEF DrawInv
<1> USE DEF At, Drawing
<1>0. /\ TypeOK /\ pc \in [Senders -> PCs] /\ rolling \in [Senders -> Ids] /\ raced \in BOOLEAN
  BY DEF Inv, TypeOK
<1>1. ASSUME NEW s \in Senders, ReadPacketId(s)
      PROVE  (OneDraws /\ InTurn /\ IdsDiffer)'
  <2>1. /\ ~raced /\ pc[s] = "read" /\ pc' = [pc EXCEPT ![s] = "write"]
        /\ \A t \in Senders : t # s => pc[t] \notin {"write", "return"}
        /\ UNCHANGED <<currentPacketId, issued>>
    BY <1>0, <1>1 DEF ReadPacketId, GoTo
  <2>2. OneDraws /\ InTurn /\ IdsDiffer /\ currentPacketId = LastIssued
    BY <2>1 DEF DrawInv, OneDraws
  <2>3. LastIssued' = LastIssued /\ InTurn' /\ IdsDiffer'
    BY <2>1, <2>2 DEF LastIssued, InTurn, IdsDiffer
  <2>4. currentPacketId # Zero => rolling'[s] = currentPacketId
    BY <1>0, <1>1 DEF ReadPacketId
  <2>5. pc'[s] = "write" /\ \A t \in Senders : t # s => pc'[t] \notin {"write", "return"}
    BY <1>0, <2>1
  <2> QED
    BY <2>1, <2>2, <2>3, <2>4, <2>5 DEF OneDraws
<1>2. ASSUME NEW s \in Senders, WritePacketId(s)
      PROVE  (OneDraws /\ InTurn /\ IdsDiffer)'
  <2>1. /\ ~raced /\ pc[s] = "write" /\ pc' = [pc EXCEPT ![s] = "return"]
        /\ UNCHANGED <<rolling, issued>>
    BY <1>0, <1>2 DEF WritePacketId, GoTo
  <2>2. /\ OneDraws /\ InTurn /\ IdsDiffer
        /\ \A t \in Senders : t # s => pc[t] \notin {"write", "return"}
    BY <2>1 DEF DrawInv, OneDraws
  <2>3. LastIssued' = LastIssued /\ InTurn' /\ IdsDiffer'
    BY <2>1, <2>2 DEF LastIssued, InTurn, IdsDiffer
  <2>4. LastIssued # Zero => currentPacketId'[2] = (LastIssued[2] + 1) % Rolling
    <3>1. currentPacketId'[2] = (rolling[s][2] + 1) % Rolling
      BY <1>2 DEF WritePacketId
    <3> QED
      BY <2>1, <2>2, <3>1 DEF OneDraws
  <2>5. pc'[s] = "return" /\ \A t \in Senders : t # s => pc'[t] \notin {"write", "return"}
    BY <1>0, <2>1, <2>2
  <2> QED
    BY <2>3, <2>4, <2>5 DEF OneDraws
<1>3. ASSUME NEW s \in Senders, ReturnPacketId(s)
      PROVE  (OneDraws /\ InTurn /\ IdsDiffer)'
  <2>1. /\ ~raced /\ pc[s] = "return" /\ UNCHANGED <<currentPacketId, raced>>
        /\ issued' = Append(issued, currentPacketId)
        /\ \E l \in {"lock", "idle"} : pc' = [pc EXCEPT ![s] = l]
    BY <1>0, <1>3 DEF ReturnPacketId, GoTo, Return, shared
  <2>2. /\ OneDraws /\ InTurn /\ IdsDiffer
        /\ LastIssued # Zero => currentPacketId[2] = (LastIssued[2] + 1) % Rolling
        /\ \A t \in Senders : t # s => pc[t] \notin {"write", "return"}
    BY <2>1 DEF DrawInv, OneDraws
  <2>3. InTurn' /\ IdsDiffer'
    BY <1>0, <2>1, <2>2, AppendKeepsTurn
  <2>4. LastIssued' = currentPacketId'
    BY <1>0, <2>1, IdTypes DEF LastIssued
  <2>5. \A t \in Senders : pc'[t] \notin {"write", "return"}
    BY <1>0, <2>1, <2>2
  <2> QED
    BY <2>3, <2>4, <2>5 DEF OneDraws
<1>4. ASSUME NEW s \in Senders,
             \/ \E i \in Requests : Call(s, i)
             \/ \E c \in Connectors : SendPacket(s, c)
             \/ Finish(s) \/ Lock(s)
      PROVE  (OneDraws /\ InTurn /\ IdsDiffer)'
  <2>1. /\ UNCHANGED <<rolling, currentPacketId, issued, raced>>
        /\ \/ pc' = pc
           \/ \E l \in {"idle", "read", "sending"} :
                 pc[s] \notin {"write", "return"} /\ pc' = [pc EXCEPT ![s] = l]
    BY <1>4 DEF Call, SendPacket, Finish, Lock, Return, GoTo, shared
  <2>2. \A t \in Senders : \/ pc'[t] = pc[t]
                           \/ pc'[t] \notin {"write", "return"} /\ pc[t] \notin {"write", "return"}
    BY <1>0, <2>1
  <2>3. OneDraws /\ InTurn /\ IdsDiffer
    BY <2>1 DEF DrawInv
  <2>4. LastIssued' = LastIssued /\ InTurn' /\ IdsDiffer'
    <3>1. issued' = issued /\ raced' = raced
      BY <2>1
    <3> QED
      BY <2>3, <3>1 DEF LastIssued, InTurn, IdsDiffer
  <2> QED
    BY <2>1, <2>2, <2>3, <2>4 DEF OneDraws
<1>5. CASE UNCHANGED vars
  <2>1. UNCHANGED <<pc, rolling, currentPacketId, issued, raced>>
    BY <1>5 DEF vars, local, shared
  <2>2. LastIssued' = LastIssued /\ InTurn' /\ IdsDiffer'
    BY <2>1 DEF DrawInv, LastIssued, InTurn, IdsDiffer
  <2> QED
    BY <2>1, <2>2 DEF DrawInv, OneDraws
<1>6. CASE Next
  <2>1. PICK s \in Senders : (\E i \in Requests : Call(s, i)) \/ sendBytes(s) \/ Lock(s)
    BY <1>6 DEF Next
  <2>2. CASE ReadPacketId(s) \/ WritePacketId(s) \/ ReturnPacketId(s)
    BY <1>1, <1>2, <1>3, <2>2
  <2>3. CASE \/ \E i \in Requests : Call(s, i)
             \/ \E c \in Connectors : SendPacket(s, c)
             \/ Finish(s) \/ Lock(s)
    BY <1>4, <2>3
  <2> QED
    BY <2>1, <2>2, <2>3 DEF sendBytes
<1> QED
  BY <1>5, <1>6

(* The ids of the packets within one turn of the rolling counter differ,   *)
(* for any width of the counter and any random upper bits, as long as no   *)
(* two goroutines draw at once and none comes out as zero                  *)
(* (generatePacketId).                                                     *)
THEOREM IdsAlwaysDiffer == Spec => []IdsDiffer
<1>1. Init => DrawInv
  BY DEF Init, DrawInv, OneDraws, InTurn, IdsDiffer, LastIssued, Drawing, At
<1>2. Inv /\ DrawInv => IdsDiffer
  BY DEF Inv, DrawInv, IdsDiffer
<1> QED
  BY <1>1, <1>2, Invariance, DrawInvNext, PTL DEF Spec
=============================================================================
