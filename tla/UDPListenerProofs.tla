-------------------------- MODULE UDPListenerProofs --------------------------
(***************************************************************************)
(* The listener's safety for any number of goroutines that call Stop.      *)
(* None of the invariants that the runs check is inductive by itself: that *)
(* Stop leaves nothing behind rests on the wait group's counter and on the *)
(* order of Stop's stores (Signoff, StopOrder), and what was announced     *)
(* rests on where the listener is (Announced, Counted).                    *)
(***************************************************************************)
EXTENDS UDPListener, TLAPS

(* The wait group counts the listener goroutine, which leaves listening    *)
(* cleared; before it is started nobody stops it.                          *)
Signoff ==
    /\ waitGroup = IF listener \in {"none", "done"} THEN 0 ELSE 1
    /\ listener = "done" => ~listening
    /\ listener = "none" => ~listening /\ \A s \in Stoppers : stopper[s] = "idle"

(* A Stop past its stores has cleared running, which nothing sets again,   *)
(* and has waited before it reports that it stopped.                       *)
StopOrder ==
    \A s \in Stoppers :
        /\ stopper[s] \in {"close", "wait", "stopped"} => ~running
        /\ stopper[s] = "stopped" => listener = "done" /\ conn = "nil"

(* What the listener announced and what listening says, by its place.      *)
Announced ==
    /\ listener \in {"announce", "select", "read", "lost"} /\ running => listening
    /\ listener \in {"select", "read", "lost"} => lastEvent \in {"started", "restarted"}
    /\ listener = "sleep" => ~listening /\ lastEvent = "lost"

(* How many events it announced, by its place.                             *)
Counted ==
    /\ listener \in {"none", "loop", "setup", "up", "announce", "sleep"} => ups = 0
    /\ ups <= 1
    /\ starts = IF isRestart THEN 1 ELSE 0
    /\ lastEvent = "restarted" => isRestart

Inv ==
    /\ TypeOK /\ Signoff /\ StopOrder
    /\ ListenerHasSocket /\ Announced /\ Counted

-----------------------------------------------------------------------------
LEMMA InitInv == Init => Inv
  <1> SUFFICES ASSUME Init PROVE Inv
    OBVIOUS
  <1>1. TypeOK
    <2>1. /\ running \in BOOLEAN /\ listening \in BOOLEAN
          /\ isRestart \in BOOLEAN /\ panicked \in BOOLEAN
      BY Zenon DEF Init
    <2> QED
      BY <2>1 DEF Init, TypeOK
  <1>2. Signoff /\ StopOrder
    BY DEF Init, Signoff, StopOrder
  <1>3. ListenerHasSocket /\ Announced
    BY DEF Init, ListenerHasSocket, Announced
  <1>4. Counted
    BY DEF Init, Counted
  <1> QED
    BY <1>1, <1>2, <1>3, <1>4 DEF Inv

(* A step of the listener goroutine, its reads included.                   *)
LEMMA ListenerKeepsInv ==
  ASSUME Inv, ListenerStep \/ ReadDatagram \/ ReadError
  PROVE  Inv'
  <1> USE DEF Inv, TypeOK, Signoff, StopOrder, ListenerHasSocket, Announced, Counted,
              ListenerAt, state, emitted
  <1>1. CASE CheckRunning
    BY <1>1 DEF CheckRunning
  <1>2. CASE SetupSocketOk
    BY <1>2 DEF SetupSocketOk
  <1>3. CASE SetupSocketFail
    BY <1>3 DEF SetupSocketFail, emitStateEvent
  <1>4. CASE SetListening
    BY <1>4 DEF SetListening
  <1>5. CASE Announce
    BY <1>5 DEF Announce, emitStateEvent, AtMost2
  <1>6. CASE Select
    BY <1>6 DEF Select
  <1>7. CASE ReadDatagram
    BY <1>7 DEF ReadDatagram
  <1>8. CASE ReadError
    BY <1>8 DEF ReadError
  <1>9. CASE AnnounceLost
    <2>1. TypeOK'
      <3>1. listening' \in BOOLEAN
        BY <1>9, Zenon DEF AnnounceLost
      <3> QED
        BY <1>9, <3>1 DEF AnnounceLost, emitStateEvent
    <2>2. (Signoff /\ StopOrder)'
      BY <1>9 DEF AnnounceLost, emitStateEvent
    <2>3. (ListenerHasSocket /\ Announced)'
      BY <1>9 DEF AnnounceLost, emitStateEvent
    <2>4. Counted'
      BY <1>9 DEF AnnounceLost, emitStateEvent
    <2> QED
      BY <2>1, <2>2, <2>3, <2>4 DEF Inv
  <1>10. CASE Wake
    BY <1>10 DEF Wake
  <1>11. CASE ListenerExit
    <2>1. TypeOK'
      <3>1. listening' \in BOOLEAN
        BY <1>11, Zenon DEF ListenerExit
      <3> QED
        BY <1>11, <3>1 DEF ListenerExit
    <2>2. (Signoff /\ StopOrder)'
      BY <1>11 DEF ListenerExit
    <2>3. (ListenerHasSocket /\ Announced)'
      BY <1>11 DEF ListenerExit
    <2>4. Counted'
      BY <1>11 DEF ListenerExit
    <2> QED
      BY <2>1, <2>2, <2>3, <2>4 DEF Inv
  <1> QED
    BY <1>1, <1>2, <1>3, <1>4, <1>5, <1>6, <1>7, <1>8, <1>9, <1>10, <1>11 DEF ListenerStep

(* A step of a goroutine in Stop.                                          *)
LEMMA StopKeepsInv ==
  ASSUME Inv, NEW s \in Stoppers, StopCheck(s) \/ StopStep(s)
  PROVE  Inv'
  <1> USE DEF Inv, TypeOK, Signoff, StopOrder, ListenerHasSocket, Announced, Counted,
              StopperAt, StopperGoesTo, state, emitted
  <1>1. CASE StopCheck(s)
    BY <1>1 DEF StopCheck
  <1>2. CASE StopStore(s)
    BY <1>2 DEF StopStore
  <1>3. CASE StopClose(s)
    BY <1>3 DEF StopClose
  <1>4. CASE StopWait(s)
    BY <1>4 DEF StopWait
  <1> QED
    BY <1>1, <1>2, <1>3, <1>4 DEF StopStep

(* Inv is an invariant of the listener and its stoppers.                   *)
THEOREM Invariance == Spec => []Inv
  <1>1. ASSUME Inv, [Next]_vars
        PROVE  Inv'
    <2>1. CASE Start
      BY <1>1, <2>1 DEF Start, Inv, TypeOK, Signoff, StopOrder, ListenerHasSocket, Announced,
                        Counted, emitted
    <2>2. CASE ListenerStep \/ ReadDatagram \/ ReadError
      BY <1>1, <2>2, ListenerKeepsInv
    <2>3. ASSUME NEW s \in Stoppers, StopCheck(s) \/ StopStep(s)
          PROVE  Inv'
      BY <1>1, <2>3, StopKeepsInv
    <2>4. CASE UNCHANGED vars
      BY <1>1, <2>4 DEF vars, state, emitted, Inv, TypeOK, Signoff, StopOrder,
                        ListenerHasSocket, Announced, Counted
    <2> QED
      BY <1>1, <2>1, <2>2, <2>3, <2>4 DEF Next
  <1> QED
    BY InitInv, <1>1, PTL DEF Spec

-----------------------------------------------------------------------------
(* The atomics, the channel, the wait group and the places of the          *)
(* goroutines stay in their ranges; the counter is never negative.         *)
THEOREM TypeCorrect == Spec => []TypeOK
  <1>1. Inv => TypeOK
    BY DEF Inv
  <1> QED
    BY Invariance, <1>1, PTL

(* The listener never reads a socket that Stop closed, for any number of   *)
(* stoppers.                                                               *)
THEOREM SocketIsHeld == Spec => []ListenerHasSocket
  <1>1. Inv => ListenerHasSocket
    BY DEF Inv
  <1> QED
    BY Invariance, <1>1, PTL

(* When Stop reports that it stopped, the goroutine and the socket are     *)
(* gone and IsConnected answers no.                                        *)
THEOREM StopIsFinal == Spec => []StopLeavesNothing
  <1>1. Inv => StopLeavesNothing
    BY DEF Inv, Signoff, StopOrder, StopLeavesNothing
  <1> QED
    BY Invariance, <1>1, PTL

(* The client was told what IsConnected answers.                           *)
THEOREM AnnouncementsAreTrue == Spec => []ConnectedAsAnnounced
  <1>1. Inv => ConnectedAsAnnounced
    BY DEF Inv, TypeOK, Announced, ConnectedAsAnnounced
  <1> QED
    BY Invariance, <1>1, PTL

(* One start, restarts only after it, and a loss between any two ups.      *)
THEOREM AnnouncementsAlternate == Spec => []EventsAlternate
  <1>1. Inv => EventsAlternate
    BY DEF Inv, TypeOK, Counted, EventsAlternate
  <1> QED
    BY Invariance, <1>1, PTL
=============================================================================
