---------------------------- MODULE UDPListener -----------------------------
(***************************************************************************)
(* The UDP connector's listener, pkg/mesh/connectors/udp_handler.go: one   *)
(* goroutine that binds the multicast socket, announces the connection,    *)
(* reads until an error or a stop and binds again after a pause; and the   *)
(* goroutines that call Stop, one per user login at shutdown.  running and *)
(* listening are atomics, conn is the socket, and stopChan closes once.    *)
(* Start is called once, by the bridge's own Start.                        *)
(***************************************************************************)
EXTENDS Integers

CONSTANT Stoppers      \* goroutines that call Stop

ASSUME StoppersAssumption == Stoppers # {}

VARIABLES
    running, listening,  \* the two atomics
    conn,                \* "nil" or "open"
    stopChan,            \* "open" or "closed"
    waitGroup,           \* its counter
    isRestart,
    listener,            \* where the listener goroutine is
    stopper,             \* where each caller of Stop is
    panicked,            \* a goroutine panicked: the process is gone
    starts,              \* EventStarted so far, capped at 2
    ups,                 \* up events since the last EventConnectionLost, capped at 2
    lastEvent            \* the event last emitted

state   == <<running, listening, conn, stopChan, waitGroup, isRestart>>
emitted == <<starts, ups, lastEvent>>
vars    == <<state, listener, stopper, panicked, emitted>>

Init ==
    /\ running = FALSE /\ listening = FALSE
    /\ conn = "nil"
    /\ stopChan = "open"
    /\ waitGroup = 0
    /\ isRestart = FALSE
    /\ listener = "none"
    /\ stopper = [s \in Stoppers |-> "idle"]
    /\ panicked = FALSE
    /\ starts = 0 /\ ups = 0 /\ lastEvent = "none"

AtMost2(n) == IF n > 2 THEN 2 ELSE n

(* emitStateEvent, seen by the client's state handler.                     *)
emitStateEvent(e) ==
    /\ lastEvent' = e
    /\ ups' = IF e = "lost" THEN 0 ELSE AtMost2(ups + 1)
    /\ starts' = IF e = "started" THEN AtMost2(starts + 1) ELSE starts

-----------------------------------------------------------------------------
Start ==
    /\ listener = "none"
    /\ ~running
    /\ running' = TRUE
    /\ stopChan' = "open"
    /\ waitGroup' = waitGroup + 1
    /\ listener' = "loop"
    /\ UNCHANGED <<listening, conn, isRestart, stopper, panicked, emitted>>

(* listenWithReconnect, step by step.                                      *)
ListenerAt(l) == listener = l /\ ~panicked

CheckRunning ==
    /\ ListenerAt("loop")
    /\ listener' = IF running THEN "setup" ELSE "exit"
    /\ UNCHANGED <<state, stopper, panicked, emitted>>

SetupSocketOk ==
    /\ ListenerAt("setup")
    /\ conn' = "open"
    /\ listener' = "up"
    /\ UNCHANGED <<running, listening, stopChan, waitGroup, isRestart, stopper, panicked, emitted>>

(* Variant: the listener gives up when the socket cannot be bound.         *)
SetupSocketFailGivesUp ==
    /\ ListenerAt("setup")
    /\ listening' = FALSE
    /\ emitStateEvent("lost")
    /\ listener' = "exit"
    /\ UNCHANGED <<running, conn, stopChan, waitGroup, isRestart, stopper, panicked>>

SetupSocketFail ==
    /\ ListenerAt("setup")
    /\ listening' = FALSE
    /\ emitStateEvent("lost")
    /\ listener' = "sleep"
    /\ UNCHANGED <<running, conn, stopChan, waitGroup, isRestart, stopper, panicked>>

SetListening ==
    /\ ListenerAt("up")
    /\ listening' = TRUE
    /\ listener' = "announce"
    /\ UNCHANGED <<running, conn, stopChan, waitGroup, isRestart, stopper, panicked, emitted>>

(* Variant: the listener forgets that it was up before.                    *)
AnnounceAsNew ==
    /\ ListenerAt("announce")
    /\ emitStateEvent("started")
    /\ listener' = "select"
    /\ UNCHANGED <<running, listening, conn, stopChan, waitGroup, isRestart, stopper, panicked>>

Announce ==
    /\ ListenerAt("announce")
    /\ emitStateEvent(IF isRestart THEN "restarted" ELSE "started")
    /\ isRestart' = TRUE
    /\ listener' = "select"
    /\ UNCHANGED <<running, listening, conn, stopChan, waitGroup, stopper, panicked>>

(* Variant: the loop looks at the socket only.                             *)
SelectIgnoringStop ==
    /\ ListenerAt("select")
    /\ listener' = "read"
    /\ UNCHANGED <<state, stopper, panicked, emitted>>

Select ==
    /\ ListenerAt("select")
    /\ listener' = IF stopChan = "closed" THEN "exit" ELSE "read"
    /\ UNCHANGED <<state, stopper, panicked, emitted>>

(* ReadFromUDP returns a datagram, which is handed on or, when it does not *)
(* unmarshal, ignored.  Without traffic the call blocks: it has no         *)
(* deadline.                                                               *)
ReadDatagram ==
    /\ ListenerAt("read")
    /\ listener' = "select"
    /\ UNCHANGED <<state, stopper, panicked, emitted>>

ReadError ==
    /\ ListenerAt("read")
    /\ conn' = "nil"
    /\ listener' = "lost"
    /\ UNCHANGED <<running, listening, stopChan, waitGroup, isRestart, stopper, panicked, emitted>>

(* Variant: the lost connection is announced but not recorded.             *)
AnnounceLostOnly ==
    /\ ListenerAt("lost")
    /\ emitStateEvent("lost")
    /\ listener' = "sleep"
    /\ UNCHANGED <<state, stopper, panicked>>

AnnounceLost ==
    /\ ListenerAt("lost")
    /\ listening' = FALSE
    /\ emitStateEvent("lost")
    /\ listener' = "sleep"
    /\ UNCHANGED <<running, conn, stopChan, waitGroup, isRestart, stopper, panicked>>

Wake ==
    /\ ListenerAt("sleep")
    /\ listener' = "loop"
    /\ UNCHANGED <<state, stopper, panicked, emitted>>

ListenerExit ==
    /\ ListenerAt("exit")
    /\ listening' = FALSE
    /\ waitGroup' = waitGroup - 1
    /\ listener' = "done"
    /\ UNCHANGED <<running, conn, stopChan, isRestart, stopper, panicked, emitted>>

-----------------------------------------------------------------------------
(* Stop, step by step.                                                     *)
StopperAt(s, l) == stopper[s] = l /\ ~panicked
StopperGoesTo(s, l) == stopper' = [stopper EXCEPT ![s] = l]

StopCheck(s) ==
    /\ StopperAt(s, "idle")
    /\ listener # "none"
    /\ StopperGoesTo(s, IF running THEN "store" ELSE "skipped")
    /\ UNCHANGED <<state, listener, panicked, emitted>>

StopStore(s) ==
    /\ StopperAt(s, "store")
    /\ running' = FALSE
    /\ listening' = FALSE
    /\ StopperGoesTo(s, "close")
    /\ UNCHANGED <<conn, stopChan, waitGroup, isRestart, listener, panicked, emitted>>

(* Variant: the socket is closed first, to wake the listener.              *)
StopCloseWithSocket(s) ==
    /\ StopperAt(s, "close")
    /\ IF stopChan = "closed"
       THEN panicked' = TRUE /\ UNCHANGED <<stopChan, stopper, conn>>
       ELSE /\ stopChan' = "closed"
            /\ conn' = "nil"
            /\ StopperGoesTo(s, "wait")
            /\ UNCHANGED panicked
    /\ UNCHANGED <<running, listening, waitGroup, isRestart, listener, emitted>>

(* Closing a closed channel panics.                                        *)
StopClose(s) ==
    /\ StopperAt(s, "close")
    /\ IF stopChan = "closed"
       THEN panicked' = TRUE /\ UNCHANGED <<stopChan, stopper>>
       ELSE /\ stopChan' = "closed"
            /\ StopperGoesTo(s, "wait")
            /\ UNCHANGED panicked
    /\ UNCHANGED <<running, listening, conn, waitGroup, isRestart, listener, emitted>>

(* Variant: Stop does not wait for the listener.                           *)
StopWaitSkipped(s) ==
    /\ StopperAt(s, "wait")
    /\ conn' = "nil"
    /\ StopperGoesTo(s, "stopped")
    /\ UNCHANGED <<running, listening, stopChan, waitGroup, isRestart, listener, panicked, emitted>>

(* waitGroup.Wait, then closeConn.                                         *)
StopWait(s) ==
    /\ StopperAt(s, "wait")
    /\ waitGroup = 0
    /\ conn' = "nil"
    /\ StopperGoesTo(s, "stopped")
    /\ UNCHANGED <<running, listening, stopChan, waitGroup, isRestart, listener, panicked, emitted>>

-----------------------------------------------------------------------------
ListenerStep ==
    \/ CheckRunning \/ SetListening \/ Announce \/ Select \/ AnnounceLost \/ Wake
    \/ ListenerExit \/ SetupSocketOk \/ SetupSocketFail

StopStep(s) == StopStore(s) \/ StopClose(s) \/ StopWait(s)

Next ==
    \/ Start
    \/ ListenerStep \/ ReadDatagram \/ ReadError
    \/ \E s \in Stoppers : StopCheck(s) \/ StopStep(s)

(* Goroutines that can go on are scheduled; a blocked read needs traffic,  *)
(* and nobody has to call Stop.  Binding the socket does not fail forever. *)
Fairness ==
    /\ WF_vars(Start)
    /\ WF_vars(ListenerStep)
    /\ SF_vars(SetupSocketOk)
    /\ \A s \in Stoppers : WF_vars(StopStep(s))

(* The network may stay silent.                                            *)
Spec == Init /\ [][Next]_vars /\ Fairness

(* The network keeps delivering datagrams.                                 *)
BusySpec == Spec /\ WF_vars(ReadDatagram)

-----------------------------------------------------------------------------
TypeOK ==
    /\ running \in BOOLEAN /\ listening \in BOOLEAN /\ isRestart \in BOOLEAN
    /\ panicked \in BOOLEAN
    /\ conn \in {"nil", "open"}
    /\ stopChan \in {"open", "closed"}
    /\ waitGroup \in 0..1
    /\ listener \in {"none", "loop", "setup", "up", "announce", "select", "read",
                     "lost", "sleep", "exit", "done"}
    /\ stopper \in [Stoppers -> {"idle", "store", "close", "wait", "stopped", "skipped"}]
    /\ starts \in 0..2 /\ ups \in 0..2
    /\ lastEvent \in {"none", "started", "restarted", "lost"}

(* Whatever Stop does meanwhile, the listener never works on a nil socket  *)
(* (conn.LocalAddr and conn.ReadFromUDP in listenWithReconnect and         *)
(* listenLoop): Stop closes the socket only after waitGroup.Wait.          *)
ListenerHasSocket ==
    listener \in {"up", "announce", "select", "read"} => conn = "open"

(* When a Stop that did the work returns, the listener goroutine is gone,  *)
(* the socket is closed and IsConnected says no, although the listener     *)
(* may set listening after Stop cleared it.                                *)
StopLeavesNothing ==
    \A s \in Stoppers : stopper[s] = "stopped" =>
        listener = "done" /\ conn = "nil" /\ ~listening /\ ~running

(* While nobody stops it, a listener that reads or pauses has told the     *)
(* client the same thing that IsConnected answers.                         *)
ConnectedAsAnnounced ==
    listener \in {"select", "read", "sleep"} /\ running =>
        (listening <=> lastEvent \in {"started", "restarted"})

(* The state handler sees a single EventStarted, restarts only after it,   *)
(* and never two up events without a loss in between (isRestart).          *)
EventsAlternate ==
    /\ starts <= 1 /\ ups <= 1
    /\ lastEvent = "restarted" => starts = 1

(* A Stop that waits for the listener returns (Stop: "halts the listener   *)
(* and cleans up").                                                        *)
StopReturns ==
    \A s \in Stoppers : stopper[s] = "wait" ~> (stopper[s] = "stopped" \/ panicked)

(* A listener that lost its socket, or never had one, listens again unless *)
(* it is stopped (the loop of listenWithReconnect).                        *)
Reconnects == (running /\ ~listening) ~> (listening \/ ~running \/ panicked)
=============================================================================
