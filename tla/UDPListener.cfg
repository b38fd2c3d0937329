SPECIFICATION BusySpec
CONSTANT Stoppers = {s1, s2}
INVARIANTS
    ListenerHasSocket
    StopLeavesNothing
    ConnectedAsAnnounced
    EventsAlternate
PROPERTIES
    StopReturns
    Reconnects
CHECK_DEADLOCK FALSE
