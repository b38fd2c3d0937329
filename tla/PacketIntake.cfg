SPECIFICATION Spec
CONSTANTS
    Threads = {t1, t2}
    NoThread = NoThread
    Nodes <- MCNodes
    BroadcastId <- MCBroadcast
    Managed <- MCManaged
    Packets <- MCPackets
    Channels <- MCChannels
    ThrottlePeriod = 2
    MaxArrivals = 3
    MaxForgotten = 1
    MaxTime = 2
INVARIANTS
    TypeOK
    AtMostOnce
    ThrottleSpacing
    EventsNameTheirChannel
PROPERTIES
    EventuallyDispatched
    ImplementsDelivery
CHECK_DEADLOCK FALSE
