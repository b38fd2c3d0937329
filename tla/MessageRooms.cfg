SPECIFICATION Spec
CONSTANTS
    l1 = l1
    l2 = l2
    u1 = u1
    u2 = u2
    n1 = n1
    n2 = n2
    ch = ch
    k = k
    Threads = {t1, t2}
    Logins = {l1, l2}
    Nodes = {u1, u2, n1, n2}
    NodeOf <- MCNodeOf
    ChannelNames = {ch}
    Keys = {k}
    Broadcast = Broadcast
    Events <- MCEvents
    OwnIds = {9}
    FirstHandlers <- MCHandlers
    Members <- MCMembers
    InactivityThreshold = 1
    Bounds <- MCBounds
    None = None
INVARIANTS
    TypeOK
    DirectStaysPrivate
    DueIsShown
    ReactionsAttach
 
SYMMETRY ThreadSymmetry
CHECK_DEADLOCK FALSE
