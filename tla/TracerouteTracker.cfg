SPECIFICATION Spec
SYMMETRY MCSymmetry
CONSTANTS
    c1 = c1
    c2 = c2
    c3 = c3
    alice = alice
    bob = bob
    lobby = lobby
    ops = ops
    far = far
    relay = relay
    user = user
    Hops = {far, relay, user, self}
    Broadcast = Broadcast
    Unknown = Unknown
    NoGateway = NoGateway
    Self = self
    Arrivals <- MCArrivals
    Commands = {c1, c2, c3}
    Pairs = {alice, bob}
    Rooms = {lobby, ops}
    PairOf <- MCPairOf
    RoomOf <- MCRoomOf
    PacketIds = {p1, p2}
    NoPacket = NoPacket
    TracerouteTimeout = 2
    MaxTime = 3
    MaxResponses = 2
INVARIANTS
    NoticeOnceInItsRoom
    SpacedUnlessOverlapping
    HopsShowTheirSnr
CHECK_DEADLOCK FALSE
