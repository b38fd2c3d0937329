SPECIFICATION Spec
CONSTANTS
    own = own
    user = user
    stranger = stranger
    remote = remote
    Senders = {s1, s2}
    Connectors = {udp, mqtt}
    Nodes = {own, user, stranger, remote}
    Own = own
    Broadcast = Broadcast
    Managed = {own, user}
    Requests <- MCRequests
    High = {0}
    Rolling = 3
    ConfigHops = {7}
    MaxCalls = 3
    None = None
INVARIANTS
    TypeOK
    ReportIsTrue
    NotInterleaved
    IdsDiffer
PROPERTY CallsReturn
CHECK_DEADLOCK FALSE
