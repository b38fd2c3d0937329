SPECIFICATION Spec
CONSTANTS
    Local = {u}
    Remote = {r}
    RemoteKeys = {ka}
    NoRow = NoRow
    NoNode = NoNode
    Actors = {a1, a2}
    MaxCalls = 4
    MaxRestarts = 1
INVARIANTS
    TypeOK
    KeysBelong
    ManagedHasKeys
    ToldKeyIsStored
    RemoteKeyIsLatest
    NamedIsManaged
CHECK_DEADLOCK FALSE
