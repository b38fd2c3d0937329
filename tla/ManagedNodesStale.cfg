SPECIFICATION Spec
CONSTANTS
    Users = {alice}
    Actors = {a1, a2}
    NoUser = NoUser
    MaxCalls = 2
    MaxRestarts = 0
INVARIANT NamesAreAccepted
CHECK_DEADLOCK FALSE
