SPECIFICATION Spec
CONSTANTS
    Users = {alice}
    Actors = {a1, a2}
    NoUser = NoUser
    MaxCalls = 4
    MaxRestarts = 1
INVARIANTS
    GrantedMeansManaged
    LoggedInCanSend
CHECK_DEADLOCK FALSE
