SPECIFICATION FairSpec
CONSTANTS
    Requests = {r1, r2}
    Inputs <- AllInputs
    PoolSize = 1
    NoThread = NoThread
    AuthMethods = {"approle"}
    Materials = {"good", "refused", "unreadable"}
INVARIANTS
    Inductive
    SessionUsersOccupyThePool
    OnlyPermittedReachOpenBao
PROPERTIES
    ImplementsAuditedService
    EveryRequestAnswered
