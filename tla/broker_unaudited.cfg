SPECIFICATION Spec
CONSTANTS
    Requests = {r1, r2}
    Inputs <- AllInputs
    PoolSize = 2
    NoThread = NoThread
    AuthMethods = {"approle"}
    Materials = {"good"}
INVARIANTS
    EveryRequestAudited
