SPECIFICATION FairSpec
CONSTANTS
    Operations = {seal, removePeer, sealStatus}
    Mutations = {seal, removePeer}
    MaxAttempts = 2
INVARIANTS
    Inductive
    ReportsTrue
    AppliedAtMostOnce
PROPERTIES
    EveryAttemptReported
\* Every operation has been reported and no attempt is left.
CHECK_DEADLOCK FALSE
