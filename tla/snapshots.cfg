SPECIFICATION RoutesSpec
CONSTANTS
    MaxSize = 4
    SnapshotSizes = {0, 1, 2, 3, 4, 5, 6}
    Undeclared = Undeclared
    MemoryLimit = 1
    TmpSpace = 3
    MaxExcess = 2
INVARIANTS
    Inductive
    StreamRecordedOnce
    OkMeansComplete
    UpstreamReleased
    RestoreInvariant
    RestoreOutcomeHonest
    OnlyWholeUploadsSent
    RestoreRecorded
PROPERTIES
    NothingSentAfterRecord
    StreamEventuallyRecorded
    RestoreEnds
\* Both requests are over.
CHECK_DEADLOCK FALSE
