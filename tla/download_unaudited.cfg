SPECIFICATION Spec
CONSTANTS
    MaxSize = 3
    SnapshotSizes = {0, 1, 2, 3, 4, 5}
    Undeclared = Undeclared
INVARIANTS
    DownloadAudited
\* The request is over.
CHECK_DEADLOCK FALSE
