SPECIFICATION RestoreSpec
CONSTANTS
    MaxSize = 6
    MemoryLimit = 2
    TmpSpace = 2
    MaxExcess = 2
INVARIANTS
    OnlyHangUpInterrupts
\* The request is over.
CHECK_DEADLOCK FALSE
