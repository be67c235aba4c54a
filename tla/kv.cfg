SPECIFICATION FairSpec
CONSTANTS
    Requests <- AllRequests
    Omitted = Omitted
    MaxRequests = 3
INVARIANTS
    Inductive
    WritersToldTheirVersion
    CheckAndSetOnce
    RefusedNeverApplied
    ReadsCurrent
PROPERTIES
    CallsEnd
\* Every request has been answered and no call is left.
CHECK_DEADLOCK FALSE
