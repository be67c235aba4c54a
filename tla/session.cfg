SPECIFICATION FairSpec
CONSTANTS
    Threads = {t1, t2, t3}
    NoThread = NoThread
    AuthMethods = {"approle", "token"}
    Kinds = {"kv", "administration", "mounted"}
    Materials = {"good", "refused", "unreadable"}
    MaxRequests = 3
INVARIANTS
    Inductive
    LoginsExclusive
    LoginsBounded
    RefusedClientDropped
PROPERTIES
    ImplementsClientCache
    RequestsEnd
