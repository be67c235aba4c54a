SPECIFICATION FairSpec
CONSTANTS
    Threads = {t1, t2}
    NoThread = NoThread
    AuthMethods = {"approle"}
    Kinds = {"kv"}
    Materials = {"good", "refused"}
    MaxRequests = 2
PROPERTIES
    RefusedLoginReported
