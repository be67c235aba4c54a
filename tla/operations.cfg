SPECIFICATION Spec
CONSTANTS
    Requests = {"first", "second"}
    ArgumentsOf <- SomeArguments
    MountPaths <- SomeMountPaths
    FirstMounts <- SomeMounts
    Engines = {"kv", "strict"}
    OperationsOf <- OperationsOfEngine
    Components <- SomeComponents
    Schemas <- SomeSchemas
    Values <- SomeValues
    LoginLike = {"login", "login-x", "login-enforcement"}
    SelfLike = {"my-self", "lookup-self", "renew-self", "revoke-self"}
    Named <- SomeNames
    Mountable <- SomeNames
    Uuids = {"u"}
    Headers = {"h"}
    Unclean = {"a..b", "%41"}
    Parameters = {"{path}", "{serial}"}
    Placeholder <- SomePlaceholders
    MaxDepth = 4
    None = None
INVARIANTS
    Inductive
    ErrorMeansUnchanged
    ServedAsAdvertised
    TokenAsListed
\* Both requests have been told and nothing is left on the network.
CHECK_DEADLOCK FALSE
