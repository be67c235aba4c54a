SPECIFICATION Spec
CONSTANTS
    Letters = {"a", "b"}
    Families = {"cluster", "access"}
    Requests = {r1, r2}
    Connections = {c1, c2}
    Starts <- SomeStarts
    Certificates <- SomeCertificates
    InputsOf <- InputsByStart
    NoTls = NoTls
    None = None
SYMMETRY ConnectionsAlike
INVARIANTS
    Inductive
    AttributedToItsClient
    SendsWhatIsDeclared
    ExportsRedacted
\* The process has stopped, or every request has been dealt with.
CHECK_DEADLOCK FALSE
