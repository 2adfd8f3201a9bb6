CONSTANTS
    Procs = {p1, p2}
    Sources <- SourceURLs
    Targets <- TargetURLs
    Secrets <- AllSecrets
    Held <- Environment
    Environs <- AllButOne
    HandWritten <- ByHand
    Truncated = Truncated
    NONE = NONE
    s3cret = s3cret
    hunter2 = hunter2
    dbpass = dbpass
    keyfile = keyfile
    webhook = webhook
SPECIFICATION Spec
SYMMETRY Symmetric
CHECK_DEADLOCK FALSE
INVARIANTS
    TypeOK
    NoSecretOnDisk
    RoundTrip
    RunnableUnlessNameless
