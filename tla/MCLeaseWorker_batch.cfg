SPECIFICATION Spec
SYMMETRY MCSymmetry
CONSTANTS
    Jobs = {j1, j2}
    Workers = {1}
    Services = {1}
    ServiceOf <- MCServiceOf
    Offset <- MCNoOffset
    MaxOffset = 1
    Capabilities = {c1}
    CapOf <- MCCapOf
    MaxAttempts <- MCMaxAttempts
    BatchSize = 2
    ReserveFor = 6
    FinalTimeout = 1
    FinalMargin = 2
    Delays = {0}
    Outcomes = {"ok", "defer", "retry", "policyerr", "goexit"}
    HostEvents = {"cancel", "drain"}
    MaxTime = 6
    MaxToken = 1
    MaxOrphans = 0
    NoJob = NoJob
INVARIANTS
    TypeOK
    StartsCounted
    TailProtected
    EarliestIsLowerBound
    DrainBoundary
    LeaseBounded
 
