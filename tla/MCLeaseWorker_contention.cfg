SPECIFICATION Spec
SYMMETRY MCSymmetry
CONSTANTS
    Jobs = {j1}
    Workers = {1, 2}
    Services = {1, 2}
    ServiceOf <- MCServiceOf
    Offset <- MCSkewed
    MaxOffset = 1
    Capabilities = {c1}
    CapOf <- MCCapOf
    MaxAttempts <- MCMaxAttempts
    BatchSize = 2
    ReserveFor = 3
    FinalTimeout = 1
    FinalMargin = 0
    Delays = {0}
    Outcomes = {"ok", "permanent", "fail"}
    HostEvents = {"crash"}
    MaxTime = 4
    MaxToken = 2
    MaxOrphans = 1
    NoJob = NoJob
INVARIANTS
    LedgerSound
    HandlerExclusion
    RemovalJustified
    
