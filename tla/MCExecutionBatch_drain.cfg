SPECIFICATION Spec
CONSTANTS
    Jobs = {1, 2}
    PayloadSize <- MCPayloadSize
    Workers = {w1}
    MaxMessages = 2
    MaxBytes = 2
    MaxWait = 1
    MaxAttempts = 1
    ReserveFor = 6
    FinalTimeout = 1
    FinalMargin = 1
    DlqAllowance = 0
    RetryBase = 1
    RetryMaximum = 2
    Delays = {0}
    TopOutcomes = {"result", "permanent"}
    ItemOutcomes = {"ok"}
    HostEvents = {"cancel", "drain"}
    MaxTime = 6
    MaxToken = 1
    MaxOrphans = 0
INVARIANTS
    BatchBounded

    
