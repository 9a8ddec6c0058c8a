SPECIFICATION Spec
CONSTANTS
    Jobs = {1, 2}
    PayloadSize <- MCSmallPayload
    Workers = {w1}
    MaxMessages = 2
    MaxBytes = 2
    MaxWait = 1
    MaxAttempts = 1
    ReserveFor = 2
    FinalTimeout = 1
    FinalMargin = 1
    DlqAllowance = 0
    RetryBase = 1
    RetryMaximum = 2
    Delays = {0}
    TopOutcomes = {"result"}
    ItemOutcomes = {"ok", "fail"}
    HostEvents = {"cancel", "crash"}
    MaxTime = 3
    MaxToken = 2
    MaxOrphans = 1
INVARIANTS
    LedgerSound
    StartsCounted
    AllOrNothing
    RemovalJustified
