SPECIFICATION Spec
SYMMETRY MCSymmetry
CONSTANTS
    Jobs = {1, 2}
    PayloadSize <- MCSmallPayload
    Workers = {w1, w2}
    MaxMessages = 1
    MaxBytes = 2
    MaxWait = 1
    MaxAttempts = 1
    ReserveFor = 2
    FinalTimeout = 1
    FinalMargin = 1
    DlqAllowance = 0
    RetryBase = 1
    RetryMaximum = 2
    Delays = {1, 2}
    TopOutcomes = {"result", "defer", "fail", "panic", "goexit"}
    ItemOutcomes = {"retry", "defer", "policyerr"}
    HostEvents = {"cancel"}
    MaxTime = 2
    MaxToken = 2
    MaxOrphans = 0
PROPERTIES
    PauseKept
