SPECIFICATION Spec
CONSTANTS
    Jobs = {1, 2}
    PayloadSize <- MCPayloadSize
    Procs = {p1, p2}
    Backends = {"picodata"}
    Limit = 2
    MaxBytes = 2
    ReserveFor = 2
    BatchKinds = {"retry", "dlq"}
    Delay = 1
    Ticks = 2
    MaxTime = 4
    MaxToken = 2
SYMMETRY ProcSymmetry

PROPERTIES ClaimsReadyRows
CHECK_DEADLOCK FALSE
