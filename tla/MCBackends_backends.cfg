SPECIFICATION Spec
CONSTANTS
    Jobs = {1, 2}
    PayloadSize <- MCPayloadSize
    Procs = {p1, p2}
    Backends = {"mysql", "sqlite", "picodata"}
    Limit = 2
    MaxBytes = 2
    ReserveFor = 2
    BatchKinds = {"retry", "dlq"}
    Delay = 1
    Ticks = 2
    MaxTime = 4
    MaxToken = 2
SYMMETRY ProcSymmetry
INVARIANTS HeldIsLeased NoJobLost WriterInCall
PROPERTIES  OutcomesWhole
CHECK_DEADLOCK FALSE
