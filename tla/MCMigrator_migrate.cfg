SPECIFICATION Spec
CONSTANTS
    Procs = {p1, p2}
    Files <- MCFiles
    Steps = {1, 2}
    Attempts = 5
    None = "none"
INVARIANT RecordedComplete
PROPERTIES UpCompletes ResetDrops Terminates
CHECK_DEADLOCK FALSE
