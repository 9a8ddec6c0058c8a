\* Two registrations, two Runs and a drain, with fair goroutines.
CONSTANTS
    r1 = r1  r2 = r2  w1 = w1  w2 = w2  d1 = d1  g1 = g1  g2 = g2
    c1 = c1  c2 = c2  None = None
    Runs = {r1, r2}
    Workers = {w1}
    Drainers = {d1}
    Registrars = {g1, g2}
    Caps = {c1, c2}
    RegBatch = {g2}
    RegCaps <- MCRegCaps
SPECIFICATION LiveSpec
INVARIANTS ReadyMeansStarted SnapshotCurrent
PROPERTIES DrainReturns RunEnds
CHECK_DEADLOCK FALSE
