\* One Run and one drain: the order of readiness and the drain signal.
CONSTANTS
    r1 = r1  r2 = r2  w1 = w1  w2 = w2  d1 = d1  g1 = g1  g2 = g2
    c1 = c1  c2 = c2  None = None
    Runs = {r1}
    Workers = {w1, w2}
    Drainers = {d1}
    Registrars = {g1}
    Caps = {c1}
    RegBatch = {}
    RegCaps <- MCOneReg
SPECIFICATION Spec
PROPERTIES UnavailableBeforeClosed
CHECK_DEADLOCK FALSE
