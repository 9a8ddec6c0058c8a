SPECIFICATION Spec
CONSTANTS
    Procs = {p1, p2}
    Databases = {"pgsql", "mysql", "sqlite"}
    PlainKeys = {k1, k2}
    Contents = {c1, c2}
    Events = {e1}
    k1 = k1
    c0 = c0
    t1 = t1
    t2 = t2
    Snapshots <- MCSnapshots
    RequestKeys = {r1, r2}
    BusinessKeys = {b1, b2}
    Past <- MCPast
    Uses <- MCUses
    None = None
SYMMETRY MCSymmetry
INVARIANTS ActiveKeysKept OneActiveReplay SourceKept
PROPERTIES OneJobPerKey AnswersStable FanoutComplete ReplayedOnce
CHECK_DEADLOCK FALSE
