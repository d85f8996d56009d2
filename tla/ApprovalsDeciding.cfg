SPECIFICATION Spec
CONSTANTS
    a1 = a1  a2 = a2  u1 = u1  u2 = u2  k1 = k1  k2 = k2  k3 = k3
    Callers = {u1, u2}
    Ids = {a1}
    Volatile = {a1}
    Configs = {k1}
    Trusted = {k1}
    Operations <- MCDeciding
    TTL = 2
    Capacity = 1
    Tries = 2
    MaxClock = 3
    MaxAuthority = 1
    MaxRollbacks = 0
    MaxCrashes = 1
    MaxUnknowns = 1
INVARIANTS
    HistoriesFold DecisionsStand MaterialKept
PROPERTIES
    NothingAfterCancel
CHECK_DEADLOCK FALSE
SYMMETRY MCSymmetry
