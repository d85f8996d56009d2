SPECIFICATION Spec
CONSTANTS
    a1 = a1  a2 = a2  u1 = u1  u2 = u2  k1 = k1  k2 = k2  k3 = k3
    Callers = {u1, u2}
    Ids = {a1, a2}
    Volatile = {a1, a2}
    Configs = {k1, k2, k3}
    Trusted = {k1, k2}
    Operations <- MCSweeping
    TTL = 9
    Capacity = 1
    Tries = 1
    MaxClock = 0
    MaxAuthority = 2
    MaxRollbacks = 0
    MaxCrashes = 0
    MaxUnknowns = 0
INVARIANTS
    TypeOK SweepComplete
PROPERTIES
    KeepsPromise
CHECK_DEADLOCK FALSE
SYMMETRY MCSymmetry
