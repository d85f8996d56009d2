SPECIFICATION Spec
CONSTANTS
    w1 = w1  w2 = w2  w3 = w3  a = a  b = b
    Ids = {1, 2}
    Protected = {2}
    Deadline <- MCDeadline
    Workers = {w1, w2, w3}
    WorkerId <- MCWorkerId
    NoLease = NoLease
    TTL = 1
    Capacity = 1
    MaxClock = 2
    MaxSheds = 1
    MaxDrains = 1
    MaxFaults = 1
    MaxCrashes = 1
INVARIANTS
    TypeOK ReplayAgrees PromisesKept OneSender
CHECK_DEADLOCK FALSE
SYMMETRY MCSymmetry
