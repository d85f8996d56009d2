SPECIFICATION FairSpec
CONSTANTS
    d1 = d1  d2 = d2  k1 = k1  k2 = k2  x1 = x1  x2 = x2
    Drives = {d1, d2}
    Cancels = {k1, k2}
    Executions = {x1, x2}
    NoExecution = NoExecution
    Unanswered = {}
INVARIANTS
    TypeOK RunningTracked CancelledAtRest SignalHeard
PROPERTIES
    CancelEnds
CHECK_DEADLOCK FALSE
