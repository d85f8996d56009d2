SPECIFICATION Spec
CONSTANTS
    c1 = c1  c2 = c2  r1 = r1  x1 = x1  x2 = x2
    Callers = {c1, c2}
    Requests = {r1}
    Gated = {r1}
    Executions = {x1, x2}
    NoExecution = NoExecution
    MaxFacts = 3
    MaxPrompts = 1
    MaxRevisions = 1
    MaxChanges = 1
    MaxCrashes = 0
    MaxUnknowns = 1
INVARIANTS
    ApprovalSpent
PROPERTIES
    StartsPermitted
    ReleasedAtRest
CHECK_DEADLOCK FALSE
SYMMETRY MCSymmetry
