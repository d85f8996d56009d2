SPECIFICATION FairSpec
CONSTANTS
    c1 = c1  c2 = c2  r1 = r1  x1 = x1  x2 = x2
    Callers = {c1, c2}
    Requests = {r1}
    Gated = {}
    Executions = {x1, x2}
    NoExecution = NoExecution
    MaxFacts = 3
    MaxPrompts = 2
    MaxRevisions = 0
    MaxChanges = 0
    MaxCrashes = 0
    MaxUnknowns = 0
PROPERTIES
    Progress
CHECK_DEADLOCK FALSE
