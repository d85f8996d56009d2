SPECIFICATION Spec
CONSTANTS
    c1 = c1  c2 = c2  c3 = c3
    steer = steer  note = note
    Tasks = {c1, c2}
    Inputs = {steer, note}
    Target <- MCTarget
    MailboxCapacity = 2
    MaxSteps = 2
    MaxCalls = 2
    Unanswered = {}
    MaxTurns = 2
    MaxCancels = 1
    MaxRestarts = 1
SYMMETRY MCSymmetry
INVARIANTS TypeOK  InputsServed 
PROPERTIES CancelledMute
CHECK_DEADLOCK FALSE
