SPECIFICATION Spec
CONSTANTS
    a1 = a1  a2 = a2  q = q  c1 = c1  c2 = c2  d1 = d1  k1 = k1  p1 = p1
    h1 = h1  h2 = h2  u1 = u1  u2 = u2
    NoKey = NoKey  NoReceipt = NoReceipt  NoCommand = NoCommand  NoClient = NoClient
    AnyVersion = AnyVersion
    Aggregates <- MCAggregates
    Requests = {}
    EventIds = {1, 2, 3, 4, 5, 6}
    Keys = {k1}
    Payloads = {p1}
    Commands <- MCCommands
    Digests = {d1}
    Batches <- MCBatches
    Events = {}
    Handles = {h1, h2}
    Clients = {u1, u2}
    HandleOf <- MCTwoHandles
    Limits = {1}
    Kinds = {"commit", "page"}
    InitialFiles <- MCUpgraded
    MaxEvents = 4
    MaxBatch = 2
    MaxPage = 2
    MaxVersion = 4
    MaxWorkers = 1
    MaxLog = 9
    MaxCrashes = 0
    MaxTears = 1
    MaxFaults = 1
    FaultKinds = {"newline"}
INVARIANTS
    AckedSurvives
CHECK_DEADLOCK FALSE
