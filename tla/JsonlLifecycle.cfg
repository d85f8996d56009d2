SPECIFICATION FairSpec
CONSTANTS
    a1 = a1  a2 = a2  q = q  c1 = c1  c2 = c2  d1 = d1  k1 = k1  p1 = p1
    h1 = h1  h2 = h2  u1 = u1  u2 = u2
    NoKey = NoKey  NoReceipt = NoReceipt  NoCommand = NoCommand  NoClient = NoClient
    AnyVersion = AnyVersion
    Aggregates <- MCAggregates
    Requests = {q}
    EventIds = {1, 2, 3, 4, 5, 6}
    Keys = {k1}
    Payloads = {p1}
    Commands <- MCCommands
    Digests = {d1}
    Batches <- MCWide
    Events <- MCEvents
    Handles = {h1}
    Clients = {u1, u2}
    HandleOf <- MCOneHandle
    Limits = {1}
    Kinds = {"commit", "command", "append", "idempotent", "close"}
    InitialFiles <- MCNoFile
    MaxEvents = 4
    MaxBatch = 2
    MaxPage = 2
    MaxVersion = 4
    MaxWorkers = 2
    MaxLog = 6
    MaxCrashes = 1
    MaxTears = 1
    MaxFaults = 0
    FaultKinds = {"mend", "barrier"}
INVARIANTS
    TypeOK WithinCapacity
PROPERTIES
    Finishes
CHECK_DEADLOCK FALSE
