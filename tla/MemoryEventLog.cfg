SPECIFICATION Spec
CONSTANTS
    a1 = a1  a2 = a2  q = q  c1 = c1  c2 = c2  c3 = c3
    d1 = d1  d2 = d2  k1 = k1  p1 = p1  p2 = p2
    NoKey = NoKey  NoReceipt = NoReceipt  NoCommand = NoCommand
    AnyVersion = AnyVersion
    Aggregates <- MCAggregates
    Requests <- MCRequests
    EventIds = {1, 2, 3, 4, 5, 6, 7, 8, 9}
    Keys <- MCKeys
    Payloads <- MCPayloads
    Commands <- MCCommands
    Digests <- MCDigests
    Batches <- MCBatches
    Events <- MCEvents
    Readers = {r1}
    MaxEvents = 5
    MaxBatch = 2
    MaxPage = 3
    MaxVersion = 3
INVARIANTS
    TypeOK LogSound CallersServed
PROPERTIES
    ImplementsEventStore
CHECK_DEADLOCK FALSE
