\* Overlapping and conflicting batches of two keys, under fairness.
CONSTANTS
    r1 = r1
    r2 = r2
    r3 = r3
    e1 = e1
    e2 = e2
    e3 = e3
    c1 = c1
    c2 = c2
    c3 = c3
    k1 = k1
    k2 = k2
    Event = {e1, e2}
    Kind <- MCKindRace
    Incident = {}
    Token = {1}
    NoOwner = 0
    Request = {r1, r2, r3}
    Batch <- MCBatchRace
    Key <- MCKeyRace
    RequestsPerMinute = 2
    EventsPerMinute = 3
    Content = {c1, c2}
    Size <- MCSize
    NoContent = NoContent
    TooLarge = {}
    MaxLiveEvents = 2
    MaxRawBytes = 3
    WindowKept = 0
    LastMinute = 0
SPECIFICATION RequestFairSpec
INVARIANTS AckedIsStored
PROPERTIES ImplementsContract EveryTransactionEnds
