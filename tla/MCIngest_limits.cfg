\* Batches of new events that fit neither the inbox nor the minutes of their keys, and one with an event too large.
CONSTANTS
    r1 = r1
    r2 = r2
    r3 = r3
    e1 = e1
    e2 = e2
    e3 = e3
    c1 = c1
    c2 = c2
    c3 = c3
    k1 = k1
    k2 = k2
    Event = {e1, e2, e3}
    Kind <- MCKindNew
    Incident = {}
    Token = {1}
    NoOwner = 0
    Request = {r1, r2, r3}
    Batch <- MCBatchNew
    Key <- MCKeyNew
    RequestsPerMinute = 1
    EventsPerMinute = 2
    Content = {c1, c2, c3}
    Size <- MCSize
    NoContent = NoContent
    TooLarge = {c3}
    MaxLiveEvents = 2
    MaxRawBytes = 3
    WindowKept = 0
    LastMinute = 1
SPECIFICATION RequestSpec
INVARIANTS LiveWithinCapacity QuotaRespected
