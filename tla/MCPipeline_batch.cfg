\* Two plain events in batches of two, both exportable, two export workers.
CONSTANTS
    e1 = e1
    e2 = e2
    w1 = w1
    w2 = w2
    s1 = s1
    s2 = s2
    a1 = a1
    a2 = a2
    Event = {e1, e2}
    Kind <- MCKindPlain
    Incident = {}
    Needs <- MCNeedsPlain
    Artifact = {}
    Worker = {w1, w2}
    Symbolizer = {}
    Token = {1, 2, 3, 4, 5}
    NoOwner = 0
    NoJobHeld = NoJobHeld
    WorkerBatchSize = 2
    WorkerMaxAttempts = 2
    AttemptCap = 3
    SymbolizerMaxAttempts = 1
    Unmappable = {}
SPECIFICATION Spec
SYMMETRY MCSymmetry
INVARIANTS DeliveredWasCollected RetryBudgetLeft
PROPERTIES ImplementsDelivery
