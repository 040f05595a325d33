\* A Native crash that needs two artifacts and an unmappable crash without identity; one worker, one symbolizer.
CONSTANTS
    e1 = e1
    e2 = e2
    w1 = w1
    w2 = w2
    s1 = s1
    s2 = s2
    a1 = a1
    a2 = a2
    Event = {e1, e2}
    Kind <- MCKindNative
    Incident = {e2}
    Needs <- MCNeedsNative
    Artifact = {a1, a2}
    Worker = {w1}
    Symbolizer = {s1}
    Token = {1, 2, 3, 4}
    NoOwner = 0
    NoJobHeld = NoJobHeld
    WorkerBatchSize = 2
    WorkerMaxAttempts = 1
    AttemptCap = 2
    SymbolizerMaxAttempts = 2
    Unmappable = {e2}
SPECIFICATION Spec
SYMMETRY MCSymmetry
INVARIANTS ExportAfterSymbols
