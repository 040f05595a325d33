\* Liveness: one Java crash, one worker, one symbolizer.
CONSTANTS
    e1 = e1
    e2 = e2
    w1 = w1
    w2 = w2
    s1 = s1
    s2 = s2
    a1 = a1
    a2 = a2
    Event = {e1}
    Kind <- MCKindJava
    Incident = {}
    Needs <- MCNeedsJava
    Artifact = {a1}
    Worker = {w1}
    Symbolizer = {s1}
    Token = {1, 2, 3}
    NoOwner = 0
    NoJobHeld = NoJobHeld
    WorkerBatchSize = 1
    WorkerMaxAttempts = 2
    AttemptCap = 3
    SymbolizerMaxAttempts = 2
    Unmappable = {}
SPECIFICATION FairSpec
PROPERTIES EventuallyFinal
