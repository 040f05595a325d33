\* One Java crash, two export workers, two symbolizers.
CONSTANTS
    e1 = e1
    e2 = e2
    w1 = w1
    w2 = w2
    s1 = s1
    s2 = s2
    a1 = a1
    a2 = a2
    Event = {e1}
    Kind <- MCKindJava
    Incident = {e1}
    Needs <- MCNeedsJava
    Artifact = {a1}
    Worker = {w1, w2}
    Symbolizer = {s1, s2}
    Token = {1, 2, 3, 4}
    NoOwner = 0
    NoJobHeld = NoJobHeld
    WorkerBatchSize = 1
    WorkerMaxAttempts = 2
    AttemptCap = 3
    SymbolizerMaxAttempts = 2
    Unmappable = {}
SPECIFICATION Spec
SYMMETRY MCSymmetry
INVARIANTS ParkedIffUnfinished ToolBudget FingerprintFollowsResult PrunedEvidenceStaysGone
PROPERTIES FinalIsFinal ClaimEndsWithHolder
