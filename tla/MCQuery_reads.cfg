\* Four rows listed page by page while they are committed and symbolized; one row read while it is pruned.
CONSTANTS
    e1 = e1
    e2 = e2
    e3 = e3
    e4 = e4
    q1 = q1
    q2 = q2
    q3 = q3
    q4 = q4
    r1 = r1
    r2 = r2
    c1 = c1
    c2 = c2
    t1 = t1
    t2 = t2
    Event = {e1, e2, e3, e4}
    Time <- MCTime
    Id <- MCId
    Raw <- MCRaw
    Canonical <- MCCanonical
    Fingerprint = {r1, r2, c1, c2}
    NoFingerprint = NoFingerprint
    Absent = Absent
    Query = {q1, q2, q3, q4}
    Terms <- MCTerms
    InWindow <- MCInWindow
    InFilter <- MCInFilter
    Asks <- MCAsks
    NoCursor = NoCursor
    MaxLimit = 2
    g1 = g1
    g2 = g2
    g3 = g3
    x1 = x1
    d1 = d1
    d2 = d2
    Row = {x1}
    Reader = {g1, g2, g3}
    Target <- MCTarget
    Purpose <- MCPurpose
    Foreign = {g3}
    Decider = {d1, d2}
SPECIFICATION QuerySpec
SYMMETRY MCSymmetry
INVARIANTS NoEventTwice NoneSkipped OneIssue AuditTellsAnswer EvidenceInv
CHECK_DEADLOCK FALSE
