\* Three events of eleven kinds, delivered and pruned, over one key rotation.
CONSTANTS
    i1 = i1
    i2 = i2
    e1 = e1
    e2 = e2
    e3 = e3
    e4 = e4
    Event = {e1, e2, e3}
    Legacy = {}
    Report <- HealthReports
    Canonical = {9}
    MaxVersion = 2
    NoInstallation = NoInstallation
    Release = {1, 2}
    From = 0
    To = 5
    Minute = 2
    MaxBuckets = 2
    LateAfter = 3
    MaxRows = 3
    RatioOne = 2
    MaxFutureSkew = 1
    MinInstallations = 2
    MinHealthCoverage = 100
    Limit = 1
    TopLabels = 2
SPECIFICATION FactSpec
SYMMETRY AllButLegacy
INVARIANTS RatioIsEarned ReleaseInv
CHECK_DEADLOCK FALSE
