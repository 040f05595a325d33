\* Runs that create one tenant; two logins on two replicas; three publications.
CONSTANTS
    c1 = c1
    c2 = c2
    c3 = c3
    c4 = c4
    c5 = c5
    t1 = t1
    t2 = t2
    n1 = n1
    n2 = n2
    Run = {c1, c2, c3, c4, c5}
    Table <- MCTable
    Tenant = {t1, t2}
    TenantOf <- MCTenantOf
    Name <- MCName
    Malformed = {c4}
    NoTenant = NoTenant
    l1 = l1
    l2 = l2
    k1 = k1
    k2 = k2
    h1 = h1
    h2 = h2
    Login = {l1, l2}
    Key = {k1, k2}
    KeyOf <- MCKeyOf
    Expiry <- MCExpiry
    Host = {h1, h2}
    Offset <- MCOffset
    TicksPerSecond = 2
    Ttl = 2
    Skew = 1
    NoToken = NoToken
    MaxTime = 6
    p1 = p1
    p2 = p2
    p3 = p3
    i1 = i1
    i2 = i2
    Publication = {p1, p2, p3}
    Lifetime <- MCLifetime
    Rollout <- MCRollout
    Denominator = 2
    Installation = {i2}
    Bucket <- MCBucket
    NoConfig = NoConfig
    LastTick = 3
SPECIFICATION OperatorSpec
INVARIANTS KeyInv SessionInv SessionWithinKey RevocationIsImmediate CookiesMatch ConfigInv
PROPERTIES NeverOlderUnlessExpired
CHECK_DEADLOCK FALSE
