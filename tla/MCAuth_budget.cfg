\* Three requests, one hash thread, one attempt per two ticks; the key expires during the run; fair.
CONSTANTS
    r1 = r1
    r2 = r2
    r3 = r3
    k1 = k1
    NoKey = NoKey
    Request = {r1, r2, r3}
    Key = {k1}
    KeyOf <- MCKeyOf
    Honest = {r1, r2}
    Plane <- MCPlane
    Scoped = {r1}
    Expiry <- MCExpiry
    Burst = 1
    Cost = 2
    Workers = 1
    MaxTime = 3
SPECIFICATION FairAuthSpec
INVARIANTS AttemptsBounded SlotsAccounted GrantsAreCurrent
PROPERTIES RequestsEnd
CHECK_DEADLOCK FALSE
