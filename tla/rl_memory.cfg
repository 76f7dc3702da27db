\* Fractional rate and burst, two clients, idle long enough to be swept.
CONSTANTS
    k1 = k1
    k2 = k2
    r1 = r1
    r2 = r2
    Keys = {k1, k2}
    Requests = {r1, r2}
    Scale = 3
    Rate = 2
    BurstOption = 4
    staleAfter = 4
    sweepEvery = 2
    MaxLag = 1
    MaxCalls = 6
    MaxTime = 7
SPECIFICATION MapSpec
SYMMETRY Symmetry
INVARIANTS TypeOK RateBound MapBounded
PROPERTIES ImplementsTokenBucket SlowClientAdmitted
CHECK_DEADLOCK FALSE
