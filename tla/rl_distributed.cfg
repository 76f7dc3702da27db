\* Two gateways, two requests in flight, a fractional burst, every failure.
CONSTANTS
    g1 = g1
    g2 = g2
    k1 = k1
    k2 = k2
    r1 = r1
    r2 = r2
    Gateways = {g1, g2}
    Requests = {r1, r2}
    Keys = {k1, k2}
    Scale = 2
    Burst = 5
    Second = 2
    Faults = {"setup", "incr", "expire", "crash"}
    MaxCount = 4
SPECIFICATION FairSpec
INVARIANTS TypeOK WindowBound
PROPERTIES BlockEnds OnlyFailuresOrphan
