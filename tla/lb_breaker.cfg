\* One unreliable origin, requests overlapping: trips, escalations past the cap, half-open windows.
CONSTANTS
    r1 = r1
    r2 = r2
    r3 = r3
    Cooldown = 1
    BreakerThreshold = 1
    BreakerCooldown = 1
    maxBreakerCooldownShift = 1
    MaxDuration = 7
    N = 1
    Good = {}
    Requests = {r1, r2}
    MaxAttempts = 1
    RetryUnsafe = TRUE
    HealthCheck = FALSE
    ClientFaults = TRUE
    MaxRequests = 4
    MaxTime = 3
SPECIFICATION Spec
SYMMETRY SlotSymmetry
INVARIANTS HalfOpenConsistent FailureDateConsistent
PROPERTIES FreshFailureBlocks NoAdmissionWhileOpen
