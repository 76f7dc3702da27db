\* A healthy origin whose clients cancel.
CONSTANTS
    r1 = r1
    r2 = r2
    r3 = r3
    Cooldown = 1
    BreakerThreshold = 2
    BreakerCooldown = 1
    maxBreakerCooldownShift = 1
    MaxDuration = 7
    N = 2
    Good = {1}
    Requests = {r1, r2}
    MaxAttempts = 2
    RetryUnsafe = FALSE
    HealthCheck = FALSE
    ClientFaults = TRUE
    MaxRequests = 4
    MaxTime = 3
SPECIFICATION Spec
SYMMETRY SlotSymmetry
INVARIANTS HealthyOriginAvailable
