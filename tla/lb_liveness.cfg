\* Requests end and probes converge under fair scheduling.
CONSTANTS
    r1 = r1
    r2 = r2
    r3 = r3
    Cooldown = 1
    BreakerThreshold = 1
    BreakerCooldown = 1
    maxBreakerCooldownShift = 1
    MaxDuration = 7
    N = 2
    Good = {0}
    Requests = {r1, r2}
    MaxAttempts = 2
    RetryUnsafe = FALSE
    HealthCheck = TRUE
    ClientFaults = TRUE
    MaxRequests = 2
    MaxTime = 1
SPECIFICATION FairSpec
PROPERTIES EveryRequestAnswered ProbeConverges
