\* Two renewals, each with the same key or a new one, written file by file.
CONSTANTS
    StartupRenewals = FALSE
    MaxRenewals = 3
SPECIFICATION FairSpec
INVARIANTS ServesMatchingPair NothingMissed
PROPERTIES ImplementsHotReload RenewalServed
CHECK_DEADLOCK FALSE
