\* Edits end with a valid config.
CONSTANTS
    r1 = r1
    r2 = r2
    BootKinds = {"ok", "rejected", "missing"}
    Kinds = {"ok", "rejected", "missing"}
    Requests = {r1}
    SameStamp = FALSE
    StartupEdits = FALSE
    BufferLines = 1
    MaxEdits = 2
    MaxGens = 3
SPECIFICATION FairSpec
PROPERTIES ConfigPickedUp LinesFlushed SignalEndsProcess
CHECK_DEADLOCK FALSE
