\* Close after a reload.
CONSTANTS
    r1 = r1
    r2 = r2
    BootKinds = {"ok"}
    Kinds = {"ok"}
    Requests = {r1}
    SameStamp = FALSE
    StartupEdits = FALSE
    BufferLines = 2
    MaxEdits = 2
    MaxGens = 3
SPECIFICATION Spec
INVARIANTS NoLineLost
CHECK_DEADLOCK FALSE
