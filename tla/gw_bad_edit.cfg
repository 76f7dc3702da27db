\* Edits that Parse accepts but that make the build or a prober panic.
CONSTANTS
    r1 = r1
    r2 = r2
    BootKinds = {"ok"}
    Kinds = {"ok", "conflict", "badtick"}
    Requests = {r1}
    SameStamp = FALSE
    StartupEdits = FALSE
    BufferLines = 2
    MaxEdits = 2
    MaxGens = 3
SPECIFICATION Spec
INVARIANTS WatcherSurvives
CHECK_DEADLOCK FALSE
