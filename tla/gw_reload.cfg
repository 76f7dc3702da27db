\* Every kind of edit at any time, two requests, Close.
CONSTANTS
    r1 = r1
    r2 = r2
    BootKinds = {"ok", "rejected", "missing", "conflict", "badtick"}
    Kinds = {"ok", "rejected", "missing", "conflict", "badtick"}
    Requests = {r1, r2}
    SameStamp = TRUE
    StartupEdits = TRUE
    BufferLines = 2
    MaxEdits = 2
    MaxGens = 3
SPECIFICATION Spec
SYMMETRY SlotSymmetry
INVARIANTS CoherentAtRest CloseStopsInstalled InstalledLinesFlushed
PROPERTIES ImplementsHotReload
CHECK_DEADLOCK FALSE
