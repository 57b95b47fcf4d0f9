\* Two instant swaps, every kind of fault, one deactivation of the extension:
\* the startup check then runs beside the tasks that outlived it.  A swap that
\* waits for a confirmation, and crashes, are in reverse_live.cfg.  The system
\* may stop: with every swap settled and the bounds used up nothing is left
\* to do.
SPECIFICATION Spec
CONSTANTS
    Swaps = {s1, s2}
    NoSwap = NoSwap
    Instant = {s1, s2}
    Faults = {"read", "api", "notfound", "claim", "write", "held"}
    MaxCrashes = 0
    MaxStops = 1
SYMMETRY Symmetry
INVARIANTS
    TypeOK
    PreimageKept
    NoStalePoller
    PendingIsWatched
    CompleteMeansReceived
PROPERTIES
    SettledIsFinal
    RowsAreJustified
CHECK_DEADLOCK FALSE
