\* One swap that waits for a confirmation, every kind of fault, two crashes
\* and two deactivations, so that the startup check runs beside the tasks of
\* a request that outlived it.  The system may stop: see reverse_pair.cfg.
SPECIFICATION FairSpec
CONSTANTS
    Swaps = {s1}
    NoSwap = NoSwap
    Instant = {}
    Faults = {"read", "api", "notfound", "claim", "write", "held"}
    MaxCrashes = 2
    MaxStops = 2
INVARIANTS
    PendingIsWatched
PROPERTIES
    SettledIsFinal
    BounceIsRecorded
    LockedUpSwapIsFound
CHECK_DEADLOCK FALSE
