\* Two swaps, no fault but a crash: one whose lockup is confirmed, one that
\* Boltz never locked anything for.
SPECIFICATION FairSpec
CONSTANTS
    Swaps = {s1, s2}
    NoSwap = NoSwap
    Instant = {}
    Faults = {}
    MaxCrashes = 1
    MaxStops = 0
PROPERTIES
    LockedUpSwapIsFound
CHECK_DEADLOCK FALSE
