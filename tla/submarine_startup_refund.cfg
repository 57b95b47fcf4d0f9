\* One swap, no fault but a crash.
SPECIFICATION FairSpec
CONSTANTS
    Swaps = {s1}
    NoSwap = NoSwap
    Requests = {r1}
    Faults = {}
    MaxCrashes = 1
    MaxStops = 0
    MaxOthers = 0
PROPERTIES
    UnderpaidSwapIsRefunded
CHECK_DEADLOCK FALSE
