\* One instant swap, no fault but a crash.
SPECIFICATION Spec
CONSTANTS
    Swaps = {s1}
    NoSwap = NoSwap
    Instant = {s1}
    Faults = {}
    MaxCrashes = 1
    MaxStops = 0
INVARIANTS
    CompleteMeansClaimed
CHECK_DEADLOCK FALSE
