\* One swap, no fault but an auto sweep that raises.
SPECIFICATION FairSpec
CONSTANTS
    Swaps = {s1}
    NoSwap = NoSwap
    Requests = {r1}
    Faults = {"auto"}
    MaxCrashes = 0
    MaxStops = 0
    MaxOthers = 0
PROPERTIES
    EveryPaidSwapCompletes
CHECK_DEADLOCK FALSE
