\* One payment comes in; while it is swept the user makes another.
SPECIFICATION Spec
CONSTANTS
    Autos = {a1}
    NoAuto = NoAuto
    Swaps = {s1}
    NoSwap = NoSwap
    Keep = 5
    Amount = 3
    Minimal = 3
    Maximal = 5
    MinReserve = 1
    ReservePercent = 0
    Payments = {3, 10}
    MaxReceived = 1
    MaxSpent = 1
    MaxRestarts = 0
PROPERTIES
    EverySweepKeepsBalance
CHECK_DEADLOCK FALSE
