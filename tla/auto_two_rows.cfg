\* Two create requests and nothing else.
SPECIFICATION Spec
CONSTANTS
    Autos = {a1, a2}
    NoAuto = NoAuto
    Swaps = {s1}
    NoSwap = NoSwap
    Keep = 0
    Amount = 3
    Minimal = 3
    Maximal = 5
    MinReserve = 1
    ReservePercent = 0
    Payments = {3}
    MaxReceived = 1
    MaxSpent = 0
    MaxRestarts = 0
INVARIANTS
    OneAutoPerWallet
CHECK_DEADLOCK FALSE
