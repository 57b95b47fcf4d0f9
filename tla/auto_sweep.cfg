\* Two create requests, two payments that come in and one the user makes, one
\* crash or deactivation.  A payment of 6 is exactly worth a sweep, one of 3
\* only with another; both together are above Boltz's limit.  The system may
\* stop: when nothing is paid in any more there is nothing to sweep.
SPECIFICATION FairSpec
CONSTANTS
    Autos = {a1, a2}
    NoAuto = NoAuto
    Swaps = {s1, s2}
    NoSwap = NoSwap
    Keep = 2
    Amount = 3
    Minimal = 3
    Maximal = 5
    MinReserve = 1
    ReservePercent = 20
    Payments = {3, 6}
    MaxReceived = 2
    MaxSpent = 1
    MaxRestarts = 1
INVARIANTS
    TypeOK
    SweepKeepsBalance
    CountIsSweeps
PROPERTIES
    NoticedSurplusIsSwept
CHECK_DEADLOCK FALSE
