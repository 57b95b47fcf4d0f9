\* Two swaps and one refund request at a time, every kind of fault, one
\* deactivation of the extension: the startup check then runs beside refund
\* requests that outlived it.  Crashes are in submarine_live.cfg.  The system
\* may stop: with every swap settled and the bounds used up nothing is left
\* to do.
SPECIFICATION Spec
CONSTANTS
    Swaps = {s1, s2}
    NoSwap = NoSwap
    Requests = {r1}
    Faults = {"read", "status", "api", "notfound", "answer", "write", "auto",
              "lost"}
    MaxCrashes = 0
    MaxStops = 1
    MaxOthers = 0
SYMMETRY Symmetry
INVARIANTS
    TypeOK
    NoPaymentForgotten
PROPERTIES
    SettledIsFinal
    RowsAreJustified
CHECK_DEADLOCK FALSE
