\* One swap, two refund requests at a time and a payment of others, every kind
\* of fault, one crash.  No symmetry: it is not sound for liveness.  The
\* system may stop: see submarine_pair.cfg.
SPECIFICATION FairSpec
CONSTANTS
    Swaps = {s1}
    NoSwap = NoSwap
    Requests = {r1, r2}
    Faults = {"read", "status", "api", "notfound", "answer", "write", "auto",
              "lost"}
    MaxCrashes = 1
    MaxStops = 0
    MaxOthers = 1
INVARIANTS
    NoPaymentForgotten
PROPERTIES
    SettledIsFinal
    PaidSwapCompletes
    StartupCheckEnds
    RefundIsAnswered
CHECK_DEADLOCK FALSE
