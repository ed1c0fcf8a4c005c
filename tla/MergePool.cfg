CONSTANTS
    Workers = {w1, w2}
    Tasks = {k1, k2, k3}
    Failing = {k3}
    CanShutdown = TRUE
    None = None
SPECIFICATION FairSpec
INVARIANTS OnePlace NoPopFromEmpty
PROPERTIES ImplementsService EverySubmitFulfilled
CHECK_DEADLOCK FALSE
