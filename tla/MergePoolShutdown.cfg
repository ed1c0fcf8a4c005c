CONSTANTS
    Workers = {w1, w2}
    Tasks = {k1}
    Failing = {}
    CanShutdown = TRUE
    None = None
SPECIFICATION FairSpec
PROPERTIES DestructorReturns
CHECK_DEADLOCK FALSE
