CONSTANTS
    Callers = {a, b}
    Prefetchers = {p}
    NumColumns = 2
    ZoneMapped = {0}
    Filtered = {1}
    MaxCalls = 2
    MetadataAlone = TRUE
    PrefetchAwaited = TRUE
    None = None
SPECIFICATION FairSpec
INVARIANTS OwnBytes OneObject
PROPERTIES EveryCallReturns
CHECK_DEADLOCK FALSE
