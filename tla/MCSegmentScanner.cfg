CONSTANTS
    Modulus32 = 4
    Modulus64 = 8
    Hash1 <- MCHash1
    Hash2 <- MCHash2
    NumColumns = 2
    NumRows = 4
    ColumnType <- BothInt64
    ColumnValues <- SmallValues
    Programs <- Conjunctions
    Rescans <- Again
    MaxScans = 2
    AggColumns <- BothColumns
    Misread = {0}
    BlockSize = 3
    MaxRun = 2
    ZoneColumns = {0}
    ZoneRows = 3
    BloomColumns = {0, 1}
    BloomBits = 7
    BloomHashes = 2
SPECIFICATION AggSpec
INVARIANTS DeliversTheMatches StatsAddUp AggregatesMatch
CHECK_DEADLOCK FALSE
