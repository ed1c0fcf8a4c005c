CONSTANTS
    ColumnSizes = {2, 3}
    ZoneSize = 2
    BloomSize = 3
    FixedHeader = 2
    MetaSize = 1
    OffsetModulus = 16
    MaxColumns = 3
SPECIFICATION WriterSpec
INVARIANTS PartsReadBack HeaderOverwritesNothing
CHECK_DEADLOCK FALSE
