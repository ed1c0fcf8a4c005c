CONSTANTS
    t1 = t1
    t2 = t2
    Rows = {1, 2}
    Data = {d1}
    NoData = NoData
    Threads <- MCThreads
    RowsOf <- MCDisjoint
    NumColumns = 3
    Widths = {2, 3}
    Stamps = {0}
    MaxTimestamp = 4
    MaxInserts = 3
SPECIFICATION Spec
INVARIANTS TypeOK RowWhole VersionsDescend ReadYourWrites
CHECK_DEADLOCK FALSE
