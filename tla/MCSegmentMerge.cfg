CONSTANTS
    NativeBits = 3
    WordBits = 6
    MaxRun = 2
    ByteBits = 3
    HalfBase = 3
    Garbage = Garbage
    Rows = {1, 2}
    Data = {1, 2}
    NoData = NoData
    NumColumns = 2
    Tables <- MCTables
    SegmentEncodings = {"Plain", "RLE"}
    Paths = {p1, p2}
    Histories <- MCHistories
    MaxSegments = 3
    MaxCalls = 4
    MaxInputs = 2
    OutputOverInput = FALSE
    EmptyInputs = FALSE
    Idle = Idle
    NotLoaded = NotLoaded
    Unknown = Unknown
    NoOutput = NoOutput
SPECIFICATION MergeSpec
SYMMETRY Symmetry
INVARIANTS MergeKeepsEveryRow RowsStayTogether StatsBoundTheColumn
CHECK_DEADLOCK FALSE
