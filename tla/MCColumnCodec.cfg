SPECIFICATION Spec
CONSTANTS
    NativeBits = 3
    WordBits = 6
    MaxRun = 2
    ByteBits = 3
    HalfBase = 3
    Garbage = Garbage
    Types = {"Int32", "Int64", "Double"}
    Values <- MCValues
    Encodings <- MCEncodings
    Kinds <- MCKinds
    MaxRows <- MCMaxRows
    MaxColumns <- MCMaxColumns
    MaxPicks = 3
    PickTypes = {"Int64"}
    Widths = {1, 2}
    Capacities = {0}
    ZigZagLimited = TRUE
    ShiftLimited = TRUE
    MixedBuilds = FALSE
    ReuseForEmpty = FALSE
    GatherTypes = {"Int32"}
    NoEncoding = NoEncoding
INVARIANTS ColumnHolds KernelsAgree RoundTrip SegmentReadsBack ObjectRoundTrip
