CONSTANTS
    Writers = {w1, w2}
    Flushers = {f1}
    NumColumns = 2
    FlushThreshold = 1
    SizeModulus = 16
    OverlapCompaction = FALSE
    MaxRows = 3
    MaxDeletes = 1
SPECIFICATION Spec
INVARIANTS TypeOK NoAckedInsertLost ZeroPendingMeansDelivered FlushIsAligned PendingNeverWraps
SYMMETRY WriterSymmetry
CHECK_DEADLOCK FALSE
