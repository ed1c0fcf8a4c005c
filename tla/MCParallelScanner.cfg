CONSTANTS
    NumThreads = 3
    Runs <- MCRuns
    MaxScans = 2
SPECIFICATION FairSpec
INVARIANTS EveryRunOnce CancelIsPrompt StatsCoverOutput
PROPERTIES ScanReturns
CHECK_DEADLOCK FALSE
