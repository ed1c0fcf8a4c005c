CONSTANTS
    Values = {1, 2, 3}
    Probes = {0, 1, 2, 3, 4}
    BlockRows = 3
    HelperBlocks = 1
    MaxRows = 4
    MaxBuilds = 2
SPECIFICATION BuildSpec
INVARIANTS PrunesOnlyMisses NullTestsPruneOnlyMisses BoundsAreTight
CHECK_DEADLOCK FALSE
