SPECIFICATION Spec
CONSTANTS
    PointCount = 4
    MaxPassing = 2
    Metrics <- AllMetrics
    TopSus = 2
    Blocks <- MCBlocks
    Covering <- MCCovering
INVARIANTS
    ReportCompletes
    UndefinedOnlyUnexecuted
    FewerPassesFirst
    BlocksByBestPoint
