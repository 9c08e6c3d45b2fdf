SPECIFICATION Spec
CONSTANTS
    PointCount = 2
    MaxPassing = 1
    Metrics = {"Barinel"}
    TopSus = 1
    Blocks <- MCBlocks
    Covering <- MCCovering
INVARIANT EveryMetricCompletes
