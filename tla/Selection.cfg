SPECIFICATION Spec
CONSTANTS
    MaxCases = 4
    TopPass = 3
    PoolFactor = 1
    CoverWeight = 3
    DiversityWeights = {0, 2}
    WeightScale = 5
    CoverRaws = {0, 1, 2}
    StateRaws = {0, 1}
    PairStates = {1}
    Modes = {"random", "sort", "diverse"}
INVARIANTS
    MinDistancesCurrent
    ScoresFall
    CloserKept
    SelectsEnough
    WeightlessIsSort
