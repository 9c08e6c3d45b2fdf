SPECIFICATION Spec
CONSTANTS
    None = None
    Modes = {"WitHW"}
    MutationCount = 1
    TopCov = 2
    TopTrk = 3
    MaxCorpus = 2
    MaxIters = 2
    MaxStageExecs = 2
    EmptyTraceAborts = FALSE
    CoverWeight = 1
    WeightScale = 3
    Candidates = {p1, p2}
    Covs <- MCCovs
    Trks <- MCTrks
    EmptyTrk = 0
    CovDist <- MCCovDist
    TrkDist <- MCTrkDist
SYMMETRY PcSymmetry
INVARIANTS
    InitialCaseAnchored
    HistorySound
    PassPoolBounded
PROPERTY EvictionKeepsDominating
