SPECIFICATION Spec
CONSTANTS
    None = None
    Modes = {"PSBFL", "Random", "WitHW"}
    MutationCount = 1
    TopCov = 2
    TopTrk = 3
    MaxCorpus = 1
    MaxIters = 2
    MaxStageExecs = 2
    EmptyTraceAborts = TRUE
    CoverWeight = 1
    WeightScale = 2
    Candidates = {p1, p2}
    Covs <- MCCovs
    Trks <- MCTrks
    EmptyTrk = 0
    CovDist <- MCCovDist
    TrkDist <- MCTrkDist
SYMMETRY PcSymmetry
INVARIANTS
    TypeOK
    ParentIsAncestor
    AbortsOnlyOutside
    MetadataOfOwnRun
    HistoryUnbroken
    FingerprintsDistinct
