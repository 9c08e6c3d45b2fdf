SPECIFICATION FairSpec
CONSTANTS
    None = None
    PCs = {p1, p2, p3}
    MaxTrace = 3
    UserLimits = {3}
    Window = 2
    MaxProbes = 0
INVARIANT SubtractedIsCommon
