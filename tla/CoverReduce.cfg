SPECIFICATION FairSpec
CONSTANTS
    None = None
    PCs = {p1, p2, p3}
    MaxTrace = 4
    UserLimits = {3}
    Window = 4
    MaxProbes = 2
INVARIANTS SubtractedIsCommon RunsUnderOwnLimit LongestIsSubtracted
PROPERTY Terminates
