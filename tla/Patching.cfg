SPECIFICATION EditSpec
CONSTANTS
    None = None
    Width = 12
    WordBits = 6
    ImmBits = 3
    JalBits = 4
    Values <- MCValues
    Origins <- MCOrigins
    Targets <- MCTargets
    Halfwords = 5
    MaxTrace = 5
    SkipStart = 2
    Windows = {None, 1}
    ContextPcs = {10, 24}
    ContextInsts = 2
INVARIANTS LoadsUnlessCarry JumpsArrive ReachesFailure
