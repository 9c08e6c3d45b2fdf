SPECIFICATION Spec
CONSTANTS
    LastReg  = 3
    Starts   <- MCStarts
    StartMem <- MCStartMem
    MaxTrace = 4
    Junk     <- MCJunk
INVARIANTS
    ReplayedIsTraced
    SuffixRepeats
    PrivilegeRepeats
    RestoredIsRead
