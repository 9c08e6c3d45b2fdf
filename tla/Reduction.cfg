SPECIFICATION FairSpec
CONSTANTS
    None = None
    Insts = 9
    MaxCandidates = 7
    Sites = {s1, s2}
INVARIANTS ReductionKeepsFailure ProbesAreFresh PanicsOnlyOnInput
PROPERTIES SettlesOnBoundaries Terminates
