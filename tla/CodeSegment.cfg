SPECIFICATION Spec
CONSTANTS
    Top = 17
    Align = 4
    Page = 2
    SegmentStarts = {0, 2, 3, 7, 8, 13}
    SegmentSizes = {0, 1, 4, 9}
    MaxSegments = 3
    Layouts <- MCLayouts
    Relocations <- MCRelocations
    Estimates = {0, 1, 4}
    CodeSizes <- MCCodeSizes
    MaxRounds = 4
INVARIANTS PlaceIsFree PlaceIsFirst InsertedInPlace
