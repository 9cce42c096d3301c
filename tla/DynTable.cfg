SPECIFICATION Spec
CONSTANTS
    Half <- MCHalf
    SymSize = 3
    InfoAt = 1
    BufSize = 3
    Cap = 12
    DefaultLimit = 6
    ImageFile <- MCImageFile
    MaxCuts = 1
INVARIANTS DynTypes SymbolsFound NamesAreCut SymbolsInSegment
PROPERTY Returns
CHECK_DEADLOCK FALSE
