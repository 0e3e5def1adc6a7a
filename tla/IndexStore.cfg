SPECIFICATION StoreSpec
CONSTANTS
    U64Max = 2
    Domains <- WinnersOnly
    Hashes = {h1, h2}
    NoHash = NoHash
    Values = {v}
    MaxGen = 2
    Starts = {0}
    Pins = {1}
    Floors = {1}
    Cursors <- OneCursor
    Targets = {1}
SYMMETRY DataSymmetry
INVARIANTS CoverageReadable OnlyCurrentGeneration CoverageHasEvidence OneIdentityPerHeight
PROPERTIES RefinesLedger 
CHECK_DEADLOCK FALSE
