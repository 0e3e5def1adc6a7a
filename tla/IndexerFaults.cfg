SPECIFICATION Spec
CONSTANTS
    U64Max = 2
    Domains <- ParticipationOnly
    Hashes <- ChainHashes
    NoHash <- None
    Values = {rec, a, b}
    MaxGen = 2
    Starts = {}
    Pins = {}
    Floors = {}
    Cursors = {}
    Targets = {}
    BlockHash <- SameHash
    Kind <- FirstWon
    DropAt <- Kept
    Participants <- TwoEach
    Rec = rec
    MaxHead = 2
    PageSize = 1
    ReplayLimit = 1
    MaxFails = 1
    Lag = 0
    Prunable = 0
    Reindexing = TRUE
SYMMETRY ParticipantSymmetry
INVARIANTS  CoveredMeansIndexed
CHECK_DEADLOCK FALSE
