SPECIFICATION FairSpec
CONSTANTS
    U64Max = 2
    Domains <- WinnersAndAuthorship
    Hashes <- ChainHashes
    NoHash <- None
    Values <- OneRecord
    MaxGen = 1
    Starts <- Everything
    Pins <- Everything
    Floors <- NoFloor
    Cursors <- AllCursors
    Targets <- Everything
    BlockHash <- SameHash
    Kind <- SecondUnproven
    DropAt <- FirstDropped
    Participants <- Nobody
    Rec = "rec"
    MaxHead = 2
    PageSize = 1
    ReplayLimit = 1
    MaxFails = 1
    Lag = 0
    Prunable <- None
    Reindexing = FALSE
INVARIANTS CoveredMeansIndexed ProgressIsDurable NeverStops
PROPERTIES EverythingSettles StoreSpec
