SPECIFICATION Spec
CONSTANTS
    U64Max = 2
    Domains <- WinnersOnly
    Hashes <- ChainHashes
    NoHash <- None
    Values <- OneRecord
    MaxGen = 1
    Starts = {}
    Pins = {}
    Floors = {}
    Cursors = {}
    Targets = {}
    BlockHash <- SameHash
    Kind <- AllWon
    DropAt <- FirstDropped
    Participants <- Nobody
    Rec = "rec"
    MaxHead = 2
    PageSize = 1
    ReplayLimit = 1
    MaxFails = 1
    Lag = 0
    Prunable <- None
    Reindexing = FALSE
INVARIANTS MissingDataStaysUncovered
