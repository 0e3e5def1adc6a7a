SPECIFICATION Spec
CONSTANTS
    Tasks = {"http", "miner", "indexer", "watchdog"}
    Chains = {"main", "test"}
    NoChain = "none"
    ChainOf <- MCChainOf
    Histories <- MCHistories
    Migrations = 1
    Lookback = 1
    Batch = 2
    MaxRows = 2
    MaxHead = 2
    MaxStarts = 2
    MaxConns = 1
INVARIANTS ShutdownIsClean BoundHistory CatchupLosesNothing
PROPERTIES FailureEndsProcess
CHECK_DEADLOCK FALSE
