SPECIFICATION Spec
CONSTANTS
    Requests = {"poll", "a", "b"}
    Http = {"a", "b"}
    Pool <- MCPool
    PoolSize <- MCPoolSize
    Plan <- MCPlan
    Resources = {"local", "status", "host", "d2", "d1", "a1", "a2"}
    Kind <- MCKind
    Parts <- MCParts
    Stored = {"host"}
    Host <- MCHost
    NoHost = "none"
    MaxEntries = 1
    MaxFailures = 1
    Peers = 1
    Calls = 2
  
PROPERTIES LocalGetsSlot
