SPECIFICATION PubSpec
CONSTANTS
    Lanes = {"live"}
    Maintain = "maintain"
    Qblocks = {"q"}
    Facts = {"winner", "row"}
    Winner = "winner"
    Manifest = "metadata"
    Inodes = {"i1", "i2", "i3"}
    None = "none"
    Accounts = {"a", "b"}
    MaxHeight = 3
INVARIANTS  ListedExists NarrowedIsComplete FirstSeenExact
 
