SPECIFICATION Spec
CONSTANTS
    Live = {"l"}
    Backfill = {"b1", "b2"}
    Scans = {"s"}
    Reads <- MCReads
    Keys = {"x", "y"}
    Direct = {"d"}
    Cells = {1, 2, 3, 4}
    NoCell = 0
    Total = 2
    Reserved = 1
    Slots = 2
    Sub = 1
    MaxEntries = 1
    Limit = 1
    Hysteresis = 2
INVARIANTS LiveReserve EntriesBounded
PROPERTIES GateDebounced LiveGetsSlot
