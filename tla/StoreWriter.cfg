SPECIFICATION Spec
CONSTANTS
    Tasks = {a, b, c}
    Verifiers = {b}
    N = 2
    Engines = {"turso", "postgres"}
    MaxCrashes = 1
    NoTask = NoTask
INVARIANTS NoNestedBegin
PROPERTIES RefinesAtomicWrites
CHECK_DEADLOCK FALSE
