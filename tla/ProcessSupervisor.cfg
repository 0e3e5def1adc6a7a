SPECIFICATION Spec
CONSTANTS
    Capacity = 1
    Loggers = {"backend"}
    Leaky = {"backend"}
    MaxLines = 2
    MaxBusy = 2
    Losable = {"backend"}
INVARIANTS CollectorOutlivesServices  LinesAccounted ZeroMeansClean NoLostWakeup
PROPERTIES ShutdownEnds
CHECK_DEADLOCK FALSE
