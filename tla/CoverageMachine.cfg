SPECIFICATION MachineSpec
CONSTANT U64Max = 4
INVARIANTS CoversExactly UncoveredExact PlanningExact
