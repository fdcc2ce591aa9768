SPECIFICATION Spec
CONSTANTS
    Faults = {}
INVARIANTS
    StopDeregisters
CHECK_DEADLOCK FALSE
