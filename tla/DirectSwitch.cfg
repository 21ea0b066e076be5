SPECIFICATION Spec
CONSTANTS
    MaxTexts = 2
    MaxFaults = 1
    MaxBlocked = 1
INVARIANTS
    SameConnection
    DirectIsThere
PROPERTIES
    ImplementsFifo
    Arrives
CHECK_DEADLOCK FALSE
