SPECIFICATION Spec
CONSTANTS
    Nodes = {A, B}
    Ids = {x, y}
    None = None
    DEFAULT_BUF_SIZE = 1
    MaxCalls = 2
    MaxLogins = 5
    MaxReads = 3
    MaxFaults = 1
SYMMETRY Symmetry
INVARIANTS
    PointersValid
    FoundAfterJoin
CHECK_DEADLOCK FALSE
