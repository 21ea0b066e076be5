SPECIFICATION Spec
CONSTANTS
    Nodes = {n1, n2}
    None = None
    MaxJoins = 2
    MaxTexts = 3
    TooLong = {2}
    MaxCalls = 1
    MaxFaults = 1
SYMMETRY Symmetry
INVARIANTS
    LinksAreAlive
    KeepsTrying
    NothingOvertakes
    MarksAreReceipts
CHECK_DEADLOCK FALSE
