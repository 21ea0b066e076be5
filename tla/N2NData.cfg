SPECIFICATION FairSpec
CONSTANTS
    Nodes = {A, B}
    Ids = {x, y}
    None = None
    DEFAULT_BUF_SIZE = 2
    MaxCalls = 1
    MaxLogins = 2
    MaxReads = 1
    MaxFaults = 0
PROPERTY
    DataHandedOn
CHECK_DEADLOCK FALSE
