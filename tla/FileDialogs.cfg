SPECIFICATION Spec
CONSTANTS
    p1 = p1
    p2 = p2
    None = None
    Peers = {p1, p2}
    Apps = {"gui", "bot"}
    FRAGMENT = 2
    Sizes = {0, 3}
    Names = {"plain", "dotted"}
    MaxFiles = 2
    MaxClicks = 6
    MaxFaults = 1
SYMMETRY Symmetry
CHECK_DEADLOCK FALSE
INVARIANTS
    WholeFile
    EndsAgree
    StreamsMatch
    EverySendHasItsDialog
