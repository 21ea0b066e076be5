SPECIFICATION Spec
CONSTANTS
    a = a
    b = b
    ip1 = ip1
    ip2 = ip2
    c1 = c1
    c2 = c2
    c3 = c3
    l1 = l1
    l2 = l2
    None = None
    Freed = Freed
    Ids = {a, b}
    ClientSlots = {c1, c2, c3}
    LinkSlots = {l1}
    Ips = {ip1}
    MAX_NEWCONNS = 1
    NEWCONN_TIMEOUT = 0
    NOREPLY_TIMEOUT = 0
    KEEPALIVE_TIMEOUT = 1
    TMO_CCLINK_WAITACTIVE = 0
SYMMETRY Symmetry
INVARIANTS
    TreeIsPrimaries
    LinkEndsArePrimaries
PROPERTY
    ImplementsCallService
