SPECIFICATION FairSpec
CONSTANTS
    Nodes <- TwoNodes
    Names <- OneName
    Host <- Hosts
    Known <- FirstKnown
    Capacity = 2
    MaxCalls = 1
    MaxConns = 2
    MaxInactive = 2
    MaxRefresh <- Refreshes
    MaxFaults = 1
INVARIANTS
    OneLinkPerPair
    KnowsItsPeers
    RequesterKnown
PROPERTIES
    HalfOpenEnds
    AttemptsEnd
CHECK_DEADLOCK FALSE
