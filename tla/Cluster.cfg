CONSTANTS
    Ports = {1, 2, 3}
    NodeOf <- MC_NodeOf
    SegmentOf <- MC_SegmentOf
    Bonded = {3}
    MaxProbes = 3
    EarlyProbes = 1
    MaxMissed = 1
    MaxRestarts = 1
    BindFails = {3}
    NIL = NIL
SPECIFICATION FairSpec
INVARIANTS NeighboursMeet LansSound LansComplete
PROPERTY Settles
CHECK_DEADLOCK FALSE
