CONSTANTS
    Discovered <- MC_Discovered
    Colors = 2
SPECIFICATION DrawSpec
INVARIANTS DrawingTrue
CHECK_DEADLOCK FALSE
