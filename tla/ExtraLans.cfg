CONSTANTS
    Discovered <- MC_Discovered
    Colors = 2
SPECIFICATION DrawSpec
INVARIANT ExtraLansDrawn
CHECK_DEADLOCK FALSE
