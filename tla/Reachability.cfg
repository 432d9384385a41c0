CONSTANTS
    Timeouts <- MC_Timeouts
    PingTimeout = 3
SPECIFICATION FairWaitSpec
INVARIANT WaitBounded
PROPERTY WaitReturns
CHECK_DEADLOCK FALSE
