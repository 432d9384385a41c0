CONSTANTS
    Ifaces <- MC_Ifaces
    Frames <- MC_Frames
    MaxProbes = 1
    FREE = FREE
    NIL = NIL
SPECIFICATION FairSpec
INVARIANTS TypeOK ReportsComplete ReportsWhole RemotesForeign LatestAnnounceWins
PROPERTIES ReportsGrow ReceivedIsReported KeepsPromise
