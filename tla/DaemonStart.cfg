CONSTANTS
    Links <- MC_Links
    AllIFs = FALSE
    PciDevices <- MC_PciDevices
    BusInfo <- MC_BusInfo
    Timestamping <- MC_Timestamping
    NetPins <- MC_NetPins
    PhcPins <- MC_PhcPins
    NetGnss <- MC_NetGnss
    BusGnss <- MC_BusGnss
    Fixed = {"gnss1", "gnss2"}
    Frames <- MC_Frames
    Size = 6
    NIL = NIL
SPECIFICATION StartSpec
INVARIANTS InventoryComplete RecordsOwn NothingMissed ReadAsSent
CHECK_DEADLOCK FALSE
