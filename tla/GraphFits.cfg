CONSTANTS
    Nodes <- MC_Nodes
    Ifaces <- MC_Ifaces
    Reports <- MC_Reports
    Announces <- MC_Announces
    Segment <- MC_Segment
    Skipped <- MC_Skipped
    Modes = {"MANAGED", "PRECONFIGURED"}
    NIL = NIL
    MaxCalls = 2
SPECIFICATION Spec
INVARIANTS GraphFits
CHECK_DEADLOCK FALSE
