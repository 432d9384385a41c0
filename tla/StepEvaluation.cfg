CONSTANTS
    Configs <- MC_Configs
    Constraints <- MC_Constraints
    Candidates <- MC_Candidates
SPECIFICATION Spec
INVARIANTS EncodingRoundTrips SiblingsAgree LanStepsAgree AnnounceStepsAgree
