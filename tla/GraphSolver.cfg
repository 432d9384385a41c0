CONSTANTS
    n1 = n1
    n2 = n2
    Names = {n1, n2}
    Configs <- MC_Configs
    Problems <- MC_Problems
    NoConfig = NoConfig
    MaxRuns = 2
SPECIFICATION FairSpec
INVARIANTS TypeOK SearchInv SolutionsExact SolutionsSound PrintsFit
PROPERTIES ImplementsSearch
CHECK_DEADLOCK FALSE
