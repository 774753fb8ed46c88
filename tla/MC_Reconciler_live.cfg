CONSTANTS
    CompSeq <- MC_TwoComps
    CommitsValid = TRUE
SPECIFICATION FairSpec
INVARIANTS
    TypeOK
    AvailableMeansSetUp
PROPERTIES
    Converges
CHECK_DEADLOCK FALSE
