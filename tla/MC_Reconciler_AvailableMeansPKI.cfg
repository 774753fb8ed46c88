CONSTANTS
    CompSeq <- MC_TwoComps
    CommitsValid = TRUE
SPECIFICATION Spec
INVARIANT AvailableMeansPKI
CHECK_DEADLOCK FALSE
