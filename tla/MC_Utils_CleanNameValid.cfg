CONSTANTS
    Lower <- MC_Lower
    Upper <- MC_Upper
    LowerOf <- MC_LowerOf
    Specials <- MC_Specials
    Seps <- MC_Seps
    MaxStrLen = 4
    NameLimit = 3
    W = 4
    MaxElems = 3
SPECIFICATION Spec
INVARIANT CleanNameValid
