CONSTANTS
    s1 = s1
    s2 = s2
    s3 = s3
    s4 = s4
    s5 = s5
    s6 = s6
    IDs <- MC_IDs6
    MaskVals <- MC_MaskVals6
    MaskFns <- MC_InjectiveMask6
    StoreLens = {350}
    ADDR_NULL = ADDR_NULL
    NoId = NoId
SPECIFICATION Spec
SYMMETRY MC_Symmetry6
INVARIANT FindTerminates
