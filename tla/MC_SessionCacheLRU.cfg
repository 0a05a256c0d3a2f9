CONSTANTS
    s1 = s1
    s2 = s2
    s3 = s3
    s4 = s4
    s5 = s5
    s6 = s6
    IDs <- MC_IDs5
    MaskVals = {1, 2, 3, 4}
    MaskFns <- MC_AnyMask5
    StoreLens = {99, 100, 350}
    ADDR_NULL = ADDR_NULL
    NoId = NoId
SPECIFICATION Spec
SYMMETRY MC_Symmetry5
INVARIANT TypeOK
INVARIANT ListWellFormed
INVARIANT ListIsRecencyOrder
INVARIANT EntriesWithinStore
