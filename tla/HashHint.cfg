CONSTANTS
    Keys = {a, b, c}
    Vals = {0, 1}
    Iters = {i}
    Hint = 3
    ThreshNum = 4
    ThreshDen = 5
    MaxElts = 8
    HashFns <- AllFns5
    Uses <- ProgramUses
    MayFail <- Malloc
SPECIFICATION Spec
SYMMETRY KeySymmetry
PROPERTIES
    ImplementsHashMap
    HintSuffices
