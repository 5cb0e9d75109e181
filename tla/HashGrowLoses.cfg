CONSTANTS
    Keys = {a, b, c}
    Vals = {0}
    Iters = {}
    Hint = 2
    ThreshNum = 4
    ThreshDen = 5
    MaxElts = 6
    HashFns <- AllFns6
    Uses <- ProgramUses
    MayFail <- Nothing
SPECIFICATION Spec
PROPERTY
    ImplementsHashMap
