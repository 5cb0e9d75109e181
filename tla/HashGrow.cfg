CONSTANTS
    Keys = {a, b, c}
    Vals = {0}
    Iters = {i}
    Hint = 2
    ThreshNum = 4
    ThreshDen = 5
    MaxElts = 6
    HashFns <- AllFns6
    Uses <- Changes
    MayFail <- Malloc
SPECIFICATION Spec
SYMMETRY KeySymmetry
INVARIANTS
    SizeCovers
    KeysListed
    RehashFits
PROPERTIES
    OthersKept
    NoneAppears
    NodesOwned
