CONSTANTS
    DevLists <- KindsOnly
    UINT32_MAX = 9
    MayFail <- Nothing
SPECIFICATION Spec
INVARIANT
    PrefersTheBest
