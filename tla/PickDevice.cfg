CONSTANTS
    DevLists <- Lists
    UINT32_MAX = 9
    MayFail <- AllChecks
SPECIFICATION Spec
INVARIANTS
    QueuesServe
    SelectsSuitable
