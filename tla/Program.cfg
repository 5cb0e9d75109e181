SPECIFICATION Spec
CONSTANTS
    Argvs <- UpToTwo
    Files <- FileKinds
    MayFail <- Calls
    BUFF_DATA_CAP = 4
    MaxLen = 7
INVARIANTS
    BlocksChained
    StoresInside
    ExitsClean
