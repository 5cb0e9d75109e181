CONSTANTS
    NDevs = 2
    NImgs = 3
    NShaders = 2
    NPools = 2
    MayFail <- AllCalls
SPECIFICATION FairSpec
INVARIANTS
    TypeOK
    DestroysLive
    NeedsOutlive
    NoLeak
    HandsOutTheGraph
PROPERTY
    OthersReturn
