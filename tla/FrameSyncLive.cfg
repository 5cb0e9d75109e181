CONSTANTS
    NSync = 3
    MinImages = 2
    MayFail <- NoCalls
SPECIFICATION FairSpec
PROPERTIES
    FramesKeepComing
    ImplementsFairSwapImages
