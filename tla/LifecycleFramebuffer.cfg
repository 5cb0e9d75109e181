CONSTANTS
    NDevs = 2
    NImgs = 3
    NShaders = 2
    NPools = 2
    MayFail <- Framebuffer
SPECIFICATION FairSpec
PROPERTY
    InitReturns
