CONSTANTS
    NSync = 3
    MinImages = 2
    MayFail <- AllCalls
SPECIFICATION FairSpec
INVARIANTS
    TypeOK
    ScanFindsFence
    ResetFenceIdle
    AcquireSemFresh
    AcquireMayBlock
    SubmitFresh
    RenderExclusive
    ShowsCompleteFrames
    WaitsAreFed
    DestroyIdle
    IndInv
PROPERTIES
    ImplementsSwapImages
    FenceReturns
    PresentsArrive
    ShutsDown
