SPECIFICATION Spec
CONSTANTS
    Kinds <- MCKinds
    MaskHits <- MCMaskHits
    LaterKinds = {"T2T"}
    LaterOps <- MCLaterOps
    MaxTags = 2
    MaxOps = 2
    MaxTotal = 3
INVARIANTS
    IndInv
    WaitsAreAnswered
    SuccessIsAnswered
PROPERTY
    OperationsReturn
CHECK_DEADLOCK FALSE
