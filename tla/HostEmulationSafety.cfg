SPECIFICATION FairSpec
CONSTANTS
    s1 = s1
    s2 = s2
    NoSvc = NoSvc
    Service <- MCService
    RequiresUnlock <- MCRequiresUnlock
    OnHost <- MCOnHost
    PaymentService <- MCPaymentService
    BindMayFail = FALSE
    MaxTaps = 1
    MaxCrash = 1
    MaxCmds = 1
INVARIANTS
    IndInv
    SessionsAreAccountedFor
    DirectSelectReachesItsService
PROPERTY
    QueuedSelectEnds
CHECK_DEADLOCK FALSE
