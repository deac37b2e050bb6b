SPECIFICATION FairSpec
CONSTANTS
    c1 = c1
    Null = Null
    Content <- MCContent
    MaxTaps = 2
    MaxDisturbances = 2
INVARIANTS
    IndInv
    SendsWhatWasConfirmed
    SendingIsUnderway
    ConnectsForTheLink
PROPERTY
    BeamEnds
CHECK_DEADLOCK FALSE
