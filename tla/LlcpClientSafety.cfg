\* Two sockets, one after the other, in a table of two.
CONSTANTS
    s1 = s1
    s2 = s2
    Null = Null
    Sockets <- MCTwo
    sMax = 2
    Serial = TRUE
    MaxBreaks = 2
    MaxCongested = 1
    MaxSends = 1
SPECIFICATION FairSpec
INVARIANTS
    IndInv
    ClosedSocketIsReleased
PROPERTY
    CallsReturn
CHECK_DEADLOCK FALSE
