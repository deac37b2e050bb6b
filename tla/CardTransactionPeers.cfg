\* A device that polls and may beam stops to listen for peers.
CONSTANTS
    SeSelected = TRUE
    MaxTaps = 3
    MaxCalls = 3
    MaxThreads = 2
SPECIFICATION Spec
CONSTRAINT NoRaceYet
INVARIANT PeersAreListenedFor
CHECK_DEADLOCK FALSE
