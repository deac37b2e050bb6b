\* Three activations, three requests of the service, two overlapping threads.
CONSTANTS
    SeSelected = TRUE
    MaxTaps = 3
    MaxCalls = 3
    MaxThreads = 2
SPECIFICATION FairSpec
CONSTRAINT NoRaceYet
INVARIANTS
    IndInv
    DeviceFollowsService
PROPERTIES
    RequestsAreHeld
    RequestsAreServed
CHECK_DEADLOCK FALSE
