SPECIFICATION Spec
CONSTANTS
  Fields <- MCFields
  Modes <- MCModes
  Behind <- MCBehind
  MaxTech = 11
  MaxInputs = 3
  MaxNtf = 2
  Prompt = TRUE
INVARIANTS
    DiscoveryInv
    ToldOfTheActiveTag
    WalkEnds
    AllTechnologiesAgain
PROPERTIES
    ThreadsEnd
CHECK_DEADLOCK FALSE
