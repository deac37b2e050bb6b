SPECIFICATION FairSpec
CONSTANTS
  LongFrom = 20
  ShortAt = {0, 2, 13, 28, 44}
  LongAt = {0, 13, 27, 45}
  BigAt = {0, 44}
  OldShort = 3
  OldLong = 25
  NewLengths = {4, 25, 47, 93}
  MaxOps = 3
  MaxLosses = 1
  Careful = TRUE
  Cards <- MCCards
  Contents <- MCContents
  Keys <- MCKeys
INVARIANTS
    MifareInv
    CheckAgreesWithTheCard
PROPERTIES
    StorageSpec
    CheckAndWriteEnd
CHECK_DEADLOCK FALSE
