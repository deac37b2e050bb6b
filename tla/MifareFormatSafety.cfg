SPECIFICATION FairSpec
CONSTANTS
  MaxOps = 3
  MaxLosses = 2
  Cards <- MCCards
INVARIANTS
    FormatInv
    FreshCardIsFormatted
PROPERTY
    FormatEnds
CHECK_DEADLOCK FALSE
