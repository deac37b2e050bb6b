SPECIFICATION FairSpec
CONSTANTS
  MaxFound = 1
  MaxCalls = 2
  MaxFails = 1
  MaxClients = 1
  MaxServiceOps = 3
  BadTimeouts = FALSE
  Orderly = TRUE
INVARIANTS
    IndInv
    CallbacksFindTheirCall
PROPERTIES
    MethodsReturn
    ClientsAreAccepted
    PollingComesBack
CHECK_DEADLOCK FALSE
