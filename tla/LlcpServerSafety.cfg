SPECIFICATION Spec
CONSTANTS
    ServerThreads = {t1, t2}
    Handles = {h1, h2, h3}
    NfaConns = {n1, n2}
    MaxConns = 2
    Null = Null
INVARIANTS
    IndInv
    BlocksHaveOwners
    StoppedThreadsLetGo
SYMMETRY Symmetry
CHECK_DEADLOCK FALSE
