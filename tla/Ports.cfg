SPECIFICATION FairSpec
CONSTANTS
    Text <- Boundaries
    Kinds = {"sock", "file"}
    Cap = 2
    SharedFd = FALSE
    Drift = TRUE
    Naps = 1
    Nap = 2
    Horizon = 4
    Word = 8
INVARIANTS
    TextArrives
    
PROPERTY
    AllIsCopied
CHECK_DEADLOCK FALSE
