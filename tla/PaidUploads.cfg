\* One goroutine refreshes before each payment; the daemon is exact and starts from zero.
CONSTANTS
    t1 = t1
    t2 = t2
    Threads <- One
    Ops <- Uploads
    Price = 1
    StartSigned = 0
    Funds = 20
    LargerToo = FALSE
    MaxSteps = 5
    MaxLost = 2
    MaxOthers = 1
    MaxClaims = 1
SPECIFICATION FairSpec
PROPERTIES UploadsGetThrough
CHECK_DEADLOCK FALSE
