CONSTANTS
    t1 = t1
    t2 = t2
    Threads <- Two
    Ops <- Calls
    Price = 1
    StartSigned = 0
    Funds = 20
    LargerToo = FALSE
    MaxSteps = 2
    MaxLost = 0
    MaxOthers = 0
    MaxClaims = 0
SPECIFICATION Spec
INVARIANTS SafeForConcurrentUse
CHECK_DEADLOCK FALSE
