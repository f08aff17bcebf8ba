\* Two goroutines do anything; losses, late requests, other clients, claims.
CONSTANTS
    t1 = t1
    t2 = t2
    Threads <- Two
    Ops <- AllOps
    Price = 2
    StartSigned = 1
    Funds = 9
    LargerToo = TRUE
    MaxSteps = 3
    MaxLost = 1
    MaxOthers = 1
    MaxClaims = 1
SPECIFICATION Spec
INVARIANTS TypeOK ExposureBounded NonceNotAhead
SYMMETRY Sym
CHECK_DEADLOCK FALSE
