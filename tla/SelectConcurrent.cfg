CONSTANTS
    t1 = t1
    t2 = t2
    Threads <- Two
    Ops <- AllOps
    Configs <- MCConfigs
    Lifetime = 1
    MaxObjects = 3
    MaxFailures = 1
    MaxHeight = 2
SPECIFICATION Spec
INVARIANTS TokenlessExplained PaidOnlyIfRefused DefaultsBounded
CHECK_DEADLOCK FALSE
SYMMETRY Sym
