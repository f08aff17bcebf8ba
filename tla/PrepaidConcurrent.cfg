\* Two clients; one call, three, and a count that becomes negative (3 bits).
CONSTANTS
    t1 = t1
    t2 = t2
    Threads = {t1, t2}
    Half = 4
    Counts = {1, 3, 7}
    Price = 2
    StartSigned = 1
    StartValue = 4
    MaxBuilds = 3
    MaxFaults = 1
    MaxOthers = 1
    MaxClaims = 2
SPECIFICATION Spec
INVARIANTS TypeOK ExposureBounded TokenBacked OneCallFunded
SYMMETRY Sym
CHECK_DEADLOCK FALSE
