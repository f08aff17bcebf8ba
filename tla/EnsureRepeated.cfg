\* One client that starts over again and again; the metadata changes meanwhile.
CONSTANTS
    c1 = c1
    c2 = c2
    Clients <- One
    MaxChannels = 4
    InitialWallet = 4
    MaxHeight = 2
    Prices = {1, 2}
    Thresholds = {1, 3}
    Offset = 3
    MaxDelay = 1
    Patience = 1
    MaxPending = 1
    MaxAbandoned = 1
    MaxClaims = 1
SPECIFICATION FairSpec
INVARIANTS TypeOK
PROPERTIES AttemptsEnd KeepsPromise
CHECK_DEADLOCK FALSE
