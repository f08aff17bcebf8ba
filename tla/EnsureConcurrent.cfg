CONSTANTS
    c1 = c1
    c2 = c2
    Clients <- Two
    MaxChannels = 4
    InitialWallet = 3
    MaxHeight = 1
    Prices = {1}
    Thresholds = {1}
    Offset = 3
    MaxDelay = 1
    Patience = 1
    MaxPending = 1
    MaxAbandoned = 1
    MaxClaims = 1
SPECIFICATION Spec
SYMMETRY Sym
INVARIANTS EnsuredFunds EnsuredExpiration ChannelsBounded StartsBehindDaemon
CHECK_DEADLOCK FALSE
