CONSTANTS
    MaxOpened = 3
    Capacity = 2
    SubscribeMayFail = TRUE
    MaxBreaks = 2
    MaxLogs = 2
SPECIFICATION FairSpec
INVARIANTS SuccessMeansEvents NothingLeftSubscribed
PROPERTIES FindsLatest ReturnsOnceSubscribed
CHECK_DEADLOCK FALSE
