\* Two attempts; the 30 and 120 seconds of the code are scaled down to 3 and 6.
CONSTANTS
    c1 = c1
    c2 = c2
    Clients <- Two
    MaxBackoffs = {2, 3}
    Deadlines = {6}
    MaxUint = 3
    Pull = 1
    Decrements = TRUE
    MaxTime = 7
    MaxFailures = 1
SPECIFICATION FairApproveSpec
INVARIANTS TypeOK AllowanceSuffices MissedOnlyAtTheEnd
PROPERTIES WaitEnds
CHECK_DEADLOCK FALSE
