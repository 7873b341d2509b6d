SPECIFICATION FairSpec
CONSTANTS
    j1 = j1
    c1 = c1
    c2 = c2
    timer = timer
    cli = cli
    None = None
    Jobs = {}
    Calls <- TwoCalls
    Reapers <- OneReaper
    MaxDeliveries = 1
    SettleAttempts = 1
    Limit = 1
    StalledRuns = FALSE
    LateCommits = FALSE
CHECK_DEADLOCK FALSE
PROPERTIES EveryReserveSettles
