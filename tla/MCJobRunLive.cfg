SPECIFICATION FairSpec
CONSTANTS
    j1 = j1
    c1 = c1
    c2 = c2
    timer = timer
    cli = cli
    None = None
    Jobs <- OneJob
    Calls = {}
    Reapers <- OneReaper
    MaxDeliveries = 2
    SettleAttempts = 2
    Limit = 1
    StalledRuns = FALSE
    LateCommits = FALSE
CHECK_DEADLOCK FALSE
INVARIANTS MarksStayTrue
PROPERTIES RunsOnce EveryReserveSettles EveryJobEnds
