SPECIFICATION Spec
CONSTANTS
    j1 = j1
    c1 = c1
    c2 = c2
    timer = timer
    cli = cli
    None = None
    Jobs <- OneJob
    Calls <- OneCall
    Reapers <- TwoReapers
    MaxDeliveries = 1
    SettleAttempts = 1
    Limit = 2
    StalledRuns = TRUE
    LateCommits = TRUE
SYMMETRY Symmetric
CHECK_DEADLOCK FALSE
INVARIANTS TypeOK PaidForWork HonestMarks
PROPERTIES SettlementIsFinal
