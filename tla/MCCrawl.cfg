SPECIFICATION Spec
CONSTANTS
    r = r
    a = a
    b = b
    c = c
    d = d
    o = o
    Nil = Nil
    Delivered = Delivered
    URLs <- SixUrls
    Root = r
    InScope <- Scope
    Disallowed = {d}
    ExtraSeeds <- Ranking
    SitemapReads <- Reads
    EndsAt <- Ends
    LinkLists <- Links
    Sizes = {1, 3}
    MaxUrls = 3
    MaxConcurrentFetches = 2
    MaxSitemapUrls = 3
    MaxQueueUrls = 3
    MaxSkippedListed = 1
    MaxResultBytes = 4
CHECK_DEADLOCK FALSE
INVARIANTS
    TypeOK
    AllAccounted
    DepthIsShortest

    
