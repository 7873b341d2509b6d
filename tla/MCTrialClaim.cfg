SPECIFICATION FairSpec
CONSTANTS
    u1 = u1
    u2 = u2
    m1 = m1
    m2 = m2
    x1 = x1
    x2 = x2
    Nil = Nil
    Users <- TwoUsers
    Mailboxes <- TwoMailboxes
    Addresses <- AnyOrOne
    Entries <- TwoEntries
INVARIANTS
    TypeOK
    LockedIsPaid
    OneTrialPerMailbox
    OneSignupOneWelcome
PROPERTY TrialArrives
