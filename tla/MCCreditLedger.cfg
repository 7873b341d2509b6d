SPECIFICATION Spec
CONSTANTS
    u1 = u1
    u2 = u2
    r1 = r1
    r2 = r2
    s1 = s1
    s2 = s2
    j1 = j1
    Nil = Nil
    Users <- MCUsers
    Reserves <- MCReserves
    Sessions <- MCSessions
    Jobs = {j1}
    Amounts <- MCAmounts
    Corrected <- MCCorrected
    MaxNet = 2
SYMMETRY Symmetry
INVARIANTS TypeOK Conservation NeverOverdrawn
PROPERTIES SettledOnce ImplementsDomain
