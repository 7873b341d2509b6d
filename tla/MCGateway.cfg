SPECIFICATION Spec
CONSTANTS
    k1 = k1
    k2 = k2
    k3 = k3
    k4 = k4
    a1 = a1
    a2 = a2
    q1 = q1
    i1 = i1
    i2 = i2
    Nil = Nil
    Keys <- FourKeys
    Actions <- TwoActions
    MaxActiveKeys = 1
    Requests = {q1}
    Carried = {k1}
    Addresses <- TwoAddresses
    Capacity <- BucketSizes
    Cost <- Tokens
    MaxEntries = 1
    MaxTicks = 2
    MaxClears = 1
SYMMETRY Symmetric
INVARIANTS TypeOK KeysBounded BurstBounded RevokedIsOut
