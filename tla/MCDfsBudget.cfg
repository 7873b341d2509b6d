SPECIFICATION Spec
CONSTANTS
    fan = fan
    one = one
    two = two
    Nil = Nil
    Calls <- AllCalls
    LastDay = 2
    Cap = 5
    Estimate <- Booking
    Requests <- Requested
    Unit = 2
    Prices = {1, 2}
    PricedRefusals = {two}
CHECK_DEADLOCK FALSE
INVARIANTS TypeOK CapHolds BilledWithinCap
