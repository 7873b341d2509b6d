SPECIFICATION FairSpec
CONSTANTS
    paid = paid
    again = again
    update = update
    cancel = cancel
    ref = ref
    plan = plan
    s1 = s1
    s2 = s2
    Nil = Nil
    Events <- Purchase
    Kind <- PurchaseKind
    About <- PurchaseRef
    OccurredAt <- PurchaseTimes
    Unproved <- LatePaid
    Slots <- TwoSlots
PROPERTY PaidIsCredited
