SPECIFICATION Spec
CONSTANTS
    paid = paid
    again = again
    update = update
    cancel = cancel
    ref = ref
    plan = plan
    s1 = s1
    s2 = s2
    Nil = Nil
    Events <- Both
    Kind <- BothKind
    About <- BothRef
    OccurredAt <- BothTimes
    Unproved <- Late
    Slots <- TwoSlots
SYMMETRY Symmetric
INVARIANTS
    TypeOK
    GrantedOnce
    ClosedIsCredited
    FunnelCountsGrants
    NewestWins
