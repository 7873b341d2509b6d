-------------------------- MODULE MCPaddleWebhook --------------------------
(* Two event ids for one paid transaction, an update and a later           *)
(* cancellation of one subscription, two deliveries at a time.             *)
EXTENDS PaddleWebhookProperties, TLC

CONSTANTS paid, again, update, cancel, ref, plan, s1, s2

Purchase == {paid, again}
Both     == {paid, again, update, cancel}
TwoSlots == {s1, s2}
Late     == {again, update}
LatePaid == {again}

Kinds(events)  == [e \in events |-> IF e \in Purchase THEN "transaction" ELSE "subscription"]
Abouts(events) == [e \in events |-> IF e \in Purchase THEN ref ELSE plan]
Times(events)  == [e \in events |-> IF e = cancel THEN 2 ELSE 1]

PurchaseKind  == Kinds(Purchase)
PurchaseRef   == Abouts(Purchase)
PurchaseTimes == Times(Purchase)
BothKind      == Kinds(Both)
BothRef       == Abouts(Both)
BothTimes     == Times(Both)

Symmetric == Permutations(TwoSlots)
=============================================================================
