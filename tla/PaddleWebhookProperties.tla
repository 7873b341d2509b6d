---------------------- MODULE PaddleWebhookProperties ----------------------
(* What the customer who paid, and the operator, may rely on.              *)
EXTENDS PaddleWebhook

(* One paid transaction is credited once, however often and under however  *)
(* many event ids it is delivered, also when two deliveries race.          *)
GrantedOnce == \A r \in Refs : purchases[r] <= 1

(* A paid transaction is never closed without its credit: neither the      *)
(* stamp nor the 200 that stops Paddle's retries comes before the grant    *)
(* ("B-C1" of route.ts), whatever the configuration was in between.        *)
ClosedIsCredited ==
    \A e \in Transactions : e \in stamped \cup acked => purchases[About[e]] > 0

(* The funnel never counts more purchases than the ledger holds.           *)
FunnelCountsGrants == \A r \in Refs : funnel[r] <= purchases[r]

(* A late event never undoes a later one: the row holds an event at least  *)
(* as recent as every event that reached the database.                     *)
NewestWins == \A e \in ran :
    LET held == subs[About[e]] IN held # Nil /\ OccurredAt[held] >= OccurredAt[e]

-----------------------------------------------------------------------------
(* Fairness: Paddle redelivers what it got no 200 for, a delivery takes    *)
(* its next step or fails, and no one call fails for ever.                 *)
Succeeds(e, A(_)) == \E s \in Slots : event[s] = e /\ A(s) /\ pc'[s] # "idle"

Fairness ==
    /\ \A s \in Slots : WF_vars(Handle(s) \/ Fail(s))
    /\ \A e \in Transactions :
          /\ SF_vars(\E s \in Slots : e \notin acked /\ Deliver(s, e))
          /\ SF_vars(Succeeds(e, InsertEvent))
          /\ SF_vars(Succeeds(e, CheckProcessed))
          /\ SF_vars(Succeeds(e, Decide))
          /\ SF_vars(Succeeds(e, LockRef))
          /\ SF_vars(Succeeds(e, NotExists))
          /\ SF_vars(\E s \in Slots : event[s] = e /\ Grant(s))

FairSpec == Spec /\ Fairness

(* Whoever paid is credited in the end: once the operator has put the      *)
(* price map right and left enforcement off, the retries heal the backlog. *)
PaidIsCredited ==
    <>[](mapped /\ ~enforced) => \A e \in Transactions : <>(purchases[About[e]] > 0)
=============================================================================
