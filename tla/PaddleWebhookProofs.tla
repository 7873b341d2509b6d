------------------------ MODULE PaddleWebhookProofs ------------------------
(***************************************************************************)
(* The webhook's safety for any events, prices and number of deliveries.   *)
(* The purchase lock makes what NOT EXISTS saw still true at the insert,   *)
(* and every step on the way to the stamp or to the 200 of a transaction   *)
(* passes through the insert.                                              *)
(***************************************************************************)
EXTENDS PaddleWebhookProperties, TLAPS

Paid(s) == event[s] \in Transactions

(* What the place of a delivery tells of its event.                        *)
Placed == \A s \in Slots :
    /\ pc[s] # "idle" => event[s] \in Events
    /\ pc[s] \notin {"idle", "insert"} => event[s] \in stored
    /\ pc[s] \in {"lock", "read", "write", "capture"} => Paid(s)
    /\ pc[s] = "apply" => event[s] \in Subscriptions
    /\ pc[s] = "mark" => ~Paid(s)

(* Whoever is inside the purchase transaction holds the lock of its ref.   *)
Holding == \A s \in Slots : pc[s] \in {"read", "write"} => lock[About[event[s]]] = s

(* What NOT EXISTS saw is still true at the insert.                        *)
Fresh == \A s \in Slots :
    pc[s] = "write" => (unseen[s] <=> purchases[About[event[s]]] = 0)

(* A delivery past the insert has its credit in the ledger.                *)
Granted == \A s \in Slots :
    Paid(s) /\ pc[s] \in {"capture", "ack"} => purchases[About[event[s]]] > 0

(* Only the delivery that granted captures, and nobody did before it.      *)
Capturing == \A s \in Slots : pc[s] = "capture" =>
    /\ funnel[About[event[s]]] = 0
    /\ \A x \in Slots \ {s} : pc[x] = "capture" => About[event[x]] # About[event[s]]

IInv == /\ TypeOK /\ Placed /\ Holding /\ Fresh /\ Granted /\ Capturing
        /\ GrantedOnce /\ ClosedIsCredited /\ FunnelCountsGrants /\ NewestWins

-----------------------------------------------------------------------------
(* The initial state: nothing is recorded, nobody is inside.               *)
LEMMA InitIInv == Init => IInv
  <1> SUFFICES ASSUME Init PROVE IInv
    OBVIOUS
  <1>1. TypeOK
    BY EventsAssumption, SMT DEF Init, TypeOK, Steps
  <1>2. Placed /\ Holding /\ Fresh /\ Granted /\ Capturing
    BY SMT DEF Init, Placed, Holding, Fresh, Granted, Capturing
  <1>3. GrantedOnce /\ ClosedIsCredited /\ FunnelCountsGrants /\ NewestWins
    BY SMT DEF Init, GrantedOnce, ClosedIsCredited, FunnelCountsGrants, NewestWins
  <1> QED
    BY <1>1, <1>2, <1>3 DEF IInv

(* unseen is what NOT EXISTS found.                                        *)
LEMMA NotExistsSees ==
  ASSUME unseen \in [Slots -> BOOLEAN], NEW s \in Slots, NotExists(s)
  PROVE  unseen'[s] = (purchases[About[event[s]]] = 0)
  BY Zenon DEF NotExists

(* A delivery that moves on or ends disturbs no other.                     *)
LEMMA MoveType ==
  ASSUME TypeOK, NEW s \in Slots, NEW step \in Steps, Reply(s, step)
  PROVE  /\ pc' \in [Slots -> Steps] /\ event' \in [Slots -> Events \cup {Nil}]
         /\ unseen' \in [Slots -> BOOLEAN]
  <1> USE DEF TypeOK
  <1>1. pc' \in [Slots -> Steps]
    BY SMT DEF Reply, Goto, Leave, Steps
  <1>2. event' \in [Slots -> Events \cup {Nil}]
    <2>1. CASE Goto(s, step)
      BY <2>1, SMT DEF Goto
    <2>2. CASE Leave(s)
      BY <2>2, SMT DEF Leave
    <2> QED
      BY <2>1, <2>2 DEF Reply
  <1>3. unseen' \in [Slots -> BOOLEAN]
    <2>1. CASE Goto(s, step)
      BY <2>1, SMT DEF Goto
    <2>2. CASE Leave(s)
      BY <2>2, SMT DEF Leave
    <2> QED
      BY <2>1, <2>2 DEF Reply
  <1> QED
    BY <1>1, <1>2, <1>3

(* Locks stay with their owners when a delivery outside the transaction    *)
(* moves and when one unlocks.                                             *)
LocksOwned == \A r \in Refs : lock[r] # Nil =>
    /\ pc[lock[r]] \in {"read", "write"}
    /\ event[lock[r]] \in Transactions /\ About[event[lock[r]]] = r

LEMMA MoveLocks ==
  ASSUME TypeOK, NEW s \in Slots, NEW step \in Steps, Reply(s, step),
         \/ lock' = [r \in Refs |-> IF lock[r] = s THEN Nil ELSE lock[r]]
         \/ lock' = lock /\ pc[s] \notin {"read", "write"}
  PROVE  lock' \in [Refs -> Slots \cup {Nil}] /\ LocksOwned'
  <1> USE EventsAssumption DEF TypeOK
  <1>1. lock' \in [Refs -> Slots \cup {Nil}]
    BY SMT
  <1>2. ASSUME NEW r \in Refs, lock'[r] # Nil
        PROVE  /\ pc'[lock'[r]] \in {"read", "write"}
               /\ event'[lock'[r]] \in Transactions /\ About[event'[lock'[r]]] = r
    <2>1. lock'[r] = lock[r] /\ lock[r] # Nil /\ lock[r] # s /\ lock[r] \in Slots
      BY <1>2, SMT
    <2>2. pc'[lock[r]] = pc[lock[r]] /\ event'[lock[r]] = event[lock[r]]
      BY <2>1, SMT DEF Reply, Goto, Leave
    <2> QED
      BY <2>1, <2>2
  <1> QED
    BY <1>1, <1>2 DEF LocksOwned

(* Every step keeps the state within its types.                            *)
LEMMA StepType ==
  ASSUME TypeOK, Placed, NEW s \in Slots,
         Handle(s) \/ Fail(s) \/ \E e \in Events : Deliver(s, e)
  PROVE  TypeOK'
  <1> USE EventsAssumption DEF TypeOK, Placed, Paid, Steps, Transactions, Subscriptions, Refs, Subs
  <1>1. CASE InsertEvent(s)
    <2>1. PICK step \in Steps : Reply(s, step)
      BY <1>1, SMT DEF InsertEvent, Steps, Reply
    <2>2. pc' \in [Slots -> Steps] /\ event' \in [Slots -> Events \cup {Nil}]
          /\ unseen' \in [Slots -> BOOLEAN]
      BY <2>1, MoveType
    <2>3. lock' \in [Refs -> Slots \cup {Nil}] /\ LocksOwned'
      BY <1>1, <2>1, MoveLocks DEF InsertEvent
    <2>4. /\ stamped' \subseteq stored' /\ stored' \subseteq Events /\ acked' \subseteq Events
          /\ purchases' \in [Refs -> Nat] /\ funnel' \in [Refs -> Nat]
          /\ subs' \in [Subs -> Subscriptions \cup {Nil}] /\ ran' \subseteq Subscriptions
          /\ mapped' \in BOOLEAN /\ enforced' \in BOOLEAN
      BY <1>1, SMT DEF InsertEvent, config
    <2> QED
      BY <2>2, <2>3, <2>4, SMT DEF LocksOwned
  <1>2. CASE CheckProcessed(s)
    BY <1>2, SMT DEF CheckProcessed, Goto, tables, config
  <1>3. CASE Decide(s)
    <2>1. PICK step \in Steps : Reply(s, step)
      BY <1>3, SMT DEF Decide, Steps, Reply, Command, Refused
    <2>2. pc' \in [Slots -> Steps] /\ event' \in [Slots -> Events \cup {Nil}]
          /\ unseen' \in [Slots -> BOOLEAN]
      BY <2>1, MoveType
    <2>3. lock' \in [Refs -> Slots \cup {Nil}] /\ LocksOwned'
      BY <1>3, <2>1, MoveLocks DEF Decide, tables
    <2>4. /\ stamped' \subseteq stored' /\ stored' \subseteq Events /\ acked' \subseteq Events
          /\ purchases' \in [Refs -> Nat] /\ funnel' \in [Refs -> Nat]
          /\ subs' \in [Subs -> Subscriptions \cup {Nil}] /\ ran' \subseteq Subscriptions
          /\ mapped' \in BOOLEAN /\ enforced' \in BOOLEAN
      BY <1>3, SMT DEF Decide, tables, config
    <2> QED
      BY <2>2, <2>3, <2>4, SMT DEF LocksOwned
  <1>4. CASE LockRef(s)
    BY <1>4, SMT DEF LockRef, Goto, tables, config
  <1>5. CASE NotExists(s)
    BY <1>5, SMT DEF NotExists, tables, config
  <1>6. CASE Grant(s)
    <2>1. PICK step \in Steps : Reply(s, step)
      BY <1>6, SMT DEF Grant, Steps, Reply
    <2>2. pc' \in [Slots -> Steps] /\ event' \in [Slots -> Events \cup {Nil}]
          /\ unseen' \in [Slots -> BOOLEAN]
      BY <2>1, MoveType
    <2>3. lock' \in [Refs -> Slots \cup {Nil}] /\ LocksOwned'
      BY <1>6, <2>1, MoveLocks DEF Grant, Unlock
    <2>4. /\ stamped' \subseteq stored' /\ stored' \subseteq Events /\ acked' \subseteq Events
          /\ purchases' \in [Refs -> Nat] /\ funnel' \in [Refs -> Nat]
          /\ subs' \in [Subs -> Subscriptions \cup {Nil}] /\ ran' \subseteq Subscriptions
          /\ mapped' \in BOOLEAN /\ enforced' \in BOOLEAN
      BY <1>6, SMT DEF Grant, config
    <2> QED
      BY <2>2, <2>3, <2>4, SMT DEF LocksOwned
  <1>7. CASE CapturePurchase(s)
    <2>1. PICK step \in Steps : Reply(s, step)
      BY <1>7, SMT DEF CapturePurchase, Steps, Reply
    <2>2. pc' \in [Slots -> Steps] /\ event' \in [Slots -> Events \cup {Nil}]
          /\ unseen' \in [Slots -> BOOLEAN]
      BY <2>1, MoveType
    <2>3. lock' \in [Refs -> Slots \cup {Nil}] /\ LocksOwned'
      BY <1>7, <2>1, MoveLocks DEF CapturePurchase, tables
    <2>4. /\ stamped' \subseteq stored' /\ stored' \subseteq Events /\ acked' \subseteq Events
          /\ purchases' \in [Refs -> Nat] /\ funnel' \in [Refs -> Nat]
          /\ subs' \in [Subs -> Subscriptions \cup {Nil}] /\ ran' \subseteq Subscriptions
          /\ mapped' \in BOOLEAN /\ enforced' \in BOOLEAN
      BY <1>7, SMT DEF CapturePurchase, tables, config
    <2> QED
      BY <2>2, <2>3, <2>4, SMT DEF LocksOwned
  <1>8. CASE ApplySubscription(s)
    <2>1. PICK step \in Steps : Reply(s, step)
      BY <1>8, SMT DEF ApplySubscription, Steps, Reply
    <2>2. pc' \in [Slots -> Steps] /\ event' \in [Slots -> Events \cup {Nil}]
          /\ unseen' \in [Slots -> BOOLEAN]
      BY <2>1, MoveType
    <2>3. lock' \in [Refs -> Slots \cup {Nil}] /\ LocksOwned'
      BY <1>8, <2>1, MoveLocks DEF ApplySubscription
    <2>4. /\ stamped' \subseteq stored' /\ stored' \subseteq Events /\ acked' \subseteq Events
          /\ purchases' \in [Refs -> Nat] /\ funnel' \in [Refs -> Nat]
          /\ subs' \in [Subs -> Subscriptions \cup {Nil}] /\ ran' \subseteq Subscriptions
          /\ mapped' \in BOOLEAN /\ enforced' \in BOOLEAN
      BY <1>8, SMT DEF ApplySubscription, config
    <2> QED
      BY <2>2, <2>3, <2>4, SMT DEF LocksOwned
  <1>9. CASE MarkProcessed(s)
    <2>1. PICK step \in Steps : Reply(s, step)
      BY <1>9, SMT DEF MarkProcessed, Steps, Reply
    <2>2. pc' \in [Slots -> Steps] /\ event' \in [Slots -> Events \cup {Nil}]
          /\ unseen' \in [Slots -> BOOLEAN]
      BY <2>1, MoveType
    <2>3. lock' \in [Refs -> Slots \cup {Nil}] /\ LocksOwned'
      BY <1>9, <2>1, MoveLocks DEF MarkProcessed
    <2>4. /\ stamped' \subseteq stored' /\ stored' \subseteq Events /\ acked' \subseteq Events
          /\ purchases' \in [Refs -> Nat] /\ funnel' \in [Refs -> Nat]
          /\ subs' \in [Subs -> Subscriptions \cup {Nil}] /\ ran' \subseteq Subscriptions
          /\ mapped' \in BOOLEAN /\ enforced' \in BOOLEAN
      BY <1>9, SMT DEF MarkProcessed, config
    <2> QED
      BY <2>2, <2>3, <2>4, SMT DEF LocksOwned
  <1>10. CASE Answer(s)
    BY <1>10, SMT DEF Answer, Leave, tables, config
  <1>11. CASE Fail(s)
    BY <1>11, SMT DEF Fail, Leave, Unlock, tables, config
  <1>12. CASE \E e \in Events : Deliver(s, e)
    BY <1>12, SMT DEF Deliver, tables, config
  <1> QED
    BY <1>1, <1>2, <1>3, <1>4, <1>5, <1>6, <1>7, <1>8, <1>9, <1>10, <1>11, <1>12 DEF Handle

(* A delivery stands only where its kind of event may.                     *)
LEMMA StepPlaced ==
  ASSUME TypeOK, Placed, NEW s \in Slots,
         Handle(s) \/ Fail(s) \/ \E e \in Events : Deliver(s, e)
  PROVE  Placed'
  <1> USE EventsAssumption DEF TypeOK, Placed, Paid, Transactions, Subscriptions
  <1>1. CASE InsertEvent(s)
    BY <1>1, SMT DEF InsertEvent, Reply, Goto, Leave, config
  <1>2. CASE CheckProcessed(s)
    BY <1>2, SMT DEF CheckProcessed, Goto, tables, config
  <1>3. CASE Decide(s)
    BY <1>3, SMT DEF Decide, Command, Refused, Goto, Leave, tables, config
  <1>4. CASE LockRef(s)
    BY <1>4, SMT DEF LockRef, Goto, tables, config
  <1>5. CASE NotExists(s)
    BY <1>5, SMT DEF NotExists, tables, config
  <1>6. CASE Grant(s)
    BY <1>6, SMT DEF Grant, Reply, Goto, Leave, Unlock, config
  <1>7. CASE CapturePurchase(s)
    BY <1>7, SMT DEF CapturePurchase, Reply, Goto, Leave, tables, config
  <1>8. CASE ApplySubscription(s)
    BY <1>8, SMT DEF ApplySubscription, Reply, Goto, Leave, config
  <1>9. CASE MarkProcessed(s)
    BY <1>9, SMT DEF MarkProcessed, Reply, Goto, Leave, config
  <1>10. CASE Answer(s)
    BY <1>10, SMT DEF Answer, Leave, tables, config
  <1>11. CASE Fail(s)
    BY <1>11, SMT DEF Fail, Leave, Unlock, tables, config
  <1>12. CASE \E e \in Events : Deliver(s, e)
    BY <1>12, SMT DEF Deliver, tables, config
  <1> QED
    BY <1>1, <1>2, <1>3, <1>4, <1>5, <1>6, <1>7, <1>8, <1>9, <1>10, <1>11, <1>12 DEF Handle

(* A holder keeps its lock to the end of its transaction.                  *)
LEMMA StepHolding ==
  ASSUME TypeOK, Placed, Holding, NEW s \in Slots,
         Handle(s) \/ Fail(s) \/ \E e \in Events : Deliver(s, e)
  PROVE  Holding'
  <1> USE EventsAssumption DEF TypeOK, Placed, Holding, Paid, Refs
  <1>1. CASE InsertEvent(s)
    BY <1>1, SMT DEF InsertEvent, Reply, Goto, Leave, config
  <1>2. CASE CheckProcessed(s)
    BY <1>2, SMT DEF CheckProcessed, Goto, tables, config
  <1>3. CASE Decide(s)
    BY <1>3, SMT DEF Decide, Command, Refused, Goto, Leave, tables, config
  <1>4. CASE LockRef(s)
    BY <1>4, SMT DEF LockRef, Goto, tables, config
  <1>5. CASE NotExists(s)
    BY <1>5, SMT DEF NotExists, tables, config
  <1>6. CASE Grant(s)
    BY <1>6, SMT DEF Grant, Reply, Goto, Leave, Unlock, config
  <1>7. CASE CapturePurchase(s)
    BY <1>7, SMT DEF CapturePurchase, Reply, Goto, Leave, tables, config
  <1>8. CASE ApplySubscription(s)
    BY <1>8, SMT DEF ApplySubscription, Reply, Goto, Leave, config
  <1>9. CASE MarkProcessed(s)
    BY <1>9, SMT DEF MarkProcessed, Reply, Goto, Leave, config
  <1>10. CASE Answer(s)
    BY <1>10, SMT DEF Answer, Leave, tables, config
  <1>11. CASE Fail(s)
    BY <1>11, SMT DEF Fail, Leave, Unlock, tables, config
  <1>12. CASE \E e \in Events : Deliver(s, e)
    BY <1>12, SMT DEF Deliver, tables, config
  <1> QED
    BY <1>1, <1>2, <1>3, <1>4, <1>5, <1>6, <1>7, <1>8, <1>9, <1>10, <1>11, <1>12 DEF Handle

(* Nobody grants a ref while another delivery stands between its NOT       *)
(* EXISTS and its insert.                                                  *)
LEMMA StepFresh ==
  ASSUME TypeOK, Placed, Holding, Fresh, NEW s \in Slots,
         Handle(s) \/ Fail(s) \/ \E e \in Events : Deliver(s, e)
  PROVE  Fresh'
  <1> USE EventsAssumption DEF TypeOK, Placed, Paid, Refs, Transactions, Holding, Fresh
  <1>1. CASE InsertEvent(s)
    BY <1>1, SMT DEF InsertEvent, Reply, Goto, Leave, config
  <1>2. CASE CheckProcessed(s)
    BY <1>2, SMT DEF CheckProcessed, Goto, tables, config
  <1>3. CASE Decide(s)
    BY <1>3, SMT DEF Decide, Command, Refused, Goto, Leave, tables, config
  <1>4. CASE LockRef(s)
    BY <1>4, SMT DEF LockRef, Goto, tables, config
  <1>5. CASE NotExists(s)
    <2>1. UNCHANGED <<purchases, event>>
      BY <1>5 DEF NotExists, tables
    <2>2. ASSUME NEW x \in Slots, pc'[x] = "write"
          PROVE  unseen'[x] <=> purchases[About[event[x]]] = 0
      <3>1. CASE x = s
        <4>1. unseen'[s] = (purchases[About[event[s]]] = 0)
          BY <1>5, NotExistsSees DEF TypeOK
        <4> QED
          BY <3>1, <4>1
      <3>2. CASE x # s
        <4>1. pc[x] = "write" /\ unseen'[x] = unseen[x]
          BY <1>5, <2>2, <3>2, SMT DEF NotExists
        <4> QED
          BY <4>1
      <3> QED
        BY <3>1, <3>2
    <2> QED
      BY <2>1, <2>2
  <1>6. CASE Grant(s)
    BY <1>6, SMT DEF Grant, Reply, Goto, Leave, Unlock, config
  <1>7. CASE CapturePurchase(s)
    BY <1>7, SMT DEF CapturePurchase, Reply, Goto, Leave, tables, config
  <1>8. CASE ApplySubscription(s)
    BY <1>8, SMT DEF ApplySubscription, Reply, Goto, Leave, config
  <1>9. CASE MarkProcessed(s)
    BY <1>9, SMT DEF MarkProcessed, Reply, Goto, Leave, config
  <1>10. CASE Answer(s)
    BY <1>10, SMT DEF Answer, Leave, tables, config
  <1>11. CASE Fail(s)
    BY <1>11, SMT DEF Fail, Leave, Unlock, tables, config
  <1>12. CASE \E e \in Events : Deliver(s, e)
    BY <1>12, SMT DEF Deliver, tables, config
  <1> QED
    BY <1>1, <1>2, <1>3, <1>4, <1>5, <1>6, <1>7, <1>8, <1>9, <1>10, <1>11, <1>12 DEF Handle

(* Past the insert of a transaction its credit is there, and credits stay. *)
LEMMA StepGranted ==
  ASSUME TypeOK, Placed, Fresh, Granted, ClosedIsCredited, NEW s \in Slots,
         Handle(s) \/ Fail(s) \/ \E e \in Events : Deliver(s, e)
  PROVE  Granted'
  <1> USE EventsAssumption DEF TypeOK, Placed, Paid, Refs, Transactions, Fresh, Granted, ClosedIsCredited
  <1>1. CASE InsertEvent(s)
    BY <1>1, SMT DEF InsertEvent, Reply, Goto, Leave, config
  <1>2. CASE CheckProcessed(s)
    BY <1>2, SMT DEF CheckProcessed, Goto, tables, config
  <1>3. CASE Decide(s)
    BY <1>3, SMT DEF Decide, Command, Refused, Goto, Leave, tables, config
  <1>4. CASE LockRef(s)
    BY <1>4, SMT DEF LockRef, Goto, tables, config
  <1>5. CASE NotExists(s)
    BY <1>5, SMT DEF NotExists, tables, config
  <1>6. CASE Grant(s)
    BY <1>6, SMT DEF Grant, Reply, Goto, Leave, Unlock, config
  <1>7. CASE CapturePurchase(s)
    BY <1>7, SMT DEF CapturePurchase, Reply, Goto, Leave, tables, config
  <1>8. CASE ApplySubscription(s)
    BY <1>8, SMT DEF ApplySubscription, Reply, Goto, Leave, config
  <1>9. CASE MarkProcessed(s)
    BY <1>9, SMT DEF MarkProcessed, Reply, Goto, Leave, config
  <1>10. CASE Answer(s)
    BY <1>10, SMT DEF Answer, Leave, tables, config
  <1>11. CASE Fail(s)
    BY <1>11, SMT DEF Fail, Leave, Unlock, tables, config
  <1>12. CASE \E e \in Events : Deliver(s, e)
    BY <1>12, SMT DEF Deliver, tables, config
  <1> QED
    BY <1>1, <1>2, <1>3, <1>4, <1>5, <1>6, <1>7, <1>8, <1>9, <1>10, <1>11, <1>12 DEF Handle

(* A delivery captures only what it granted itself.                        *)
LEMMA StepCapturing ==
  ASSUME TypeOK, Placed, Fresh, Granted, Capturing, FunnelCountsGrants, NEW s \in Slots,
         Handle(s) \/ Fail(s) \/ \E e \in Events : Deliver(s, e)
  PROVE  Capturing'
  <1> USE EventsAssumption DEF TypeOK, Placed, Paid, Refs, Transactions, Fresh, Granted, Capturing, FunnelCountsGrants
  <1>1. CASE InsertEvent(s)
    BY <1>1, SMT DEF InsertEvent, Reply, Goto, Leave, config
  <1>2. CASE CheckProcessed(s)
    BY <1>2, SMT DEF CheckProcessed, Goto, tables, config
  <1>3. CASE Decide(s)
    BY <1>3, SMT DEF Decide, Command, Refused, Goto, Leave, tables, config
  <1>4. CASE LockRef(s)
    BY <1>4, SMT DEF LockRef, Goto, tables, config
  <1>5. CASE NotExists(s)
    BY <1>5, SMT DEF NotExists, tables, config
  <1>6. CASE Grant(s)
    BY <1>6, SMT DEF Grant, Reply, Goto, Leave, Unlock, config
  <1>7. CASE CapturePurchase(s)
    BY <1>7, SMT DEF CapturePurchase, Reply, Goto, Leave, tables, config
  <1>8. CASE ApplySubscription(s)
    BY <1>8, SMT DEF ApplySubscription, Reply, Goto, Leave, config
  <1>9. CASE MarkProcessed(s)
    BY <1>9, SMT DEF MarkProcessed, Reply, Goto, Leave, config
  <1>10. CASE Answer(s)
    BY <1>10, SMT DEF Answer, Leave, tables, config
  <1>11. CASE Fail(s)
    BY <1>11, SMT DEF Fail, Leave, Unlock, tables, config
  <1>12. CASE \E e \in Events : Deliver(s, e)
    BY <1>12, SMT DEF Deliver, tables, config
  <1> QED
    BY <1>1, <1>2, <1>3, <1>4, <1>5, <1>6, <1>7, <1>8, <1>9, <1>10, <1>11, <1>12 DEF Handle

(* One credit for one paid transaction.                                    *)
LEMMA StepOnce ==
  ASSUME TypeOK, Placed, Fresh, GrantedOnce, NEW s \in Slots,
         Handle(s) \/ Fail(s) \/ \E e \in Events : Deliver(s, e)
  PROVE  GrantedOnce'
  <1> USE EventsAssumption DEF TypeOK, Placed, Paid, Refs, Transactions, Fresh, GrantedOnce
  <1>1. CASE InsertEvent(s)
    BY <1>1, SMT DEF InsertEvent, Reply, Goto, Leave, config
  <1>2. CASE CheckProcessed(s)
    BY <1>2, SMT DEF CheckProcessed, Goto, tables, config
  <1>3. CASE Decide(s)
    BY <1>3, SMT DEF Decide, Command, Refused, Goto, Leave, tables, config
  <1>4. CASE LockRef(s)
    BY <1>4, SMT DEF LockRef, Goto, tables, config
  <1>5. CASE NotExists(s)
    BY <1>5, SMT DEF NotExists, tables, config
  <1>6. CASE Grant(s)
    BY <1>6, SMT DEF Grant, Reply, Goto, Leave, Unlock, config
  <1>7. CASE CapturePurchase(s)
    BY <1>7, SMT DEF CapturePurchase, Reply, Goto, Leave, tables, config
  <1>8. CASE ApplySubscription(s)
    BY <1>8, SMT DEF ApplySubscription, Reply, Goto, Leave, config
  <1>9. CASE MarkProcessed(s)
    BY <1>9, SMT DEF MarkProcessed, Reply, Goto, Leave, config
  <1>10. CASE Answer(s)
    BY <1>10, SMT DEF Answer, Leave, tables, config
  <1>11. CASE Fail(s)
    BY <1>11, SMT DEF Fail, Leave, Unlock, tables, config
  <1>12. CASE \E e \in Events : Deliver(s, e)
    BY <1>12, SMT DEF Deliver, tables, config
  <1> QED
    BY <1>1, <1>2, <1>3, <1>4, <1>5, <1>6, <1>7, <1>8, <1>9, <1>10, <1>11, <1>12 DEF Handle

(* Neither the stamp nor the 200 comes before the credit.                  *)
LEMMA StepClosed ==
  ASSUME TypeOK, Placed, Fresh, Granted, ClosedIsCredited, NEW s \in Slots,
         Handle(s) \/ Fail(s) \/ \E e \in Events : Deliver(s, e)
  PROVE  ClosedIsCredited'
  <1> USE EventsAssumption DEF TypeOK, Placed, Paid, Refs, Transactions, Fresh, Granted, ClosedIsCredited
  <1>1. CASE InsertEvent(s)
    BY <1>1, SMT DEF InsertEvent, Reply, Goto, Leave, config
  <1>2. CASE CheckProcessed(s)
    BY <1>2, SMT DEF CheckProcessed, Goto, tables, config
  <1>3. CASE Decide(s)
    BY <1>3, SMT DEF Decide, Command, Refused, Goto, Leave, tables, config
  <1>4. CASE LockRef(s)
    BY <1>4, SMT DEF LockRef, Goto, tables, config
  <1>5. CASE NotExists(s)
    BY <1>5, SMT DEF NotExists, tables, config
  <1>6. CASE Grant(s)
    BY <1>6, SMT DEF Grant, Reply, Goto, Leave, Unlock, config
  <1>7. CASE CapturePurchase(s)
    BY <1>7, SMT DEF CapturePurchase, Reply, Goto, Leave, tables, config
  <1>8. CASE ApplySubscription(s)
    BY <1>8, SMT DEF ApplySubscription, Reply, Goto, Leave, config
  <1>9. CASE MarkProcessed(s)
    BY <1>9, SMT DEF MarkProcessed, Reply, Goto, Leave, config
  <1>10. CASE Answer(s)
    BY <1>10, SMT DEF Answer, Leave, tables, config
  <1>11. CASE Fail(s)
    BY <1>11, SMT DEF Fail, Leave, Unlock, tables, config
  <1>12. CASE \E e \in Events : Deliver(s, e)
    BY <1>12, SMT DEF Deliver, tables, config
  <1> QED
    BY <1>1, <1>2, <1>3, <1>4, <1>5, <1>6, <1>7, <1>8, <1>9, <1>10, <1>11, <1>12 DEF Handle

(* The funnel counts a purchase that was granted.                          *)
LEMMA StepFunnel ==
  ASSUME TypeOK, Placed, Fresh, Granted, Capturing, FunnelCountsGrants, NEW s \in Slots,
         Handle(s) \/ Fail(s) \/ \E e \in Events : Deliver(s, e)
  PROVE  FunnelCountsGrants'
  <1> USE EventsAssumption DEF TypeOK, Placed, Paid, Refs, Transactions, Fresh, Granted, Capturing, FunnelCountsGrants
  <1>1. CASE InsertEvent(s)
    BY <1>1, SMT DEF InsertEvent, Reply, Goto, Leave, config
  <1>2. CASE CheckProcessed(s)
    BY <1>2, SMT DEF CheckProcessed, Goto, tables, config
  <1>3. CASE Decide(s)
    BY <1>3, SMT DEF Decide, Command, Refused, Goto, Leave, tables, config
  <1>4. CASE LockRef(s)
    BY <1>4, SMT DEF LockRef, Goto, tables, config
  <1>5. CASE NotExists(s)
    BY <1>5, SMT DEF NotExists, tables, config
  <1>6. CASE Grant(s)
    BY <1>6, SMT DEF Grant, Reply, Goto, Leave, Unlock, config
  <1>7. CASE CapturePurchase(s)
    BY <1>7, SMT DEF CapturePurchase, Reply, Goto, Leave, tables, config
  <1>8. CASE ApplySubscription(s)
    BY <1>8, SMT DEF ApplySubscription, Reply, Goto, Leave, config
  <1>9. CASE MarkProcessed(s)
    BY <1>9, SMT DEF MarkProcessed, Reply, Goto, Leave, config
  <1>10. CASE Answer(s)
    BY <1>10, SMT DEF Answer, Leave, tables, config
  <1>11. CASE Fail(s)
    BY <1>11, SMT DEF Fail, Leave, Unlock, tables, config
  <1>12. CASE \E e \in Events : Deliver(s, e)
    BY <1>12, SMT DEF Deliver, tables, config
  <1> QED
    BY <1>1, <1>2, <1>3, <1>4, <1>5, <1>6, <1>7, <1>8, <1>9, <1>10, <1>11, <1>12 DEF Handle

(* No event regresses the row.                                             *)
LEMMA StepNewest ==
  ASSUME TypeOK, Placed, NewestWins, NEW s \in Slots,
         Handle(s) \/ Fail(s) \/ \E e \in Events : Deliver(s, e)
  PROVE  NewestWins'
  <1> USE EventsAssumption DEF TypeOK, Placed, Paid, Subs, Subscriptions, NewestWins
  <1>1. CASE InsertEvent(s)
    BY <1>1, SMT DEF InsertEvent, Reply, Goto, Leave, config
  <1>2. CASE CheckProcessed(s)
    BY <1>2, SMT DEF CheckProcessed, Goto, tables, config
  <1>3. CASE Decide(s)
    BY <1>3, SMT DEF Decide, Command, Refused, Goto, Leave, tables, config
  <1>4. CASE LockRef(s)
    BY <1>4, SMT DEF LockRef, Goto, tables, config
  <1>5. CASE NotExists(s)
    BY <1>5, SMT DEF NotExists, tables, config
  <1>6. CASE Grant(s)
    BY <1>6, SMT DEF Grant, Reply, Goto, Leave, Unlock, config
  <1>7. CASE CapturePurchase(s)
    BY <1>7, SMT DEF CapturePurchase, Reply, Goto, Leave, tables, config
  <1>8. CASE ApplySubscription(s)
    BY <1>8, SMT DEF ApplySubscription, Reply, Goto, Leave, config
  <1>9. CASE MarkProcessed(s)
    BY <1>9, SMT DEF MarkProcessed, Reply, Goto, Leave, config
  <1>10. CASE Answer(s)
    BY <1>10, SMT DEF Answer, Leave, tables, config
  <1>11. CASE Fail(s)
    BY <1>11, SMT DEF Fail, Leave, Unlock, tables, config
  <1>12. CASE \E e \in Events : Deliver(s, e)
    BY <1>12, SMT DEF Deliver, tables, config
  <1> QED
    BY <1>1, <1>2, <1>3, <1>4, <1>5, <1>6, <1>7, <1>8, <1>9, <1>10, <1>11, <1>12 DEF Handle

(* The operator touches no table and no delivery, nor does a stutter.      *)
LEMMA OperatorKeeps == IInv /\ (Operator \/ UNCHANGED vars) => IInv'
  <1> SUFFICES ASSUME IInv, Operator \/ UNCHANGED vars PROVE IInv'
    OBVIOUS
  <1>1. UNCHANGED <<tables, lock, pc, event, unseen, acked, funnel, ran>>
    BY DEF Operator, vars
  <1>2. TypeOK'
    <2>1. mapped' \in BOOLEAN /\ enforced' \in BOOLEAN
      BY Zenon DEF IInv, TypeOK, Operator, vars, config
    <2> QED
      BY <1>1, <2>1, SMT DEF IInv, TypeOK, tables
  <1>3. (Placed /\ Holding /\ Fresh /\ Granted /\ Capturing)'
    BY <1>1, SMT DEF IInv, Placed, Paid, Holding, Fresh, Granted, Capturing, tables
  <1>4. (GrantedOnce /\ ClosedIsCredited /\ FunnelCountsGrants /\ NewestWins)'
    BY <1>1, SMT DEF IInv, GrantedOnce, ClosedIsCredited, FunnelCountsGrants, NewestWins, tables
  <1> QED
    BY <1>2, <1>3, <1>4 DEF IInv

(* The invariant is inductive.                                             *)
LEMMA Inductive == IInv /\ [Next]_vars => IInv'
  <1> SUFFICES ASSUME IInv, [Next]_vars PROVE IInv'
    OBVIOUS
  <1>1. ASSUME NEW s \in Slots,
               Handle(s) \/ Fail(s) \/ \E e \in Events : Deliver(s, e)
        PROVE  IInv'
    <2> USE <1>1 DEF IInv
    <2>1. TypeOK' /\ Placed' /\ Holding'
      BY StepType, StepPlaced, StepHolding
    <2>2. Fresh' /\ Granted' /\ Capturing'
      BY StepFresh, StepGranted, StepCapturing
    <2>3. GrantedOnce' /\ ClosedIsCredited' /\ FunnelCountsGrants' /\ NewestWins'
      BY StepOnce, StepClosed, StepFunnel, StepNewest
    <2> QED
      BY <2>1, <2>2, <2>3
  <1>2. CASE Operator \/ UNCHANGED vars
    BY <1>2, OperatorKeeps
  <1> QED
    BY <1>1, <1>2 DEF Next

-----------------------------------------------------------------------------
(* Every reachable state satisfies the inductive invariant.                *)
THEOREM Safety == Spec => []IInv
  <1> QED
    BY InitIInv, Inductive, PTL DEF Spec

(* The state keeps its types, and a held purchase lock has an owner inside *)
(* process_paddle_purchase for that ref.                                   *)
THEOREM TypeCorrect == Spec => []TypeOK
  <1>1. IInv => TypeOK
    BY DEF IInv
  <1> QED
    BY <1>1, Safety, PTL

(* A paid transaction is credited at most once, for any number of event    *)
(* ids and of concurrent deliveries.                                       *)
THEOREM SingleGrant == Spec => []GrantedOnce
  <1>1. IInv => GrantedOnce
    BY DEF IInv
  <1> QED
    BY <1>1, Safety, PTL

(* A paid transaction is closed, by stamp or by 200, only with its credit  *)
(* in the ledger.                                                          *)
THEOREM NoSilentClose == Spec => []ClosedIsCredited
  <1>1. IInv => ClosedIsCredited
    BY DEF IInv
  <1> QED
    BY <1>1, Safety, PTL

(* capturePurchase never counts a purchase the ledger does not hold.       *)
THEOREM FunnelIsHonest == Spec => []FunnelCountsGrants
  <1>1. IInv => FunnelCountsGrants
    BY DEF IInv
  <1> QED
    BY <1>1, Safety, PTL

(* No delivery order regresses a subscription.                             *)
THEOREM NeverRegresses == Spec => []NewestWins
  <1>1. IInv => NewestWins
    BY DEF IInv
  <1> QED
    BY <1>1, Safety, PTL
=============================================================================
