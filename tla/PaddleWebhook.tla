--------------------------- MODULE PaddleWebhook ---------------------------
(***************************************************************************)
(* The payment webhook: Paddle delivers every event at least once and in   *)
(* any order, and delivers it again until it is answered 200; the route    *)
(* records it, decides what it is worth, applies it and stamps it          *)
(* processed (apps/web/app/api/paddle/webhook/route.ts, paddle-repo.ts and *)
(* the functions of migrations 0013 and 0018).                             *)
(*                                                                         *)
(* Deliveries run concurrently, each database call being one step; the     *)
(* purchase transaction is modelled statement by statement.  Any call may  *)
(* fail, or take effect and lose its reply: both end the delivery in a 500.*)
(* The operator may change the price map and the attribution flag.         *)
(***************************************************************************)
EXTENDS Naturals

CONSTANTS
    Events,     \* Paddle's event ids
    Kind,       \* "transaction", "subscription" or "other", by event
    About,      \* the transaction ref or the subscription, by event
    OccurredAt, \* by event
    Unproved,   \* events whose attribution token enforcement refuses
    Slots,      \* deliveries handled at the same time
    Nil

Transactions  == {e \in Events : Kind[e] = "transaction"}
Subscriptions == {e \in Events : Kind[e] = "subscription"}
Refs          == {About[e] : e \in Transactions}
Subs          == {About[e] : e \in Subscriptions}

ASSUME EventsAssumption ==
    /\ Kind \in [Events -> {"transaction", "subscription", "other"}]
    /\ OccurredAt \in [Events -> Nat]
    /\ Unproved \subseteq Events /\ Nil \notin Events \cup Slots

VARIABLES
    stored,     \* paddle_events: the recorded events
    stamped,    \* those with processed_at set
    purchases,  \* purchase rows in credit_ledger, by ref
    subs,       \* subscriptions: the event whose state each row holds
    lock,       \* advisory lock paddle_purchase:<ref>
    pc, event, unseen, \* the deliveries: where each stands, its event, NOT EXISTS
    acked,      \* events Paddle got a 200 for
    mapped,     \* does the price map know the prices?
    enforced,   \* PADDLE_ATTRIBUTION_ENFORCE
    funnel,     \* purchase events sent to analytics, by ref
    ran         \* history: subscription events that reached the database

tables == <<stored, stamped, purchases, subs>>
config == <<mapped, enforced>>
vars == <<tables, lock, pc, event, unseen, acked, config, funnel, ran>>

Steps == {"idle", "insert", "check", "decide", "lock", "read", "write", "capture", "apply",
          "mark", "ack"}

TypeOK ==
    /\ stamped \subseteq stored /\ stored \subseteq Events /\ acked \subseteq Events
    /\ purchases \in [Refs -> Nat] /\ funnel \in [Refs -> Nat]
    /\ subs \in [Subs -> Subscriptions \cup {Nil}] /\ ran \subseteq Subscriptions
    /\ lock \in [Refs -> Slots \cup {Nil}]
    /\ mapped \in BOOLEAN /\ enforced \in BOOLEAN
    /\ pc \in [Slots -> Steps] /\ event \in [Slots -> Events \cup {Nil}]
    /\ unseen \in [Slots -> BOOLEAN]
    /\ \A r \in Refs : lock[r] # Nil =>
          /\ pc[lock[r]] \in {"read", "write"}
          /\ event[lock[r]] \in Transactions /\ About[event[lock[r]]] = r

Init ==
    /\ stored = {} /\ stamped = {} /\ acked = {} /\ ran = {}
    /\ purchases = [r \in Refs |-> 0] /\ funnel = [r \in Refs |-> 0]
    /\ subs = [x \in Subs |-> Nil]
    /\ lock = [r \in Refs |-> Nil]
    /\ pc = [s \in Slots |-> "idle"] /\ event = [s \in Slots |-> Nil]
    /\ unseen = [s \in Slots |-> FALSE]
    /\ mapped \in BOOLEAN /\ enforced \in BOOLEAN

-----------------------------------------------------------------------------
Goto(s, step) == pc' = [pc EXCEPT ![s] = step] /\ UNCHANGED <<event, unseen>>

Leave(s) ==
    /\ pc' = [pc EXCEPT ![s] = "idle"]
    /\ event' = [event EXCEPT ![s] = Nil]
    /\ unseen' = [unseen EXCEPT ![s] = FALSE]

(* After a call took effect its reply arrives, or the delivery ends in 500.*)
Reply(s, step) == Goto(s, step) \/ Leave(s)

Unlock(s) == lock' = [r \in Refs |-> IF lock[r] = s THEN Nil ELSE lock[r]]

Deliver(s, e) ==
    /\ pc[s] = "idle"
    /\ pc' = [pc EXCEPT ![s] = "insert"] /\ event' = [event EXCEPT ![s] = e]
    /\ UNCHANGED <<unseen, tables, lock, acked, config, funnel, ran>>

(* insertEvent: ON CONFLICT DO NOTHING tells a first delivery from a retry.*)
InsertEvent(s) ==
    /\ pc[s] = "insert"
    /\ stored' = stored \cup {event[s]}
    /\ Reply(s, IF event[s] \in stored THEN "check" ELSE "decide")
    /\ UNCHANGED <<stamped, purchases, subs, lock, acked, config, funnel, ran>>

(* Mutant: a recorded event is a duplicate, whether or not it was stamped. *)
CheckProcessed_RecordedIsDone(s) ==
    /\ pc[s] = "check"
    /\ Goto(s, "ack")
    /\ UNCHANGED <<tables, lock, acked, config, funnel, ran>>

CheckProcessed(s) ==
    /\ pc[s] = "check"
    /\ Goto(s, IF event[s] \in stamped THEN "ack" ELSE "decide")
    /\ UNCHANGED <<tables, lock, acked, config, funnel, ran>>

(* ledgerCommandFor and decideTenant.  An unmapped paid transaction and a  *)
(* refused attribution are answered 500 and stay open; any other event     *)
(* that is worth no command is only stamped.                               *)
Command(e) ==
    CASE mapped /\ Kind[e] = "transaction"  -> "lock"
      [] mapped /\ Kind[e] = "subscription" -> "apply"
      [] OTHER -> "mark"

Refused(e) == Command(e) # "mark" /\ enforced /\ e \in Unproved

(* Mutant: everything that is worth no command is stamped.                 *)
Decide_StampsUnmapped(s) ==
    /\ pc[s] = "decide"
    /\ IF Refused(event[s])
       THEN Leave(s)
       ELSE Goto(s, Command(event[s]))
    /\ UNCHANGED <<tables, lock, acked, config, funnel, ran>>

Decide(s) ==
    /\ pc[s] = "decide"
    /\ IF \/ Refused(event[s])
          \/ Command(event[s]) = "mark" /\ Kind[event[s]] = "transaction"
       THEN Leave(s)
       ELSE Goto(s, Command(event[s]))
    /\ UNCHANGED <<tables, lock, acked, config, funnel, ran>>
-----------------------------------------------------------------------------
(* process_paddle_purchase.                                                *)

(* Mutant: two deliveries of one ref race through NOT EXISTS.              *)
LockRef_None(s) ==
    /\ pc[s] = "lock"
    /\ Goto(s, "read")
    /\ UNCHANGED <<tables, lock, acked, config, funnel, ran>>

LockRef(s) ==
    /\ pc[s] = "lock" /\ lock[About[event[s]]] = Nil
    /\ lock' = [lock EXCEPT ![About[event[s]]] = s]
    /\ Goto(s, "read")
    /\ UNCHANGED <<tables, acked, config, funnel, ran>>

NotExists(s) ==
    /\ pc[s] = "read" /\ event[s] \in stored
    /\ pc' = [pc EXCEPT ![s] = "write"]
    /\ unseen' = [unseen EXCEPT ![s] = purchases[About[event[s]]] = 0]
    /\ UNCHANGED <<event, tables, lock, acked, config, funnel, ran>>

(* Mutants: analytics hear of every delivery; the lock outlives the        *)
(* transaction.                                                            *)
Grant_CapturesAlways(s) ==
    /\ pc[s] = "write"
    /\ purchases' = [purchases EXCEPT ![About[event[s]]] = IF unseen[s] THEN @ + 1 ELSE @]
    /\ stamped' = stamped \cup {event[s]}
    /\ Unlock(s)
    /\ Reply(s, "capture")
    /\ UNCHANGED <<stored, subs, acked, config, funnel, ran>>

Grant_KeepsLock(s) ==
    /\ pc[s] = "write"
    /\ purchases' = [purchases EXCEPT ![About[event[s]]] = IF unseen[s] THEN @ + 1 ELSE @]
    /\ stamped' = stamped \cup {event[s]}
    /\ Reply(s, IF unseen[s] THEN "capture" ELSE "ack")
    /\ UNCHANGED <<stored, subs, lock, acked, config, funnel, ran>>

(* The grant and the stamp commit together, then the lock is free.         *)
Grant(s) ==
    /\ pc[s] = "write"
    /\ purchases' = [purchases EXCEPT ![About[event[s]]] = IF unseen[s] THEN @ + 1 ELSE @]
    /\ stamped' = stamped \cup {event[s]}
    /\ Unlock(s)
    /\ Reply(s, IF unseen[s] THEN "capture" ELSE "ack")
    /\ UNCHANGED <<stored, subs, acked, config, funnel, ran>>

(* safeCapture swallows its error.                                         *)
CapturePurchase(s) ==
    /\ pc[s] = "capture"
    /\ \/ funnel' = [funnel EXCEPT ![About[event[s]]] = @ + 1]
       \/ UNCHANGED funnel
    /\ Reply(s, "ack")
    /\ UNCHANGED <<tables, lock, acked, config, ran>>

-----------------------------------------------------------------------------
(* Subscription state, stamps and answers.                                 *)

(* Mutant: the last event to arrive wins.                                  *)
ApplySubscription_LastWins(s) ==
    /\ pc[s] = "apply"
    /\ subs' = [subs EXCEPT ![About[event[s]]] = event[s]]
    /\ ran' = ran \cup {event[s]}
    /\ Reply(s, "mark")
    /\ UNCHANGED <<stored, stamped, purchases, lock, acked, config, funnel>>

(* apply_subscription_event: insert, or update if strictly newer.          *)
ApplySubscription(s) ==
    /\ pc[s] = "apply"
    /\ subs' = [subs EXCEPT ![About[event[s]]] =
                  IF @ = Nil THEN event[s]
                  ELSE IF OccurredAt[event[s]] > OccurredAt[@] THEN event[s] ELSE @]
    /\ ran' = ran \cup {event[s]}
    /\ Reply(s, "mark")
    /\ UNCHANGED <<stored, stamped, purchases, lock, acked, config, funnel>>

MarkProcessed(s) ==
    /\ pc[s] = "mark"
    /\ stamped' = stamped \cup {event[s]}
    /\ Reply(s, "ack")
    /\ UNCHANGED <<stored, purchases, subs, lock, acked, config, funnel, ran>>

(* The 200 reaches Paddle, or is lost.                                     *)
Answer(s) ==
    /\ pc[s] = "ack"
    /\ acked' = acked \cup {event[s]} \/ UNCHANGED acked
    /\ Leave(s)
    /\ UNCHANGED <<tables, lock, config, funnel, ran>>

(* A call fails, the function dies or the transaction is rolled back.      *)
Fail(s) ==
    /\ pc[s] # "idle"
    /\ Leave(s) /\ Unlock(s)
    /\ UNCHANGED <<tables, acked, config, funnel, ran>>

Operator ==
    /\ \/ mapped' = ~mapped /\ UNCHANGED enforced
       \/ enforced' = ~enforced /\ UNCHANGED mapped
    /\ UNCHANGED <<tables, lock, pc, event, unseen, acked, funnel, ran>>

-----------------------------------------------------------------------------
Handle(s) ==
    \/ InsertEvent(s) \/ CheckProcessed(s) \/ Decide(s) \/ LockRef(s) \/ NotExists(s)
    \/ Grant(s) \/ CapturePurchase(s) \/ ApplySubscription(s) \/ MarkProcessed(s) \/ Answer(s)

Next ==
    \/ \E s \in Slots : Handle(s) \/ Fail(s) \/ \E e \in Events : Deliver(s, e)
    \/ Operator

Spec == Init /\ [][Next]_vars
=============================================================================
