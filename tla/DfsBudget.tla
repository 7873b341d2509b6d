----------------------------- MODULE DfsBudget -----------------------------
(***************************************************************************)
(* The vendor budget: one row of dfs_spend per vendor operation, booked at *)
(* its estimate before the first request and settled at its cost after the *)
(* last one, by the transactions of migration 0014 under one advisory lock *)
(* per UTC day (dfs/budget.ts and the ports that call it).                 *)
(*                                                                         *)
(* Amounts are whole units of money.  A transaction takes its day when it  *)
(* starts, waits for the lock, reads, writes and ends, each in a step of   *)
(* its own; its reply may be lost, it may be rolled back, and the process  *)
(* may die anywhere.  The SQL sum over a day's rows is kept as a variable. *)
(***************************************************************************)
EXTENDS Integers

CONSTANTS
    Calls,           \* vendor operations
    LastDay,         \* bound: the days are 1 .. LastDay
    Cap,             \* dfs_daily_budget_usd()
    Estimate,        \* what each operation books
    Requests,        \* the requests of its fan-out
    Unit,            \* the estimate of one request
    Prices,          \* what the vendor may bill for one request
    PricedRefusals,  \* operations of dfs/llm-mentions.ts
    Nil              \* nobody holds the lock

Days == 1 .. LastDay

ASSUME BudgetAssumption ==
    /\ LastDay \in Nat \ {0} /\ Cap \in Nat /\ Unit \in Nat
    /\ Estimate \in [Calls -> Nat \ {0}] /\ Requests \in [Calls -> Nat \ {0}]
    /\ Prices \subseteq Nat /\ PricedRefusals \subseteq Calls /\ Nil \notin Calls

VARIABLES
    today,    \* the UTC date
    rows,     \* dfs_spend, by operation
    total,    \* sum(coalesce(actual_usd, estimated_usd)) of each day's rows
    lock,     \* holder of each day's advisory lock
    pc,       \* where each operation stands
    day,      \* v_day of its transaction
    spent,    \* v_spent of its reservation
    left,     \* requests it has still to send
    tally,    \* what it will settle at
    billed,   \* history: what the vendor billed for each operation
    over      \* history: settlements above their estimate, by day

locals  == <<pc, day, spent, left, tally>>
history == <<billed, over>>
vars == <<today, rows, total, lock, locals, history>>

TypeOK ==
    /\ today \in Days
    /\ rows \in [Calls -> [state : {"none", "open", "settled"}, day : Days, cost : Nat]]
    /\ total \in [Days -> Int]
    /\ lock \in [Days -> Calls \cup {Nil}]
    /\ pc \in [Calls -> {"idle", "reserve", "read", "book", "request",
                           "settle", "update", "done"}]
    /\ day \in [Calls -> Days] /\ spent \in [Calls -> Int]
    /\ left \in [Calls -> Nat] /\ tally \in [Calls -> Nat]
    /\ billed \in [Calls -> Nat] /\ over \in [Days -> Nat]

Init ==
    /\ today = 1
    /\ rows = [c \in Calls |-> [state |-> "none", day |-> 1, cost |-> 0]]
    /\ total = [d \in Days |-> 0]
    /\ lock = [d \in Days |-> Nil]
    /\ pc = [c \in Calls |-> "idle"] /\ day = [c \in Calls |-> 1]
    /\ spent = [c \in Calls |-> 0] /\ left = [c \in Calls |-> 0] /\ tally = [c \in Calls |-> 0]
    /\ billed = [c \in Calls |-> 0]
    /\ over = [d \in Days |-> 0]

At(c, place)   == pc[c] = place
Goto(c, place) == pc' = [pc EXCEPT ![c] = place]

-----------------------------------------------------------------------------
(* Transactions.                                                           *)

(* v_day is now() at the start of the transaction, before any wait.        *)
BeginReserve(c) ==
    /\ At(c, "idle")
    /\ Goto(c, "reserve")
    /\ day' = [day EXCEPT ![c] = today]
    /\ UNCHANGED <<today, rows, total, lock, spent, left, tally, history>>

(* Mutant: the check is not serialised.                                    *)
TakeLock_None(c) ==
    /\ \/ At(c, "reserve") /\ Goto(c, "read")
       \/ At(c, "settle")  /\ Goto(c, "update")
    /\ UNCHANGED <<today, rows, total, lock, day, spent, left, tally, history>>

(* pg_advisory_xact_lock: the day booked, or to book.                      *)
TakeLock(c) ==
    /\ \/ At(c, "reserve") /\ Goto(c, "read")
       \/ At(c, "settle")  /\ Goto(c, "update")
    /\ lock[day[c]] = Nil
    /\ lock' = [lock EXCEPT ![day[c]] = c]
    /\ UNCHANGED <<today, rows, total, day, spent, left, tally, history>>

Unlock(c) == lock' = [d \in Days |-> IF lock[d] = c THEN Nil ELSE lock[d]]

ReadTotal(c) ==
    /\ At(c, "read")
    /\ Goto(c, "book")
    /\ spent' = [spent EXCEPT ![c] = total[day[c]]]
    /\ UNCHANGED <<today, rows, total, lock, day, left, tally, history>>

Refuse(c) ==
    /\ At(c, "book") /\ spent[c] + Estimate[c] > Cap
    /\ Goto(c, "done") /\ Unlock(c)
    /\ UNCHANGED <<today, rows, total, day, spent, left, tally, history>>

(* The insert.  If its reply is lost the call is refused and the row stays.*)
Book(c) ==
    /\ At(c, "book") /\ spent[c] + Estimate[c] <= Cap
    /\ rows' = [rows EXCEPT ![c] = [state |-> "open", day |-> day[c], cost |-> 0]]
    /\ total' = [total EXCEPT ![day[c]] = @ + Estimate[c]]
    /\ Goto(c, "request") \/ Goto(c, "done")
    /\ left' = [left EXCEPT ![c] = Requests[c]]
    /\ Unlock(c)
    /\ UNCHANGED <<today, day, spent, tally, history>>

(* settle_dfs_spend.  No caller settles an operation twice; settleSpend    *)
(* swallows every error, so the reply does not matter.                     *)
Settle(c) ==
    /\ At(c, "update") /\ rows[c].state = "open"
    /\ rows' = [rows EXCEPT ![c] = [state |-> "settled", day |-> @.day, cost |-> tally[c]]]
    /\ total' = [total EXCEPT ![day[c]] = @ + tally[c] - Estimate[c]]
    /\ over' = [over EXCEPT ![day[c]] =
                   IF tally[c] > Estimate[c] THEN @ + tally[c] - Estimate[c] ELSE @]
    /\ Goto(c, "done") /\ Unlock(c)
    /\ UNCHANGED <<today, day, spent, left, tally, billed>>

(* A transaction is rolled back: the reserve refuses, the settlement is    *)
(* logged and its row stays open.                                          *)
Rollback(c) ==
    /\ pc[c] \in {"reserve", "read", "book", "settle", "update"}
    /\ Goto(c, "done") /\ Unlock(c)
    /\ UNCHANGED <<today, rows, total, day, spent, left, tally, history>>

-----------------------------------------------------------------------------
(* The vendor requests of one operation, one after the other.              *)

Bill(c, price) ==
    /\ billed' = [billed EXCEPT ![c] = @ + price]
    /\ UNCHANGED <<today, rows, total, lock, day, spent, over>>

(* Mutant: the fan-out sends one request too many.                         *)
Answered_OneMore(c) ==
    /\ At(c, "request")
    /\ Goto(c, "request") \/ Goto(c, "settle")
    /\ left' = [left EXCEPT ![c] = @ - 1]
    /\ \E price \in Prices : \E counted \in {price, Unit} :
          /\ tally' = [tally EXCEPT ![c] = @ + counted]
          /\ Bill(c, price)

(* A response without a price is counted at the request's estimate.  The   *)
(* operation goes on with the next request or, when none is left or the    *)
(* rest is skipped, with the settlement of its tally.                      *)
Answered(c) ==
    /\ At(c, "request")
    /\ (left[c] > 1 /\ Goto(c, "request")) \/ Goto(c, "settle")
    /\ left' = [left EXCEPT ![c] = @ - 1]
    /\ \E price \in Prices : \E counted \in {price, Unit} :
          /\ tally' = [tally EXCEPT ![c] = @ + counted]
          /\ Bill(c, price)

(* Mutant: a failed operation settles what the answered requests cost.     *)
Failed_Tally(c) ==
    /\ At(c, "request")
    /\ Goto(c, "settle")
    /\ \E price \in Prices \cup {0} : Bill(c, price)
    /\ UNCHANGED <<left, tally>>

(* settleFailedSpend: the estimate of the whole operation, whether or not  *)
(* the vendor bills the failed request.                                    *)
Failed(c) ==
    /\ At(c, "request")
    /\ Goto(c, "settle")
    /\ tally' = [tally EXCEPT ![c] = Estimate[c]]
    /\ \E price \in Prices \cup {0} : Bill(c, price)
    /\ UNCHANGED left

(* llm-mentions settles a refusal at the price its response carries.       *)
RefusedWithPrice(c) ==
    /\ At(c, "request") /\ c \in PricedRefusals
    /\ Goto(c, "settle")
    /\ \E price, told \in Prices \cup {0} :
          /\ tally' = [tally EXCEPT ![c] = told]
          /\ Bill(c, price)
    /\ UNCHANGED left

Crash(c) ==
    /\ pc[c] \in {"request", "settle"}
    /\ Goto(c, "done")
    /\ UNCHANGED <<today, rows, total, lock, day, spent, left, tally, history>>

NextDay ==
    /\ today < LastDay
    /\ today' = today + 1
    /\ UNCHANGED <<rows, total, lock, locals, history>>

-----------------------------------------------------------------------------
Step(c) ==
    \/ BeginReserve(c) \/ TakeLock(c) \/ ReadTotal(c) \/ Refuse(c) \/ Book(c) \/ Settle(c)
    \/ Rollback(c) \/ Answered(c) \/ Failed(c) \/ RefusedWithPrice(c) \/ Crash(c)

Next == NextDay \/ \E c \in Calls : Step(c)

Spec == Init /\ [][Next]_vars
=============================================================================
