---------------------------- MODULE CreditLedger ----------------------------
(***************************************************************************)
(* The credit ledger as the database runs it: the RPCs of migration 0033   *)
(* (reserve_credits, commit_reserve, release_reserve), the adjust guard of *)
(* 0019 and the writers that take no user lock (grants, purchases,         *)
(* deliberate `override:` corrections), over the append-only table of 0002 *)
(* with the shape rules and the unique index of 0011.                      *)
(*                                                                         *)
(* A locked RPC is one READ COMMITTED transaction whose statements each    *)
(* take a fresh snapshot, with other sessions running between any two:     *)
(* find the reserve row, take pg_advisory_xact_lock on the user, read (the *)
(* balance, or whether the reserve is settled), insert.  The insert and    *)
(* the commit that frees the lock are one step: nobody sees the row before *)
(* that.  The reserve id, a fresh uuid, is chosen at the insert for the    *)
(* same reason.                                                            *)
(***************************************************************************)
EXTENDS Integers

CONSTANTS
    Users,      \* tenants (auth.users)
    Reserves,   \* the values gen_random_uuid() may return as a reserve_id
    Jobs,       \* the job_id values a reserve may carry
    Sessions,   \* database sessions
    Amounts,    \* credit amounts
    Corrected,  \* the users an operator may correct with `override:`
    MaxNet,     \* bound on |what one user was granted, net of corrections|
    Nil         \* SQL NULL; also "the advisory lock is free"

ASSUME AmountsAssumption == Amounts \subseteq Nat \ {0}
ASSUME CorrectedAssumption == Corrected \subseteq Users
ASSUME NetAssumption     == MaxNet \in Nat
ASSUME NilAssumption     == Nil \notin Users \cup Reserves \cup Jobs \cup Sessions

VARIABLES
    balance,    \* credit_balances: SUM(delta) of a user's committed rows
    reserve,    \* what the spend_* rows say of each reserve
    lock,       \* holder of pg_advisory_xact_lock(hashtext(user_id))
    txn,        \* the transaction each session is running
    net         \* history: grants and purchases, net of corrections

vars == <<balance, reserve, lock, txn, net>>

Statuses == {"none", "open", "committed", "released"}
Steps    == {"idle", "lock", "read", "insert"}
Ops      == {"none", "reserve", "adjust", "commit_reserve", "release_reserve"}

NoRow == [status |-> "none", user |-> Nil, amount |-> 0, job |-> Nil]
NoTxn == [step |-> "idle", op |-> "none", user |-> Nil, reserve |-> Nil,
          amount |-> 0, job |-> Nil]

TypeOK ==
    /\ balance \in [Users -> Int]
    /\ reserve \in [Reserves -> [status : Statuses, user : Users \cup {Nil},
                                 amount : Nat, job : Jobs \cup {Nil}]]
    /\ lock \in [Users -> Sessions \cup {Nil}]
    /\ txn \in [Sessions -> [step : Steps, op : Ops, user : Users \cup {Nil},
                             reserve : Reserves \cup {Nil}, amount : Nat,
                             job : Jobs \cup {Nil}]]
    /\ net \in [Users -> Int]

Init ==
    /\ balance = [u \in Users |-> 0]
    /\ reserve = [r \in Reserves |-> NoRow]
    /\ lock = [u \in Users |-> Nil]
    /\ txn = [s \in Sessions |-> NoTxn]
    /\ net = [u \in Users |-> 0]

-----------------------------------------------------------------------------
(* Calls: up to the advisory lock.                                         *)

Begin(s, op, u, r, a, j) ==
    /\ txn[s].step = "idle"
    /\ txn' = [txn EXCEPT ![s] = [step |-> "lock", op |-> op, user |-> u,
                                  reserve |-> r, amount |-> a, job |-> j]]
    /\ UNCHANGED <<balance, reserve, lock, net>>

CallReserve(s, u, a, j) == Begin(s, "reserve", u, Nil, a, j)

(* An unmarked negative adjust: the 0019 trigger fires before the insert.  *)
CallAdjust(s, u, a) == Begin(s, "adjust", u, Nil, a, Nil)

(* The first SELECT finds the spend_reserve row (and whose lock to take);  *)
(* without one the RPC raises "unknown reserve".                           *)
CallSettle(s, r, op) ==
    /\ reserve[r].status # "none"
    /\ Begin(s, op, reserve[r].user, r, reserve[r].amount, Nil)

(* Mutant: a private key per session serializes against nothing.           *)
TakeLock_PrivateKey(s) ==
    /\ txn[s].step = "lock"
    /\ lock' = [lock EXCEPT ![txn[s].user] = s]
    /\ txn' = [txn EXCEPT ![s].step = "read"]
    /\ UNCHANGED <<balance, reserve, net>>

(* pg_advisory_xact_lock: waits until the user's key is free.              *)
TakeLock(s) ==
    /\ txn[s].step = "lock"
    /\ lock[txn[s].user] = Nil
    /\ lock' = [lock EXCEPT ![txn[s].user] = s]
    /\ txn' = [txn EXCEPT ![s].step = "read"]
    /\ UNCHANGED <<balance, reserve, net>>

(* The transaction is over: its lock, if it holds one, is free again.      *)
EndTxn(s) ==
    /\ txn' = [txn EXCEPT ![s] = NoTxn]
    /\ lock' = [u \in Users |-> IF lock[u] = s THEN Nil ELSE lock[u]]

(* Mutant: open-or-settled is decided by the lookup before the lock only.  *)
Permitted_LookupOnly(t) ==
    t.op \in {"reserve", "adjust"} => balance[t.user] >= t.amount

(* The read under the lock.  Too little balance raises "insufficient       *)
(* balance", a settling row raises "reserve already settled": the          *)
(* transaction is rolled back.                                             *)
Permitted(t) ==
    IF t.op \in {"reserve", "adjust"}
    THEN balance[t.user] >= t.amount
    ELSE reserve[t.reserve].status = "open"

ReadUnderLock(s) ==
    /\ txn[s].step = "read"
    /\ IF Permitted(txn[s])
       THEN txn' = [txn EXCEPT ![s].step = "insert"] /\ UNCHANGED lock
       ELSE EndTxn(s)
    /\ UNCHANGED <<balance, reserve, net>>

-----------------------------------------------------------------------------
(* Inserts.                                                                *)

(* credit_ledger_one_reserve_per_job: no spend_reserve row of that job yet;*)
(* a synchronous call carries no job_id and is never in the way.           *)
JobIsFree(j) ==
    j # Nil => \A r \in Reserves : reserve[r].status # "none" => reserve[r].job # j

(* Mutant: the reserve row keeps the signed delta as its amount.           *)
InsertReserve_SignedAmount(s) ==
    /\ txn[s].step = "insert" /\ txn[s].op = "reserve"
    /\ JobIsFree(txn[s].job)
    /\ \E r \in Reserves :
          /\ reserve[r].status = "none"
          /\ reserve' = [reserve EXCEPT ![r] =
                [status |-> "open", user |-> txn[s].user,
                 amount |-> -txn[s].amount, job |-> txn[s].job]]
    /\ balance' = [balance EXCEPT ![txn[s].user] = @ - txn[s].amount]
    /\ EndTxn(s)
    /\ UNCHANGED net

InsertReserve(s) ==
    /\ txn[s].step = "insert" /\ txn[s].op = "reserve"
    /\ JobIsFree(txn[s].job)
    /\ \E r \in Reserves :
          /\ reserve[r].status = "none"
          /\ reserve' = [reserve EXCEPT ![r] =
                [status |-> "open", user |-> txn[s].user,
                 amount |-> txn[s].amount, job |-> txn[s].job]]
    /\ balance' = [balance EXCEPT ![txn[s].user] = @ - txn[s].amount]
    /\ EndTxn(s)
    /\ UNCHANGED net

InsertAdjust(s) ==
    /\ txn[s].step = "insert" /\ txn[s].op = "adjust"
    /\ balance' = [balance EXCEPT ![txn[s].user] = @ - txn[s].amount]
    /\ net' = [net EXCEPT ![txn[s].user] = @ - txn[s].amount]
    /\ EndTxn(s)
    /\ UNCHANGED reserve

(* Mutant: the commit debits what the reserve already debited.             *)
InsertCommit_Debits(s) ==
    /\ txn[s].step = "insert" /\ txn[s].op = "commit_reserve"
    /\ reserve' = [reserve EXCEPT ![txn[s].reserve].status = "committed"]
    /\ balance' = [balance EXCEPT ![txn[s].user] = @ - txn[s].amount]
    /\ EndTxn(s)
    /\ UNCHANGED net

(* spend_commit carries delta 0: the balance moved when it was reserved.   *)
InsertCommit(s) ==
    /\ txn[s].step = "insert" /\ txn[s].op = "commit_reserve"
    /\ reserve' = [reserve EXCEPT ![txn[s].reserve].status = "committed"]
    /\ EndTxn(s)
    /\ UNCHANGED <<balance, net>>

(* Mutant: v_delta instead of -v_delta, the refund takes the money again.  *)
InsertRelease_WrongSign(s) ==
    /\ txn[s].step = "insert" /\ txn[s].op = "release_reserve"
    /\ reserve' = [reserve EXCEPT ![txn[s].reserve].status = "released"]
    /\ balance' = [balance EXCEPT ![txn[s].user] = @ - txn[s].amount]
    /\ EndTxn(s)
    /\ UNCHANGED net

(* spend_release gives back what the reserve row took.                     *)
InsertRelease(s) ==
    /\ txn[s].step = "insert" /\ txn[s].op = "release_reserve"
    /\ reserve' = [reserve EXCEPT ![txn[s].reserve].status = "released"]
    /\ balance' = [balance EXCEPT ![txn[s].user] = @ + txn[s].amount]
    /\ EndTxn(s)
    /\ UNCHANGED net

(* A lost connection, a timeout or a unique-index violation: Postgres      *)
(* rolls back and drops the advisory lock.                                 *)
Rollback(s) ==
    /\ txn[s].step # "idle"
    /\ EndTxn(s)
    /\ UNCHANGED <<balance, reserve, net>>

-----------------------------------------------------------------------------
(* Writers that take no user lock.                                         *)

(* grant, purchase, or a positive adjust.                                  *)
Credit(u, a) ==
    /\ net[u] + a <= MaxNet
    /\ balance' = [balance EXCEPT ![u] = @ + a]
    /\ net' = [net EXCEPT ![u] = @ + a]
    /\ UNCHANGED <<reserve, lock, txn>>

(* A negative adjust whose reason starts with `override:`: the trigger's   *)
(* WHEN clause skips the guard, so it may land below zero.                 *)
Override(u, a) ==
    /\ u \in Corrected
    /\ net[u] - a >= -MaxNet
    /\ balance' = [balance EXCEPT ![u] = @ - a]
    /\ net' = [net EXCEPT ![u] = @ - a]
    /\ UNCHANGED <<reserve, lock, txn>>

Call(s) ==
    \/ \E u \in Users, a \in Amounts, j \in Jobs \cup {Nil} : CallReserve(s, u, a, j)
    \/ \E u \in Users, a \in Amounts : CallAdjust(s, u, a)
    \/ \E r \in Reserves, op \in {"commit_reserve", "release_reserve"} : CallSettle(s, r, op)

Insert(s) == InsertReserve(s) \/ InsertAdjust(s) \/ InsertCommit(s) \/ InsertRelease(s)

Locked(s) == Call(s) \/ TakeLock(s) \/ ReadUnderLock(s) \/ Insert(s) \/ Rollback(s)

Unlocked == \E u \in Users, a \in Amounts : Credit(u, a) \/ Override(u, a)

Next == (\E s \in Sessions : Locked(s)) \/ Unlocked

Spec == Init /\ [][Next]_vars
=============================================================================
