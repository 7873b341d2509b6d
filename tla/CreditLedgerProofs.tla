------------------------- MODULE CreditLedgerProofs -------------------------
(***************************************************************************)
(* Proofs about the credit ledger, for any sets of users, reserves, jobs   *)
(* and sessions.  The argument is the advisory lock: a session past        *)
(* TakeLock holds the key of its user (LockInv), nothing but the holder    *)
(* lowers an uncorrected balance or settles a reserve of that user, so     *)
(* what the session read under the lock still holds when it inserts        *)
(* (ReadInv).  That money is conserved is counted credit by credit: a      *)
(* balance is what was granted less the credits of the reserves the user   *)
(* has written and not been given back (Balanced).                         *)
(***************************************************************************)
EXTENDS CreditLedgerProperties, FiniteSetTheorems, TLAPS

Judged(s) == txn[s].step = "insert"

RowInv == \A r \in Reserves : reserve[r].status # "none" => reserve[r].user \in Users

(* A transaction that was called knows its user, and a settlement carries  *)
(* the user and amount of the reserve row it found.                        *)
CallInv ==
    \A s \in Sessions : txn[s].step # "idle" =>
        /\ txn[s].user \in Users
        /\ txn[s].op # "none"
        /\ txn[s].op \in {"commit_reserve", "release_reserve"} =>
              /\ txn[s].reserve \in Reserves
              /\ reserve[txn[s].reserve].status # "none"
              /\ reserve[txn[s].reserve].user = txn[s].user
              /\ reserve[txn[s].reserve].amount = txn[s].amount

LockInv ==
    \A s \in Sessions : txn[s].step \in {"read", "insert"} => lock[txn[s].user] = s

(* What was read under the lock is still so.                               *)
ReadInv ==
    \A s \in Sessions : Judged(s) =>
        /\ (txn[s].op \in {"reserve", "adjust"} /\ txn[s].user \notin Corrected)
              => balance[txn[s].user] >= txn[s].amount
        /\ txn[s].op \in {"commit_reserve", "release_reserve"}
              => reserve[txn[s].reserve].status = "open"

IInv == TypeOK /\ RowInv /\ CallInv /\ LockInv /\ ReadInv /\ NeverOverdrawn

LEMMA InitIInv == Init => IInv
  BY AmountsAssumption, NilAssumption, SMT
  DEF Init, IInv, TypeOK, RowInv, CallInv, LockInv, ReadInv, Judged, NeverOverdrawn,
      NoRow, NoTxn, Statuses, Steps, Ops

(* One lemma per kind of step.  Beginning a call touches only the session. *)
LEMMA BeginStep ==
  ASSUME IInv, NEW s \in Sessions, NEW op \in Ops \ {"none"}, NEW u \in Users,
         NEW r \in Reserves \cup {Nil}, NEW a \in Nat, NEW j \in Jobs \cup {Nil},
         op \in {"commit_reserve", "release_reserve"} =>
            /\ r \in Reserves
            /\ reserve[r].status # "none"
            /\ reserve[r].user = u
            /\ reserve[r].amount = a,
         Begin(s, op, u, r, a, j)
  PROVE  IInv'
<1> USE DEF Begin, IInv, TypeOK
<1>1. TypeOK'
  BY DEF Steps, Ops
<1>2. RowInv'
  BY DEF RowInv
<1>3. CallInv'
  BY DEF CallInv
<1>4. LockInv'
  BY DEF LockInv
<1>5. ReadInv'
  BY DEF ReadInv, Judged
<1>6. NeverOverdrawn'
  BY DEF NeverOverdrawn
<1> QED BY <1>1, <1>2, <1>3, <1>4, <1>5, <1>6

LEMMA CallStep ==
  ASSUME IInv, NEW s \in Sessions, Call(s)
  PROVE  IInv'
<1>1. ASSUME NEW u \in Users, NEW a \in Amounts, NEW j \in Jobs \cup {Nil}, CallReserve(s, u, a, j)
      PROVE  IInv'
  BY <1>1, AmountsAssumption, BeginStep DEF CallReserve, Ops
<1>2. ASSUME NEW u \in Users, NEW a \in Amounts, CallAdjust(s, u, a)
      PROVE  IInv'
  BY <1>2, AmountsAssumption, BeginStep DEF CallAdjust, Ops
<1>3. ASSUME NEW r \in Reserves, NEW op \in {"commit_reserve", "release_reserve"},
             CallSettle(s, r, op)
      PROVE  IInv'
  <2>1. reserve[r].user \in Users /\ reserve[r].amount \in Nat
    BY <1>3 DEF CallSettle, IInv, TypeOK, RowInv
  <2> QED BY <1>3, <2>1, BeginStep DEF CallSettle, Ops
<1> QED BY <1>1, <1>2, <1>3 DEF Call

(* The lock was free, so no other session is past it for this user.        *)
LEMMA TakeLockStep ==
  ASSUME IInv, NEW s \in Sessions, TakeLock(s)
  PROVE  IInv'
<1>1. UNCHANGED <<balance, reserve, net>>
  BY DEF TakeLock
<1>2. RowInv' /\ NeverOverdrawn'
  BY <1>1 DEF IInv, RowInv, NeverOverdrawn
<1>3. /\ txn[s].step = "lock" /\ txn[s].user \in Users /\ lock[txn[s].user] = Nil
      /\ lock' = [lock EXCEPT ![txn[s].user] = s]
      /\ txn' = [txn EXCEPT ![s] = [txn[s] EXCEPT !.step = "read"]]
  BY DEF TakeLock, IInv, CallInv
<1> USE <1>1, <1>3 DEF IInv
<1>4. TypeOK'
  <2>1. lock' \in [Users -> Sessions \cup {Nil}]
    BY DEF TypeOK
  <2>2. [txn[s] EXCEPT !.step = "read"]
          \in [step : Steps, op : Ops, user : Users \cup {Nil},
               reserve : Reserves \cup {Nil}, amount : Nat, job : Jobs \cup {Nil}]
    <3>1. txn[s] \in [step : Steps, op : Ops, user : Users \cup {Nil},
                      reserve : Reserves \cup {Nil}, amount : Nat, job : Jobs \cup {Nil}]
      BY DEF TypeOK
    <3>2. "read" \in Steps
      BY DEF Steps
    <3> HIDE <1>1, <1>3 DEF IInv
    <3> QED BY <3>1, <3>2
  <2> QED BY <2>1, <2>2 DEF TypeOK
<1> USE DEF TypeOK
<1>5. CallInv'
  BY DEF CallInv
<1>7. LockInv'
  BY NilAssumption DEF LockInv, CallInv
<1>6. ReadInv'
  BY DEF ReadInv, Judged
<1> QED BY <1>2, <1>4, <1>5, <1>6, <1>7

(* Ending a transaction frees the caller's lock and nobody else's.         *)
LEMMA EndTxnStep ==
  ASSUME IInv, NEW s \in Sessions, EndTxn(s)
  PROVE  /\ txn' \in [Sessions -> [step : Steps, op : Ops, user : Users \cup {Nil},
                                   reserve : Reserves \cup {Nil}, amount : Nat,
                                   job : Jobs \cup {Nil}]]
         /\ lock' \in [Users -> Sessions \cup {Nil}]
         /\ txn'[s].step = "idle"
         /\ \A o \in Sessions : o # s => txn'[o] = txn[o]
         /\ LockInv'
<1> USE DEF EndTxn, IInv, TypeOK, NoTxn
<1>1. LockInv'
  BY DEF LockInv, CallInv
<1> QED BY <1>1 DEF Steps, Ops

LEMMA ReadStep ==
  ASSUME IInv, NEW s \in Sessions, ReadUnderLock(s)
  PROVE  IInv'
<1>1. CASE Permitted(txn[s])
  <2>0. /\ reserve' = reserve
        /\ \A o \in Sessions :
              /\ txn'[o].user = txn[o].user /\ txn'[o].op = txn[o].op
              /\ txn'[o].reserve = txn[o].reserve /\ txn'[o].amount = txn[o].amount
              /\ txn'[o].step # "idle" => txn[o].step # "idle"
    BY <1>1 DEF ReadUnderLock, IInv, TypeOK
  <2>3. CallInv'
    <3>1. CallInv
      BY DEF IInv
    <3> QED BY <2>0, <3>1 DEF CallInv
  <2>1. TypeOK'
    <3>1. txn' = [txn EXCEPT ![s].step = "insert"] /\ UNCHANGED <<balance, reserve, lock, net>>
      BY <1>1 DEF ReadUnderLock
    <3>2. txn \in [Sessions -> [step : Steps, op : Ops, user : Users \cup {Nil},
                               reserve : Reserves \cup {Nil}, amount : Nat,
                               job : Jobs \cup {Nil}]]
      BY DEF IInv, TypeOK
    <3>3. "insert" \in Steps
      BY DEF Steps
    <3>4. txn' \in [Sessions -> [step : Steps, op : Ops, user : Users \cup {Nil},
                                reserve : Reserves \cup {Nil}, amount : Nat,
                                job : Jobs \cup {Nil}]]
      BY <3>1, <3>2, <3>3
    <3> QED BY <3>1, <3>4 DEF IInv, TypeOK
  <2> USE <1>1 DEF ReadUnderLock, IInv, TypeOK
  <2>2. RowInv'
    BY DEF RowInv
  <2>4. LockInv'
    BY DEF LockInv
  <2>5. ReadInv'
    BY DEF ReadInv, Judged, Permitted
  <2>6. NeverOverdrawn'
    BY DEF NeverOverdrawn
  <2> QED BY <2>1, <2>2, <2>3, <2>4, <2>5, <2>6
<1>2. CASE ~Permitted(txn[s])
  <2>1. EndTxn(s) /\ UNCHANGED <<balance, reserve, net>>
    BY <1>2 DEF ReadUnderLock
  <2> USE <2>1, EndTxnStep DEF IInv
  <2>2. TypeOK'
    BY DEF TypeOK
  <2>3. RowInv' /\ NeverOverdrawn'
    BY DEF RowInv, NeverOverdrawn
  <2>4. CallInv'
    BY DEF CallInv
  <2>5. ReadInv'
    BY DEF ReadInv, Judged
  <2> QED BY <2>2, <2>3, <2>4, <2>5
<1> QED BY <1>1, <1>2

LEMMA RollbackStep ==
  ASSUME IInv, NEW s \in Sessions, Rollback(s)
  PROVE  IInv'
<1> USE EndTxnStep DEF Rollback, IInv
<1>1. TypeOK'
  BY DEF TypeOK
<1>2. RowInv' /\ NeverOverdrawn'
  BY DEF RowInv, NeverOverdrawn
<1>3. CallInv'
  BY DEF CallInv
<1>4. ReadInv'
  BY DEF ReadInv, Judged
<1> QED BY <1>1, <1>2, <1>3, <1>4

(* Two sessions past the lock serve different users: the step of one       *)
(* leaves what the other read alone.                                       *)
LEMMA MutualExclusion ==
  ASSUME IInv, NEW s \in Sessions, NEW o \in Sessions, o # s,
         txn[s].step = "insert", txn[o].step = "insert"
  PROVE  txn[s].user # txn[o].user
  BY DEF IInv, LockInv

LEMMA InsertReserveStep ==
  ASSUME IInv, NEW s \in Sessions, InsertReserve(s)
  PROVE  IInv'
<1>1. PICK r \in Reserves :
        /\ reserve[r].status = "none"
        /\ reserve' = [reserve EXCEPT ![r] =
              [status |-> "open", user |-> txn[s].user,
               amount |-> txn[s].amount, job |-> txn[s].job]]
  BY DEF InsertReserve
<1>2. /\ txn[s].step = "insert" /\ txn[s].op = "reserve" /\ txn[s].user \in Users
      /\ balance' = [balance EXCEPT ![txn[s].user] = @ - txn[s].amount]
      /\ EndTxn(s) /\ net' = net
  BY DEF InsertReserve, IInv, CallInv
<1> USE <1>1, <1>2, EndTxnStep DEF IInv
<1>3. TypeOK'
  BY DEF TypeOK, Statuses
<1>4. RowInv'
  BY DEF RowInv, TypeOK
<1>5. CallInv'
  BY DEF CallInv, TypeOK
<1>6. ReadInv'
  BY MutualExclusion DEF ReadInv, Judged, TypeOK, CallInv
<1>7. NeverOverdrawn'
  BY DEF NeverOverdrawn, ReadInv, Judged, TypeOK
<1> QED BY <1>3, <1>4, <1>5, <1>6, <1>7

LEMMA InsertAdjustStep ==
  ASSUME IInv, NEW s \in Sessions, InsertAdjust(s)
  PROVE  IInv'
<1>1. /\ txn[s].step = "insert" /\ txn[s].op = "adjust" /\ txn[s].user \in Users
      /\ balance' = [balance EXCEPT ![txn[s].user] = @ - txn[s].amount]
      /\ net' = [net EXCEPT ![txn[s].user] = @ - txn[s].amount]
      /\ EndTxn(s) /\ reserve' = reserve
  BY DEF InsertAdjust, IInv, CallInv
<1> USE <1>1, EndTxnStep DEF IInv
<1>2. TypeOK'
  BY DEF TypeOK
<1>3. RowInv'
  BY DEF RowInv
<1>4. CallInv'
  BY DEF CallInv
<1>5. ReadInv'
  <2> SUFFICES ASSUME NEW o \in Sessions, Judged(o)'
               PROVE  /\ (txn'[o].op \in {"reserve", "adjust"} /\ txn'[o].user \notin Corrected)
                            => balance'[txn'[o].user] >= txn'[o].amount
                      /\ txn'[o].op \in {"commit_reserve", "release_reserve"}
                            => reserve'[txn'[o].reserve].status = "open"
    BY DEF ReadInv
  <2>1. o # s /\ txn'[o] = txn[o] /\ Judged(o)
    BY DEF Judged
  <2>2. txn[o].user # txn[s].user /\ txn[o].user \in Users
    BY <2>1, MutualExclusion DEF Judged, CallInv
  <2>3. balance'[txn[o].user] = balance[txn[o].user]
    BY <2>2 DEF TypeOK
  <2> QED BY <2>1, <2>3 DEF ReadInv
<1>6. NeverOverdrawn'
  BY DEF NeverOverdrawn, ReadInv, Judged, TypeOK
<1> QED BY <1>2, <1>3, <1>4, <1>5, <1>6

(* Both settlements: the status of one open reserve changes and the        *)
(* balance of its user does not fall.                                      *)
LEMMA SettleStep ==
  ASSUME IInv, NEW s \in Sessions, InsertCommit(s) \/ InsertRelease(s)
  PROVE  IInv'
<1>1. /\ txn[s].step = "insert" /\ txn[s].op \in {"commit_reserve", "release_reserve"}
      /\ txn[s].user \in Users /\ txn[s].reserve \in Reserves
      /\ reserve[txn[s].reserve].user = txn[s].user
      /\ EndTxn(s) /\ net' = net
  BY DEF InsertCommit, InsertRelease, IInv, CallInv
<1>2. PICK to \in {"committed", "released"} :
        reserve' = [reserve EXCEPT ![txn[s].reserve].status = to]
  BY DEF InsertCommit, InsertRelease
<1>3. /\ balance' \in [Users -> Int]
      /\ \A u \in Users : balance'[u] >= balance[u]
  <2>1. balance \in [Users -> Int] /\ txn[s].amount \in Nat
    BY DEF IInv, TypeOK
  <2>2. \/ balance' = balance
        \/ balance' = [balance EXCEPT ![txn[s].user] = @ + txn[s].amount]
    BY DEF InsertCommit, InsertRelease
  <2> QED BY <2>1, <2>2, <1>1
<1> USE <1>1, <1>2, <1>3, EndTxnStep DEF IInv
<1>4. TypeOK'
  BY DEF TypeOK, Statuses
<1>5. RowInv'
  BY DEF RowInv, TypeOK
<1>6. CallInv'
  BY DEF CallInv, TypeOK
<1>7. ReadInv'
  <2> SUFFICES ASSUME NEW o \in Sessions, Judged(o)'
               PROVE  /\ (txn'[o].op \in {"reserve", "adjust"} /\ txn'[o].user \notin Corrected)
                            => balance'[txn'[o].user] >= txn'[o].amount
                      /\ txn'[o].op \in {"commit_reserve", "release_reserve"}
                            => reserve'[txn'[o].reserve].status = "open"
    BY DEF ReadInv
  <2>1. o # s /\ txn'[o] = txn[o] /\ Judged(o) /\ txn[o].user \in Users
    BY DEF Judged, CallInv
  <2>2. balance'[txn[o].user] >= balance[txn[o].user]
    BY <2>1
  <2>3. (txn[o].op \in {"reserve", "adjust"} /\ txn[o].user \notin Corrected)
           => balance'[txn[o].user] >= txn[o].amount
    BY <2>1, <2>2 DEF ReadInv, TypeOK
  <2>4. ASSUME txn[o].op \in {"commit_reserve", "release_reserve"}
        PROVE  reserve'[txn[o].reserve].status = "open"
    <3>1. txn[o].reserve \in Reserves /\ reserve[txn[o].reserve].status = "open"
      BY <2>1, <2>4 DEF ReadInv, CallInv, Judged
    <3>2. txn[o].reserve # txn[s].reserve
      BY MutualExclusion, <2>1, <2>4 DEF CallInv, Judged
    <3> QED BY <3>1, <3>2 DEF TypeOK
  <2> QED BY <2>1, <2>3, <2>4
<1>8. NeverOverdrawn'
  BY DEF NeverOverdrawn, TypeOK, CorrectedAssumption
<1> QED BY <1>4, <1>5, <1>6, <1>7, <1>8

(* Writers without the lock raise a balance, or belong to a corrected user.*)
LEMMA UnlockedStep ==
  ASSUME IInv, Unlocked
  PROVE  IInv'
<1>1. PICK u \in Users, a \in Amounts : Credit(u, a) \/ Override(u, a)
  BY DEF Unlocked
<1>2. /\ UNCHANGED <<reserve, lock, txn>>
      /\ balance' \in [Users -> Int] /\ net' \in [Users -> Int]
      /\ \A v \in Users \ Corrected : balance'[v] >= balance[v]
  BY <1>1, AmountsAssumption DEF Credit, Override, IInv, TypeOK
<1> USE <1>2 DEF IInv
<1>3. TypeOK'
  BY DEF TypeOK
<1>4. RowInv' /\ CallInv' /\ LockInv'
  BY DEF RowInv, CallInv, LockInv
<1>5. ReadInv'
  BY DEF ReadInv, Judged, CallInv, TypeOK
<1>6. NeverOverdrawn'
  BY DEF NeverOverdrawn, TypeOK
<1> QED BY <1>3, <1>4, <1>5, <1>6

LEMMA StepIInv == IInv /\ [Next]_vars => IInv'
<1> SUFFICES ASSUME IInv, [Next]_vars PROVE IInv'
  OBVIOUS
<1>1. CASE Next
  <2>1. CASE \E s \in Sessions : Locked(s)
    BY <2>1, CallStep, TakeLockStep, ReadStep, InsertReserveStep, InsertAdjustStep,
       SettleStep, RollbackStep DEF Locked, Insert
  <2>2. CASE Unlocked
    BY <2>2, UnlockedStep
  <2> QED BY <1>1, <2>1, <2>2 DEF Next
<1>2. CASE UNCHANGED vars
  BY <1>2 DEF vars, IInv, TypeOK, RowInv, CallInv, LockInv, ReadInv, Judged, NeverOverdrawn
<1> QED BY <1>1, <1>2

(* The inductive invariant holds of every behaviour: in particular what a  *)
(* session read under the advisory lock stays true until it inserts.       *)
THEOREM Safety == Spec => []IInv
<1>1. Init => IInv
  BY InitIInv
<1>2. IInv /\ [Next]_vars => IInv'
  BY StepIInv
<1> QED BY <1>1, <1>2, PTL DEF Spec

(* Type correctness of the ledger, its locks and its transactions.         *)
THEOREM TypeCorrect == Spec => []TypeOK
<1>1. IInv => TypeOK
  BY DEF IInv
<1> QED BY <1>1, Safety, PTL

(* No interleaving of reserve_credits, settlements, unmarked adjusts,      *)
(* grants and purchases overdraws an account that nobody corrects with an  *)
(* override (0033 reserve_credits, 0019 reject_ledger_negative_balance).   *)
THEOREM NoOverdraft == Spec => []NeverOverdrawn
<1>1. IInv => NeverOverdrawn
  BY DEF IInv
<1> QED BY <1>1, Safety, PTL

(* A reserve is settled once, whatever sessions race to settle it: the     *)
(* settled-guard of commit_reserve and release_reserve is read under the   *)
(* lock.                                                                   *)
THEOREM SingleSettlement == Spec => SettledOnce
<1>1. ASSUME IInv, NEW s \in Sessions, InsertReserve(s) PROVE ReserveMoves
  BY <1>1 DEF InsertReserve, ReserveMoves, IInv, TypeOK
<1>2. ASSUME IInv, NEW s \in Sessions, InsertCommit(s) \/ InsertRelease(s) PROVE ReserveMoves
  <2>1. txn[s].reserve \in Reserves /\ reserve[txn[s].reserve].status = "open"
    BY <1>2 DEF InsertCommit, InsertRelease, IInv, CallInv, ReadInv, Judged
  <2>2. PICK to \in {"committed", "released"} :
          reserve' = [reserve EXCEPT ![txn[s].reserve] =
                        [reserve[txn[s].reserve] EXCEPT !.status = to]]
    BY <1>2 DEF InsertCommit, InsertRelease
  <2> QED BY <1>2, <2>1, <2>2 DEF ReserveMoves, IInv, TypeOK
<1>3. IInv /\ [Next]_vars => [ReserveMoves]_vars
  <2> SUFFICES ASSUME IInv, Next, UNCHANGED reserve PROVE ReserveMoves
    BY <1>1, <1>2 DEF Next, Locked, Unlocked, Call, Insert, CallReserve, CallAdjust, CallSettle,
       Begin, TakeLock, ReadUnderLock, InsertAdjust, Rollback, Credit, Override, vars
  <2> QED BY DEF ReserveMoves
<1> QED BY <1>3, Safety, PTL DEF Spec, SettledOnce

-----------------------------------------------------------------------------
(* Refinement.  AmountInv is what the domain's Deltas needs: every amount  *)
(* on its way to the ledger is a legal one.                                *)
AmountInv ==
    /\ \A s \in Sessions : txn[s].step # "idle" => txn[s].amount \in Amounts
    /\ \A r \in Reserves : reserve[r].status # "none" => reserve[r].amount \in Amounts

LEMMA AmountsLegal == Spec => []AmountInv
<1>1. Init => AmountInv
  BY DEF Init, AmountInv, NoRow, NoTxn
<1>2. IInv /\ AmountInv /\ [Next]_vars => AmountInv'
  <2> SUFFICES ASSUME IInv, AmountInv, [Next]_vars PROVE AmountInv'
    OBVIOUS
  <2> USE DEF IInv, TypeOK, AmountInv
  <2>1. ASSUME NEW s \in Sessions, Call(s) PROVE AmountInv'
    BY <2>1 DEF Call, CallReserve, CallAdjust, CallSettle, Begin
  <2>2. ASSUME NEW s \in Sessions, TakeLock(s) PROVE AmountInv'
    BY <2>2 DEF TakeLock
  <2>3. ASSUME NEW s \in Sessions, EndTxn(s), UNCHANGED reserve PROVE AmountInv'
    BY <2>3 DEF EndTxn, NoTxn
  <2>4. ASSUME NEW s \in Sessions, ReadUnderLock(s) PROVE AmountInv'
    BY <2>3, <2>4 DEF ReadUnderLock
  <2>5. ASSUME NEW s \in Sessions, InsertReserve(s) PROVE AmountInv'
    BY <2>5 DEF InsertReserve, EndTxn, NoTxn
  <2>6. ASSUME NEW s \in Sessions, InsertAdjust(s) \/ Rollback(s) PROVE AmountInv'
    BY <2>3, <2>6 DEF InsertAdjust, Rollback
  <2>7. ASSUME NEW s \in Sessions, InsertCommit(s) \/ InsertRelease(s) PROVE AmountInv'
    <3>1. PICK to \in {"committed", "released"} :
            reserve' = [reserve EXCEPT ![txn[s].reserve] =
                          [reserve[txn[s].reserve] EXCEPT !.status = to]]
      BY <2>7 DEF InsertCommit, InsertRelease
    <3>2. EndTxn(s)
      BY <2>7 DEF InsertCommit, InsertRelease
    <3>3. reserve[txn[s].reserve].status # "none" /\ txn[s].reserve \in Reserves
      BY <2>7 DEF InsertCommit, InsertRelease, CallInv
    <3> QED BY <3>1, <3>2, <3>3 DEF EndTxn, NoTxn
  <2>8. ASSUME Unlocked \/ UNCHANGED vars PROVE AmountInv'
    BY <2>8 DEF Unlocked, Credit, Override, vars
  <2> QED BY <2>1, <2>2, <2>4, <2>5, <2>6, <2>7, <2>8 DEF Next, Locked, Insert
<1> QED BY <1>1, <1>2, Safety, PTL DEF Spec

LEMMA DomainStutter ==
  ASSUME NEW u \in Users, balance'[u] = balance[u], OpenOf(u)' = OpenOf(u),
         \A r \in OpenOf(u) : reserve'[r].amount = reserve[r].amount
  PROVE  UNCHANGED Domain(u)!vars
  BY DEF Domain!vars

LEMMA ReserveRefines ==
  ASSUME IInv, AmountInv, NEW s \in Sessions, InsertReserve(s), NEW u \in Users \ Corrected
  PROVE  [Domain(u)!ApplyEntry]_(Domain(u)!vars)
<1>1. PICK r \in Reserves :
        /\ reserve[r].status = "none"
        /\ reserve' = [reserve EXCEPT ![r] =
              [status |-> "open", user |-> txn[s].user,
               amount |-> txn[s].amount, job |-> txn[s].job]]
  BY DEF InsertReserve
<1>2. /\ txn[s].step = "insert" /\ txn[s].op = "reserve" /\ txn[s].user \in Users
      /\ txn[s].amount \in Amounts
      /\ balance' = [balance EXCEPT ![txn[s].user] = @ - txn[s].amount]
  BY DEF InsertReserve, IInv, CallInv, AmountInv
<1> USE <1>1, <1>2 DEF IInv, TypeOK
<1>3. CASE txn[s].user # u
  BY <1>3, DomainStutter DEF OpenOf
<1>4. CASE txn[s].user = u
  <2>1. r \notin OpenOf(u) /\ OpenOf(u)' = OpenOf(u) \cup {r}
    BY <1>4 DEF OpenOf
  <2>2. balance[u] >= txn[s].amount
    BY <1>4 DEF ReadInv, Judged
  <2>3. [q \in OpenOf(u) |-> reserve[q].amount]'
          = [q \in OpenOf(u) \cup {r} |-> IF q = r THEN txn[s].amount ELSE reserve[q].amount]
    BY <2>1 DEF OpenOf
  <2>4. PICK a \in Amounts : a = txn[s].amount
    OBVIOUS
  <2>5. Domain(u)!ApplyReserve(r, a)
    BY <1>4, <2>1, <2>2, <2>3, <2>4 DEF Domain!ApplyReserve
  <2> QED BY <2>5 DEF Domain!ApplyEntry
<1> QED BY <1>3, <1>4

LEMMA SettleRefines ==
  ASSUME IInv, AmountInv, NEW s \in Sessions, InsertCommit(s) \/ InsertRelease(s),
         NEW u \in Users \ Corrected
  PROVE  [Domain(u)!ApplyEntry]_(Domain(u)!vars)
<1>1. PICK r \in Reserves, a \in Amounts : r = txn[s].reserve /\ a = txn[s].amount
  BY DEF InsertCommit, InsertRelease, IInv, CallInv, AmountInv
<1>2. /\ reserve[r].status = "open" /\ reserve[r].user = txn[s].user /\ reserve[r].amount = a
      /\ txn[s].user \in Users
  BY <1>1 DEF InsertCommit, InsertRelease, IInv, CallInv, ReadInv, Judged
<1>3. PICK to \in {"committed", "released"} :
        reserve' = [reserve EXCEPT ![r] = [reserve[r] EXCEPT !.status = to]]
  BY <1>1 DEF InsertCommit, InsertRelease
<1> USE <1>2, <1>3 DEF IInv, TypeOK
<1>4. CASE txn[s].user # u
  <2>1. balance'[u] = balance[u]
    BY <1>4 DEF InsertCommit, InsertRelease
  <2> QED BY <1>4, <2>1, DomainStutter DEF OpenOf
<1>5. CASE txn[s].user = u
  <2>1. r \in OpenOf(u) /\ OpenOf(u)' = OpenOf(u) \ {r}
    BY <1>5 DEF OpenOf
  <2>2. [q \in OpenOf(u) |-> reserve[q].amount]'
          = [q \in OpenOf(u) \ {r} |-> reserve[q].amount]
    BY <2>1 DEF OpenOf
  <2>4. CASE InsertCommit(s)
    <3>1. balance'[u] = balance[u]
      BY <2>4 DEF InsertCommit
    <3>2. Domain(u)!ApplyCommit(r)
      BY <2>1, <2>2, <3>1 DEF Domain!ApplyCommit
    <3> QED BY <3>2 DEF Domain!ApplyEntry
  <2>5. CASE InsertRelease(s)
    <3>1. balance'[u] = balance[u] + a
      BY <1>1, <1>5, <2>5 DEF InsertRelease
    <3>2. Domain(u)!ApplyRelease(r, a)
      BY <2>1, <2>2, <3>1 DEF Domain!ApplyRelease
    <3> QED BY <3>2 DEF Domain!ApplyEntry
  <2> QED BY <2>4, <2>5
<1> QED BY <1>4, <1>5

LEMMA BalanceRefines ==
  ASSUME IInv, AmountInv, NEW u \in Users \ Corrected, UNCHANGED reserve,
         \/ \E s \in Sessions : InsertAdjust(s)
         \/ Unlocked
         \/ UNCHANGED balance
  PROVE  [Domain(u)!ApplyEntry]_(Domain(u)!vars)
<1> USE DEF IInv, TypeOK
<1>1. OpenOf(u)' = OpenOf(u)
      /\ [q \in OpenOf(u) |-> reserve[q].amount]' = [q \in OpenOf(u) |-> reserve[q].amount]
  BY DEF OpenOf
<1>2. ASSUME balance'[u] = balance[u] PROVE UNCHANGED Domain(u)!vars
  BY <1>1, <1>2, DomainStutter DEF OpenOf
<1>3. ASSUME NEW s \in Sessions, InsertAdjust(s), txn[s].user = u
      PROVE  Domain(u)!ApplyEntry
  <2>1. PICK a \in Amounts : a = txn[s].amount /\ balance[u] >= a
    BY <1>3 DEF InsertAdjust, AmountInv, ReadInv, Judged
  <2>2. balance'[u] = balance[u] - a
    BY <1>3, <2>1 DEF InsertAdjust
  <2>3. Domain(u)!ApplyAdjust(a)
    BY <1>1, <2>1, <2>2, AmountsAssumption DEF Domain!ApplyAdjust
  <2> QED BY <2>1, <2>3 DEF Domain!ApplyEntry
<1>4. ASSUME NEW a \in Amounts, Credit(u, a) PROVE Domain(u)!ApplyEntry
  <2>1. Domain(u)!ApplyCredit(a)
    BY <1>1, <1>4 DEF Credit, Domain!ApplyCredit
  <2> QED BY <2>1 DEF Domain!ApplyEntry
<1>5. ASSUME NEW s \in Sessions, InsertAdjust(s), txn[s].user # u
      PROVE  balance'[u] = balance[u]
  BY <1>5 DEF InsertAdjust
<1>6. ASSUME NEW v \in Users, NEW a \in Amounts, Credit(v, a) \/ Override(v, a), ~Credit(u, a)
      PROVE  balance'[u] = balance[u]
  BY <1>6 DEF Credit, Override
<1> QED BY <1>2, <1>3, <1>4, <1>5, <1>6 DEF Unlocked

(* The SQL ledger implements the domain ledger of core/billing/ledger.ts   *)
(* for every account nobody corrects by override: each committed row is a  *)
(* legal applyEntry, everything else leaves the account alone.             *)
THEOREM Refinement == Spec => ImplementsDomain
<1> DEFINE DomainStep == \A u \in Users \ Corrected : [Domain(u)!ApplyEntry]_(Domain(u)!vars)
<1>1. Init => \A u \in Users \ Corrected : Domain(u)!EmptyState
  <2> SUFFICES ASSUME Init, NEW u \in Users \ Corrected PROVE Domain(u)!EmptyState
    OBVIOUS
  <2>1. OpenOf(u) = {} /\ balance[u] = 0
    BY DEF Init, NoRow, OpenOf
  <2>2. [r \in OpenOf(u) |-> reserve[r].amount] = [r \in {} |-> 0]
    BY <2>1
  <2> QED BY <2>1, <2>2 DEF Domain!EmptyState
<1>2. IInv /\ AmountInv /\ [Next]_vars => DomainStep
  <2> SUFFICES ASSUME IInv, AmountInv, [Next]_vars, NEW u \in Users \ Corrected
               PROVE  [Domain(u)!ApplyEntry]_(Domain(u)!vars)
    OBVIOUS
  <2>1. ASSUME NEW s \in Sessions, Call(s) \/ TakeLock(s) \/ ReadUnderLock(s) \/ Rollback(s)
        PROVE  UNCHANGED <<balance, reserve>>
    BY <2>1 DEF Call, CallReserve, CallAdjust, CallSettle, Begin, TakeLock, ReadUnderLock, Rollback
  <2>2. ASSUME NEW s \in Sessions, InsertAdjust(s) PROVE UNCHANGED reserve
    BY <2>2 DEF InsertAdjust
  <2>3. ASSUME Unlocked \/ UNCHANGED vars PROVE UNCHANGED reserve
    BY <2>3 DEF Unlocked, Credit, Override, vars
  <2>4. UNCHANGED vars => UNCHANGED balance
    BY DEF vars
  <2> QED BY <2>1, <2>2, <2>3, <2>4, ReserveRefines, SettleRefines, BalanceRefines
          DEF Next, Locked, Insert
<1>3. IInv /\ AmountInv /\ [Next]_vars => [DomainStep]_vars
  BY <1>2
<1> QED BY <1>1, <1>3, Safety, AmountsLegal, PTL DEF Spec, ImplementsDomain

-----------------------------------------------------------------------------
(* Sums.                                                                   *)

(* The sum of Held, for any rows and any set of them.                      *)
SumOf(rows, S) == MapThenSumSet(LAMBDA r : rows[r].amount, S)

(* The same money credit by credit: a credit is a reserve and a number.    *)
Credits(rows, S) == UNION {{r} \X (1 .. rows[r].amount) : r \in S}

(* The first n numbers.                                                    *)
LEMMA FirstNumbers ==
  ASSUME NEW n \in Nat
  PROVE  IsFiniteSet(1 .. n) /\ Cardinality(1 .. n) = n
  <1>1. 1 \in Int /\ n \in Int
    OBVIOUS
  <1>2. IsFiniteSet(1 .. n) /\ Cardinality(1 .. n) = IF 1 > n THEN 0 ELSE n - 1 + 1
    BY <1>1, FS_Interval, Zenon
  <1> QED
    BY <1>2, SMT

(* One reserve more.                                                       *)
LEMMA CreditsAdd ==
  ASSUME NEW rows, NEW S, NEW x, x \notin S, rows[x].amount \in Nat, IsFiniteSet(Credits(rows, S))
  PROVE  /\ IsFiniteSet(Credits(rows, S \cup {x}))
         /\ Cardinality(Credits(rows, S \cup {x})) = Cardinality(Credits(rows, S)) + rows[x].amount
  <1> DEFINE X == {x} \X (1 .. rows[x].amount)
  <1>1. Credits(rows, S \cup {x}) = Credits(rows, S) \cup X
    BY DEF Credits
  <1>2. Credits(rows, S) \cap X = {}
    BY DEF Credits
  <1>3. IsFiniteSet(X) /\ Cardinality(X) = rows[x].amount
    <2>1. IsFiniteSet({x}) /\ Cardinality({x}) = 1
      BY FS_Singleton
    <2>2. IsFiniteSet(1 .. rows[x].amount) /\ Cardinality(1 .. rows[x].amount) = rows[x].amount
      BY FirstNumbers, Zenon
    <2>3. IsFiniteSet(X) /\ Cardinality(X) = 1 * rows[x].amount
      BY <2>1, <2>2, FS_Product, Zenon
    <2> QED
      BY <2>3
  <1> HIDE DEF X
  <1>4. IsFiniteSet(Credits(rows, S) \cup X)
        /\ Cardinality(Credits(rows, S) \cup X) = Cardinality(Credits(rows, S)) + Cardinality(X) - Cardinality({})
    BY <1>2, <1>3, FS_Union
  <1>5. Cardinality({}) = 0 /\ Cardinality(Credits(rows, S)) \in Nat
    BY FS_EmptySet, FS_CardinalityType
  <1>6. Cardinality(Credits(rows, S)) + rows[x].amount - 0 = Cardinality(Credits(rows, S)) + rows[x].amount
    BY <1>5, SMT
  <1> QED
    BY <1>1, <1>3, <1>4, <1>5, <1>6, Zenon

(* Finitely many reserves hold finitely many credits.                      *)
LEMMA CreditsFinite ==
  ASSUME NEW rows, NEW S, IsFiniteSet(S), \A r \in S : rows[r].amount \in Nat
  PROVE  IsFiniteSet(Credits(rows, S))
  <1> DEFINE T == {{r} \X (1 .. rows[r].amount) : r \in S}
             f == [r \in S |-> {r} \X (1 .. rows[r].amount)]
  <1>1. f \in Surjection(S, T)
    BY DEF Surjection
  <1>2. IsFiniteSet(T)
    <2> HIDE DEF T, f
    <2> QED
      BY <1>1, FS_Surjection
  <1>3. ASSUME NEW X \in T PROVE IsFiniteSet(X)
    <2>1. PICK r \in S : X = {r} \X (1 .. rows[r].amount)
      OBVIOUS
    <2>2. IsFiniteSet({r}) /\ IsFiniteSet(1 .. rows[r].amount)
      BY FS_Singleton, FirstNumbers, Zenon
    <2> QED
      BY <2>1, <2>2, FS_Product, Zenon
  <1> HIDE DEF T
  <1>4. IsFiniteSet(UNION T)
    BY <1>2, <1>3, FS_UNION
  <1> QED
    BY <1>4 DEF T, Credits

(* The equation that defines the sum, set by set.                          *)
Summed(rows, S, sum) ==
    sum = [s \in SUBSET S |-> IF s = {} THEN 0
                              ELSE rows[CHOOSE x \in s : TRUE].amount + sum[s \ {CHOOSE x \in s : TRUE}]]

(* The sum counts the credits: a smallest set where it did not would have  *)
(* an element to take out.                                                 *)
LEMMA SumCounts ==
  ASSUME NEW rows, NEW S, IsFiniteSet(S), \A r \in S : rows[r].amount \in Nat
  PROVE  SumOf(rows, S) = Cardinality(Credits(rows, S))
  <1> DEFINE count(s) == Cardinality(Credits(rows, s))
             some(s)  == CHOOSE x \in s : TRUE
  <1>1. ASSUME NEW s \in SUBSET S, s # {}
        PROVE  count(s) = rows[some(s)].amount + count(s \ {some(s)})
    <2>1. some(s) \in s
      BY <1>1, Zenon
    <2> HIDE DEF some
    <2>2. PICK x \in s : x = some(s)
      BY <2>1
    <2>3. IsFiniteSet(s \ {x})
      BY FS_Subset
    <2>4. IsFiniteSet(Credits(rows, s \ {x})) /\ x \notin s \ {x} /\ (s \ {x}) \cup {x} = s /\ rows[x].amount \in Nat
      BY <2>3, CreditsFinite
    <2>5. Cardinality(Credits(rows, s \ {x})) \in Nat
      BY <2>4, FS_CardinalityType
    <2>6. count(s) = count(s \ {x}) + rows[x].amount
      BY <2>4, CreditsAdd
    <2> QED
      BY <2>2, <2>4, <2>5, <2>6
  <1>2. count({}) = 0
    BY FS_EmptySet DEF Credits
  <1>3. Summed(rows, S, [s \in SUBSET S |-> count(s)])
    <2> DEFINE g == [s \in SUBSET S |-> count(s)]
    <2>1. \A s \in SUBSET S : g[s] = IF s = {} THEN 0 ELSE rows[some(s)].amount + g[s \ {some(s)}]
      BY <1>1, <1>2, Zenon
    <2> HIDE DEF count
    <2> QED
      BY <2>1, Zenon DEF Summed
  <1>4. PICK h : h = (CHOOSE f : Summed(rows, S, f)) /\ Summed(rows, S, h)
    BY <1>3, Zenon
  <1>5. \A s \in SUBSET S : h[s] = IF s = {} THEN 0 ELSE rows[some(s)].amount + h[s \ {some(s)}]
    BY <1>4, Zenon DEF Summed
  <1> HIDE DEF count
  <1>6. h[S] = count(S)
    <2> SUFFICES ASSUME h[S] # count(S) PROVE FALSE
      OBVIOUS
    <2> DEFINE Bad == {s \in SUBSET S : h[s] # count(s)}
    <2>1. Bad \subseteq SUBSET S /\ Bad # {}
      OBVIOUS
    <2>2. IsWellFoundedOn(StrictSubsetOrdering(S), SUBSET S)
      BY FS_StrictSubsetOrderingWellFounded, FS_FiniteSubsetsOfFinite
    <2>3. PICK s \in Bad : \A t \in Bad : <<t, s>> \notin StrictSubsetOrdering(S)
      <3> HIDE DEF Bad
      <3> QED
        BY <2>1, <2>2, WFMin
    <2>4. s # {}
      BY <1>2, <1>5
    <2>5. some(s) \in s
      BY <2>4, Zenon
    <2>6. s \ {some(s)} \notin Bad
      <3> HIDE DEF Bad, some
      <3>1. <<s \ {some(s)}, s>> \in StrictSubsetOrdering(S)
        BY <2>1, <2>5 DEF StrictSubsetOrdering
      <3> QED
        BY <2>3, <3>1
    <2>7. h[s] = rows[some(s)].amount + h[s \ {some(s)}] /\ h[s \ {some(s)}] = count(s \ {some(s)})
      <3> HIDE DEF some
      <3> QED
        BY <1>5, <2>4, <2>6
    <2> HIDE DEF some
    <2> QED
      BY <1>1, <2>4, <2>7
  <1>7. SumOf(rows, S) = h[S]
    BY <1>4, Zenon DEF SumOf, MapThenSumSet, MapThenFoldSet, Summed
  <1> QED
    BY <1>6, <1>7 DEF count

-----------------------------------------------------------------------------
(* Money is conserved.                                                     *)

Written   == {r \in Reserves : reserve[r].status # "none"}
HeldBy(u) == {r \in Reserves : reserve[r].user = u /\ reserve[r].status \in {"open", "committed"}}

(* Finitely many reserve rows were written, and every credit is accounted  *)
(* for: on the balance or held.                                            *)
Balanced ==
    /\ IsFiniteSet(Written)
    /\ \A u \in Users : balance[u] = net[u] - Cardinality(Credits(reserve, HeldBy(u)))

(* What a user holds is finite, and Held counts it.                        *)
LEMMA HeldIsFinite ==
  ASSUME TypeOK, Balanced, NEW u \in Users
  PROVE  /\ IsFiniteSet(HeldBy(u)) /\ \A r \in HeldBy(u) : reserve[r].amount \in Nat
         /\ IsFiniteSet(Credits(reserve, HeldBy(u))) /\ Cardinality(Credits(reserve, HeldBy(u))) \in Nat
  <1>1. HeldBy(u) \in SUBSET Written
    BY DEF HeldBy, Written
  <1>2. IsFiniteSet(HeldBy(u)) /\ \A r \in HeldBy(u) : reserve[r].amount \in Nat
    BY <1>1, FS_Subset DEF Balanced, TypeOK, HeldBy
  <1>3. IsFiniteSet(Credits(reserve, HeldBy(u)))
    BY <1>2, CreditsFinite
  <1> QED
    BY <1>2, <1>3, FS_CardinalityType

(* A step that changes no amount and no holding.                           *)
LEMMA SameCredits ==
  ASSUME NEW rows, NEW new, NEW S, \A r \in S : new[r].amount = rows[r].amount
  PROVE  Credits(new, S) = Credits(rows, S)
  BY DEF Credits

(* Nothing is granted, nothing is held.                                    *)
LEMMA InitBalanced == Init => Balanced
  <1> SUFFICES ASSUME Init PROVE Balanced
    OBVIOUS
  <1>1. Written = {} /\ \A u \in Users : HeldBy(u) = {}
    BY DEF Init, NoRow, Written, HeldBy
  <1>2. Credits(reserve, {}) = {}
    BY DEF Credits
  <1> QED
    BY <1>1, <1>2, FS_EmptySet DEF Init, Balanced

(* The reserve rows stay: balance and net move together.                   *)
LEMMA RowsStayBalanced ==
  ASSUME TypeOK, Balanced, UNCHANGED reserve,
         \A u \in Users : balance'[u] - net'[u] = balance[u] - net[u],
         balance' \in [Users -> Int], net' \in [Users -> Int]
  PROVE  Balanced'
  <1>1. Written' = Written /\ \A u \in Users : HeldBy(u)' = HeldBy(u)
    BY DEF Written, HeldBy
  <1>2. ASSUME NEW u \in Users PROVE balance'[u] = net'[u] - Cardinality(Credits(reserve, HeldBy(u)))
    <2>1. PICK k \in Nat : k = Cardinality(Credits(reserve, HeldBy(u)))
      BY HeldIsFinite
    <2>2. /\ balance[u] = net[u] - k /\ balance'[u] - net'[u] = balance[u] - net[u]
          /\ {balance[u], net[u], balance'[u], net'[u]} \subseteq Int
      BY <2>1 DEF Balanced, TypeOK
    <2>3. balance'[u] = net'[u] - k
      BY <2>2, SMT
    <2> QED
      BY <2>1, <2>3
  <1> QED
    BY <1>1, <1>2 DEF Balanced

(* spend_reserve: the amount leaves the balance and is held.               *)
LEMMA InsertReserveBalanced ==
  ASSUME IInv, Balanced, NEW s \in Sessions, InsertReserve(s)
  PROVE  Balanced'
  <1>0. TypeOK
    BY DEF IInv
  <1>1. PICK r \in Reserves, a \in Nat, v \in Users :
          /\ reserve[r].status = "none"
          /\ reserve' = [reserve EXCEPT ![r] = [status |-> "open", user |-> v, amount |-> a, job |-> txn[s].job]]
          /\ balance' = [balance EXCEPT ![v] = @ - a] /\ net' = net
    BY DEF InsertReserve, IInv, CallInv, TypeOK
  <1>2. reserve'[r].amount = a /\ \A q \in Reserves \ {r} : reserve'[q] = reserve[q]
    BY <1>0, <1>1 DEF TypeOK
  <1>3. Written' = Written \cup {r}
    BY <1>0, <1>1 DEF Written, TypeOK
  <1>4. HeldBy(v)' = HeldBy(v) \cup {r} /\ r \notin HeldBy(v)
    BY <1>0, <1>1 DEF HeldBy, TypeOK
  <1>5. \A u \in Users \ {v} : HeldBy(u)' = HeldBy(u) /\ r \notin HeldBy(u)
    BY <1>0, <1>1 DEF HeldBy, TypeOK
  <1>6. \A u \in Users : Credits(reserve', HeldBy(u)) = Credits(reserve, HeldBy(u))
    <2> SUFFICES ASSUME NEW u \in Users PROVE Credits(reserve', HeldBy(u)) = Credits(reserve, HeldBy(u))
      OBVIOUS
    <2>1. \A q \in HeldBy(u) : q \in Reserves \ {r}
      BY <1>4, <1>5 DEF HeldBy
    <2> QED
      BY <1>2, <2>1, SameCredits
  <1>7. ASSUME NEW u \in Users PROVE balance'[u] = net'[u] - Cardinality(Credits(reserve', HeldBy(u)'))
    <2>0. /\ IsFiniteSet(Credits(reserve, HeldBy(u))) /\ Cardinality(Credits(reserve, HeldBy(u))) \in Nat
          /\ balance[u] = net[u] - Cardinality(Credits(reserve, HeldBy(u)))
          /\ balance[u] \in Int /\ net[u] \in Int
      BY <1>0, HeldIsFinite DEF Balanced, TypeOK
    <2>1. CASE u = v
      <3>1. Cardinality(Credits(reserve', HeldBy(v) \cup {r})) = Cardinality(Credits(reserve', HeldBy(v))) + a
        BY <1>2, <1>4, <1>6, <2>0, <2>1, CreditsAdd
      <3>2. balance'[u] = balance[u] - a
        BY <1>0, <1>1, <2>1 DEF TypeOK
      <3>3. PICK k \in Nat : k = Cardinality(Credits(reserve, HeldBy(v)))
        BY <2>0, <2>1
      <3>4. Cardinality(Credits(reserve', HeldBy(u)')) = k + a
        BY <1>4, <1>6, <2>1, <3>1, <3>3
      <3>5. balance'[u] = net[u] - (k + a)
        BY <2>0, <2>1, <3>2, <3>3, SMT
      <3> QED
        BY <1>1, <3>4, <3>5
    <2>2. CASE u # v
      <3>1. balance'[u] = balance[u] /\ net'[u] = net[u]
        BY <1>0, <1>1, <2>2 DEF TypeOK
      <3>2. Credits(reserve', HeldBy(u)') = Credits(reserve, HeldBy(u))
        BY <1>5, <1>6, <2>2
      <3> QED
        BY <2>0, <3>1, <3>2, Zenon
    <2> QED
      BY <2>1, <2>2
  <1>8. IsFiniteSet(Written')
    BY <1>3, FS_AddElement DEF Balanced
  <1> QED
    BY <1>7, <1>8 DEF Balanced

(* spend_commit keeps what is held; spend_release gives back what the      *)
(* reserve took.                                                           *)
LEMMA SettleBalanced ==
  ASSUME IInv, Balanced, NEW s \in Sessions, InsertCommit(s) \/ InsertRelease(s)
  PROVE  Balanced'
  <1>0. TypeOK
    BY DEF IInv
  <1>1. PICK r \in Reserves, v \in Users, a \in Nat :
          r = txn[s].reserve /\ v = txn[s].user /\ a = txn[s].amount
    BY DEF InsertCommit, InsertRelease, IInv, CallInv, TypeOK
  <1>2. reserve[r].status = "open" /\ reserve[r].user = v /\ reserve[r].amount = a
    BY <1>1 DEF InsertCommit, InsertRelease, IInv, CallInv, ReadInv, Judged
  <1>3. /\ net' = net
        /\ \/ /\ reserve' = [reserve EXCEPT ![r].status = "committed"] /\ balance' = balance
           \/ /\ reserve' = [reserve EXCEPT ![r].status = "released"]
              /\ balance' = [balance EXCEPT ![v] = @ + a]
    BY <1>1 DEF InsertCommit, InsertRelease
  <1>4. \A q \in Reserves : reserve'[q].amount = reserve[q].amount /\ reserve'[q].user = reserve[q].user
    BY <1>0, <1>3 DEF TypeOK
  <1>5. Written' = Written
    <2>1. \A q \in Reserves : reserve'[q].status # "none" <=> reserve[q].status # "none"
      BY <1>0, <1>2, <1>3 DEF TypeOK
    <2> QED
      BY <2>1 DEF Written
  <1>6. \A u \in Users : HeldBy(u) \subseteq Reserves
    BY DEF HeldBy
  <1>7. \A S : S \subseteq Reserves => Credits(reserve', S) = Credits(reserve, S)
    BY <1>4, SameCredits
  <1>n. net' = net
    BY Zenon DEF InsertCommit, InsertRelease
  <1>8. CASE reserve' = [reserve EXCEPT ![r].status = "committed"] /\ balance' = balance
    <2>1. \A u \in Users : HeldBy(u)' = HeldBy(u)
      BY <1>0, <1>2, <1>8 DEF HeldBy, TypeOK
    <2>2. \A u \in Users : Credits(reserve', HeldBy(u)') = Credits(reserve, HeldBy(u))
      BY <1>6, <1>7, <2>1
    <2> QED
      BY <1>5, <1>8, <1>n, <2>2 DEF Balanced
  <1>9. CASE /\ reserve' = [reserve EXCEPT ![r].status = "released"]
             /\ balance' = [balance EXCEPT ![v] = @ + a]
    <2>1. \A u \in Users \ {v} : HeldBy(u)' = HeldBy(u)
      BY <1>0, <1>2, <1>9 DEF HeldBy, TypeOK
    <2>2. HeldBy(v)' = HeldBy(v) \ {r} /\ r \in HeldBy(v)
      BY <1>0, <1>2, <1>9 DEF HeldBy, TypeOK
    <2>3. ASSUME NEW u \in Users PROVE balance'[u] = net'[u] - Cardinality(Credits(reserve', HeldBy(u)'))
      <3>0. /\ IsFiniteSet(HeldBy(u)) /\ \A q \in HeldBy(u) : reserve[q].amount \in Nat
            /\ balance[u] = net[u] - Cardinality(Credits(reserve, HeldBy(u)))
            /\ balance[u] \in Int /\ net[u] \in Int
        BY <1>0, HeldIsFinite DEF Balanced, TypeOK
      <3>1. CASE u = v
        <4>1. IsFiniteSet(HeldBy(v) \ {r}) /\ (HeldBy(v) \ {r}) \cup {r} = HeldBy(v)
          BY <2>2, <3>0, <3>1, FS_Subset
        <4>2. /\ IsFiniteSet(Credits(reserve, HeldBy(v) \ {r}))
              /\ Cardinality(Credits(reserve, HeldBy(v) \ {r})) \in Nat
          BY <3>0, <3>1, <4>1, CreditsFinite, FS_CardinalityType
        <4>3. r \notin HeldBy(v) \ {r} /\ reserve[r].amount \in Nat
          BY <1>2
        <4>4. Cardinality(Credits(reserve, (HeldBy(v) \ {r}) \cup {r}))
                = Cardinality(Credits(reserve, HeldBy(v) \ {r})) + a
          BY <1>2, <4>2, <4>3, CreditsAdd
        <4>5. balance'[u] = balance[u] + a
          BY <1>0, <1>9, <3>1 DEF TypeOK
        <4>6. Credits(reserve', HeldBy(u)') = Credits(reserve, HeldBy(v) \ {r})
          BY <1>6, <1>7, <2>2, <3>1
        <4>7. PICK k \in Nat : k = Cardinality(Credits(reserve, HeldBy(v) \ {r}))
          BY <4>2
        <4>8. balance[u] = net[u] - (k + a)
          BY <3>0, <3>1, <4>1, <4>4, <4>7
        <4>9. balance'[u] = net[u] - k
          BY <3>0, <4>5, <4>8, SMT
        <4> QED
          BY <1>n, <4>6, <4>7, <4>9, Zenon
      <3>2. CASE u # v
        <4>1. balance'[u] = balance[u] /\ net'[u] = net[u]
          BY <1>0, <1>9, <1>n, <3>2 DEF TypeOK
        <4>2. Credits(reserve', HeldBy(u)') = Credits(reserve, HeldBy(u))
          BY <1>6, <1>7, <2>1, <3>2
        <4> QED
          BY <3>0, <4>1, <4>2, Zenon
      <3> QED
        BY <3>1, <3>2
    <2> QED
      BY <1>5, <2>3 DEF Balanced
  <1> QED
    BY <1>3, <1>8, <1>9

(* No step creates or loses a credit.                                      *)
LEMMA NextBalanced == IInv /\ Balanced /\ [Next]_vars => Balanced'
  <1> SUFFICES ASSUME IInv, Balanced, [Next]_vars PROVE Balanced'
    OBVIOUS
  <1>0. TypeOK
    BY DEF IInv
  <1>1. CASE UNCHANGED <<balance, reserve, net>>
    BY <1>0, <1>1, RowsStayBalanced DEF TypeOK
  <1>2. ASSUME NEW s \in Sessions, Locked(s) PROVE Balanced'
    <2>1. CASE Call(s) \/ TakeLock(s) \/ ReadUnderLock(s) \/ Rollback(s)
      BY <1>1, <2>1 DEF Call, CallReserve, CallAdjust, CallSettle, Begin, TakeLock, ReadUnderLock, Rollback
    <2>2. CASE InsertAdjust(s)
      <3>1. txn[s].user \in Users /\ txn[s].amount \in Nat
        BY <2>2 DEF InsertAdjust, IInv, CallInv, TypeOK
      <3> QED
        BY <1>0, <2>2, <3>1, RowsStayBalanced DEF InsertAdjust, TypeOK
    <2> QED
      BY <1>2, <2>1, <2>2, InsertReserveBalanced, SettleBalanced DEF Locked, Insert
  <1>3. CASE Unlocked
    <2>1. PICK u \in Users, a \in Amounts : Credit(u, a) \/ Override(u, a)
      BY <1>3 DEF Unlocked
    <2> QED
      BY <1>0, <2>1, AmountsAssumption, RowsStayBalanced DEF Credit, Override, TypeOK
  <1>4. CASE UNCHANGED vars
    BY <1>1, <1>4 DEF vars
  <1> QED
    BY <1>2, <1>3, <1>4 DEF Next

(* Every credit is accounted for, whatever sessions race: a settlement     *)
(* happens once, gives back exactly what the reserve took, or nothing      *)
(* (0033 commit_reserve, release_reserve).                                 *)
THEOREM MoneyConserved == Spec => []Conservation
  <1>1. TypeOK /\ Balanced => Conservation
    <2> SUFFICES ASSUME TypeOK, Balanced, NEW u \in Users
                 PROVE  balance[u] = net[u] - Held(u, {"open", "committed"})
      BY DEF Conservation
    <2>1. Held(u, {"open", "committed"}) = SumOf(reserve, HeldBy(u))
      BY DEF Held, SumOf, HeldBy
    <2>2. SumOf(reserve, HeldBy(u)) = Cardinality(Credits(reserve, HeldBy(u)))
      BY HeldIsFinite, SumCounts
    <2> QED
      BY <2>1, <2>2 DEF Balanced
  <1> QED
    BY <1>1, InitBalanced, NextBalanced, Safety, TypeCorrect, PTL DEF Spec
=============================================================================
