-------------------------- MODULE DfsBudgetProofs --------------------------
(***************************************************************************)
(* The cap holds for any number of operations, estimates and days.  The    *)
(* argument is the lock's: whoever is between the lock and the end of its  *)
(* transaction holds the lock of its day, so the total a reservation read  *)
(* is still the day's total when it books.                                 *)
(*                                                                         *)
(* The real bills follow: a day's total is the sum of what its operations  *)
(* booked (Totalled), and each booking covers its bill (Covered).          *)
(***************************************************************************)
EXTENDS DfsBudgetProperties, FiniteSetTheorems, TLAPS

Inside(c) == pc[c] \in {"read", "book", "update"}
Holding   == \A c \in Calls : Inside(c) => lock[day[c]] = c
Fresh     == \A c \in Calls : At(c, "book") => spent[c] = total[day[c]]
Started   == \A c \in Calls : At(c, "request") => left[c] >= 1

IInv == TypeOK /\ Holding /\ Fresh /\ Started /\ CapHolds

(* The initial state: nothing is booked and nobody is inside.              *)
LEMMA InitIInv == Init => IInv
  <1> SUFFICES ASSUME Init PROVE IInv
    OBVIOUS
  <1>1. TypeOK
    BY BudgetAssumption, SMT DEF Init, TypeOK, Days
  <1>2. Holding /\ Fresh /\ Started
    BY SMT DEF Init, Holding, Fresh, Started, Inside, At
  <1>3. CapHolds
    BY BudgetAssumption, SMT DEF Init, CapHolds
  <1> QED
    BY <1>1, <1>2, <1>3 DEF IInv

(* Leaving a transaction frees the lock of nobody else.                    *)
LEMMA UnlockKeeps ==
  ASSUME TypeOK, NEW c \in Calls, Unlock(c)
  PROVE  /\ lock' \in [Days -> Calls \cup {Nil}]
         /\ \A x \in Calls, d \in Days : x # c /\ lock[d] = x => lock'[d] = x
  BY SMT DEF TypeOK, Unlock

(* Every step keeps the state within its types.                            *)
LEMMA StepType ==
  ASSUME TypeOK, Started, NEW c \in Calls, Step(c)
  PROVE  TypeOK'
  <1> USE BudgetAssumption DEF TypeOK
  <1>1. CASE BeginReserve(c)
    BY <1>1, SMT DEF BeginReserve, Goto, history
  <1>2. CASE TakeLock(c)
    BY <1>2, SMT DEF TakeLock, Goto, history
  <1>3. CASE ReadTotal(c)
    BY <1>3, SMT DEF ReadTotal, Goto, history
  <1>4. CASE Refuse(c)
    BY <1>4, UnlockKeeps, SMT DEF Refuse, Goto, history
  <1>5. CASE Book(c)
    <2>1. rows' \in [Calls -> [state : {"none", "open", "settled"}, day : Days, cost : Nat]]
      BY <1>5, SMT DEF Book
    <2>2. total' \in [Days -> Int] /\ left' \in [Calls -> Nat]
      BY <1>5, SMT DEF Book
    <2>3. pc' \in [Calls -> {"idle", "reserve", "read", "book", "request",
                             "settle", "update", "done"}]
      BY <1>5, SMT DEF Book, Goto
    <2>4. lock' \in [Days -> Calls \cup {Nil}]
      BY <1>5, UnlockKeeps DEF Book
    <2>5. UNCHANGED <<today, day, spent, tally, billed, over>>
      BY <1>5 DEF Book, history
    <2> QED
      BY <1>5, <2>1, <2>2, <2>3, <2>4, <2>5, SMT
  <1>6. CASE Settle(c)
    <2>1. rows' \in [Calls -> [state : {"none", "open", "settled"}, day : Days, cost : Nat]]
      BY <1>6, SMT DEF Settle
    <2>2. total' \in [Days -> Int]
      BY <1>6, SMT DEF Settle
    <2>3. over' \in [Days -> Nat]
      BY <1>6, SMT DEF Settle
    <2>4. pc' \in [Calls -> {"idle", "reserve", "read", "book", "request",
                             "settle", "update", "done"}]
      BY <1>6, SMT DEF Settle, Goto
    <2>5. lock' \in [Days -> Calls \cup {Nil}]
      BY <1>6, UnlockKeeps DEF Settle
    <2>6. UNCHANGED <<today, day, spent, left, tally, billed>>
      BY <1>6 DEF Settle
    <2> QED
      BY <2>1, <2>2, <2>3, <2>4, <2>5, <2>6, SMT
  <1>7. CASE Rollback(c)
    BY <1>7, UnlockKeeps, SMT DEF Rollback, Goto, history
  <1>8. CASE Answered(c)
    <2>1. left' \in [Calls -> Nat]
      BY <1>8, SMT DEF Answered, At, Started
    <2>2. PICK price \in Prices : \E counted \in {price, Unit} :
                /\ tally' = [tally EXCEPT ![c] = @ + counted]
                /\ Bill(c, price)
      BY <1>8 DEF Answered
    <2>3. tally' \in [Calls -> Nat]
      BY <2>2, SMT
    <2>4. billed' \in [Calls -> Nat]
      BY <2>2, SMT DEF Bill
    <2>5. pc' \in [Calls -> {"idle", "reserve", "read", "book", "request",
                             "settle", "update", "done"}]
      BY <1>8, SMT DEF Answered, Goto
    <2> QED
      BY <2>1, <2>2, <2>3, <2>4, <2>5, SMT DEF Bill
  <1>9. CASE Failed(c)
    BY <1>9, SMT DEF Failed, Bill, Goto
  <1>10. CASE RefusedWithPrice(c)
    BY <1>10, SMT DEF RefusedWithPrice, Bill, Goto
  <1>11. CASE Crash(c)
    BY <1>11, SMT DEF Crash, Goto, history
  <1> QED
    BY <1>1, <1>2, <1>3, <1>4, <1>5, <1>6, <1>7, <1>8, <1>9, <1>10, <1>11 DEF Step

(* The holder of a lock keeps it to the end of its transaction, and the    *)
(* total it read stays the total of its day.                               *)
LEMMA StepHolding ==
  ASSUME TypeOK, Holding, NEW c \in Calls, Step(c)
  PROVE  Holding'
  <1> SUFFICES ASSUME NEW x \in Calls, Inside(x)'
               PROVE  lock'[day'[x]] = x
    BY DEF Holding
  <1>1. CASE x = c
    <2>1. TakeLock(c) \/ ReadTotal(c)
      BY <1>1, SMT DEF Step, Inside, TypeOK, BeginReserve, TakeLock, ReadTotal, Refuse, Book, Settle,
         Rollback, Answered, Failed, RefusedWithPrice, Crash, Goto, At, Bill
    <2>2. CASE TakeLock(c)
      BY <1>1, <2>2, SMT DEF TakeLock, TypeOK
    <2>3. CASE ReadTotal(c)
      BY <1>1, <2>3, SMT DEF ReadTotal, Holding, Inside, At
    <2> QED
      BY <2>1, <2>2, <2>3
  <1>2. CASE x # c
    <2>1. Inside(x) /\ day'[x] = day[x]
      BY <1>2, SMT DEF Step, Inside, TypeOK, BeginReserve, TakeLock, ReadTotal, Refuse, Book, Settle,
         Rollback, Answered, Failed, RefusedWithPrice, Crash, Goto, At, Bill
    <2>2. lock[day[x]] = x /\ day[x] \in Days
      BY <2>1 DEF Holding, TypeOK
    <2>3. lock'[day[x]] = x
      <3>1. CASE Refuse(c) \/ Book(c) \/ Settle(c) \/ Rollback(c)
        BY <1>2, <2>2, <3>1, UnlockKeeps DEF Refuse, Book, Settle, Rollback
      <3>2. CASE TakeLock(c)
        BY <2>2, <3>2, BudgetAssumption, SMT DEF TakeLock, TypeOK
      <3>3. CASE BeginReserve(c) \/ ReadTotal(c) \/ Answered(c) \/ Failed(c)
                   \/ RefusedWithPrice(c) \/ Crash(c)
        BY <2>2, <3>3 DEF BeginReserve, ReadTotal, Answered, Failed, RefusedWithPrice, Crash, Bill
      <3> QED
        BY <3>1, <3>2, <3>3 DEF Step
    <2> QED
      BY <2>1, <2>3
  <1> QED
    BY <1>1, <1>2

LEMMA StepFresh ==
  ASSUME TypeOK, Holding, Fresh, NEW c \in Calls, Step(c)
  PROVE  Fresh'
  <1> SUFFICES ASSUME NEW x \in Calls, At(x, "book")'
               PROVE  spent'[x] = total'[day'[x]]
    BY DEF Fresh
  <1>1. CASE x = c
    <2>1. ReadTotal(c)
      BY <1>1, SMT DEF Step, TypeOK, BeginReserve, TakeLock, ReadTotal, Refuse, Book, Settle,
         Rollback, Answered, Failed, RefusedWithPrice, Crash, Goto, At, Bill
    <2> QED
      BY <1>1, <2>1, SMT DEF ReadTotal, TypeOK
  <1>2. CASE x # c
    <2>1. At(x, "book") /\ day'[x] = day[x] /\ spent'[x] = spent[x]
      BY <1>2, SMT DEF Step, TypeOK, BeginReserve, TakeLock, ReadTotal, Refuse, Book, Settle,
         Rollback, Answered, Failed, RefusedWithPrice, Crash, Goto, At, Bill
    <2>2. total'[day[x]] = total[day[x]]
      <3>1. CASE Book(c) \/ Settle(c)
        <4>1. lock[day[c]] = c /\ lock[day[x]] = x
          BY <2>1, <3>1 DEF Holding, Inside, At, Book, Settle
        <4>2. day[c] # day[x]
          BY <1>2, <4>1
        <4> QED
          BY <3>1, <4>2, SMT DEF Book, Settle, TypeOK
      <3>2. CASE BeginReserve(c) \/ TakeLock(c) \/ ReadTotal(c) \/ Refuse(c) \/ Rollback(c)
                   \/ Answered(c) \/ Failed(c) \/ RefusedWithPrice(c) \/ Crash(c)
        BY <3>2 DEF BeginReserve, TakeLock, ReadTotal, Refuse, Rollback, Answered, Failed,
           RefusedWithPrice, Crash, Bill
      <3> QED
        BY <3>1, <3>2 DEF Step
    <2> QED
      BY <2>1, <2>2 DEF Fresh
  <1> QED
    BY <1>1, <1>2

(* An operation that still sends requests has one left.                    *)
LEMMA StepStarted ==
  ASSUME TypeOK, Started, NEW c \in Calls, Step(c)
  PROVE  Started'
  <1> SUFFICES ASSUME NEW x \in Calls, At(x, "request")'
               PROVE  left'[x] >= 1
    BY DEF Started
  <1>1. CASE x = c
    <2>1. Book(c) \/ Answered(c)
      BY <1>1, SMT DEF Step, TypeOK, BeginReserve, TakeLock, ReadTotal, Refuse, Book, Settle,
         Rollback, Answered, Failed, RefusedWithPrice, Crash, Goto, At, Bill
    <2>2. CASE Book(c)
      <3>1. left'[x] = Requests[x]
        BY <1>1, <2>2, SMT DEF Book, TypeOK
      <3>2. Requests[x] \in Nat \ {0}
        BY BudgetAssumption
      <3> QED
        BY <3>1, <3>2, SMT
    <2>3. CASE Answered(c)
      BY <1>1, <2>3, SMT DEF Answered, Goto, At, TypeOK
    <2> QED
      BY <2>1, <2>2, <2>3
  <1>2. CASE x # c
    <2>1. At(x, "request") /\ left'[x] = left[x]
      BY <1>2, SMT DEF Step, TypeOK, BeginReserve, TakeLock, ReadTotal, Refuse, Book, Settle,
         Rollback, Answered, Failed, RefusedWithPrice, Crash, Goto, At, Bill
    <2> QED
      BY <2>1 DEF Started
  <1> QED
    BY <1>1, <1>2

(* Booking adds an estimate to a total that has room for it; a settlement  *)
(* adds to the total at most what it adds to the day's overrun.            *)
LEMMA StepCap ==
  ASSUME TypeOK, Fresh, CapHolds, NEW c \in Calls, Step(c)
  PROVE  CapHolds'
  <1> SUFFICES ASSUME NEW d \in Days
               PROVE  total'[d] <= Cap + over'[d]
    BY DEF CapHolds
  <1>0. /\ total[d] <= Cap + over[d] /\ total[d] \in Int /\ over[d] \in Nat
        /\ Estimate[c] \in Nat /\ Cap \in Nat /\ tally[c] \in Nat /\ day[c] \in Days
    BY BudgetAssumption, SMT DEF CapHolds, TypeOK
  <1>1. CASE Book(c)
    <2>1. spent[c] = total[day[c]] /\ spent[c] + Estimate[c] <= Cap
      BY <1>1 DEF Book, Fresh
    <2>2. total'[d] = (IF d = day[c] THEN total[d] + Estimate[c] ELSE total[d]) /\ over' = over
      BY <1>1, SMT DEF Book, TypeOK, history
    <2> QED
      BY <1>0, <2>1, <2>2, SMT
  <1>2. CASE Settle(c)
    <2>1. total'[d] = IF d = day[c] THEN total[d] + tally[c] - Estimate[c] ELSE total[d]
      BY <1>2, SMT DEF Settle, TypeOK
    <2>2. over'[d] = IF d = day[c] /\ tally[c] > Estimate[c]
                     THEN over[d] + tally[c] - Estimate[c] ELSE over[d]
      BY <1>2, SMT DEF Settle, TypeOK
    <2> QED
      BY <1>0, <2>1, <2>2, SMT
  <1>3. CASE BeginReserve(c) \/ TakeLock(c) \/ ReadTotal(c) \/ Refuse(c) \/ Rollback(c)
               \/ Answered(c) \/ Failed(c) \/ RefusedWithPrice(c) \/ Crash(c)
    BY <1>0, <1>3 DEF BeginReserve, TakeLock, ReadTotal, Refuse, Rollback, Answered, Failed,
       RefusedWithPrice, Crash, Bill, history
  <1> QED
    BY <1>1, <1>2, <1>3 DEF Step

(* The clock touches nothing but the date.                                 *)
LEMMA NextDayKeeps == ASSUME IInv, NextDay PROVE IInv'
  <1>1. TypeOK'
    <2>1. today' \in Days
      BY BudgetAssumption, SMT DEF IInv, TypeOK, NextDay, Days
    <2> QED
      BY <2>1 DEF IInv, TypeOK, NextDay, locals, history
  <1>2. Holding' /\ Fresh' /\ Started' /\ CapHolds'
    BY DEF IInv, NextDay, locals, history, Holding, Fresh, Started, CapHolds, Inside, At
  <1> QED
    BY <1>1, <1>2 DEF IInv

LEMMA Inductive == IInv /\ [Next]_vars => IInv'
  <1> SUFFICES ASSUME IInv, [Next]_vars PROVE IInv'
    OBVIOUS
  <1>1. CASE NextDay
    BY <1>1, NextDayKeeps
  <1>2. CASE \E c \in Calls : Step(c)
    <2>1. PICK c \in Calls : Step(c)
      BY <1>2
    <2> QED
      BY <2>1, StepType, StepHolding, StepFresh, StepStarted, StepCap DEF IInv
  <1>3. CASE UNCHANGED vars
    BY <1>3 DEF vars, locals, history, IInv, TypeOK, Holding, Fresh, Started, CapHolds, Inside, At
  <1> QED
    BY <1>1, <1>2, <1>3 DEF Next

(* The inductive invariant of every behaviour.                             *)
THEOREM Safety == Spec => []IInv
  BY InitIInv, Inductive, PTL DEF Spec

(* The types hold: no fan-out sends more requests than it booked.          *)
THEOREM TypeCorrect == Spec => []TypeOK
  <1>1. IInv => TypeOK
    BY DEF IInv
  <1> QED
    BY <1>1, Safety, PTL

(* The daily cap of 0014: a day's booked total passes it by no more than   *)
(* the vendor charged above the estimates, whoever races for the budget.   *)
THEOREM DailyCap == Spec => []CapHolds
  <1>1. IInv => CapHolds
    BY DEF IInv
  <1> QED
    BY <1>1, Safety, PTL

(* The total a reservation decides upon is the total it books into.        *)
THEOREM DecidesOnTheTruth == Spec => []Fresh
  <1>1. IInv => Fresh
    BY DEF IInv
  <1> QED
    BY <1>1, Safety, PTL

-----------------------------------------------------------------------------
(* Sums.                                                                   *)

(* The sum of a function over a set, as BilledOn adds up the bills.        *)
SumOf(f, S) == MapThenSumSet(LAMBDA c : f[c], S)

(* The same money unit by unit: a unit is an operation and a number.       *)
Units(f, S) == UNION {{r} \X (1 .. f[r]) : r \in S}

(* The first n numbers.                                                    *)
LEMMA FirstNumbers ==
  ASSUME NEW n \in Nat
  PROVE  IsFiniteSet(1 .. n) /\ Cardinality(1 .. n) = n
  <1>1. 1 \in Int /\ n \in Int
    OBVIOUS
  <1>2. IsFiniteSet(1 .. n) /\ Cardinality(1 .. n) = IF 1 > n THEN 0 ELSE n - 1 + 1
    BY <1>1, FS_Interval, Zenon
  <1> QED
    BY <1>2, SMT

(* One operation more.                                                     *)
LEMMA UnitsAdd ==
  ASSUME NEW f, NEW S, NEW x, x \notin S, f[x] \in Nat, IsFiniteSet(Units(f, S))
  PROVE  /\ IsFiniteSet(Units(f, S \cup {x}))
         /\ Cardinality(Units(f, S \cup {x})) = Cardinality(Units(f, S)) + f[x]
  <1> DEFINE X == {x} \X (1 .. f[x])
  <1>1. Units(f, S \cup {x}) = Units(f, S) \cup X
    BY DEF Units
  <1>2. Units(f, S) \cap X = {}
    BY DEF Units
  <1>3. IsFiniteSet(X) /\ Cardinality(X) = f[x]
    <2>1. IsFiniteSet({x}) /\ Cardinality({x}) = 1
      BY FS_Singleton
    <2>2. IsFiniteSet(1 .. f[x]) /\ Cardinality(1 .. f[x]) = f[x]
      BY FirstNumbers, Zenon
    <2>3. IsFiniteSet(X) /\ Cardinality(X) = 1 * f[x]
      BY <2>1, <2>2, FS_Product, Zenon
    <2> QED
      BY <2>3
  <1> HIDE DEF X
  <1>4. IsFiniteSet(Units(f, S) \cup X)
        /\ Cardinality(Units(f, S) \cup X) = Cardinality(Units(f, S)) + Cardinality(X) - Cardinality({})
    BY <1>2, <1>3, FS_Union
  <1>5. Cardinality({}) = 0 /\ Cardinality(Units(f, S)) \in Nat
    BY FS_EmptySet, FS_CardinalityType
  <1>6. Cardinality(Units(f, S)) + f[x] - 0 = Cardinality(Units(f, S)) + f[x]
    BY <1>5, SMT
  <1> QED
    BY <1>1, <1>3, <1>4, <1>5, <1>6, Zenon

(* Finitely many operations cost finitely many units.                      *)
LEMMA UnitsFinite ==
  ASSUME NEW f, NEW S, IsFiniteSet(S), \A r \in S : f[r] \in Nat
  PROVE  IsFiniteSet(Units(f, S))
  <1> DEFINE T == {{r} \X (1 .. f[r]) : r \in S}
             g == [r \in S |-> {r} \X (1 .. f[r])]
  <1>1. g \in Surjection(S, T)
    BY DEF Surjection
  <1>2. IsFiniteSet(T)
    <2> HIDE DEF T, g
    <2> QED
      BY <1>1, FS_Surjection
  <1>3. ASSUME NEW X \in T PROVE IsFiniteSet(X)
    <2>1. PICK r \in S : X = {r} \X (1 .. f[r])
      OBVIOUS
    <2>2. IsFiniteSet({r}) /\ IsFiniteSet(1 .. f[r])
      BY FS_Singleton, FirstNumbers, Zenon
    <2> QED
      BY <2>1, <2>2, FS_Product, Zenon
  <1> HIDE DEF T
  <1>4. IsFiniteSet(UNION T)
    BY <1>2, <1>3, FS_UNION
  <1> QED
    BY <1>4 DEF T, Units

(* The equation that defines the sum, set by set.                          *)
Summed(f, S, sum) ==
    sum = [s \in SUBSET S |-> IF s = {} THEN 0
                              ELSE f[CHOOSE x \in s : TRUE] + sum[s \ {CHOOSE x \in s : TRUE}]]

(* The sum counts the units: a smallest set where it did not would have    *)
(* an element to take out.                                                 *)
LEMMA SumCounts ==
  ASSUME NEW f, NEW S, IsFiniteSet(S), \A r \in S : f[r] \in Nat
  PROVE  SumOf(f, S) = Cardinality(Units(f, S))
  <1> DEFINE count(s) == Cardinality(Units(f, s))
             some(s)  == CHOOSE x \in s : TRUE
  <1>1. ASSUME NEW s \in SUBSET S, s # {}
        PROVE  count(s) = f[some(s)] + count(s \ {some(s)})
    <2>1. some(s) \in s
      BY <1>1, Zenon
    <2> HIDE DEF some
    <2>2. PICK x \in s : x = some(s)
      BY <2>1
    <2>3. IsFiniteSet(s \ {x})
      BY FS_Subset
    <2>4. IsFiniteSet(Units(f, s \ {x})) /\ x \notin s \ {x} /\ (s \ {x}) \cup {x} = s /\ f[x] \in Nat
      BY <2>3, UnitsFinite
    <2>5. Cardinality(Units(f, s \ {x})) \in Nat
      BY <2>4, FS_CardinalityType
    <2>6. count(s) = count(s \ {x}) + f[x]
      BY <2>4, UnitsAdd
    <2> QED
      BY <2>2, <2>4, <2>5, <2>6
  <1>2. count({}) = 0
    BY FS_EmptySet DEF Units
  <1>3. Summed(f, S, [s \in SUBSET S |-> count(s)])
    <2> DEFINE g == [s \in SUBSET S |-> count(s)]
    <2>1. \A s \in SUBSET S : g[s] = IF s = {} THEN 0 ELSE f[some(s)] + g[s \ {some(s)}]
      BY <1>1, <1>2, Zenon
    <2> HIDE DEF count
    <2> QED
      BY <2>1, Zenon DEF Summed
  <1>4. PICK h : h = (CHOOSE g : Summed(f, S, g)) /\ Summed(f, S, h)
    BY <1>3, Zenon
  <1>5. \A s \in SUBSET S : h[s] = IF s = {} THEN 0 ELSE f[some(s)] + h[s \ {some(s)}]
    BY <1>4, Zenon DEF Summed
  <1> HIDE DEF count
  <1>6. h[S] = count(S)
    <2> SUFFICES ASSUME h[S] # count(S) PROVE FALSE
      OBVIOUS
    <2> DEFINE Bad == {s \in SUBSET S : h[s] # count(s)}
    <2>1. Bad \subseteq SUBSET S /\ Bad # {}
      OBVIOUS
    <2>2. IsWellFoundedOn(StrictSubsetOrdering(S), SUBSET S)
      BY FS_StrictSubsetOrderingWellFounded, FS_FiniteSubsetsOfFinite
    <2>3. PICK s \in Bad : \A t \in Bad : <<t, s>> \notin StrictSubsetOrdering(S)
      <3> HIDE DEF Bad
      <3> QED
        BY <2>1, <2>2, WFMin
    <2>4. s # {}
      BY <1>2, <1>5
    <2>5. some(s) \in s
      BY <2>4, Zenon
    <2>6. s \ {some(s)} \notin Bad
      <3> HIDE DEF Bad, some
      <3>1. <<s \ {some(s)}, s>> \in StrictSubsetOrdering(S)
        BY <2>1, <2>5 DEF StrictSubsetOrdering
      <3> QED
        BY <2>3, <3>1
    <2>7. h[s] = f[some(s)] + h[s \ {some(s)}] /\ h[s \ {some(s)}] = count(s \ {some(s)})
      <3> HIDE DEF some
      <3> QED
        BY <1>5, <2>4, <2>6
    <2> HIDE DEF some
    <2> QED
      BY <1>1, <2>4, <2>7
  <1>7. SumOf(f, S) = h[S]
    BY <1>4, Zenon DEF SumOf, MapThenSumSet, MapThenFoldSet, Summed
  <1> QED
    BY <1>6, <1>7 DEF count

-----------------------------------------------------------------------------
(* What the vendor bills is covered by what is booked.                     *)

(* What a row counts for in the total of its day.                          *)
Worth == [c \in Calls |-> IF rows[c].state = "open" THEN Estimate[c] ELSE rows[c].cost]

Listed == {c \in Calls : rows[c].state # "none"}

(* Finitely many operations were booked, and the total of a day is theirs. *)
Totalled ==
    /\ IsFiniteSet(Listed)
    /\ \A d \in Days : total[d] = Cardinality(Units(Worth, Booked(d)))

(* Before its booking an operation costs nothing; while it sends requests  *)
(* its tally covers its bill and leaves room for the requests to come; from*)
(* then on its row covers its bill, settled or left open.                  *)
Covered(c) ==
    /\ pc[c] \in {"idle", "reserve", "read", "book"} =>
          rows[c].state = "none" /\ billed[c] = 0 /\ tally[c] = 0
    /\ rows[c].state # "none" => rows[c].day = day[c]
    /\ pc[c] \in {"request", "settle", "update"} =>
          rows[c].state = "open" /\ tally[c] <= Estimate[c]
    /\ At(c, "request") => billed[c] <= tally[c] /\ tally[c] + left[c] * Unit <= Requests[c] * Unit
    /\ c \notin PricedRefusals =>
          /\ pc[c] \in {"settle", "update"} => billed[c] <= tally[c]
          /\ rows[c].state # "none" => billed[c] <= Worth[c]

(* No settlement passes its estimate.                                      *)
InsideEstimates == \A d \in Days : over[d] = 0

CostInv == Totalled /\ (\A c \in Calls : Covered(c)) /\ InsideEstimates

(* The vendor keeps to its price list, and an operation books at least the *)
(* estimate of each of its requests.                                       *)
Listing ==
    /\ \A p \in Prices : p <= Unit
    /\ \A c \in Calls : Requests[c] * Unit <= Estimate[c]

(* Every request is covered by the estimate of its operation.              *)
LEMMA UnitFits ==
  ASSUME Listing, NEW c \in Calls
  PROVE  Unit <= Requests[c] * Unit /\ Unit <= Estimate[c]
  <1>1. PICK n \in Nat \ {0}, u \in Nat, e \in Nat : n = Requests[c] /\ u = Unit /\ e = Estimate[c]
    BY BudgetAssumption
  <1>2. u <= n * u
    BY SMT
  <1>3. n * u <= e
    BY <1>1 DEF Listing
  <1>4. n * u \in Nat
    BY SMT
  <1>5. u <= e
    BY <1>2, <1>3, <1>4, SMT
  <1> QED
    BY <1>1, <1>2, <1>5

LEMMA InitCost == Init => CostInv
  <1> SUFFICES ASSUME Init PROVE CostInv
    OBVIOUS
  <1>1. Listed = {} /\ \A d \in Days : Booked(d) = {}
    BY DEF Init, Listed, Booked
  <1>2. Units(Worth, {}) = {}
    BY DEF Units
  <1>3. Totalled
    BY <1>1, <1>2, FS_EmptySet DEF Init, Totalled
  <1>4. \A c \in Calls : Covered(c)
    BY DEF Init, Covered, At
  <1>5. InsideEstimates
    BY DEF Init, InsideEstimates
  <1> QED
    BY <1>3, <1>4, <1>5 DEF CostInv

(* What an operation's row counts for is a number.                         *)
LEMMA WorthType ==
  ASSUME TypeOK
  PROVE  Worth \in [Calls -> Nat]
  BY BudgetAssumption DEF Worth, TypeOK

(* The operations booked on a day are finitely many, and so is their cost. *)
LEMMA BookedIsFinite ==
  ASSUME TypeOK, Totalled, NEW d \in Days
  PROVE  /\ IsFiniteSet(Booked(d)) /\ Booked(d) \subseteq Calls
         /\ IsFiniteSet(Units(Worth, Booked(d))) /\ Cardinality(Units(Worth, Booked(d))) \in Nat
  <1>1. Booked(d) \in SUBSET Listed /\ Booked(d) \subseteq Calls
    BY DEF Booked, Listed
  <1>2. IsFiniteSet(Booked(d)) /\ \A c \in Booked(d) : Worth[c] \in Nat
    BY <1>1, FS_Subset, WorthType DEF Totalled
  <1>3. IsFiniteSet(Units(Worth, Booked(d)))
    BY <1>2, UnitsFinite
  <1> QED
    BY <1>1, <1>2, <1>3, FS_CardinalityType

(* Who costs the same makes the same total.                                *)
LEMMA SameUnits ==
  ASSUME NEW f, NEW g, NEW S, \A c \in S : g[c] = f[c]
  PROVE  Units(g, S) = Units(f, S)
  BY DEF Units

(* A step that leaves the rows alone leaves their totals alone.            *)
LEMMA RowsStayTotalled ==
  ASSUME Totalled, UNCHANGED <<rows, total>>
  PROVE  Totalled'
  BY DEF Totalled, Listed, Booked, Worth

(* A booking adds its estimate.                                            *)
LEMMA BookTotalled ==
  ASSUME TypeOK, Totalled, NEW c \in Calls, rows[c].state = "none", Book(c)
  PROVE  Totalled'
  <1>0. PICK e \in Calls, D \in Days : e = c /\ D = day[c]
    BY DEF TypeOK
  <1>1. /\ rows' = [rows EXCEPT ![c] = [state |-> "open", day |-> D, cost |-> 0]]
        /\ total' = [total EXCEPT ![D] = @ + Estimate[c]]
    BY <1>0 DEF Book
  <1>2. rows'[c].state = "open" /\ rows'[c].day = D /\ \A x \in Calls \ {c} : rows'[x] = rows[x]
    BY <1>1 DEF TypeOK
  <1>3. Worth'[c] = Estimate[c] /\ \A x \in Calls \ {c} : Worth'[x] = Worth[x]
    BY <1>2 DEF Worth
  <1>4. Listed' = Listed \cup {c}
    BY <1>2 DEF Listed
  <1>5. IsFiniteSet(Listed')
    BY <1>4, FS_AddElement DEF Totalled
  <1>6. Booked(D)' = Booked(D) \cup {c} /\ c \notin Booked(D)
    BY <1>2 DEF Booked
  <1>7. \A d \in Days \ {D} : Booked(d)' = Booked(d) /\ c \notin Booked(d)
    BY <1>2 DEF Booked
  <1>8. \A d \in Days : Units(Worth', Booked(d)) = Units(Worth, Booked(d))
    <2> SUFFICES ASSUME NEW d \in Days PROVE Units(Worth', Booked(d)) = Units(Worth, Booked(d))
      OBVIOUS
    <2>1. \A x \in Booked(d) : x \in Calls \ {c}
      BY <1>6, <1>7 DEF Booked
    <2>2. \A x \in Booked(d) : Worth'[x] = Worth[x]
      BY <1>3, <2>1
    <2> QED
      BY <2>2, SameUnits
  <1>9. ASSUME NEW d \in Days PROVE total'[d] = Cardinality(Units(Worth', Booked(d)'))
    <2>0. /\ IsFiniteSet(Units(Worth, Booked(d))) /\ Cardinality(Units(Worth, Booked(d))) \in Nat
          /\ total[d] = Cardinality(Units(Worth, Booked(d)))
      BY BookedIsFinite DEF Totalled
    <2>1. CASE d = D
      <3>1. Worth'[c] \in Nat
        BY <1>3, BudgetAssumption
      <3>2. Cardinality(Units(Worth', Booked(D) \cup {c})) = Cardinality(Units(Worth', Booked(D))) + Worth'[c]
        BY <1>6, <1>8, <2>0, <2>1, <3>1, UnitsAdd
      <3>3. total'[d] = total[d] + Estimate[c]
        BY <1>1, <2>1 DEF TypeOK
      <3> QED
        BY <1>3, <1>6, <1>8, <2>0, <2>1, <3>2, <3>3
    <2>2. CASE d # D
      <3>1. total'[d] = total[d]
        BY <1>1, <2>2 DEF TypeOK
      <3>2. Units(Worth', Booked(d)') = Units(Worth, Booked(d))
        BY <1>7, <1>8, <2>2
      <3> QED
        BY <2>0, <3>1, <3>2, Zenon
    <2> QED
      BY <2>1, <2>2
  <1> QED
    BY <1>5, <1>9 DEF Totalled

(* A settlement replaces an estimate by a cost.                            *)
LEMMA SettleTotalled ==
  ASSUME TypeOK, Totalled, NEW c \in Calls, rows[c].day = day[c], Settle(c)
  PROVE  Totalled'
  <1>0. PICK D \in Days, t \in Nat : D = day[c] /\ t = tally[c]
    BY DEF TypeOK
  <1>1. /\ rows[c].state = "open" /\ rows[c].day = D
        /\ rows' = [rows EXCEPT ![c] = [state |-> "settled", day |-> @.day, cost |-> t]]
        /\ total' = [total EXCEPT ![D] = @ + t - Estimate[c]]
    BY <1>0 DEF Settle
  <1>2. /\ rows'[c].state = "settled" /\ rows'[c].day = D /\ rows'[c].cost = t
        /\ \A x \in Calls \ {c} : rows'[x] = rows[x]
    BY <1>1 DEF TypeOK
  <1>3. Worth'[c] = t /\ Worth[c] = Estimate[c] /\ \A x \in Calls \ {c} : Worth'[x] = Worth[x]
    BY <1>1, <1>2 DEF Worth
  <1>4. Listed' = Listed
    BY <1>1, <1>2 DEF Listed
  <1>5. c \in Booked(D) /\ \A d \in Days : Booked(d)' = Booked(d)
    BY <1>1, <1>2 DEF Booked
  <1>6. ASSUME NEW d \in Days PROVE total'[d] = Cardinality(Units(Worth', Booked(d)))
    <2>0. /\ IsFiniteSet(Booked(d)) /\ Booked(d) \subseteq Calls
          /\ total[d] = Cardinality(Units(Worth, Booked(d)))
      BY BookedIsFinite DEF Totalled
    <2>1. CASE d = D
      <3> DEFINE R == Booked(D) \ {c}
      <3>1. c \notin R /\ R \cup {c} = Booked(D) /\ IsFiniteSet(R) /\ R \subseteq Calls \ {c}
        BY <1>5, <2>0, <2>1, FS_Subset
      <3> HIDE DEF R
      <3>2. Units(Worth', R) = Units(Worth, R)
        BY <1>3, <3>1, SameUnits
      <3>3. IsFiniteSet(Units(Worth, R)) /\ Cardinality(Units(Worth, R)) \in Nat
        <4>1. \A x \in R : Worth[x] \in Nat
          BY <3>1, WorthType
        <4> QED
          BY <3>1, <4>1, UnitsFinite, FS_CardinalityType
      <3>4. Worth[c] \in Nat /\ Worth'[c] \in Nat
        BY <1>3, WorthType
      <3>5. Cardinality(Units(Worth, R \cup {c})) = Cardinality(Units(Worth, R)) + Worth[c]
        BY <3>1, <3>3, <3>4, UnitsAdd
      <3>6. Cardinality(Units(Worth', R \cup {c})) = Cardinality(Units(Worth', R)) + Worth'[c]
        BY <3>1, <3>2, <3>3, <3>4, UnitsAdd
      <3>7. PICK k \in Nat : k = Cardinality(Units(Worth, R))
        BY <3>3
      <3>8. total[d] = k + Estimate[c]
        BY <1>3, <2>0, <2>1, <3>1, <3>5, <3>7
      <3>9. total'[d] = total[d] + t - Estimate[c]
        BY <1>1, <2>1 DEF TypeOK
      <3>10. total'[d] = k + t
        BY <3>8, <3>9, BudgetAssumption, SMT
      <3>11. Cardinality(Units(Worth', Booked(d))) = k + t
        BY <1>3, <2>1, <3>1, <3>2, <3>6, <3>7
      <3> QED
        BY <3>10, <3>11
    <2>2. CASE d # D
      <3>1. total'[d] = total[d]
        BY <1>1, <2>2 DEF TypeOK
      <3>2. \A x \in Booked(d) : x \in Calls \ {c}
        BY <1>1, <2>2 DEF Booked
      <3>3. Units(Worth', Booked(d)) = Units(Worth, Booked(d))
        BY <1>3, <3>2, SameUnits
      <3> QED
        BY <2>0, <3>1, <3>3, Zenon
    <2> QED
      BY <2>1, <2>2
  <1> QED
    BY <1>4, <1>5, <1>6 DEF Totalled

(* The books balance after every step.                                     *)
LEMMA StepTotalled ==
  ASSUME TypeOK, CostInv, NEW c \in Calls, Step(c)
  PROVE  Totalled'
  <1>0. Covered(c) /\ Totalled
    BY DEF CostInv
  <1>1. CASE Book(c)
    BY <1>0, <1>1, BookTotalled DEF Book, At, Covered
  <1>2. CASE Settle(c)
    BY <1>0, <1>2, SettleTotalled DEF Settle, At, Covered
  <1>3. CASE UNCHANGED <<rows, total>>
    BY <1>0, <1>3, RowsStayTotalled
  <1> QED
    BY <1>1, <1>2, <1>3 DEF Step, BeginReserve, TakeLock, ReadTotal, Refuse, Rollback, Answered, Failed,
       RefusedWithPrice, Crash, Bill

(* A step of one operation leaves the bill of another alone.               *)
LEMMA OthersStayCovered ==
  ASSUME TypeOK, NEW c \in Calls, Step(c), NEW x \in Calls, x # c, Covered(x)
  PROVE  Covered(x)'
  <1>1. /\ pc'[x] = pc[x] /\ rows'[x] = rows[x] /\ day'[x] = day[x] /\ left'[x] = left[x]
        /\ tally'[x] = tally[x] /\ billed'[x] = billed[x]
    BY SMT DEF Step, TypeOK, BeginReserve, TakeLock, ReadTotal, Refuse, Book, Settle,
       Rollback, Answered, Failed, RefusedWithPrice, Crash, Goto, Bill, history
  <1>2. Worth'[x] = Worth[x]
    BY <1>1 DEF Worth
  <1> QED
    BY <1>1, <1>2 DEF Covered, At

(* An answer uses up one request's room and no more.                       *)
LEMMA AnsweredCovered ==
  ASSUME Listing, TypeOK, Started, NEW c \in Calls, Covered(c), Answered(c)
  PROVE  Covered(c)'
  <1>0. PICK p \in Prices : \E n \in {p, Unit} :
          /\ tally' = [tally EXCEPT ![c] = @ + n] /\ billed' = [billed EXCEPT ![c] = @ + p]
          /\ UNCHANGED <<rows, day>>
    BY DEF Answered, Bill
  <1>1. PICK n \in {p, Unit} :
          /\ tally' = [tally EXCEPT ![c] = @ + n] /\ billed' = [billed EXCEPT ![c] = @ + p]
          /\ UNCHANGED <<rows, day>>
    BY <1>0
  <1>2. PICK t \in Nat, b \in Nat, l \in Nat, e \in Nat, u \in Nat, m \in Nat :
          t = tally[c] /\ b = billed[c] /\ l = left[c] /\ e = Estimate[c] /\ u = Unit /\ m = Requests[c]
    BY BudgetAssumption DEF TypeOK
  <1>3. /\ p \in Nat /\ n \in Nat /\ p <= n /\ n <= u
    BY <1>1, <1>2, BudgetAssumption, SMT DEF Listing
  <1>4. tally'[c] = t + n /\ billed'[c] = b + p /\ left'[c] = l - 1 /\ l >= 1
    BY <1>1, <1>2 DEF TypeOK, Answered, Started
  <1>5. At(c, "request") /\ b <= t /\ t + l * u <= m * u /\ m * u <= e /\ rows[c].state = "open" /\ rows[c].day = day[c]
    BY <1>2 DEF Answered, Covered, At, Listing
  <1>6. PICK w \in Nat : w = (l - 1) * u
    BY <1>4, SMT
  <1>7. l * u = w + u
    BY <1>4, <1>6, SMT
  <1>8. PICK q \in Nat : q = m * u
    BY SMT
  <1>9. b + p <= t + n /\ t + n + w <= q /\ t + n <= e /\ b + p <= e
    BY <1>3, <1>5, <1>7, <1>8, SMT
  <1>10. Worth'[c] = e
    BY <1>1, <1>2, <1>5 DEF Worth
  <1>11. pc'[c] \in {"request", "settle"}
    BY DEF Answered, Goto, TypeOK
  <1>12. tally'[c] + left'[c] * Unit <= Requests[c] * Unit
    BY <1>2, <1>4, <1>6, <1>8, <1>9
  <1> QED
    BY <1>1, <1>2, <1>4, <1>5, <1>9, <1>10, <1>11, <1>12 DEF Covered, At

(* A failure settles at the whole estimate, which covers one request more. *)
LEMMA FailedCovered ==
  ASSUME Listing, TypeOK, Started, NEW c \in Calls, Covered(c), Failed(c)
  PROVE  Covered(c)'
  <1>1. PICK p \in Prices \cup {0} :
          /\ tally' = [tally EXCEPT ![c] = Estimate[c]] /\ billed' = [billed EXCEPT ![c] = @ + p]
          /\ UNCHANGED <<rows, day, left>>
    BY DEF Failed, Bill
  <1>2. PICK t \in Nat, b \in Nat, l \in Nat, e \in Nat, u \in Nat, m \in Nat :
          t = tally[c] /\ b = billed[c] /\ l = left[c] /\ e = Estimate[c] /\ u = Unit /\ m = Requests[c]
    BY BudgetAssumption DEF TypeOK
  <1>3. /\ p \in Nat /\ p <= u
    BY <1>1, <1>2, BudgetAssumption, SMT DEF Listing
  <1>4. tally'[c] = e /\ billed'[c] = b + p /\ l >= 1
    BY <1>1, <1>2 DEF TypeOK, Failed, Started
  <1>5. At(c, "request") /\ b <= t /\ t + l * u <= m * u /\ m * u <= e /\ rows[c].state = "open" /\ rows[c].day = day[c]
    BY <1>2 DEF Failed, Covered, At, Listing
  <1>6. PICK w \in Nat : w = l * u
    BY SMT
  <1>7. u <= w
    BY <1>4, <1>6, SMT
  <1>8. PICK q \in Nat : q = m * u
    BY SMT
  <1>9. b + p <= e
    BY <1>3, <1>5, <1>6, <1>7, <1>8, SMT
  <1>10. Worth'[c] = e
    BY <1>1, <1>2, <1>5 DEF Worth
  <1>11. pc'[c] = "settle"
    BY DEF Failed, Goto, TypeOK
  <1> QED
    BY <1>1, <1>2, <1>4, <1>5, <1>9, <1>10, <1>11 DEF Covered, At

(* A refusal's own price is that of one request.                           *)
LEMMA RefusedCovered ==
  ASSUME Listing, TypeOK, NEW c \in Calls, Covered(c), RefusedWithPrice(c)
  PROVE  Covered(c)'
  <1>1. PICK p \in Prices \cup {0}, told \in Prices \cup {0} :
          /\ tally' = [tally EXCEPT ![c] = told] /\ billed' = [billed EXCEPT ![c] = @ + p]
          /\ UNCHANGED <<rows, day, left>>
    BY DEF RefusedWithPrice, Bill
  <1>2. told \in Nat /\ told <= Estimate[c]
    BY <1>1, UnitFits, BudgetAssumption, SMT DEF Listing
  <1>3. tally'[c] = told /\ pc'[c] = "settle" /\ At(c, "request") /\ c \in PricedRefusals
    BY <1>1 DEF TypeOK, RefusedWithPrice, Goto
  <1>4. rows[c].state = "open" /\ rows[c].day = day[c]
    BY <1>3 DEF Covered, At
  <1> QED
    BY <1>1, <1>2, <1>3, <1>4 DEF Covered, At

(* A booking covers an operation that has no bill yet.                     *)
LEMMA BookCovered ==
  ASSUME Listing, TypeOK, NEW c \in Calls, Covered(c), Book(c)
  PROVE  Covered(c)'
  <1>1. /\ rows'[c].state = "open" /\ rows'[c].day = day'[c] /\ left'[c] = Requests[c]
        /\ pc'[c] \in {"request", "done"} /\ tally' = tally /\ billed' = billed
    BY DEF Book, Goto, TypeOK, history
  <1>2. billed[c] = 0 /\ tally[c] = 0
    BY DEF Covered, Book, At
  <1>3. Worth'[c] = Estimate[c]
    BY <1>1 DEF Worth
  <1>4. PICK q \in Nat, e \in Nat : q = Requests[c] * Unit /\ e = Estimate[c]
    BY BudgetAssumption, SMT
  <1>5. 0 <= e /\ 0 + q <= q /\ 0 <= 0
    BY SMT
  <1> QED
    BY <1>1, <1>2, <1>3, <1>4, <1>5 DEF Covered, At

(* A settled row counts for the tally, which covers the bill.              *)
LEMMA SettleCovered ==
  ASSUME TypeOK, NEW c \in Calls, Covered(c), Settle(c)
  PROVE  Covered(c)'
  <1>1. /\ rows'[c].state = "settled" /\ rows'[c].day = rows[c].day /\ rows'[c].cost = tally[c]
        /\ pc'[c] = "done" /\ tally' = tally /\ billed' = billed /\ day' = day /\ rows[c].state = "open"
    BY DEF Settle, Goto, TypeOK
  <1>2. Worth'[c] = tally[c]
    BY <1>1 DEF Worth
  <1> QED
    BY <1>1, <1>2 DEF Covered, At, Settle

(* The other steps of an operation move neither its row nor its bill.      *)
LEMMA WaitCovered ==
  ASSUME TypeOK, NEW c \in Calls, Covered(c),
         BeginReserve(c) \/ TakeLock(c) \/ ReadTotal(c) \/ Refuse(c) \/ Rollback(c) \/ Crash(c)
  PROVE  Covered(c)'
  <1>1. UNCHANGED <<rows, left, tally, billed>>
    BY DEF BeginReserve, TakeLock, ReadTotal, Refuse, Rollback, Crash, history
  <1>2. Worth' = Worth
    BY <1>1 DEF Worth
  <1>3. CASE BeginReserve(c)
    <2>1. pc[c] = "idle" /\ pc'[c] = "reserve"
      BY <1>3 DEF BeginReserve, At, Goto, TypeOK
    <2> QED
      BY <1>1, <1>2, <2>1 DEF Covered, At
  <1>4. CASE TakeLock(c) \/ ReadTotal(c)
    <2>1. \/ pc[c] \in {"reserve", "read"} /\ pc'[c] \in {"read", "book"}
          \/ pc[c] = "settle" /\ pc'[c] = "update"
      BY <1>4 DEF TakeLock, ReadTotal, At, Goto, TypeOK
    <2>2. day' = day
      BY <1>4 DEF TakeLock, ReadTotal
    <2> QED
      BY <1>1, <1>2, <2>1, <2>2 DEF Covered, At
  <1>5. CASE Refuse(c) \/ Rollback(c) \/ Crash(c)
    <2>1. pc'[c] = "done" /\ day' = day
      BY <1>5 DEF Refuse, Rollback, Crash, Goto, TypeOK
    <2> QED
      BY <1>1, <1>2, <2>1 DEF Covered, At
  <1> QED
    BY <1>3, <1>4, <1>5

LEMMA StepCovered ==
  ASSUME Listing, IInv, CostInv, NEW c \in Calls, Step(c), NEW x \in Calls
  PROVE  Covered(x)'
  <1>1. TypeOK /\ Started /\ Covered(c) /\ Covered(x)
    BY DEF IInv, CostInv
  <1> QED
    BY <1>1, OthersStayCovered, AnsweredCovered, FailedCovered, RefusedCovered, BookCovered,
       SettleCovered, WaitCovered DEF Step

(* A tally inside its estimate adds nothing to the overrun.                *)
LEMMA StepInside ==
  ASSUME TypeOK, CostInv, NEW c \in Calls, Step(c)
  PROVE  InsideEstimates'
  <1>1. CASE Settle(c)
    <2>1. ~ tally[c] > Estimate[c]
      <3>1. tally[c] <= Estimate[c] /\ tally[c] \in Nat /\ Estimate[c] \in Nat
        BY <1>1, BudgetAssumption DEF CostInv, Covered, Settle, At, TypeOK
      <3> QED
        BY <3>1, SMT
    <2>2. over' = over
      BY <1>1, <2>1 DEF Settle, TypeOK
    <2> QED
      BY <2>2 DEF CostInv, InsideEstimates
  <1>2. CASE UNCHANGED over
    BY <1>2 DEF CostInv, InsideEstimates
  <1> QED
    BY <1>1, <1>2 DEF Step, BeginReserve, TakeLock, ReadTotal, Refuse, Book, Rollback, Answered, Failed,
       RefusedWithPrice, Crash, Bill, history

LEMMA CostInductive ==
  ASSUME Listing
  PROVE  IInv /\ CostInv /\ [Next]_vars => CostInv'
  <1> SUFFICES ASSUME IInv, CostInv, [Next]_vars PROVE CostInv'
    OBVIOUS
  <1>1. ASSUME NEW c \in Calls, Step(c) PROVE CostInv'
    <2>1. TypeOK
      BY DEF IInv
    <2>2. Totalled' /\ InsideEstimates'
      BY <1>1, <2>1, StepTotalled, StepInside
    <2>3. \A x \in Calls : Covered(x)'
      BY <1>1, StepCovered
    <2> QED
      BY <2>2, <2>3 DEF CostInv
  <1>2. CASE NextDay \/ UNCHANGED vars
    <2>1. UNCHANGED <<rows, total, pc, day, left, tally, billed, over>>
      BY <1>2 DEF NextDay, vars, locals, history
    <2>2. Totalled'
      BY <2>1, RowsStayTotalled DEF CostInv
    <2>3. \A x \in Calls : Covered(x)'
      BY <2>1 DEF CostInv, Covered, At, Worth
    <2>4. InsideEstimates'
      BY <2>1 DEF CostInv, InsideEstimates
    <2> QED
      BY <2>2, <2>3, <2>4 DEF CostInv
  <1> QED
    BY <1>1, <1>2 DEF Next

(* What covers each bill covers their sum.                                 *)
LEMMA BillsInsideTotal ==
  ASSUME TypeOK, CostInv, NEW d \in Days
  PROVE  /\ BilledOn(d, Calls \ PricedRefusals) \in Nat
         /\ BilledOn(d, Calls \ PricedRefusals) <= total[d]
  <1> DEFINE B == Booked(d)
             S == Booked(d) \cap (Calls \ PricedRefusals)
  <1>1. /\ IsFiniteSet(B) /\ B \subseteq Calls
        /\ IsFiniteSet(Units(Worth, B)) /\ Cardinality(Units(Worth, B)) \in Nat
    BY BookedIsFinite DEF CostInv
  <1>2. IsFiniteSet(S) /\ \A c \in S : billed[c] \in Nat /\ Worth[c] \in Nat /\ billed[c] <= Worth[c] /\ c \in B
    <2>1. S \in SUBSET B
      OBVIOUS
    <2>2. IsFiniteSet(S)
      BY <1>1, <2>1, FS_Subset
    <2>3. \A c \in S : billed[c] <= Worth[c]
      BY DEF CostInv, Covered, Booked
    <2>4. \A c \in S : billed[c] \in Nat /\ Worth[c] \in Nat
      BY WorthType DEF TypeOK
    <2> QED
      BY <2>2, <2>3, <2>4
  <1>3. BilledOn(d, Calls \ PricedRefusals) = SumOf(billed, S)
    BY DEF BilledOn, SumOf
  <1> HIDE DEF B, S
  <1>4. SumOf(billed, S) = Cardinality(Units(billed, S))
    BY <1>2, SumCounts
  <1>5. Units(billed, S) \in SUBSET Units(Worth, B)
    <2>1. ASSUME NEW c \in S PROVE {c} \X (1 .. billed[c]) \subseteq {c} \X (1 .. Worth[c])
      <3>1. 1 .. billed[c] \subseteq 1 .. Worth[c]
        BY <1>2, SMT
      <3> QED
        BY <3>1
    <2> QED
      BY <1>2, <2>1 DEF Units
  <1>6. /\ Cardinality(Units(billed, S)) <= Cardinality(Units(Worth, B))
        /\ Cardinality(Units(billed, S)) \in Nat
    BY <1>1, <1>5, FS_Subset, FS_CardinalityType
  <1>7. total[d] = Cardinality(Units(Worth, B))
    BY DEF CostInv, Totalled, B
  <1> QED
    BY <1>3, <1>4, <1>6, <1>7

(* The money really billed: no day's bill passes the cap, through crashes, *)
(* lost replies, failures half-way and unpriced answers, when no request   *)
(* costs more than its estimate and an operation books at least the        *)
(* estimates of its requests (settleSpend, settleFailedSpend).             *)
THEOREM BillsStayWithinCap ==
  ASSUME \A p \in Prices : p <= Unit,
         \A c \in Calls : Requests[c] * Unit <= Estimate[c]
  PROVE  Spec => []BilledWithinCap
  <1>1. Listing
    BY DEF Listing
  <1>2. IInv /\ CostInv => BilledWithinCap
    <2> SUFFICES ASSUME IInv, CostInv, NEW d \in Days
                 PROVE  BilledOn(d, Calls \ PricedRefusals) <= Cap
      BY DEF BilledWithinCap
    <2>1. total[d] <= Cap + over[d] /\ over[d] = 0 /\ total[d] \in Int /\ Cap \in Nat
      BY BudgetAssumption DEF IInv, CapHolds, CostInv, InsideEstimates, TypeOK
    <2>2. total[d] <= Cap
      BY <2>1, SMT
    <2>3. BilledOn(d, Calls \ PricedRefusals) <= total[d]
      BY BillsInsideTotal DEF IInv
    <2>4. BilledOn(d, Calls \ PricedRefusals) \in Int
      BY BillsInsideTotal DEF IInv
    <2> QED
      BY <2>1, <2>2, <2>3, <2>4, SMT
  <1>3. IInv /\ CostInv /\ [Next]_vars => CostInv'
    BY <1>1, CostInductive
  <1> QED
    BY <1>2, <1>3, InitCost, Safety, PTL DEF Spec
=============================================================================
