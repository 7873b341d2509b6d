--------------------------- MODULE GatewayProofs ---------------------------
(***************************************************************************)
(* The gateway's promises for any number of keys, actions, requests and    *)
(* addresses, any bucket sizes and any clock.  A caller can never have     *)
(* been let through for more than it was given: what it passed for and     *)
(* what its bucket would hold now are together within its fills and the    *)
(* time.  And what an action may still insert is counted with the keys     *)
(* there are.                                                              *)
(***************************************************************************)
EXTENDS GatewayProperties, FiniteSetTheorems, TLAPS

Entries == [level : Nat, at : Int]

(* The room of a bucket: all a caller may have been let through for, apart *)
(* from time.                                                              *)
Room(id) == Fills(id) * Capacity[id]

Within == \A id \in Callers : passed[id] + Refilled(id) <= Room(id) + ticks

Small == \A id \in Callers : bucket[id] # Nil => bucket[id].level <= Capacity[id]

Pending   == {a \in Actions : at[a] = "issue"}
Reckoned  == Cardinality(Active) + Cardinality(Pending) <= MaxActiveKeys + Cardinality(Actions)

(* A key that was revoked stays so, and a request past the lookup came     *)
(* with one that was not.                                                  *)
Barred ==
    \A q \in Requests :
        /\ gate[q] # "idle" => carries[q] \in Keys
        /\ gate[q] = "lookup" /\ q \in late => key[carries[q]] = "revoked"
        /\ gate[q] \in {"idle", "limit", "serve"} => q \notin late

IInv == TypeOK /\ Small /\ Within /\ Reckoned /\ Barred

-----------------------------------------------------------------------------
(* Buckets.                                                                *)

(* A bucket never holds more than its capacity, nor less than nothing.     *)
LEMMA RefilledType ==
  ASSUME TypeOK, NEW id \in Callers
  PROVE  Refilled(id) \in Nat /\ Refilled(id) <= Capacity[id]
  <1>1. bucket[id] # Nil => bucket[id] \in Entries
    BY DEF TypeOK, Entries
  <1>2. bucket[id] # Nil => bucket[id].level \in Nat /\ bucket[id].at \in Int
    BY <1>1 DEF Entries
  <1>3. now \in Int /\ Capacity[id] \in Nat
    BY GatewayAssumption DEF TypeOK
  <1> QED
    BY <1>2, <1>3, SMT DEF Refilled

LEMMA RoomType ==
  ASSUME TypeOK, NEW id \in Callers
  PROVE  Room(id) \in Nat
  <1>1. Capacity[id] \in Nat /\ clears \in Nat
    BY GatewayAssumption DEF TypeOK
  <1> QED
    BY <1>1, SMT DEF Room, Fills

(* A cleared map is another full bucket for an address, and nothing for    *)
(* a key.                                                                  *)
LEMMA RoomGrows ==
  ASSUME TypeOK, NEW id \in Callers, clears' \in {clears, clears + 1}
  PROVE  /\ clears' \in Nat /\ Room(id)' \in Nat /\ Room(id)' >= Room(id)
         /\ clears' = clears + 1 /\ id \in Addresses => Room(id)' = Room(id) + Capacity[id]
  <1>1. Capacity[id] \in Nat /\ clears \in Nat
    BY GatewayAssumption DEF TypeOK
  <1>2. \A c, n \in Nat : (1 + (n + 1)) * c = (1 + n) * c + c /\ (1 + n) * c \in Nat
    BY SMT
  <1>3. clears' \in Nat
    BY <1>1, SMT
  <1>4. CASE id \in Addresses
    <2>1. Room(id) = (1 + clears) * Capacity[id] /\ Room(id)' = (1 + clears') * Capacity[id]
      BY <1>4 DEF Room, Fills
    <2>2. CASE clears' = clears
      BY <1>1, <1>2, <2>1, <2>2, SMT
    <2>3. CASE clears' = clears + 1
      <3>1. Room(id)' = (1 + (clears + 1)) * Capacity[id]
        BY <2>1, <2>3
      <3> QED
        BY <1>1, <1>2, <1>3, <2>1, <3>1, SMT
    <2> QED
      BY <2>2, <2>3
  <1>5. CASE id \notin Addresses
    <2>1. Room(id) = 1 * Capacity[id] /\ Room(id)' = 1 * Capacity[id]
      BY <1>5 DEF Room, Fills
    <2> QED
      BY <1>1, <1>3, <1>5, <2>1, SMT
  <1> QED
    BY <1>4, <1>5

(* What writing one bucket does to every other: at most it is emptied with *)
(* the map, and then the room grows by as much.                            *)
LEMMA PutKeeps ==
  ASSUME TypeOK, NEW id \in Callers, NEW entry \in Entries, Put(id, entry),
         entry.level <= Capacity[id], entry.at = now, now' = now
  PROVE  /\ bucket' \in [Callers -> Entries \cup {Nil}] /\ clears' \in {clears, clears + 1}
         /\ Refilled(id)' = entry.level
         /\ bucket'[id] = entry
         /\ \A i \in Callers \ {id} : bucket'[i] \in {bucket[i], Nil}
         /\ \A i \in Callers \ {id} : Refilled(i)' - Refilled(i) <= Room(i)' - Room(i)
  <1>1. bucket \in [Callers -> Entries \cup {Nil}]
    BY DEF TypeOK, Entries
  <1>2. clears \in Nat /\ now \in Int
    BY DEF TypeOK
  <1>3. /\ bucket' \in [Callers -> Entries \cup {Nil}] /\ clears' \in {clears, clears + 1}
        /\ bucket'[id] = entry
    BY <1>1, SMT DEF Put
  <1>4. ASSUME NEW i \in Callers \ {id}
        PROVE  \/ bucket'[i] = bucket[i]
               \/ bucket'[i] = Nil /\ i \in Addresses /\ clears' = clears + 1
    BY <1>1, SMT DEF Put
  <1>5. Refilled(id)' = entry.level
    <2>1. entry # Nil /\ entry.level \in Nat /\ Capacity[id] \in Nat
      BY GatewayAssumption DEF Entries
    <2> QED
      BY <1>2, <1>3, <2>1, SMT DEF Refilled
  <1>6. ASSUME NEW i \in Callers \ {id}
        PROVE  Refilled(i)' - Refilled(i) <= Room(i)' - Room(i)
    <2>1. Room(i) \in Nat /\ Room(i)' \in Nat /\ Room(i)' >= Room(i)
      BY <1>3, RoomType, RoomGrows
    <2>2. Refilled(i) \in Nat /\ Refilled(i) <= Capacity[i] /\ Capacity[i] \in Nat
      BY RefilledType, GatewayAssumption
    <2>3. CASE bucket'[i] = bucket[i]
      <3>1. Refilled(i)' = Refilled(i)
        BY <2>3 DEF Refilled
      <3> QED
        BY <2>1, <2>2, <3>1, SMT
    <2>4. CASE bucket'[i] = Nil /\ i \in Addresses /\ clears' = clears + 1
      <3>1. Refilled(i)' = Capacity[i]
        BY <2>4 DEF Refilled
      <3>2. Room(i)' = Room(i) + Capacity[i]
        BY <1>3, <2>4, RoomGrows
      <3> QED
        BY <2>1, <2>2, <3>1, <3>2, SMT
    <2> QED
      BY <1>4, <2>3, <2>4
  <1> QED
    BY <1>3, <1>4, <1>5, <1>6

(* A request let through takes as much from its bucket as it adds to what  *)
(* the caller passed for.                                                  *)
LEMMA ConsumeKeeps ==
  ASSUME TypeOK, Small, Within, NEW id \in Callers, Consume(id), UNCHANGED clock
  PROVE  /\ bucket' \in [Callers -> Entries \cup {Nil}] /\ clears' \in Nat
         /\ passed' \in [Callers -> Nat] /\ Small' /\ Within'
  <1> DEFINE entry == [level |-> Refilled(id) - Cost[id], at |-> now]
  <1>1. /\ Capacity \in [Callers -> Nat] /\ Cost[id] \in Nat /\ passed \in [Callers -> Nat]
        /\ ticks \in Nat /\ now \in Int /\ clears \in Nat
    BY GatewayAssumption DEF TypeOK
  <1>2. Refilled(id) \in Nat /\ Refilled(id) <= Capacity[id] /\ Refilled(id) >= Cost[id]
    BY RefilledType DEF Consume
  <1>3. entry.level = Refilled(id) - Cost[id] /\ entry.at = now
    OBVIOUS
  <1>4. entry \in Entries /\ entry.level <= Capacity[id]
    BY <1>1, <1>2, SMT DEF Entries
  <1>5. Put(id, entry) /\ now' = now /\ ticks' = ticks
    BY DEF Consume, clock
  <1> HIDE DEF entry
  <1>6. /\ bucket' \in [Callers -> Entries \cup {Nil}] /\ clears' \in {clears, clears + 1}
        /\ Refilled(id)' = entry.level /\ bucket'[id] = entry
        /\ \A i \in Callers \ {id} : bucket'[i] \in {bucket[i], Nil}
        /\ \A i \in Callers \ {id} : Refilled(i)' - Refilled(i) <= Room(i)' - Room(i)
    BY <1>3, <1>4, <1>5, PutKeeps
  <1>7. /\ passed' \in [Callers -> Nat] /\ passed'[id] = passed[id] + Cost[id]
        /\ \A i \in Callers \ {id} : passed'[i] = passed[i]
    BY <1>1, SMT DEF Consume
  <1>8. Small'
    BY <1>4, <1>6 DEF Small
  <1>9. ASSUME NEW i \in Callers
        PROVE  passed'[i] + Refilled(i)' <= Room(i)' + ticks'
    <2>1. passed[i] + Refilled(i) <= Room(i) + ticks /\ passed[i] \in Nat
      BY <1>1 DEF Within
    <2>2. Room(i) \in Nat /\ Room(i)' \in Nat /\ Room(i)' >= Room(i)
      BY <1>6, RoomType, RoomGrows
    <2>3. Refilled(i) \in Nat
      BY RefilledType
    <2>4. CASE i = id
      BY <1>1, <1>2, <1>3, <1>5, <1>6, <1>7, <2>1, <2>2, <2>4, SMT
    <2>5. CASE i # id
      <3>1. bucket'[i] \in Entries \cup {Nil} /\ Capacity[i] \in Nat /\ now' \in Int
        BY <1>1, <1>5, <1>6
      <3>2. Refilled(i)' \in Int
        BY <3>1, SMT DEF Refilled, Entries
      <3>3. Refilled(i)' - Refilled(i) <= Room(i)' - Room(i) /\ passed'[i] = passed[i]
        BY <1>6, <1>7, <2>5
      <3> QED
        BY <1>1, <1>5, <2>1, <2>2, <2>3, <3>2, <3>3, SMT
    <2> QED
      BY <2>4, <2>5
  <1>10. clears' \in Nat
    BY <1>1, <1>6, SMT
  <1> QED
    BY <1>6, <1>7, <1>8, <1>9, <1>10 DEF Within

(* A refusal writes the refilled level down and changes nothing else.      *)
LEMMA DenyKeeps ==
  ASSUME TypeOK, Small, Within, NEW id \in Callers, Deny(id), UNCHANGED clock
  PROVE  /\ bucket' \in [Callers -> Entries \cup {Nil}] /\ clears' \in Nat
         /\ passed' = passed /\ Small' /\ Within'
  <1> DEFINE entry == [level |-> Refilled(id), at |-> now]
  <1>1. /\ Capacity \in [Callers -> Nat] /\ passed \in [Callers -> Nat]
        /\ ticks \in Nat /\ now \in Int /\ clears \in Nat
    BY GatewayAssumption DEF TypeOK
  <1>2. Refilled(id) \in Nat /\ Refilled(id) <= Capacity[id]
    BY RefilledType
  <1>3. entry.level = Refilled(id) /\ entry.at = now
    OBVIOUS
  <1>4. entry \in Entries /\ entry.level <= Capacity[id]
    BY <1>1, <1>2, SMT DEF Entries
  <1>5. Put(id, entry) /\ now' = now /\ ticks' = ticks /\ passed' = passed
    BY DEF Deny, clock
  <1> HIDE DEF entry
  <1>6. /\ bucket' \in [Callers -> Entries \cup {Nil}] /\ clears' \in {clears, clears + 1}
        /\ Refilled(id)' = entry.level /\ bucket'[id] = entry
        /\ \A i \in Callers \ {id} : bucket'[i] \in {bucket[i], Nil}
        /\ \A i \in Callers \ {id} : Refilled(i)' - Refilled(i) <= Room(i)' - Room(i)
    BY <1>3, <1>4, <1>5, PutKeeps
  <1>7. Small'
    BY <1>4, <1>6 DEF Small
  <1>8. ASSUME NEW i \in Callers
        PROVE  passed'[i] + Refilled(i)' <= Room(i)' + ticks'
    <2>1. passed[i] + Refilled(i) <= Room(i) + ticks /\ passed[i] \in Nat
      BY <1>1 DEF Within
    <2>2. Room(i) \in Nat /\ Room(i)' \in Nat /\ Room(i)' >= Room(i)
      BY <1>6, RoomType, RoomGrows
    <2>3. Refilled(i) \in Nat
      BY RefilledType
    <2>4. CASE i = id
      BY <1>1, <1>3, <1>5, <1>6, <2>1, <2>2, <2>3, <2>4, SMT
    <2>5. CASE i # id
      <3>1. bucket'[i] \in Entries \cup {Nil} /\ Capacity[i] \in Nat /\ now' \in Int
        BY <1>1, <1>5, <1>6
      <3>2. Refilled(i)' \in Int
        BY <3>1, SMT DEF Refilled, Entries
      <3>3. Refilled(i)' - Refilled(i) <= Room(i)' - Room(i)
        BY <1>6, <2>5
      <3> QED
        BY <1>1, <1>5, <2>1, <2>2, <2>3, <3>2, <3>3, SMT
    <2> QED
      BY <2>4, <2>5
  <1>9. clears' \in Nat
    BY <1>1, <1>6, SMT
  <1> QED
    BY <1>5, <1>6, <1>7, <1>8, <1>9 DEF Within

(* A tick refills a bucket by one at most, a clock set back by nothing.    *)
LEMMA ClockKeeps ==
  ASSUME TypeOK, Within, UNCHANGED <<bucket, clears, passed>>,
         \/ now' = now + 1 /\ ticks' = ticks + 1
         \/ now' = now - 1 /\ ticks' = ticks
  PROVE  Within'
  <1> SUFFICES ASSUME NEW id \in Callers
               PROVE  passed'[id] + Refilled(id)' <= Room(id)' + ticks'
    BY DEF Within
  <1>1. /\ Capacity[id] \in Nat /\ passed[id] \in Nat /\ ticks \in Nat /\ now \in Int
        /\ bucket[id] # Nil => bucket[id].level \in Nat /\ bucket[id].at \in Int
    BY GatewayAssumption DEF TypeOK
  <1>2. Room(id)' = Room(id) /\ Room(id) \in Nat
    BY RoomType DEF Room, Fills
  <1>3. Refilled(id) \in Nat /\ passed[id] + Refilled(id) <= Room(id) + ticks
    BY RefilledType DEF Within
  <1>4. Refilled(id)' \in Int /\ Refilled(id)' <= Refilled(id) + (ticks' - ticks)
    BY <1>1, SMT DEF Refilled
  <1> QED
    BY <1>1, <1>2, <1>3, <1>4, SMT

-----------------------------------------------------------------------------
(* Keys.                                                                   *)
LEMMA Finite ==
  /\ IsFiniteSet(Active) /\ IsFiniteSet(Pending)
  /\ Cardinality(Active) \in Nat /\ Cardinality(Pending) \in Nat
  /\ Cardinality(Actions) \in Nat /\ Cardinality(Pending) <= Cardinality(Actions)
  <1>1. Active \in SUBSET Keys /\ Pending \in SUBSET Actions
    BY DEF Active, Pending
  <1>2. IsFiniteSet(Keys) /\ IsFiniteSet(Actions)
    BY ApiKeysAssumption
  <1>3. IsFiniteSet(Active) /\ IsFiniteSet(Pending) /\ Cardinality(Pending) <= Cardinality(Actions)
    BY <1>1, <1>2, FS_Subset
  <1> QED
    BY <1>2, <1>3, FS_CardinalityType

(* Fewer keys, fewer actions about to insert: the reckoning holds.         *)
LEMMA FewerIsFine ==
  ASSUME Reckoned, Active' \subseteq Active, Pending' \subseteq Pending
  PROVE  Reckoned'
  <1>1. Cardinality(Active') <= Cardinality(Active)
    BY Finite, FS_Subset
  <1>2. Cardinality(Pending') <= Cardinality(Pending)
    BY Finite, FS_Subset
  <1>3. Cardinality(Active') \in Nat /\ Cardinality(Pending') \in Nat
    BY Finite, FS_Subset, FS_CardinalityType
  <1>4. MaxActiveKeys \in Nat
    BY ApiKeysAssumption
  <1> QED
    BY <1>1, <1>2, <1>3, <1>4, Finite, SMT DEF Reckoned

(* An action that starts to insert has counted no more than the cap.       *)
LEMMA CountedIsFine ==
  ASSUME key' = key, Cardinality(Active) <= MaxActiveKeys
  PROVE  Reckoned'
  <1>1. Active' = Active
    BY DEF Active
  <1>2. Pending' \in SUBSET Actions
    BY DEF Pending
  <1>3. Cardinality(Pending') <= Cardinality(Actions) /\ Cardinality(Pending') \in Nat
    BY <1>2, ApiKeysAssumption, FS_Subset, FS_CardinalityType
  <1>4. MaxActiveKeys \in Nat
    BY ApiKeysAssumption
  <1> QED
    BY <1>1, <1>3, <1>4, Finite, SMT DEF Reckoned

(* What an action makes of the rows: one more by an insert it was reckoned *)
(* with, or fewer.                                                         *)
LEMMA ActionKeepsReckoned ==
  ASSUME KeysTypeOK, Reckoned, NEW a \in Actions, ActionStep(a)
  PROVE  Reckoned'
  <1> USE DEF KeysTypeOK
  <1>1. CASE CreateKey(a)
    <2>1. Cardinality(Active) <= MaxActiveKeys
      BY <1>1, Finite, ApiKeysAssumption, SMT DEF CreateKey
    <2> QED
      BY <1>1, <2>1, CountedIsFine DEF CreateKey, Begin
  <1>2. CASE CountForRotate(a)
    <2>1. CASE Cardinality(Active) - 1 < MaxActiveKeys
      <3>1. Cardinality(Active) <= MaxActiveKeys
        BY <2>1, Finite, ApiKeysAssumption, SMT
      <3> QED
        BY <1>2, <3>1, CountedIsFine DEF CountForRotate
    <2>2. CASE End(a)
      <3>1. Active' \subseteq Active /\ Pending' \subseteq Pending
        BY <1>2, <2>2, SMT DEF CountForRotate, End, Active, Pending
      <3> QED
        BY <3>1, FewerIsFine
    <2> QED
      BY <1>2, <2>1, <2>2 DEF CountForRotate
  <1>3. CASE RevokeOld(a)
    <2>1. Active' \subseteq Active /\ Pending' \subseteq Pending
      BY <1>3, SMT DEF RevokeOld, Revoked, End, Active, Pending
    <2> QED
      BY <2>1, FewerIsFine
  <1>4. CASE BackRevoke(a)
    <2>1. Active' \subseteq Active /\ Pending' \subseteq Pending
      BY <1>4, SMT DEF BackRevoke, Revoked, End, Active, Pending
    <2> QED
      BY <2>1, FewerIsFine
  <1>5. CASE ActionFails(a)
    <2>1. Active' \subseteq Active /\ Pending' \subseteq Pending
      BY <1>5, SMT DEF ActionFails, End, Active, Pending
    <2> QED
      BY <2>1, FewerIsFine
  <1>6. ASSUME NEW k \in Keys, RotateKey(a, k) \/ RevokeKey(a, k)
        PROVE  Reckoned'
    <2>1. Active' \subseteq Active /\ Pending' \subseteq Pending
      BY <1>6, SMT DEF RotateKey, RevokeKey, Begin, Active, Pending
    <2> QED
      BY <2>1, FewerIsFine
  <1>7. ASSUME NEW k \in Keys, IssueKey(a, k)
        PROVE  Reckoned'
    <2>1. k \notin Active /\ Active' = Active \cup {k}
      BY <1>7, SMT DEF IssueKey, Active
    <2>2. a \in Pending /\ Pending' = Pending \ {a}
      BY <1>7, SMT DEF IssueKey, End, Pending
    <2>3. Cardinality(Active') = Cardinality(Active) + 1
      BY <2>1, Finite, FS_AddElement
    <2>4. Cardinality(Pending') = Cardinality(Pending) - 1
      BY <2>2, Finite, FS_RemoveElement
    <2> QED
      BY <2>3, <2>4, Finite, ApiKeysAssumption, SMT DEF Reckoned
  <1> QED
    BY <1>1, <1>2, <1>3, <1>4, <1>5, <1>6, <1>7 DEF ActionStep

(* A key that was revoked stays revoked, whatever the actions do.          *)
LEMMA RevokedStays ==
  ASSUME KeysTypeOK, NEW a \in Actions, ActionStep(a), NEW k \in Keys, key[k] = "revoked"
  PROVE  key'[k] = "revoked"
  <1>1. CASE CreateKey(a) \/ CountForRotate(a) \/ ActionFails(a)
    BY <1>1 DEF CreateKey, CountForRotate, ActionFails, Begin
  <1>2. CASE RevokeOld(a) \/ BackRevoke(a)
    BY <1>2, SMT DEF RevokeOld, BackRevoke, Revoked, KeysTypeOK
  <1>3. ASSUME NEW x \in Keys, RotateKey(a, x) \/ RevokeKey(a, x) \/ IssueKey(a, x)
        PROVE  key'[k] = "revoked"
    BY <1>3, SMT DEF RotateKey, RevokeKey, IssueKey, Begin, KeysTypeOK
  <1> QED
    BY <1>1, <1>2, <1>3 DEF ActionStep

LEMMA ActionType ==
  ASSUME KeysTypeOK, NEW a \in Actions, ActionStep(a)
  PROVE  KeysTypeOK'
  <1> USE DEF KeysTypeOK
  <1>1. CASE CreateKey(a) \/ CountForRotate(a) \/ ActionFails(a)
    BY <1>1, SMT DEF CreateKey, CountForRotate, ActionFails, Begin, End
  <1>2. CASE RevokeOld(a) \/ BackRevoke(a)
    BY <1>2, SMT DEF RevokeOld, BackRevoke, Revoked, End
  <1>3. ASSUME NEW k \in Keys, RotateKey(a, k) \/ RevokeKey(a, k) \/ IssueKey(a, k)
        PROVE  KeysTypeOK'
    BY <1>3, SMT DEF RotateKey, RevokeKey, IssueKey, Begin, End
  <1> QED
    BY <1>1, <1>2, <1>3 DEF ActionStep

-----------------------------------------------------------------------------
(* The gateway.                                                            *)
LEMMA InitIInv == Init => IInv
  <1> SUFFICES ASSUME Init PROVE IInv
    OBVIOUS
  <1>1. TypeOK /\ Small
    BY ApiKeysAssumption, GatewayAssumption, SMT DEF Init, KeysInit, TypeOK, KeysTypeOK, Small, Callers
  <1>2. Within
    <2> SUFFICES ASSUME NEW id \in Callers
                 PROVE  passed[id] + Refilled(id) <= Room(id) + ticks
      BY DEF Within
    <2>1. Refilled(id) = Capacity[id] /\ passed[id] = 0 /\ ticks = 0 /\ Fills(id) = 1
      BY SMT DEF Init, Refilled, Fills
    <2>2. Capacity[id] \in Nat
      BY GatewayAssumption
    <2> QED
      BY <2>1, <2>2, SMT DEF Room
  <1>3. Reckoned
    <2>1. Active = {} /\ Pending = {}
      BY DEF Init, KeysInit, Active, Pending
    <2> QED
      BY <2>1, Finite, FS_EmptySet, ApiKeysAssumption, SMT DEF Reckoned
  <1>4. Barred
    BY SMT DEF Init, Barred
  <1> QED
    BY <1>1, <1>2, <1>3, <1>4 DEF IInv

(* The actions of the web process touch the rows only.                     *)
LEMMA ActionKeepsIInv ==
  ASSUME IInv, NEW a \in Actions, ActionStep(a), UNCHANGED gateway
  PROVE  IInv'
  <1>1. TypeOK /\ KeysTypeOK
    BY DEF IInv, TypeOK
  <1>2. KeysTypeOK'
    BY <1>1, ActionType
  <1>3. TypeOK'
    BY <1>1, <1>2, SMT DEF TypeOK, gateway, clock, request
  <1>4. Small' /\ Within'
    BY SMT DEF IInv, Small, Within, Refilled, Room, Fills, gateway, clock
  <1>5. Reckoned'
    BY <1>1, ActionKeepsReckoned DEF IInv
  <1>6. Barred'
    <2>1. UNCHANGED <<gate, carries, late>>
      BY DEF gateway, request
    <2>2. \A k \in Keys : key[k] = "revoked" => key'[k] = "revoked"
      BY <1>1, RevokedStays
    <2> QED
      BY <2>1, <2>2 DEF IInv, Barred
  <1> QED
    BY <1>3, <1>4, <1>5, <1>6 DEF IInv

(* What the gateway leaves alone keeps what is said of the keys.           *)
LEMMA KeysAlone ==
  ASSUME Reckoned, KeysTypeOK, UNCHANGED <<key, actions>>
  PROVE  Reckoned' /\ KeysTypeOK'
  BY SMT DEF Reckoned, KeysTypeOK, Active, Pending, actions

LEMMA RequestKeepsIInv ==
  ASSUME IInv, NEW q \in Requests, RequestStep(q)
  PROVE  IInv'
  <1> USE GatewayAssumption
  <1>1. TypeOK /\ KeysTypeOK /\ Small /\ Within /\ Reckoned /\ Barred
    BY DEF IInv, TypeOK
  <1>2. UNCHANGED <<key, actions, clock>>
    BY DEF RequestStep, Arrive, Lookup, Limit, Serve
  <1>3. Reckoned' /\ KeysTypeOK'
    BY <1>1, <1>2, KeysAlone
  <1>4. now' \in Int /\ ticks' \in Nat
    BY <1>1, <1>2 DEF TypeOK, clock
  <1>5. ASSUME NEW k \in Carried, NEW ip \in Addresses, Arrive(q, k, ip)
        PROVE  IInv'
    <2>1. ip \in Callers /\ k \in Keys
      BY DEF Callers
    <2>2. /\ bucket' \in [Callers -> Entries \cup {Nil}] /\ clears' \in Nat
          /\ passed' \in [Callers -> Nat] /\ Small' /\ Within'
      BY <1>1, <1>2, <1>5, <2>1, ConsumeKeeps, DenyKeeps DEF Arrive, TypeOK
    <2>3. /\ gate' \in [Requests -> {"idle", "lookup", "limit", "serve"}]
          /\ carries' \in [Requests -> Keys \cup {Nil}] /\ late' \subseteq Requests
      BY <1>1, <1>5, <2>1, SMT DEF Arrive, Goto, TypeOK, request
    <2>4. Barred'
      BY <1>1, <1>2, <1>5, <2>1, SMT DEF Arrive, Goto, Barred, TypeOK, request
    <2> QED
      BY <1>1, <1>3, <1>4, <2>2, <2>3, <2>4 DEF IInv, TypeOK, Entries
  <1>6. CASE Lookup(q) \/ Serve(q)
    <2>1. UNCHANGED <<bucket, clears, passed, now, ticks>>
      BY <1>6 DEF Lookup, Serve, clock
    <2>2. Small' /\ Within'
      BY <1>1, <2>1, SMT DEF Small, Within, Refilled, Room, Fills
    <2>3. /\ gate' \in [Requests -> {"idle", "lookup", "limit", "serve"}]
          /\ carries' \in [Requests -> Keys \cup {Nil}] /\ late' \subseteq Requests
      BY <1>1, <1>6, SMT DEF Lookup, Serve, Goto, Leave, TypeOK
    <2>4. Barred'
      BY <1>1, <1>2, <1>6, SMT DEF Lookup, Serve, Goto, Leave, Barred, TypeOK
    <2> QED
      BY <1>1, <1>3, <1>4, <2>1, <2>2, <2>3, <2>4 DEF IInv, TypeOK
  <1>7. CASE Limit(q)
    <2>1. carries[q] \in Callers
      BY <1>1, <1>7 DEF Limit, Barred, Callers
    <2>2. /\ bucket' \in [Callers -> Entries \cup {Nil}] /\ clears' \in Nat
          /\ passed' \in [Callers -> Nat] /\ Small' /\ Within'
      BY <1>1, <1>2, <1>7, <2>1, ConsumeKeeps, DenyKeeps DEF Limit, TypeOK
    <2>3. /\ gate' \in [Requests -> {"idle", "lookup", "limit", "serve"}]
          /\ carries' \in [Requests -> Keys \cup {Nil}] /\ late' \subseteq Requests
      BY <1>1, <1>7, SMT DEF Limit, Goto, Leave, TypeOK
    <2>4. Barred'
      BY <1>1, <1>2, <1>7, SMT DEF Limit, Goto, Leave, Barred, TypeOK
    <2> QED
      BY <1>1, <1>3, <1>4, <2>2, <2>3, <2>4 DEF IInv, TypeOK, Entries
  <1> QED
    BY <1>5, <1>6, <1>7 DEF RequestStep

LEMMA ClockKeepsIInv ==
  ASSUME IInv, Tick \/ SetBack
  PROVE  IInv'
  <1>1. TypeOK /\ KeysTypeOK /\ Small /\ Within /\ Reckoned /\ Barred
    BY DEF IInv, TypeOK
  <1>2. UNCHANGED <<key, actions, bucket, request, clears, passed>>
    BY DEF Tick, SetBack
  <1>3. \/ now' = now + 1 /\ ticks' = ticks + 1
        \/ now' = now - 1 /\ ticks' = ticks
    BY DEF Tick, SetBack
  <1>4. Reckoned' /\ KeysTypeOK'
    BY <1>1, <1>2, KeysAlone
  <1>5. Within'
    BY <1>1, <1>2, <1>3, ClockKeeps
  <1>6. now' \in Int /\ ticks' \in Nat
    BY <1>1, <1>3, SMT DEF TypeOK
  <1>7. Small' /\ Barred'
    BY <1>1, <1>2 DEF Small, Barred, request
  <1> QED
    BY <1>1, <1>2, <1>4, <1>5, <1>6, <1>7 DEF IInv, TypeOK, request

LEMMA StutterKeepsIInv ==
  ASSUME IInv, UNCHANGED vars
  PROVE  IInv'
  BY SMT DEF IInv, TypeOK, KeysTypeOK, Small, Within, Refilled, Room, Fills, Reckoned, Active,
     Pending, Barred, vars, actions, gateway, clock, request

(* The inductive invariant.                                                *)
THEOREM Invariance == Spec => []IInv
  <1>1. IInv /\ [Next]_vars => IInv'
    BY ActionKeepsIInv, RequestKeepsIInv, ClockKeepsIInv, StutterKeepsIInv DEF Next
  <1> QED
    BY <1>1, InitIInv, PTL DEF Spec

(* Type correctness.                                                       *)
THEOREM TypeCorrect == Spec => []TypeOK
  <1>1. IInv => TypeOK
    BY DEF IInv
  <1> QED
    BY <1>1, Invariance, PTL

(* No caller is let through for more than its fills and the time that has  *)
(* passed, though clocks are set back and maps are cleared.                *)
THEOREM RateIsKept == Spec => []BurstBounded
  <1>1. IInv => BurstBounded
    <2> SUFFICES ASSUME IInv, NEW id \in Callers
                 PROVE  passed[id] <= Fills(id) * Capacity[id] + ticks
      BY DEF BurstBounded
    <2>1. passed[id] + Refilled(id) <= Room(id) + ticks /\ passed[id] \in Nat /\ ticks \in Nat
      BY DEF IInv, Within, TypeOK
    <2>2. Refilled(id) \in Nat /\ Room(id) \in Nat
      BY RefilledType, RoomType DEF IInv
    <2>3. passed[id] <= Room(id) + ticks
      BY <2>1, <2>2, SMT
    <2> QED
      BY <2>3 DEF Room
  <1> QED
    BY <1>1, Invariance, PTL

(* However creations, rotations and revocations overlap and die, the keys  *)
(* pass the cap by no more than one for each action at a time.             *)
THEOREM CapIsSoft == Spec => []KeysBounded
  <1>1. IInv => KeysBounded
    BY Finite, ApiKeysAssumption, SMT DEF IInv, Reckoned, KeysBounded
  <1> QED
    BY <1>1, Invariance, PTL

(* A revoked key opens nothing to a request that comes after.              *)
THEOREM RevocationHolds == Spec => []RevokedIsOut
  <1>1. IInv => RevokedIsOut
    BY DEF IInv, Barred, RevokedIsOut
  <1> QED
    BY <1>1, Invariance, PTL
=============================================================================
