-------------------------- MODULE TrialClaimProofs --------------------------
(***************************************************************************)
(* One trial per user and per mailbox for any users, addresses and entries.*)
(*                                                                         *)
(* What a transaction of claim_trial saw is still true when it commits,    *)
(* because it holds the row it saw it in (Guarded); what it has written    *)
(* follows from where it stands (Written).  So a commit meets the tables   *)
(* its statements met, and the counts of a user (Counted) move together.   *)
(***************************************************************************)
EXTENDS TrialClaimProperties, TLAPS

(* Where an entry stands tells what its transaction has written.           *)
Written(x) ==
    /\ IF pc[x] = "idle" THEN user[x] = Nil ELSE user[x] \in Users
    /\ pc[x] \notin {"claim", "bump", "flip", "grant", "commit"} => wrote[x] = {}
    /\ pc[x] \in {"claim", "bump", "flip", "grant", "commit"} => Exists(x)
    /\ pc[x] \in {"claim", "bump"} => box[x] \in Mailboxes /\ wrote[x] \subseteq {"profile"}
    /\ pc[x] = "bump" => claims[box[x]] # Nil
    /\ pc[x] = "flip" => wrote[x] \subseteq {"profile", "claim"}
    /\ pc[x] = "grant" => "grant" \notin wrote[x] /\ "flip" \in wrote[x]
    /\ pc[x] \in {"flip", "grant"} => "bump" \notin wrote[x] /\ (box[x] # Nil => "claim" \in wrote[x])
    /\ pc[x] = "commit" =>
          /\ "grant" \in wrote[x] <=> "flip" \in wrote[x]
          /\ "flip" \in wrote[x] /\ box[x] # Nil => "claim" \in wrote[x]
          /\ "claim" \in wrote[x] => "flip" \in wrote[x] \/ user[x] \in granted

(* The row locks keep true what its statements saw.                        *)
Guarded(x) ==
    /\ \A u \in Users : rowLock[u] = x => wrote[x] # {}
    /\ "profile" \in wrote[x] => rowLock[user[x]] = x
    /\ "bump" \in wrote[x] => box[x] \in Mailboxes
    /\ "flip" \in wrote[x] => rowLock[user[x]] = x /\ user[x] \notin granted
    /\ "claim" \in wrote[x] => box[x] \in Mailboxes /\ claimLock[box[x]] = x /\ claims[box[x]] = Nil

(* The one who captures, and the one who sends, is alone and the first.    *)
Alone(step) == \A x, y \in Entries : pc[x] = step /\ pc[y] = step /\ user[x] = user[y] => x = y

(* The signup and the mail it is about to count are not counted yet.       *)
First(x) ==
    /\ pc[x] = "capture" => user[x] \in granted /\ signups[user[x]] = 0
    /\ pc[x] = "send" => user[x] \in welcomed /\ mails[user[x]] = 0

(* What the tables and the history say of a user.                          *)
Counted(u) ==
    /\ grants[u] = (IF u \in granted THEN 1 ELSE 0)
    /\ signups[u] <= grants[u] /\ mails[u] <= (IF u \in welcomed THEN 1 ELSE 0)
    /\ through[u] # Nil => claims[through[u]] = u /\ grants[u] = 1

(* The inductive invariant.                                                *)
IInv ==
    /\ TypeOK /\ Alone("capture") /\ Alone("send")
    /\ \A x \in Entries : Written(x) /\ Guarded(x) /\ First(x)
    /\ \A u \in Users : Counted(u)
    /\ \A m \in Mailboxes : claims[m] # Nil => claims[m] \in granted

(* No user, no claim, nobody inside.                                       *)
LEMMA InitIInv == Init => IInv
  <1> SUFFICES ASSUME Init PROVE IInv
    OBVIOUS
  <1>1. TypeOK
    BY TrialAssumption, SMT DEF Init, TypeOK
  <1>2. Alone("capture") /\ Alone("send") /\ \A x \in Entries : Written(x) /\ Guarded(x) /\ First(x)
    BY TrialAssumption, SMT DEF Init, Alone, Written, Guarded, First
  <1>3. ASSUME NEW u \in Users PROVE Counted(u)
    <2>1. grants[u] = 0 /\ signups[u] = 0 /\ mails[u] = 0 /\ through[u] = Nil /\ u \notin granted /\ u \notin welcomed
      BY DEF Init
    <2> QED
      BY <2>1, SMT DEF Counted
  <1> QED
    BY <1>1, <1>2, <1>3, SMT DEF Init, IInv

-----------------------------------------------------------------------------
(* One entry takes a step inside its transaction: no table changes, and it *)
(* takes no lock another holds.                                            *)
Moves(x) ==
    /\ \A y \in Entries \ {x} : pc'[y] = pc[y] /\ user'[y] = user[y] /\ box'[y] = box[y] /\ wrote'[y] = wrote[y]
    /\ \A y \in Entries \ {x}, u \in Users : rowLock[u] = y <=> rowLock'[u] = y
    /\ \A y \in Entries \ {x}, m \in Mailboxes : claimLock[m] = y => claimLock'[m] = y

(* Frame of a step that leaves the tables as they are.                     *)
LEMMA InsideKeeps ==
  ASSUME IInv, NEW x \in Entries, Moves(x), TypeOK',
         profile \subseteq profile', UNCHANGED <<granted, welcomed, claims, grants, history>>,
         pc'[x] \notin {"capture", "send"}, Written(x)', Guarded(x)'
  PROVE  IInv'
  <1> USE DEF history
  <1>1. ASSUME NEW y \in Entries PROVE Written(y)' /\ Guarded(y)' /\ First(y)'
    <2>1. CASE y = x
      BY <2>1, SMT DEF First
    <2>2. CASE y # x
      <3>1. /\ pc'[y] = pc[y] /\ user'[y] = user[y] /\ box'[y] = box[y] /\ wrote'[y] = wrote[y]
            /\ \A u \in Users : rowLock[u] = y <=> rowLock'[u] = y
            /\ \A m \in Mailboxes : claimLock[m] = y => claimLock'[m] = y
            /\ Written(y) /\ Guarded(y) /\ First(y)
        BY <2>2 DEF Moves, IInv
      <3>2. Written(y)' /\ First(y)'
        BY <3>1, SMT DEF Written, First, Exists
      <3>3. Guarded(y)'
        BY <3>1, SMT DEF Written, Guarded
      <3> QED
        BY <3>2, <3>3
    <2> QED
      BY <2>1, <2>2
  <1>2. Alone("capture")' /\ Alone("send")'
    BY SMT DEF IInv, Alone, Moves
  <1>3. (\A u \in Users : Counted(u))' /\ \A m \in Mailboxes : claims'[m] # Nil => claims'[m] \in granted'
    BY Zenon DEF IInv, Counted
  <1> QED
    BY <1>1, <1>2, <1>3 DEF IInv
(* INSERT users_profile ON CONFLICT DO NOTHING.                            *)
LEMMA InsertProfileKeeps ==
  ASSUME IInv, NEW x \in Entries, InsertProfile(x)
  PROVE  IInv'
  <1>0. TypeOK /\ Written(x) /\ Guarded(x) /\ pc[x] = "profile" /\ user[x] \in Users /\ wrote[x] = {}
    BY SMT DEF IInv, Written, InsertProfile
  <1>1. /\ UNCHANGED <<tables, history, claimLock, user, box>>
        /\ pc' = [pc EXCEPT ![x] = IF box[x] = Nil THEN "flip" ELSE "claim"]
        /\ \/ user[x] \in profile /\ UNCHANGED <<wrote, rowLock>>
           \/ /\ rowLock[user[x]] \in {Nil, x} /\ rowLock' = [rowLock EXCEPT ![user[x]] = x]
              /\ wrote' = [wrote EXCEPT ![x] = wrote[x] \cup {"profile"}]
    BY Zenon DEF InsertProfile, Goto, FreeRow, LockRow, Write
  <1>2. Moves(x)
    BY <1>0, <1>1, TrialAssumption, SMT DEF TypeOK, Moves
  <1>3. TypeOK'
    BY <1>0, <1>1, TrialAssumption, SMT DEF TypeOK, tables, history
  <1>4. Written(x)' /\ Guarded(x)' /\ pc'[x] \notin {"capture", "send"}
    <2>1. CASE UNCHANGED <<wrote, rowLock>> /\ user[x] \in profile
      BY <1>0, <1>1, <2>1, SMT DEF TypeOK, Written, Guarded, Exists, tables
    <2>2. CASE ~(UNCHANGED <<wrote, rowLock>> /\ user[x] \in profile)
      <3>1. wrote'[x] = {"profile"} /\ rowLock'[user[x]] = x
        BY <1>0, <1>1, <2>2, SMT DEF TypeOK
      <3>2. pc'[x] = (IF box[x] = Nil THEN "flip" ELSE "claim") /\ user'[x] = user[x] /\ box'[x] = box[x]
            /\ box[x] \in Mailboxes \cup {Nil}
        BY <1>0, <1>1, SMT DEF TypeOK
      <3> QED
        BY <1>0, <3>1, <3>2, SMT DEF Written, Guarded, Exists
    <2> QED
      BY <2>1, <2>2
  <1> QED
    BY <1>1, <1>2, <1>3, <1>4, InsideKeeps DEF tables

(* INSERT trial_claims: the mailbox is taken, or is locked for this claim. *)
LEMMA InsertClaimKeeps ==
  ASSUME IInv, NEW x \in Entries, InsertClaim(x)
  PROVE  IInv'
  <1>0. /\ TypeOK /\ Written(x) /\ Guarded(x) /\ pc[x] = "claim" /\ user[x] \in Users /\ box[x] \in Mailboxes
        /\ wrote[x] \subseteq {"profile"}
    BY SMT DEF IInv, Written, InsertClaim
  <1>1. /\ UNCHANGED <<tables, history, rowLock, user, box>>
        /\ \/ /\ claims[box[x]] # Nil /\ pc' = [pc EXCEPT ![x] = "bump"] /\ UNCHANGED <<wrote, claimLock>>
           \/ /\ claims[box[x]] = Nil /\ claimLock[box[x]] \in {Nil, x}
              /\ claimLock' = [claimLock EXCEPT ![box[x]] = x] /\ pc' = [pc EXCEPT ![x] = "flip"]
              /\ wrote' = [wrote EXCEPT ![x] = wrote[x] \cup {"claim"}]
    BY Zenon DEF InsertClaim, Goto, FreeClaim, LockClaim, Write
  <1>2. Moves(x)
    BY <1>0, <1>1, TrialAssumption, SMT DEF TypeOK, Moves
  <1>3. TypeOK'
    BY <1>0, <1>1, TrialAssumption, SMT DEF TypeOK, tables, history
  <1>4. Written(x)' /\ Guarded(x)' /\ pc'[x] \notin {"capture", "send"}
    BY <1>0, <1>1, SMT DEF TypeOK, Written, Guarded, Exists, tables
  <1> QED
    BY <1>1, <1>2, <1>3, <1>4, InsideKeeps DEF tables

(* A claim that met a used mailbox writes nothing but the count.           *)
LEMMA BumpCollisionKeeps ==
  ASSUME IInv, NEW x \in Entries, BumpCollision(x)
  PROVE  IInv'
  <1>0. /\ TypeOK /\ Written(x) /\ Guarded(x) /\ pc[x] = "bump" /\ user[x] \in Users /\ box[x] \in Mailboxes
        /\ wrote[x] \subseteq {"profile"}
    BY SMT DEF IInv, Written, BumpCollision
  <1>1. /\ UNCHANGED <<tables, history, rowLock, user, box>>
        /\ pc' = [pc EXCEPT ![x] = "commit"]
        /\ \/ UNCHANGED <<wrote, claimLock>>
           \/ /\ claimLock[box[x]] \in {Nil, x} /\ claimLock' = [claimLock EXCEPT ![box[x]] = x]
              /\ wrote' = [wrote EXCEPT ![x] = wrote[x] \cup {"bump"}]
    BY Zenon DEF BumpCollision, Goto, FreeClaim, LockClaim, Write
  <1>2. Moves(x)
    BY <1>0, <1>1, TrialAssumption, SMT DEF TypeOK, Moves
  <1>3. TypeOK'
    BY <1>0, <1>1, TrialAssumption, SMT DEF TypeOK, tables, history
  <1>4. Written(x)' /\ Guarded(x)' /\ pc'[x] \notin {"capture", "send"}
    BY <1>0, <1>1, SMT DEF TypeOK, Written, Guarded, Exists, tables
  <1> QED
    BY <1>1, <1>2, <1>3, <1>4, InsideKeeps DEF tables

(* The lock of the grant: NULL under the row lock, and NULL until commit.  *)
LEMMA FlipLockKeeps ==
  ASSUME IInv, NEW x \in Entries, FlipLock(x)
  PROVE  IInv'
  <1>0. /\ TypeOK /\ Written(x) /\ Guarded(x) /\ pc[x] = "flip" /\ user[x] \in Users /\ Exists(x)
        /\ wrote[x] \subseteq {"profile", "claim"} /\ (box[x] # Nil => "claim" \in wrote[x])
    BY SMT DEF IInv, Written, FlipLock
  <1>1. /\ UNCHANGED <<tables, history, claimLock, user, box>>
        /\ \/ /\ rowLock[user[x]] \in {Nil, x} /\ user[x] \notin granted
              /\ rowLock' = [rowLock EXCEPT ![user[x]] = x] /\ pc' = [pc EXCEPT ![x] = "grant"]
              /\ wrote' = [wrote EXCEPT ![x] = wrote[x] \cup {"flip"}]
           \/ user[x] \in granted /\ pc' = [pc EXCEPT ![x] = "commit"] /\ UNCHANGED <<wrote, rowLock>>
    BY <1>0, Zenon DEF FlipLock, Goto, FreeRow, LockRow, Write
  <1>2. Moves(x)
    BY <1>0, <1>1, TrialAssumption, SMT DEF TypeOK, Moves
  <1>3. TypeOK'
    BY <1>0, <1>1, TrialAssumption, SMT DEF TypeOK, tables, history
  <1>4. Written(x)' /\ Guarded(x)' /\ pc'[x] \notin {"capture", "send"}
    BY <1>0, <1>1, SMT DEF TypeOK, Written, Guarded, Exists, tables
  <1> QED
    BY <1>1, <1>2, <1>3, <1>4, InsideKeeps DEF tables

(* The credits go with the lock.                                           *)
LEMMA InsertGrantKeeps ==
  ASSUME IInv, NEW x \in Entries, InsertGrant(x)
  PROVE  IInv'
  <1>0. TypeOK /\ Written(x) /\ Guarded(x) /\ pc[x] = "grant" /\ user[x] \in Users /\ Exists(x)
    BY SMT DEF IInv, Written, InsertGrant
  <1>1. /\ UNCHANGED <<tables, history, locks, user, box>>
        /\ pc' = [pc EXCEPT ![x] = "commit"] /\ wrote' = [wrote EXCEPT ![x] = wrote[x] \cup {"grant"}]
    BY Zenon DEF InsertGrant, Goto, Write
  <1>2. Moves(x)
    BY <1>0, <1>1, TrialAssumption, SMT DEF TypeOK, Moves, locks
  <1>3. TypeOK'
    BY <1>0, <1>1, TrialAssumption, SMT DEF TypeOK, tables, history, locks
  <1>4. Written(x)' /\ Guarded(x)' /\ pc'[x] \notin {"capture", "send"}
    BY <1>0, <1>1, SMT DEF TypeOK, Written, Guarded, Exists, tables, locks
  <1> QED
    BY <1>1, <1>2, <1>3, <1>4, InsideKeeps DEF tables

(* A user comes in: no lock is his yet.                                    *)
LEMMA EnterKeeps ==
  ASSUME IInv, NEW x \in Entries, NEW u \in Users, NEW m \in Addresses[u], Enter(x, u, m)
  PROVE  IInv'
  <1>0. TypeOK /\ Written(x) /\ Guarded(x) /\ pc[x] = "idle" /\ user[x] = Nil /\ wrote[x] = {} /\ m \in Mailboxes \cup {Nil}
    BY TrialAssumption, SMT DEF IInv, Written, Enter
  <1>1. /\ UNCHANGED <<tables, history, locks, wrote>>
        /\ user' = [user EXCEPT ![x] = u] /\ box' = [box EXCEPT ![x] = m]
        /\ pc' = [pc EXCEPT ![x] = "profile"]
    BY DEF Enter, Goto
  <1>2. Moves(x)
    BY <1>0, <1>1, SMT DEF TypeOK, Moves, locks
  <1>3. TypeOK'
    BY <1>0, <1>1, TrialAssumption, SMT DEF TypeOK, tables, history, locks
  <1>4. Written(x)' /\ Guarded(x)' /\ pc'[x] \notin {"capture", "send"}
    BY <1>0, <1>1, SMT DEF TypeOK, Written, Guarded, locks
  <1> QED
    BY <1>1, <1>2, <1>3, <1>4, InsideKeeps DEF tables
-----------------------------------------------------------------------------
(* The transaction is over, or the callback.                               *)
Left(x, step) ==
    /\ pc' \in [Entries -> {"idle", "profile", "claim", "bump", "flip", "grant", "commit",
                            "capture", "upsert", "welcome", "send"}]
    /\ user' \in [Entries -> Users \cup {Nil}] /\ box' \in [Entries -> Mailboxes \cup {Nil}]
    /\ wrote' \in [Entries -> SUBSET {"profile", "claim", "bump", "flip", "grant"}]
    /\ \A y \in Entries \ {x} : pc'[y] = pc[y] /\ user'[y] = user[y] /\ box'[y] = box[y] /\ wrote'[y] = wrote[y]
    /\ wrote'[x] = {}
    /\ \/ pc'[x] = "idle" /\ user'[x] = Nil
       \/ pc'[x] = step /\ user'[x] = user[x]

(* Either it ends here or the callback goes on.                            *)
LEMMA LeaveEntry ==
  ASSUME TypeOK, NEW x \in Entries, NEW step \in {"capture", "upsert", "welcome", "send"},
         After(x, step)
  PROVE  Left(x, step)
  <1>1. CASE Leave(x)
    BY <1>1, SMT DEF TypeOK, Leave, Goto, Left
  <1>2. CASE ~Leave(x)
    BY <1>2, SMT DEF TypeOK, After, Goto, Left
  <1> QED
    BY <1>1, <1>2

(* Nothing was written, all locks are dropped.                             *)
LEMMA RollbackKeeps ==
  ASSUME IInv, NEW x \in Entries, Rollback(x)
  PROVE  IInv'
  <1>0. TypeOK /\ Written(x) /\ user[x] \in Users /\ UNCHANGED <<tables, history>> /\ Unlock(x)
    BY SMT DEF IInv, Written, Rollback
  <1>1. Left(x, "upsert")
    BY <1>0, LeaveEntry DEF Rollback
  <1>2. Moves(x)
    BY <1>0, <1>1, TrialAssumption, SMT DEF TypeOK, Unlock, Left, Moves
  <1>3. TypeOK'
    BY <1>0, <1>1, TrialAssumption, SMT DEF TypeOK, Unlock, Left, tables, history
  <1>4. Written(x)' /\ Guarded(x)' /\ pc'[x] \notin {"capture", "send"}
    BY <1>0, <1>1, TrialAssumption, SMT DEF TypeOK, Unlock, Left, Written, Guarded
  <1> QED
    BY <1>0, <1>2, <1>3, <1>4, InsideKeeps DEF tables

(* Outside its transaction an entry holds no lock.                         *)
LEMMA StopKeeps ==
  ASSUME IInv, NEW x \in Entries, Stop(x)
  PROVE  IInv'
  <1>0. /\ TypeOK /\ Written(x) /\ Guarded(x) /\ wrote[x] = {}
        /\ UNCHANGED <<tables, locks, history>> /\ Leave(x)
    BY SMT DEF IInv, Written, Stop
  <1>1. Left(x, "upsert")
    BY <1>0, LeaveEntry DEF After
  <1>2. Moves(x) /\ pc'[x] = "idle" /\ user'[x] = Nil
    BY <1>0, <1>1, SMT DEF TypeOK, Left, Moves, Leave, Goto, locks
  <1>3. TypeOK'
    BY <1>0, <1>1, TrialAssumption, SMT DEF TypeOK, Guarded, Left, tables, history, locks
  <1>4. Written(x)' /\ Guarded(x)' /\ pc'[x] \notin {"capture", "send"}
    BY <1>0, <1>1, <1>2, SMT DEF TypeOK, Left, Written, Guarded, locks
  <1> QED
    BY <1>0, <1>2, <1>3, <1>4, InsideKeeps DEF tables

(* A profile row more.                                                     *)
LEMMA UpsertProfileKeeps ==
  ASSUME IInv, NEW x \in Entries, UpsertProfile(x)
  PROVE  IInv'
  <1>0. /\ TypeOK /\ Written(x) /\ Guarded(x) /\ wrote[x] = {} /\ user[x] \in Users
        /\ profile' = profile \cup {user[x]} /\ pc' = [pc EXCEPT ![x] = "welcome"]
        /\ UNCHANGED <<granted, welcomed, claims, collisions, grants, locks, entry, history>>
    BY SMT DEF IInv, Written, UpsertProfile, Goto
  <1>1. Moves(x)
    BY <1>0, SMT DEF TypeOK, Moves, locks, entry
  <1>2. TypeOK'
    BY <1>0, SMT DEF TypeOK, locks, entry, history
  <1>3. Written(x)' /\ Guarded(x)' /\ pc'[x] \notin {"capture", "send"}
    BY <1>0, SMT DEF TypeOK, Written, Guarded, locks, entry
  <1> QED
    BY <1>0, <1>1, <1>2, <1>3, InsideKeeps

-----------------------------------------------------------------------------
(* An entry that counts a signup or a mail is the only one to do so.       *)
LEMMA OutsideKeeps ==
  ASSUME IInv, NEW x \in Entries, wrote[x] = {},
         UNCHANGED <<profile, granted, claims, collisions, grants, locks, through>>,
         welcomed \subseteq welcomed', TypeOK', Left(x, pc'[x]),
         Written(x)', First(x)',
         \A u \in Users : u # user[x] => signups'[u] = signups[u] /\ mails'[u] = mails[u],
         \A u \in Users : Counted(u)',
         pc[x] # "capture" => UNCHANGED signups,
         pc[x] # "send" => UNCHANGED mails,
         pc'[x] # "capture", pc'[x] = "send" => user[x] \notin welcomed
  PROVE  IInv'
  <1>1. ASSUME NEW y \in Entries PROVE Written(y)' /\ Guarded(y)' /\ First(y)'
    <2>1. CASE y = x
      BY <2>1, SMT DEF IInv, Guarded, Left, locks
    <2>2. CASE y # x
      <3>1. /\ pc'[y] = pc[y] /\ user'[y] = user[y] /\ box'[y] = box[y] /\ wrote'[y] = wrote[y]
            /\ Written(y) /\ Guarded(y) /\ First(y)
        BY <2>2 DEF Left, IInv
      <3>2. Written(y)'
        BY <3>1, SMT DEF Written, Exists
      <3>3. Guarded(y)'
        BY <3>1, SMT DEF Guarded, locks
      <3>4. First(y)'
        <4>1. pc[y] = "capture" => user[y] \in Users /\ signups'[user[y]] = signups[user[y]]
          BY <2>2, <3>1, SMT DEF IInv, Alone, Written
        <4>2. pc[y] = "send" => user[y] \in Users /\ mails'[user[y]] = mails[user[y]]
          BY <2>2, <3>1, SMT DEF IInv, Alone, Written
        <4> QED
          BY <3>1, <4>1, <4>2, SMT DEF First
      <3> QED
        BY <3>2, <3>3, <3>4
    <2> QED
      BY <2>1, <2>2
  <1>2. Alone("capture")'
    BY SMT DEF IInv, Alone, Left
  <1>3. Alone("send")'
    <2>1. \A y \in Entries \ {x} : pc[y] = "send" => user[y] \in welcomed
      BY SMT DEF IInv, First
    <2>2. pc'[x] = "send" => user'[x] = user[x]
      BY SMT DEF Left
    <2> QED
      BY <2>1, <2>2, SMT DEF IInv, Alone, Left
  <1>4. \A m \in Mailboxes : claims'[m] # Nil => claims'[m] \in granted'
    BY DEF IInv
  <1> QED
    BY <1>1, <1>2, <1>3, <1>4 DEF IInv
(* The capture of the one entry whose claim was granted.                   *)
LEMMA CaptureSignupKeeps ==
  ASSUME IInv, NEW x \in Entries, CaptureSignup(x)
  PROVE  IInv'
  <1>0. /\ TypeOK /\ Written(x) /\ Guarded(x) /\ First(x) /\ pc[x] = "capture" /\ wrote[x] = {}
        /\ user[x] \in Users /\ user[x] \in granted /\ signups[user[x]] = 0
        /\ UNCHANGED <<tables, locks, entry, through, mails>>
        /\ pc' = [pc EXCEPT ![x] = "upsert"]
        /\ signups' = [signups EXCEPT ![user[x]] = signups[user[x]] + 1] \/ UNCHANGED signups
    BY SMT DEF IInv, Written, First, CaptureSignup, Goto
  <1>1. Left(x, pc'[x]) /\ pc'[x] = "upsert"
    BY <1>0, SMT DEF TypeOK, Left, entry
  <1>2. TypeOK'
    BY <1>0, SMT DEF TypeOK, tables, locks, entry
  <1>3. Written(x)' /\ First(x)'
    BY <1>0, <1>1, SMT DEF Written, First, entry
  <1>4. /\ \A u \in Users : u # user[x] => signups'[u] = signups[u] /\ mails'[u] = mails[u]
        /\ signups'[user[x]] <= 1
    BY <1>0, SMT DEF TypeOK
  <1>5. ASSUME NEW u \in Users PROVE Counted(u)'
    BY <1>0, <1>4, SMT DEF IInv, Counted, tables
  <1> QED
    BY <1>0, <1>1, <1>2, <1>3, <1>4, <1>5, OutsideKeeps DEF tables

(* welcomed_at is set before the mail, by one entry.                       *)
LEMMA WelcomeLockKeeps ==
  ASSUME IInv, NEW x \in Entries, WelcomeLock(x)
  PROVE  IInv'
  <1>0. /\ TypeOK /\ Written(x) /\ Guarded(x) /\ First(x) /\ pc[x] = "welcome" /\ wrote[x] = {}
        /\ user[x] \in Users /\ Counted(user[x])
        /\ UNCHANGED <<profile, granted, claims, collisions, grants, locks, history>>
    BY SMT DEF IInv, Written, WelcomeLock
  <1>1. CASE Leave(x) /\ UNCHANGED welcomed
    <2>0. Left(x, "upsert")
      BY <1>0, <1>1, LeaveEntry DEF After
    <2>1. Left(x, "upsert") /\ pc'[x] = "idle" /\ user'[x] = Nil
      BY <1>0, <1>1, <2>0, SMT DEF TypeOK, Leave, Goto
    <2>2. Moves(x)
      BY <1>0, <2>1, SMT DEF TypeOK, Left, Moves, locks
    <2>3. TypeOK'
      BY <1>0, <1>1, <2>1, TrialAssumption, SMT DEF TypeOK, Guarded, Left, history, locks
    <2>4. Written(x)' /\ Guarded(x)' /\ pc'[x] \notin {"capture", "send"}
      BY <1>0, <2>1, SMT DEF TypeOK, Left, Written, Guarded, locks
    <2> QED
      BY <1>0, <1>1, <2>2, <2>3, <2>4, InsideKeeps
  <1>2. CASE /\ user[x] \notin welcomed /\ Exists(x) /\ welcomed' = welcomed \cup {user[x]}
             /\ Goto(x, "send") /\ UNCHANGED entry
    <2>1. Left(x, pc'[x]) /\ pc'[x] = "send"
      BY <1>0, <1>2, SMT DEF TypeOK, Left, Goto, entry
    <2>2. TypeOK'
      BY <1>0, <1>2, SMT DEF TypeOK, Goto, Exists, locks, entry, history
    <2>3. mails[user[x]] = 0
      BY <1>0, <1>2, SMT DEF TypeOK, Counted
    <2>4. Written(x)' /\ First(x)'
      BY <1>0, <1>2, <2>1, <2>3, SMT DEF Written, First, entry, history
    <2>5. ASSUME NEW u \in Users PROVE Counted(u)'
      <3>1. Counted(u) /\ mails[u] \in Nat
        BY <1>0 DEF IInv, TypeOK
      <3>2. u \in welcomed => u \in welcomed'
        BY <1>2
      <3> QED
        BY <1>0, <3>1, <3>2, SMT DEF Counted, history
    <2> QED
      BY <1>0, <1>2, <2>1, <2>2, <2>4, <2>5, OutsideKeeps, SMT DEF history
  <1> QED
    BY <1>1, <1>2, Zenon DEF WelcomeLock

(* The mail of the one entry that set it.                                  *)
LEMMA SendWelcomeKeeps ==
  ASSUME IInv, NEW x \in Entries, SendWelcome(x)
  PROVE  IInv'
  <1>0. /\ TypeOK /\ Written(x) /\ Guarded(x) /\ First(x) /\ pc[x] = "send" /\ wrote[x] = {}
        /\ user[x] \in Users /\ user[x] \in welcomed /\ mails[user[x]] = 0
        /\ UNCHANGED <<tables, locks, through, signups>>
        /\ mails' = [mails EXCEPT ![user[x]] = mails[user[x]] + 1] /\ Leave(x)
    BY SMT DEF IInv, Written, First, SendWelcome
  <1>L. Left(x, "upsert")
    BY <1>0, LeaveEntry DEF After
  <1>1. Left(x, "upsert") /\ pc'[x] = "idle" /\ user'[x] = Nil
    BY <1>0, <1>L, SMT DEF TypeOK, Leave, Goto
  <1>2. Left(x, pc'[x])
    BY <1>1, SMT DEF Left
  <1>3. TypeOK'
    BY <1>0, <1>1, TrialAssumption, SMT DEF TypeOK, Guarded, Left, tables, locks
  <1>4. Written(x)' /\ First(x)'
    BY <1>0, <1>1, SMT DEF Written, First, Left
  <1>5. /\ \A u \in Users : u # user[x] => signups'[u] = signups[u] /\ mails'[u] = mails[u]
        /\ mails'[user[x]] = 1
    BY <1>0, SMT DEF TypeOK
  <1>6. ASSUME NEW u \in Users PROVE Counted(u)'
    BY <1>0, <1>5, SMT DEF IInv, Counted, tables
  <1> QED
    BY <1>0, <1>1, <1>2, <1>3, <1>4, <1>5, <1>6, OutsideKeeps DEF tables

-----------------------------------------------------------------------------
(* The commit: what the locks guarded is written.                          *)
LEMMA CommitKeeps ==
  ASSUME IInv, NEW x \in Entries, Commit(x)
  PROVE  IInv'
  <1> DEFINE u == user[x]  m == box[x]
  <1>0. /\ TypeOK /\ Written(x) /\ Guarded(x) /\ pc[x] = "commit" /\ u \in Users /\ Exists(x)
        /\ Counted(u) /\ m \in Mailboxes \cup {Nil}
        /\ UNCHANGED <<welcomed, signups, mails>> /\ Unlock(x)
    BY SMT DEF IInv, Written, Commit, TypeOK
  <1>1. /\ "grant" \in wrote[x] <=> "flip" \in wrote[x]
        /\ "grant" \in wrote[x] => /\ m # Nil => "claim" \in wrote[x]
                                   /\ rowLock[u] = x /\ u \notin granted
        /\ "claim" \in wrote[x] => /\ m \in Mailboxes /\ claimLock[m] = x /\ claims[m] = Nil
                                   /\ "grant" \in wrote[x] \/ u \in granted
    BY <1>0, SMT DEF Written, Guarded
  <1>2. \/ Left(x, "upsert")
        \/ Left(x, "capture") /\ "grant" \in wrote[x]
    BY <1>0, LeaveEntry, SMT DEF Commit, Wrote
  <1>3. /\ profile \subseteq profile' /\ profile' \subseteq Users /\ u \in profile'
        /\ granted' = IF "grant" \in wrote[x] THEN granted \cup {u} ELSE granted
        /\ collisions' \subseteq Mailboxes
    <2>1. profile' = (IF "profile" \in wrote[x] THEN profile \cup {u} ELSE profile)
          /\ granted' = (IF "flip" \in wrote[x] THEN granted \cup {u} ELSE granted)
      BY Zenon DEF Commit, Wrote
    <2>2. collisions' \subseteq Mailboxes
      <3>1. collisions' = (IF "bump" \in wrote[x] THEN collisions \cup {m} ELSE collisions)
        BY Zenon DEF Commit, Wrote
      <3> QED
        BY <1>0, <3>1, SMT DEF TypeOK, Guarded
    <2> QED
      BY <1>0, <1>1, <2>1, <2>2, SMT DEF TypeOK, Exists
  <1>4. /\ claims' \in [Mailboxes -> Users \cup {Nil}]
        /\ \A n \in Mailboxes : claims'[n] = IF "claim" \in wrote[x] /\ n = m THEN u ELSE claims[n]
    <2>1. claims' = IF "claim" \in wrote[x] THEN [claims EXCEPT ![m] = u] ELSE claims
      BY Zenon DEF Commit, Wrote
    <2>2. claims \in [Mailboxes -> Users \cup {Nil}] /\ u \in Users
      BY <1>0 DEF TypeOK
    <2> HIDE DEF u, m
    <2>3. CASE "claim" \in wrote[x]
      BY <1>1, <2>1, <2>2, <2>3, SMT
    <2>4. CASE "claim" \notin wrote[x]
      BY <2>1, <2>2, <2>4, SMT
    <2> QED
      BY <2>3, <2>4
  <1>5. /\ grants' \in [Users -> Nat] /\ through' \in [Users -> Mailboxes \cup {Nil}]
        /\ \A v \in Users : /\ grants'[v] = IF "grant" \in wrote[x] /\ v = u THEN grants[v] + 1 ELSE grants[v]
                            /\ through'[v] = IF "grant" \in wrote[x] /\ v = u THEN m ELSE through[v]
    <2>1. /\ grants' = IF "grant" \in wrote[x] THEN [grants EXCEPT ![u] = grants[u] + 1] ELSE grants
          /\ through' = IF "grant" \in wrote[x] THEN [through EXCEPT ![u] = m] ELSE through
      BY Zenon DEF Commit, Wrote
    <2> QED
      BY <1>0, <1>1, <2>1, SMT DEF TypeOK
  <1> HIDE DEF u, m
  <1>6. /\ \A v \in Users : rowLock'[v] = IF rowLock[v] = x THEN Nil ELSE rowLock[v]
        /\ \A n \in Mailboxes : claimLock'[n] = IF claimLock[n] = x THEN Nil ELSE claimLock[n]
        /\ rowLock' \in [Users -> Entries \cup {Nil}] /\ claimLock' \in [Mailboxes -> Entries \cup {Nil}]
    BY <1>0, SMT DEF Unlock, TypeOK
  <1>7. TypeOK'
    <2>1. \A v \in Users : rowLock'[v] # Nil => user'[rowLock'[v]] = v
      BY <1>0, <1>2, <1>6, TrialAssumption, SMT DEF TypeOK, Left
    <2>2. granted' \subseteq profile' /\ welcomed' \subseteq profile'
      BY <1>0, <1>3, SMT DEF TypeOK
    <2>3. /\ pc' \in [Entries -> {"idle", "profile", "claim", "bump", "flip", "grant", "commit",
                                  "capture", "upsert", "welcome", "send"}]
          /\ user' \in [Entries -> Users \cup {Nil}] /\ box' \in [Entries -> Mailboxes \cup {Nil}]
          /\ wrote' \in [Entries -> SUBSET {"profile", "claim", "bump", "flip", "grant"}]
      BY <1>2 DEF Left
    <2>4. profile' \subseteq Users /\ collisions' \subseteq Mailboxes
          /\ signups' \in [Users -> Nat] /\ mails' \in [Users -> Nat]
      BY <1>0, <1>3, Zenon DEF TypeOK
    <2>5. /\ claims' \in [Mailboxes -> Users \cup {Nil}] /\ grants' \in [Users -> Nat]
          /\ through' \in [Users -> Mailboxes \cup {Nil}]
          /\ rowLock' \in [Users -> Entries \cup {Nil}] /\ claimLock' \in [Mailboxes -> Entries \cup {Nil}]
      BY <1>4, <1>5, <1>6
    <2> QED
      BY <2>1, <2>2, <2>3, <2>4, <2>5, Zenon DEF TypeOK
  <1>8. \A n \in Mailboxes : claims[n] # Nil => claims'[n] = claims[n]
    BY <1>1, <1>4, SMT
  <1>9. ASSUME NEW y \in Entries, y # x PROVE Written(y)' /\ Guarded(y)' /\ First(y)'
    <2>1. /\ pc'[y] = pc[y] /\ user'[y] = user[y] /\ box'[y] = box[y] /\ wrote'[y] = wrote[y]
          /\ Written(y) /\ Guarded(y) /\ First(y) /\ y # Nil
      BY <1>2, <1>9, TrialAssumption, SMT DEF Left, IInv
    <2>2. wrote[y] # {} => user[y] \in Users
      BY <2>1, SMT DEF Written
    <2>3. Written(y)'
      BY <1>3, <1>8, <2>1, SMT DEF Written, Exists
    <2>4. Guarded(y)'
      <3>1. \A v \in Users : rowLock'[v] = y <=> rowLock[v] = y
        BY <1>6, <1>9, <2>1, SMT
      <3>2. \A n \in Mailboxes : claimLock'[n] = y <=> claimLock[n] = y
        BY <1>6, <1>9, <2>1, SMT
      <3>3. "flip" \in wrote[y] => user[y] \notin granted'
        BY <1>1, <1>3, <1>9, <2>1, SMT DEF Guarded
      <3>4. "claim" \in wrote[y] => claims'[box[y]] = Nil
        <4> SUFFICES ASSUME "claim" \in wrote[y] PROVE claims'[box[y]] = Nil
          OBVIOUS
        <4>1. box[y] \in Mailboxes /\ claimLock[box[y]] = y /\ claims[box[y]] = Nil
          BY <2>1 DEF Guarded
        <4>2. ~("claim" \in wrote[x] /\ box[y] = m)
          BY <1>1, <1>9, <4>1
        <4> QED
          BY <1>4, <4>1, <4>2
      <3> QED
        BY <2>1, <2>2, <3>1, <3>2, <3>3, <3>4, SMT DEF Guarded
    <2>5. First(y)'
      BY <1>0, <1>3, <2>1, SMT DEF First
    <2> QED
      BY <2>3, <2>4, <2>5
  <1>10. Written(x)' /\ Guarded(x)' /\ First(x)'
    <2>1. "grant" \in wrote[x] => signups[u] = 0 /\ u \in granted'
      BY <1>0, <1>1, <1>3, SMT DEF Counted, TypeOK
    <2>2. wrote'[x] = {} /\ pc'[x] \in {"idle", "upsert", "capture"}
          /\ (pc'[x] = "idle" => user'[x] = Nil) /\ (pc'[x] # "idle" => user'[x] = u)
          /\ (pc'[x] = "capture" => "grant" \in wrote[x])
      BY <1>2, SMT DEF Left, u
    <2>3. \A v \in Users : rowLock'[v] # x
      BY <1>6, TrialAssumption, SMT
    <2> QED
      BY <1>0, <2>1, <2>2, <2>3, SMT DEF Written, Guarded, First
  <1>11. Alone("capture")' /\ Alone("send")'
    <2>1. \A y \in Entries : pc[y] = "capture" => user[y] \in granted
      BY DEF IInv, First
    <2> QED
      BY <1>1, <1>2, <2>1, SMT DEF IInv, Alone, Left, u
  <1>12. ASSUME NEW v \in Users PROVE Counted(v)'
    <2>1. Counted(v) /\ signups[v] \in Nat /\ grants[v] \in Nat
      BY <1>0 DEF IInv, TypeOK
    <2>2. CASE "grant" \in wrote[x] /\ v = u
      <3>1. grants'[v] = 1 /\ v \in granted' /\ through'[v] = m
        BY <1>1, <1>3, <1>5, <2>1, <2>2, SMT DEF Counted
      <3>2. m # Nil => claims'[m] = v
        BY <1>0, <1>1, <1>4, <2>2, SMT
      <3> QED
        BY <1>0, <2>1, <3>1, <3>2, SMT DEF Counted
    <2>3. CASE ~("grant" \in wrote[x] /\ v = u)
      <3>1. grants'[v] = grants[v] /\ through'[v] = through[v] /\ (v \in granted' <=> v \in granted)
        BY <1>3, <1>5, <2>3, SMT
      <3>2. through[v] # Nil => claims'[through[v]] = v
        BY <1>0, <1>8, <2>1, TrialAssumption, SMT DEF Counted, TypeOK
      <3> QED
        BY <1>0, <2>1, <3>1, <3>2, SMT DEF Counted
    <2> QED
      BY <2>2, <2>3
  <1>13. \A n \in Mailboxes : claims'[n] # Nil => claims'[n] \in granted'
    BY <1>1, <1>3, <1>4, SMT DEF IInv
  <1> QED
    BY <1>7, <1>9, <1>10, <1>11, <1>12, <1>13 DEF IInv

-----------------------------------------------------------------------------
(* The theorems.                                                           *)

(* No step.                                                                *)
LEMMA StutterKeeps ==
  ASSUME IInv, UNCHANGED vars
  PROVE  IInv'
  <1> USE DEF vars, tables, locks, entry, history
  <1>1. TypeOK'
    BY Zenon DEF IInv, TypeOK
  <1>2. Alone("capture")' /\ Alone("send")'
    BY Zenon DEF IInv, Alone
  <1>3. ASSUME NEW x \in Entries PROVE Written(x)' /\ Guarded(x)' /\ First(x)'
    BY Zenon DEF IInv, Written, Guarded, First, Exists
  <1>4. ASSUME NEW v \in Users PROVE Counted(v)'
    BY Zenon DEF IInv, Counted
  <1> QED
    BY <1>1, <1>2, <1>3, <1>4, Zenon DEF IInv

(* The invariant holds in every reachable state.                           *)
LEMMA Invariance == Spec => []IInv
  <1>1. IInv /\ [Next]_vars => IInv'
    <2> SUFFICES ASSUME IInv, [Next]_vars PROVE IInv'
      OBVIOUS
    <2>1. ASSUME NEW x \in Entries, Step(x) PROVE IInv'
      BY <2>1, InsertProfileKeeps, InsertClaimKeeps, BumpCollisionKeeps, FlipLockKeeps, InsertGrantKeeps,
         CommitKeeps, CaptureSignupKeeps, UpsertProfileKeeps, WelcomeLockKeeps, SendWelcomeKeeps DEF Step
    <2>2. ASSUME NEW x \in Entries, Rollback(x) \/ Stop(x) PROVE IInv'
      BY <2>2, RollbackKeeps, StopKeeps
    <2> QED
      BY <2>1, <2>2, EnterKeeps, StutterKeeps DEF Next
  <1> QED
    BY <1>1, InitIInv, PTL DEF Spec

(* Type correctness; a row is locked by an entry of its user.              *)
THEOREM TypeCorrect == Spec => []TypeOK
  <1>1. IInv => TypeOK
    BY DEF IInv
  <1> QED
    BY <1>1, Invariance, PTL

(* claim_trial sets trial_granted_at and writes the credits together, once *)
(* per user, whatever is rolled back in between.                           *)
THEOREM NobodyLockedOut == Spec => []LockedIsPaid
  <1>1. IInv => LockedIsPaid
    BY DEF IInv, Counted, LockedIsPaid
  <1> QED
    BY <1>1, Invariance, PTL

(* The unique key of trial_claims and its row lock: a mailbox buys one     *)
(* trial, and only a user who got it closes it to others.                  *)
THEOREM MailboxBuysOne == Spec => []OneTrialPerMailbox
  <1>1. IInv => OneTrialPerMailbox
    <2> SUFFICES ASSUME IInv PROVE OneTrialPerMailbox
      OBVIOUS
    <2>1. ASSUME NEW v \in Users, NEW w \in Users, v # w, through[v] # Nil PROVE through[v] # through[w]
      BY <2>1, SMT DEF IInv, Counted
    <2>2. ASSUME NEW n \in Mailboxes, claims[n] # Nil PROVE grants[claims[n]] = 1
      BY <2>2, SMT DEF IInv, TypeOK, Counted
    <2> QED
      BY <2>1, <2>2 DEF OneTrialPerMailbox
  <1> QED
    BY <1>1, Invariance, PTL

(* The signup event and the welcome mail go out at most once.              *)
THEOREM AtMostOnce == Spec => []OneSignupOneWelcome
  <1>1. IInv => OneSignupOneWelcome
    <2> SUFFICES ASSUME IInv, NEW v \in Users PROVE signups[v] <= grants[v] /\ mails[v] <= 1
      BY DEF OneSignupOneWelcome
    <2>1. Counted(v) /\ mails[v] \in Nat
      BY DEF IInv, TypeOK
    <2> QED
      BY <2>1, SMT DEF Counted
  <1> QED
    BY <1>1, Invariance, PTL
=============================================================================
