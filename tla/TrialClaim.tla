----------------------------- MODULE TrialClaim -----------------------------
(***************************************************************************)
(* The signup trial: one grant for a user and for a mailbox, claimed at    *)
(* every authenticated entry until it succeeds (claim_trial of migration   *)
(* 0020, apps/web/lib/billing/trial.ts), and the one welcome mail          *)
(* (welcome.ts).                                                           *)
(*                                                                         *)
(* claim_trial is modelled statement by statement.  A transaction's writes *)
(* stay in "wrote" until it commits; the rows it wrote stay locked, and a  *)
(* statement that meets a locked row waits, as READ COMMITTED does.        *)
(***************************************************************************)
EXTENDS Naturals

CONSTANTS Users, Mailboxes, Entries, Nil,
    Addresses   \* the mailboxes a user has addresses of (Nil: not understood)

ASSUME TrialAssumption ==
    /\ Nil \notin Users \cup Mailboxes \cup Entries
    /\ Addresses \in [Users -> SUBSET (Mailboxes \cup {Nil})]

VARIABLES
    profile,    \* users with a users_profile row
    granted,    \* users with trial_granted_at set
    welcomed,   \* users with welcomed_at set
    claims,     \* trial_claims: the user who used the mailbox, or Nil
    collisions, \* was collision_count bumped?  by mailbox
    grants,     \* trial rows in credit_ledger, by user
    rowLock,    \* users_profile row locks, by user
    claimLock,  \* trial_claims row locks, by mailbox
    pc, user, box, wrote, \* the entries: step, user, mailbox sent, writes
    through,    \* history: the mailbox a user's trial was granted through
    signups,    \* history: signup events captured, by user
    mails       \* history: welcome mails handed to the vendor, by user

tables  == <<profile, granted, welcomed, claims, collisions, grants>>
locks   == <<rowLock, claimLock>>
entry   == <<user, box, wrote>>
history == <<through, signups, mails>>
vars    == <<tables, locks, pc, entry, history>>

TypeOK ==
    /\ profile \subseteq Users /\ granted \subseteq profile /\ welcomed \subseteq profile
    /\ claims \in [Mailboxes -> Users \cup {Nil}] /\ collisions \subseteq Mailboxes
    /\ grants \in [Users -> Nat] /\ signups \in [Users -> Nat] /\ mails \in [Users -> Nat]
    /\ through \in [Users -> Mailboxes \cup {Nil}]
    /\ rowLock \in [Users -> Entries \cup {Nil}]
    /\ claimLock \in [Mailboxes -> Entries \cup {Nil}]
    /\ pc \in [Entries -> {"idle", "profile", "claim", "bump", "flip", "grant", "commit",
                           "capture", "upsert", "welcome", "send"}]
    /\ user \in [Entries -> Users \cup {Nil}] /\ box \in [Entries -> Mailboxes \cup {Nil}]
    /\ wrote \in [Entries -> SUBSET {"profile", "claim", "bump", "flip", "grant"}]
    /\ \A u \in Users : rowLock[u] # Nil => user[rowLock[u]] = u

Init ==
    /\ profile = {} /\ granted = {} /\ welcomed = {} /\ collisions = {}
    /\ claims = [m \in Mailboxes |-> Nil]
    /\ grants = [u \in Users |-> 0] /\ signups = [u \in Users |-> 0]
    /\ mails = [u \in Users |-> 0] /\ through = [u \in Users |-> Nil]
    /\ rowLock = [u \in Users |-> Nil] /\ claimLock = [m \in Mailboxes |-> Nil]
    /\ pc = [x \in Entries |-> "idle"] /\ user = [x \in Entries |-> Nil]
    /\ box = [x \in Entries |-> Nil] /\ wrote = [x \in Entries |-> {}]

-----------------------------------------------------------------------------
Goto(x, step)     == pc' = [pc EXCEPT ![x] = step]
Write(x, what)    == wrote' = [wrote EXCEPT ![x] = @ \cup {what}]
FreeRow(x)        == rowLock[user[x]] \in {Nil, x}
FreeClaim(x)      == claimLock[box[x]] \in {Nil, x}
LockRow(x)        == rowLock' = [rowLock EXCEPT ![user[x]] = x]
LockClaim(x)      == claimLock' = [claimLock EXCEPT ![box[x]] = x]

Unlock(x) ==
    /\ rowLock' = [u \in Users |-> IF rowLock[u] = x THEN Nil ELSE rowLock[u]]
    /\ claimLock' = [m \in Mailboxes |-> IF claimLock[m] = x THEN Nil ELSE claimLock[m]]

Leave(x) ==
    /\ Goto(x, "idle")
    /\ user' = [user EXCEPT ![x] = Nil] /\ box' = [box EXCEPT ![x] = Nil]
    /\ wrote' = [wrote EXCEPT ![x] = {}]

(* Mutant: the trial is claimed at the first entry only.                   *)
Enter_FirstOnly(x, u, m) ==
    /\ pc[x] = "idle"
    /\ user' = [user EXCEPT ![x] = u] /\ box' = [box EXCEPT ![x] = m]
    /\ Goto(x, IF u \in profile THEN "upsert" ELSE "profile")
    /\ UNCHANGED <<tables, locks, wrote, history>>

(* A user comes in, by the callback or by /app: the claim goes out with    *)
(* the mailbox of the address he has now, with none if the address is not  *)
(* understood.                                                             *)
Enter(x, u, m) ==
    /\ pc[x] = "idle"
    /\ user' = [user EXCEPT ![x] = u] /\ box' = [box EXCEPT ![x] = m]
    /\ Goto(x, "profile")
    /\ UNCHANGED <<tables, locks, wrote, history>>

InsertProfile(x) ==
    /\ pc[x] = "profile"
    /\ \/ user[x] \in profile /\ UNCHANGED <<wrote, rowLock>>
       \/ user[x] \notin profile /\ FreeRow(x) /\ LockRow(x) /\ Write(x, "profile")
    /\ Goto(x, IF box[x] = Nil THEN "flip" ELSE "claim")
    /\ UNCHANGED <<tables, claimLock, user, box, history>>

(* Mutant: a concurrent claimant does not wait for the first to commit.    *)
InsertClaim_NoWait(x) ==
    /\ pc[x] = "claim"
    /\ \/ claims[box[x]] # Nil /\ Goto(x, "bump") /\ UNCHANGED <<wrote, claimLock>>
       \/ claims[box[x]] = Nil /\ LockClaim(x) /\ Write(x, "claim") /\ Goto(x, "flip")
    /\ UNCHANGED <<tables, rowLock, user, box, history>>

InsertClaim(x) ==
    /\ pc[x] = "claim"
    /\ \/ claims[box[x]] # Nil /\ Goto(x, "bump") /\ UNCHANGED <<wrote, claimLock>>
       \/ /\ claims[box[x]] = Nil /\ FreeClaim(x) /\ LockClaim(x)
          /\ Write(x, "claim") /\ Goto(x, "flip")
    /\ UNCHANGED <<tables, rowLock, user, box, history>>

(* The mailbox has had its trial: only somebody else's attempt counts.     *)
BumpCollision(x) ==
    /\ pc[x] = "bump"
    /\ \/ claims[box[x]] = user[x] /\ UNCHANGED <<wrote, claimLock>>
       \/ claims[box[x]] # user[x] /\ FreeClaim(x) /\ LockClaim(x) /\ Write(x, "bump")
    /\ Goto(x, "commit")
    /\ UNCHANGED <<tables, rowLock, user, box, history>>

(* The UPDATE finds the user's row, committed or written by this claim.    *)
Exists(x) == user[x] \in profile \/ "profile" \in wrote[x]

(* Mutant: the lock is flipped again when it is set.                       *)
FlipLock_Unconditional(x) ==
    /\ pc[x] = "flip" /\ FreeRow(x)
    /\ LockRow(x) /\ Write(x, "flip") /\ Goto(x, "grant")
    /\ UNCHANGED <<tables, claimLock, user, box, history>>

FlipLock(x) ==
    /\ pc[x] = "flip" /\ FreeRow(x)
    /\ IF Exists(x) /\ user[x] \notin granted
       THEN LockRow(x) /\ Write(x, "flip") /\ Goto(x, "grant")
       ELSE Goto(x, "commit") /\ UNCHANGED <<wrote, rowLock>>
    /\ UNCHANGED <<tables, claimLock, user, box, history>>

InsertGrant(x) ==
    /\ pc[x] = "grant"
    /\ Write(x, "grant") /\ Goto(x, "commit")
    /\ UNCHANGED <<tables, locks, user, box, history>>

-----------------------------------------------------------------------------
(* The end of the transaction.  The callback goes on to the welcome        *)
(* whatever became of the claim; /app, or a process that dies, stops here. *)
After(x, step) ==
    \/ Leave(x)
    \/ /\ Goto(x, step)
       /\ wrote' = [wrote EXCEPT ![x] = {}] /\ box' = [box EXCEPT ![x] = Nil]
       /\ UNCHANGED user

Wrote(x, what) == what \in wrote[x]

(* Mutants: the lock, or the mailbox, was written by a statement of its    *)
(* own and survives.                                                       *)
Rollback_KeepsFlip(x) ==
    /\ pc[x] \in {"profile", "claim", "bump", "flip", "grant", "commit"}
    /\ granted' = IF Wrote(x, "flip") THEN granted \cup {user[x]} ELSE granted
    /\ Unlock(x) /\ After(x, "upsert")
    /\ UNCHANGED <<profile, welcomed, claims, collisions, grants, history>>

Rollback_KeepsClaim(x) ==
    /\ pc[x] \in {"profile", "claim", "bump", "flip", "grant", "commit"}
    /\ claims' = IF Wrote(x, "claim") THEN [claims EXCEPT ![box[x]] = user[x]] ELSE claims
    /\ Unlock(x) /\ After(x, "upsert")
    /\ UNCHANGED <<profile, granted, welcomed, collisions, grants, history>>

(* A statement raises, or the connection dies: nothing was written.        *)
Rollback(x) ==
    /\ pc[x] \in {"profile", "claim", "bump", "flip", "grant", "commit"}
    /\ Unlock(x) /\ After(x, "upsert")
    /\ UNCHANGED <<tables, history>>

(* All of it is written; only a caller that gets the reply "true" captures.*)
Commit(x) ==
    LET u == user[x]  m == box[x] IN
    /\ pc[x] = "commit"
    /\ profile' = IF Wrote(x, "profile") THEN profile \cup {u} ELSE profile
    /\ granted' = IF Wrote(x, "flip") THEN granted \cup {u} ELSE granted
    /\ claims' = IF Wrote(x, "claim") THEN [claims EXCEPT ![m] = u] ELSE claims
    /\ collisions' = IF Wrote(x, "bump") THEN collisions \cup {m} ELSE collisions
    /\ grants' = IF Wrote(x, "grant") THEN [grants EXCEPT ![u] = @ + 1] ELSE grants
    /\ through' = IF Wrote(x, "grant") THEN [through EXCEPT ![u] = m] ELSE through
    /\ Unlock(x)
    /\ \/ After(x, "upsert")
       \/ Wrote(x, "grant") /\ After(x, "capture")
    /\ UNCHANGED <<welcomed, signups, mails>>

(* safeCapture swallows its error.                                         *)
CaptureSignup(x) ==
    /\ pc[x] = "capture"
    /\ signups' = [signups EXCEPT ![user[x]] = @ + 1] \/ UNCHANGED signups
    /\ Goto(x, "upsert")
    /\ UNCHANGED <<tables, locks, entry, through, mails>>

-----------------------------------------------------------------------------
(* sendWelcomeIfFirst, on the callback.                                    *)
UpsertProfile(x) ==
    /\ pc[x] = "upsert"
    /\ user[x] \in profile \/ FreeRow(x)
    /\ profile' = profile \cup {user[x]}
    /\ Goto(x, "welcome")
    /\ UNCHANGED <<granted, welcomed, claims, collisions, grants, locks, entry, history>>

(* Mutant: the mail is sent first and the lock flipped when it is out.     *)
WelcomeLock_AfterSend(x) ==
    /\ pc[x] = "welcome" /\ FreeRow(x)
    /\ IF user[x] \in welcomed THEN Leave(x)
       ELSE Goto(x, "send") /\ UNCHANGED entry
    /\ UNCHANGED <<tables, locks, history>>

WelcomeLock(x) ==
    /\ pc[x] = "welcome" /\ FreeRow(x)
    /\ IF Exists(x) /\ user[x] \notin welcomed
       THEN /\ welcomed' = welcomed \cup {user[x]}
            /\ Goto(x, "send") /\ UNCHANGED entry
       ELSE Leave(x) /\ UNCHANGED welcomed
    /\ UNCHANGED <<profile, granted, claims, collisions, grants, locks, history>>

SendWelcome(x) ==
    /\ pc[x] = "send"
    /\ mails' = [mails EXCEPT ![user[x]] = @ + 1]
    /\ Leave(x)
    /\ UNCHANGED <<tables, locks, through, signups>>

(* /app sends no welcome, nor does the callback without keys or address;   *)
(* any call may fail, any process may die.                                 *)
Stop(x) ==
    /\ pc[x] \in {"capture", "upsert", "welcome", "send"}
    /\ Leave(x)
    /\ UNCHANGED <<tables, locks, history>>

-----------------------------------------------------------------------------
Step(x) ==
    \/ InsertProfile(x) \/ InsertClaim(x) \/ BumpCollision(x) \/ FlipLock(x) \/ InsertGrant(x)
    \/ Commit(x) \/ CaptureSignup(x) \/ UpsertProfile(x) \/ WelcomeLock(x) \/ SendWelcome(x)

Next ==
    \E x \in Entries :
        \/ Step(x) \/ Rollback(x) \/ Stop(x)
        \/ \E u \in Users : \E m \in Addresses[u] : Enter(x, u, m)

Spec == Init /\ [][Next]_vars
=============================================================================
