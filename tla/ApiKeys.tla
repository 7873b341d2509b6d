------------------------------ MODULE ApiKeys ------------------------------
(***************************************************************************)
(* The api_keys rows of one user and the server actions of the connection  *)
(* page that create, rotate and revoke them (app/connection/actions.ts,    *)
(* packages/db/src/api-keys-repo.ts).  Each step is one call to the        *)
(* database; any call may fail, and a write whose reply is lost has landed.*)
(***************************************************************************)
EXTENDS Naturals, FiniteSets

CONSTANTS
    Keys,             \* the keys that may ever be issued: a bound
    Actions,          \* server actions under way at once
    MaxActiveKeys,
    Nil

ASSUME ApiKeysAssumption ==
    /\ MaxActiveKeys \in Nat \ {0} /\ Nil \notin Keys
    /\ IsFiniteSet(Keys) /\ IsFiniteSet(Actions)

VARIABLES
    key,      \* api_keys: no row yet, active or revoked
    at,       \* of each action: the call it makes next
    old,      \* the key it was asked about
    fresh     \* the key it has issued in its place

actions == <<at, old, fresh>>

KeysTypeOK ==
    /\ key \in [Keys -> {"none", "active", "revoked"}]
    /\ at \in [Actions -> {"idle", "count", "issue", "revoke", "back"}]
    /\ old \in [Actions -> Keys \cup {Nil}] /\ fresh \in [Actions -> Keys \cup {Nil}]

KeysInit ==
    /\ key = [k \in Keys |-> "none"] /\ at = [a \in Actions |-> "idle"]
    /\ old = [a \in Actions |-> Nil] /\ fresh = [a \in Actions |-> Nil]

Active == {k \in Keys : key[k] = "active"}

Begin(a, call, k) ==
    /\ at[a] = "idle" /\ at' = [at EXCEPT ![a] = call]
    /\ old' = [old EXCEPT ![a] = k] /\ UNCHANGED <<key, fresh>>

End(a) ==
    /\ at' = [at EXCEPT ![a] = "idle"]
    /\ old' = [old EXCEPT ![a] = Nil] /\ fresh' = [fresh EXCEPT ![a] = Nil]

(* Mutant: the cap is not looked at.                                       *)
CreateKey_Uncapped(a) == Begin(a, "issue", Nil)

(* The count, at or over the cap a refusal.                                *)
CreateKey(a) == Cardinality(Active) < MaxActiveKeys /\ Begin(a, "issue", Nil)

(* assertActiveKeyOwnedBy: a revoked or unknown key is not found.          *)
RotateKey(a, k) == key[k] = "active" /\ Begin(a, "count", k)
RevokeKey(a, k) == key[k] = "active" /\ Begin(a, "revoke", k)

(* Mutant: a rotation is exempt from the cap.                              *)
CountForRotate_Exempt(a) ==
    /\ at[a] = "count" /\ at' = [at EXCEPT ![a] = "issue"]
    /\ UNCHANGED <<key, old, fresh>>

(* A rotation is refused only above the cap; a read that fails throws.     *)
CountForRotate(a) ==
    /\ at[a] = "count" /\ UNCHANGED key
    /\ \/ /\ Cardinality(Active) - 1 < MaxActiveKeys
          /\ at' = [at EXCEPT ![a] = "issue"] /\ UNCHANGED <<old, fresh>>
       \/ End(a)

(* A row for a new key.  It is in the answer of a creation; a rotation     *)
(* goes on to revoke the old one.  An insert without a reply throws.       *)
IssueKey(a, k) ==
    /\ at[a] = "issue" /\ key[k] = "none"
    /\ key' = [key EXCEPT ![k] = "active"]
    /\ \/ /\ old[a] # Nil /\ at' = [at EXCEPT ![a] = "revoke"]
          /\ fresh' = [fresh EXCEPT ![a] = k] /\ UNCHANGED old
       \/ End(a)

(* An update of the row that is not revoked yet.                           *)
Revoked(k) == key' = [key EXCEPT ![k] = "revoked"]

(* If a rotation cannot revoke the old key, or cannot know that it did, it *)
(* takes the new one back.                                                 *)
RevokeOld(a) ==
    /\ at[a] = "revoke"
    /\ \/ Revoked(old[a]) /\ End(a)
       \/ /\ Revoked(old[a]) \/ UNCHANGED key
          /\ fresh[a] # Nil /\ at' = [at EXCEPT ![a] = "back"] /\ UNCHANGED <<old, fresh>>

BackRevoke(a) == at[a] = "back" /\ Revoked(fresh[a]) /\ End(a)

(* A call failed, or the request died.                                     *)
ActionFails(a) == at[a] # "idle" /\ End(a) /\ UNCHANGED key

ActionStep(a) ==
    \/ CreateKey(a) \/ CountForRotate(a) \/ RevokeOld(a) \/ BackRevoke(a) \/ ActionFails(a)
    \/ \E k \in Keys : RotateKey(a, k) \/ RevokeKey(a, k) \/ IssueKey(a, k)
=============================================================================
