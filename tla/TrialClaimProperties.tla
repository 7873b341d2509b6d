------------------------ MODULE TrialClaimProperties ------------------------
(* What the trial promises the business and the user.                      *)
EXTENDS TrialClaim

(* A user gets one trial, and trial_granted_at is set exactly for those    *)
(* whose grant is in the ledger: nobody is left "locked-but-creditless".   *)
LockedIsPaid == \A u \in Users : grants[u] = (IF u \in granted THEN 1 ELSE 0)

(* One mailbox buys one trial, however many accounts it opens at once, and *)
(* it is closed to others only by a user who has the credits: no rolled    *)
(* back or refused claim uses it up.                                       *)
OneTrialPerMailbox ==
    /\ \A u, v \in Users : u # v /\ through[u] # Nil => through[u] # through[v]
    /\ \A m \in Mailboxes : claims[m] # Nil => grants[claims[m]] = 1

(* A signup is counted at most once and only for a granted trial, and the  *)
(* welcome mail goes out at most once ("At-most-once" of welcome.ts).      *)
OneSignupOneWelcome == \A u \in Users : signups[u] <= grants[u] /\ mails[u] <= 1

-----------------------------------------------------------------------------
(* Fairness: entries go on, a user with one address keeps coming in with   *)
(* it, and claims are not rolled back for ever.                            *)
Settled  == {u \in Users : \E m \in Addresses[u] : Addresses[u] = {m}}
Fails(x) == Rollback(x) /\ ~Commit(x)

Fairness ==
    /\ \A x \in Entries : WF_vars(Step(x))
    /\ \A u \in Settled : SF_vars(\E x \in Entries, m \in Addresses[u] : Enter(x, u, m))
    /\ <>[][~ \E x \in Entries : Fails(x)]_vars

FairSpec == Spec /\ Fairness

(* Whoever keeps coming in with one address gets the trial in the end,     *)
(* unless somebody else used his mailbox (M-21: "the next authenticated    *)
(* entry retries the same idempotent claim"), whatever failed, was half    *)
(* done or was claimed by others under changing addresses before.          *)
TrialArrives == \A u \in Settled :
    <>(u \in granted \/ \E m \in Addresses[u] \ {Nil} : claims[m] \notin {Nil, u})
=============================================================================
