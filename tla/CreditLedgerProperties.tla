----------------------- MODULE CreditLedgerProperties -----------------------
(***************************************************************************)
(* What the credit ledger promises, and what has to hold under the         *)
(* advisory lock for it to keep the promise.                               *)
(***************************************************************************)
EXTENDS CreditLedger, FiniteSetsExt

(* The money of one user in the reserves of the given statuses.            *)
Held(u, statuses) ==
    MapThenSumSet(LAMBDA r : reserve[r].amount,
                  {r \in Reserves : reserve[r].user = u /\ reserve[r].status \in statuses})

(* Money is conserved: a balance is what the user was given less what open *)
(* and committed reserves hold.  A double release, a release of another    *)
(* amount than was reserved, or a commit that debits again breaks it.      *)
Conservation == \A u \in Users : balance[u] = net[u] - Held(u, {"open", "committed"})

(* `balance >= 0` (src/goals/ledger-integrity.md), whatever sessions race: *)
(* the balance a reserve or an unmarked adjust was judged on is still      *)
(* there when its row lands.  Only a marked correction may break it.       *)
NeverOverdrawn == \A u \in Users \ Corrected : balance[u] >= 0

(* A reserve opens once and is settled at most once, by a commit or by a   *)
(* release and never by both, and a settlement is for good: the settled-   *)
(* guard is re-read under the lock, so two racing settlements cannot both  *)
(* land.                                                                   *)
ReserveMoves ==
    \A r \in Reserves :
        reserve'[r] # reserve[r] =>
           \/ reserve[r].status = "none" /\ reserve'[r].status = "open"
           \/ /\ reserve[r].status = "open"
              /\ reserve'[r].status \in {"committed", "released"}
              /\ reserve'[r].user = reserve[r].user
              /\ reserve'[r].amount = reserve[r].amount

SettledOnce == [][ReserveMoves]_vars

(* Account by account the SQL ledger implements the domain state machine   *)
(* of core/billing/ledger.ts, for the accounts nobody corrects by override.*)
OpenOf(u) == {r \in Reserves : reserve[r].status = "open" /\ reserve[r].user = u}

Domain(u) == INSTANCE LedgerDomain WITH
    Deltas <- Amounts,
    balance <- balance[u],
    openReserves <- [r \in OpenOf(u) |-> reserve[r].amount]

ImplementsDomain ==
    /\ \A u \in Users \ Corrected : Domain(u)!EmptyState
    /\ [][\A u \in Users \ Corrected : [Domain(u)!ApplyEntry]_(Domain(u)!vars)]_vars

=============================================================================
