---------------------------- MODULE LedgerDomain ----------------------------
(***************************************************************************)
(* The money rules of one account, as the pure domain state machine of     *)
(* packages/core/src/billing/ledger.ts states them: `balance` is the       *)
(* spendable balance and `openReserves` maps each reserve that is neither  *)
(* committed nor released to the amount it holds. applyEntry folds one     *)
(* ledger row into the state and THROWS on an illegal one, so an illegal   *)
(* row is a disabled action here.                                          *)
(*                                                                         *)
(* It is the abstract specification of the SQL ledger: CreditLedger, which *)
(* has sessions, row snapshots and advisory locks, is shown to implement   *)
(* it account by account.                                                  *)
(***************************************************************************)
EXTENDS Integers

CONSTANTS
    Reserves,  \* reserve ids
    Deltas     \* absolute amounts an entry may carry

VARIABLES balance, openReserves

vars == <<balance, openReserves>>

TypeOK ==
    /\ balance \in Int
    /\ DOMAIN openReserves \subseteq Reserves
    /\ \A r \in DOMAIN openReserves : openReserves[r] \in Deltas

(* emptyState(): nothing earned, nothing held.                             *)
EmptyState ==
    /\ balance = 0
    /\ openReserves = [r \in {} |-> 0]

-----------------------------------------------------------------------------
(* grant | purchase: a positive delta, no other rule.                      *)
ApplyCredit(d) ==
    /\ balance' = balance + d
    /\ UNCHANGED openReserves

(* adjust: either sign, refused when it would take the balance below zero. *)
ApplyAdjust(d) ==
    /\ balance - d >= 0
    /\ balance' = balance - d
    /\ UNCHANGED openReserves

ApplyReserve(r, d) ==
    /\ r \notin DOMAIN openReserves
    /\ balance >= d
    /\ balance' = balance - d
    /\ openReserves' = [x \in DOMAIN openReserves \cup {r} |->
                            IF x = r THEN d ELSE openReserves[x]]

ApplyCommit(r) ==
    /\ r \in DOMAIN openReserves
    /\ openReserves' = [x \in DOMAIN openReserves \ {r} |-> openReserves[x]]
    /\ UNCHANGED balance

(* Full release only: the refund is exactly what the reserve holds.        *)
ApplyRelease(r, d) ==
    /\ r \in DOMAIN openReserves
    /\ openReserves[r] = d
    /\ openReserves' = [x \in DOMAIN openReserves \ {r} |-> openReserves[x]]
    /\ balance' = balance + d

ApplyEntry ==
    \/ \E d \in Deltas : ApplyCredit(d) \/ ApplyAdjust(d)
    \/ \E r \in Reserves :
          \/ ApplyCommit(r)
          \/ \E d \in Deltas : ApplyReserve(r, d) \/ ApplyRelease(r, d)

Spec == EmptyState /\ [][ApplyEntry]_vars
=============================================================================
