---------------------------- MODULE MCTrialClaim ----------------------------
(* A user with one address and one who comes in with any, his own, the     *)
(* other's or one not understood, two entries at a time.                   *)
EXTENDS TrialClaimProperties

CONSTANTS u1, u2, m1, m2, x1, x2

TwoUsers     == {u1, u2}
TwoMailboxes == {m1, m2}
TwoEntries   == {x1, x2}
AnyOrOne     == [u \in TwoUsers |-> IF u = u1 THEN {m1, m2, Nil} ELSE {m1}]
=============================================================================
