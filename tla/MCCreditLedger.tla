--------------------------- MODULE MCCreditLedger ---------------------------
(* Model-checking instance of the credit ledger.                           *)
EXTENDS CreditLedgerProperties, TLC

CONSTANTS u1, u2, r1, r2, s1, s2, j1

MCUsers     == {u1, u2}
MCCorrected == {u2}
MCReserves  == {r1, r2}
MCSessions  == {s1, s2}
MCAmounts   == {1, 2}

(* Reserve ids and sessions are interchangeable.                           *)
Symmetry == Permutations(MCReserves) \cup Permutations(MCSessions)
=============================================================================
