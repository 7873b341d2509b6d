---------------------------- MODULE MCDfsBudget ----------------------------
(* Three operations, the first a fan-out of two requests, and a cap that   *)
(* the estimates of the fan-out and any other operation pass together.     *)
EXTENDS DfsBudgetProperties

CONSTANTS fan, one, two

AllCalls    == {fan, one, two}
Fanned(x, y) == [c \in AllCalls |-> IF c = fan THEN x ELSE y]
Booking     == Fanned(4, 2)
Requested   == Fanned(2, 1)
=============================================================================
