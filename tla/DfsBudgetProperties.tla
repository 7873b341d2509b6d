------------------------ MODULE DfsBudgetProperties ------------------------
(* What the vendor budget promises.                                        *)
EXTENDS DfsBudget, FiniteSets, FiniteSetsExt

Booked(d) == {c \in Calls : rows[c].state # "none" /\ rows[c].day = d}

(* However many operations race for the last cents, a day's booked total   *)
(* passes the cap by no more than the vendor charged above the estimates.  *)
CapHolds == \A d \in Days : total[d] <= Cap + over[d]

(* The money really billed for the operations booked on a day stays within *)
(* the cap as long as no request costs more than its estimate: through     *)
(* crashes, lost replies, failures half-way and unpriced answers.  (A port *)
(* that settles a refusal at the price it carries is on its own.)          *)
BilledOn(d, calls) == MapThenSumSet(LAMBDA c : billed[c], Booked(d) \cap calls)

BilledWithinCap == \A d \in Days : BilledOn(d, Calls \ PricedRefusals) <= Cap
=============================================================================
