------------------------- MODULE GatewayProperties -------------------------
(* What the gateway and the key actions promise.                           *)
EXTENDS Gateway

(* The cap on active keys is counted before the insert and not enforced by *)
(* the database: what that costs is one key more for each action that      *)
(* overlaps or dies half-way, however long the sequence of creations,      *)
(* rotations and revocations (actions.ts: "neither path can grow the       *)
(* active set past the cap", "best-effort").                               *)
KeysBounded == Cardinality(Active) <= MaxActiveKeys + Cardinality(Actions)

(* A caller is let through for no more than a full bucket and the refill   *)
(* of the time that has passed; an address, for another full bucket each   *)
(* time the map was cleared, whoever filled it (auth.ts maxEntries).       *)
(* Setting the clock back gives nobody anything.                           *)
Fills(id) == IF id \in Addresses THEN 1 + clears ELSE 1

BurstBounded == \A id \in Callers : passed[id] <= Fills(id) * Capacity[id] + ticks

(* A request that came after its key was revoked, by the user or by a      *)
(* rotation, is not served.                                                *)
RevokedIsOut == \A q \in Requests : gate[q] = "serve" => q \notin late
=============================================================================
