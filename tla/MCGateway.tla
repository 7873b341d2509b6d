----------------------------- MODULE MCGateway -----------------------------
(* A cap of one key, two actions at once, and four keys, one more than may *)
(* ever be active; two addresses and room for one. Two ticks refill a      *)
(* request; the bucket of a key holds one request, that of an address one  *)
(* and a half, so that a second one has to wait.                           *)
EXTENDS GatewayProperties, TLC

CONSTANTS k1, k2, k3, k4, a1, a2, q1, i1, i2

FourKeys     == {k1, k2, k3, k4}
TwoActions   == {a1, a2}
TwoAddresses == {i1, i2}

Sized(ip, k) == [id \in FourKeys \cup TwoAddresses |-> IF id \in TwoAddresses THEN ip ELSE k]
BucketSizes  == Sized(3, 2)
Tokens       == Sized(2, 2)

Symmetric == Permutations(FourKeys \ {k1}) \cup Permutations(TwoActions) \cup Permutations(TwoAddresses)
=============================================================================
