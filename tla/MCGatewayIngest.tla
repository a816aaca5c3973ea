--------------------------- MODULE MCGatewayIngest ---------------------------
(* Values of the constants of GatewayIngest for model checking.             *)
EXTENDS GatewayIngest, TLC

CONSTANTS d1, d2, v1, v2, h1, h2

(* Both devices have the same HMAC under v1; under v2 one of them keeps it. *)
CollidingHmac == (v1 :> (d1 :> h1 @@ d2 :> h1)) @@ (v2 :> (d1 :> h2 @@ d2 :> h1))

(* One device under one key.                                                *)
PlainHmac == v1 :> (d1 :> h1)

Symmetry == Permutations(Requests)
=============================================================================
