--------------------------- MODULE MCIdempotency ---------------------------
\* Two deliveries of one notification and one of another.
EXTENDS Idempotency, TLC
CONSTANTS d1, d2, d3, k1, k2
MCKey == (d1 :> k1) @@ (d2 :> k1) @@ (d3 :> k2)
=============================================================================
