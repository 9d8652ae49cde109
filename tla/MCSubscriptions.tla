--------------------------- MODULE MCSubscriptions ---------------------------
(* Subscriptions' model values, and their symmetry.                        *)
EXTENDS Subscriptions, TLC
CONSTANTS r1, r2, r3, p1, p2
Interchangeable == Permutations(Reqs) \cup Permutations(Pres)

\* A month more, or one less.
Signed == {1, -1}

\* A run goes on until a request writes too late, or a hand writes a status.
Early == Late = {} /\ twice = "no" /\ forced = "no"

\* Two requests at a time, and one of the three fails or is refused.
Few ==
    /\ Cardinality({r \in Reqs : pc[r] \in Await}) <= 2
    /\ Cardinality({r \in Reqs : pc[r] \in {"failed", "refused"}}) <= 1
=============================================================================
