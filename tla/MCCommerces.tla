----------------------------- MODULE MCCommerces -----------------------------
(* Commerces' model values, and their symmetry.                            *)
EXTENDS Commerces, TLC
CONSTANTS r1, r2, s1, s2, s3, x1, x2, x3, x4
Interchangeable ==
    Permutations(Reqs) \cup Permutations(Ids) \cup Permutations(Seeds) \cup Permutations(Rows \ Seeds)
=============================================================================
