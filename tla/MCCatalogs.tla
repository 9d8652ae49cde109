----------------------------- MODULE MCCatalogs -----------------------------
(* Catalogs' model values, and the symmetry between requests and items.    *)
EXTENDS Catalogs, TLC
CONSTANTS r1, r2, r3, i1, i2, i3
Interchangeable == Permutations({r1, r2, r3}) \cup Permutations({i1, i2, i3})
=============================================================================
