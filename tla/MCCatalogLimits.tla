--------------------------- MODULE MCCatalogLimits ---------------------------
(* CatalogLimits' model values, and their symmetry.                        *)
EXTENDS CatalogLimits, TLC
CONSTANTS r1, r2, c1, c2, c3, c4, c5
Interchangeable == Permutations({r1, r2}) \cup Permutations({c1, c2, c3, c4, c5})
=============================================================================
