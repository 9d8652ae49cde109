----------------------------- MODULE MCAccounts -----------------------------
(* Accounts' model values, and their symmetry.                             *)
EXTENDS Accounts, TLC
CONSTANTS r1, r2, r3, u1, u2, u3, c1, c2, c3
Interchangeable == Permutations(Reqs) \cup Permutations(Ids) \cup Permutations(Codes)
=============================================================================
