------------------------- MODULE MCTicketValidation -------------------------
(* TicketValidation's model values, and the symmetry between requests.     *)
EXTENDS TicketValidation, TLC

CONSTANTS s1, s2, s3, r1, r2

\* Scans of one route, and regenerations, are interchangeable (s3 is the one
\* that uses the other route).
Interchangeable == Permutations({s1, s2}) \cup Permutations({r1, r2})
=============================================================================
