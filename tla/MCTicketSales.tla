--------------------------- MODULE MCTicketSales ---------------------------
(* Values of TicketSales' function constants for TLC.                      *)
EXTENDS TicketSales, TLC

CONSTANTS p1, p2, p3, h1, h2, k1, k2

\* One purchase of one ticket, the others of two.
MCQty == [p \in Purchases |-> IF p = p1 THEN 1 ELSE 2]

\* Each webhook delivery with its completePurchase call.
MCCall == [h \in Hooks |-> IF h = h1 THEN k1 ELSE k2]

\* Cleanup runs, and webhook deliveries with their calls, are interchangeable.
Swapped == [i \in Hooks \cup Calls |->
              CASE i = h1 -> h2 [] i = h2 -> h1 [] i = k1 -> k2 [] i = k2 -> k1]
Interchangeable == Permutations(Sweeps) \cup {Swapped}
=============================================================================
