-------------------------- MODULE MCOrderPayments --------------------------
(* Interchangeable handlers and payments, for TLC's symmetry reduction, and *)
(* the bodies of edits: of no column, of the payment's status, of all.      *)
EXTENDS OrderPayments, TLC

Interchangeable == Permutations(Webhooks) \cup Permutations(Payments)

Body(names, s, p, m) ==
    [names |-> names, values |-> [status |-> s, paid |-> p, marked |-> m]]
EditBodies == {Body({}, "pending", NoPayment, FALSE),
               Body({"paid"}, "pending", "approved", FALSE),
               Body(Column, "shipped", "approved", TRUE)}

\* Once edits have named every column nothing is claimed of the order but types.
NotAllNamed == named # Column

=============================================================================
