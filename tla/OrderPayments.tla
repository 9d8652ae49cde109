--------------------------- MODULE OrderPayments ---------------------------
(***************************************************************************)
(* One order after its checkout: MercadoPago's notifications move it, its  *)
(* seller advances it, and either side may edit or delete it meanwhile.    *)
(*                                                                         *)
(* Every handler loads the row, checks it, changes the entity and saves    *)
(* it.  TypeORM's save(entity) is a SELECT and then an UPDATE of the       *)
(* columns in which the entity differs from what that SELECT read, or an   *)
(* INSERT of the entity when the SELECT found no row.  Nothing is locked.  *)
(*                                                                         *)
(* A handler stands for as many requests as come, one after another; how   *)
(* many are served at a time is how many handlers there are.  One may be a *)
(* seller's and an editor's, for requests of either kind, not at once.     *)
(***************************************************************************)
EXTENDS Naturals

CONSTANTS
    Webhooks,     \* handlers of POST /payments/webhooks
    Sellers,      \* handlers of PUT /orders/:id/status
    Editors,      \* handlers of PUT /orders/:id
    Payments,     \* attempts to pay the order's link
    Reported,     \* the statuses of a payment that occur
    Deletable,    \* TRUE: DELETE /orders/:id may come
    Bodies        \* what the bodies of edits hold of the row: the columns they
                  \* name and the values these get

Procs == Webhooks \cup Sellers \cup Editors

OrderStatus == {"pending", "confirmed", "processing", "shipped", "delivered",
                "cancelled", "failed"}
Fulfilment == {"processing", "shipped", "delivered"}
PaymentStatus == {"pending", "approved", "in_mediation", "refunded",
                  "charged_back", "rejected", "cancelled"}

Paid == {"approved", "in_mediation", "refunded", "charged_back"}
Column == {"status", "paid", "marked"}
NoPayment == "none"

Row == [status : OrderStatus, paid : PaymentStatus \cup {NoPayment}, marked : BOOLEAN]
Placed == [status |-> "pending", paid |-> NoPayment, marked |-> FALSE]

ASSUME ProcsAssumption == /\ Webhooks \cap (Sellers \cup Editors) = {}
                          /\ Reported \subseteq PaymentStatus
                          /\ Deletable \in BOOLEAN
ASSUME BodiesAssumption == Bodies \subseteq [names : SUBSET Column, values : Row]

Label == {"idle", "load", "select", "update", "after", "mark",
          "feeload", "feeselect", "feeupdate"}

VARIABLES
    there,    \* the order's row exists
    order,    \* the row: [status, paid, marked], that is status, paymentStatus
              \* and whether chargebackProcessedAt is set; Placed if there is none
    was,      \* the statuses that the row has had, and "deleted" (history)
    named,    \* the columns that bodies of edits have named (history)
    mp,       \* the status of each payment at MercadoPago (environment)
    pc,       \* where a handler awaits
    got,      \* what a webhook was notified of: a payment's status as MercadoPago
              \* gave it, or a merchant order
    ent,      \* the entity a handler has loaded and changed
    cols      \* the columns its save() has found to write, and "row" for INSERT

row == <<there, order, was>>
vars == <<there, order, was, named, mp, pc, got, ent, cols>>

\* A handler that ends forgets what it was notified of.
Go(i, label) ==
    /\ pc' = [pc EXCEPT ![i] = label]
    /\ got' = IF label = "idle" /\ i \in Webhooks
              THEN [got EXCEPT ![i] = "merchant_order"] ELSE got
\* One that has saved its entity, or ends, has no use for it.
Drop(i) == ent' = [ent EXCEPT ![i] = Placed] /\ cols' = [cols EXCEPT ![i] = {}]

\* The order is committed with its payment link.
Init ==
    /\ there = TRUE /\ order = Placed /\ was = {"pending"} /\ named = {}
    /\ mp = [q \in Payments |-> NoPayment]
    /\ pc = [i \in Procs |-> "idle"]
    /\ got = [w \in Webhooks |-> "merchant_order"]
    /\ ent = [i \in Procs |-> Placed]
    /\ cols = [i \in Procs |-> {}]

-----------------------------------------------------------------------------
(* MercadoPago (environment): a link may be paid again after a rejection.  *)

Later(s) == (IF s = NoPayment THEN {"pending", "approved", "rejected"} ELSE {})
    \cup (IF s = "pending" THEN {"approved", "rejected", "cancelled"} ELSE {})
    \cup (IF s = "approved" THEN {"in_mediation", "refunded", "charged_back"} ELSE {})
    \cup (IF s = "in_mediation" THEN {"approved", "charged_back"} ELSE {})

Pay(q) ==
    /\ mp[q] = NoPayment =>
         \A o \in Payments : mp[o] \in {NoPayment, "rejected", "cancelled"}
    /\ \E s \in Later(mp[q]) \cap Reported : mp' = [mp EXCEPT ![q] = s]
    /\ UNCHANGED <<row, named, pc, got, ent, cols>>

-----------------------------------------------------------------------------
(* save(order), an external library's.                                      *)

\* The columns cs of entity a, the others of b.
Merge(cs, a, b) == [status |-> IF "status" \in cs THEN a.status ELSE b.status,
                    paid |-> IF "paid" \in cs THEN a.paid ELSE b.paid,
                    marked |-> IF "marked" \in cs THEN a.marked ELSE b.marked]

\* What it writes is kept of the entity; without any, no UPDATE is sent.
Select(i, from, to, next) ==
    LET differ == IF there THEN {f \in Column : ent[i][f] # order[f]}
                  ELSE Column \cup {"row"}
    IN  /\ pc[i] = from
        /\ cols' = [cols EXCEPT ![i] = differ]
        /\ ent' = [ent EXCEPT ![i] = Merge(differ, @, Placed)]
        /\ Go(i, IF differ = {} THEN next ELSE to)
        /\ UNCHANGED <<row, named, mp>>

\* An UPDATE of a row deleted since writes nothing; an INSERT of a row inserted
\* since by another save fails.
Update(i, from, next) ==
    /\ pc[i] = from
    /\ LET inserts == "row" \in cols[i]
           new == Merge(cols[i], ent[i], order)
       IN  /\ IF there = ~inserts
              THEN there' = TRUE /\ order' = new /\ was' = was \cup {new.status}
              ELSE UNCHANGED row
           /\ Go(i, IF there /\ inserts THEN "idle" ELSE next)
    /\ Drop(i)
    /\ UNCHANGED <<named, mp>>

-----------------------------------------------------------------------------
(* The payments webhook: processWebhookNotification for an order.          *)

\* mapPaymentStatusToOrderStatus; a merchant order confirms.
TargetRawMut(s) == s                         \* MercadoPago's own word
TargetMut(s) == IF s \in {"approved", "merchant_order"} THEN "confirmed"
                ELSE IF s \in {"rejected", "cancelled", "refunded"} THEN "cancelled"
                ELSE "pending"               \* no case for charged_back
Target(s) == IF s \in {"approved", "merchant_order"} THEN "confirmed"
             ELSE IF s \in {"rejected", "cancelled", "refunded", "charged_back"}
                  THEN "cancelled" ELSE "pending"

\* The payment's status is what MercadoPago has at this moment.
GetPaymentInfo(w) ==
    /\ pc[w] = "idle"
    /\ \/ got' = [got EXCEPT ![w] = "merchant_order"]
       \/ \E q \in Payments : mp[q] # NoPayment /\ got' = [got EXCEPT ![w] = mp[q]]
    /\ pc' = [pc EXCEPT ![w] = "load"]
    /\ UNCHANGED <<row, named, mp, ent, cols>>

\* What is done of the notification once the status is dealt with: a chargeback
\* is marked, and the payment's status is stored if its fees are known.
Rest(w) == IF got[w] = "charged_back" THEN {"mark"}
           ELSE IF got[w] = "merchant_order" THEN {"idle"}
           ELSE {"feeload", "idle"}

\* updateOrderStatus: the same status, or PENDING for a CONFIRMED order, changes
\* nothing; no order is the end of it.
UpdateOrderStatus(w) ==
    LET s == Target(got[w]) IN
    /\ pc[w] = "load"
    /\ \/ ~there /\ Go(w, "idle") /\ UNCHANGED ent
       \/ /\ there
          /\ order.status = s \/ (order.status = "confirmed" /\ s = "pending")
          /\ \E l \in Rest(w) : Go(w, l)
          /\ UNCHANGED ent
       \/ /\ there
          /\ order.status # s /\ ~(order.status = "confirmed" /\ s = "pending")
          /\ ent' = [ent EXCEPT ![w] = [order EXCEPT !.status = s]]
          /\ Go(w, "select")
    /\ UNCHANGED <<row, named, mp, cols>>

\* The row is read again; without it mapOrderStoreInfo throws.
Reread(w) ==
    /\ pc[w] = "after"
    /\ IF there THEN \E l \in Rest(w) : Go(w, l) ELSE Go(w, "idle")
    /\ UNCHANGED <<row, named, mp, ent, cols>>

\* One UPDATE; its failure is logged, and the fees come next in any case.
MarkChargebackProcessed(w) ==
    /\ pc[w] = "mark"
    /\ \/ there /\ order' = [order EXCEPT !.marked = TRUE]
       \/ UNCHANGED order
    /\ Go(w, "feeload") \/ Go(w, "idle")
    /\ UNCHANGED <<there, was, named, mp, ent, cols>>

UpdateOrderPaymentFees(w) ==
    /\ pc[w] = "feeload"
    /\ IF there
       THEN /\ ent' = [ent EXCEPT ![w] = [order EXCEPT !.paid = got[w]]]
            /\ Go(w, "feeselect")
       ELSE Go(w, "idle") /\ UNCHANGED ent
    /\ UNCHANGED <<row, named, mp, cols>>

WebhookStep(w) ==
    \/ GetPaymentInfo(w) \/ UpdateOrderStatus(w)
    \/ Select(w, "select", "update", "after") \/ Update(w, "update", "after")
    \/ Reread(w) \/ MarkChargebackProcessed(w) \/ UpdateOrderPaymentFees(w)
    \/ Select(w, "feeselect", "feeupdate", "idle") \/ Update(w, "feeupdate", "idle")

-----------------------------------------------------------------------------
(* The seller, edits and deletion.                                         *)

\* validTransitions of updateOrderFulfillmentStatus.
ValidTransitions == {<<"pending", "confirmed">>, <<"confirmed", "processing">>,
                     <<"processing", "shipped">>, <<"shipped", "delivered">>}
FollowingMut(s) == IF s = "pending" THEN {"confirmed"}
                   ELSE Fulfilment \ {s}     \* any status of the fulfilment
Following(s) == {t \in OrderStatus : <<s, t>> \in ValidTransitions}

ApprovedMut == order.paid # "rejected"       \* a payment not yet known is enough
Approved == order.paid = "approved"

\* A request that is not valid, or not yet paid, is refused and changes nothing.
UpdateOrderFulfillmentStatus(r) ==
    /\ pc[r] = "idle" /\ there /\ Approved
    /\ \E s \in Following(order.status) :
         ent' = [ent EXCEPT ![r] = [order EXCEPT !.status = s]]
    /\ Go(r, "select")
    /\ UNCHANGED <<row, named, mp, cols>>

\* Object.assign(order, updateOrderDto): the body's type, Partial<CreateOrderDto>,
\* is Object at runtime, which the ValidationPipe does not look into, so that a
\* body may name any column; and the id, by which an edit of another order comes
\* to write all the columns of that one here.
EditOrder(e) ==
    /\ pc[e] = "idle"
    /\ \E b \in Bodies :
         /\ there \/ b.names = Column
         /\ ent' = [ent EXCEPT ![e] = Merge(b.names, b.values, order)]
         /\ named' = named \cup b.names
    /\ Go(e, "select")
    /\ UNCHANGED <<row, mp, cols>>

SaveStep(i) == Select(i, "select", "update", "idle") \/ Update(i, "update", "idle")

Delete ==
    /\ Deletable /\ there
    /\ there' = FALSE /\ order' = Placed /\ was' = was \cup {"deleted"}
    /\ UNCHANGED <<named, mp, pc, got, ent, cols>>

\* A statement fails or the server stops: no answer, or one that MercadoPago
\* takes for OK.
Fail(i) ==
    /\ pc[i] # "idle"
    /\ Go(i, "idle") /\ Drop(i)
    /\ UNCHANGED <<row, named, mp>>

Next ==
    \/ \E q \in Payments : Pay(q)
    \/ \E w \in Webhooks : WebhookStep(w)
    \/ \E r \in Sellers : UpdateOrderFulfillmentStatus(r)
    \/ \E e \in Editors : EditOrder(e)
    \/ \E i \in Sellers \cup Editors : SaveStep(i)
    \/ \E i \in Procs : Fail(i)
    \/ Delete

Spec == Init /\ [][Next]_vars

-----------------------------------------------------------------------------
(* Properties.                                                             *)

\* Every variable stays in its range.
TypeOK ==
    /\ there \in BOOLEAN /\ order \in Row /\ was \subseteq OrderStatus \cup {"deleted"}
    /\ named \subseteq Column
    /\ mp \in [Payments -> PaymentStatus \cup {NoPayment}]
    /\ pc \in [Procs -> Label]
    /\ got \in [Webhooks -> PaymentStatus \cup {"merchant_order"}]
    /\ ent \in [Procs -> Row]
    /\ cols \in [Procs -> SUBSET (Column \cup {"row"})]

\* Goods are prepared, shipped or delivered only for an order that MercadoPago
\* has been paid for, whatever notifications come, late, repeated or about other
\* attempts, and whatever stale entities are saved; unless the body of an edit has
\* named the status or the payment's, which lets an order go unpaid.
FulfilledOnlyPaid ==
    order.status \in Fulfilment =>
      \/ \E q \in Payments : mp[q] \in Paid
      \/ named \cap {"status", "paid"} # {}

\* Unless the body of an edit has named the status, the fulfilment skips no stage,
\* even where stale saves set it back and forth: what is delivered has been
\* shipped, what is shipped has been prepared, what is prepared has been confirmed.
StagesInOrder ==
    "status" \notin named =>
      /\ "delivered" \in was => "shipped" \in was
      /\ "shipped" \in was => "processing" \in was
      /\ "processing" \in was => "confirmed" \in was

\* An order marked for a chargeback has a payment that was charged back, and it
\* has been cancelled; unless it was deleted, for then the cancellation may have
\* met no row and an editor's save have put the order back, or the body of an edit
\* has named the mark.
ChargebackCancels ==
    order.marked /\ "marked" \notin named =>
      /\ was \cap {"cancelled", "deleted"} # {}
      /\ \E q \in Payments : mp[q] = "charged_back"

\* The seller's stages are not undone: an order that is fulfilled goes to no
\* earlier stage (a cancellation is not one).
Rank(s) == CASE s = "processing" -> 1 [] s = "shipped" -> 2
             [] s \in {"delivered", "cancelled"} -> 3 [] OTHER -> 0

NoReversal ==
    [][order.status \in Fulfilment /\ there' => Rank(order'.status) >= Rank(order.status)]_vars

\* No two handlers are both between their load of the order and their write of it.
OneAtATime ==
    \A i, j \in Procs :
      {pc[i], pc[j]} \subseteq {"select", "update", "feeselect", "feeupdate"} => i = j

\* The status of an order takes a valid transition, unless a notification sets it
\* or an edit does whose body has named it.
OnlyTransitions ==
    [][there /\ there' /\ order'.status # order.status =>
         \/ <<order.status, order'.status>> \in ValidTransitions
         \/ \E w \in Webhooks : pc[w] = "update" /\ pc'[w] # "update"
         \/ "status" \in named /\ \E e \in Editors : pc[e] = "update" /\ pc'[e] # "update"]_vars
=============================================================================
