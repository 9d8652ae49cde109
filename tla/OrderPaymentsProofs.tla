------------------------ MODULE OrderPaymentsProofs ------------------------
(* Proofs about OrderPayments, for any handlers and payments.              *)
EXTENDS OrderPayments, TLAPS

\* The mapping of the webhook, and the columns of a merged row, are typed.
LEMMA TargetType ==
  ASSUME NEW s
  PROVE  Target(s) \in OrderStatus /\ Target(s) \notin Fulfilment
  BY DEF Target, OrderStatus, Fulfilment

LEMMA MergeType ==
  ASSUME NEW cs, NEW a \in Row, NEW b \in Row
  PROVE  /\ Merge(cs, a, b) \in Row
         /\ Merge(cs, a, b).status \in {a.status, b.status}
         /\ Merge(cs, a, b).paid \in {a.paid, b.paid}
         /\ Merge(cs, a, b).marked \in {a.marked, b.marked}
  BY DEF Merge, Row

\* The order as it is placed is a row.
LEMMA PlacedType == Placed \in Row
  BY DEF Placed, Row, OrderStatus

\* A handler's next label.
LEMMA GoType ==
  ASSUME TypeOK, NEW i \in Procs, NEW l \in Label, Go(i, l)
  PROVE  /\ pc' \in [Procs -> Label]
         /\ got' \in [Webhooks -> PaymentStatus \cup {"merchant_order"}]
  BY DEF TypeOK, Go

\* What is left to a webhook after the status.
LEMMA RestType == \A w : Rest(w) \subseteq {"mark", "idle", "feeload"}
  BY DEF Rest

\* What the two statements of save() do to the types.
LEMMA SelectTypes ==
  ASSUME TypeOK, NEW i \in Procs, NEW from, NEW to \in Label, NEW next \in Label,
         Select(i, from, to, next)
  PROVE  TypeOK'
<1> DEFINE differ == IF there THEN {f \in Column : ent[i][f] # order[f]}
                     ELSE Column \cup {"row"}
<1>1. differ \in SUBSET (Column \cup {"row"})
  OBVIOUS
<1>2. Merge(differ, ent[i], Placed) \in Row
  BY MergeType, PlacedType DEF TypeOK
<1>3. /\ cols' = [cols EXCEPT ![i] = differ]
      /\ ent' = [ent EXCEPT ![i] = Merge(differ, ent[i], Placed)]
      /\ UNCHANGED <<row, named, mp>>
      /\ \E l \in Label : Go(i, l)
  BY DEF Select, TypeOK
<1> HIDE DEF differ
<1>4. QED
  BY <1>1, <1>2, <1>3, GoType DEF TypeOK, row

LEMMA UpdateTypes ==
  ASSUME TypeOK, NEW i \in Procs, NEW from, NEW next \in Label, Update(i, from, next)
  PROVE  TypeOK'
<1> DEFINE new == Merge(cols[i], ent[i], order)
<1>1. new \in Row
  BY MergeType DEF TypeOK
<1>2. /\ \/ there' = TRUE /\ order' = new /\ was' = was \cup {new.status}
         \/ UNCHANGED row
      /\ UNCHANGED <<named, mp>>
      /\ ent' = [ent EXCEPT ![i] = Placed]
      /\ cols' = [cols EXCEPT ![i] = {}]
      /\ \E l \in Label : Go(i, l)
  BY DEF Update, Drop, Label
<1>3. new.status \in OrderStatus
  BY <1>1 DEF Row
<1> HIDE DEF new
<1>4. there' \in BOOLEAN /\ order' \in Row /\ was' \subseteq OrderStatus \cup {"deleted"}
  BY <1>1, <1>2, <1>3 DEF TypeOK, row
<1>5. QED
  BY <1>2, <1>4, GoType, PlacedType DEF TypeOK

-----------------------------------------------------------------------------
\* A webhook marks a chargeback for one only, and stores fees for a payment only.
RestInv ==
    \A w \in Webhooks : /\ pc[w] = "mark" => got[w] = "charged_back"
                        /\ pc[w] = "feeload" => got[w] \in PaymentStatus

\* What a step of one handler does to the labels and notifications of all.
LEMMA GoEffect ==
  ASSUME TypeOK, NEW i \in Procs, NEW l, Go(i, l)
  PROVE  /\ pc'[i] = l
         /\ \A j \in Procs \ {i} : pc'[j] = pc[j]
         /\ \A w \in Webhooks : got'[w] = got[w] \/ (w = i /\ l = "idle")
  BY DEF TypeOK, Go

\* Only a chargeback leads to the mark, only a payment to the fees.
LEMMA RestOf ==
  ASSUME TypeOK, NEW w \in Webhooks, NEW l \in Rest(w)
  PROVE  /\ l = "mark" => got[w] = "charged_back"
         /\ l = "feeload" => got[w] \in PaymentStatus
  BY DEF Rest, TypeOK

\* A step to any label but these two keeps RestInv.
LEMMA GoKeepsRest ==
  ASSUME TypeOK, RestInv, NEW i \in Procs, NEW l, l \notin {"mark", "feeload"}, Go(i, l)
  PROVE  RestInv'
  BY GoEffect DEF RestInv, Procs

\* Every step keeps RestInv.
LEMMA RestKept == TypeOK /\ RestInv /\ [Next]_vars => RestInv'
<1> SUFFICES ASSUME TypeOK, RestInv, [Next]_vars PROVE RestInv'
  OBVIOUS
<1> USE DEF Procs
<1>1. ASSUME NEW q \in Payments, Pay(q) PROVE RestInv'
  BY <1>1 DEF Pay, RestInv
<1>2. ASSUME NEW w \in Webhooks, WebhookStep(w) PROVE RestInv'
  <2>1. CASE GetPaymentInfo(w)
    BY <2>1 DEF GetPaymentInfo, TypeOK, RestInv
  <2>2. ASSUME NEW l \in Rest(w), Go(w, l) PROVE RestInv'
    BY <2>2, RestOf, GoEffect DEF RestInv
  <2>3. CASE UpdateOrderStatus(w) \/ Reread(w)
    BY <2>2, <2>3, GoKeepsRest DEF UpdateOrderStatus, Reread
  <2>4. CASE \/ Select(w, "select", "update", "after")
             \/ Select(w, "feeselect", "feeupdate", "idle")
    BY <2>4, GoKeepsRest DEF Select
  <2>5. CASE Update(w, "update", "after") \/ Update(w, "feeupdate", "idle")
    BY <2>5, GoKeepsRest DEF Update
  <2>6. CASE MarkChargebackProcessed(w)
    <3>1. got[w] \in PaymentStatus
      BY <2>6 DEF MarkChargebackProcessed, RestInv, PaymentStatus
    <3>2. CASE Go(w, "feeload")
      BY <3>1, <3>2, GoEffect DEF RestInv
    <3>3. QED
      BY <2>6, <3>2, GoKeepsRest DEF MarkChargebackProcessed
  <2>7. CASE UpdateOrderPaymentFees(w)
    BY <2>7, GoKeepsRest DEF UpdateOrderPaymentFees
  <2>8. QED
    BY <1>2, <2>1, <2>3, <2>4, <2>5, <2>6, <2>7 DEF WebhookStep
<1>3. ASSUME NEW r \in Sellers, UpdateOrderFulfillmentStatus(r) PROVE RestInv'
  BY <1>3, GoKeepsRest DEF UpdateOrderFulfillmentStatus
<1>4. ASSUME NEW e \in Editors, EditOrder(e) PROVE RestInv'
  BY <1>4, GoKeepsRest DEF EditOrder
<1>5. ASSUME NEW i \in Sellers \cup Editors, SaveStep(i) PROVE RestInv'
  BY <1>5, GoKeepsRest DEF SaveStep, Select, Update
<1>6. ASSUME NEW i \in Procs, Fail(i) PROVE RestInv'
  BY <1>6, GoKeepsRest DEF Fail
<1>7. CASE Delete \/ UNCHANGED vars
  BY <1>7 DEF Delete, vars, RestInv
<1> QED
  BY <1>1, <1>2, <1>3, <1>4, <1>5, <1>6, <1>7 DEF Next

-----------------------------------------------------------------------------
\* With it, every step keeps the types.
LEMMA TypeKept == TypeOK /\ RestInv /\ [Next]_vars => TypeOK'
<1> SUFFICES ASSUME TypeOK, RestInv, [Next]_vars PROVE TypeOK'
  OBVIOUS
<1> USE DEF Procs
<1>1. ASSUME NEW q \in Payments, Pay(q) PROVE TypeOK'
  BY <1>1, ProcsAssumption DEF Pay, TypeOK, row
<1>2. ASSUME NEW w \in Webhooks, WebhookStep(w) PROVE TypeOK'
  <2>1. CASE GetPaymentInfo(w)
    BY <2>1 DEF GetPaymentInfo, TypeOK, row, Label, NoPayment
  <2>2. CASE UpdateOrderStatus(w)
    <3>1. /\ UNCHANGED <<row, named, mp, cols>>
          /\ \E l \in {"mark", "idle", "feeload", "select"} : Go(w, l)
          /\ ent' = ent \/ ent' = [ent EXCEPT ![w] = [order EXCEPT !.status = Target(got[w])]]
      BY <2>2, RestType DEF UpdateOrderStatus
    <3>2. [order EXCEPT !.status = Target(got[w])] \in Row
      BY TargetType DEF TypeOK, Row
    <3>3. QED
      BY <3>1, <3>2, GoType DEF TypeOK, row, Label
  <2>3. CASE \/ Select(w, "select", "update", "after")
             \/ Select(w, "feeselect", "feeupdate", "idle")
    BY <2>3, SelectTypes DEF Label
  <2>4. CASE \/ Update(w, "update", "after") \/ Update(w, "feeupdate", "idle")
    BY <2>4, UpdateTypes DEF Label
  <2>5. CASE Reread(w)
    <3>1. /\ UNCHANGED <<row, named, mp, ent, cols>>
          /\ \E l \in {"mark", "idle", "feeload"} : Go(w, l)
      BY <2>5, RestType DEF Reread
    <3>2. QED
      BY <3>1, GoType DEF TypeOK, row, Label
  <2>6. CASE MarkChargebackProcessed(w)
    <3>1. order' \in Row
      BY <2>6 DEF MarkChargebackProcessed, TypeOK, Row
    <3>2. QED
      BY <2>6, <3>1, GoType DEF MarkChargebackProcessed, TypeOK, Label
  <2>7. CASE UpdateOrderPaymentFees(w)
    <3>1. [order EXCEPT !.paid = got[w]] \in Row
      BY <2>7 DEF UpdateOrderPaymentFees, RestInv, TypeOK, Row
    <3>2. QED
      BY <2>7, <3>1, GoType DEF UpdateOrderPaymentFees, TypeOK, row, Label
  <2>8. QED
    BY <1>2, <2>1, <2>2, <2>3, <2>4, <2>5, <2>6, <2>7 DEF WebhookStep
<1>3. ASSUME NEW r \in Sellers, UpdateOrderFulfillmentStatus(r) PROVE TypeOK'
  <2>1. \A s \in OrderStatus : [order EXCEPT !.status = s] \in Row
    BY DEF TypeOK, Row
  <2>2. QED
    BY <1>3, <2>1, GoType DEF UpdateOrderFulfillmentStatus, Following, TypeOK, row, Label
<1>4. ASSUME NEW e \in Editors, EditOrder(e) PROVE TypeOK'
  <2>1. PICK b \in Bodies : /\ ent' = [ent EXCEPT ![e] = Merge(b.names, b.values, order)]
                            /\ named' = named \cup b.names
    BY <1>4 DEF EditOrder
  <2>2. b.names \subseteq Column /\ b.values \in Row
    BY BodiesAssumption
  <2>3. Merge(b.names, b.values, order) \in Row
    BY <2>2, MergeType DEF TypeOK
  <2>4. QED
    BY <1>4, <2>1, <2>2, <2>3, GoType DEF EditOrder, TypeOK, row, Label
<1>5. ASSUME NEW i \in Sellers \cup Editors, SaveStep(i) PROVE TypeOK'
  BY <1>5, SelectTypes, UpdateTypes DEF SaveStep, Label
<1>6. ASSUME NEW i \in Procs, Fail(i) PROVE TypeOK'
  BY <1>6, GoType, PlacedType DEF Fail, Drop, TypeOK, row, Label
<1>7. CASE Delete
  BY <1>7, PlacedType DEF Delete, TypeOK
<1>8. CASE UNCHANGED vars
  BY <1>8 DEF vars, row, TypeOK
<1> QED
  BY <1>1, <1>2, <1>3, <1>4, <1>5, <1>6, <1>7, <1>8 DEF Next

\* So both hold throughout.
LEMMA Typed == Spec => [](TypeOK /\ RestInv)
<1>1. Init => TypeOK /\ RestInv
  BY PlacedType DEF Init, TypeOK, RestInv, OrderStatus, Label, Procs
<1>2. (TypeOK /\ RestInv) /\ [Next]_vars => (TypeOK /\ RestInv)'
  BY TypeKept, RestKept
<1> QED
  BY <1>1, <1>2, PTL DEF Spec

\* Every variable keeps its range.
THEOREM TypeCorrect == Spec => []TypeOK
  BY Typed, PTL

\* What a body has named stays named.
LEMMA NamedStays == [Next]_vars => named \subseteq named'
  BY DEF Next, WebhookStep, Pay, GetPaymentInfo, UpdateOrderStatus, Select, Update,
     Reread, MarkChargebackProcessed, UpdateOrderPaymentFees,
     UpdateOrderFulfillmentStatus, EditOrder, SaveStep, Delete, Fail, vars

\* An edit gives its entity the order's columns, where its body names none.
LEMMA EditedEntity ==
  ASSUME TypeOK, NEW e \in Editors, EditOrder(e)
  PROVE  \E a : /\ ent' = [ent EXCEPT ![e] = a] /\ a \in Row
                /\ \A f \in Column : f \notin named' => a[f] = order[f]
<1>1. PICK b \in Bodies : /\ ent' = [ent EXCEPT ![e] = Merge(b.names, b.values, order)]
                          /\ named' = named \cup b.names
  BY DEF EditOrder
<1>2. b.values \in Row
  BY BodiesAssumption
<1>3. Merge(b.names, b.values, order) \in Row
  BY <1>2, MergeType DEF TypeOK
<1>4. \A f \in Column : f \notin b.names => Merge(b.names, b.values, order)[f] = order[f]
  BY DEF Merge, Column
<1> QED
  BY <1>1, <1>3, <1>4

-----------------------------------------------------------------------------
(* What is fulfilled is paid for: as long as MercadoPago has no payment, no *)
(* row, entity or notification says otherwise, so no seller's request is    *)
(* accepted; and what is paid once stays paid, refunded or charged back.    *)
(* A body that names the status or the payment's ends this.                 *)

SomePaid == \E q \in Payments : mp[q] \in Paid
Unpaid(r) == r.paid # "approved" /\ r.status \notin Fulfilment
Forced == named \cap {"status", "paid"} # {}
PaidInv ==
    \/ SomePaid \/ Forced
    \/ /\ Unpaid(order)
       /\ \A i \in Procs : Unpaid(ent[i])
       /\ \A w \in Webhooks : got[w] # "approved"

\* Neither the order as placed nor a merge of two rows says more than they do.
LEMMA PlacedUnpaid == Unpaid(Placed)
  BY DEF Unpaid, Placed, Fulfilment, NoPayment

LEMMA MergeUnpaid ==
  ASSUME NEW cs, NEW a, NEW b, Unpaid(a), Unpaid(b)
  PROVE  Unpaid(Merge(cs, a, b))
  BY DEF Merge, Unpaid

\* A payment remains one: it is disputed, refunded or charged back at most.
LEMMA PaidStays == TypeOK /\ SomePaid /\ [Next]_vars => SomePaid'
<1> SUFFICES ASSUME TypeOK, SomePaid, [Next]_vars PROVE SomePaid'
  OBVIOUS
<1>1. ASSUME NEW q \in Payments, Pay(q) PROVE SomePaid'
  BY <1>1 DEF Pay, Later, SomePaid, Paid, TypeOK, NoPayment
<1>2. CASE UNCHANGED mp
  BY <1>2 DEF SomePaid
<1>3. QED
  BY <1>1, <1>2 DEF Next, WebhookStep, GetPaymentInfo, UpdateOrderStatus, Select, Update,
     Reread, MarkChargebackProcessed, UpdateOrderPaymentFees,
     UpdateOrderFulfillmentStatus, EditOrder, SaveStep, Delete, Fail, vars

\* A step of a handler that says nothing new of the payment.
LEMMA QuietStep ==
  ASSUME TypeOK, PaidInv, ~SomePaid, ~Forced, NEW i \in Procs, NEW l, Go(i, l),
         Unpaid(order'),
         ent' = ent \/ \E e : Unpaid(e) /\ ent' = [ent EXCEPT ![i] = e]
  PROVE  PaidInv'
  BY GoEffect DEF PaidInv, TypeOK, Go, Procs

\* Every step keeps PaidInv.
LEMMA PaidKept == TypeOK /\ PaidInv /\ [Next]_vars => PaidInv'
<1> SUFFICES ASSUME TypeOK, PaidInv, [Next]_vars, ~SomePaid, ~Forced, ~Forced' PROVE PaidInv'
  BY PaidStays, NamedStays DEF PaidInv, Forced
<1>a. Unpaid(order) /\ \A i \in Procs : Unpaid(ent[i])
  BY DEF PaidInv
<1>b. \A w \in Webhooks : got[w] # "approved"
  BY DEF PaidInv
<1> USE DEF Procs
<1>0. ASSUME UNCHANGED <<order, ent, got>> PROVE PaidInv'
  BY <1>0, <1>a, <1>b DEF PaidInv
<1>1. ASSUME NEW q \in Payments, Pay(q) PROVE PaidInv'
  BY <1>0, <1>1 DEF Pay, row
<1>2. ASSUME NEW i \in Procs, NEW from, NEW to, NEW next, Select(i, from, to, next)
      PROVE PaidInv'
  BY <1>2, <1>a, MergeUnpaid, PlacedUnpaid, QuietStep DEF Select, row
<1>3. ASSUME NEW i \in Procs, NEW from, NEW next, Update(i, from, next)
      PROVE PaidInv'
  BY <1>3, <1>a, MergeUnpaid, PlacedUnpaid, QuietStep DEF Update, Drop, row
<1>4. ASSUME NEW w \in Webhooks, WebhookStep(w) PROVE PaidInv'
  <2>1. CASE GetPaymentInfo(w)
    <3>1. \A q \in Payments : mp[q] # "approved"
      BY DEF SomePaid, Paid
    <3>2. \A v \in Webhooks : got'[v] # "approved"
      BY <2>1, <3>1, <1>b DEF GetPaymentInfo, TypeOK
    <3>3. QED
      BY <2>1, <3>2, <1>a DEF GetPaymentInfo, PaidInv, row
  <2>2. CASE UpdateOrderStatus(w)
    <3>1. Unpaid([order EXCEPT !.status = Target(got[w])])
      BY <1>a, TargetType DEF Unpaid, TypeOK, Row
    <3>2. QED
      BY <2>2, <3>1, <1>a, QuietStep DEF UpdateOrderStatus, row
  <2>3. CASE Reread(w)
    BY <2>3, <1>a, QuietStep DEF Reread, row
  <2>4. CASE MarkChargebackProcessed(w)
    <3>1. Unpaid(order')
      BY <2>4, <1>a DEF MarkChargebackProcessed, Unpaid, TypeOK, Row
    <3>2. QED
      BY <2>4, <3>1, QuietStep DEF MarkChargebackProcessed
  <2>5. CASE UpdateOrderPaymentFees(w)
    <3>1. Unpaid([order EXCEPT !.paid = got[w]])
      BY <1>a, <1>b DEF Unpaid, TypeOK, Row
    <3>2. QED
      BY <2>5, <3>1, <1>a, QuietStep DEF UpdateOrderPaymentFees, row
  <2>6. QED
    BY <1>2, <1>3, <1>4, <2>1, <2>2, <2>3, <2>4, <2>5 DEF WebhookStep
<1>5. ASSUME NEW r \in Sellers, UpdateOrderFulfillmentStatus(r) PROVE PaidInv'
  BY <1>5, <1>a DEF UpdateOrderFulfillmentStatus, Approved, Unpaid
<1>6. ASSUME NEW e \in Editors, EditOrder(e) PROVE PaidInv'
  <2>1. PICK a : /\ ent' = [ent EXCEPT ![e] = a]
                 /\ \A f \in Column : f \notin named' => a[f] = order[f]
    BY <1>6, EditedEntity
  <2>2. a.status = order.status /\ a.paid = order.paid
    BY <2>1 DEF Forced, Column
  <2>3. Unpaid(a)
    BY <1>a, <2>2 DEF Unpaid
  <2>4. QED
    BY <1>6, <1>a, <2>1, <2>3, QuietStep DEF EditOrder, row
<1>7. ASSUME NEW i \in Procs, Fail(i) PROVE PaidInv'
  BY <1>7, <1>a, PlacedUnpaid, QuietStep DEF Fail, Drop, row
<1>8. CASE Delete
  BY <1>8, <1>a, <1>b, PlacedUnpaid DEF Delete, PaidInv
<1>9. CASE UNCHANGED vars
  BY <1>0, <1>9 DEF vars
<1> QED
  BY <1>1, <1>2, <1>3, <1>4, <1>5, <1>6, <1>7, <1>8, <1>9 DEF Next, SaveStep

\* Goods are prepared, shipped or delivered only for an order that MercadoPago
\* has been paid for, unless an edit's body has named the status or the payment's.
THEOREM PaidFirst == Spec => []FulfilledOnlyPaid
<1>1. Init => PaidInv
  BY PlacedUnpaid DEF Init, PaidInv
<1>2. PaidInv => FulfilledOnlyPaid
  BY DEF PaidInv, FulfilledOnlyPaid, SomePaid, Unpaid, Forced
<1>3. Spec => []PaidInv
  <2>1. TypeOK /\ PaidInv /\ [Next]_vars => PaidInv'
    BY PaidKept
  <2>2. QED
    BY <1>1, <2>1, Typed, PTL DEF Spec
<1>4. QED
  BY <1>2, <1>3, PTL

-----------------------------------------------------------------------------
(* The stages: every status that an entity may still write has had its      *)
(* predecessor in the row, because it was read from the row or follows what *)
(* was; and the row's own status is one that the row has had.               *)

Prepared(s) ==
    /\ s = "delivered" => "shipped" \in was
    /\ s = "shipped" => "processing" \in was
    /\ s = "processing" => "confirmed" \in was

WasInv ==
    /\ "pending" \in was
    /\ order.status \in was
    /\ ~there => "deleted" \in was

StageInv ==
    /\ \A s \in was : Prepared(s)
    /\ \A i \in Procs : Prepared(ent[i].status)

\* Every step keeps WasInv.
LEMMA WasKept == TypeOK /\ WasInv /\ [Next]_vars => WasInv'
<1> SUFFICES ASSUME TypeOK, WasInv, [Next]_vars PROVE WasInv'
  OBVIOUS
<1> USE DEF row
<1>1. CASE UNCHANGED row
  BY <1>1 DEF WasInv
<1>2. ASSUME NEW i \in Procs, NEW from, NEW next, Update(i, from, next) PROVE WasInv'
  BY <1>1, <1>2 DEF Update, WasInv
<1>3. ASSUME NEW w \in Webhooks, MarkChargebackProcessed(w) PROVE WasInv'
  <2>1. order'.status = order.status
    BY <1>3 DEF MarkChargebackProcessed, TypeOK, Row
  <2>2. QED
    BY <1>3, <2>1 DEF MarkChargebackProcessed, WasInv
<1>4. CASE Delete
  <2>1. Placed.status = "pending"
    BY DEF Placed
  <2>2. QED
    BY <1>4, <2>1 DEF Delete, WasInv
<1>5. ASSUME NEW w \in Webhooks, WebhookStep(w) PROVE WasInv'
  BY <1>1, <1>2, <1>3, <1>5 DEF WebhookStep, Procs, GetPaymentInfo, UpdateOrderStatus,
     Select, Reread, UpdateOrderPaymentFees
<1>6. ASSUME NEW i \in Sellers \cup Editors, SaveStep(i) PROVE WasInv'
  BY <1>1, <1>2, <1>6 DEF SaveStep, Select, Procs
<1> QED
  BY <1>1, <1>4, <1>5, <1>6 DEF Next, Pay, UpdateOrderFulfillmentStatus, EditOrder, Fail, vars

\* A step that leaves the row and gives a handler a prepared entity, or none.
LEMMA StageStep ==
  ASSUME TypeOK, StageInv, NEW i \in Procs, UNCHANGED row,
         ent' = ent \/ \E e : Prepared(e.status) /\ ent' = [ent EXCEPT ![i] = e]
  PROVE  StageInv'
  BY DEF StageInv, row, Prepared, TypeOK

\* Every step keeps StageInv, unless a body has named the status.
LEMMA StageKept ==
  TypeOK /\ WasInv /\ StageInv /\ "status" \notin named' /\ [Next]_vars => StageInv'
<1> SUFFICES ASSUME TypeOK, WasInv, StageInv, "status" \notin named', [Next]_vars
             PROVE  StageInv'
  OBVIOUS
<1>a. Prepared("pending") /\ Prepared("confirmed") /\ Prepared("cancelled") /\ Prepared("deleted")
  BY DEF Prepared
<1>b. Prepared(order.status) /\ \A i \in Procs : Prepared(ent[i].status)
  BY DEF StageInv, WasInv
<1>c. Placed.status = "pending"
  BY DEF Placed
<1> USE DEF Procs
<1>1. CASE UNCHANGED <<row, ent>>
  BY <1>1 DEF StageInv, row, Prepared
<1>2. ASSUME NEW i \in Procs, NEW from, NEW to, NEW next, Select(i, from, to, next)
      PROVE StageInv'
  <2>1. PICK cs : ent' = [ent EXCEPT ![i] = Merge(cs, ent[i], Placed)]
    BY <1>2 DEF Select
  <2>2. Prepared(Merge(cs, ent[i], Placed).status)
    BY <1>a, <1>b, <1>c DEF Merge
  <2>3. QED
    BY <1>2, <2>1, <2>2, StageStep DEF Select
<1>3. ASSUME NEW i \in Procs, NEW from, NEW next, Update(i, from, next)
      PROVE StageInv'
  <2> DEFINE new == Merge(cols[i], ent[i], order)
  <2>1. ent' = [ent EXCEPT ![i] = Placed]
    BY <1>3 DEF Update, Drop
  <2>2. CASE UNCHANGED row
    BY <1>a, <1>c, <2>1, <2>2, StageStep
  <2>3. CASE there' = TRUE /\ order' = new /\ was' = was \cup {new.status}
    <3>1. Prepared(new.status)
      BY <1>b DEF Merge
    <3> HIDE DEF new
    <3>2. \A s : Prepared(s) => Prepared(s)'
      BY <2>3 DEF Prepared
    <3>3. \A j \in Procs : Prepared(ent'[j].status)
      BY <1>a, <1>b, <1>c, <2>1 DEF TypeOK
    <3>4. QED
      BY <2>3, <3>1, <3>2, <3>3 DEF StageInv
  <2>4. QED
    BY <1>3, <2>2, <2>3 DEF Update
<1>4. ASSUME NEW w \in Webhooks, WebhookStep(w) PROVE StageInv'
  <2>1. CASE GetPaymentInfo(w) \/ Reread(w)
    BY <1>1, <2>1 DEF GetPaymentInfo, Reread
  <2>2. CASE UpdateOrderStatus(w)
    <3>1. Prepared([order EXCEPT !.status = Target(got[w])].status)
      BY <1>a DEF TypeOK, Row, Target
    <3>2. QED
      BY <2>2, <3>1, StageStep DEF UpdateOrderStatus
  <2>3. CASE MarkChargebackProcessed(w)
    <3>1. order'.status = order.status
      BY <2>3 DEF MarkChargebackProcessed, TypeOK, Row
    <3>2. QED
      BY <2>3, <3>1 DEF MarkChargebackProcessed, StageInv, Prepared
  <2>4. CASE UpdateOrderPaymentFees(w)
    <3>1. Prepared([order EXCEPT !.paid = got[w]].status)
      BY <1>b DEF TypeOK, Row
    <3>2. QED
      BY <2>4, <3>1, StageStep DEF UpdateOrderPaymentFees
  <2>5. QED
    BY <1>2, <1>3, <1>4, <2>1, <2>2, <2>3, <2>4 DEF WebhookStep
<1>5. ASSUME NEW r \in Sellers, UpdateOrderFulfillmentStatus(r) PROVE StageInv'
  <2>1. PICK s \in Following(order.status) : ent' = [ent EXCEPT ![r] = [order EXCEPT !.status = s]]
    BY <1>5 DEF UpdateOrderFulfillmentStatus
  <2>2. Prepared(s)
    BY DEF Following, ValidTransitions, Prepared, WasInv
  <2>3. [order EXCEPT !.status = s].status = s
    BY DEF TypeOK, Row
  <2>4. QED
    BY <1>5, <2>1, <2>2, <2>3, StageStep DEF UpdateOrderFulfillmentStatus
<1>6. ASSUME NEW e \in Editors, EditOrder(e) PROVE StageInv'
  <2>1. PICK a : /\ ent' = [ent EXCEPT ![e] = a]
                 /\ \A f \in Column : f \notin named' => a[f] = order[f]
    BY <1>6, EditedEntity
  <2>2. Prepared(a.status)
    BY <1>b, <2>1 DEF Column
  <2>3. QED
    BY <1>6, <2>1, <2>2, StageStep DEF EditOrder
<1>7. ASSUME NEW i \in Procs, Fail(i) PROVE StageInv'
  BY <1>7, <1>a, <1>c, StageStep DEF Fail, Drop
<1>8. CASE Delete
  BY <1>8, <1>a DEF Delete, StageInv, Prepared
<1>9. ASSUME NEW q \in Payments, Pay(q) PROVE StageInv'
  BY <1>1, <1>9 DEF Pay
<1> QED
  BY <1>1, <1>2, <1>3, <1>4, <1>5, <1>6, <1>7, <1>8, <1>9 DEF Next, SaveStep, vars, row

\* The fulfilment skips no stage, whatever stale entities are saved, unless the
\* body of an edit has named the status.
THEOREM StagesFollow == Spec => []StagesInOrder
<1> DEFINE Inv == WasInv /\ ("status" \in named \/ StageInv)
<1>1. Init => Inv
  BY DEF Init, WasInv, StageInv, Prepared, Placed
<1>2. Inv => StagesInOrder
  BY DEF StageInv, StagesInOrder, Prepared
<1>3. TypeOK /\ Inv /\ [Next]_vars => Inv'
  <2>1. [Next]_vars => ("status" \in named => ("status" \in named)')
    BY NamedStays
  <2>2. QED
    BY <2>1, WasKept, StageKept
<1>4. QED
  BY <1>1, <1>2, <1>3, Typed, PTL DEF Spec

-----------------------------------------------------------------------------
(* Chargebacks: a webhook comes to the mark only after its cancellation has *)
(* been stored, or was not needed because the row was cancelled already, or *)
(* has met no row.                                                          *)

ChargedBack == \E q \in Payments : mp[q] = "charged_back"
Marked(r) == r.marked = TRUE
Ended == was \cap {"cancelled", "deleted"} # {}

ChargeInv ==
    /\ Marked(order) => Ended /\ ChargedBack
    /\ \A i \in Procs : Marked(ent[i]) => Ended /\ ChargedBack
    /\ \A w \in Webhooks :
         got[w] = "charged_back" =>
           /\ ChargedBack
           /\ pc[w] \in {"after", "mark"} => Ended
           /\ pc[w] = "select" => ent[w].status = "cancelled"
           /\ pc[w] = "update" =>
                Ended \/ (ent[w].status = "cancelled" /\ "status" \in cols[w])

\* A mark in an entity comes from where the entity comes from.
LEMMA MarkedMerge ==
  ASSUME NEW cs, NEW a, NEW b, Marked(Merge(cs, a, b))
  PROVE  Marked(a) \/ Marked(b)
  BY DEF Merge, Marked

LEMMA MarkedAfter ==
  ASSUME TypeOK, NEW s
  PROVE  /\ Marked([order EXCEPT !.status = s]) => Marked(order)
         /\ Marked([order EXCEPT !.paid = s]) => Marked(order)
  BY DEF TypeOK, Row, Marked

\* Neither is ever undone.
LEMMA ChargeStays ==
  TypeOK /\ [Next]_vars => /\ ChargedBack => ChargedBack'
                           /\ Ended => Ended'
<1> SUFFICES ASSUME TypeOK, [Next]_vars
             PROVE  (ChargedBack => ChargedBack') /\ was \subseteq was'
  BY DEF Ended
<1>1. ASSUME NEW q \in Payments, Pay(q) PROVE (ChargedBack => ChargedBack') /\ was \subseteq was'
  BY <1>1 DEF Pay, Later, ChargedBack, TypeOK, NoPayment, row
<1>2. CASE UNCHANGED mp /\ was \subseteq was'
  BY <1>2 DEF ChargedBack
<1>3. QED
  BY <1>1, <1>2 DEF Next, WebhookStep, GetPaymentInfo, UpdateOrderStatus, Select, Update,
     Reread, MarkChargebackProcessed, UpdateOrderPaymentFees,
     UpdateOrderFulfillmentStatus, EditOrder, SaveStep, Delete, Fail, vars, row

\* A handler's step to a label of which ChargeInv says nothing, or from which a
\* webhook with a chargeback has ended the order.
LEMMA ChargeStep ==
  ASSUME TypeOK, ChargeInv, [Next]_vars, NEW i \in Procs, NEW l, Go(i, l),
         Marked(order') => Ended' /\ ChargedBack',
         UNCHANGED cols \/ \E c : cols' = [cols EXCEPT ![i] = c],
         UNCHANGED ent \/ \E e : /\ Marked(e) => Ended' /\ ChargedBack'
                                 /\ ent' = [ent EXCEPT ![i] = e],
         \/ l \notin {"after", "mark", "select", "update"}
         \/ i \notin Webhooks
         \/ got[i] = "charged_back" =>
              /\ l \in {"after", "mark"} => Ended'
              /\ l = "select" => ent'[i].status = "cancelled"
              /\ l = "update" =>
                   Ended' \/ (ent'[i].status = "cancelled" /\ "status" \in cols'[i])
  PROVE  ChargeInv'
<1>1. \A j \in Procs : Marked(ent'[j]) => Ended' /\ ChargedBack'
  BY ChargeStays DEF ChargeInv, TypeOK
<1>2. \A j \in Procs \ {i} : ent'[j] = ent[j] /\ cols'[j] = cols[j] /\ pc'[j] = pc[j]
  BY GoEffect DEF TypeOK
<1>3. ASSUME NEW w \in Webhooks, got'[w] = "charged_back"
      PROVE  /\ ChargedBack'
             /\ pc'[w] \in {"after", "mark"} => Ended'
             /\ pc'[w] = "select" => ent'[w].status = "cancelled"
             /\ pc'[w] = "update" =>
                  Ended' \/ (ent'[w].status = "cancelled" /\ "status" \in cols'[w])
  <2>1. got[w] = "charged_back" \/ (w = i /\ l = "idle")
    BY <1>3, GoEffect
  <2>2. CASE w = i /\ l = "idle"
    BY <1>3, <2>2 DEF Go, TypeOK
  <2>3. CASE w # i /\ got[w] = "charged_back"
    BY <1>2, <2>3, ChargeStays DEF ChargeInv, Procs
  <2>4. CASE w = i /\ got[w] = "charged_back"
    BY <2>4, GoEffect, ChargeStays DEF ChargeInv
  <2>5. QED
    BY <2>1, <2>2, <2>3, <2>4
<1>4. QED
  BY <1>1, <1>3 DEF ChargeInv

\* Every step keeps ChargeInv, unless a body has named the mark.
LEMMA ChargeKept ==
  /\ TypeOK /\ RestInv /\ WasInv /\ ChargeInv /\ "marked" \notin named' /\ [Next]_vars
  => ChargeInv'
<1> SUFFICES ASSUME TypeOK, RestInv, WasInv, ChargeInv, "marked" \notin named', [Next]_vars
             PROVE  ChargeInv'
  OBVIOUS
<1>a. Marked(order) => Ended' /\ ChargedBack'
  BY ChargeStays DEF ChargeInv
<1>b. \A i \in Procs : Marked(ent[i]) => Ended' /\ ChargedBack'
  BY ChargeStays DEF ChargeInv
<1>c. ~Marked(Placed)
  BY DEF Placed, Marked
<1> USE DEF Procs
<1>1. ASSUME NEW q \in Payments, Pay(q) PROVE ChargeInv'
  <2>1. UNCHANGED <<order, was, ent, got, pc, cols>>
    BY <1>1 DEF Pay, row
  <2>2. QED
    BY <2>1, ChargeStays DEF ChargeInv
<1>2. ASSUME NEW i \in Procs, NEW from, NEW to, NEW next, Select(i, from, to, next),
             to \in {"update", "feeupdate"},
             i \in Webhooks => \/ from = "select" /\ to = "update" /\ next = "after"
                               \/ next = "idle" /\ to = "feeupdate"
      PROVE  ChargeInv'
  <2> DEFINE differ == IF there THEN {f \in Column : ent[i][f] # order[f]}
                       ELSE Column \cup {"row"}
             e == Merge(differ, ent[i], Placed)
             l == IF differ = {} THEN next ELSE to
  <2>1. /\ pc[i] = from /\ Go(i, l) /\ UNCHANGED row
        /\ cols' = [cols EXCEPT ![i] = differ]
        /\ ent' = [ent EXCEPT ![i] = e]
    BY <1>2 DEF Select
  <2>2. Marked(e) => Ended' /\ ChargedBack'
    BY <1>b, <1>c, MarkedMerge
  <2>3. CASE i \in Webhooks /\ from = "select" /\ to = "update" /\ next = "after"
    <3>1. ASSUME got[i] = "charged_back"
          PROVE  Ended' \/ (e.status = "cancelled" /\ "status" \in differ)
      <4>1. ent[i].status = "cancelled"
        BY <2>1, <2>3, <3>1 DEF ChargeInv
      <4>2. CASE "status" \in differ
        BY <4>1, <4>2 DEF Merge
      <4>3. CASE "status" \notin differ
        <5>1. there /\ order.status = "cancelled"
          BY <4>1, <4>3 DEF Column
        <5>2. QED
          BY <2>1, <5>1 DEF WasInv, Ended, row
      <4>4. QED
        BY <4>2, <4>3
    <3>2. differ = {} => "status" \notin differ
      OBVIOUS
    <3>3. ent'[i] = e /\ cols'[i] = differ
      BY <2>1 DEF TypeOK
    <3> HIDE DEF differ, e
    <3>4. l \in {"after", "update"} /\ (l = "after" => "status" \notin differ)
      BY <2>3, <3>2
    <3>5. UNCHANGED order
      BY <2>1 DEF row
    <3> HIDE DEF l
    <3>6. QED
      BY <1>a, <2>1, <2>2, <3>1, <3>3, <3>4, <3>5, ChargeStep
  <2>4. CASE \/ i \notin Webhooks
             \/ next = "idle" /\ to = "feeupdate"
    <3>1. i \notin Webhooks \/ l \notin {"after", "mark", "select", "update"}
      BY <2>4
    <3> HIDE DEF differ, e, l
    <3>2. QED
      BY <1>a, <2>1, <2>2, <3>1, ChargeStep DEF row
  <2>5. QED
    BY <1>2, <2>3, <2>4
<1>3. ASSUME NEW i \in Procs, NEW from, NEW next, Update(i, from, next),
             i \in Webhooks => \/ from = "update" /\ next = "after"
                               \/ next = "idle"
      PROVE  ChargeInv'
  <2> DEFINE new == Merge(cols[i], ent[i], order)
             l == IF there /\ "row" \in cols[i] THEN "idle" ELSE next
  <2>1. /\ pc[i] = from /\ Go(i, l)
        /\ cols' = [cols EXCEPT ![i] = {}]
        /\ ent' = [ent EXCEPT ![i] = Placed]
        /\ \/ order' = new /\ was' = was \cup {new.status}
           \/ UNCHANGED row /\ there = ("row" \in cols[i])
    BY <1>3 DEF Update, Drop, TypeOK
  <2>2. Marked(order') => Ended' /\ ChargedBack'
    <3>1. Marked(new) => Ended' /\ ChargedBack'
      BY <1>a, <1>b, MarkedMerge
    <3>2. QED
      BY <1>a, <2>1, <3>1 DEF row
  <2>3. i \in Webhooks /\ got[i] = "charged_back" /\ l = "after" => Ended'
    <3> SUFFICES ASSUME i \in Webhooks, got[i] = "charged_back", l = "after" PROVE Ended'
      OBVIOUS
    <3>1. from = "update" /\ ~(there /\ "row" \in cols[i])
      BY <1>3
    <3>2. Ended \/ (ent[i].status = "cancelled" /\ "status" \in cols[i])
      BY <2>1, <3>1 DEF ChargeInv
    <3>3. CASE Ended
      BY <3>3, ChargeStays
    <3>4. CASE order' = new /\ was' = was \cup {new.status} /\ ent[i].status = "cancelled" /\ "status" \in cols[i]
      BY <3>4 DEF Merge, Ended
    <3>5. CASE UNCHANGED row /\ ~there
      BY <3>5 DEF WasInv, Ended, row
    <3>6. QED
      BY <2>1, <3>1, <3>2, <3>3, <3>4, <3>5
  <2>4. i \notin Webhooks \/ l \in {"after", "idle"}
    BY <1>3
  <2> HIDE DEF l, new
  <2>5. QED
    BY <1>c, <2>1, <2>2, <2>3, <2>4, ChargeStep
<1>4. ASSUME NEW w \in Webhooks, WebhookStep(w) PROVE ChargeInv'
  <2>1. CASE GetPaymentInfo(w)
    <3>1. /\ UNCHANGED <<order, was, mp, ent, cols>>
          /\ pc' = [pc EXCEPT ![w] = "load"]
          /\ \A v \in Webhooks : got'[v] = "charged_back" => got[v] = "charged_back" \/ ChargedBack
      BY <2>1 DEF GetPaymentInfo, row, TypeOK, ChargedBack
    <3>2. QED
      BY <2>1, <3>1 DEF GetPaymentInfo, ChargeInv, TypeOK, Ended, ChargedBack
  <2>2. CASE UpdateOrderStatus(w)
    <3>1. CASE UNCHANGED ent /\ Go(w, "idle")
      BY <1>a, <2>2, <3>1, ChargeStep DEF UpdateOrderStatus, row
    <3>2. ASSUME NEW l \in Rest(w), Go(w, l), UNCHANGED ent,
                 order.status = Target(got[w]) \/ (order.status = "confirmed" /\ Target(got[w]) = "pending")
          PROVE  ChargeInv'
      <4>1. got[w] = "charged_back" => order.status = "cancelled"
        BY <3>2 DEF Target
      <4>2. got[w] = "charged_back" => Ended'
        BY <4>1, ChargeStays DEF WasInv, Ended
      <4>3. l \in {"mark", "idle", "feeload"}
        BY RestType
      <4>4. QED
        BY <1>a, <2>2, <3>2, <4>2, <4>3, ChargeStep DEF UpdateOrderStatus, row
    <3>3. ASSUME ent' = [ent EXCEPT ![w] = [order EXCEPT !.status = Target(got[w])]],
                 Go(w, "select")
          PROVE  ChargeInv'
      <4>1. Marked([order EXCEPT !.status = Target(got[w])]) => Ended' /\ ChargedBack'
        BY <1>a, MarkedAfter
      <4>2. got[w] = "charged_back" => ent'[w].status = "cancelled"
        BY <3>3 DEF TypeOK, Row, Target
      <4>3. QED
        BY <1>a, <2>2, <3>3, <4>1, <4>2, ChargeStep DEF UpdateOrderStatus, row
    <3>4. QED
      BY <2>2, <3>1, <3>2, <3>3 DEF UpdateOrderStatus
  <2>3. CASE Reread(w)
    <3>1. got[w] = "charged_back" => Ended'
      BY <2>3, ChargeStays DEF Reread, ChargeInv
    <3>2. PICK l \in {"mark", "idle", "feeload"} : Go(w, l)
      BY <2>3, RestType DEF Reread
    <3>3. QED
      BY <1>a, <2>3, <3>1, <3>2, ChargeStep DEF Reread, row
  <2>4. CASE MarkChargebackProcessed(w)
    <3>1. Ended' /\ ChargedBack'
      BY <2>4, ChargeStays DEF MarkChargebackProcessed, RestInv, ChargeInv
    <3>2. QED
      BY <2>4, <3>1, ChargeStep DEF MarkChargebackProcessed
  <2>5. CASE UpdateOrderPaymentFees(w)
    <3>1. Marked([order EXCEPT !.paid = got[w]]) => Ended' /\ ChargedBack'
      BY <1>a, MarkedAfter
    <3>2. QED
      BY <1>a, <2>5, <3>1, ChargeStep DEF UpdateOrderPaymentFees, row
  <2>6. QED
    BY <1>2, <1>3, <1>4, <2>1, <2>2, <2>3, <2>4, <2>5 DEF WebhookStep
<1>5. ASSUME NEW r \in Sellers, UpdateOrderFulfillmentStatus(r) PROVE ChargeInv'
  <2>1. PICK s : ent' = [ent EXCEPT ![r] = [order EXCEPT !.status = s]]
    BY <1>5 DEF UpdateOrderFulfillmentStatus
  <2>2. Marked([order EXCEPT !.status = s]) => Ended' /\ ChargedBack'
    BY <1>a, MarkedAfter
  <2>3. QED
    BY <1>5, <1>a, <2>1, <2>2, ProcsAssumption, ChargeStep DEF UpdateOrderFulfillmentStatus, row
<1>6. ASSUME NEW e \in Editors, EditOrder(e) PROVE ChargeInv'
  <2>1. PICK a : /\ ent' = [ent EXCEPT ![e] = a]
                 /\ \A f \in Column : f \notin named' => a[f] = order[f]
    BY <1>6, EditedEntity
  <2>2. Marked(a) => Marked(order)
    BY <2>1 DEF Column, Marked
  <2>3. QED
    BY <1>6, <1>a, <2>1, <2>2, ProcsAssumption, ChargeStep DEF EditOrder, row
<1>7. ASSUME NEW i \in Procs, Fail(i) PROVE ChargeInv'
  BY <1>7, <1>a, <1>c, ChargeStep DEF Fail, Drop, row
<1>8. CASE Delete
  BY <1>8, <1>c, ChargeStays DEF Delete, ChargeInv
<1>9. CASE UNCHANGED vars
  BY <1>9 DEF vars, ChargeInv, Ended, ChargedBack
<1>10. ASSUME NEW i \in Sellers \cup Editors, SaveStep(i) PROVE ChargeInv'
  BY <1>2, <1>3, <1>10, ProcsAssumption DEF SaveStep
<1> QED
  BY <1>1, <1>4, <1>5, <1>6, <1>7, <1>8, <1>9, <1>10 DEF Next

\* An order marked for a chargeback has a payment that was charged back, and has
\* been cancelled or deleted, unless the body of an edit has named the mark.
THEOREM ChargebackEnds == Spec => []ChargebackCancels
<1> DEFINE Inv == WasInv /\ ("marked" \in named \/ ChargeInv)
<1>1. Init => Inv
  BY DEF Init, ChargeInv, WasInv, Placed, Marked, Procs
<1>2. TypeOK /\ Inv => ChargebackCancels
  <2>1. order \in Row /\ order.marked => Marked(order)
    BY DEF Row, Marked
  <2>2. QED
    BY <2>1 DEF TypeOK, ChargeInv, ChargebackCancels, Ended, ChargedBack
<1>3. TypeOK /\ RestInv /\ Inv /\ [Next]_vars => Inv'
  <2>1. [Next]_vars => ("marked" \in named => ("marked" \in named)')
    BY NamedStays
  <2>2. QED
    BY <2>1, WasKept, ChargeKept
<1>4. QED
  BY <1>1, <1>2, <1>3, Typed, PTL DEF Spec

-----------------------------------------------------------------------------
(* One request at a time: what a handler is about to write is what it may   *)
(* still write, since nobody else has changed the order's status since.     *)

Asked(s, t) == t = s \/ <<s, t>> \in ValidTransitions
Freed(r) == r \in Editors /\ "status" \in named

AskedInv ==
    /\ \A r \in Sellers \cup Editors : there /\ ~Freed(r) =>
         /\ pc[r] = "select" => Asked(order.status, ent[r].status)
         /\ pc[r] = "update" /\ "status" \in cols[r] =>
              <<order.status, ent[r].status>> \in ValidTransitions
    /\ \A w \in Webhooks : there =>
         /\ pc[w] = "feeselect" => ent[w].status = order.status
         /\ pc[w] = "feeupdate" => "status" \notin cols[w]

\* A step that leaves the status and what others have loaded, and brings nobody to
\* these labels.
LEMMA AskedFrame ==
  ASSUME TypeOK, AskedInv, order'.status = order.status, there' => there,
         UNCHANGED <<named, ent, cols>>,
         \A i \in Procs : pc'[i] \in {"select", "update", "feeselect", "feeupdate"} => pc'[i] = pc[i]
  PROVE  AskedInv'
  BY DEF AskedInv, Asked, Freed, Procs

\* The SELECT finds the status to be written only where it is another.
LEMMA AskedSelect ==
  ASSUME TypeOK, AskedInv, NEW i \in Procs,
         \/ i \in Webhooks /\ (\/ Select(i, "select", "update", "after")
                              \/ Select(i, "feeselect", "feeupdate", "idle"))
         \/ i \in Sellers \cup Editors /\ Select(i, "select", "update", "idle")
  PROVE  AskedInv'
<1> USE ProcsAssumption DEF Procs
<1>1. /\ there => ("status" \in cols'[i] <=> ent[i].status # order.status)
      /\ "status" \in cols'[i] => ent'[i].status = ent[i].status
      /\ \A j \in Procs \ {i} : ent'[j] = ent[j] /\ cols'[j] = cols[j] /\ pc'[j] = pc[j]
      /\ UNCHANGED <<there, order, named>>
  BY DEF Select, TypeOK, Merge, Column, row, Go
<1>2. /\ pc'[i] \in {"select", "feeselect"} => FALSE
      /\ pc'[i] = "update" => pc[i] = "select"
      /\ pc'[i] = "feeupdate" => pc[i] = "feeselect"
  BY DEF Select, TypeOK, Go
<1>3. \A r \in Sellers \cup Editors : there' /\ ~Freed(r)' =>
         /\ pc'[r] = "select" => Asked(order'.status, ent'[r].status)
         /\ pc'[r] = "update" /\ "status" \in cols'[r] =>
              <<order'.status, ent'[r].status>> \in ValidTransitions
  BY <1>1, <1>2 DEF AskedInv, Asked, Freed
<1>4. \A w \in Webhooks : there' =>
         /\ pc'[w] = "feeselect" => ent'[w].status = order'.status
         /\ pc'[w] = "feeupdate" => "status" \notin cols'[w]
  BY <1>1, <1>2 DEF AskedInv
<1> QED
  BY <1>3, <1>4 DEF AskedInv

\* Who writes is the only one between load and write, and is so no longer.
LEMMA AskedUpdate ==
  ASSUME TypeOK, AskedInv, OneAtATime, NEW i \in Procs,
         \/ Update(i, "update", "after") \/ Update(i, "update", "idle")
         \/ Update(i, "feeupdate", "idle")
  PROVE  AskedInv'
<1>1. \A j \in Procs : pc'[j] \notin {"select", "update", "feeselect", "feeupdate"}
  <2>1. pc[i] \in {"update", "feeupdate"} /\ pc'[i] \in {"after", "idle"}
        /\ \A j \in Procs \ {i} : pc'[j] = pc[j]
    BY DEF Update, Go, TypeOK
  <2> QED
    BY <2>1 DEF OneAtATime
<1> QED
  BY <1>1 DEF AskedInv, Procs

\* A handler that has loaded the order has its status, or the one asked for.
LEMMA AskedLoad ==
  ASSUME TypeOK, AskedInv, NEW i \in Procs, NEW l \in {"select", "feeselect"}, NEW e \in Row,
         Go(i, l), ent' = [ent EXCEPT ![i] = e], UNCHANGED <<row, cols>>,
         named \subseteq named',
         IF l = "select" THEN i \in Webhooks \/ Freed(i)' \/ Asked(order.status, e.status)
                         ELSE i \in Webhooks /\ e.status = order.status
  PROVE  AskedInv'
<1> USE ProcsAssumption DEF Procs
<1>1. /\ ent'[i] = e /\ pc'[i] = l /\ UNCHANGED <<there, order>>
      /\ \A j \in Procs \ {i} : ent'[j] = ent[j] /\ cols'[j] = cols[j] /\ pc'[j] = pc[j]
  BY DEF TypeOK, Go, row
<1> QED
  BY <1>1 DEF AskedInv, Asked, Freed

\* Every step keeps AskedInv.
LEMMA AskedKept == TypeOK /\ AskedInv /\ OneAtATime /\ [Next]_vars => AskedInv'
<1> SUFFICES ASSUME TypeOK, AskedInv, OneAtATime, [Next]_vars PROVE AskedInv'
  OBVIOUS
<1> USE DEF Procs, row
<1>t. order \in Row
  BY DEF TypeOK
\* A handler moves on to a label that is no part of a save.
<1>g. ASSUME NEW i \in Procs, NEW l, l \notin {"select", "update", "feeselect", "feeupdate"},
             Go(i, l), order'.status = order.status, there' = there,
             UNCHANGED <<named, ent, cols>>
      PROVE  AskedInv'
  BY <1>g, GoEffect, AskedFrame
<1>1. ASSUME NEW q \in Payments, Pay(q) PROVE AskedInv'
  BY <1>1, AskedFrame DEF Pay
<1>2. ASSUME NEW w \in Webhooks, WebhookStep(w) PROVE AskedInv'
  <2>1. CASE GetPaymentInfo(w)
    BY <2>1, AskedFrame DEF GetPaymentInfo, TypeOK
  <2>2. CASE UpdateOrderStatus(w)
    <3>1. CASE UNCHANGED ent /\ \E l \in {"mark", "idle", "feeload"} : Go(w, l)
      BY <1>g, <2>2, <3>1 DEF UpdateOrderStatus
    <3>2. CASE /\ ent' = [ent EXCEPT ![w] = [order EXCEPT !.status = Target(got[w])]]
               /\ Go(w, "select")
      <4> DEFINE e == [order EXCEPT !.status = Target(got[w])]
      <4>1. ent' = [ent EXCEPT ![w] = e] /\ Go(w, "select") /\ UNCHANGED <<row, cols, named>>
        BY <2>2, <3>2 DEF UpdateOrderStatus
      <4>2. e \in Row
        BY <1>t, TargetType DEF Row
      <4> HIDE DEF e
      <4> QED
        BY <4>1, <4>2, AskedLoad
    <3> QED
      BY <2>2, <3>1, <3>2, RestType DEF UpdateOrderStatus
  <2>3. CASE Select(w, "select", "update", "after") \/ Select(w, "feeselect", "feeupdate", "idle")
    BY <2>3, AskedSelect
  <2>4. CASE Update(w, "update", "after") \/ Update(w, "feeupdate", "idle")
    BY <2>4, AskedUpdate
  <2>5. CASE Reread(w)
    BY <1>g, <2>5, RestType DEF Reread
  <2>6. CASE MarkChargebackProcessed(w)
    <3>1. order'.status = order.status
      BY <1>t, <2>6 DEF MarkChargebackProcessed, Row
    <3> QED
      BY <1>g, <2>6, <3>1 DEF MarkChargebackProcessed
  <2>7. CASE UpdateOrderPaymentFees(w)
    <3>1. CASE there
      <4> DEFINE e == [order EXCEPT !.paid = got[w]]
      <4>1. ent' = [ent EXCEPT ![w] = e] /\ Go(w, "feeselect") /\ UNCHANGED <<row, cols, named>>
        BY <2>7, <3>1 DEF UpdateOrderPaymentFees
      <4>2. e.status = order.status
        BY <1>t DEF Row
      <4>3. \A j \in Procs \ {w} : ent'[j] = ent[j] /\ cols'[j] = cols[j] /\ pc'[j] = pc[j]
        BY <4>1, GoEffect DEF TypeOK
      <4>4. ent'[w] = e /\ pc'[w] = "feeselect" /\ UNCHANGED <<there, order, named>>
        BY <4>1, GoEffect DEF TypeOK
      <4> HIDE DEF e
      <4> QED
        BY <4>2, <4>3, <4>4, ProcsAssumption DEF AskedInv, Freed
    <3>2. CASE ~there
      BY <1>g, <2>7, <3>2 DEF UpdateOrderPaymentFees
    <3> QED
      BY <3>1, <3>2
  <2> QED
    BY <1>2, <2>1, <2>2, <2>3, <2>4, <2>5, <2>6, <2>7 DEF WebhookStep
<1>3. ASSUME NEW r \in Sellers, UpdateOrderFulfillmentStatus(r) PROVE AskedInv'
  <2>1. PICK s \in Following(order.status) : ent' = [ent EXCEPT ![r] = [order EXCEPT !.status = s]]
    BY <1>3 DEF UpdateOrderFulfillmentStatus
  <2> DEFINE e == [order EXCEPT !.status = s]
  <2>2. e \in Row /\ Asked(order.status, e.status)
    BY <1>t DEF Row, Following, Asked
  <2>3. Go(r, "select") /\ UNCHANGED <<row, cols, named>> /\ ent' = [ent EXCEPT ![r] = e]
    BY <1>3, <2>1 DEF UpdateOrderFulfillmentStatus
  <2> HIDE DEF e
  <2> QED
    BY <2>2, <2>3, AskedLoad
<1>4. ASSUME NEW e \in Editors, EditOrder(e) PROVE AskedInv'
  <2>1. PICK a : /\ ent' = [ent EXCEPT ![e] = a] /\ a \in Row
                 /\ \A f \in Column : f \notin named' => a[f] = order[f]
    BY <1>4, EditedEntity
  <2>2. Freed(e)' \/ Asked(order.status, a.status)
    BY <2>1 DEF Freed, Asked, Column
  <2>3. named \subseteq named' /\ Go(e, "select") /\ UNCHANGED <<row, cols>>
    BY <1>4 DEF EditOrder
  <2>4. QED
    BY <2>1, <2>2, <2>3, AskedLoad
<1>5. ASSUME NEW i \in Sellers \cup Editors, SaveStep(i) PROVE AskedInv'
  BY <1>5, AskedSelect, AskedUpdate DEF SaveStep
<1>6. ASSUME NEW i \in Procs, Fail(i) PROVE AskedInv'
  <2>1. /\ pc'[i] = "idle" /\ UNCHANGED <<there, order, named>>
        /\ \A j \in Procs \ {i} : ent'[j] = ent[j] /\ cols'[j] = cols[j] /\ pc'[j] = pc[j]
    BY <1>6, GoEffect DEF Fail, Drop, TypeOK
  <2> QED
    BY <2>1 DEF AskedInv, Freed
<1>7. CASE Delete
  BY <1>7 DEF Delete, AskedInv
<1>8. CASE UNCHANGED vars
  BY <1>8, AskedFrame DEF vars
<1> QED
  BY <1>1, <1>2, <1>3, <1>4, <1>5, <1>6, <1>7, <1>8 DEF Next

\* OnlyTransitions holds of every behaviour in which requests on the order do not
\* overlap: a seller's update makes a valid transition, and neither the save of the
\* fees nor an edit changes the status, an edit unless a body has named it; so that
\* what has been shipped goes back only by a late or repeated notification, or by
\* such an edit.
THEOREM TransitionsValid == Spec /\ []OneAtATime => OnlyTransitions
<1> DEFINE A == there /\ there' /\ order'.status # order.status =>
                  \/ <<order.status, order'.status>> \in ValidTransitions
                  \/ \E w \in Webhooks : pc[w] = "update" /\ pc'[w] # "update"
                  \/ "status" \in named /\ \E e \in Editors : pc[e] = "update" /\ pc'[e] # "update"
<1>1. TypeOK /\ AskedInv /\ [Next]_vars => [A]_vars
  <2> SUFFICES ASSUME TypeOK, AskedInv, Next PROVE A
    OBVIOUS
  <2> USE DEF Procs, row
  <2>t. order \in Row
    BY DEF TypeOK
  <2>1. ASSUME NEW i \in Procs, NEW from, NEW next, Update(i, from, next), there, there',
               order'.status # order.status
        PROVE  "status" \in cols[i] /\ order'.status = ent[i].status /\ pc[i] = from
    <3>1. order' = Merge(cols[i], ent[i], order) /\ pc[i] = from
      BY <2>1 DEF Update
    <3>2. order'.status = IF "status" \in cols[i] THEN ent[i].status ELSE order.status
      BY <3>1 DEF Merge
    <3> QED
      BY <2>1, <3>1, <3>2
  <2>2. ASSUME order' = order \/ ~there' \/ order'.status = order.status PROVE A
    BY <2>2
  <2>3. ASSUME NEW w \in Webhooks, WebhookStep(w) PROVE A
    <3>1. CASE Update(w, "update", "after")
      <4>1. pc[w] = "update" /\ pc'[w] # "update"
        BY <3>1 DEF Update, Go, TypeOK
      <4> QED
        BY <4>1
    <3>2. CASE Update(w, "feeupdate", "idle")
      BY <2>1, <3>2 DEF AskedInv
    <3>3. CASE MarkChargebackProcessed(w)
      BY <2>t, <3>3 DEF MarkChargebackProcessed, Row
    <3>4. CASE \/ GetPaymentInfo(w) \/ UpdateOrderStatus(w) \/ Reread(w) \/ UpdateOrderPaymentFees(w)
               \/ Select(w, "select", "update", "after") \/ Select(w, "feeselect", "feeupdate", "idle")
      BY <3>4 DEF GetPaymentInfo, UpdateOrderStatus, Reread, UpdateOrderPaymentFees, Select
    <3> QED
      BY <2>3, <3>1, <3>2, <3>3, <3>4 DEF WebhookStep
  <2>4. ASSUME NEW i \in Sellers \cup Editors, SaveStep(i) PROVE A
    <3>1. CASE Select(i, "select", "update", "idle")
      BY <3>1 DEF Select
    <3>2. CASE Update(i, "update", "idle")
      <4>1. pc[i] = "update" /\ pc'[i] # "update"
        BY <3>2 DEF Update, Go, TypeOK
      <4>2. CASE Freed(i)
        BY <4>1, <4>2 DEF Freed
      <4>3. CASE ~Freed(i)
        BY <2>1, <3>2, <4>3 DEF AskedInv
      <4> QED
        BY <4>2, <4>3
    <3> QED
      BY <2>4, <3>1, <3>2 DEF SaveStep
  <2>5. CASE \/ \E q \in Payments : Pay(q)
             \/ \E r \in Sellers : UpdateOrderFulfillmentStatus(r)
             \/ \E e \in Editors : EditOrder(e)
             \/ \E i \in Procs : Fail(i)
             \/ Delete
    BY <2>5 DEF Pay, UpdateOrderFulfillmentStatus, EditOrder, Fail, Delete
  <2> QED
    BY <2>3, <2>4, <2>5 DEF Next
<1> HIDE DEF A
<1>2. Init => AskedInv
  BY DEF Init, AskedInv, Procs
<1>3. Spec /\ []OneAtATime => [][A]_vars
  BY <1>1, <1>2, Typed, AskedKept, PTL DEF Spec
<1> QED
  BY <1>3 DEF A, OnlyTransitions
=============================================================================
