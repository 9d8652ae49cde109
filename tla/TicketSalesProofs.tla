------------------------- MODULE TicketSalesProofs -------------------------
(***************************************************************************)
(* Proofs about TicketSales, for any number of purchases, requests,        *)
(* deliveries, sweeps and edits.                                           *)
(***************************************************************************)
EXTENDS TicketSales, FiniteSetTheorems, TLAPS

\* The parts of TypeOK that the steps change together: the tables' rows ...
RowsTyped ==
    /\ status \in [Purchases -> PurchaseStatus]
    /\ batch \in [Completers -> [of : Purchases \cup {NoOne}, linked : BOOLEAN,
                                 status : TicketStatus]]
    /\ rowLock \in [Purchases -> Hooks \cup {NoOne}]
    /\ fate \in [Purchases -> Fate]
\* ... the handlers' entities and lists ...
LocalsTyped ==
    /\ act \in [Hooks -> WebhookAction]
    /\ tix \in [Completers \cup Hooks -> SUBSET Completers]
    /\ upd \in [Completers \cup Hooks -> BOOLEAN]
    /\ relink \in [Completers \cup Hooks -> SUBSET Completers]
    /\ hit \in [Hooks -> SUBSET Completers]
    /\ ent \in [Hooks \cup Edits -> [total : Nat, sold : Nat]]
    /\ cols \in [Hooks \cup Edits -> SUBSET {"total", "sold"}]
    /\ due \in [Sweeps -> SUBSET Purchases]
\* ... where the handlers are ...
ControlTyped == pc \in [Procs -> Label] /\ buy \in [Procs -> Purchases \cup {NoOne}]
\* ... and the ticket_types row.
StockTyped == stock \in [total : Nat, sold : Nat]
\* A handler past its first step knows its purchase.
BuyKnown ==
    \A i \in Procs \ Edits :
      i \in Buyers \/ pc[i] \notin {"idle", "done"} => buy[i] \in Purchases

\* The inductive invariant of the stock's safety: with every variable in its range
\* and every handler's purchase known, each of the four writers of the
\* ticket_types row keeps it within its CHECK.
StockInv == TypeOK /\ BuyKnown /\ StockWithinCapacity

\* A counter lowered by releasing a reservation is a natural number, not above
\* the counter.
LEMMA LessNat ==
    ASSUME NEW n \in Nat, NEW q \in Nat
    PROVE  Less(n, q) \in Nat /\ Less(n, q) <= n
BY DEF Less

\* What save(ticketType) writes is a row of the table's type.
LEMMA UpdatedTypeTyped ==
    ASSUME TypeOK, NEW i \in Hooks \cup Edits
    PROVE  UpdatedType(i) \in [total : Nat, sold : Nat]
BY DEF TypeOK, UpdatedType

\* The initial row, and every other initial value, is in range.
LEMMA InitStock == Init => StockInv
<1> SUFFICES ASSUME Init PROVE StockInv
    OBVIOUS
<1> USE DEF Init
<1>1. stock \in [total : Nat, sold : Nat] /\ StockWithinCapacity
    BY QuantityAssumption DEF StockWithinCapacity
<1>2. status \in [Purchases -> PurchaseStatus] /\ fate \in [Purchases -> Fate]
    BY DEF PurchaseStatus, Fate
<1>3. batch \in [Completers -> [of : Purchases \cup {NoOne}, linked : BOOLEAN,
                                status : TicketStatus]]
    BY DEF NoBatch, TicketStatus
<1>4. rowLock \in [Purchases -> Hooks \cup {NoOne}]
    OBVIOUS
<1>5. pc \in [Procs -> Label]
    BY DEF Label
<1>6. buy \in [Procs -> Purchases \cup {NoOne}]
    BY DEF Buyers
<1>7. act \in [Hooks -> WebhookAction]
    BY DEF WebhookAction
<1>8. /\ tix \in [Completers \cup Hooks -> SUBSET Completers]
      /\ upd \in [Completers \cup Hooks -> BOOLEAN]
      /\ relink \in [Completers \cup Hooks -> SUBSET Completers]
      /\ hit \in [Hooks -> SUBSET Completers]
    OBVIOUS
<1>9. /\ ent \in [Hooks \cup Edits -> [total : Nat, sold : Nat]]
      /\ cols \in [Hooks \cup Edits -> SUBSET {"total", "sold"}]
      /\ due \in [Sweeps -> SUBSET Purchases]
    OBVIOUS
<1>10. BuyKnown
    BY DEF BuyKnown, Buyers
<1> QED
    BY <1>1, <1>2, <1>3, <1>4, <1>5, <1>6, <1>7, <1>8, <1>9, <1>10 DEF StockInv, TypeOK

\* The relation part of save(purchase) keeps the tickets' rows in their range.
LEMMA RelinkedTyped ==
    ASSUME TypeOK, NEW i \in Completers \cup Hooks
    PROVE  Relinked(i) \in [Completers -> [of : Purchases \cup {NoOne}, linked : BOOLEAN,
                                           status : TicketStatus]]
<1> DEFINE Batch == [of : Purchases \cup {NoOne}, linked : BOOLEAN, status : TicketStatus]
<1>1. ASSUME NEW j \in Completers
      PROVE  [batch[j] EXCEPT !.linked = IsLinked(i, j)] \in Batch
  <2>1. batch[j] \in Batch
      BY DEF TypeOK
  <2>2. IsLinked(i, j) \in BOOLEAN
      BY DEF IsLinked
  <2> HIDE DEF Batch
  <2> QED
      BY <2>1, <2>2 DEF Batch
<1> QED
    BY <1>1 DEF Relinked

\* So does its SELECT with the entity's difference from the row.
LEMMA SelectPurchaseTyped ==
    ASSUME TypeOK, NEW i \in Completers \cup Hooks, NEW s, SelectPurchase(i, s)
    PROVE  /\ upd' \in [Completers \cup Hooks -> BOOLEAN]
           /\ relink' \in [Completers \cup Hooks -> SUBSET Completers]
BY DEF TypeOK, SelectPurchase, Linked, Issued

\* The parts are the whole.
LEMMA Parts == TypeOK <=> StockTyped /\ RowsTyped /\ ControlTyped /\ LocalsTyped
BY DEF TypeOK, StockTyped, RowsTyped, ControlTyped, LocalsTyped

\* Which processes there are of each kind, from the assumptions on CONSTANTS.
LEMMA Kinds ==
    /\ Buyers \subseteq Procs /\ Hooks \subseteq Procs /\ Calls \subseteq Procs
    /\ Confirms \subseteq Procs /\ Sweeps \subseteq Procs /\ Edits \subseteq Procs
    /\ Completers \subseteq Procs
BY RowsAssumption DEF Procs, Completers

\* A process that moves on with its purchase unchanged keeps the control state in
\* range.
LEMMA Moves ==
    ASSUME ControlTyped, BuyKnown, NEW i \in Procs, NEW l \in Label, Go(i, l), UNCHANGED buy,
           i \in Buyers \cup Edits \/ pc[i] \notin {"idle", "done"} \/ l = "done"
    PROVE  ControlTyped' /\ BuyKnown'
BY DEF ControlTyped, BuyKnown, Go

\* So does one that has just been told its purchase.
LEMMA Learns ==
    ASSUME ControlTyped, BuyKnown, NEW i \in Procs, NEW l \in Label, Go(i, l),
           NEW p \in Purchases, buy' = [buy EXCEPT ![i] = p]
    PROVE  ControlTyped' /\ BuyKnown'
BY DEF ControlTyped, BuyKnown, Go

\* One step per action of the system.
LEMMA StepStock == StockInv /\ [Next]_vars => StockInv'
<1> SUFFICES ASSUME StockInv, [Next]_vars PROVE StockInv'
    OBVIOUS
<1> USE Kinds DEF db, entity, typeEntity
<1>0. /\ StockTyped /\ RowsTyped /\ ControlTyped /\ LocalsTyped
      /\ TypeOK /\ BuyKnown /\ StockWithinCapacity
    BY Parts DEF StockInv
<1>a. ASSUME StockTyped', RowsTyped', ControlTyped', LocalsTyped', BuyKnown', StockWithinCapacity'
      PROVE  StockInv'
    BY <1>a DEF StockInv, TypeOK, StockTyped, RowsTyped, ControlTyped, LocalsTyped
<1>1. ASSUME NEW b \in Buyers, Request(b)
      PROVE  StockInv'
  <2>1. StockTyped' /\ StockWithinCapacity'
      BY <1>1, <1>0 DEF Request, StockTyped, StockWithinCapacity
  <2>2. RowsTyped'
      BY <1>1, <1>0 DEF Request, RowsTyped
  <2>3. LocalsTyped'
      BY <1>1, <1>0 DEF Request, LocalsTyped
  <2>4. ControlTyped' /\ BuyKnown'
    <3>1. PICK l \in Label : Go(b, l)
        BY <1>1 DEF Request, Label
    <3>2. UNCHANGED buy /\ (b \in Buyers \cup Edits \/ pc[b] \notin {"idle", "done"})
        BY <1>1 DEF Request
    <3> QED
        BY <1>0, <3>1, <3>2, Moves
  <2> QED
      BY <1>a, <2>1, <2>2, <2>3, <2>4
<1>2. ASSUME NEW b \in Buyers, CreatePendingPurchase(b)
      PROVE  StockInv'
  <2>1. StockTyped' /\ StockWithinCapacity'
    <3>1. Qty[b] \in Nat
        BY QuantityAssumption DEF Buyers
    <3>2. UNCHANGED stock \/ (stock.sold + Qty[b] <= stock.total
                              /\ stock' = [stock EXCEPT !.sold = @ + Qty[b]])
      <4>1. StockTyped
          BY <1>0
      <4> QED
          BY <1>2, <3>1, <4>1 DEF CreatePendingPurchase, StockTyped
    <3> QED
        BY <1>0, <3>1, <3>2 DEF StockTyped, StockWithinCapacity
  <2>2. RowsTyped'
    <3>1. UNCHANGED status \/ status' = [status EXCEPT ![b] = "PENDING"]
        BY <1>2 DEF CreatePendingPurchase
    <3> QED
        BY <1>2, <1>0, <3>1 DEF CreatePendingPurchase, RowsTyped, PurchaseStatus
  <2>3. LocalsTyped'
      BY <1>2, <1>0 DEF CreatePendingPurchase, LocalsTyped
  <2>4. ControlTyped' /\ BuyKnown'
    <3>1. PICK l \in Label : Go(b, l)
        BY <1>2 DEF CreatePendingPurchase, Label
    <3>2. UNCHANGED buy /\ (b \in Buyers \cup Edits \/ pc[b] \notin {"idle", "done"})
        BY <1>2 DEF CreatePendingPurchase
    <3> QED
        BY <1>0, <3>1, <3>2, Moves
  <2> QED
      BY <1>a, <2>1, <2>2, <2>3, <2>4
<1>3. ASSUME NEW b \in Buyers, CreatePreference(b)
      PROVE  StockInv'
  <2>1. StockTyped' /\ StockWithinCapacity'
      BY <1>3, <1>0 DEF CreatePreference, StockTyped, StockWithinCapacity
  <2>2. RowsTyped'
      BY <1>3, <1>0 DEF CreatePreference, RowsTyped
  <2>3. LocalsTyped'
      BY <1>3, <1>0 DEF CreatePreference, LocalsTyped
  <2>4. ControlTyped' /\ BuyKnown'
    <3>1. PICK l \in Label : Go(b, l)
        BY <1>3 DEF CreatePreference, Label
    <3>2. UNCHANGED buy /\ (b \in Buyers \cup Edits \/ pc[b] \notin {"idle", "done"})
        BY <1>3 DEF CreatePreference
    <3> QED
        BY <1>0, <3>1, <3>2, Moves
  <2> QED
      BY <1>a, <2>1, <2>2, <2>3, <2>4
<1>4. ASSUME NEW b \in Buyers, Answer(b)
      PROVE  StockInv'
  <2>1. StockTyped' /\ StockWithinCapacity'
      BY <1>4, <1>0 DEF Answer, StockTyped, StockWithinCapacity
  <2>2. RowsTyped'
      BY <1>4, <1>0 DEF Answer, RowsTyped, PurchaseStatus, Fate
  <2>3. LocalsTyped'
      BY <1>4, <1>0 DEF Answer, LocalsTyped
  <2>4. ControlTyped' /\ BuyKnown'
    <3>1. PICK l \in Label : Go(b, l)
        BY <1>4 DEF Answer, Label
    <3>2. UNCHANGED buy /\ (b \in Buyers \cup Edits \/ pc[b] \notin {"idle", "done"})
        BY <1>4 DEF Answer
    <3> QED
        BY <1>0, <3>1, <3>2, Moves
  <2> QED
      BY <1>a, <2>1, <2>2, <2>3, <2>4
<1>5. ASSUME NEW p \in Purchases, Settle(p)
      PROVE  StockInv'
  <2>1. StockTyped' /\ StockWithinCapacity'
      BY <1>5, <1>0 DEF Settle, StockTyped, StockWithinCapacity
  <2>2. RowsTyped'
      BY <1>5, <1>0 DEF Settle, RowsTyped, Fate
  <2>3. LocalsTyped'
      BY <1>5, <1>0 DEF Settle, LocalsTyped
  <2>4. ControlTyped' /\ BuyKnown'
      BY <1>5, <1>0 DEF Settle, ControlTyped, BuyKnown
  <2> QED
      BY <1>a, <2>1, <2>2, <2>3, <2>4
<1>6. ASSUME NEW c \in Confirms, NEW p \in Purchases, ConfirmTicketPayment(c, p)
      PROVE  StockInv'
  <2>1. StockTyped' /\ StockWithinCapacity'
      BY <1>6, <1>0 DEF ConfirmTicketPayment, StockTyped, StockWithinCapacity
  <2>2. RowsTyped'
      BY <1>6, <1>0 DEF ConfirmTicketPayment, RowsTyped
  <2>3. LocalsTyped'
      BY <1>6, <1>0 DEF ConfirmTicketPayment, LocalsTyped
  <2>4. ControlTyped' /\ BuyKnown'
    <3>1. PICK l \in Label : Go(c, l)
        BY <1>6 DEF ConfirmTicketPayment, Label
    <3> QED
        BY <1>6, <1>0, <3>1, Learns DEF ConfirmTicketPayment
  <2> QED
      BY <1>a, <2>1, <2>2, <2>3, <2>4
<1>7. ASSUME NEW c \in Completers, CompleteLoad(c)
      PROVE  StockInv'
  <2>1. StockTyped' /\ StockWithinCapacity'
      BY <1>7, <1>0 DEF CompleteLoad, StockTyped, StockWithinCapacity
  <2>2. RowsTyped'
      BY <1>7, <1>0 DEF CompleteLoad, RowsTyped
  <2>3. LocalsTyped'
      BY <1>7, <1>0 DEF CompleteLoad, LocalsTyped, Linked, Issued
  <2>4. ControlTyped' /\ BuyKnown'
    <3>1. PICK l \in Label : Go(c, l)
        BY <1>7 DEF CompleteLoad, Label
    <3>2. UNCHANGED buy /\ (c \in Buyers \cup Edits \/ pc[c] \notin {"idle", "done"})
        BY <1>7 DEF CompleteLoad
    <3> QED
        BY <1>0, <3>1, <3>2, Moves
  <2> QED
      BY <1>a, <2>1, <2>2, <2>3, <2>4
<1>8. ASSUME NEW c \in Completers, CompleteSelect(c)
      PROVE  StockInv'
  <2>1. StockTyped' /\ StockWithinCapacity'
      BY <1>8, <1>0 DEF CompleteSelect, StockTyped, StockWithinCapacity
  <2>2. RowsTyped'
      BY <1>8, <1>0 DEF CompleteSelect, RowsTyped
  <2>3. LocalsTyped'
      BY <1>8, <1>0, SelectPurchaseTyped DEF CompleteSelect, LocalsTyped
  <2>4. ControlTyped' /\ BuyKnown'
    <3>1. PICK l \in Label : Go(c, l)
        BY <1>8 DEF CompleteSelect, Label
    <3>2. UNCHANGED buy /\ (c \in Buyers \cup Edits \/ pc[c] \notin {"idle", "done"})
        BY <1>8 DEF CompleteSelect
    <3> QED
        BY <1>0, <3>1, <3>2, Moves
  <2> QED
      BY <1>a, <2>1, <2>2, <2>3, <2>4
<1>9. ASSUME NEW c \in Completers, CompleteIssue(c)
      PROVE  StockInv'
  <2>1. StockTyped' /\ StockWithinCapacity'
      BY <1>9, <1>0 DEF CompleteIssue, StockTyped, StockWithinCapacity
  <2>2. RowsTyped'
    <3>1. CASE UNCHANGED <<status, batch>>
        BY <1>9, <1>0, <3>1 DEF CompleteIssue, RowsTyped
    <3>2. CASE ~ UNCHANGED <<status, batch>>
      <4>1. /\ status' = [status EXCEPT ![buy[c]] = IF upd[c] THEN "COMPLETED" ELSE @]
            /\ batch' = [Relinked(c) EXCEPT
                           ![c] = [of |-> buy[c], linked |-> TRUE, status |-> "ACTIVE"]]
            /\ UNCHANGED <<rowLock, fate>>
          BY <1>9, <3>2 DEF CompleteIssue
      <4>2. buy[c] \in Purchases \cup {NoOne}
          BY <1>0 DEF ControlTyped
      <4>3. status' \in [Purchases -> PurchaseStatus]
          BY <1>0, <4>1 DEF RowsTyped, PurchaseStatus
      <4> QED
          BY <1>0, <4>1, <4>2, <4>3, RelinkedTyped DEF RowsTyped, TicketStatus
    <3> QED
        BY <3>1, <3>2
  <2>3. LocalsTyped'
      BY <1>9, <1>0 DEF CompleteIssue, LocalsTyped
  <2>4. ControlTyped' /\ BuyKnown'
    <3>1. PICK l \in Label : Go(c, l)
        BY <1>9 DEF CompleteIssue, Label
    <3>2. UNCHANGED buy /\ (c \in Buyers \cup Edits \/ pc[c] \notin {"idle", "done"})
        BY <1>9 DEF CompleteIssue
    <3> QED
        BY <1>0, <3>1, <3>2, Moves
  <2> QED
      BY <1>a, <2>1, <2>2, <2>3, <2>4
<1>10. ASSUME NEW h \in Hooks, NEW p \in Purchases, NEW a \in Actions, ProcessOrderAction(h, p, a)
      PROVE  StockInv'
  <2>1. StockTyped' /\ StockWithinCapacity'
      BY <1>10, <1>0 DEF ProcessOrderAction, StockTyped, StockWithinCapacity
  <2>2. RowsTyped'
      BY <1>10, <1>0 DEF ProcessOrderAction, RowsTyped
  <2>3. LocalsTyped'
      BY <1>10, <1>0, RowsAssumption DEF ProcessOrderAction, LocalsTyped, Linked, Issued
  <2>4. ControlTyped' /\ BuyKnown'
    <3>1. PICK l \in Label : Go(h, l)
        BY <1>10 DEF ProcessOrderAction, Label
    <3> QED
        BY <1>10, <1>0, <3>1, Learns DEF ProcessOrderAction
  <2> QED
      BY <1>a, <2>1, <2>2, <2>3, <2>4
<1>11. ASSUME NEW h \in Hooks, HookSelect(h)
      PROVE  StockInv'
  <2>1. StockTyped' /\ StockWithinCapacity'
      BY <1>11, <1>0 DEF HookSelect, StockTyped, StockWithinCapacity
  <2>2. RowsTyped'
      BY <1>11, <1>0 DEF HookSelect, RowsTyped
  <2>3. LocalsTyped'
      BY <1>11, <1>0, SelectPurchaseTyped DEF HookSelect, LocalsTyped
  <2>4. ControlTyped' /\ BuyKnown'
    <3>1. PICK l \in Label : Go(h, l)
        BY <1>11 DEF HookSelect, Label
    <3>2. UNCHANGED buy /\ (h \in Buyers \cup Edits \/ pc[h] \notin {"idle", "done"})
        BY <1>11 DEF HookSelect
    <3> QED
        BY <1>0, <3>1, <3>2, Moves
  <2> QED
      BY <1>a, <2>1, <2>2, <2>3, <2>4
<1>12. ASSUME NEW h \in Hooks, HookUpdate(h)
      PROVE  StockInv'
  <2>1. StockTyped' /\ StockWithinCapacity'
      BY <1>12, <1>0 DEF HookUpdate, StockTyped, StockWithinCapacity
  <2>2. RowsTyped'
    <3>1. UNCHANGED rowLock \/ rowLock' = [rowLock EXCEPT ![buy[h]] = IF upd[h] THEN h ELSE @]
        BY <1>12 DEF HookUpdate
    <3> QED
        BY <1>12, <1>0, <3>1 DEF HookUpdate, RowsTyped
  <2>3. LocalsTyped'
      BY <1>12, <1>0 DEF HookUpdate, LocalsTyped
  <2>4. ControlTyped' /\ BuyKnown'
    <3>1. buy[h] \in Purchases /\ Call[h] \in Procs
        BY <1>12, <1>0, ProcsAssumption DEF HookUpdate, BuyKnown
    <3>2. CASE UNCHANGED buy
      <4>1. PICK l \in Label : Go(h, l) \/ pc' = [pc EXCEPT ![h] = "await", ![Call[h]] = "load"]
          BY <1>12 DEF HookUpdate, Label
      <4>2. pc[h] \notin {"idle", "done"}
          BY <1>12 DEF HookUpdate
      <4>3. CASE Go(h, l)
          BY <1>0, <3>2, <4>2, <4>3, Moves
      <4>4. CASE ~ Go(h, l)
        <5>1. pc' = [pc EXCEPT ![h] = "await", ![Call[h]] = "load"]
            BY <4>1, <4>4
        <5>2. buy' = [buy EXCEPT ![Call[h]] = buy[h]]
            BY <1>12, <3>2, <4>4, <4>1 DEF HookUpdate, Go, Label
        <5> QED
            BY <1>0, <3>1, <3>2, <4>2, <5>1, <5>2 DEF ControlTyped, BuyKnown, Label
      <4> QED
          BY <4>3, <4>4
    <3>3. CASE ~ UNCHANGED buy
      <4>1. /\ pc' = [pc EXCEPT ![h] = "await", ![Call[h]] = "load"]
            /\ buy' = [buy EXCEPT ![Call[h]] = buy[h]]
            /\ pc[h] = "update"
          BY <1>12, <3>3 DEF HookUpdate
      <4> QED
          BY <1>0, <3>1, <4>1 DEF ControlTyped, BuyKnown, Label
    <3> QED
        BY <3>2, <3>3
  <2> QED
      BY <1>a, <2>1, <2>2, <2>3, <2>4
<1>13. ASSUME NEW h \in Hooks, HookResume(h)
      PROVE  StockInv'
  <2>1. StockTyped' /\ StockWithinCapacity'
      BY <1>13, <1>0 DEF HookResume, StockTyped, StockWithinCapacity
  <2>2. RowsTyped'
      BY <1>13, <1>0 DEF HookResume, RowsTyped, Unlocked
  <2>3. LocalsTyped'
      BY <1>13, <1>0 DEF HookResume, LocalsTyped
  <2>4. ControlTyped' /\ BuyKnown'
    <3>1. PICK l \in Label : Go(h, l)
        BY <1>13 DEF HookResume, Label
    <3>2. UNCHANGED buy /\ (h \in Buyers \cup Edits \/ pc[h] \notin {"idle", "done"})
        BY <1>13 DEF HookResume
    <3> QED
        BY <1>0, <3>1, <3>2, Moves
  <2> QED
      BY <1>a, <2>1, <2>2, <2>3, <2>4
<1>14. ASSUME NEW h \in Hooks, HookMark(h)
      PROVE  StockInv'
  <2>1. StockTyped' /\ StockWithinCapacity'
      BY <1>14, <1>0 DEF HookMark, StockTyped, StockWithinCapacity
  <2>2. RowsTyped'
      BY <1>14, <1>0 DEF HookMark, RowsTyped, Unlocked
  <2>3. LocalsTyped'
      BY <1>14, <1>0 DEF HookMark, Reached, LocalsTyped, Issued
  <2>4. ControlTyped' /\ BuyKnown'
    <3>1. PICK l \in Label : Go(h, l)
        BY <1>14 DEF HookMark, Label
    <3>2. UNCHANGED buy /\ (h \in Buyers \cup Edits \/ pc[h] \notin {"idle", "done"})
        BY <1>14 DEF HookMark
    <3> QED
        BY <1>0, <3>1, <3>2, Moves
  <2> QED
      BY <1>a, <2>1, <2>2, <2>3, <2>4
<1>15. ASSUME NEW h \in Hooks, ReleaseRead(h)
      PROVE  StockInv'
  <2>1. StockTyped' /\ StockWithinCapacity'
      BY <1>15, <1>0 DEF ReleaseRead, StockTyped, StockWithinCapacity
  <2>2. RowsTyped'
      BY <1>15, <1>0 DEF ReleaseRead, RowsTyped
  <2>3. LocalsTyped'
    <3>1. stock.sold \in Nat /\ stock.total \in Nat /\ Qty[buy[h]] \in Nat
        BY <1>15, <1>0, QuantityAssumption, ProcsAssumption DEF ReleaseRead, StockTyped, BuyKnown
    <3>2. Less(stock.sold, Qty[buy[h]]) \in Nat
        BY <3>1, LessNat
    <3> QED
        BY <1>15, <1>0, <3>1, <3>2 DEF ReleaseRead, LocalsTyped
  <2>4. ControlTyped' /\ BuyKnown'
    <3>1. PICK l \in Label : Go(h, l)
        BY <1>15 DEF ReleaseRead, Label
    <3>2. UNCHANGED buy /\ (h \in Buyers \cup Edits \/ pc[h] \notin {"idle", "done"})
        BY <1>15 DEF ReleaseRead
    <3> QED
        BY <1>0, <3>1, <3>2, Moves
  <2> QED
      BY <1>a, <2>1, <2>2, <2>3, <2>4
<1>16. ASSUME NEW h \in Hooks, ReleaseSelect(h)
      PROVE  StockInv'
  <2>1. StockTyped' /\ StockWithinCapacity'
      BY <1>16, <1>0 DEF ReleaseSelect, StockTyped, StockWithinCapacity
  <2>2. RowsTyped'
      BY <1>16, <1>0 DEF ReleaseSelect, RowsTyped
  <2>3. LocalsTyped'
      BY <1>16, <1>0 DEF ReleaseSelect, SelectType, LocalsTyped
  <2>4. ControlTyped' /\ BuyKnown'
    <3>1. PICK l \in Label : Go(h, l)
        BY <1>16 DEF ReleaseSelect, Label
    <3>2. UNCHANGED buy /\ (h \in Buyers \cup Edits \/ pc[h] \notin {"idle", "done"})
        BY <1>16 DEF ReleaseSelect
    <3> QED
        BY <1>0, <3>1, <3>2, Moves
  <2> QED
      BY <1>a, <2>1, <2>2, <2>3, <2>4
<1>17. ASSUME NEW h \in Hooks, HookCommit(h)
      PROVE  StockInv'
  <2>1. StockTyped' /\ StockWithinCapacity'
    <3>1. UNCHANGED stock \/ (stock' = UpdatedType(h) /\ WithinCheck(UpdatedType(h)))
        BY <1>17 DEF HookCommit
    <3>2. UpdatedType(h) \in [total : Nat, sold : Nat]
        BY <1>0, UpdatedTypeTyped
    <3> QED
        BY <1>0, <3>1, <3>2 DEF WithinCheck, StockTyped, StockWithinCapacity
  <2>2. RowsTyped'
    <3>1. rowLock' \in [Purchases -> Hooks \cup {NoOne}] /\ fate' \in [Purchases -> Fate]
        BY <1>17, <1>0 DEF HookCommit, Unlocked, RowsTyped
    <3>2. CASE UNCHANGED <<status, batch>>
        BY <1>0, <3>1, <3>2 DEF RowsTyped
    <3>3. CASE ~ UNCHANGED <<status, batch>>
      <4>1. /\ status' = [status EXCEPT ![buy[h]] = IF upd[h] THEN Target(act[h]) ELSE @]
            /\ batch' = [i \in Completers |->
                           IF i \in hit[h]
                           THEN [Relinked(h)[i] EXCEPT !.status = TicketTarget(act[h])]
                           ELSE Relinked(h)[i]]
          BY <1>17, <3>3 DEF HookCommit
      <4>2. Target(act[h]) \in PurchaseStatus /\ TicketTarget(act[h]) \in TicketStatus
          BY DEF Target, TicketTarget, PurchaseStatus, TicketStatus
      <4>3. status' \in [Purchases -> PurchaseStatus]
          BY <1>0, <4>1, <4>2 DEF RowsTyped
      <4> DEFINE Batch == [of : Purchases \cup {NoOne}, linked : BOOLEAN, status : TicketStatus]
      <4>4. \A b \in Batch : [b EXCEPT !.status = TicketTarget(act[h])] \in Batch
          BY <4>2
      <4>5. Relinked(h) \in [Completers -> Batch]
          BY <1>0, RelinkedTyped
      <4> HIDE DEF Batch
      <4>6. batch' \in [Completers -> Batch]
          BY <4>1, <4>4, <4>5
      <4> QED
          BY <3>1, <4>3, <4>6 DEF RowsTyped, Batch
    <3> QED
        BY <3>2, <3>3
  <2>3. LocalsTyped'
      BY <1>17, <1>0 DEF HookCommit, LocalsTyped
  <2>4. ControlTyped' /\ BuyKnown'
    <3>1. PICK l \in Label : Go(h, l)
        BY <1>17 DEF HookCommit, Label
    <3>2. UNCHANGED buy /\ (h \in Buyers \cup Edits \/ pc[h] \notin {"idle", "done"})
        BY <1>17 DEF HookCommit
    <3> QED
        BY <1>0, <3>1, <3>2, Moves
  <2> QED
      BY <1>a, <2>1, <2>2, <2>3, <2>4
<1>18. ASSUME NEW s \in Sweeps, SweepList(s)
      PROVE  StockInv'
  <2>1. StockTyped' /\ StockWithinCapacity'
      BY <1>18, <1>0 DEF SweepList, StockTyped, StockWithinCapacity
  <2>2. RowsTyped'
      BY <1>18, <1>0 DEF SweepList, RowsTyped
  <2>3. LocalsTyped'
    <3>1. PICK list \in SUBSET Expirable : due' = [due EXCEPT ![s] = list]
        BY <1>18 DEF SweepList
    <3> QED
        BY <1>18, <1>0, <3>1 DEF SweepList, LocalsTyped, Expirable
  <2>4. ControlTyped' /\ BuyKnown'
    <3>1. CASE UNCHANGED buy /\ Go(s, "done")
        BY <1>0, <3>1, Moves DEF Label
    <3>2. CASE \E p \in Purchases : Go(s, "release") /\ buy' = [buy EXCEPT ![s] = p]
        BY <1>0, <3>2, Learns DEF Label
    <3> QED
        BY <1>18, <3>1, <3>2 DEF SweepList, Expirable
  <2> QED
      BY <1>a, <2>1, <2>2, <2>3, <2>4
<1>19. ASSUME NEW s \in Sweeps, SweepRelease(s)
      PROVE  StockInv'
  <2>1. StockTyped' /\ StockWithinCapacity'
    <3>1. stock.sold \in Nat /\ Qty[buy[s]] \in Nat
        BY <1>19, <1>0, QuantityAssumption, ProcsAssumption DEF SweepRelease, StockTyped, BuyKnown
    <3>2. Less(stock.sold, Qty[buy[s]]) \in Nat /\ Less(stock.sold, Qty[buy[s]]) <= stock.sold
        BY <3>1, LessNat
    <3>3. UNCHANGED stock \/ stock' = [stock EXCEPT !.sold = Less(@, Qty[buy[s]])]
        BY <1>19 DEF SweepRelease
    <3> QED
        BY <1>0, <3>2, <3>3 DEF StockTyped, StockWithinCapacity
  <2>2. RowsTyped'
      BY <1>19, <1>0 DEF SweepRelease, RowsTyped, PurchaseStatus
  <2>3. LocalsTyped'
      BY <1>19, <1>0 DEF SweepRelease, LocalsTyped
  <2>4. ControlTyped' /\ BuyKnown'
    <3>1. buy[s] \in Purchases /\ due[s] \subseteq Purchases /\ pc[s] = "release"
        BY <1>19, <1>0, ProcsAssumption DEF SweepRelease, BuyKnown, LocalsTyped
    <3>2. CASE UNCHANGED buy /\ Go(s, "done")
        BY <1>0, <3>2, Moves DEF Label
    <3>3. CASE \E q \in Purchases : UNCHANGED pc /\ buy' = [buy EXCEPT ![s] = q]
        BY <1>0, <3>3 DEF ControlTyped, BuyKnown
    <3> QED
        BY <1>19, <3>1, <3>2, <3>3 DEF SweepRelease
  <2> QED
      BY <1>a, <2>1, <2>2, <2>3, <2>4
<1>20. ASSUME NEW e \in Edits, EditLoad(e)
      PROVE  StockInv'
  <2>1. StockTyped' /\ StockWithinCapacity'
      BY <1>20, <1>0 DEF EditLoad, StockTyped, StockWithinCapacity
  <2>2. RowsTyped'
      BY <1>20, <1>0 DEF EditLoad, RowsTyped
  <2>3. LocalsTyped'
    <3>1. PICK n \in NewTotals \cup {stock.total} :
                ent' = [ent EXCEPT ![e] = [total |-> n, sold |-> stock.sold]]
        BY <1>20 DEF EditLoad
    <3> QED
        BY <1>20, <1>0, <3>1, QuantityAssumption DEF EditLoad, LocalsTyped, StockTyped
  <2>4. ControlTyped' /\ BuyKnown'
    <3>1. PICK l \in Label : Go(e, l)
        BY <1>20 DEF EditLoad, Label
    <3>2. UNCHANGED buy /\ (e \in Buyers \cup Edits \/ pc[e] \notin {"idle", "done"})
        BY <1>20 DEF EditLoad
    <3> QED
        BY <1>0, <3>1, <3>2, Moves
  <2> QED
      BY <1>a, <2>1, <2>2, <2>3, <2>4
<1>21. ASSUME NEW e \in Edits, EditSelect(e)
      PROVE  StockInv'
  <2>1. StockTyped' /\ StockWithinCapacity'
      BY <1>21, <1>0 DEF EditSelect, StockTyped, StockWithinCapacity
  <2>2. RowsTyped'
      BY <1>21, <1>0 DEF EditSelect, RowsTyped
  <2>3. LocalsTyped'
      BY <1>21, <1>0 DEF EditSelect, SelectType, LocalsTyped
  <2>4. ControlTyped' /\ BuyKnown'
    <3>1. PICK l \in Label : Go(e, l)
        BY <1>21 DEF EditSelect, Label
    <3>2. UNCHANGED buy /\ (e \in Buyers \cup Edits \/ pc[e] \notin {"idle", "done"})
        BY <1>21 DEF EditSelect
    <3> QED
        BY <1>0, <3>1, <3>2, Moves
  <2> QED
      BY <1>a, <2>1, <2>2, <2>3, <2>4
<1>22. ASSUME NEW e \in Edits, EditWrite(e)
      PROVE  StockInv'
  <2>1. StockTyped' /\ StockWithinCapacity'
    <3>1. UNCHANGED stock \/ (stock' = UpdatedType(e) /\ WithinCheck(UpdatedType(e)))
        BY <1>22 DEF EditWrite
    <3>2. UpdatedType(e) \in [total : Nat, sold : Nat]
        BY <1>0, UpdatedTypeTyped
    <3> QED
        BY <1>0, <3>1, <3>2 DEF WithinCheck, StockTyped, StockWithinCapacity
  <2>2. RowsTyped'
      BY <1>22, <1>0 DEF EditWrite, RowsTyped
  <2>3. LocalsTyped'
      BY <1>22, <1>0 DEF EditWrite, LocalsTyped
  <2>4. ControlTyped' /\ BuyKnown'
    <3>1. PICK l \in Label : Go(e, l)
        BY <1>22 DEF EditWrite, Label
    <3>2. UNCHANGED buy /\ (e \in Buyers \cup Edits \/ pc[e] \notin {"idle", "done"})
        BY <1>22 DEF EditWrite
    <3> QED
        BY <1>0, <3>1, <3>2, Moves
  <2> QED
      BY <1>a, <2>1, <2>2, <2>3, <2>4
<1>23. CASE Crash
    BY <1>23, <1>0 DEF Crash, Finished, StockInv, TypeOK, BuyKnown, StockWithinCapacity, Label
<1>24. CASE UNCHANGED vars
    BY <1>24, <1>0 DEF vars, StockInv, TypeOK, BuyKnown, StockWithinCapacity
<1> QED
    BY <1>1, <1>2, <1>3, <1>4, <1>5, <1>6, <1>7, <1>8, <1>9, <1>10, <1>11, <1>12,
       <1>13, <1>14, <1>15, <1>16, <1>17, <1>18, <1>19, <1>20, <1>21, <1>22, <1>23, <1>24
    DEF Next, BuyerStep, CompleteStep, HookStep, EditStep

\* TypeOK always holds: every variable of the sale stays in its range.
THEOREM TypeCorrect == Spec => []TypeOK
<1>1. StockInv => TypeOK
    BY DEF StockInv
<1> QED
    BY <1>1, InitStock, StepStock, PTL DEF Spec

-----------------------------------------------------------------------------
(* The purchase's row lock.                                                *)

\* A step that leaves every delivery where it is keeps RowLockHeld.
LEMMA LockFrame ==
    ASSUME TypeOK, RowLockHeld, UNCHANGED rowLock,
           \A h \in Hooks : UNCHANGED <<upd[h], buy[h], pc[h]>>
    PROVE  RowLockHeld'
BY DEF TypeOK, RowLockHeld

\* A delivery that goes on without taking or giving up a lock keeps it too.
LEMMA LockKept ==
    ASSUME TypeOK, RowLockHeld, UNCHANGED rowLock, NEW h \in Hooks,
           UNCHANGED <<upd[h], buy[h]>>,
           pc[h] \in InTransaction, pc'[h] \in InTransaction,
           \A g \in Hooks \ {h} : UNCHANGED <<upd[g], buy[g], pc[g]>>
    PROVE  RowLockHeld'
<1>t. rowLock \in [Purchases -> Hooks \cup {NoOne}] /\ NoOne \notin Hooks
    BY RowsAssumption DEF TypeOK, Procs
<1>1. ASSUME NEW p \in Purchases, rowLock'[p] # NoOne
      PROVE  upd'[rowLock'[p]] /\ buy'[rowLock'[p]] = p /\ pc'[rowLock'[p]] \in InTransaction
  <2>1. rowLock'[p] = rowLock[p] /\ rowLock[p] \in Hooks
      BY <1>t, <1>1
  <2>2. upd[rowLock[p]] /\ buy[rowLock[p]] = p /\ pc[rowLock[p]] \in InTransaction
      BY <2>1, <1>1 DEF RowLockHeld
  <2>3. CASE rowLock[p] = h
      BY <2>1, <2>2, <2>3
  <2>4. CASE rowLock[p] # h
      BY <2>1, <2>2, <2>4
  <2> QED
      BY <2>3, <2>4
<1>2. ASSUME NEW g \in Hooks, upd'[g], pc'[g] \in InTransaction
      PROVE  rowLock'[buy'[g]] = g
  <2>1. CASE g = h
      BY <1>2, <2>1 DEF RowLockHeld
  <2>2. CASE g # h
      BY <1>2, <2>2 DEF RowLockHeld
  <2> QED
      BY <2>1, <2>2
<1> QED
    BY <1>1, <1>2 DEF RowLockHeld

\* One that is outside its transaction before and after holds none.
LEMMA LockOutside ==
    ASSUME TypeOK, RowLockHeld, UNCHANGED rowLock, NEW h \in Hooks,
           pc[h] \notin InTransaction, pc'[h] \notin InTransaction,
           \A g \in Hooks \ {h} : UNCHANGED <<upd[g], buy[g], pc[g]>>
    PROVE  RowLockHeld'
<1>t. rowLock \in [Purchases -> Hooks \cup {NoOne}] /\ NoOne \notin Hooks
    BY RowsAssumption DEF TypeOK, Procs
<1>1. ASSUME NEW p \in Purchases, rowLock'[p] # NoOne
      PROVE  upd'[rowLock'[p]] /\ buy'[rowLock'[p]] = p /\ pc'[rowLock'[p]] \in InTransaction
  <2>1. rowLock'[p] = rowLock[p] /\ rowLock[p] \in Hooks
      BY <1>t, <1>1
  <2>2. upd[rowLock[p]] /\ buy[rowLock[p]] = p /\ pc[rowLock[p]] \in InTransaction
      BY <2>1, <1>1 DEF RowLockHeld
  <2>3. CASE rowLock[p] = h
      BY <2>1, <2>2, <2>3
  <2>4. CASE rowLock[p] # h
      BY <2>1, <2>2, <2>4
  <2> QED
      BY <2>3, <2>4
<1>2. ASSUME NEW g \in Hooks, upd'[g], pc'[g] \in InTransaction
      PROVE  rowLock'[buy'[g]] = g
  <2>1. CASE g = h
      BY <1>2, <2>1 DEF RowLockHeld
  <2>2. CASE g # h
      BY <1>2, <2>2 DEF RowLockHeld
  <2> QED
      BY <2>1, <2>2
<1> QED
    BY <1>1, <1>2 DEF RowLockHeld

\* COMMIT and ROLLBACK give the lock up.
LEMMA LockReleased ==
    ASSUME TypeOK, BuyKnown, RowLockHeld, NEW h \in Hooks, rowLock' = Unlocked(h),
           UNCHANGED <<upd, buy>>, pc'[h] \notin InTransaction,
           \A g \in Hooks \ {h} : UNCHANGED pc[g]
    PROVE  RowLockHeld'
<1>t. rowLock \in [Purchases -> Hooks \cup {NoOne}] /\ NoOne \notin Hooks
    BY RowsAssumption DEF TypeOK, Procs
<1>1. ASSUME NEW p \in Purchases, rowLock'[p] # NoOne
      PROVE  upd'[rowLock'[p]] /\ buy'[rowLock'[p]] = p /\ pc'[rowLock'[p]] \in InTransaction
  <2>1. rowLock'[p] = rowLock[p] /\ rowLock[p] \in Hooks /\ rowLock[p] # h
      BY <1>t, <1>1 DEF Unlocked
  <2>2. upd[rowLock[p]] /\ buy[rowLock[p]] = p /\ pc[rowLock[p]] \in InTransaction
      BY <2>1, <1>1 DEF RowLockHeld
  <2>3. CASE rowLock[p] = h
      BY <2>1, <2>2, <2>3
  <2>4. CASE rowLock[p] # h
      BY <2>1, <2>2, <2>4
  <2> QED
      BY <2>3, <2>4
<1>2. ASSUME NEW g \in Hooks, upd'[g], pc'[g] \in InTransaction
      PROVE  rowLock'[buy'[g]] = g
  <2>1. g # h /\ upd[g] /\ pc[g] \in InTransaction /\ buy'[g] = buy[g]
      BY <1>2
  <2>2. rowLock[buy[g]] = g
      BY <2>1 DEF RowLockHeld
  <2>3. buy[g] \in Purchases
      BY <2>1, ProcsAssumption DEF BuyKnown, InTransaction, Procs
  <2> QED
      BY <2>1, <2>2, <2>3 DEF Unlocked
<1> QED
    BY <1>1, <1>2 DEF RowLockHeld

\* At the start no row is locked.
LEMMA LockInit == Init => RowLockHeld
BY RowsAssumption DEF Init, RowLockHeld, InTransaction, Procs

\* One step per action again.
LEMMA LockStep == StockInv /\ RowLockHeld /\ [Next]_vars => RowLockHeld'
<1> SUFFICES ASSUME StockInv, RowLockHeld, [Next]_vars PROVE RowLockHeld'
    OBVIOUS
<1> USE DEF db, entity, typeEntity, Go
<1>0. TypeOK /\ BuyKnown
    BY DEF StockInv
<1>t. /\ pc \in [Procs -> Label] /\ buy \in [Procs -> Purchases \cup {NoOne}]
      /\ upd \in [Completers \cup Hooks -> BOOLEAN] /\ rowLock \in [Purchases -> Hooks \cup {NoOne}]
    BY <1>0 DEF TypeOK
<1>d. /\ Hooks \subseteq Procs /\ Calls \subseteq Procs /\ Hooks \cap Calls = {}
      /\ Hooks \cap Buyers = {} /\ Hooks \cap Completers = {}
      /\ Hooks \cap Confirms = {} /\ Hooks \cap Sweeps = {} /\ Hooks \cap Edits = {}
    BY ProcsAssumption, RowsAssumption DEF Procs, Completers
<1>1. ASSUME NEW b \in Buyers, Request(b)
      PROVE  RowLockHeld'
  <2>1. \A h \in Hooks : UNCHANGED <<upd[h], buy[h], pc[h]>>
      BY <1>1, <1>t, <1>d DEF Request
  <2> QED
      BY <1>1, <1>0, <2>1, LockFrame DEF Request
<1>2. ASSUME NEW b \in Buyers, CreatePendingPurchase(b)
      PROVE  RowLockHeld'
  <2>1. \A h \in Hooks : UNCHANGED <<upd[h], buy[h], pc[h]>>
      BY <1>2, <1>t, <1>d DEF CreatePendingPurchase
  <2> QED
      BY <1>2, <1>0, <2>1, LockFrame DEF CreatePendingPurchase
<1>3. ASSUME NEW b \in Buyers, CreatePreference(b)
      PROVE  RowLockHeld'
  <2>1. \A h \in Hooks : UNCHANGED <<upd[h], buy[h], pc[h]>>
      BY <1>3, <1>t, <1>d DEF CreatePreference
  <2> QED
      BY <1>3, <1>0, <2>1, LockFrame DEF CreatePreference
<1>4. ASSUME NEW b \in Buyers, Answer(b)
      PROVE  RowLockHeld'
  <2>1. \A h \in Hooks : UNCHANGED <<upd[h], buy[h], pc[h]>>
      BY <1>4, <1>t, <1>d DEF Answer
  <2> QED
      BY <1>4, <1>0, <2>1, LockFrame DEF Answer
<1>5. ASSUME NEW p \in Purchases, Settle(p)
      PROVE  RowLockHeld'
  <2>1. \A h \in Hooks : UNCHANGED <<upd[h], buy[h], pc[h]>>
      BY <1>5, <1>t, <1>d DEF Settle
  <2> QED
      BY <1>5, <1>0, <2>1, LockFrame DEF Settle
<1>6. ASSUME NEW c \in Confirms, NEW p \in Purchases, ConfirmTicketPayment(c, p)
      PROVE  RowLockHeld'
  <2>1. \A h \in Hooks : UNCHANGED <<upd[h], buy[h], pc[h]>>
      BY <1>6, <1>t, <1>d DEF ConfirmTicketPayment
  <2> QED
      BY <1>6, <1>0, <2>1, LockFrame DEF ConfirmTicketPayment
<1>7. ASSUME NEW c \in Completers, CompleteLoad(c)
      PROVE  RowLockHeld'
  <2>1. \A h \in Hooks : UNCHANGED <<upd[h], buy[h], pc[h]>>
      BY <1>7, <1>t, <1>d DEF CompleteLoad
  <2> QED
      BY <1>7, <1>0, <2>1, LockFrame DEF CompleteLoad
<1>8. ASSUME NEW c \in Completers, CompleteSelect(c)
      PROVE  RowLockHeld'
  <2>1. \A h \in Hooks : UNCHANGED <<upd[h], buy[h], pc[h]>>
      BY <1>8, <1>t, <1>d DEF CompleteSelect, SelectPurchase
  <2> QED
      BY <1>8, <1>0, <2>1, LockFrame DEF CompleteSelect
<1>9. ASSUME NEW c \in Completers, CompleteIssue(c)
      PROVE  RowLockHeld'
  <2>1. \A h \in Hooks : UNCHANGED <<upd[h], buy[h], pc[h]>>
      BY <1>9, <1>t, <1>d DEF CompleteIssue
  <2> QED
      BY <1>9, <1>0, <2>1, LockFrame DEF CompleteIssue
<1>10. ASSUME NEW s \in Sweeps, SweepList(s)
      PROVE  RowLockHeld'
  <2>1. \A h \in Hooks : UNCHANGED <<upd[h], buy[h], pc[h]>>
      BY <1>10, <1>t, <1>d DEF SweepList
  <2> QED
      BY <1>10, <1>0, <2>1, LockFrame DEF SweepList
<1>11. ASSUME NEW s \in Sweeps, SweepRelease(s)
      PROVE  RowLockHeld'
  <2>1. \A h \in Hooks : UNCHANGED <<upd[h], buy[h], pc[h]>>
      BY <1>11, <1>t, <1>d DEF SweepRelease
  <2> QED
      BY <1>11, <1>0, <2>1, LockFrame DEF SweepRelease
<1>12. ASSUME NEW e \in Edits, EditLoad(e)
      PROVE  RowLockHeld'
  <2>1. \A h \in Hooks : UNCHANGED <<upd[h], buy[h], pc[h]>>
      BY <1>12, <1>t, <1>d DEF EditLoad
  <2> QED
      BY <1>12, <1>0, <2>1, LockFrame DEF EditLoad
<1>13. ASSUME NEW e \in Edits, EditSelect(e)
      PROVE  RowLockHeld'
  <2>1. \A h \in Hooks : UNCHANGED <<upd[h], buy[h], pc[h]>>
      BY <1>13, <1>t, <1>d DEF EditSelect
  <2> QED
      BY <1>13, <1>0, <2>1, LockFrame DEF EditSelect
<1>14. ASSUME NEW e \in Edits, EditWrite(e)
      PROVE  RowLockHeld'
  <2>1. \A h \in Hooks : UNCHANGED <<upd[h], buy[h], pc[h]>>
      BY <1>14, <1>t, <1>d DEF EditWrite
  <2> QED
      BY <1>14, <1>0, <2>1, LockFrame DEF EditWrite
<1>15. ASSUME NEW h \in Hooks, NEW p \in Purchases, NEW a \in Actions, ProcessOrderAction(h, p, a)
      PROVE  RowLockHeld'
    BY <1>15, <1>0, <1>t, <1>d, LockOutside DEF ProcessOrderAction, InTransaction
<1>16. ASSUME NEW h \in Hooks, HookSelect(h)
      PROVE  RowLockHeld'
    BY <1>16, <1>0, <1>t, <1>d, LockOutside DEF HookSelect, SelectPurchase, InTransaction
<1>17. ASSUME NEW h \in Hooks, HookUpdate(h)
      PROVE  RowLockHeld'
  <2>1. /\ pc[h] \notin InTransaction /\ UNCHANGED upd /\ buy[h] \in Purchases
        /\ upd[h] => rowLock[buy[h]] = NoOne
      BY <1>17, <1>0, <1>d DEF HookUpdate, InTransaction, Free, BuyKnown
  <2>2. Call[h] \in Calls /\ Call[h] \notin Hooks
      BY <1>d, ProcsAssumption
  <2>3. CASE ~MayRelink(h)
    <3>1. Go(h, "failed") /\ UNCHANGED <<rowLock, buy>>
        BY <1>17, <2>3 DEF HookUpdate
    <3> QED
        BY <1>0, <1>t, <1>d, <2>1, <3>1, LockOutside DEF InTransaction
  <2>4. CASE MayRelink(h)
    <3>1. /\ rowLock' = [rowLock EXCEPT ![buy[h]] = IF upd[h] THEN h ELSE @]
          /\ pc'[h] \in InTransaction /\ UNCHANGED buy[h]
          /\ \A g \in Hooks \ {h} : UNCHANGED <<buy[g], pc[g]>>
        BY <1>17, <1>t, <1>d, <2>2, <2>4 DEF HookUpdate, InTransaction
    <3> QED
        BY <1>t, <1>d, <2>1, <3>1, RowsAssumption DEF RowLockHeld, Procs
  <2> QED
      BY <2>3, <2>4
<1>18. ASSUME NEW h \in Hooks, HookResume(h)
      PROVE  RowLockHeld'
  <2>1. CASE Go(h, "mark") /\ UNCHANGED rowLock
      BY <1>18, <1>0, <1>t, <1>d, <2>1, LockKept DEF HookResume, InTransaction
  <2>2. CASE Go(h, "failed") /\ rowLock' = Unlocked(h)
      BY <1>18, <1>0, <1>t, <1>d, <2>2, LockReleased DEF HookResume, InTransaction
  <2> QED
      BY <1>18, <2>1, <2>2 DEF HookResume
<1>19. ASSUME NEW h \in Hooks, HookMark(h)
      PROVE  RowLockHeld'
  <2>1. CASE Resolves
      BY <1>19, <1>0, <1>t, <1>d, <2>1, LockKept DEF HookMark, InTransaction
  <2>2. CASE ~Resolves
      BY <1>19, <1>0, <1>t, <1>d, <2>2, LockReleased DEF HookMark, InTransaction
  <2> QED
      BY <2>1, <2>2
<1>20. ASSUME NEW h \in Hooks, ReleaseRead(h)
      PROVE  RowLockHeld'
    BY <1>20, <1>0, <1>t, <1>d, LockKept DEF ReleaseRead, InTransaction
<1>21. ASSUME NEW h \in Hooks, ReleaseSelect(h)
      PROVE  RowLockHeld'
    BY <1>21, <1>0, <1>t, <1>d, LockKept DEF ReleaseSelect, InTransaction
<1>22. ASSUME NEW h \in Hooks, HookCommit(h)
      PROVE  RowLockHeld'
  <2>1. Go(h, "done") \/ Go(h, "failed")
      BY <1>22 DEF HookCommit
  <2> QED
      BY <1>22, <1>0, <1>t, <1>d, <2>1, LockReleased DEF HookCommit, InTransaction
<1>23. CASE Crash
    BY <1>23, <1>t, <1>d, RowsAssumption DEF Crash, RowLockHeld, InTransaction, Finished, Procs
<1>24. CASE UNCHANGED vars
    BY <1>24, <1>0, LockFrame DEF vars
<1> QED
    BY <1>1, <1>2, <1>3, <1>4, <1>5, <1>6, <1>7, <1>8, <1>9, <1>10, <1>11, <1>12, <1>13,
       <1>14, <1>15, <1>16, <1>17, <1>18, <1>19, <1>20, <1>21, <1>22, <1>23, <1>24
    DEF Next, BuyerStep, CompleteStep, HookStep, EditStep

\* RowLockHeld always holds: a webhook's transaction has the lock of the purchase
\* it has updated from that UPDATE to its COMMIT or ROLLBACK, and at no other time.
THEOREM LockSafe == Spec => []RowLockHeld
<1>1. StockInv /\ RowLockHeld /\ [Next]_vars => (StockInv /\ RowLockHeld)'
    BY StepStock, LockStep
<1> QED
    BY <1>1, InitStock, LockInit, PTL DEF Spec

-----------------------------------------------------------------------------
(* What is known of a purchase by those who work on it: nobody but its own *)
(* request does before MercadoPago has its payment link.                   *)

Early == {"idle", "reserve", "prefer", "answer"}    \* a buyer's first awaits
Paid == {"paid", "refunded"}
\* A request that may not be expired by the cleanup.
Over(p) == p \in Buyers => pc[p] \in Finished

\* A buyer's request works on its own row, which is not settled, and which
\* MercadoPago does not know, until it answers.
Unsettled ==
    \A b \in Buyers :
      /\ buy[b] = b
      /\ pc[b] \in Early => fate[b] = "unknown" /\ status[b] \in {"NONE", "PENDING"}
\* A delivery's purchase is one that MercadoPago knows, and is paid for when the
\* action says so.
Notified ==
    \A h \in Hooks : buy[h] \in Purchases =>
      fate[buy[h]] # "unknown" /\ (act[h] = "processed" => fate[buy[h]] \in Paid)
\* So is the purchase of a completePurchase that another than its buyer calls.
Confirmed ==
    \A c \in Calls \cup Confirms : buy[c] \in Purchases =>
      fate[buy[c]] # "unknown" /\ (c \notin MerchantOrders => fate[buy[c]] \in Paid)
\* The cleanup lists no purchase whose request is still on its way.
ListedOver ==
    \A s \in Sweeps :
      /\ buy[s] \in Purchases => Over(buy[s])
      /\ \A p \in due[s] : Over(p)

SaleInv == Unsettled /\ Notified /\ Confirmed /\ ListedOver

\* A step that tells nobody a purchase and settles none that is on its way keeps
\* the four.
LEMMA SaleFrame ==
    ASSUME SaleInv, UNCHANGED <<fate, buy, act, due>>,
           \A b \in Buyers :
             /\ pc'[b] \in Early => /\ pc[b] \in Early
                                    /\ status'[b] \in {status[b], "NONE", "PENDING"}
             /\ pc[b] \in Finished => pc'[b] \in Finished
    PROVE  SaleInv'
<1>1. Unsettled'
    BY DEF SaleInv, Unsettled
<1>2. Notified'
    BY DEF SaleInv, Notified
<1>3. Confirmed'
    BY DEF SaleInv, Confirmed
<1>4. \A p \in Purchases : Over(p) => Over(p)'
    BY DEF Over
<1>5. ListedOver'
    BY DEF SaleInv, ListedOver, Over
<1> QED
    BY <1>1, <1>2, <1>3, <1>5 DEF SaleInv

\* At the start nobody knows a purchase but its buyer.
LEMMA InitSale == Init => SaleInv
<1> SUFFICES ASSUME Init PROVE SaleInv
    OBVIOUS
<1> USE RowsAssumption, ProcsAssumption, Kinds DEF Init
<1>1. Unsettled
    BY DEF Unsettled, Early, Buyers
<1>2. /\ \A i \in Hooks \cup Calls \cup Confirms \cup Sweeps : buy[i] = NoOne
      /\ NoOne \notin Purchases
    OBVIOUS
<1>3. Notified /\ Confirmed /\ ListedOver
    BY <1>2 DEF Notified, Confirmed, ListedOver
<1> QED
    BY <1>1, <1>3 DEF SaleInv

\* One step per action: most are a frame.
LEMMA StepSale == StockInv /\ RowLockHeld /\ SaleInv /\ [Next]_vars => SaleInv'
<1> SUFFICES ASSUME StockInv, RowLockHeld, SaleInv, [Next]_vars PROVE SaleInv'
    OBVIOUS
<1> USE DEF db, entity, typeEntity, Go
<1>0. TypeOK /\ BuyKnown /\ Unsettled /\ Notified /\ Confirmed /\ ListedOver
    BY DEF StockInv, SaleInv
<1>t. /\ pc \in [Procs -> Label] /\ buy \in [Procs -> Purchases \cup {NoOne}]
      /\ status \in [Purchases -> PurchaseStatus] /\ fate \in [Purchases -> Fate]
      /\ act \in [Hooks -> WebhookAction] /\ due \in [Sweeps -> SUBSET Purchases]
    BY <1>0 DEF TypeOK
<1>d. /\ Buyers \subseteq Procs /\ Hooks \subseteq Procs /\ Calls \subseteq Procs
      /\ Confirms \subseteq Procs /\ Sweeps \subseteq Procs /\ Edits \subseteq Procs
      /\ Buyers \cap (Hooks \cup Calls \cup Confirms \cup Sweeps \cup Edits) = {}
      /\ Hooks \cap (Calls \cup Confirms \cup Sweeps \cup Edits) = {}
      /\ Calls \cap (Confirms \cup Sweeps \cup Edits) = {}
      /\ Confirms \cap (Sweeps \cup Edits) = {} /\ Sweeps \cap Edits = {}
      /\ Completers = Direct \cup Calls \cup Confirms /\ Direct \subseteq Buyers
      /\ Buyers \subseteq Purchases /\ MerchantOrders \subseteq Confirms
      /\ NoOne \notin Purchases
    BY Kinds, ProcsAssumption, RowsAssumption DEF Completers, Buyers
\* A step of a process that is not a buyer, without a status.
<1>f. ASSUME NEW i \in Procs \ Buyers, UNCHANGED <<fate, buy, act, due, status>>,
             \A j \in Procs \ {i} : pc'[j] = pc[j]
      PROVE  SaleInv'
    BY <1>f, <1>d, SaleFrame
<1>1. ASSUME NEW b \in Buyers, Request(b)
      PROVE  SaleInv'
  <2>1. /\ UNCHANGED <<fate, buy, act, due, status>> /\ pc[b] = "idle"
        /\ \A j \in Procs \ {b} : pc'[j] = pc[j]
      BY <1>1, <1>t, <1>d DEF Request
  <2> QED
      BY <2>1, <1>d, SaleFrame DEF Early, Finished
<1>2. ASSUME NEW b \in Buyers, CreatePendingPurchase(b)
      PROVE  SaleInv'
  <2>1. /\ UNCHANGED <<fate, buy, act, due>> /\ pc[b] = "reserve"
        /\ \A j \in Procs \ {b} : pc'[j] = pc[j]
        /\ \A p \in Purchases : status'[p] \in {status[p], "PENDING"}
      BY <1>2, <1>t, <1>d DEF CreatePendingPurchase
  <2> QED
      BY <2>1, <1>d, SaleFrame DEF Early, Finished
<1>3. ASSUME NEW b \in Buyers, CreatePreference(b)
      PROVE  SaleInv'
  <2>1. /\ UNCHANGED <<fate, buy, act, due, status>> /\ pc[b] = "prefer"
        /\ \A j \in Procs \ {b} : pc'[j] = pc[j]
      BY <1>3, <1>t, <1>d DEF CreatePreference
  <2> QED
      BY <2>1, <1>d, SaleFrame DEF Early, Finished
<1>4. ASSUME NEW b \in Buyers, Answer(b)
      PROVE  SaleInv'
  <2>1. /\ UNCHANGED <<buy, act, due>> /\ pc[b] = "answer" /\ fate[b] = "unknown"
        /\ \A j \in Procs \ {b} : pc'[j] = pc[j]
        /\ pc'[b] \in {"done", "failed"}
        /\ \A p \in Purchases : status'[p] \in {status[p], "PENDING"}
        /\ \A p \in Purchases \ {b} : fate'[p] = fate[p]
      BY <1>4, <1>0, <1>t, <1>d DEF Answer, Unsettled, Early
  <2>2. \A i \in Hooks \cup Calls \cup Confirms : buy[i] \in Purchases => buy[i] # b
      BY <2>1, <1>0 DEF Notified, Confirmed
  <2>3. Unsettled'
      BY <2>1, <1>0, <1>d DEF Unsettled, Early
  <2>4. Notified' /\ Confirmed'
      BY <2>1, <2>2, <1>0 DEF Notified, Confirmed
  <2>5. ListedOver'
      BY <2>1, <1>0, <1>d DEF ListedOver, Over, Finished
  <2> QED
      BY <2>3, <2>4, <2>5 DEF SaleInv
<1>5. ASSUME NEW p \in Purchases, Settle(p)
      PROVE  SaleInv'
  <2>1. /\ UNCHANGED <<buy, act, due, pc, status>> /\ fate[p] # "unknown" /\ fate'[p] # "unknown"
        /\ fate[p] \in Paid => fate'[p] \in Paid
        /\ \A q \in Purchases \ {p} : fate'[q] = fate[q]
      BY <1>5, <1>t DEF Settle, Paid
  <2>2. Unsettled'
      BY <2>1, <1>0, <1>d DEF Unsettled
  <2>3. Notified' /\ Confirmed'
      BY <2>1, <1>0 DEF Notified, Confirmed
  <2>4. ListedOver'
      BY <2>1, <1>0 DEF ListedOver, Over
  <2> QED
      BY <2>2, <2>3, <2>4 DEF SaleInv
<1>6. ASSUME NEW c \in Confirms, NEW p \in Purchases, ConfirmTicketPayment(c, p)
      PROVE  SaleInv'
  <2>1. /\ UNCHANGED <<fate, act, due, status>> /\ buy'[c] = p
        /\ \A j \in Procs \ {c} : pc'[j] = pc[j] /\ buy'[j] = buy[j]
        /\ fate[p] # "unknown" /\ (c \notin MerchantOrders => fate[p] = "paid")
      BY <1>6, <1>t, <1>d DEF ConfirmTicketPayment, Approved
  <2>2. Unsettled' /\ Notified' /\ ListedOver'
      BY <2>1, <1>0, <1>d DEF Unsettled, Notified, ListedOver, Over
  <2>3. Confirmed'
      BY <2>1, <1>0, <1>d DEF Confirmed, Paid
  <2> QED
      BY <2>2, <2>3 DEF SaleInv
\* A completePurchase of a purchase on its way is its own buyer's, which is past
\* its first awaits.
<1>c. ASSUME NEW c \in Completers, pc[c] \notin Early \cup {"done"}
      PROVE  /\ buy[c] \in Purchases
             /\ buy[c] \in Buyers => pc[buy[c]] \notin Early
  <2>1. buy[c] \in Purchases
      BY <1>c, <1>0, <1>d DEF BuyKnown, Early
  <2>2. CASE c \in Buyers
      BY <1>c, <1>0, <2>1, <2>2 DEF Unsettled
  <2>3. CASE c \in Calls \cup Confirms
      BY <1>0, <2>1, <2>3 DEF Unsettled, Confirmed
  <2> QED
      BY <1>d, <2>1, <2>2, <2>3
<1>7. ASSUME NEW c \in Completers, CompleteLoad(c)
      PROVE  SaleInv'
  <2>1. /\ UNCHANGED <<fate, buy, act, due, status>> /\ pc[c] = "load"
        /\ \A j \in Procs \ {c} : pc'[j] = pc[j]
        /\ pc'[c] \in {"done", "diff"}
      BY <1>7, <1>t, <1>d DEF CompleteLoad
  <2> QED
      BY <2>1, <1>d, SaleFrame DEF Early, Finished
<1>8. ASSUME NEW c \in Completers, CompleteSelect(c)
      PROVE  SaleInv'
  <2>1. /\ UNCHANGED <<fate, buy, act, due, status>> /\ pc[c] = "diff"
        /\ \A j \in Procs \ {c} : pc'[j] = pc[j]
        /\ pc'[c] = "issue"
      BY <1>8, <1>t, <1>d DEF CompleteSelect
  <2> QED
      BY <2>1, <1>d, SaleFrame DEF Early, Finished
<1>9. ASSUME NEW c \in Completers, CompleteIssue(c)
      PROVE  SaleInv'
  <2>1. /\ UNCHANGED <<fate, buy, act, due>> /\ pc[c] = "issue"
        /\ \A j \in Procs \ {c} : pc'[j] = pc[j]
        /\ pc'[c] \in {"done", "failed"}
        /\ \A p \in Purchases \ {buy[c]} : status'[p] = status[p]
      BY <1>9, <1>t, <1>d DEF CompleteIssue
  <2>2. buy[c] \in Buyers => pc[buy[c]] \notin Early
      BY <2>1, <1>c DEF Early
  <2>3. c \notin Buyers \/ pc[c] \notin Early
      BY <2>1 DEF Early
  <2>4. ASSUME NEW b \in Buyers
        PROVE  /\ pc'[b] \in Early => /\ pc[b] \in Early
                                      /\ status'[b] \in {status[b], "NONE", "PENDING"}
               /\ pc[b] \in Finished => pc'[b] \in Finished
      BY <2>1, <2>2, <1>d DEF Early, Finished
  <2> QED
      BY <2>1, <2>4, SaleFrame
<1>10. ASSUME NEW h \in Hooks, NEW p \in Purchases, NEW a \in Actions, ProcessOrderAction(h, p, a)
      PROVE  SaleInv'
  <2>1. /\ UNCHANGED <<fate, due, status>> /\ buy'[h] = p /\ act'[h] = a
        /\ \A j \in Procs \ {h} : pc'[j] = pc[j] /\ buy'[j] = buy[j]
        /\ \A g \in Hooks \ {h} : act'[g] = act[g]
      BY <1>10, <1>t, <1>d DEF ProcessOrderAction
  <2>2. fate[p] # "unknown" /\ (a = "processed" => fate[p] \in Paid)
    <3>1. a \in WebhookAction /\ Notifies(p, a)
        BY <1>10, RowsAssumption DEF ProcessOrderAction
    <3>2. CASE a = "processed"
        BY <3>1, <3>2 DEF Notifies, Paid
    <3>3. CASE a = "refunded"
        BY <3>1, <3>3 DEF Notifies
    <3>4. CASE a = "failed"
        BY <3>1, <3>4 DEF Notifies
    <3> QED
        BY <3>1, <3>2, <3>3, <3>4 DEF WebhookAction
  <2>3. Unsettled' /\ Confirmed' /\ ListedOver'
      BY <2>1, <1>0, <1>d DEF Unsettled, Confirmed, ListedOver, Over
  <2>4. Notified'
      BY <2>1, <2>2, <1>0, <1>d DEF Notified
  <2> QED
      BY <2>3, <2>4 DEF SaleInv
<1>11. ASSUME NEW h \in Hooks, HookSelect(h)
      PROVE  SaleInv'
  <2>1. h \in Procs \ Buyers /\ UNCHANGED <<fate, buy, act, due, status>>
      BY <1>11, <1>d DEF HookSelect
  <2>2. \A j \in Procs \ {h} : pc'[j] = pc[j]
      BY <1>11, <1>t DEF HookSelect
  <2> QED
      BY <2>1, <2>2, <1>f
<1>12. ASSUME NEW h \in Hooks, HookUpdate(h)
      PROVE  SaleInv'
  <2>1. Call[h] \in Calls /\ Call[h] \in Procs \ Buyers /\ h \in Procs \ Buyers
      BY <1>d, ProcsAssumption
  <2>2. UNCHANGED <<fate, act, due, status>>
      BY <1>12 DEF HookUpdate
  <2>3. \A j \in Procs \ {h, Call[h]} : pc'[j] = pc[j] /\ buy'[j] = buy[j]
      BY <1>12, <1>t, <2>1 DEF HookUpdate
  <2>4. CASE UNCHANGED buy
    <3>1. \A b \in Buyers : pc'[b] = pc[b]
        BY <2>1, <2>3, <1>d
    <3> QED
        BY <2>2, <2>4, <3>1, SaleFrame
  <2>5. CASE ~ UNCHANGED buy
    <3>1. act[h] = "processed" /\ pc[h] = "update" /\ buy' = [buy EXCEPT ![Call[h]] = buy[h]]
        BY <1>12, <2>5 DEF HookUpdate
    <3>2. buy[h] \in Purchases
        BY <3>1, <1>0, <1>d DEF BuyKnown
    <3>3. fate[buy[h]] # "unknown" /\ fate[buy[h]] \in Paid
        BY <3>1, <3>2, <1>0 DEF Notified
    <3>4. buy'[Call[h]] = buy[h] /\ \A j \in Procs \ {Call[h]} : buy'[j] = buy[j]
        BY <3>1, <1>t, <2>1
    <3>5. Confirmed'
        BY <2>1, <2>2, <3>3, <3>4, <1>0, <1>d DEF Confirmed
    <3>6. Unsettled' /\ Notified' /\ ListedOver'
        BY <2>1, <2>2, <2>3, <3>4, <1>0, <1>d DEF Unsettled, Notified, ListedOver, Over
    <3> QED
        BY <3>5, <3>6 DEF SaleInv
  <2> QED
      BY <2>4, <2>5
<1>13. ASSUME NEW h \in Hooks, HookResume(h)
      PROVE  SaleInv'
  <2>1. h \in Procs \ Buyers /\ UNCHANGED <<fate, buy, act, due, status>>
      BY <1>13, <1>d DEF HookResume
  <2>2. \A j \in Procs \ {h} : pc'[j] = pc[j]
      BY <1>13, <1>t DEF HookResume
  <2> QED
      BY <2>1, <2>2, <1>f
<1>14. ASSUME NEW h \in Hooks, HookMark(h)
      PROVE  SaleInv'
  <2>1. h \in Procs \ Buyers /\ UNCHANGED <<fate, buy, act, due, status>>
      BY <1>14, <1>d DEF HookMark
  <2>2. \A j \in Procs \ {h} : pc'[j] = pc[j]
      BY <1>14, <1>t DEF HookMark
  <2> QED
      BY <2>1, <2>2, <1>f
<1>15. ASSUME NEW h \in Hooks, ReleaseRead(h)
      PROVE  SaleInv'
  <2>1. h \in Procs \ Buyers /\ UNCHANGED <<fate, buy, act, due, status>>
      BY <1>15, <1>d DEF ReleaseRead
  <2>2. \A j \in Procs \ {h} : pc'[j] = pc[j]
      BY <1>15, <1>t DEF ReleaseRead
  <2> QED
      BY <2>1, <2>2, <1>f
<1>16. ASSUME NEW h \in Hooks, ReleaseSelect(h)
      PROVE  SaleInv'
  <2>1. h \in Procs \ Buyers /\ UNCHANGED <<fate, buy, act, due, status>>
      BY <1>16, <1>d DEF ReleaseSelect
  <2>2. \A j \in Procs \ {h} : pc'[j] = pc[j]
      BY <1>16, <1>t DEF ReleaseSelect
  <2> QED
      BY <2>1, <2>2, <1>f
<1>17. ASSUME NEW h \in Hooks, HookCommit(h)
      PROVE  SaleInv'
  <2>1. /\ UNCHANGED <<fate, buy, act, due>> /\ pc[h] = "commit"
        /\ \A j \in Procs \ {h} : pc'[j] = pc[j]
        /\ \A p \in Purchases \ {buy[h]} : status'[p] = status[p]
      BY <1>17, <1>t, <1>d DEF HookCommit
  <2>2. buy[h] \in Purchases
      BY <2>1, <1>0, <1>d DEF BuyKnown
  <2>3. buy[h] \in Buyers => pc[buy[h]] \notin Early
      BY <2>2, <1>0 DEF Unsettled, Notified
  <2>4. ASSUME NEW b \in Buyers
        PROVE  /\ pc'[b] \in Early => /\ pc[b] \in Early
                                      /\ status'[b] \in {status[b], "NONE", "PENDING"}
               /\ pc[b] \in Finished => pc'[b] \in Finished
      BY <2>1, <2>3, <1>d
  <2> QED
      BY <2>1, <2>4, SaleFrame
<1>18. ASSUME NEW s \in Sweeps, SweepList(s)
      PROVE  SaleInv'
  <2>1. PICK list \in SUBSET Expirable : due' = [due EXCEPT ![s] = list]
      BY <1>18 DEF SweepList
  <2>2. \A p \in Expirable : Over(p)
      BY DEF Expirable, Over
  <2>3. /\ UNCHANGED <<fate, act, status>>
        /\ \A j \in Procs \ {s} : pc'[j] = pc[j] /\ buy'[j] = buy[j]
        /\ buy'[s] = buy[s] \/ buy'[s] \in Expirable
      BY <1>18, <1>t, <1>d DEF SweepList
  <2>4. \A p \in Purchases : Over(p)' <=> Over(p)
      BY <2>3, <1>d DEF Over
  <2>5. ListedOver'
    <3>1. ASSUME NEW r \in Sweeps
          PROVE  (buy'[r] \in Purchases => Over(buy'[r])) /\ \A p \in due'[r] : Over(p)
      <4>1. CASE r = s
          BY <2>1, <2>2, <2>3, <4>1, <1>0, <1>t DEF ListedOver
      <4>2. CASE r # s
          BY <2>1, <2>3, <4>2, <1>0, <1>t, <1>d DEF ListedOver
      <4> QED
          BY <4>1, <4>2
    <3>2. \A r \in Sweeps : due'[r] \subseteq Purchases
        BY <2>1, <1>t DEF Expirable
    <3> QED
        BY <3>1, <3>2, <2>3, <1>d DEF ListedOver, Over
  <2>6. Unsettled' /\ Notified' /\ Confirmed'
      BY <2>3, <1>0, <1>d DEF Unsettled, Notified, Confirmed
  <2> QED
      BY <2>5, <2>6 DEF SaleInv
<1>19. ASSUME NEW s \in Sweeps, SweepRelease(s)
      PROVE  SaleInv'
  <2>1. /\ UNCHANGED <<fate, act>> /\ pc[s] = "release"
        /\ \A j \in Procs \ {s} : pc'[j] = pc[j] /\ buy'[j] = buy[j]
        /\ due' = [due EXCEPT ![s] = due[s] \ {buy[s]}]
        /\ buy'[s] = buy[s] \/ buy'[s] \in due[s]
        /\ \A p \in Purchases \ {buy[s]} : status'[p] = status[p]
      BY <1>19, <1>t, <1>d DEF SweepRelease
  <2>2. buy[s] \in Purchases /\ Over(buy[s])
      BY <2>1, <1>0, <1>d DEF BuyKnown, ListedOver
  <2>3. buy[s] \in Buyers => pc[buy[s]] \notin Early
      BY <2>2 DEF Over, Finished, Early
  <2>4. Unsettled' /\ Notified' /\ Confirmed'
      BY <2>1, <2>3, <1>0, <1>d DEF Unsettled, Notified, Confirmed
  <2>5. ListedOver'
    <3>1. ASSUME NEW r \in Sweeps
          PROVE  (buy'[r] \in Purchases => Over(buy'[r])) /\ \A p \in due'[r] : Over(p)
      <4>1. CASE r = s
          BY <2>1, <2>2, <4>1, <1>0, <1>t DEF ListedOver
      <4>2. CASE r # s
          BY <2>1, <4>2, <1>0, <1>t, <1>d DEF ListedOver
      <4> QED
          BY <4>1, <4>2
    <3> QED
        BY <3>1, <2>1, <1>d DEF ListedOver, Over
  <2> QED
      BY <2>4, <2>5 DEF SaleInv
<1>20. ASSUME NEW e \in Edits, EditStep(e)
      PROVE  SaleInv'
  <2>1. e \in Procs \ Buyers /\ UNCHANGED <<fate, buy, act, due, status>>
      BY <1>20, <1>d DEF EditStep, EditLoad, EditSelect, EditWrite
  <2>2. \A j \in Procs \ {e} : pc'[j] = pc[j]
      BY <1>20, <1>t DEF EditStep, EditLoad, EditSelect, EditWrite
  <2> QED
      BY <2>1, <2>2, <1>f
<1>21. CASE Crash
  <2>1. /\ UNCHANGED <<fate, buy, act, due, status>>
        /\ \A b \in Buyers : /\ pc'[b] \in Early => pc[b] \in Early
                             /\ pc[b] \in Finished => pc'[b] \in Finished
      BY <1>21, <1>d DEF Crash, Early, Finished
  <2> QED
      BY <2>1, SaleFrame
<1>22. CASE UNCHANGED vars
    BY <1>22, SaleFrame DEF vars
<1> QED
    BY <1>1, <1>2, <1>3, <1>4, <1>5, <1>6, <1>7, <1>8, <1>9, <1>10, <1>11, <1>12,
       <1>13, <1>14, <1>15, <1>16, <1>17, <1>18, <1>19, <1>20, <1>21, <1>22
    DEF Next, BuyerStep, CompleteStep, HookStep

\* So the four hold always, together with what they rest on.
LEMMA SaleHolds == Spec => [](StockInv /\ RowLockHeld /\ SaleInv)
BY InitStock, LockInit, InitSale, StepStock, LockStep, StepSale, PTL DEF Spec

\* A step that opens a settled purchase again would be its request's late save,
\* but that request is over when anybody can settle its purchase.
LEMMA ReopenStep ==
    ASSUME StockInv, SaleInv, [Next]_vars, NEW p \in Purchases,
           status[p] \notin {"NONE", "PENDING"}
    PROVE  status'[p] # "PENDING"
<1> USE DEF db, entity, typeEntity
<1>t. status \in [Purchases -> PurchaseStatus] /\ Buyers \subseteq Purchases
    BY DEF StockInv, TypeOK, Buyers
<1>1. ASSUME NEW b \in Buyers, pc[b] \in Early
      PROVE  b # p
    BY <1>1 DEF SaleInv, Unsettled
<1>2. ASSUME NEW b \in Buyers, BuyerStep(b)
      PROVE  status'[p] # "PENDING"
  <2>1. CASE Request(b) \/ CreatePreference(b)
      BY <2>1 DEF Request, CreatePreference
  <2>2. CASE CreatePendingPurchase(b)
      BY <1>1, <1>t, <2>2 DEF CreatePendingPurchase, Early
  <2>3. CASE Answer(b)
      BY <1>1, <1>t, <2>3 DEF Answer, Early
  <2> QED
      BY <1>2, <2>1, <2>2, <2>3 DEF BuyerStep
<1>3. ASSUME NEW c \in Completers, CompleteStep(c)
      PROVE  status'[p] # "PENDING"
    BY <1>3, <1>t DEF CompleteStep, CompleteLoad, CompleteSelect, CompleteIssue
<1>4. ASSUME NEW h \in Hooks, HookStep(h)
      PROVE  status'[p] # "PENDING"
  <2>1. Target(act[h]) # "PENDING"
      BY DEF Target
  <2>2. CASE HookCommit(h)
      BY <2>1, <2>2, <1>t DEF HookCommit
  <2>3. CASE ~HookCommit(h)
      BY <1>4, <2>3 DEF HookStep, HookSelect, HookUpdate, HookResume, HookMark,
                        ReleaseRead, ReleaseSelect
  <2> QED
      BY <2>2, <2>3
<1>5. ASSUME NEW s \in Sweeps, SweepList(s) \/ SweepRelease(s)
      PROVE  status'[p] # "PENDING"
    BY <1>5, <1>t DEF SweepList, SweepRelease
<1>6. ASSUME NEW e \in Edits, EditStep(e)
      PROVE  status'[p] # "PENDING"
    BY <1>6 DEF EditStep, EditLoad, EditSelect, EditWrite
<1>7. CASE Crash \/ UNCHANGED vars
    BY <1>7 DEF Crash, vars
<1> QED
    BY <1>2, <1>3, <1>4, <1>5, <1>6, <1>7
    DEF Next, Settle, ConfirmTicketPayment, ProcessOrderAction

\* NeverReopened holds, with the webhooks and with payments as without: the
\* checkout's save of the entity it has created never undoes what has become of
\* the purchase since.
THEOREM StaysSettled == Spec => NeverReopened
<1> DEFINE A == \A p \in Purchases : status[p] \notin {"NONE", "PENDING"} => status'[p] # "PENDING"
<1>1. StockInv /\ RowLockHeld /\ SaleInv /\ [Next]_vars => [A]_vars
    BY ReopenStep
<1> HIDE DEF A
<1>2. Spec => [][A]_vars
    BY <1>1, SaleHolds, PTL DEF Spec
<1> QED
    BY <1>2 DEF A, NeverReopened

-----------------------------------------------------------------------------
(* The tickets.                                                            *)

\* The relation part of save(purchase) leaves a ticket its purchase.
LEMMA RelinkedOf ==
    ASSUME TypeOK, NEW i \in Completers \cup Hooks, NEW j \in Completers
    PROVE  Relinked(i)[j].of = batch[j].of /\ Relinked(i)[j].linked = IsLinked(i, j)
BY DEF TypeOK, Relinked

\* What the two steps that write tickets write.
LEMMA BatchStep ==
    ASSUME TypeOK, [Next]_vars, NEW j \in Completers
    PROVE  \/ batch'[j] = batch[j]
           \/ /\ CompleteIssue(j) /\ HasEvent(buy[j]) /\ buy[j] \in Purchases
              /\ batch'[j].of = buy[j] /\ batch'[j].linked
           \/ \E c \in Completers \ {j} :
                /\ CompleteIssue(c) /\ MayRelink(c)
                /\ batch'[j].of = batch[j].of /\ batch'[j].linked = IsLinked(c, j)
           \/ \E h \in Hooks :
                /\ HookCommit(h)
                /\ batch'[j].of = batch[j].of /\ batch'[j].linked = IsLinked(h, j)
<1> USE DEF db, entity, typeEntity
<1>1. ASSUME NEW c \in Completers, CompleteIssue(c), batch'[j] # batch[j]
      PROVE  \/ /\ c = j /\ HasEvent(buy[j]) /\ buy[j] \in Purchases
                /\ batch'[j].of = buy[j] /\ batch'[j].linked
             \/ /\ c # j /\ MayRelink(c)
                /\ batch'[j].of = batch[j].of /\ batch'[j].linked = IsLinked(c, j)
  <2>1. /\ HasEvent(buy[c]) /\ MayRelink(c)
        /\ batch' = [Relinked(c) EXCEPT
                       ![c] = [of |-> buy[c], linked |-> TRUE, status |-> "ACTIVE"]]
      BY <1>1 DEF CompleteIssue
  <2>2. Relinked(c) \in [Completers -> [of : Purchases \cup {NoOne}, linked : BOOLEAN,
                                        status : TicketStatus]]
      BY RelinkedTyped
  <2>3. buy[c] \in Purchases
      BY <2>1, RowsAssumption DEF HasEvent
  <2>4. CASE c = j
      BY <2>1, <2>2, <2>3, <2>4
  <2>5. CASE c # j
    <3>1. batch'[j] = Relinked(c)[j]
        BY <2>1, <2>2, <2>5
    <3> QED
        BY <2>1, <2>5, <3>1, RelinkedOf
  <2> QED
      BY <2>4, <2>5
<1>2. ASSUME NEW h \in Hooks, HookCommit(h), batch'[j] # batch[j]
      PROVE  batch'[j].of = batch[j].of /\ batch'[j].linked = IsLinked(h, j)
  <2>1. batch' = [i \in Completers |->
                    IF i \in hit[h]
                    THEN [Relinked(h)[i] EXCEPT !.status = TicketTarget(act[h])]
                    ELSE Relinked(h)[i]]
      BY <1>2 DEF HookCommit
  <2> DEFINE r == Relinked(h)[j]
  <2>2. r.of = batch[j].of /\ r.linked = IsLinked(h, j)
      BY RelinkedOf
  <2>3. r \in [of : Purchases \cup {NoOne}, linked : BOOLEAN, status : TicketStatus]
      BY RelinkedTyped
  <2>4. batch'[j] \in {r, [r EXCEPT !.status = TicketTarget(act[h])]}
      BY <2>1
  <2> HIDE DEF r
  <2>5. [r EXCEPT !.status = TicketTarget(act[h])].of = r.of
        /\ [r EXCEPT !.status = TicketTarget(act[h])].linked = r.linked
      BY <2>3
  <2> QED
      BY <2>2, <2>4, <2>5
<1>3. ASSUME NEW b \in Buyers, BuyerStep(b)
      PROVE  batch' = batch
    BY <1>3 DEF BuyerStep, Request, CreatePendingPurchase, CreatePreference, Answer
<1>4. ASSUME NEW c \in Completers, CompleteLoad(c) \/ CompleteSelect(c)
      PROVE  batch' = batch
    BY <1>4 DEF CompleteLoad, CompleteSelect
<1>5. ASSUME NEW h \in Hooks, HookStep(h), ~HookCommit(h)
      PROVE  batch' = batch
    BY <1>5 DEF HookStep, HookSelect, HookUpdate, HookResume, HookMark,
                ReleaseRead, ReleaseSelect
<1>6. ASSUME NEW s \in Sweeps, SweepList(s) \/ SweepRelease(s)
      PROVE  batch' = batch
    BY <1>6 DEF SweepList, SweepRelease
<1>7. ASSUME NEW e \in Edits, EditStep(e)
      PROVE  batch' = batch
    BY <1>7 DEF EditStep, EditLoad, EditSelect, EditWrite
<1>8. CASE Crash \/ UNCHANGED vars
    BY <1>8 DEF Crash, vars
<1> QED
    BY <1>1, <1>2, <1>3, <1>4, <1>5, <1>6, <1>7, <1>8
    DEF Next, CompleteStep, Settle, ConfirmTicketPayment, ProcessOrderAction

\* PaidBeforeIssued always holds when no merchant order is confirmed: tickets are
\* issued only of purchases stored with their event, which no direct request
\* makes, and whoever else completes one has found it paid.
THEOREM IssuedWhenPaid == MerchantOrders = {} => (Spec => []PaidBeforeIssued)
<1> SUFFICES ASSUME MerchantOrders = {} PROVE Spec => []PaidBeforeIssued
    OBVIOUS
<1>1. Init => PaidBeforeIssued
    BY DEF Init, PaidBeforeIssued, NoBatch
<1>2. StockInv /\ SaleInv /\ PaidBeforeIssued /\ [Next]_vars => PaidBeforeIssued'
  <2> SUFFICES ASSUME StockInv, SaleInv, PaidBeforeIssued, [Next]_vars,
                      NEW j \in Completers, batch'[j].of # NoOne
               PROVE  fate'[batch'[j].of] \in Paid
      BY DEF PaidBeforeIssued, Paid
  <2>t. TypeOK
      BY DEF StockInv
  <2>1. ASSUME NEW p \in Purchases, fate[p] \in Paid
        PROVE  fate'[p] \in Paid
    <3>1. fate \in [Purchases -> Fate]
        BY <2>t DEF TypeOK
    <3>2. ASSUME NEW b \in Buyers, BuyerStep(b)
          PROVE  fate'[p] = fate[p]
      <4>1. CASE Answer(b)
        <5>1. fate[b] = "unknown"
            BY <4>1 DEF Answer, SaleInv, Unsettled, Early
        <5> QED
            BY <2>1, <3>1, <4>1, <5>1 DEF Answer, Paid
      <4>2. CASE ~Answer(b)
          BY <3>2, <4>2 DEF BuyerStep, Request, CreatePendingPurchase, CreatePreference
      <4> QED
          BY <4>1, <4>2
    <3>3. ASSUME NEW q \in Purchases, Settle(q)
          PROVE  fate'[p] \in Paid
        BY <2>1, <3>1, <3>3 DEF Settle, Paid
    <3>4. CASE UNCHANGED fate
        BY <2>1, <3>4
    <3>5. \/ UNCHANGED fate
          \/ \E b \in Buyers : BuyerStep(b)
          \/ \E q \in Purchases : Settle(q)
        BY DEF Next, vars, ConfirmTicketPayment, CompleteStep, CompleteLoad, CompleteSelect,
               CompleteIssue, ProcessOrderAction, HookStep, HookSelect, HookUpdate,
               HookResume, HookMark, ReleaseRead, ReleaseSelect, HookCommit, SweepList,
               SweepRelease, EditStep, EditLoad, EditSelect, EditWrite, Crash
    <3> QED
        BY <2>1, <3>2, <3>3, <3>4, <3>5
  <2>2. CASE batch'[j].of = batch[j].of
    <3>1. batch[j].of \in Purchases /\ fate[batch[j].of] \in Paid
        BY <2>t, <2>2 DEF TypeOK, PaidBeforeIssued, Paid
    <3> QED
        BY <2>1, <2>2, <3>1
  <2>3. CASE CompleteIssue(j) /\ HasEvent(buy[j]) /\ buy[j] \in Purchases
             /\ batch'[j].of = buy[j]
    <3>1. j \notin Buyers
        BY <2>3 DEF SaleInv, Unsettled, HasEvent, Buyers
    <3>2. fate[buy[j]] \in Paid
        BY <2>3, <3>1, RowsAssumption DEF SaleInv, Confirmed, Completers
    <3> QED
        BY <2>1, <2>3, <3>2
  <2> QED
      BY <2>t, <2>2, <2>3, BatchStep
<1> QED
    BY <1>1, <1>2, SaleHolds, PTL DEF Spec

\* A delivery past its UPDATE of the tickets may write what it will write.
LinksKept == \A h \in Hooks : pc[h] \in InTransaction => MayRelink(h)

LEMMA LinksInit == Init => LinksKept
BY Kinds DEF Init, LinksKept, InTransaction

LEMMA LinksStep == StockInv /\ LinksKept /\ [Next]_vars => LinksKept'
<1> SUFFICES ASSUME StockInv, LinksKept, [Next]_vars,
                    NEW g \in Hooks, pc'[g] \in InTransaction
             PROVE  MayRelink(g)'
    BY DEF LinksKept
<1> USE DEF db, entity, typeEntity
<1>t. pc \in [Procs -> Label] /\ Hooks \subseteq Procs /\ Hooks \cap Calls = {}
      /\ tix \in [Completers \cup Hooks -> SUBSET Completers]
      /\ relink \in [Completers \cup Hooks -> SUBSET Completers]
    BY Kinds, ProcsAssumption DEF StockInv, TypeOK
<1>d. Hooks \cap Completers = {} /\ Hooks \cap Buyers = {} /\ Hooks \cap Sweeps = {}
      /\ Hooks \cap Edits = {} /\ Hooks \cap Confirms = {} /\ Completers \subseteq Procs
    BY Kinds, ProcsAssumption, RowsAssumption DEF Completers
<1>k. ASSUME UNCHANGED <<tix[g], relink[g]>>, pc[g] \in InTransaction \/ MayRelink(g)
      PROVE  MayRelink(g)'
    BY <1>k DEF LinksKept, MayRelink
<1>1. ASSUME NEW b \in Buyers, BuyerStep(b)
      PROVE  MayRelink(g)'
    BY <1>1, <1>k, <1>t, <1>d DEF BuyerStep, Request, CreatePendingPurchase, CreatePreference, Answer, Go
<1>2. ASSUME NEW p \in Purchases, Settle(p)
      PROVE  MayRelink(g)'
    BY <1>2, <1>k DEF Settle
<1>3. ASSUME NEW c \in Confirms, NEW p \in Purchases, ConfirmTicketPayment(c, p)
      PROVE  MayRelink(g)'
    BY <1>3, <1>k, <1>t, <1>d DEF ConfirmTicketPayment, Go
<1>4. ASSUME NEW c \in Completers, CompleteStep(c)
      PROVE  MayRelink(g)'
    BY <1>4, <1>k, <1>t, <1>d DEF CompleteStep, CompleteLoad, CompleteSelect, CompleteIssue,
                                  SelectPurchase, Go
<1>5. ASSUME NEW h \in Hooks, NEW p \in Purchases, NEW a \in Actions, ProcessOrderAction(h, p, a)
      PROVE  MayRelink(g)'
  <2>1. pc'[h] \notin InTransaction
      BY <1>5, <1>t DEF ProcessOrderAction, Go, InTransaction
  <2> QED
      BY <1>5, <2>1, <1>k, <1>t, <1>d DEF ProcessOrderAction, Go
<1>6. ASSUME NEW h \in Hooks, HookSelect(h)
      PROVE  MayRelink(g)'
  <2>1. pc'[h] \notin InTransaction
      BY <1>6, <1>t DEF HookSelect, Go, InTransaction
  <2> QED
      BY <1>6, <2>1, <1>k, <1>t, <1>d DEF HookSelect, SelectPurchase, Go
<1>7. ASSUME NEW h \in Hooks, HookUpdate(h)
      PROVE  MayRelink(g)'
  <2>1. Call[h] \notin Hooks
      BY ProcsAssumption
  <2>2. g # h => pc'[g] = pc[g]
      BY <1>7, <2>1, <1>t DEF HookUpdate, Go
  <2>3. g = h => MayRelink(h)
      BY <1>7, <1>t DEF HookUpdate, Go, InTransaction
  <2> QED
      BY <1>7, <2>2, <2>3, <1>k DEF HookUpdate
<1>8. ASSUME NEW h \in Hooks, HookResume(h) \/ HookMark(h) \/ ReleaseRead(h) \/ ReleaseSelect(h)
                              \/ HookCommit(h)
      PROVE  MayRelink(g)'
  <2>1. pc[h] \in InTransaction
      BY <1>8 DEF HookResume, HookMark, ReleaseRead, ReleaseSelect, HookCommit, InTransaction
  <2>2. g # h => pc'[g] = pc[g]
      BY <1>8, <1>t DEF HookResume, HookMark, ReleaseRead, ReleaseSelect, HookCommit, Go
  <2>3. UNCHANGED <<tix, relink>>
      BY <1>8 DEF HookResume, HookMark, ReleaseRead, ReleaseSelect, HookCommit
  <2> QED
      BY <2>1, <2>2, <2>3, <1>k
<1>9. ASSUME NEW s \in Sweeps, SweepList(s) \/ SweepRelease(s)
      PROVE  MayRelink(g)'
    BY <1>9, <1>k, <1>t, <1>d DEF SweepList, SweepRelease, Go
<1>10. ASSUME NEW e \in Edits, EditStep(e)
      PROVE  MayRelink(g)'
    BY <1>10, <1>k, <1>t, <1>d DEF EditStep, EditLoad, EditSelect, EditWrite, Go
<1>11. CASE Crash
    BY <1>11, <1>k, <1>t DEF Crash, Finished, InTransaction
<1>12. CASE UNCHANGED vars
    BY <1>12, <1>k DEF vars
<1> QED
    BY <1>1, <1>2, <1>3, <1>4, <1>5, <1>6, <1>7, <1>8, <1>9, <1>10, <1>11, <1>12
    DEF Next, HookStep

\* In the migrations' schema no save detaches a ticket.
LEMMA KeptStep ==
    NotNull /\ StockInv /\ LinksKept /\ TicketsKeepPurchase /\ [Next]_vars => TicketsKeepPurchase'
<1> SUFFICES ASSUME NotNull, StockInv, LinksKept, TicketsKeepPurchase, [Next]_vars,
                    NEW j \in Completers, batch'[j].of # NoOne
             PROVE  batch'[j].linked
    BY DEF TicketsKeepPurchase
<1>1. ASSUME NEW i \in Completers \cup Hooks, MayRelink(i), batch[j].of # NoOne
      PROVE  IsLinked(i, j)
    BY <1>1 DEF MayRelink, IsLinked, TicketsKeepPurchase
<1>2. ASSUME NEW h \in Hooks, HookCommit(h)
      PROVE  MayRelink(h)
    BY <1>2 DEF HookCommit, LinksKept, InTransaction
<1>3. TypeOK
    BY DEF StockInv
<1> QED
    BY <1>1, <1>2, <1>3, BatchStep DEF TicketsKeepPurchase

LEMMA KeptInit == Init => TicketsKeepPurchase
BY DEF Init, TicketsKeepPurchase, NoBatch

\* TicketsKeepPurchase always holds in the migrations' schema: an entity saved
\* late, without the tickets that were issued since it was loaded, cannot detach
\* them.
THEOREM TicketsKept == NotNull => (Spec => []TicketsKeepPurchase)
<1> SUFFICES ASSUME NotNull PROVE Spec => []TicketsKeepPurchase
    OBVIOUS
<1> QED
    BY KeptInit, KeptStep, InitStock, StepStock, LinksInit, LinksStep, PTL DEF Spec

-----------------------------------------------------------------------------
(* Sums of quantities.                                                     *)

\* Of a set of subsets of a finite set, one has no other below it.
LEMMA Smallest ==
    ASSUME NEW S, IsFiniteSet(S), NEW Bad, Bad \subseteq SUBSET S, Bad # {}
    PROVE  \E U \in Bad : \A V \in Bad : V \subseteq U => V = U
<1>1. IsWellFoundedOn(StrictSubsetOrdering(S), SUBSET S)
    BY FS_StrictSubsetOrderingWellFounded, FS_FiniteSubsetsOfFinite
<1>2. PICK U \in Bad : \A V \in Bad : <<V, U>> \notin StrictSubsetOrdering(S)
    BY <1>1, WFMin
<1> QED
    BY <1>2 DEF StrictSubsetOrdering

\* The element that a sum takes first, and that f is the sum's recursion on the
\* subsets of S.
First(s) == CHOOSE p \in s : TRUE
Sums(f, S) ==
    f = [s \in SUBSET S |-> IF s = {} THEN 0 ELSE Qty[First(s)] + f[s \ {First(s)}]]

\* A sum of quantities is the value of its recursion.
LEMMA QtyOfSums ==
    ASSUME NEW S
    PROVE  QtyOf(S) = (CHOOSE f : Sums(f, S))[S]
BY DEF QtyOf, MapThenSumSet, MapThenFoldSet, Sums, First

\* Two recursions agree where both are defined.
LEMMA SumsAgree ==
    ASSUME NEW S, NEW U, NEW f, NEW g, Sums(f, S), Sums(g, U),
           NEW T, T \subseteq S, T \subseteq U, IsFiniteSet(T)
    PROVE  f[T] = g[T]
<1> DEFINE Bad == {V \in SUBSET T : f[V] # g[V]}
<1> SUFFICES ASSUME Bad # {} PROVE FALSE
    OBVIOUS
<1>1. PICK V \in Bad : \A W \in Bad : W \subseteq V => W = V
  <2>1. Bad \subseteq SUBSET T
      OBVIOUS
  <2> HIDE DEF Bad
  <2> QED
      BY <2>1, Smallest
<1>2. V \in SUBSET S /\ V \in SUBSET U
    BY <1>1
<1>3. /\ f[V] = IF V = {} THEN 0 ELSE Qty[First(V)] + f[V \ {First(V)}]
      /\ g[V] = IF V = {} THEN 0 ELSE Qty[First(V)] + g[V \ {First(V)}]
    BY <1>2 DEF Sums
<1>4. CASE V = {}
    BY <1>1, <1>3, <1>4
<1>5. CASE V # {}
  <2>1. First(V) \in V
      BY <1>5 DEF First
  <2>2. V \ {First(V)} \notin Bad
      BY <1>1, <2>1
  <2> QED
      BY <1>1, <1>3, <1>5, <2>2
<1> QED
    BY <1>4, <1>5

\* The recursion of a finite set exists.
LEMMA SumsExist ==
    ASSUME NEW S, IsFiniteSet(S)
    PROVE  \E f : Sums(f, S)
<1> DEFINE Bad == {U \in SUBSET S : ~ \E f : Sums(f, U)}
<1> SUFFICES ASSUME Bad # {} PROVE FALSE
    OBVIOUS
<1>1. PICK U \in Bad : \A V \in Bad : V \subseteq U => V = U
  <2>1. Bad \subseteq SUBSET S
      OBVIOUS
  <2> HIDE DEF Bad
  <2> QED
      BY <2>1, Smallest
<1> DEFINE g(T) == CHOOSE f : Sums(f, T)
           F == [s \in SUBSET U |-> IF s = {} THEN 0
                                    ELSE Qty[First(s)] + g(s \ {First(s)})[s \ {First(s)}]]
<1>2. ASSUME NEW T \in SUBSET U, T # U
      PROVE  Sums(g(T), T) /\ IsFiniteSet(T)
  <2>1. T \notin Bad
      BY <1>1, <1>2
  <2>2. \E f : Sums(f, T)
      BY <1>1, <2>1
  <2> QED
      BY <1>1, <2>2, FS_Subset
<1>3. ASSUME NEW T \in SUBSET U, T # U
      PROVE  F[T] = g(T)[T]
  <2>1. g(T)[T] = IF T = {} THEN 0 ELSE Qty[First(T)] + g(T)[T \ {First(T)}]
    <3>1. Sums(g(T), T)
        BY <1>2, <1>3
    <3> HIDE DEF g
    <3> QED
        BY <3>1 DEF Sums
  <2>2. CASE T = {}
      BY <2>1, <2>2
  <2>3. CASE T # {}
    <3>1. First(T) \in T
        BY <2>3 DEF First
    <3> DEFINE W == T \ {First(T)}
    <3>2. W \in SUBSET U /\ W # U /\ W \subseteq T
        BY <1>3, <3>1
    <3>3. Sums(g(W), W) /\ Sums(g(T), T) /\ IsFiniteSet(W)
        BY <1>2, <1>3, <3>2
    <3>4. g(T)[W] = g(W)[W]
      <4> HIDE DEF g, W
      <4> QED
          BY <3>2, <3>3, SumsAgree
    <3>5. F[T] = Qty[First(T)] + g(W)[W]
        BY <1>3, <2>3
    <3> QED
        BY <2>1, <2>3, <3>4, <3>5
  <2> QED
      BY <2>2, <2>3
<1>4. Sums(F, U)
  <2>1. ASSUME NEW s \in SUBSET U, s # {}
        PROVE  g(s \ {First(s)})[s \ {First(s)}] = F[s \ {First(s)}]
    <3>1. First(s) \in s
        BY <2>1 DEF First
    <3>2. s \ {First(s)} \in SUBSET U /\ s \ {First(s)} # U
        BY <3>1
    <3> HIDE DEF F, g
    <3> QED
        BY <3>2, <1>3
  <2> DEFINE h(s) == IF s = {} THEN 0 ELSE Qty[First(s)] + g(s \ {First(s)})[s \ {First(s)}]
             k(s) == IF s = {} THEN 0 ELSE Qty[First(s)] + F[s \ {First(s)}]
  <2>2. F = [s \in SUBSET U |-> k(s)]
    <3>1. F = [s \in SUBSET U |-> h(s)]
        OBVIOUS
    <3>2. ASSUME NEW s \in SUBSET U
          PROVE  h(s) = k(s)
      <4>1. s # {} => g(s \ {First(s)})[s \ {First(s)}] = F[s \ {First(s)}]
          BY <2>1
      <4> HIDE DEF F, g
      <4> QED
          BY <4>1
    <3> HIDE DEF F, h, k
    <3> QED
        BY <3>1, <3>2
  <2> HIDE DEF F
  <2> QED
      BY <2>2 DEF Sums
<1> HIDE DEF F
<1> QED
    BY <1>1, <1>4

\* The sum of a finite set is its first element's quantity and the sum of the rest.
LEMMA QtyOfIs ==
    ASSUME NEW S, IsFiniteSet(S)
    PROVE  /\ S = {} => QtyOf(S) = 0
           /\ S # {} => First(S) \in S /\ QtyOf(S) = Qty[First(S)] + QtyOf(S \ {First(S)})
<1> DEFINE g(T) == CHOOSE f : Sums(f, T)
<1>1. Sums(g(S), S)
    BY SumsExist
<1>2. QtyOf(S) = g(S)[S]
    BY QtyOfSums
<1>3. QtyOf(S) = IF S = {} THEN 0 ELSE Qty[First(S)] + g(S)[S \ {First(S)}]
  <2> HIDE DEF g
  <2> QED
      BY <1>1, <1>2 DEF Sums
<1>4. CASE S # {}
  <2> DEFINE W == S \ {First(S)}
  <2>1. First(S) \in S
      BY <1>4 DEF First
  <2>2. IsFiniteSet(W) /\ W \subseteq S
      BY FS_Subset
  <2>3. Sums(g(W), W) /\ QtyOf(W) = g(W)[W]
      BY <2>2, SumsExist, QtyOfSums
  <2> HIDE DEF g, W
  <2>4. g(S)[W] = g(W)[W]
      BY <1>1, <2>2, <2>3, SumsAgree
  <2> QED
      BY <1>3, <1>4, <2>1, <2>3, <2>4 DEF W
<1> QED
    BY <1>3, <1>4

\* A sum of quantities is a natural number.
LEMMA QtyOfNat ==
    ASSUME NEW S \in SUBSET Purchases, IsFiniteSet(S)
    PROVE  QtyOf(S) \in Nat
<1> DEFINE Bad == {U \in SUBSET S : QtyOf(U) \notin Nat}
<1> SUFFICES ASSUME Bad # {} PROVE FALSE
    OBVIOUS
<1>1. PICK U \in Bad : \A V \in Bad : V \subseteq U => V = U
  <2>1. Bad \subseteq SUBSET S
      OBVIOUS
  <2> HIDE DEF Bad
  <2> QED
      BY <2>1, Smallest
<1>2. IsFiniteSet(U)
    BY <1>1, FS_Subset
<1>3. U # {}
  <2>1. U = {} => QtyOf(U) = 0
      BY <1>2, QtyOfIs
  <2> QED
      BY <1>1, <2>1
<1>4. First(U) \in U /\ QtyOf(U) = Qty[First(U)] + QtyOf(U \ {First(U)})
    BY <1>2, <1>3, QtyOfIs
<1>5. QtyOf(U \ {First(U)}) \in Nat
    BY <1>1, <1>4
<1>6. Qty[First(U)] \in Nat
    BY <1>1, <1>4, QuantityAssumption
<1> QED
    BY <1>1, <1>4, <1>5, <1>6

\* Whichever element is taken out, the sum is lower by its quantity.
LEMMA QtyOfWithout ==
    ASSUME NEW S \in SUBSET Purchases, IsFiniteSet(S), NEW q \in S
    PROVE  QtyOf(S) = Qty[q] + QtyOf(S \ {q})
<1> DEFINE Bad == {U \in SUBSET S : \E p \in U : QtyOf(U) # Qty[p] + QtyOf(U \ {p})}
<1> SUFFICES ASSUME Bad # {} PROVE FALSE
    OBVIOUS
<1>1. PICK U \in Bad : \A V \in Bad : V \subseteq U => V = U
  <2>1. Bad \subseteq SUBSET S
      OBVIOUS
  <2> HIDE DEF Bad
  <2> QED
      BY <2>1, Smallest
<1>2. PICK p \in U : QtyOf(U) # Qty[p] + QtyOf(U \ {p})
    BY <1>1
<1>3. IsFiniteSet(U)
    BY <1>1, FS_Subset
<1> DEFINE c == First(U)
<1>4. c \in U /\ QtyOf(U) = Qty[c] + QtyOf(U \ {c})
    BY <1>2, <1>3, QtyOfIs
<1>5. p # c
    BY <1>2, <1>4
<1> DEFINE W == U \ {p, c}
<1>6. (U \ {c}) \ {p} = W /\ (U \ {p}) \ {c} = W
    OBVIOUS
<1>7. QtyOf(U \ {c}) = Qty[p] + QtyOf(W)
    BY <1>1, <1>4, <1>5, <1>6
<1>8. QtyOf(U \ {p}) = Qty[c] + QtyOf(W)
    BY <1>1, <1>4, <1>5, <1>6
<1>9. Qty[p] \in Nat /\ Qty[c] \in Nat
    BY <1>1, <1>4, QuantityAssumption
<1>10. QtyOf(W) \in Nat
  <2>1. W \in SUBSET Purchases /\ IsFiniteSet(W)
      BY <1>1, <1>3, FS_Subset
  <2> QED
      BY <2>1, QtyOfNat
<1> QED
    BY <1>2, <1>4, <1>7, <1>8, <1>9, <1>10

-----------------------------------------------------------------------------
(* The reservations.                                                       *)

\* Checkouts and direct purchases, of any number, and one run of the cleanup.
CheckoutsOnly ==
    /\ IsFiniteSet(Purchases)
    /\ Hooks = {} /\ Confirms = {} /\ Edits = {}
    /\ \A s, t \in Sweeps : s = t

\* A request's row is inserted with its reservation and stays PENDING as long as the
\* request may still save it.
Inserted ==
    \A b \in Buyers :
      /\ pc[b] \in {"idle", "reserve"} => status[b] = "NONE"
      /\ pc[b] \in {"prefer", "answer"} => status[b] = "PENDING"
\* What the cleanup has listed and not yet released is still reserved.
ListedPending ==
    \A s \in Sweeps : pc[s] = "release" =>
      buy[s] \in due[s] /\ \A p \in due[s] : status[p] = "PENDING"
\* The ticket webhook's calls of completePurchase do not happen.
NoCalls == \A c \in Calls : pc[c] = "idle"

ExactInv == ReservationsExact /\ Inserted /\ ListedPending /\ NoCalls

\* At the start the PENDING purchases are those stored with their event.
LEMMA InitExact == CheckoutsOnly /\ Init => ExactInv
<1> SUFFICES ASSUME CheckoutsOnly, Init PROVE ExactInv
    OBVIOUS
<1>1. {p \in Purchases : status[p] = "PENDING"} = Legacy
    BY RowsAssumption DEF Init
<1>2. ReservationsExact
    BY <1>1 DEF Init, ReservationsExact
<1>3. Inserted /\ ListedPending /\ NoCalls
    BY Kinds DEF Init, Inserted, ListedPending, NoCalls, Buyers
<1> QED
    BY <1>2, <1>3 DEF ExactInv

\* A purchase that becomes PENDING adds its quantity to what is reserved.
LEMMA ReservedMore ==
    ASSUME CheckoutsOnly, StockInv, NEW b \in Purchases, status[b] # "PENDING",
           status' = [status EXCEPT ![b] = "PENDING"], ReservationsExact,
           stock'.sold = stock.sold + Qty[b]
    PROVE  ReservationsExact'
<1> DEFINE A == {p \in Purchases : status[p] = "PENDING"}
           B == {p \in Purchases : status'[p] = "PENDING"}
<1>1. B \subseteq Purchases /\ b \in B /\ B \ {b} = A
    BY DEF StockInv, TypeOK
<1>2. IsFiniteSet(B) /\ IsFiniteSet(A)
    BY FS_Subset DEF CheckoutsOnly
<1>3. stock.sold = QtyOf(A)
    BY DEF ReservationsExact
<1> HIDE DEF A, B
<1>4. QtyOf(B) = Qty[b] + QtyOf(A)
    BY <1>1, <1>2, QtyOfWithout
<1>5. Qty[b] \in Nat /\ stock.sold \in Nat
    BY QuantityAssumption DEF StockInv, TypeOK
<1>6. stock'.sold = QtyOf(B)
    BY <1>3, <1>4, <1>5
<1> QED
    BY <1>6 DEF ReservationsExact, B

\* A PENDING purchase that is released takes its quantity away.
LEMMA ReservedLess ==
    ASSUME CheckoutsOnly, StockInv, NEW b \in Purchases, status[b] = "PENDING",
           status' = [status EXCEPT ![b] = "FAILED"], ReservationsExact,
           stock'.sold = Less(stock.sold, Qty[b])
    PROVE  ReservationsExact'
<1> DEFINE A == {p \in Purchases : status[p] = "PENDING"}
           B == {p \in Purchases : status'[p] = "PENDING"}
<1>1. A \subseteq Purchases /\ b \in A /\ A \ {b} = B
    BY DEF StockInv, TypeOK
<1>2. IsFiniteSet(A) /\ IsFiniteSet(B) /\ B \subseteq Purchases
    BY FS_Subset DEF CheckoutsOnly
<1>3. stock.sold = QtyOf(A)
    BY DEF ReservationsExact
<1> HIDE DEF A, B
<1>4. QtyOf(A) = Qty[b] + QtyOf(B) /\ QtyOf(B) \in Nat
    BY <1>1, <1>2, QtyOfWithout, QtyOfNat
<1>5. Qty[b] \in Nat
    BY QuantityAssumption
<1>6. stock'.sold = QtyOf(B)
    BY <1>3, <1>4, <1>5 DEF Less
<1> QED
    BY <1>6 DEF ReservationsExact, B

\* What changes neither leaves the two equal.
LEMMA ReservedSame ==
    ASSUME ReservationsExact, status' = status, stock'.sold = stock.sold
    PROVE  ReservationsExact'
BY DEF ReservationsExact

\* One step per action: only a reservation and a release change what is sold.
LEMMA StepExact ==
    CheckoutsOnly /\ StockInv /\ SaleInv /\ ExactInv /\ [Next]_vars => ExactInv'
<1> SUFFICES ASSUME CheckoutsOnly, StockInv, SaleInv, ExactInv, [Next]_vars PROVE ExactInv'
    OBVIOUS
<1> USE DEF db, entity, typeEntity
<1>0. ReservationsExact /\ Inserted /\ ListedPending /\ NoCalls
    BY DEF ExactInv
<1>t. /\ pc \in [Procs -> Label] /\ status \in [Purchases -> PurchaseStatus]
      /\ buy \in [Procs -> Purchases \cup {NoOne}] /\ due \in [Sweeps -> SUBSET Purchases]
      /\ stock \in [total : Nat, sold : Nat]
    BY DEF StockInv, TypeOK
<1>d. /\ Hooks = {} /\ Confirms = {} /\ Edits = {} /\ Completers = Direct \cup Calls
      /\ Buyers \cap Calls = {} /\ Buyers \cap Sweeps = {} /\ Calls \cap Sweeps = {}
      /\ Direct \subseteq Buyers /\ Buyers \subseteq Purchases /\ Buyers \cap Legacy = {}
    BY RowsAssumption, ProcsAssumption DEF CheckoutsOnly, Completers, Buyers
<1>1. ASSUME NEW b \in Buyers, Request(b) \/ CreatePreference(b)
      PROVE  ExactInv'
  <2>1. ReservationsExact'
      BY <1>0, <1>1, ReservedSame DEF Request, CreatePreference
  <2>2. Inserted' /\ ListedPending' /\ NoCalls'
      BY <1>0, <1>1, <1>t, <1>d, Kinds
      DEF Request, CreatePreference, Inserted, ListedPending, NoCalls, Go
  <2> QED
      BY <2>1, <2>2 DEF ExactInv
<1>2. ASSUME NEW b \in Buyers, CreatePendingPurchase(b)
      PROVE  ExactInv'
  <2>1. CASE UNCHANGED <<stock, status>>
    <3>1. ReservationsExact'
        BY <1>0, <2>1, ReservedSame
    <3>2. pc' = [pc EXCEPT ![b] = "failed"] \/ status[b] = "PENDING"
        BY <1>2, <1>t, <1>d, <2>1 DEF CreatePendingPurchase, Go
    <3>3. Inserted' /\ ListedPending' /\ NoCalls'
        BY <1>0, <1>2, <1>t, <1>d, <2>1, <3>2, Kinds
        DEF CreatePendingPurchase, Inserted, ListedPending, NoCalls
    <3> QED
        BY <3>1, <3>3 DEF ExactInv
  <2>2. CASE ~UNCHANGED <<stock, status>>
    <3>1. /\ status' = [status EXCEPT ![b] = "PENDING"] /\ status[b] = "NONE"
          /\ stock' = [stock EXCEPT !.sold = @ + Qty[b]]
          /\ pc' = [pc EXCEPT ![b] = IF b \in Direct THEN "load" ELSE "prefer"]
          /\ UNCHANGED <<buy, due>>
        BY <1>0, <1>2, <2>2 DEF CreatePendingPurchase, Inserted, Go
    <3>2. ReservationsExact'
        BY <1>0, <1>t, <1>d, <3>1, ReservedMore
    <3>3. Inserted' /\ ListedPending' /\ NoCalls'
        BY <1>0, <1>t, <1>d, <3>1, Kinds DEF Inserted, ListedPending, NoCalls
    <3> QED
        BY <3>2, <3>3 DEF ExactInv
  <2> QED
      BY <2>1, <2>2
<1>3. ASSUME NEW b \in Buyers, Answer(b)
      PROVE  ExactInv'
  <2>1. UNCHANGED <<status, stock, due, buy>>
      BY <1>0, <1>3, <1>t, <1>d DEF Answer, Inserted
  <2>2. ReservationsExact'
      BY <1>0, <2>1, ReservedSame
  <2>3. Inserted' /\ ListedPending' /\ NoCalls'
      BY <1>0, <1>3, <1>t, <1>d, <2>1, Kinds DEF Answer, Inserted, ListedPending, NoCalls, Go
  <2> QED
      BY <2>2, <2>3 DEF ExactInv
<1>4. ASSUME NEW c \in Completers, CompleteStep(c)
      PROVE  ExactInv'
\* The purchase of a direct request has no event, and no tickets are issued of it.
  <2>1. c \in Direct /\ buy[c] = c
      BY <1>0, <1>4, <1>d DEF CompleteStep, CompleteLoad, CompleteSelect, CompleteIssue,
                              NoCalls, SaleInv, Unsettled
  <2>2. UNCHANGED <<status, stock, due, buy>>
      BY <1>4, <2>1, <1>d DEF CompleteStep, CompleteLoad, CompleteSelect, CompleteIssue, HasEvent
  <2>3. PICK l \in {"done", "diff", "issue", "failed"} : pc' = [pc EXCEPT ![c] = l]
      BY <1>4, <2>1, <1>d DEF CompleteStep, CompleteLoad, CompleteSelect, CompleteIssue, Go
  <2>4. ReservationsExact'
      BY <1>0, <2>2, ReservedSame
  <2>5. Inserted' /\ ListedPending' /\ NoCalls'
      BY <1>0, <1>t, <1>d, <2>1, <2>2, <2>3, Kinds DEF Inserted, ListedPending, NoCalls
  <2> QED
      BY <2>4, <2>5 DEF ExactInv
<1>5. ASSUME NEW s \in Sweeps, SweepList(s)
      PROVE  ExactInv'
  <2>1. UNCHANGED <<status, stock>> /\ due'[s] \subseteq Expirable
      BY <1>5, <1>t DEF SweepList
  <2>2. pc'[s] = "release" => buy'[s] \in due'[s]
      BY <1>5, <1>t, Kinds DEF SweepList, Go
  <2>3. \A i \in Procs \ {s} : pc'[i] = pc[i]
      BY <1>5, <1>t DEF SweepList, Go
  <2>4. ReservationsExact'
      BY <1>0, <2>1, ReservedSame
  <2>5. Inserted' /\ NoCalls'
      BY <1>0, <1>d, <2>1, <2>3, Kinds DEF Inserted, NoCalls
  <2>6. ListedPending'
      BY <1>t, <2>1, <2>2 DEF ListedPending, Expirable, CheckoutsOnly
  <2> QED
      BY <2>4, <2>5, <2>6 DEF ExactInv
<1>6. ASSUME NEW s \in Sweeps, SweepRelease(s)
      PROVE  ExactInv'
  <2>1. buy[s] \in due[s] /\ \A p \in due[s] : status[p] = "PENDING"
      BY <1>0, <1>6 DEF SweepRelease, ListedPending
  <2>2. buy[s] \in Purchases /\ status[buy[s]] = "PENDING" /\ Over(buy[s])
      BY <1>t, <2>1 DEF SaleInv, ListedOver
  <2>3. /\ \A i \in Procs \ {s} : pc'[i] = pc[i]
        /\ due'[s] = due[s] \ {buy[s]}
        /\ pc'[s] = "release" => buy'[s] \in due'[s]
      BY <1>6, <1>t, Kinds DEF SweepRelease, Go
  <2>4. /\ \A p \in Purchases \ {buy[s]} : status'[p] = status[p]
        /\ ReservationsExact'
    <3>1. CASE UNCHANGED <<status, stock>>
        BY <1>0, <3>1, ReservedSame
    <3>2. CASE ~UNCHANGED <<status, stock>>
      <4>1. /\ status' = [status EXCEPT ![buy[s]] = "FAILED"]
            /\ stock' = [stock EXCEPT !.sold = Less(@, Qty[buy[s]])]
          BY <1>6, <3>2 DEF SweepRelease
      <4>2. stock'.sold = Less(stock.sold, Qty[buy[s]])
          BY <1>t, <4>1
      <4> QED
          BY <1>0, <1>t, <2>2, <4>1, <4>2, ReservedLess
    <3> QED
        BY <3>1, <3>2
  <2>5. Inserted'
      BY <1>0, <1>d, <2>2, <2>3, <2>4, Kinds DEF Inserted, Over, Finished
  <2>6. NoCalls'
      BY <1>0, <1>d, <2>3, Kinds DEF NoCalls
  <2>7. ListedPending'
      BY <1>t, <2>1, <2>3, <2>4 DEF ListedPending, CheckoutsOnly
  <2> QED
      BY <2>4, <2>5, <2>6, <2>7 DEF ExactInv
<1>7. CASE Crash
  <2>1. ReservationsExact'
      BY <1>0, <1>7, ReservedSame DEF Crash
  <2>2. Inserted' /\ ListedPending' /\ NoCalls'
      BY <1>0, <1>7, <1>t, <1>d, Kinds DEF Crash, Inserted, ListedPending, NoCalls, Finished
  <2> QED
      BY <2>1, <2>2 DEF ExactInv
<1>8. ASSUME UNCHANGED <<stock, status, pc, buy, due>>
      PROVE  ExactInv'
  <2>1. ReservationsExact'
      BY <1>0, <1>8, ReservedSame
  <2>2. Inserted' /\ ListedPending' /\ NoCalls'
      BY <1>0, <1>8 DEF Inserted, ListedPending, NoCalls
  <2> QED
      BY <2>1, <2>2 DEF ExactInv
<1>9. ASSUME NEW p \in Purchases, Settle(p)
      PROVE  ExactInv'
    BY <1>8, <1>9 DEF Settle
<1>10. CASE UNCHANGED vars
    BY <1>8, <1>10 DEF vars
<1> QED
    BY <1>1, <1>2, <1>3, <1>4, <1>5, <1>6, <1>7, <1>9, <1>10, <1>d DEF Next, BuyerStep

\* ReservationsExact always holds, of any number of checkouts and direct purchases
\* next to one run of the cleanup: what is sold is what the PENDING purchases ask
\* for, whichever of them fail or are released, and wherever the server stops.
THEOREM ReservationsKept == CheckoutsOnly => (Spec => []ReservationsExact)
<1> SUFFICES ASSUME CheckoutsOnly PROVE Spec => []ReservationsExact
    OBVIOUS
<1>1. ExactInv => ReservationsExact
    BY DEF ExactInv
<1> QED
    BY <1>1, InitExact, StepExact, SaleHolds, PTL DEF Spec

\* Checkouts and payments of any number, confirmed in any order and repeatedly.
PaymentsOnly ==
    /\ IsFiniteSet(Purchases)
    /\ Hooks = {} /\ Sweeps = {} /\ Edits = {}

\* Every purchase that has been inserted is sold, and none is released.
SoldInv ==
    /\ stock.sold = QtyOf({p \in Purchases : status[p] # "NONE"})
    /\ \A p \in Purchases : status[p] \in {"NONE", "PENDING", "COMPLETED"}
    /\ \A p \in Legacy : status[p] # "NONE"
    /\ \A b \in Buyers :
         /\ pc[b] \in {"idle", "reserve"} => status[b] = "NONE"
         /\ pc[b] \in {"prefer", "answer"} => status[b] # "NONE"

\* At the start the purchases inserted are those stored with their event.
LEMMA InitSold == PaymentsOnly /\ Init => SoldInv
<1> SUFFICES ASSUME PaymentsOnly, Init PROVE SoldInv
    OBVIOUS
<1>1. {p \in Purchases : status[p] # "NONE"} = Legacy
    BY RowsAssumption DEF Init
<1>2. stock.sold = QtyOf({p \in Purchases : status[p] # "NONE"})
    BY <1>1 DEF Init
<1> QED
    BY <1>2, Kinds, RowsAssumption DEF Init, SoldInv, Buyers

\* A step that inserts nothing and releases nothing sells nothing.
LEMMA SoldSame ==
    ASSUME SoldInv, stock'.sold = stock.sold,
           \A p \in Purchases : \/ status'[p] = status[p]
                                \/ status[p] # "NONE" /\ status'[p] \in {"PENDING", "COMPLETED"},
           \A b \in Buyers : pc'[b] \in {"idle", "reserve", "prefer", "answer"} =>
             \/ pc'[b] = pc[b]
             \/ {pc[b], pc'[b]} \subseteq {"idle", "reserve"}
             \/ {pc[b], pc'[b]} \subseteq {"prefer", "answer"},
           \A b \in Buyers : pc'[b] \in {"idle", "reserve"} => status'[b] = status[b]
    PROVE  SoldInv'
<1> USE DEF SoldInv
<1>1. {p \in Purchases : status'[p] # "NONE"} = {p \in Purchases : status[p] # "NONE"}
    OBVIOUS
<1>2. stock'.sold = QtyOf({p \in Purchases : status'[p] # "NONE"})
    BY <1>1
<1>3. Legacy \subseteq Purchases /\ Buyers \subseteq Purchases
    BY RowsAssumption DEF Buyers
<1> QED
    BY <1>2, <1>3

\* One step per action: only CreatePendingPurchase inserts.
LEMMA StepSold == PaymentsOnly /\ StockInv /\ SoldInv /\ [Next]_vars => SoldInv'
<1> SUFFICES ASSUME PaymentsOnly, StockInv, SoldInv, [Next]_vars PROVE SoldInv'
    OBVIOUS
<1> USE DEF db, entity, typeEntity
<1>t. /\ pc \in [Procs -> Label] /\ status \in [Purchases -> PurchaseStatus]
      /\ stock \in [total : Nat, sold : Nat]
    BY DEF StockInv, TypeOK
<1>d. /\ Hooks = {} /\ Sweeps = {} /\ Edits = {} /\ Buyers \subseteq Purchases
      /\ Buyers \cap (Calls \cup Confirms) = {} /\ Completers = Direct \cup Calls \cup Confirms
      /\ Direct \subseteq Buyers /\ Legacy \subseteq Purchases
    BY RowsAssumption, ProcsAssumption DEF PaymentsOnly, Completers, Buyers
<1>1. ASSUME NEW b \in Buyers, Request(b) \/ CreatePreference(b)
      PROVE  SoldInv'
  <2>1. PICK l \in Label : /\ pc' = [pc EXCEPT ![b] = l]
                           /\ l = "failed" \/ (pc[b] = "idle" /\ l = "reserve")
                                \/ (pc[b] = "prefer" /\ l = "answer")
      BY <1>1 DEF Request, CreatePreference, Go, Label
  <2>2. UNCHANGED <<stock, status>>
      BY <1>1 DEF Request, CreatePreference
  <2> QED
      BY <1>t, <2>1, <2>2, Kinds, SoldSame
<1>2. ASSUME NEW b \in Buyers, CreatePendingPurchase(b)
      PROVE  SoldInv'
  <2>1. CASE UNCHANGED <<stock, status>>
    <3>1. PICK l \in Label : pc' = [pc EXCEPT ![b] = l]
        BY <1>2 DEF CreatePendingPurchase, Go, Label
    <3>2. status[b] = "NONE"
        BY <1>2 DEF CreatePendingPurchase, SoldInv
    <3>3. pc'[b] = "failed"
        BY <1>2, <1>t, <1>d, <2>1, <3>2, Kinds DEF CreatePendingPurchase, Go
    <3> QED
        BY <1>t, <2>1, <3>1, <3>3, Kinds, SoldSame
  <2>2. CASE ~UNCHANGED <<stock, status>>
    <3>1. /\ status' = [status EXCEPT ![b] = "PENDING"] /\ status[b] = "NONE"
          /\ stock' = [stock EXCEPT !.sold = @ + Qty[b]]
          /\ pc' = [pc EXCEPT ![b] = IF b \in Direct THEN "load" ELSE "prefer"]
        BY <1>2, <2>2 DEF CreatePendingPurchase, SoldInv, Go
    <3> DEFINE A == {p \in Purchases : status[p] # "NONE"}
               B == {p \in Purchases : status'[p] # "NONE"}
    <3>2. B \subseteq Purchases /\ b \in B /\ B \ {b} = A
        BY <1>t, <1>d, <3>1
    <3>3. IsFiniteSet(B) /\ IsFiniteSet(A) /\ A \subseteq Purchases
        BY FS_Subset DEF PaymentsOnly
    <3>4. stock.sold = QtyOf(A) /\ stock'.sold = stock.sold + Qty[b] /\ Qty[b] \in Nat
        BY <1>t, <1>d, <3>1, QuantityAssumption DEF SoldInv
    <3>5. stock'.sold = QtyOf(B)
      <4> HIDE DEF A, B
      <4>1. QtyOf(B) = Qty[b] + QtyOf(A) /\ QtyOf(A) \in Nat
          BY <3>2, <3>3, QtyOfWithout, QtyOfNat
      <4> QED
          BY <3>4, <4>1
    <3>6. /\ \A p \in Purchases : status'[p] \in {"NONE", "PENDING", "COMPLETED"}
          /\ \A p \in Legacy : status'[p] # "NONE"
          /\ \A c \in Buyers : /\ pc'[c] \in {"idle", "reserve"} => status'[c] = "NONE"
                               /\ pc'[c] \in {"prefer", "answer"} => status'[c] # "NONE"
        BY <1>t, <1>d, <3>1, Kinds DEF SoldInv
    <3> QED
        BY <3>5, <3>6 DEF SoldInv
  <2> QED
      BY <2>1, <2>2
<1>3. ASSUME NEW b \in Buyers, Answer(b)
      PROVE  SoldInv'
  <2>1. /\ status' = [status EXCEPT ![b] = "PENDING"] /\ status[b] # "NONE"
        /\ UNCHANGED stock
      BY <1>3 DEF Answer, SoldInv
  <2>2. PICK l \in {"done", "failed"} : pc' = [pc EXCEPT ![b] = l]
      BY <1>3 DEF Answer, Go
  <2> QED
      BY <1>t, <1>d, <2>1, <2>2, Kinds, SoldSame DEF SoldInv
<1>4. ASSUME NEW c \in Completers, CompleteStep(c)
      PROVE  SoldInv'
  <2>1. PICK l \in {"done", "diff", "issue", "failed"} : pc' = [pc EXCEPT ![c] = l]
      BY <1>4 DEF CompleteStep, CompleteLoad, CompleteSelect, CompleteIssue, Go
  <2>2. UNCHANGED stock
      BY <1>4 DEF CompleteStep, CompleteLoad, CompleteSelect, CompleteIssue
  <2>3. \A p \in Purchases : \/ status'[p] = status[p]
                             \/ status[p] # "NONE" /\ status'[p] = "COMPLETED"
                                /\ p \in Legacy
    <3>1. CASE UNCHANGED status
        BY <3>1
    <3>2. CASE ~UNCHANGED status
      <4>1. HasEvent(buy[c]) /\ status' = [status EXCEPT ![buy[c]] = IF upd[c] THEN "COMPLETED" ELSE @]
          BY <1>4, <3>2 DEF CompleteStep, CompleteLoad, CompleteSelect, CompleteIssue
      <4> QED
          BY <1>t, <1>d, <4>1 DEF HasEvent, SoldInv
    <3> QED
        BY <3>1, <3>2
  <2> QED
      BY <1>t, <1>d, <2>1, <2>2, <2>3, Kinds, SoldSame DEF Buyers
<1>5. ASSUME UNCHANGED <<stock, status>>,
             \/ UNCHANGED pc
             \/ \E c \in Confirms : pc' = [pc EXCEPT ![c] = "load"]
             \/ pc' = [i \in Procs |-> IF pc[i] \in Finished \cup {"idle"} THEN pc[i] ELSE "crashed"]
      PROVE  SoldInv'
  <2>1. \A b \in Buyers : pc'[b] \in {pc[b], "crashed"}
      BY <1>5, <1>t, <1>d, Kinds
  <2> QED
      BY <1>5, <2>1, SoldSame
<1>6. ASSUME NEW p \in Purchases, Settle(p)
      PROVE  SoldInv'
    BY <1>5, <1>6 DEF Settle
<1>7. ASSUME NEW c \in Confirms, NEW p \in Purchases, ConfirmTicketPayment(c, p)
      PROVE  SoldInv'
    BY <1>5, <1>7 DEF ConfirmTicketPayment, Go
<1>8. CASE Crash \/ UNCHANGED vars
    BY <1>5, <1>8 DEF Crash, vars
<1> QED
    BY <1>1, <1>2, <1>3, <1>4, <1>6, <1>7, <1>8, <1>d DEF Next, BuyerStep

\* Without the webhooks no purchase is ever COMPLETED: a direct request's purchase
\* has no event, so that its tickets are never issued.
NoneCompleted == \A p \in Purchases : status[p] # "COMPLETED"

LEMMA StepNoneCompleted ==
    CheckoutsOnly /\ StockInv /\ SaleInv /\ ExactInv /\ NoneCompleted /\ [Next]_vars
      => NoneCompleted'
<1> SUFFICES ASSUME CheckoutsOnly, StockInv, SaleInv, ExactInv, NoneCompleted, [Next]_vars
             PROVE  NoneCompleted'
    OBVIOUS
<1> USE DEF db, entity, typeEntity
<1>t. status \in [Purchases -> PurchaseStatus] /\ pc \in [Procs -> Label]
    BY DEF StockInv, TypeOK
<1>d. /\ Hooks = {} /\ Confirms = {} /\ Edits = {} /\ Completers = Direct \cup Calls
      /\ Direct \subseteq Buyers /\ NoCalls
    BY RowsAssumption DEF CheckoutsOnly, Completers, ExactInv
<1>1. ASSUME \/ UNCHANGED status
             \/ \E p \in Purchases : \E v \in {"PENDING", "FAILED"} :
                  status' = [status EXCEPT ![p] = v]
      PROVE  NoneCompleted'
    BY <1>1, <1>t DEF NoneCompleted
<1>2. ASSUME NEW b \in Buyers, BuyerStep(b)
      PROVE  NoneCompleted'
    BY <1>1, <1>2 DEF BuyerStep, Request, CreatePendingPurchase, CreatePreference, Answer, Buyers
<1>3. ASSUME NEW c \in Completers, CompleteStep(c)
      PROVE  NoneCompleted'
  <2>1. c \in Direct /\ buy[c] = c
      BY <1>3, <1>d DEF CompleteStep, CompleteLoad, CompleteSelect, CompleteIssue,
                        NoCalls, SaleInv, Unsettled
  <2>2. UNCHANGED status
      BY <1>3, <2>1, RowsAssumption
      DEF CompleteStep, CompleteLoad, CompleteSelect, CompleteIssue, HasEvent, Buyers
  <2> QED
      BY <1>1, <2>2
<1>4. ASSUME NEW s \in Sweeps, SweepList(s) \/ SweepRelease(s)
      PROVE  NoneCompleted'
  <2>1. pc[s] = "release" => buy[s] \in Purchases
      BY <1>4, Kinds DEF ExactInv, ListedPending, SaleInv, StockInv, TypeOK, ListedOver
  <2> QED
      BY <1>1, <1>4, <2>1 DEF SweepList, SweepRelease
<1>5. CASE Crash \/ (\E p \in Purchases : Settle(p)) \/ UNCHANGED vars
    BY <1>1, <1>5 DEF Crash, Settle, vars
<1> QED
    BY <1>2, <1>3, <1>4, <1>5, <1>d DEF Next

\* NoOverselling always holds as long as nothing is released while payments come
\* in: next to one run of the cleanup without payments, or with payments, of any
\* number and confirmed repeatedly, without the cleanup and the ticket webhook.
THEOREM NeverOversold == CheckoutsOnly \/ PaymentsOnly => (Spec => []NoOverselling)
<1>1. ASSUME PaymentsOnly PROVE Spec => []NoOverselling
  <2> DEFINE A == {p \in Purchases : status[p] \in {"PENDING", "COMPLETED"}}
  <2>1. StockInv /\ SoldInv => NoOverselling
    <3> SUFFICES ASSUME StockInv, SoldInv PROVE QtyOf(A) <= stock.total
        BY DEF NoOverselling
    <3>1. A = {p \in Purchases : status[p] # "NONE"}
        BY DEF SoldInv
    <3> QED
        BY <3>1 DEF SoldInv, StockInv, StockWithinCapacity
  <2> QED
      BY <1>1, <2>1, InitSold, StepSold, SaleHolds, PTL DEF Spec
<1>2. ASSUME CheckoutsOnly PROVE Spec => []NoOverselling
  <2> DEFINE A == {p \in Purchases : status[p] \in {"PENDING", "COMPLETED"}}
  <2>1. StockInv /\ ExactInv /\ NoneCompleted => NoOverselling
    <3> SUFFICES ASSUME StockInv, ExactInv, NoneCompleted PROVE QtyOf(A) <= stock.total
        BY DEF NoOverselling
    <3>1. A = {p \in Purchases : status[p] = "PENDING"}
        BY DEF NoneCompleted
    <3> QED
        BY <3>1 DEF ExactInv, ReservationsExact, StockInv, StockWithinCapacity
  <2>2. Init => NoneCompleted
      BY DEF Init, NoneCompleted
  <2> QED
      BY <1>2, <2>1, <2>2, InitExact, StepExact, StepNoneCompleted, SaleHolds, PTL DEF Spec
<1> QED
    BY <1>1, <1>2

-----------------------------------------------------------------------------
(* Stock that is not sold for good.                                        *)

\* The handlers that set soldQuantity from a read without a lock do not come: the
\* organizer's edit, and the ticket webhook for a refund or a failure.  Checkouts,
\* payments, the webhook for a processed order and runs of the cleanup may.
NoStaleWrites ==
    IsFiniteSet(Purchases) /\ Edits = {} /\ Actions \subseteq {"processed"}

\* The purchases that stock is counted for.
Backing == {p \in Purchases : status[p] \in {"PENDING", "COMPLETED"}}
\* A request's row is not there before its reservation.
Fresh == \A b \in Buyers : pc[b] \in {"idle", "reserve"} => status[b] = "NONE"
\* No webhook has come to releaseInventory.
NoRelease ==
    \A h \in Hooks : /\ cols[h] = {} /\ pc[h] \notin {"read", "recount"}
                     /\ pc[h] # "idle" => act[h] = "processed"

LeakInv == NothingLeaked /\ Fresh /\ NoRelease

\* At the start what is sold is what was stored as PENDING.
LEMMA InitLeak == NoStaleWrites /\ Init => LeakInv
<1> SUFFICES ASSUME NoStaleWrites, Init PROVE LeakInv
    OBVIOUS
<1>1. {p \in Purchases : status[p] \in {"PENDING", "COMPLETED"}} = Legacy
    BY RowsAssumption DEF Init
<1>2. NothingLeaked
  <2>1. stock.sold = QtyOf(Legacy) /\ QtyOf(Legacy) \in 0 .. Total
      BY QuantityAssumption DEF Init
  <2>2. QtyOf(Legacy) <= QtyOf(Legacy)
      BY <2>1
  <2> QED
      BY <1>1, <2>1, <2>2 DEF NothingLeaked
<1>3. Fresh /\ NoRelease
    BY Kinds DEF Init, Fresh, NoRelease, Buyers
<1> QED
    BY <1>2, <1>3 DEF LeakInv

\* A purchase that is reserved or confirmed while nothing more is sold only adds to
\* what stock may be counted for.
LEMMA LeakMore ==
    ASSUME NoStaleWrites, StockInv, NothingLeaked, NEW p \in Purchases,
           status'[p] \in {status[p], "PENDING", "COMPLETED"},
           \A q \in Purchases \ {p} : status'[q] = status[q],
           stock'.sold = stock.sold
    PROVE  NothingLeaked'
<1>1. Backing' \subseteq Purchases /\ Backing \subseteq Purchases
    BY DEF Backing
<1>2. IsFiniteSet(Backing) /\ IsFiniteSet(Backing')
    BY <1>1, FS_Subset DEF NoStaleWrites
<1>3. stock.sold <= QtyOf(Backing) /\ stock.sold \in Nat
    BY DEF NothingLeaked, Backing, StockInv, TypeOK
<1>4. Backing' = Backing \/ (p \in Backing' /\ Backing' \ {p} = Backing)
    BY DEF Backing
<1>5. PICK B : B = Backing'
    OBVIOUS
<1>6. stock'.sold <= QtyOf(B)
  <2>1. CASE B = Backing
      BY <1>3, <2>1
  <2>2. CASE p \in B /\ B \ {p} = Backing
    <3>1. QtyOf(B) = Qty[p] + QtyOf(Backing)
        BY <1>1, <1>2, <1>5, <2>2, QtyOfWithout
    <3>2. Qty[p] \in Nat /\ QtyOf(Backing) \in Nat
        BY <1>1, <1>2, QtyOfNat, QuantityAssumption
    <3> QED
        BY <1>3, <3>1, <3>2
  <2> QED
      BY <1>4, <1>5, <2>1, <2>2
<1> QED
    BY <1>5, <1>6 DEF NothingLeaked, Backing

\* A reservation adds to both sides.
LEMMA LeakReserved ==
    ASSUME NoStaleWrites, StockInv, NothingLeaked, NEW b \in Purchases, status[b] = "NONE",
           status' = [status EXCEPT ![b] = "PENDING"],
           stock'.sold = stock.sold + Qty[b]
    PROVE  NothingLeaked'
<1>1. Backing' \subseteq Purchases /\ Backing \subseteq Purchases
    BY DEF Backing
<1>2. IsFiniteSet(Backing) /\ IsFiniteSet(Backing')
    BY <1>1, FS_Subset DEF NoStaleWrites
<1>3. stock.sold <= QtyOf(Backing) /\ stock.sold \in Nat
    BY DEF NothingLeaked, Backing, StockInv, TypeOK
<1>4. b \in Backing' /\ Backing' \ {b} = Backing
    BY DEF Backing, StockInv, TypeOK
<1>5. PICK B : B = Backing'
    OBVIOUS
<1>6. QtyOf(B) = Qty[b] + QtyOf(Backing)
    BY <1>1, <1>2, <1>4, <1>5, QtyOfWithout
<1>7. Qty[b] \in Nat /\ QtyOf(Backing) \in Nat
    BY <1>1, <1>2, QtyOfNat, QuantityAssumption
<1>8. stock'.sold <= QtyOf(B)
    BY <1>3, <1>6, <1>7
<1> QED
    BY <1>5, <1>8 DEF NothingLeaked, Backing

\* A release takes away from both, from soldQuantity as much or what is left, even
\* for a purchase that another run of the cleanup has released before.
LEMMA LeakReleased ==
    ASSUME NoStaleWrites, StockInv, NothingLeaked, NEW p \in Purchases,
           status' = [status EXCEPT ![p] = "FAILED"],
           stock'.sold = Less(stock.sold, Qty[p])
    PROVE  NothingLeaked'
<1>1. Backing' \subseteq Purchases /\ Backing \subseteq Purchases
    BY DEF Backing
<1>2. IsFiniteSet(Backing) /\ IsFiniteSet(Backing')
    BY <1>1, FS_Subset DEF NoStaleWrites
<1>3. stock.sold <= QtyOf(Backing) /\ stock.sold \in Nat
    BY DEF NothingLeaked, Backing, StockInv, TypeOK
<1>4. Backing' = Backing \ {p}
    BY DEF Backing, StockInv, TypeOK
<1>5. PICK B : B = Backing'
    OBVIOUS
<1>6. Qty[p] \in Nat /\ QtyOf(Backing) \in Nat /\ QtyOf(B) \in Nat
    BY <1>1, <1>2, <1>5, QtyOfNat, QuantityAssumption
<1>7. QtyOf(Backing) <= Qty[p] + QtyOf(B)
  <2>1. CASE p \in Backing
      BY <1>1, <1>2, <1>4, <1>5, <1>6, <2>1, QtyOfWithout
  <2>2. CASE p \notin Backing
    <3>1. B = Backing
        BY <1>4, <1>5, <2>2
    <3> QED
        BY <1>6, <3>1
  <2> QED
      BY <2>1, <2>2
<1>8. stock'.sold <= QtyOf(B)
    BY <1>3, <1>6, <1>7 DEF Less
<1> QED
    BY <1>5, <1>8 DEF NothingLeaked, Backing

\* One step per action.
LEMMA StepLeak ==
    NoStaleWrites /\ StockInv /\ SaleInv /\ LeakInv /\ [Next]_vars => LeakInv'
<1> SUFFICES ASSUME NoStaleWrites, StockInv, SaleInv, LeakInv, [Next]_vars PROVE LeakInv'
    OBVIOUS
<1> USE DEF db, entity, typeEntity
<1>0. NothingLeaked /\ Fresh /\ NoRelease
    BY DEF LeakInv
<1>t. /\ pc \in [Procs -> Label] /\ status \in [Purchases -> PurchaseStatus]
      /\ buy \in [Procs -> Purchases \cup {NoOne}] /\ act \in [Hooks -> WebhookAction]
      /\ cols \in [Hooks \cup Edits -> SUBSET {"total", "sold"}]
      /\ stock \in [total : Nat, sold : Nat]
    BY DEF StockInv, TypeOK
<1>d. /\ Edits = {} /\ Actions \subseteq {"processed"} /\ Call \in [Hooks -> Calls]
      /\ Completers = Direct \cup Calls \cup Confirms
      /\ Buyers \cap (Hooks \cup Calls \cup Confirms \cup Sweeps) = {}
      /\ Hooks \cap (Calls \cup Confirms \cup Sweeps) = {}
      /\ Direct \subseteq Buyers /\ Buyers \subseteq Purchases /\ Buyers \cap Legacy = {}
      /\ Legacy \subseteq Purchases
    BY RowsAssumption, ProcsAssumption DEF NoStaleWrites, Completers, Buyers
\* A step that settles and sells nothing.
<1>f. ASSUME UNCHANGED <<status, stock>> PROVE NothingLeaked'
    BY <1>0, <1>f DEF NothingLeaked
<1>1. ASSUME NEW b \in Buyers, Request(b) \/ CreatePreference(b)
      PROVE  LeakInv'
  <2>1. UNCHANGED <<status, stock, act, cols>>
      BY <1>1 DEF Request, CreatePreference
  <2>2. Fresh' /\ NoRelease'
      BY <1>0, <1>1, <1>t, <1>d, <2>1, Kinds DEF Request, CreatePreference, Fresh, NoRelease, Go
  <2> QED
      BY <1>f, <2>1, <2>2 DEF LeakInv
<1>2. ASSUME NEW b \in Buyers, CreatePendingPurchase(b)
      PROVE  LeakInv'
  <2>1. PICK l \in {"failed", "load", "prefer"} : pc' = [pc EXCEPT ![b] = l]
      BY <1>2 DEF CreatePendingPurchase, Go
  <2>2. NoRelease'
      BY <1>0, <1>2, <1>t, <1>d, <2>1, Kinds DEF CreatePendingPurchase, NoRelease
  <2>3. CASE UNCHANGED <<status, stock>>
    <3>1. Fresh'
        BY <1>0, <1>t, <1>d, <2>1, <2>3, Kinds DEF Fresh
    <3> QED
        BY <1>f, <2>2, <2>3, <3>1 DEF LeakInv
  <2>4. CASE ~UNCHANGED <<status, stock>>
    <3>1. /\ status' = [status EXCEPT ![b] = "PENDING"]
          /\ stock' = [stock EXCEPT !.sold = @ + Qty[b]]
        BY <1>2, <2>4 DEF CreatePendingPurchase
    <3>2. status[b] = "NONE"
        BY <1>0, <1>2 DEF CreatePendingPurchase, Fresh
    <3>3. NothingLeaked'
        BY <1>0, <1>t, <1>d, <3>1, <3>2, LeakReserved
    <3>4. Fresh'
        BY <1>0, <1>t, <1>d, <2>1, <3>1, Kinds DEF Fresh
    <3> QED
        BY <2>2, <3>3, <3>4 DEF LeakInv
  <2> QED
      BY <2>3, <2>4
<1>3. ASSUME NEW b \in Buyers, Answer(b)
      PROVE  LeakInv'
  <2>1. PICK l \in {"done", "failed"} : pc' = [pc EXCEPT ![b] = l]
      BY <1>3 DEF Answer, Go
  <2>2. status' = [status EXCEPT ![b] = "PENDING"] /\ UNCHANGED <<stock, act, cols>>
      BY <1>3 DEF Answer
  <2>3. NothingLeaked'
      BY <1>0, <1>t, <1>d, <2>2, LeakMore
  <2>4. Fresh' /\ NoRelease'
      BY <1>0, <1>t, <1>d, <2>1, <2>2, Kinds DEF Fresh, NoRelease
  <2> QED
      BY <2>3, <2>4 DEF LeakInv
<1>4. ASSUME NEW c \in Completers, CompleteStep(c)
      PROVE  LeakInv'
  <2>1. PICK l \in {"done", "diff", "issue", "failed"} : pc' = [pc EXCEPT ![c] = l]
      BY <1>4 DEF CompleteStep, CompleteLoad, CompleteSelect, CompleteIssue, Go
  <2>2. UNCHANGED <<stock, act, cols>>
      BY <1>4 DEF CompleteStep, CompleteLoad, CompleteSelect, CompleteIssue
  <2>3. CASE UNCHANGED status
    <3>1. Fresh' /\ NoRelease'
        BY <1>0, <1>t, <1>d, <2>1, <2>2, <2>3, Kinds DEF Fresh, NoRelease
    <3> QED
        BY <1>f, <2>2, <2>3, <3>1 DEF LeakInv
  <2>4. CASE ~UNCHANGED status
    <3>1. /\ HasEvent(buy[c])
          /\ status' = [status EXCEPT ![buy[c]] = IF upd[c] THEN "COMPLETED" ELSE @]
        BY <1>4, <2>4 DEF CompleteStep, CompleteLoad, CompleteSelect, CompleteIssue
    <3>2. buy[c] \in Legacy
        BY <3>1 DEF HasEvent
    <3>3. NothingLeaked'
        BY <1>0, <1>t, <1>d, <2>2, <3>1, <3>2, LeakMore
    <3>4. Fresh' /\ NoRelease'
        BY <1>0, <1>t, <1>d, <2>1, <2>2, <3>1, <3>2, Kinds DEF Fresh, NoRelease
    <3> QED
        BY <3>3, <3>4 DEF LeakInv
  <2> QED
      BY <2>3, <2>4
<1>5. ASSUME NEW h \in Hooks, NEW p \in Purchases, NEW a \in Actions, ProcessOrderAction(h, p, a)
      PROVE  LeakInv'
  <2>1. UNCHANGED <<status, stock, cols>> /\ act' = [act EXCEPT ![h] = "processed"]
      BY <1>5, <1>d DEF ProcessOrderAction
  <2>2. PICK l \in {"done", "save"} : pc' = [pc EXCEPT ![h] = l]
      BY <1>5 DEF ProcessOrderAction, Go
  <2>3. Fresh' /\ NoRelease'
      BY <1>0, <1>t, <1>d, <2>1, <2>2, Kinds DEF Fresh, NoRelease
  <2> QED
      BY <1>f, <2>1, <2>3 DEF LeakInv
<1>6. ASSUME NEW h \in Hooks, HookStep(h), ~HookCommit(h)
      PROVE  LeakInv'
  <2>1. pc[h] # "idle" /\ act[h] = "processed" /\ pc[h] \notin {"read", "recount"}
      BY <1>0, <1>6 DEF HookStep, HookSelect, HookUpdate, HookResume, HookMark, ReleaseRead,
                        ReleaseSelect, NoRelease
  <2>2. UNCHANGED <<status, stock, cols, act>>
      BY <1>6, <2>1 DEF HookStep, HookSelect, HookUpdate, HookResume, HookMark, ReleaseRead,
                        ReleaseSelect
  <2>3. /\ \A i \in Hooks \ {h} : pc'[i] = pc[i]
        /\ \A b \in Buyers : pc'[b] = pc[b]
        /\ pc'[h] \notin {"read", "recount"}
      BY <1>6, <1>t, <1>d, <2>1, Kinds
      DEF HookStep, HookSelect, HookUpdate, HookResume, HookMark, ReleaseRead, ReleaseSelect, Go
  <2>4. Fresh' /\ NoRelease'
      BY <1>0, <2>1, <2>2, <2>3 DEF Fresh, NoRelease
  <2> QED
      BY <1>f, <2>2, <2>4 DEF LeakInv
<1>7. ASSUME NEW h \in Hooks, HookCommit(h)
      PROVE  LeakInv'
  <2>1. pc[h] = "commit" /\ act[h] = "processed" /\ cols[h] = {} /\ UNCHANGED <<act, cols>>
      BY <1>0, <1>7 DEF HookCommit, NoRelease
  <2>2. PICK l \in {"done", "failed"} : pc' = [pc EXCEPT ![h] = l]
      BY <1>7 DEF HookCommit, Go
  <2>3. stock'.sold = stock.sold
      BY <1>7, <2>1 DEF HookCommit, UpdatedType
  <2>4. buy[h] \in Purchases
      BY <1>d, <2>1, Kinds DEF StockInv, BuyKnown
  <2>5. status' = [status EXCEPT ![buy[h]] = "COMPLETED"] \/ UNCHANGED status
      BY <1>7, <1>t, <2>1, <2>4 DEF HookCommit, Target
  <2>6. NothingLeaked'
      BY <1>0, <1>t, <2>3, <2>4, <2>5, LeakMore
\* The purchase is one that MercadoPago knows: no request is about to insert it.
  <2>7. \A b \in Buyers : pc[b] \in {"idle", "reserve"} => buy[h] # b
      BY <2>4 DEF SaleInv, Unsettled, Notified, Early
  <2>8. Fresh'
      BY <1>0, <1>t, <1>d, <2>2, <2>4, <2>5, <2>7, Kinds DEF Fresh
  <2>9. NoRelease'
      BY <1>0, <1>t, <1>d, <2>1, <2>2, Kinds DEF NoRelease
  <2> QED
      BY <2>6, <2>8, <2>9 DEF LeakInv
<1>8. ASSUME NEW s \in Sweeps, SweepList(s) \/ SweepRelease(s)
      PROVE  LeakInv'
  <2>1. UNCHANGED <<act, cols>>
      BY <1>8 DEF SweepList, SweepRelease
  <2>2. /\ \A b \in Buyers : pc'[b] = pc[b]
        /\ \A h \in Hooks : pc'[h] = pc[h]
      BY <1>8, <1>t, <1>d, Kinds DEF SweepList, SweepRelease, Go
  <2>3. NoRelease'
      BY <1>0, <2>1, <2>2 DEF NoRelease
  <2>4. CASE UNCHANGED <<status, stock>>
    <3>1. Fresh'
        BY <1>0, <2>2, <2>4 DEF Fresh
    <3> QED
        BY <1>f, <2>3, <2>4, <3>1 DEF LeakInv
  <2>5. CASE ~UNCHANGED <<status, stock>>
    <3>1. /\ pc[s] = "release"
          /\ status' = [status EXCEPT ![buy[s]] = "FAILED"]
          /\ stock' = [stock EXCEPT !.sold = Less(@, Qty[buy[s]])]
        BY <1>8, <2>5 DEF SweepList, SweepRelease
    <3>2. buy[s] \in Purchases
        BY <1>8, <1>d, <3>1, Kinds DEF StockInv, BuyKnown
    <3>3. stock'.sold = Less(stock.sold, Qty[buy[s]])
        BY <1>t, <3>1
    <3>4. NothingLeaked'
        BY <1>0, <3>1, <3>2, <3>3, LeakReleased
    <3>5. Over(buy[s])
        BY <3>2 DEF SaleInv, ListedOver
    <3>6. Fresh'
        BY <1>0, <1>t, <1>d, <2>2, <3>1, <3>2, <3>5 DEF Fresh, Over, Finished
    <3> QED
        BY <2>3, <3>4, <3>6 DEF LeakInv
  <2> QED
      BY <2>4, <2>5
<1>9. CASE Crash
  <2>1. UNCHANGED <<status, stock, act, cols>>
      BY <1>9 DEF Crash
  <2>2. Fresh' /\ NoRelease'
      BY <1>0, <1>9, <1>t, <2>1, Kinds DEF Crash, Fresh, NoRelease, Finished
  <2> QED
      BY <1>f, <2>1, <2>2 DEF LeakInv
<1>10. ASSUME NEW p \in Purchases, Settle(p)
       PROVE  LeakInv'
  <2>1. UNCHANGED <<status, stock, act, cols, pc>>
      BY <1>10 DEF Settle
  <2> QED
      BY <1>0, <1>f, <2>1 DEF LeakInv, Fresh, NoRelease
<1>11. ASSUME NEW c \in Confirms, NEW p \in Purchases, ConfirmTicketPayment(c, p)
       PROVE  LeakInv'
  <2>1. UNCHANGED <<status, stock, act, cols>> /\ pc' = [pc EXCEPT ![c] = "load"]
      BY <1>11 DEF ConfirmTicketPayment, Go
  <2>2. Fresh' /\ NoRelease'
      BY <1>0, <1>t, <1>d, <2>1, Kinds DEF Fresh, NoRelease
  <2> QED
      BY <1>f, <2>1, <2>2 DEF LeakInv
<1>12. CASE UNCHANGED vars
  <2>1. UNCHANGED <<status, stock, act, cols, pc>>
      BY <1>12 DEF vars
  <2> QED
      BY <1>0, <1>f, <2>1 DEF LeakInv, Fresh, NoRelease
<1> QED
    BY <1>1, <1>2, <1>3, <1>4, <1>5, <1>6, <1>7, <1>8, <1>9, <1>10, <1>11, <1>12, <1>d
    DEF Next, BuyerStep

\* NothingLeaked always holds while nobody writes soldQuantity from a stale read: any
\* number of checkouts, failing or not, of payments confirmed late or repeatedly, of
\* processed orders and of runs of the cleanup at the same time, and of crashes,
\* leave no ticket counted as sold that no purchase has.
THEOREM NoStockLost == NoStaleWrites => (Spec => []NothingLeaked)
<1> SUFFICES ASSUME NoStaleWrites PROVE Spec => []NothingLeaked
    OBVIOUS
<1>1. LeakInv => NothingLeaked
    BY DEF LeakInv
<1> QED
    BY <1>1, InitLeak, StepLeak, SaleHolds, PTL DEF Spec

-----------------------------------------------------------------------------
(* Tickets issued once.                                                    *)

\* Purchases are completed and none is released or refunded: checkouts, payments,
\* processed orders and edits, but neither the cleanup nor another webhook.
NothingReleased == Sweeps = {} /\ Actions \subseteq {"processed"}

HooksProcess == \A h \in Hooks : pc[h] # "idle" => act[h] = "processed"
\* Tickets are those of a completed purchase, and who is about to issue some has
\* found it not completed.
IssuedCompleted == \A p \in Purchases : Issued(p) # {} => status[p] = "COMPLETED"
IssuesFirst ==
    \A c \in Completers :
      /\ pc[c] \in {"diff", "issue"} => Issued(buy[c]) = {}
      /\ pc[c] = "issue" => upd[c] \/ status[buy[c]] = "COMPLETED"

IssueInv == IssuedOnce /\ IssuedCompleted /\ IssuesFirst /\ HooksProcess

\* At the start there are no tickets.
LEMMA InitIssue == Init => IssueInv
<1> SUFFICES ASSUME Init PROVE IssueInv
    OBVIOUS
<1>1. \A q \in Purchases : Issued(q) = {}
    BY RowsAssumption DEF Init, Issued, NoBatch
<1> QED
    BY <1>1, Kinds DEF Init, IssueInv, IssuedOnce, IssuedCompleted, IssuesFirst, HooksProcess

\* A webhook that has begun is one for a processed order.
LEMMA ProcessKept ==
    ASSUME NothingReleased, StockInv, HooksProcess, [Next]_vars
    PROVE  HooksProcess'
<1> USE DEF db, entity, typeEntity
<1>t. pc \in [Procs -> Label] /\ act \in [Hooks -> WebhookAction]
    BY DEF StockInv, TypeOK
<1>d. /\ Sweeps = {} /\ Actions \subseteq {"processed"} /\ Call \in [Hooks -> Calls]
      /\ Completers = Direct \cup Calls \cup Confirms /\ Direct \subseteq Buyers
      /\ Hooks \cap (Buyers \cup Calls \cup Confirms \cup Edits) = {}
    BY RowsAssumption, ProcsAssumption DEF NothingReleased, Completers
<1>1. ASSUME act' = act, \A h \in Hooks : pc[h] = "idle" => pc'[h] = "idle"
      PROVE  HooksProcess'
    BY <1>1 DEF HooksProcess
<1>2. ASSUME NEW i \in Procs \ Hooks, act' = act, NEW l, pc' = [pc EXCEPT ![i] = l]
      PROVE  HooksProcess'
    BY <1>1, <1>2, <1>t, Kinds
<1>3. ASSUME NEW b \in Buyers, BuyerStep(b)
      PROVE  HooksProcess'
    BY <1>2, <1>3, <1>d, Kinds
    DEF BuyerStep, Request, CreatePendingPurchase, CreatePreference, Answer, Go
<1>4. ASSUME NEW c \in Completers, CompleteStep(c)
      PROVE  HooksProcess'
    BY <1>2, <1>4, <1>d, Kinds DEF CompleteStep, CompleteLoad, CompleteSelect, CompleteIssue, Go
<1>5. ASSUME NEW c \in Confirms, NEW p \in Purchases, ConfirmTicketPayment(c, p)
      PROVE  HooksProcess'
    BY <1>2, <1>5, <1>d, Kinds DEF ConfirmTicketPayment, Go
<1>6. ASSUME NEW e \in Edits, EditStep(e)
      PROVE  HooksProcess'
    BY <1>2, <1>6, <1>d, Kinds DEF EditStep, EditLoad, EditSelect, EditWrite, Go
<1>7. ASSUME NEW h \in Hooks, NEW p \in Purchases, NEW a \in Actions, ProcessOrderAction(h, p, a)
      PROVE  HooksProcess'
  <2>1. act' = [act EXCEPT ![h] = "processed"] /\ \A g \in Hooks \ {h} : pc'[g] = pc[g]
      BY <1>7, <1>d, <1>t, Kinds DEF ProcessOrderAction, Go
  <2> QED
      BY <1>t, <2>1 DEF HooksProcess
<1>8. ASSUME NEW h \in Hooks, HookStep(h)
      PROVE  HooksProcess'
  <2>1. act' = act /\ pc[h] # "idle"
      BY <1>8 DEF HookStep, HookSelect, HookUpdate, HookResume, HookMark, ReleaseRead,
                  ReleaseSelect, HookCommit
  <2>2. \A g \in Hooks \ {h} : pc'[g] = pc[g]
      BY <1>8, <1>t, <1>d, Kinds
      DEF HookStep, HookSelect, HookUpdate, HookResume, HookMark, ReleaseRead, ReleaseSelect,
          HookCommit, Go
  <2> QED
      BY <1>1, <2>1, <2>2
<1>9. CASE Crash
    BY <1>1, <1>9, Kinds DEF Crash
<1>10. CASE (\E p \in Purchases : Settle(p)) \/ UNCHANGED vars
    BY <1>1, <1>10 DEF Settle, vars
<1> QED
    BY <1>3, <1>4, <1>5, <1>6, <1>7, <1>8, <1>9, <1>10, <1>d DEF Next

\* A completed purchase stays one.
LEMMA CompletedKept ==
    ASSUME NothingReleased, StockInv, SaleInv, HooksProcess, [Next]_vars
    PROVE  \A p \in Purchases : status[p] = "COMPLETED" => status'[p] = "COMPLETED"
<1> USE DEF db, entity, typeEntity
<1>t. status \in [Purchases -> PurchaseStatus]
    BY DEF StockInv, TypeOK
<1>d. Sweeps = {} /\ Actions \subseteq {"processed"} /\ Buyers \subseteq Purchases
    BY DEF NothingReleased, Buyers
<1> DEFINE A == \/ status' = status
                \/ \E p \in Purchases : \E v \in {"PENDING", "COMPLETED"} :
                     status' = [status EXCEPT ![p] = v]
                \/ \E p \in Purchases : status' = [status EXCEPT ![p] = status[p]]
<1>1. ASSUME A PROVE \A p \in Purchases : status[p] = "COMPLETED" => status'[p] = "COMPLETED"
  <2>1. \A p \in Purchases : status'[p] \in {status[p], "PENDING", "COMPLETED"}
      BY <1>1, <1>t
  <2> QED
      BY <2>1, ReopenStep
<1>2. ASSUME NEW b \in Buyers, BuyerStep(b)
      PROVE  A
    BY <1>2, <1>d DEF BuyerStep, Request, CreatePendingPurchase, CreatePreference, Answer
<1>3. ASSUME NEW c \in Completers, CompleteStep(c)
      PROVE  A
  <2>1. CASE CompleteIssue(c)
    <3>1. \/ UNCHANGED status
          \/ /\ buy[c] \in Legacy
             /\ \/ status' = [status EXCEPT ![buy[c]] = "COMPLETED"]
                \/ status' = [status EXCEPT ![buy[c]] = status[buy[c]]]
        BY <2>1 DEF CompleteIssue, HasEvent
    <3> QED
        BY <2>1, <3>1, RowsAssumption
  <2>2. CASE CompleteLoad(c) \/ CompleteSelect(c)
      BY <2>2 DEF CompleteLoad, CompleteSelect
  <2> QED
      BY <1>3, <2>1, <2>2 DEF CompleteStep
<1>4. ASSUME NEW h \in Hooks, HookStep(h)
      PROVE  A
  <2>1. CASE HookCommit(h)
    <3>1. UNCHANGED status \/ status' = [status EXCEPT ![buy[h]] = "COMPLETED"]
                           \/ status' = [status EXCEPT ![buy[h]] = status[buy[h]]]
        BY <2>1 DEF HookCommit, HooksProcess, Target
    <3>2. buy[h] \in Purchases
        BY <2>1, Kinds, ProcsAssumption DEF HookCommit, StockInv, BuyKnown
    <3> QED
        BY <3>1, <3>2
  <2>2. CASE ~HookCommit(h)
      BY <1>4, <2>2 DEF HookStep, HookSelect, HookUpdate, HookResume, HookMark, ReleaseRead,
                        ReleaseSelect
  <2> QED
      BY <2>1, <2>2
<1>5. ASSUME NEW e \in Edits, EditStep(e)
      PROVE  A
    BY <1>5 DEF EditStep, EditLoad, EditSelect, EditWrite
<1>6. ASSUME \/ \E c \in Confirms, p \in Purchases : ConfirmTicketPayment(c, p)
             \/ \E h \in Hooks, p \in Purchases, a \in Actions : ProcessOrderAction(h, p, a)
             \/ \E p \in Purchases : Settle(p)
             \/ Crash \/ UNCHANGED vars
      PROVE  A
    BY <1>6 DEF ConfirmTicketPayment, ProcessOrderAction, Settle, Crash, vars
<1>7. A
  <2> HIDE DEF A
  <2> QED
      BY <1>2, <1>3, <1>4, <1>5, <1>6, <1>d DEF Next
<1> QED
    BY <1>1, <1>7

\* Who is between its read and its write, and what it knows, changes by its own
\* steps alone.
LEMMA CompletersStep ==
    ASSUME StockInv, [Next]_vars, NEW c \in Completers, ~CompleteStep(c),
           pc'[c] \in {"diff", "issue"}
    PROVE  pc[c] = pc'[c] /\ UNCHANGED <<buy[c], tix[c], upd[c], relink[c]>>
<1> USE DEF db, entity, typeEntity
<1>t. /\ pc \in [Procs -> Label] /\ buy \in [Procs -> Purchases \cup {NoOne}]
      /\ tix \in [Completers \cup Hooks -> SUBSET Completers]
      /\ upd \in [Completers \cup Hooks -> BOOLEAN]
      /\ relink \in [Completers \cup Hooks -> SUBSET Completers]
    BY DEF StockInv, TypeOK
<1>d. /\ Call \in [Hooks -> Calls]
      /\ Completers = Direct \cup Calls \cup Confirms /\ Direct \subseteq Buyers
      /\ Completers \cap Hooks = {} /\ Completers \cap Edits = {}
      /\ Completers \cap Sweeps = {}
    BY RowsAssumption, ProcsAssumption DEF Completers
<1>1. ASSUME NEW i \in Procs, NEW l \in Label \ {"diff", "issue"}, pc' = [pc EXCEPT ![i] = l],
             UNCHANGED <<buy, tix, upd, relink>>
      PROVE  pc[c] = pc'[c] /\ UNCHANGED <<buy[c], tix[c], upd[c], relink[c]>>
    BY <1>1, <1>t, Kinds
<1>2. ASSUME NEW b \in Buyers, BuyerStep(b)
      PROVE  pc[c] = pc'[c] /\ UNCHANGED <<buy[c], tix[c], upd[c], relink[c]>>
    BY <1>1, <1>2, Kinds
    DEF BuyerStep, Request, CreatePendingPurchase, CreatePreference, Answer, Go, Label
<1>3. ASSUME NEW d \in Completers, CompleteStep(d)
      PROVE  pc[c] = pc'[c] /\ UNCHANGED <<buy[c], tix[c], upd[c], relink[c]>>
  <2>1. c # d
      BY <1>3
  <2> QED
      BY <1>3, <1>t, <2>1, Kinds
      DEF CompleteStep, CompleteLoad, CompleteSelect, CompleteIssue, SelectPurchase, Go
<1>4. ASSUME NEW d \in Confirms, NEW p \in Purchases, ConfirmTicketPayment(d, p)
      PROVE  pc[c] = pc'[c] /\ UNCHANGED <<buy[c], tix[c], upd[c], relink[c]>>
    BY <1>4, <1>t, Kinds DEF ConfirmTicketPayment, Go
<1>5. ASSUME NEW h \in Hooks, \/ HookStep(h)
                              \/ \E p \in Purchases, a \in Actions : ProcessOrderAction(h, p, a)
      PROVE  pc[c] = pc'[c] /\ UNCHANGED <<buy[c], tix[c], upd[c], relink[c]>>
  <2>1. c # h
      BY <1>d
  <2>2. CASE HookUpdate(h)
      BY <1>t, <1>d, <2>1, <2>2, Kinds DEF HookUpdate, Go
  <2>3. CASE ~HookUpdate(h)
      BY <1>5, <1>t, <2>1, <2>3, Kinds
      DEF HookStep, ProcessOrderAction, HookSelect, HookResume, HookMark, ReleaseRead,
          ReleaseSelect, HookCommit, SelectPurchase, Go
  <2> QED
      BY <2>2, <2>3
<1>6. ASSUME NEW e \in Edits, EditStep(e)
      PROVE  pc[c] = pc'[c] /\ UNCHANGED <<buy[c], tix[c], upd[c], relink[c]>>
    BY <1>1, <1>6, Kinds DEF EditStep, EditLoad, EditSelect, EditWrite, Go, Label
<1>7. CASE Crash
    BY <1>7, <1>t, Kinds DEF Crash
<1>8. CASE (\E p \in Purchases : Settle(p)) \/ UNCHANGED vars
    BY <1>8 DEF Settle, vars
<1>9. ASSUME NEW s \in Sweeps, SweepList(s) \/ SweepRelease(s)
      PROVE  pc[c] = pc'[c] /\ UNCHANGED <<buy[c], tix[c], upd[c], relink[c]>>
    BY <1>9, <1>t, <1>d, Kinds DEF SweepList, SweepRelease, Go
<1> QED
    BY <1>9, <1>2, <1>3, <1>4, <1>5, <1>6, <1>7, <1>8, <1>d DEF Next

\* One step per await of completePurchase; the others change nothing of it.
LEMMA StepIssue ==
    NothingReleased /\ StockInv /\ SaleInv /\ IssueInv /\ Apart /\ [Next]_vars => IssueInv'
<1> SUFFICES ASSUME NothingReleased, StockInv, SaleInv, IssueInv, Apart, [Next]_vars
             PROVE  IssueInv'
    OBVIOUS
<1> USE DEF db, entity, typeEntity
<1>0. IssuedOnce /\ IssuedCompleted /\ IssuesFirst /\ HooksProcess
    BY DEF IssueInv
<1>t. /\ pc \in [Procs -> Label] /\ status \in [Purchases -> PurchaseStatus]
      /\ batch \in [Completers -> [of : Purchases \cup {NoOne}, linked : BOOLEAN,
                                    status : TicketStatus]]
      /\ upd \in [Completers \cup Hooks -> BOOLEAN]
    BY DEF StockInv, TypeOK
<1>h. HooksProcess'
    BY <1>0, ProcessKept
<1>k. \A p \in Purchases : status[p] = "COMPLETED" => status'[p] = "COMPLETED"
    BY <1>0, CompletedKept
<1>p. \A c \in Completers : pc[c] \in {"load", "diff", "issue"} => buy[c] \in Purchases
    BY Kinds, ProcsAssumption, RowsAssumption DEF StockInv, BuyKnown, Completers
<1>1. ASSUME \A i \in Completers : batch'[i].of = batch[i].of
      PROVE  /\ \A p : Issued(p)' = Issued(p)
             /\ IssuedOnce' /\ IssuedCompleted'
  <2>1. \A p : Issued(p)' = Issued(p)
      BY <1>1 DEF Issued
  <2> QED
      BY <1>0, <1>k, <2>1 DEF IssuedOnce, IssuedCompleted
<1>2. ASSUME NEW c \in Completers, CompleteLoad(c) \/ CompleteSelect(c)
      PROVE  IssueInv'
  <2>1. \A i \in Completers : batch'[i].of = batch[i].of
      BY <1>2 DEF CompleteLoad, CompleteSelect
  <2>2. UNCHANGED <<status, buy>> /\ \A d \in Completers \ {c} : pc'[d] = pc[d] /\ upd'[d] = upd[d]
      BY <1>2, <1>t, Kinds DEF CompleteLoad, CompleteSelect, SelectPurchase, Go
  <2>3. \/ pc'[c] = "done"
        \/ pc'[c] = "diff" /\ status[buy[c]] # "COMPLETED" /\ pc[c] = "load"
        \/ /\ pc'[c] = "issue" /\ pc[c] = "diff"
           /\ upd'[c] = (status[buy[c]] # "COMPLETED")
      BY <1>2, <1>t, Kinds DEF CompleteLoad, CompleteSelect, SelectPurchase, Go
  <2>4. IssuesFirst'
      BY <1>0, <1>1, <1>p, <2>1, <2>2, <2>3 DEF IssuesFirst, IssuedCompleted
  <2> QED
      BY <1>1, <1>h, <2>1, <2>4 DEF IssueInv
<1>3. ASSUME NEW c \in Completers, CompleteIssue(c)
      PROVE  IssueInv'
  <2>1. /\ pc[c] = "issue" /\ UNCHANGED <<buy, upd>> /\ pc'[c] \in {"done", "failed"}
        /\ \A d \in Completers \ {c} : pc'[d] = pc[d]
      BY <1>3, <1>t, Kinds DEF CompleteIssue, Go
  <2>2. buy[c] \in Purchases /\ Issued(buy[c]) = {} /\ (upd[c] \/ status[buy[c]] = "COMPLETED")
      BY <1>0, <1>p, <2>1 DEF IssuesFirst
  <2>3. CASE batch' = batch
    <3>1. \A i \in Completers : batch'[i].of = batch[i].of
        BY <2>3
    <3>2. IssuesFirst'
        BY <1>0, <1>1, <1>k, <1>p, <2>1, <3>1 DEF IssuesFirst
    <3> QED
        BY <1>1, <1>h, <3>1, <3>2 DEF IssueInv
  <2>4. CASE batch' # batch
    <3>1. /\ batch'[c].of = buy[c] /\ \A i \in Completers \ {c} : batch'[i].of = batch[i].of
          /\ status' = [status EXCEPT ![buy[c]] = IF upd[c] THEN "COMPLETED" ELSE @]
      <4>1. /\ batch' = [Relinked(c) EXCEPT
                           ![c] = [of |-> buy[c], linked |-> TRUE, status |-> "ACTIVE"]]
            /\ status' = [status EXCEPT ![buy[c]] = IF upd[c] THEN "COMPLETED" ELSE @]
          BY <1>3, <2>4 DEF CompleteIssue
      <4>2. Relinked(c) \in [Completers -> [of : Purchases \cup {NoOne}, linked : BOOLEAN,
                                            status : TicketStatus]]
          BY RelinkedTyped DEF StockInv
      <4>3. \A i \in Completers : Relinked(c)[i].of = batch[i].of
          BY RelinkedOf DEF StockInv
      <4>4. batch'[c].of = buy[c] /\ \A i \in Completers \ {c} : batch'[i] = Relinked(c)[i]
          BY <4>1, <4>2
      <4> QED
          BY <4>1, <4>3, <4>4
    <3>2. status'[buy[c]] = "COMPLETED"
        BY <1>t, <2>2, <3>1
    <3>3. \A p : Issued(p)' = IF p = buy[c] THEN {c} ELSE Issued(p) \ {c}
        BY <2>2, <3>1 DEF Issued
    <3>4. IssuedOnce' /\ IssuedCompleted'
        BY <1>0, <1>k, <3>2, <3>3 DEF IssuedOnce, IssuedCompleted
\* Nobody else is between its read of this purchase and its write.
    <3>5. \A d \in Completers : pc'[d] \in {"diff", "issue"} => buy[d] # buy[c] /\ pc[d] = pc'[d]
        BY <2>1 DEF Apart
    <3>6. IssuesFirst'
        BY <1>0, <1>k, <1>p, <2>1, <3>3, <3>5 DEF IssuesFirst
    <3> QED
        BY <1>h, <3>4, <3>6 DEF IssueInv
  <2> QED
      BY <2>3, <2>4
<1>4. CASE \A c \in Completers : ~CompleteStep(c)
  <2>1. \A i \in Completers : batch'[i].of = batch[i].of
      BY <1>4, BatchStep DEF CompleteStep, StockInv
  <2>2. IssuesFirst'
      BY <1>0, <1>1, <1>4, <1>k, <1>p, <2>1, CompletersStep DEF IssuesFirst
  <2> QED
      BY <1>1, <1>h, <2>1, <2>2 DEF IssueInv
<1> QED
    BY <1>2, <1>3, <1>4 DEF CompleteStep

\* Two batches of tickets for one purchase come only of two completions that overlap,
\* each between its read of the purchase and its write, as long as no purchase is
\* released or refunded: whatever is confirmed one after another, however often and
\* by whichever way, is issued once.
THEOREM IssuedOnceApart == NothingReleased => (Spec /\ []Apart => []IssuedOnce)
<1> SUFFICES ASSUME NothingReleased PROVE Spec /\ []Apart => []IssuedOnce
    OBVIOUS
<1>1. IssueInv => IssuedOnce
    BY DEF IssueInv
<1> QED
    BY <1>1, InitIssue, StepIssue, SaleHolds, PTL DEF Spec

-----------------------------------------------------------------------------
(* The tickets of a refunded purchase.                                     *)

\* The migrations' schema, and no webhook for a processed order.
RefundsOnly == NotNull /\ "processed" \notin Actions

NoneProcessed == \A h \in Hooks : act[h] # "processed"
\* Who has issued tickets has ended, and nobody has loaded tickets not yet issued.
IssuedBefore ==
    \A c \in Completers : /\ batch[c].of # NoOne => pc[c] = "done"
                          /\ \A i \in tix[c] : batch[i].of # NoOne
\* A completion whose purchase was completed since it loaded it lacks some of its
\* tickets, so that its save fails.
LateFails ==
    \A c \in Completers :
      /\ pc[c] = "diff" /\ status[buy[c]] = "COMPLETED" => ~(Issued(buy[c]) \subseteq tix[c])
      /\ pc[c] = "issue" /\ ~upd[c] => ~MayRelink(c)
\* A webhook that holds the purchase's row has reached all its tickets.
Releasing == {"read", "recount", "commit"}
AllReached ==
    \A h \in Hooks : pc[h] \in Releasing /\ upd[h] => Issued(buy[h]) \subseteq hit[h]

RefundInv == NoneProcessed /\ IssuedBefore /\ LateFails /\ AllReached /\ RefundKills

\* At the start there are no tickets.
LEMMA InitRefund == Init => RefundInv
<1> SUFFICES ASSUME Init PROVE RefundInv
    OBVIOUS
<1>1. NoneProcessed /\ IssuedBefore
    BY DEF Init, NoneProcessed, IssuedBefore, NoBatch
<1>2. LateFails /\ AllReached
    BY Kinds DEF Init, LateFails, AllReached, Releasing
<1>3. RefundKills
    BY DEF Init, RefundKills, NoBatch
<1> QED
    BY <1>1, <1>2, <1>3 DEF RefundInv

\* A webhook carries an action that MercadoPago sends, and has none before.
LEMMA StepNoneProcessed ==
    RefundsOnly /\ StockInv /\ NoneProcessed /\ [Next]_vars => NoneProcessed'
<1> SUFFICES ASSUME RefundsOnly, StockInv, NoneProcessed, [Next]_vars
             PROVE  NoneProcessed'
    OBVIOUS
<1>1. ASSUME act' = act PROVE NoneProcessed'
    BY <1>1 DEF NoneProcessed
<1>2. ASSUME NEW h \in Hooks, NEW p \in Purchases, NEW a \in Actions, ProcessOrderAction(h, p, a)
      PROVE  NoneProcessed'
    BY <1>2 DEF ProcessOrderAction, NoneProcessed, RefundsOnly, StockInv, TypeOK
<1>3. ASSUME NEW b \in Buyers, BuyerStep(b) PROVE act' = act
    BY <1>3 DEF BuyerStep, Request, CreatePendingPurchase, CreatePreference, Answer
<1>4. ASSUME NEW c \in Completers, CompleteStep(c) PROVE act' = act
    BY <1>4 DEF CompleteStep, CompleteLoad, CompleteSelect, CompleteIssue
<1>5. ASSUME NEW h \in Hooks, HookStep(h) PROVE act' = act
    BY <1>5 DEF HookStep, HookSelect, HookUpdate, HookResume, HookMark, ReleaseRead,
                ReleaseSelect, HookCommit
<1>6. ASSUME NEW s \in Sweeps, SweepList(s) \/ SweepRelease(s) PROVE act' = act
    BY <1>6 DEF SweepList, SweepRelease
<1>7. ASSUME NEW e \in Edits, EditStep(e) PROVE act' = act
    BY <1>7 DEF EditStep, EditLoad, EditSelect, EditWrite
<1>8. ASSUME \/ \E c \in Confirms, p \in Purchases : ConfirmTicketPayment(c, p)
             \/ \E p \in Purchases : Settle(p)
             \/ Crash \/ UNCHANGED vars
      PROVE  act' = act
    BY <1>8 DEF ConfirmTicketPayment, Settle, Crash, vars
<1> QED
    BY <1>1, <1>2, <1>3, <1>4, <1>5, <1>6, <1>7, <1>8 DEF Next

\* Who has ended stays ended, since no webhook calls completePurchase again, and
\* what a completion has loaded it has loaded itself.
LEMMA EndedStep ==
    ASSUME StockInv, NoneProcessed, [Next]_vars, NEW c \in Completers
    PROVE  /\ pc[c] = "done" => pc'[c] = "done"
           /\ tix'[c] = tix[c] \/ (tix'[c] = Linked(buy[c]) /\ buy[c] \in Purchases)
<1> DEFINE A == /\ pc[c] = "done" => pc'[c] = "done"
                /\ tix'[c] = tix[c] \/ (tix'[c] = Linked(buy[c]) /\ buy[c] \in Purchases)
<1> USE DEF db, entity, typeEntity
<1>t. pc \in [Procs -> Label] /\ tix \in [Completers \cup Hooks -> SUBSET Completers]
    BY DEF StockInv, TypeOK
<1>d. /\ Call \in [Hooks -> Calls]
      /\ Completers = Direct \cup Calls \cup Confirms /\ Direct \subseteq Buyers
      /\ Completers \cap Hooks = {} /\ Completers \cap Edits = {}
      /\ Completers \cap Sweeps = {} /\ c \in Procs \ Edits
    BY RowsAssumption, ProcsAssumption, Kinds DEF Completers
<1>1. ASSUME NEW i \in Procs, NEW l, pc' = [pc EXCEPT ![i] = l], pc[i] # "done" \/ i # c,
             tix' = tix
      PROVE  A
    BY <1>1, <1>t
<1>2. ASSUME NEW b \in Buyers, BuyerStep(b)
      PROVE  A
    BY <1>1, <1>2, Kinds
    DEF BuyerStep, Request, CreatePendingPurchase, CreatePreference, Answer, Go
<1>3. ASSUME NEW d \in Completers, CompleteStep(d)
      PROVE  A
  <2>1. CASE CompleteLoad(d)
    <3>1. buy[d] \in Purchases
        BY <2>1, Kinds, ProcsAssumption, RowsAssumption
        DEF CompleteLoad, StockInv, BuyKnown, Completers
    <3> QED
        BY <1>t, <2>1, <3>1, Kinds DEF CompleteLoad, Go
  <2>2. CASE CompleteSelect(d) \/ CompleteIssue(d)
      BY <1>1, <2>2, Kinds DEF CompleteSelect, CompleteIssue, Go
  <2> QED
      BY <1>3, <2>1, <2>2 DEF CompleteStep
<1>4. ASSUME NEW d \in Confirms, NEW p \in Purchases, ConfirmTicketPayment(d, p)
      PROVE  A
    BY <1>1, <1>4, Kinds DEF ConfirmTicketPayment, Go
<1>5. ASSUME NEW h \in Hooks, HookStep(h)
      PROVE  A
  <2>1. c # h /\ act[h] # "processed"
      BY <1>d DEF NoneProcessed
  <2>2. CASE HookUpdate(h)
      BY <1>t, <1>d, <2>1, <2>2, Kinds DEF HookUpdate, Go
  <2>3. CASE ~HookUpdate(h)
      BY <1>5, <1>t, <2>1, <2>3, Kinds
      DEF HookStep, HookSelect, HookResume, HookMark, ReleaseRead, ReleaseSelect,
          HookCommit, Go
  <2> QED
      BY <2>2, <2>3
<1>10. ASSUME NEW h \in Hooks, NEW p \in Purchases, NEW a \in Actions, ProcessOrderAction(h, p, a)
       PROVE  A
    BY <1>10, <1>t, <1>d, Kinds DEF ProcessOrderAction, Go
<1>6. ASSUME NEW s \in Sweeps, SweepList(s) \/ SweepRelease(s)
      PROVE  A
    BY <1>6, <1>t, <1>d, Kinds DEF SweepList, SweepRelease, Go
<1>7. ASSUME NEW e \in Edits, EditStep(e)
      PROVE  A
    BY <1>7, <1>t, <1>d, Kinds DEF EditStep, EditLoad, EditSelect, EditWrite, Go
<1>8. CASE Crash
    BY <1>8, <1>t, <1>d DEF Crash, Finished
<1>9. CASE (\E p \in Purchases : Settle(p)) \/ UNCHANGED vars
    BY <1>9 DEF Settle, vars
<1> QED
    BY <1>2, <1>3, <1>4, <1>5, <1>6, <1>7, <1>8, <1>9, <1>10 DEF Next

\* Tickets are issued to a purchase by one whose save did not fail, and stay its.
LEMMA IssuedStep ==
    ASSUME StockInv, IssuedBefore, [Next]_vars, NEW j \in Completers,
           batch'[j].of # batch[j].of
    PROVE  /\ CompleteIssue(j) /\ MayRelink(j) /\ batch[j].of = NoOne
           /\ batch'[j].of = buy[j] /\ buy[j] \in Purchases
<1>1. CompleteIssue(j) /\ batch'[j].of = buy[j] /\ buy[j] \in Purchases
    BY BatchStep DEF StockInv
<1>2. MayRelink(j)
    BY <1>1 DEF CompleteIssue
<1>3. batch[j].of = NoOne
    BY <1>1 DEF CompleteIssue, IssuedBefore
<1> QED
    BY <1>1, <1>2, <1>3

\* Only a completion completes a purchase here, and only a webhook refunds one.
LEMMA StatusStep ==
    ASSUME StockInv, NoneProcessed, [Next]_vars, NEW p \in Purchases, status'[p] # status[p],
           status'[p] \in {"COMPLETED", "REFUNDED"}
    PROVE  \/ \E c \in Completers :
                CompleteIssue(c) /\ buy[c] = p /\ MayRelink(c) /\ HasEvent(p)
                /\ status'[p] = "COMPLETED"
           \/ \E h \in Hooks :
                /\ HookCommit(h) /\ buy[h] = p /\ upd[h] /\ pc[h] = "commit"
                /\ act[h] = "refunded" /\ status'[p] = "REFUNDED"
<1> USE DEF db, entity, typeEntity
<1>t. status \in [Purchases -> PurchaseStatus] /\ act \in [Hooks -> WebhookAction]
    BY DEF StockInv, TypeOK
<1>1. ASSUME NEW b \in Buyers, BuyerStep(b)
      PROVE  FALSE
    BY <1>1, <1>t DEF BuyerStep, Request, CreatePendingPurchase, CreatePreference, Answer
<1>2. ASSUME NEW c \in Completers, CompleteStep(c)
      PROVE  /\ CompleteIssue(c) /\ buy[c] = p /\ MayRelink(c) /\ HasEvent(p)
             /\ status'[p] = "COMPLETED"
  <2>1. CompleteIssue(c)
      BY <1>2 DEF CompleteStep, CompleteLoad, CompleteSelect
  <2>2. /\ MayRelink(c) /\ HasEvent(buy[c])
        /\ status' = [status EXCEPT ![buy[c]] = IF upd[c] THEN "COMPLETED" ELSE @]
      BY <2>1 DEF CompleteIssue
  <2>3. buy[c] = p /\ status'[p] = "COMPLETED"
      BY <1>t, <2>2
  <2> QED
      BY <2>1, <2>2, <2>3
<1>3. ASSUME NEW h \in Hooks, HookStep(h)
      PROVE  /\ HookCommit(h) /\ buy[h] = p /\ upd[h] /\ pc[h] = "commit"
             /\ act[h] = "refunded" /\ status'[p] = "REFUNDED"
  <2>1. HookCommit(h)
      BY <1>3 DEF HookStep, HookSelect, HookUpdate, HookResume, HookMark, ReleaseRead,
                  ReleaseSelect
  <2>2. /\ pc[h] = "commit"
        /\ status' = [status EXCEPT ![buy[h]] = IF upd[h] THEN Target(act[h]) ELSE @]
      BY <2>1 DEF HookCommit
  <2>3. buy[h] = p /\ upd[h] /\ status'[p] = Target(act[h])
      BY <1>t, <2>2
  <2>4. act[h] = "refunded"
      BY <1>t, <2>3 DEF Target, NoneProcessed, WebhookAction
  <2> QED
      BY <2>1, <2>2, <2>3, <2>4 DEF Target
<1>4. ASSUME NEW s \in Sweeps, SweepList(s) \/ SweepRelease(s)
      PROVE  FALSE
    BY <1>4, <1>t DEF SweepList, SweepRelease
<1>5. ASSUME NEW e \in Edits, EditStep(e)
      PROVE  FALSE
    BY <1>5 DEF EditStep, EditLoad, EditSelect, EditWrite
<1>6. ~Crash /\ ~UNCHANGED vars
    BY DEF Crash, vars
<1> QED
    BY <1>1, <1>2, <1>3, <1>4, <1>5, <1>6
    DEF Next, Settle, ConfirmTicketPayment, ProcessOrderAction

\* What a webhook holds changes by its own steps alone, once it is past its UPDATEs.
LEMMA HooksStep ==
    ASSUME StockInv, [Next]_vars, NEW h \in Hooks, ~HookStep(h), pc'[h] \in Releasing
    PROVE  pc[h] = pc'[h] /\ UNCHANGED <<buy[h], upd[h], hit[h]>>
<1> USE DEF db, entity, typeEntity
<1>t. /\ pc \in [Procs -> Label] /\ buy \in [Procs -> Purchases \cup {NoOne}]
      /\ upd \in [Completers \cup Hooks -> BOOLEAN]
      /\ hit \in [Hooks -> SUBSET Completers]
    BY DEF StockInv, TypeOK
<1>d. /\ Call \in [Hooks -> Calls] /\ h \in Procs
      /\ Completers = Direct \cup Calls \cup Confirms /\ Direct \subseteq Buyers
      /\ Hooks \cap (Buyers \cup Calls \cup Confirms \cup Sweeps \cup Edits) = {}
    BY RowsAssumption, ProcsAssumption, Kinds DEF Completers
<1>1. ASSUME NEW b \in Buyers, BuyerStep(b)
      PROVE  pc[h] = pc'[h] /\ UNCHANGED <<buy[h], upd[h], hit[h]>>
    BY <1>1, <1>t, <1>d, Kinds
    DEF BuyerStep, Request, CreatePendingPurchase, CreatePreference, Answer, Go
<1>2. ASSUME NEW c \in Completers, CompleteStep(c)
      PROVE  pc[h] = pc'[h] /\ UNCHANGED <<buy[h], upd[h], hit[h]>>
    BY <1>2, <1>t, <1>d, Kinds
    DEF CompleteStep, CompleteLoad, CompleteSelect, CompleteIssue, SelectPurchase, Go
<1>3. ASSUME NEW c \in Confirms, NEW p \in Purchases, ConfirmTicketPayment(c, p)
      PROVE  pc[h] = pc'[h] /\ UNCHANGED <<buy[h], upd[h], hit[h]>>
    BY <1>3, <1>t, <1>d, Kinds DEF ConfirmTicketPayment, Go
<1>4. ASSUME NEW g \in Hooks, NEW p \in Purchases, NEW a \in Actions, ProcessOrderAction(g, p, a)
      PROVE  pc[h] = pc'[h] /\ UNCHANGED <<buy[h], upd[h], hit[h]>>
  <2>1. pc'[g] \notin Releasing
      BY <1>4, <1>t, Kinds DEF ProcessOrderAction, Go, Releasing
  <2> QED
      BY <1>4, <1>t, <1>d, <2>1, Kinds DEF ProcessOrderAction, Go
<1>5. ASSUME NEW g \in Hooks, HookStep(g)
      PROVE  pc[h] = pc'[h] /\ UNCHANGED <<buy[h], upd[h], hit[h]>>
  <2>1. g # h /\ Call[g] # h /\ Call[g] \in Procs
      BY <1>5, <1>d, Kinds
  <2>2. CASE HookUpdate(g)
      BY <1>t, <1>d, <2>1, <2>2, Kinds DEF HookUpdate, Go
  <2>3. CASE HookSelect(g) \/ HookResume(g) \/ HookMark(g)
      BY <1>t, <1>d, <2>1, <2>3, Kinds DEF HookSelect, HookResume, HookMark, SelectPurchase, Go
  <2>4. CASE ReleaseRead(g) \/ ReleaseSelect(g) \/ HookCommit(g)
      BY <1>t, <1>d, <2>1, <2>4, Kinds DEF ReleaseRead, ReleaseSelect, HookCommit, Go
  <2> QED
      BY <1>5, <2>2, <2>3, <2>4 DEF HookStep
<1>6. ASSUME NEW s \in Sweeps, SweepList(s) \/ SweepRelease(s)
      PROVE  pc[h] = pc'[h] /\ UNCHANGED <<buy[h], upd[h], hit[h]>>
    BY <1>6, <1>t, <1>d, Kinds DEF SweepList, SweepRelease, Go
<1>7. ASSUME NEW e \in Edits, EditStep(e)
      PROVE  pc[h] = pc'[h] /\ UNCHANGED <<buy[h], upd[h], hit[h]>>
    BY <1>7, <1>t, <1>d, Kinds DEF EditStep, EditLoad, EditSelect, EditWrite, Go
<1>8. CASE Crash
    BY <1>8, <1>t, <1>d DEF Crash, Finished, Releasing
<1>9. CASE (\E p \in Purchases : Settle(p)) \/ UNCHANGED vars
    BY <1>9 DEF Settle, vars
<1> QED
    BY <1>1, <1>2, <1>3, <1>4, <1>5, <1>6, <1>7, <1>8, <1>9 DEF Next

\* No completion issues tickets to a purchase whose row a webhook holds.
LEMMA NoneWhileLocked ==
    ASSUME StockInv, IssuedBefore, LateFails, [Next]_vars, NEW p \in Purchases,
           rowLock[p] # NoOne
    PROVE  Issued(p)' \subseteq Issued(p)
<1> SUFFICES ASSUME NEW j \in Completers, batch'[j].of = p, batch[j].of # p
             PROVE  FALSE
    BY DEF Issued
<1>1. CompleteIssue(j) /\ MayRelink(j) /\ buy[j] = p
    BY IssuedStep
<1>2. upd[j] => Free(p)
    BY <1>1 DEF CompleteIssue
<1>3. pc[j] = "issue" /\ ~upd[j]
    BY <1>1, <1>2 DEF CompleteIssue, Free
<1> QED
    BY <1>1, <1>3 DEF LateFails

\* Every part of the invariant but RefundKills.
LEMMA StepReached ==
    /\ RefundsOnly /\ StockInv /\ RowLockHeld /\ LinksKept /\ TicketsKeepPurchase
    /\ RefundInv /\ [Next]_vars
    => NoneProcessed' /\ IssuedBefore' /\ LateFails' /\ AllReached'
<1> SUFFICES ASSUME RefundsOnly, StockInv, RowLockHeld, LinksKept, TicketsKeepPurchase,
                    RefundInv, [Next]_vars
             PROVE  NoneProcessed' /\ IssuedBefore' /\ LateFails' /\ AllReached'
    OBVIOUS
<1> USE DEF db, entity, typeEntity
<1>0. NoneProcessed /\ IssuedBefore /\ LateFails /\ AllReached
    BY DEF RefundInv
<1>t. /\ pc \in [Procs -> Label] /\ status \in [Purchases -> PurchaseStatus]
      /\ batch \in [Completers -> [of : Purchases \cup {NoOne}, linked : BOOLEAN,
                                    status : TicketStatus]]
      /\ upd \in [Completers \cup Hooks -> BOOLEAN]
      /\ tix \in [Completers \cup Hooks -> SUBSET Completers]
      /\ relink \in [Completers \cup Hooks -> SUBSET Completers]
      /\ hit \in [Hooks -> SUBSET Completers]
    BY DEF StockInv, TypeOK
<1>p. \A c \in Completers : pc[c] \in {"load", "diff", "issue"} => buy[c] \in Purchases
    BY Kinds, ProcsAssumption, RowsAssumption DEF StockInv, BuyKnown, Completers
<1>n. NoOne \notin Purchases
    BY RowsAssumption
<1>l. \A p \in Purchases : Linked(p) = Issued(p)
    BY <1>n DEF Linked, Issued, TicketsKeepPurchase
<1>i. \A i \in Completers : batch[i].of # NoOne => batch'[i].of = batch[i].of
    BY <1>0, IssuedStep
<1>1. NoneProcessed'
    BY <1>0, StepNoneProcessed
<1>2. IssuedBefore'
  <2>1. ASSUME NEW c \in Completers, batch'[c].of # NoOne
        PROVE  pc'[c] = "done"
    <3>1. CASE batch'[c].of = batch[c].of
        BY <1>0, <2>1, <3>1, EndedStep DEF IssuedBefore
    <3>2. CASE batch'[c].of # batch[c].of
      <4>1. CompleteIssue(c) /\ batch' # batch
          BY <1>0, <3>2, IssuedStep
      <4> QED
          BY <1>t, <4>1, Kinds DEF CompleteIssue, Go
    <3> QED
        BY <3>1, <3>2
  <2>2. ASSUME NEW c \in Completers, NEW i \in tix'[c]
        PROVE  batch'[i].of # NoOne
    <3>1. CASE tix'[c] = tix[c]
        BY <1>0, <1>i, <1>t, <2>2, <3>1 DEF IssuedBefore
    <3>2. CASE tix'[c] = Linked(buy[c]) /\ buy[c] \in Purchases
        BY <1>i, <1>n, <2>2, <3>2 DEF Linked, Issued
    <3> QED
        BY <1>0, <3>1, <3>2, EndedStep
  <2> QED
      BY <2>1, <2>2 DEF IssuedBefore
<1>3. LateFails'
  <2>1. ASSUME NEW c \in Completers, pc'[c] = "diff", status'[buy'[c]] = "COMPLETED"
        PROVE  \E j \in Completers : batch'[j].of = buy'[c] /\ j \notin tix'[c]
    <3>1. ~CompleteStep(c)
      <4>1. CASE CompleteLoad(c)
          BY <1>t, <2>1, <4>1, Kinds DEF CompleteLoad, Go
      <4>2. CASE CompleteSelect(c) \/ CompleteIssue(c)
          BY <1>t, <2>1, <4>2, Kinds DEF CompleteSelect, CompleteIssue, Go
      <4> QED
          BY <4>1, <4>2 DEF CompleteStep
    <3>2. pc[c] = "diff" /\ buy'[c] = buy[c] /\ tix'[c] = tix[c] /\ buy[c] \in Purchases
        BY <1>p, <2>1, <3>1, CompletersStep
    <3>3. CASE status[buy[c]] = "COMPLETED"
      <4>1. PICK j \in Issued(buy[c]) : j \notin tix[c]
          BY <1>0, <3>2, <3>3 DEF LateFails
      <4> QED
          BY <1>i, <1>n, <3>2, <4>1 DEF Issued
    <3>4. CASE status[buy[c]] # "COMPLETED"
      <4>1. PICK d \in Completers : CompleteIssue(d) /\ buy[d] = buy[c] /\ MayRelink(d)
                                    /\ HasEvent(buy[c])
          BY <1>0, <2>1, <3>2, <3>4, StatusStep
      <4>2. batch' = [Relinked(d) EXCEPT
                        ![d] = [of |-> buy[c], linked |-> TRUE, status |-> "ACTIVE"]]
          BY <4>1 DEF CompleteIssue
      <4>3. batch'[d].of = buy[c]
          BY <4>2, RelinkedTyped DEF StockInv
      <4>4. d \notin tix[c]
          BY <1>0, <4>1 DEF CompleteIssue, IssuedBefore
      <4> QED
          BY <3>2, <4>3, <4>4
    <3> QED
        BY <3>3, <3>4
  <2>2. ASSUME NEW c \in Completers, pc'[c] = "issue", ~upd'[c]
        PROVE  ~MayRelink(c)'
    <3>1. CASE CompleteSelect(c)
      <4>1. /\ pc[c] = "diff" /\ tix' = tix
            /\ upd'[c] = (status[buy[c]] # "COMPLETED")
            /\ relink'[c] = (Linked(buy[c]) \ tix[c]) \cup (tix[c] \ Linked(buy[c]))
          BY <1>t, <3>1 DEF CompleteSelect, SelectPurchase
      <4>2. buy[c] \in Purchases /\ ~(Issued(buy[c]) \subseteq tix[c])
          BY <1>0, <1>p, <2>2, <4>1 DEF LateFails
      <4> QED
          BY <1>l, <4>1, <4>2 DEF MayRelink, RefundsOnly
    <3>2. CASE CompleteLoad(c) \/ CompleteIssue(c)
        BY <1>t, <2>2, <3>2, Kinds DEF CompleteLoad, CompleteIssue, Go
    <3>3. CASE ~CompleteStep(c)
      <4>1. pc[c] = "issue" /\ UNCHANGED <<upd[c], tix[c], relink[c]>>
          BY <2>2, <3>3, CompletersStep
      <4> QED
          BY <1>0, <2>2, <4>1 DEF LateFails, MayRelink
    <3> QED
        BY <3>1, <3>2, <3>3 DEF CompleteStep
  <2> QED
      BY <2>1, <2>2 DEF LateFails, Issued
<1>4. AllReached'
  <2> SUFFICES ASSUME NEW h \in Hooks, pc'[h] \in Releasing, upd'[h]
               PROVE  (Issued(buy[h]) \subseteq hit[h])'
      BY DEF AllReached
  <2>1. CASE HookMark(h)
    <3>1. /\ pc[h] = "mark" /\ UNCHANGED <<batch, buy>>
          /\ hit'[h] = Reached(h) \/ pc'[h] = "failed"
        BY <1>t, <2>1, Kinds DEF HookMark, Go
    <3>2. MayRelink(h)
        BY <3>1 DEF LinksKept, InTransaction
    <3>3. buy[h] \in Purchases
        BY <3>1, Kinds, ProcsAssumption DEF StockInv, BuyKnown
    <3>4. Issued(buy[h]) \subseteq Reached(h)
        BY <1>n, <3>2, <3>3
        DEF Reached, Issued, IsLinked, MayRelink, RefundsOnly, TicketsKeepPurchase
    <3>5. hit'[h] = Reached(h)
        BY <3>1 DEF Releasing
    <3> QED
        BY <3>1, <3>4, <3>5 DEF Issued
  <2>2. CASE ~HookMark(h)
    <3>1. pc[h] \in Releasing /\ UNCHANGED <<buy[h], upd[h], hit[h]>>
      <4>1. CASE HookSelect(h) \/ HookUpdate(h) \/ HookResume(h) \/ HookCommit(h)
          BY <1>t, <4>1, Kinds, ProcsAssumption
          DEF HookSelect, HookUpdate, HookResume, HookCommit, Go, Releasing
      <4>2. CASE ReleaseRead(h) \/ ReleaseSelect(h)
          BY <4>2 DEF ReleaseRead, ReleaseSelect, Releasing
      <4>3. CASE ~HookStep(h)
          BY <4>3, HooksStep
      <4> QED
          BY <2>2, <4>1, <4>2, <4>3 DEF HookStep
    <3>2. buy[h] \in Purchases
        BY <3>1, Kinds, ProcsAssumption DEF StockInv, BuyKnown, Releasing
    <3>3. rowLock[buy[h]] = h /\ NoOne # h
        BY <3>1, Kinds, RowsAssumption DEF RowLockHeld, Releasing, InTransaction
    <3>4. Issued(buy[h])' \subseteq Issued(buy[h])
      <4>1. PICK p \in Purchases : p = buy[h] /\ p = buy'[h]
          BY <3>1, <3>2
      <4>2. Issued(p)' \subseteq Issued(p)
          BY <1>0, <3>3, <4>1, NoneWhileLocked
      <4> QED
          BY <4>1, <4>2 DEF Issued
    <3>5. Issued(buy[h]) \subseteq hit[h]
        BY <1>0, <3>1 DEF AllReached
    <3> QED
        BY <3>1, <3>4, <3>5
  <2> QED
      BY <2>1, <2>2
<1> QED
    BY <1>1, <1>2, <1>3, <1>4

\* What becomes of the status of tickets: those just issued are ACTIVE, a webhook
\* gives those it has reached its own, every other one keeps its.
LEMMA TicketStep ==
    ASSUME StockInv, NoneProcessed, [Next]_vars, NEW i \in Completers,
           batch'[i].status = "ACTIVE", batch[i].status # "ACTIVE"
    PROVE  CompleteIssue(i) /\ batch'[i].of = buy[i] /\ MayRelink(i)
<1> USE DEF db, entity, typeEntity
<1>t. act \in [Hooks -> WebhookAction]
    BY DEF StockInv, TypeOK
<1>1. ASSUME NEW c \in Completers, CompleteIssue(c)
      PROVE  c = i /\ batch'[i].of = buy[i] /\ MayRelink(i)
  <2>1. /\ MayRelink(c)
        /\ batch' = [Relinked(c) EXCEPT
                       ![c] = [of |-> buy[c], linked |-> TRUE, status |-> "ACTIVE"]]
      BY <1>1 DEF CompleteIssue
  <2>2. Relinked(c)[i].status = batch[i].status
      BY DEF Relinked, StockInv, TypeOK
  <2>3. c = i
      BY <2>1, <2>2, RelinkedTyped DEF StockInv
  <2> QED
      BY <2>1, <2>3, RelinkedTyped DEF StockInv
<1>2. ASSUME NEW h \in Hooks, HookStep(h)
      PROVE  FALSE
  <2>1. CASE HookCommit(h)
    <3>1. batch' = [j \in Completers |->
                      IF j \in hit[h]
                      THEN [Relinked(h)[j] EXCEPT !.status = TicketTarget(act[h])]
                      ELSE Relinked(h)[j]]
        BY <2>1 DEF HookCommit
    <3> DEFINE r == Relinked(h)[i]
    <3>2. r.status = batch[i].status
        BY DEF Relinked, StockInv, TypeOK
    <3>3. r \in [of : Purchases \cup {NoOne}, linked : BOOLEAN, status : TicketStatus]
        BY RelinkedTyped DEF StockInv
    <3>4. batch'[i] \in {r, [r EXCEPT !.status = TicketTarget(act[h])]}
        BY <3>1
    <3> HIDE DEF r
    <3>5. [r EXCEPT !.status = TicketTarget(act[h])].status = TicketTarget(act[h])
        BY <3>3
    <3>6. TicketTarget(act[h]) # "ACTIVE"
        BY <1>t DEF TicketTarget, NoneProcessed
    <3> QED
        BY <3>2, <3>4, <3>5, <3>6
  <2>2. CASE ~HookCommit(h)
      BY <1>2, <2>2 DEF HookStep, HookSelect, HookUpdate, HookResume, HookMark,
                        ReleaseRead, ReleaseSelect
  <2> QED
      BY <2>1, <2>2
<1>3. ASSUME NEW b \in Buyers, BuyerStep(b)
      PROVE  FALSE
    BY <1>3 DEF BuyerStep, Request, CreatePendingPurchase, CreatePreference, Answer
<1>4. ASSUME NEW c \in Completers, CompleteLoad(c) \/ CompleteSelect(c)
      PROVE  FALSE
    BY <1>4 DEF CompleteLoad, CompleteSelect
<1>5. ASSUME NEW s \in Sweeps, SweepList(s) \/ SweepRelease(s)
      PROVE  FALSE
    BY <1>5 DEF SweepList, SweepRelease
<1>6. ASSUME NEW e \in Edits, EditStep(e)
      PROVE  FALSE
    BY <1>6 DEF EditStep, EditLoad, EditSelect, EditWrite
<1>7. ~Crash /\ ~UNCHANGED vars
    BY DEF Crash, vars
<1> QED
    BY <1>1, <1>2, <1>3, <1>4, <1>5, <1>6, <1>7
    DEF Next, CompleteStep, Settle, ConfirmTicketPayment, ProcessOrderAction

\* A COMMIT that refunds a purchase marks every ticket that it has reached.
LEMMA CommitMarks ==
    ASSUME StockInv, NEW h \in Hooks, HookCommit(h), NEW p \in Purchases,
           status'[p] # status[p], act[h] = "refunded", NEW i \in hit[h]
    PROVE  batch'[i].status # "ACTIVE"
<1>1. i \in Completers /\ batch' = [j \in Completers |->
                    IF j \in hit[h]
                    THEN [Relinked(h)[j] EXCEPT !.status = TicketTarget(act[h])]
                    ELSE Relinked(h)[j]]
    BY DEF HookCommit, db, StockInv, TypeOK
<1> DEFINE r == Relinked(h)[i]
<1>2. r \in [of : Purchases \cup {NoOne}, linked : BOOLEAN, status : TicketStatus]
    BY <1>1, RelinkedTyped DEF StockInv
<1>3. batch'[i] = [r EXCEPT !.status = TicketTarget(act[h])]
    BY <1>1
<1> HIDE DEF r
<1>4. batch'[i].status = TicketTarget(act[h])
    BY <1>2, <1>3
<1> QED
    BY <1>4 DEF TicketTarget

\* The tickets that a refund was to reach are reached; those issued since make the
\* purchase COMPLETED.
LEMMA StepKills ==
    RefundsOnly /\ StockInv /\ RefundInv /\ [Next]_vars => RefundKills'
<1> SUFFICES ASSUME RefundsOnly, StockInv, RefundInv, [Next]_vars,
                    NEW i \in Completers, batch'[i].of # NoOne,
                    status'[batch'[i].of] = "REFUNDED", batch'[i].status = "ACTIVE"
             PROVE  FALSE
    BY DEF RefundKills
<1> DEFINE p == batch'[i].of
<1>0. NoneProcessed /\ IssuedBefore /\ LateFails /\ AllReached /\ RefundKills
    BY DEF RefundInv
<1>t. status \in [Purchases -> PurchaseStatus] /\ TypeOK'
    BY StepStock DEF StockInv, TypeOK
<1>1. p \in Purchases
    BY <1>t DEF TypeOK
\* The ticket was issued before: who issues one completes the purchase, or fails.
<1>2. ASSUME CompleteIssue(i), MayRelink(i), buy[i] = p, batch' # batch
      PROVE  FALSE
  <2>1. upd[i]
      BY <1>0, <1>2 DEF LateFails, CompleteIssue
  <2>2. status' = [status EXCEPT ![p] = IF upd[i] THEN "COMPLETED" ELSE @]
      BY <1>2 DEF CompleteIssue
  <2> QED
      BY <1>1, <1>t, <2>1, <2>2
<1>3. batch[i].of = p
  <2>1. CASE batch[i].of # p
    <3>1. CompleteIssue(i) /\ MayRelink(i) /\ buy[i] = p /\ batch' # batch
        BY <1>0, <2>1, IssuedStep
    <3> QED
        BY <1>2, <3>1
  <2> QED
      BY <2>1
<1>4. batch[i].status = "ACTIVE"
  <2>1. CASE batch[i].status # "ACTIVE"
    <3>1. CompleteIssue(i) /\ MayRelink(i) /\ buy[i] = p /\ batch' # batch
        BY <1>0, <2>1, TicketStep
    <3> QED
        BY <1>2, <3>1
  <2> QED
      BY <2>1
<1>5. status'[p] # status[p]
    BY <1>0, <1>3, <1>4 DEF RefundKills
<1>6. PICK h \in Hooks : /\ HookCommit(h) /\ buy[h] = p /\ upd[h] /\ pc[h] = "commit"
                         /\ act[h] = "refunded"
    BY <1>0, <1>1, <1>5, StatusStep
<1>7. i \in hit[h]
    BY <1>0, <1>3, <1>6 DEF AllReached, Releasing, Issued
<1> QED
    BY <1>1, <1>5, <1>6, <1>7, CommitMarks

\* RefundKills always holds in the migrations' schema, for any number of deliveries,
\* payments confirmed at the same time, cleanups, edits and crashes, as long as no
\* order.processed webhook comes: the refund's transaction reaches every ticket of
\* its purchase, and nobody can issue one to it without completing it again.
THEOREM RefundsKill == RefundsOnly => (Spec => []RefundKills)
<1> SUFFICES ASSUME RefundsOnly PROVE Spec => []RefundKills
    OBVIOUS
<1>n. NotNull
    BY DEF RefundsOnly
<1>1. RefundInv => RefundKills
    BY DEF RefundInv
<1>2. /\ StockInv /\ RowLockHeld /\ LinksKept /\ TicketsKeepPurchase /\ RefundInv
      /\ [Next]_vars
      => RefundInv'
    BY StepReached, StepKills DEF RefundInv
<1> QED
    BY <1>n, <1>1, <1>2, InitRefund, InitStock, StepStock, LockInit, LockStep, LinksInit,
       LinksStep, KeptInit, KeptStep, PTL DEF Spec
=============================================================================
