---------------------------- MODULE TicketSales ----------------------------
(***************************************************************************)
(* The sale of one ticket type: the checkout that reserves stock, the two  *)
(* MercadoPago webhooks that settle a purchase, the cron job that releases *)
(* abandoned reservations and the organizer's edit of the ticket type.     *)
(*                                                                         *)
(* Every handler is a process with a program counter; between two steps it *)
(* awaits the database, and any other process may run.  The database is    *)
(* PostgreSQL at READ COMMITTED: a read sees the last committed value, an  *)
(* UPDATE waits for the row lock, the effects of a transaction appear when *)
(* it commits.  Every transaction touches the ticket_types row last, so    *)
(* that a write of it is one step with its COMMIT, and only the ticket     *)
(* webhook holds a purchase's row lock from one await to the next.         *)
(*                                                                         *)
(* TypeORM's save(entity) is a SELECT and then an UPDATE of the columns in *)
(* which the entity differs from what that SELECT read; a loaded           *)
(* one-to-many relation is written back too: tickets of the row that the   *)
(* entity was not loaded with lose their purchase.                         *)
(***************************************************************************)
EXTENDS Integers, FiniteSets, FiniteSetsExt

CONSTANTS
    Purchases,      \* rows of ticket_purchases, present or yet to be inserted
    Legacy,         \* those already PENDING at the start, stored with their event
    Direct,         \* those asked for by POST /tickets/purchase (no payment)
    Hooks,          \* deliveries to POST /webhooks/tickets
    Calls,          \* completePurchase calls of the deliveries ...
    Call,           \* ... one for each
    Confirms,       \* notifications to POST /payments/webhooks for a ticket
    MerchantOrders, \* those of topic merchant_order; the others name a payment
    Sweeps,         \* runs of the cleanup cron
    Edits,          \* organizer edits of the ticket type
    Actions,        \* actions that the ticket webhook's deliveries carry
    Qty,            \* Qty[p]: tickets asked for by purchase p
    Total,          \* totalQuantity at the start
    NewTotals,      \* totalQuantity values an edit may set
    MaxPerUser,     \* maxPerUser of the ticket type
    NotNull,        \* TRUE: the migrations' schema, where eventId of a purchase
                    \* and purchaseId of a ticket are NOT NULL; FALSE: the one
                    \* synchronized from the entities, where both are nullable
    Resolves,       \* TRUE: the column name purchaseId that the webhook writes
                    \* without quotes names a column of tickets; FALSE: it does
                    \* not (PostgreSQL reads purchaseid, TypeORM and the
                    \* migrations make "purchaseId")
    NoOne           \* no purchase, no lock holder

Buyers == Purchases \ Legacy          \* a request is named by the row it makes
Completers == Direct \cup Calls \cup Confirms
Procs == Buyers \cup Hooks \cup Calls \cup Confirms \cup Sweeps \cup Edits

PurchaseStatus == {"NONE", "PENDING", "COMPLETED", "FAILED", "REFUNDED"}
TicketStatus == {"ACTIVE", "CANCELLED", "REFUNDED"}
WebhookAction == {"processed", "refunded", "failed"}
Fate == {"unknown", "open", "paid", "refunded", "closed"}
Label == {"idle", "reserve", "prefer", "answer",          \* buyers
          "load", "diff", "issue",                        \* completePurchase
          "save", "update", "await", "mark", "read", "recount", "commit",
          "release",                                      \* the cleanup
          "merge", "write",                               \* edits
          "done", "failed", "crashed"}
Finished == {"done", "failed", "crashed"}
InTransaction == {"await", "mark", "read", "recount", "commit"}

QtyOf(S) == MapThenSumSet(LAMBDA p : Qty[p], S)

ASSUME RowsAssumption == /\ Legacy \subseteq Purchases
                         /\ Direct \subseteq Buyers
                         /\ MerchantOrders \subseteq Confirms
                         /\ NoOne \notin Purchases \cup Procs
                         /\ Actions \subseteq WebhookAction
                         /\ NotNull \in BOOLEAN /\ Resolves \in BOOLEAN
ASSUME QuantityAssumption == /\ Qty \in [Purchases -> Nat \ {0}]
                             /\ Total \in Nat /\ MaxPerUser \in Nat
                             /\ NewTotals \subseteq Nat
                             /\ QtyOf(Legacy) \in 0 .. Total
ASSUME ProcsAssumption ==
    /\ Buyers \cap (Hooks \cup Calls \cup Confirms \cup Sweeps \cup Edits) = {}
    /\ Hooks \cap (Calls \cup Confirms \cup Sweeps \cup Edits) = {}
    /\ Calls \cap (Confirms \cup Sweeps \cup Edits) = {}
    /\ Confirms \cap (Sweeps \cup Edits) = {}
    /\ Sweeps \cap Edits = {}
    /\ Call \in [Hooks -> Calls]
    /\ \A g, h \in Hooks : Call[g] = Call[h] => g = h

VARIABLES
    stock,    \* the ticket_types row: [total, sold]
    status,   \* paymentStatus of every purchase, NONE before its INSERT
    batch,    \* batch[i]: the Qty[of] tickets that process i has issued, if any
    rowLock,  \* the webhook whose open transaction has updated the purchase
    fate,     \* MercadoPago's side of the purchase (environment)
    pc,       \* where a process awaits
    buy,      \* the purchase a process works on
    act,      \* the action of a webhook delivery
    tix,      \* the tickets (batches) its TicketPurchase entity was loaded with
    upd,      \* its save(purchase) has found a paymentStatus to write ...
    relink,   \* ... and these batches to detach or attach
    hit,      \* batches its UPDATE of tickets has reached
    ent,      \* the TicketType entity a process has loaded and changed
    cols,     \* the columns its save(ticketType) has found to write
    due       \* purchases a cleanup run has listed and not yet released

db == <<stock, status, batch>>
entity == <<tix, upd, relink, hit>>
typeEntity == <<ent, cols>>
vars == <<stock, status, batch, rowLock, fate, pc, buy, act, tix, upd, relink,
          hit, ent, cols, due>>

(***************************************************************************)
(* Definitions named ...Mut are plausible bugs of the definition after     *)
(* them; nothing uses them but the mutation runs of PROJECT.json.          *)
(***************************************************************************)
HasEvent(p) == p \in Legacy    \* the INSERT of createPendingPurchase stores none
NoBatch == [of |-> NoOne, linked |-> FALSE, status |-> "ACTIVE"]
Issued(p) == {i \in Completers : batch[i].of = p}
Linked(p) == {i \in Issued(p) : batch[i].linked}

Target(a) == CASE a = "processed" -> "COMPLETED"
               [] a = "refunded" -> "REFUNDED"
               [] OTHER -> "FAILED"
TicketTarget(a) == CASE a = "processed" -> "ACTIVE"
                     [] a = "refunded" -> "REFUNDED"
                     [] OTHER -> "CANCELLED"

Go(self, label) == pc' = [pc EXCEPT ![self] = label]

\* The SELECT of save(purchase), with paymentStatus s in the entity.
SelectPurchase(self, s) ==
    LET p == buy[self] IN
    /\ upd' = [upd EXCEPT ![self] = status[p] # s]
    /\ relink' = [relink EXCEPT ![self] = (Linked(p) \ tix[self]) \cup (tix[self] \ Linked(p))]

\* Its UPDATE of the tickets: those the entity was not loaded with are detached.
MayRelinkMut(self) == TRUE             \* purchaseId nullable after all
MayRelink(self) == NotNull => relink[self] \subseteq tix[self]
IsLinked(self, i) == \/ i \in relink[self] /\ i \in tix[self]
                     \/ i \notin relink[self] /\ batch[i].linked
Relinked(self) == [i \in Completers |-> [batch[i] EXCEPT !.linked = IsLinked(self, i)]]

\* The SELECT and the UPDATE of save(ticketType).
SelectType(self) ==
    cols' = [cols EXCEPT ![self] = {c \in {"total", "sold"} : ent[self][c] # stock[c]}]
UpdatedType(self) ==
    [total |-> IF "total" \in cols[self] THEN ent[self].total ELSE stock.total,
     sold |-> IF "sold" \in cols[self] THEN ent[self].sold ELSE stock.sold]
WithinCheck(s) == s.sold <= s.total    \* CHECK ("soldQuantity" <= "totalQuantity")
LessMut(n, q) == n - q                 \* no GREATEST(0, ...), no Math.max
LessOneMut(n, q) == IF n > 1 THEN n - 1 ELSE 0    \* one purchase, not its quantity
Less(n, q) == IF n > q THEN n - q ELSE 0

\* An UPDATE of the purchase waits for the transaction that has updated it.
Free(p) == rowLock[p] = NoOne

Init ==
    /\ stock = [total |-> Total, sold |-> QtyOf(Legacy)]
    /\ status = [p \in Purchases |-> IF p \in Legacy THEN "PENDING" ELSE "NONE"]
    /\ batch = [i \in Completers |-> NoBatch]
    /\ rowLock = [p \in Purchases |-> NoOne]
    /\ fate = [p \in Purchases |-> IF p \in Legacy THEN "open" ELSE "unknown"]
    /\ pc = [i \in Procs |-> "idle"]
    /\ buy = [i \in Procs |-> IF i \in Buyers THEN i ELSE NoOne]
    /\ act = [h \in Hooks |-> "failed"]
    /\ tix = [i \in Completers \cup Hooks |-> {}]
    /\ upd = [i \in Completers \cup Hooks |-> FALSE]
    /\ relink = [i \in Completers \cup Hooks |-> {}]
    /\ hit = [h \in Hooks |-> {}]
    /\ ent = [i \in Hooks \cup Edits |-> [total |-> 0, sold |-> 0]]
    /\ cols = [i \in Hooks \cup Edits |-> {}]
    /\ due = [s \in Sweeps |-> {}]

-----------------------------------------------------------------------------
(* Buyers: POST /tickets/checkout and POST /tickets/purchase.              *)

\* The checkout's check without a lock; a direct purchase has none.
Request(b) ==
    /\ pc[b] = "idle"
    /\ IF b \in Direct \/ (stock.sold + Qty[b] <= stock.total /\ Qty[b] <= MaxPerUser)
       THEN Go(b, "reserve")
       ELSE Go(b, "failed")
    /\ UNCHANGED <<db, rowLock, fate, buy, act, entity, typeEntity, due>>

\* SELECT ... FOR UPDATE to COMMIT: one step, the type's row is locked throughout.
CreatePendingPurchase(b) ==
    /\ pc[b] = "reserve"
    /\ IF stock.sold + Qty[b] > stock.total \/ NotNull
       THEN Go(b, "failed") /\ UNCHANGED <<stock, status>>
       ELSE /\ status' = [status EXCEPT ![b] = "PENDING"]
            /\ stock' = [stock EXCEPT !.sold = @ + Qty[b]]
            /\ Go(b, IF b \in Direct THEN "load" ELSE "prefer")
    /\ UNCHANGED <<batch, rowLock, fate, buy, act, entity, typeEntity, due>>

\* The fee and MercadoPago's preference; either call may fail.
CreatePreference(b) ==
    /\ pc[b] = "prefer"
    /\ Go(b, "answer") \/ Go(b, "failed")
    /\ UNCHANGED <<db, rowLock, fate, buy, act, entity, typeEntity, due>>

\* save(savedPurchase) with the fees writes the entity's PENDING back too; then
\* createPaymentIntent may fail, or the buyer gets the link to pay with.
Answer(b) ==
    /\ pc[b] = "answer"
    /\ Free(b)
    /\ status' = [status EXCEPT ![b] = "PENDING"]
    /\ \/ Go(b, "done") /\ fate' = [fate EXCEPT ![b] = "open"]
       \/ Go(b, "failed") /\ UNCHANGED fate
    /\ UNCHANGED <<stock, batch, rowLock, buy, act, entity, typeEntity, due>>

-----------------------------------------------------------------------------
(* MercadoPago (environment): what becomes of a payment link.              *)

Settle(p) ==
    /\ \/ fate[p] = "open" /\ fate' = [fate EXCEPT ![p] = "paid"]
       \/ fate[p] = "open" /\ fate' = [fate EXCEPT ![p] = "closed"]
       \/ fate[p] = "paid" /\ fate' = [fate EXCEPT ![p] = "refunded"]
    /\ UNCHANGED <<db, rowLock, pc, buy, act, entity, typeEntity, due>>

\* The notifications MercadoPago sends of a purchase, in any order and repeated.
Notifies(p, a) ==
    CASE a = "processed" -> fate[p] \in {"paid", "refunded"}
      [] a = "refunded" -> fate[p] = "refunded"
      [] OTHER -> fate[p] = "closed"

-----------------------------------------------------------------------------
(* completePurchase, called by a direct purchase, by the payments webhook  *)
(* and, on a connection of its own, by the ticket webhook.                 *)

\* A payment is confirmed when MercadoPago says it is approved; a merchant
\* order exists as soon as the payer opens the link, and its state is not read.
ApprovedMut(c, p) == fate[p] # "unknown"          \* whatever the payment's status
Approved(c, p) == IF c \in MerchantOrders THEN fate[p] # "unknown" ELSE fate[p] = "paid"

ConfirmTicketPayment(c, p) ==
    /\ pc[c] = "idle"
    /\ Approved(c, p)
    /\ buy' = [buy EXCEPT ![c] = p]
    /\ Go(c, "load")
    /\ UNCHANGED <<db, rowLock, fate, act, entity, typeEntity, due>>

CompleteLoad(c) ==
    /\ pc[c] = "load"
    /\ tix' = [tix EXCEPT ![c] = Linked(buy[c])]
    /\ Go(c, IF status[buy[c]] = "COMPLETED" THEN "done" ELSE "diff")
    /\ UNCHANGED <<db, rowLock, fate, buy, act, upd, relink, hit, typeEntity, due>>

CompleteSelect(c) ==
    /\ pc[c] = "diff"
    /\ SelectPurchase(c, "COMPLETED")
    /\ Go(c, "issue")
    /\ UNCHANGED <<db, rowLock, fate, buy, act, tix, hit, typeEntity, due>>

\* UPDATE of the purchase, the loop that issues the tickets, COMMIT.  The loop
\* throws at purchase.event.id when the row has no event.
CompleteIssue(c) ==
    LET p == buy[c] IN
    /\ pc[c] = "issue"
    /\ upd[c] => Free(p)
    /\ IF HasEvent(p) /\ MayRelink(c)
       THEN /\ status' = [status EXCEPT ![p] = IF upd[c] THEN "COMPLETED" ELSE @]
            /\ batch' = [Relinked(c) EXCEPT
                           ![c] = [of |-> p, linked |-> TRUE, status |-> "ACTIVE"]]
            /\ Go(c, "done")
       ELSE Go(c, "failed") /\ UNCHANGED <<status, batch>>
    /\ UNCHANGED <<stock, rowLock, fate, buy, act, entity, typeEntity, due>>

-----------------------------------------------------------------------------
(* The ticket webhook: processOrderAction and its handlers.                *)

\* The row is read; order.processed is for a PENDING purchase only.
ProcessOrderAction(h, p, a) ==
    /\ pc[h] = "idle"
    /\ Notifies(p, a)
    /\ buy' = [buy EXCEPT ![h] = p]
    /\ act' = [act EXCEPT ![h] = a]
    /\ tix' = [tix EXCEPT ![h] = Linked(p)]
    /\ Go(h, IF a = "processed" /\ status[p] # "PENDING" THEN "done" ELSE "save")
    /\ UNCHANGED <<db, rowLock, fate, upd, relink, hit, typeEntity, due>>

HookSelect(h) ==
    /\ pc[h] = "save"
    /\ SelectPurchase(h, Target(act[h]))
    /\ Go(h, "update")
    /\ UNCHANGED <<db, rowLock, fate, buy, act, tix, hit, typeEntity, due>>

\* The UPDATE takes the purchase's row lock until the end of the transaction;
\* order.processed then awaits completePurchase, on another connection, when
\* the purchase was loaded without tickets.
HookUpdate(h) ==
    /\ pc[h] = "update"
    /\ upd[h] => Free(buy[h])
    /\ IF ~MayRelink(h)
       THEN Go(h, "failed") /\ UNCHANGED <<rowLock, buy>>
       ELSE /\ rowLock' = [rowLock EXCEPT ![buy[h]] = IF upd[h] THEN h ELSE @]
            /\ IF act[h] = "processed" /\ tix[h] = {}
               THEN /\ pc' = [pc EXCEPT ![h] = "await", ![Call[h]] = "load"]
                    /\ buy' = [buy EXCEPT ![Call[h]] = buy[h]]
               ELSE Go(h, "mark") /\ UNCHANGED buy
    /\ UNCHANGED <<db, fate, act, entity, typeEntity, due>>

UnlockedMut(h) == rowLock              \* no COMMIT or ROLLBACK on this path
Unlocked(h) == [p \in Purchases |-> IF rowLock[p] = h THEN NoOne ELSE rowLock[p]]

\* completePurchase has returned, or thrown and the transaction is rolled back.
HookResume(h) ==
    /\ pc[h] = "await"
    /\ \/ pc[Call[h]] = "done" /\ Go(h, "mark") /\ UNCHANGED rowLock
       \/ pc[Call[h]] = "failed" /\ Go(h, "failed") /\ rowLock' = Unlocked(h)
    /\ UNCHANGED <<db, fate, buy, act, entity, typeEntity, due>>

ReachedMut(h) == tix[h]                \* the tickets of the entity it has loaded
Reached(h) == {i \in Issued(buy[h]) : IsLinked(h, i)}

\* UPDATE tickets SET status ... WHERE purchaseId = p, if PostgreSQL has such a
\* column; if not, the statement fails and the transaction is rolled back.
HookMark(h) ==
    /\ pc[h] = "mark"
    /\ IF Resolves
       THEN /\ hit' = [hit EXCEPT ![h] = Reached(h)]
            /\ Go(h, IF act[h] = "processed" THEN "commit" ELSE "read")
            /\ UNCHANGED rowLock
       ELSE Go(h, "failed") /\ rowLock' = Unlocked(h) /\ UNCHANGED hit
    /\ UNCHANGED <<db, fate, buy, act, tix, upd, relink, typeEntity, due>>

\* releaseInventory: the type is read without a lock and sold is set.
ReleaseRead(h) ==
    /\ pc[h] = "read"
    /\ ent' = [ent EXCEPT ![h] = [total |-> stock.total,
                                  sold |-> Less(stock.sold, Qty[buy[h]])]]
    /\ Go(h, "recount")
    /\ UNCHANGED <<db, rowLock, fate, buy, act, entity, cols, due>>

ReleaseSelect(h) ==
    /\ pc[h] = "recount"
    /\ SelectType(h)
    /\ Go(h, "commit")
    /\ UNCHANGED <<db, rowLock, fate, buy, act, entity, ent, due>>

HookCommit(h) ==
    /\ pc[h] = "commit"
    /\ IF WithinCheck(UpdatedType(h))
       THEN /\ stock' = UpdatedType(h)
            /\ status' = [status EXCEPT ![buy[h]] = IF upd[h] THEN Target(act[h]) ELSE @]
            /\ batch' = [i \in Completers |->
                           IF i \in hit[h]
                           THEN [Relinked(h)[i] EXCEPT !.status = TicketTarget(act[h])]
                           ELSE Relinked(h)[i]]
            /\ Go(h, "done")
       ELSE Go(h, "failed") /\ UNCHANGED db
    /\ rowLock' = Unlocked(h)
    /\ UNCHANGED <<fate, buy, act, entity, typeEntity, due>>

-----------------------------------------------------------------------------
(* cleanupExpiredPendingPurchases.                                         *)

\* PENDING for 30 minutes: longer than any checkout request takes.
ExpirableMut == {p \in Purchases : status[p] = "PENDING"}    \* of any age
Expirable == {p \in Purchases : /\ status[p] = "PENDING"
                                /\ p \in Buyers => pc[p] \in Finished}

SweepList(s) ==
    /\ pc[s] = "idle"
    /\ \E list \in SUBSET Expirable :
         /\ due' = [due EXCEPT ![s] = list]
         /\ IF list = {}
            THEN Go(s, "done") /\ UNCHANGED buy
            ELSE Go(s, "release") /\ \E p \in list : buy' = [buy EXCEPT ![s] = p]
    /\ UNCHANGED <<db, rowLock, fate, act, entity, typeEntity>>

\* One turn of the loop; its transaction may fail, and the loop goes on.
SweepRelease(s) ==
    LET p == buy[s]
        left == due[s] \ {p}
    IN
    /\ pc[s] = "release"
    /\ Free(p)
    /\ \/ /\ status' = [status EXCEPT ![p] = "FAILED"]
          /\ stock' = [stock EXCEPT !.sold = Less(@, Qty[p])]
       \/ UNCHANGED <<status, stock>>
    /\ due' = [due EXCEPT ![s] = left]
    /\ IF left = {}
       THEN Go(s, "done") /\ UNCHANGED buy
       ELSE UNCHANGED pc /\ \E q \in left : buy' = [buy EXCEPT ![s] = q]
    /\ UNCHANGED <<batch, rowLock, fate, act, entity, typeEntity>>

-----------------------------------------------------------------------------
(* TicketTypesService.update: the entity is loaded, merged and saved.      *)

EditLoad(e) ==
    /\ pc[e] = "idle"
    /\ \E n \in NewTotals \cup {stock.total} :
         ent' = [ent EXCEPT ![e] = [total |-> n, sold |-> stock.sold]]
    /\ Go(e, "merge")
    /\ UNCHANGED <<db, rowLock, fate, buy, act, entity, cols, due>>

EditSelect(e) ==
    /\ pc[e] = "merge"
    /\ SelectType(e)
    /\ Go(e, "write")
    /\ UNCHANGED <<db, rowLock, fate, buy, act, entity, ent, due>>

EditWrite(e) ==
    /\ pc[e] = "write"
    /\ IF WithinCheck(UpdatedType(e))
       THEN stock' = UpdatedType(e) /\ Go(e, "done")
       ELSE Go(e, "failed") /\ UNCHANGED stock
    /\ UNCHANGED <<status, batch, rowLock, fate, buy, act, entity, typeEntity, due>>

-----------------------------------------------------------------------------
\* The server stops: requests in flight are lost, their transactions undone.
Crash ==
    /\ \E i \in Procs : pc[i] \notin Finished \cup {"idle"}
    /\ pc' = [i \in Procs |-> IF pc[i] \in Finished \cup {"idle"} THEN pc[i] ELSE "crashed"]
    /\ rowLock' = [p \in Purchases |-> NoOne]
    /\ UNCHANGED <<db, fate, buy, act, entity, typeEntity, due>>

BuyerStep(b) == Request(b) \/ CreatePendingPurchase(b) \/ CreatePreference(b) \/ Answer(b)
CompleteStep(c) == CompleteLoad(c) \/ CompleteSelect(c) \/ CompleteIssue(c)
HookStep(h) == \/ HookSelect(h) \/ HookUpdate(h) \/ HookResume(h) \/ HookMark(h)
               \/ ReleaseRead(h) \/ ReleaseSelect(h) \/ HookCommit(h)
EditStep(e) == EditLoad(e) \/ EditSelect(e) \/ EditWrite(e)

Next ==
    \/ \E b \in Buyers : BuyerStep(b)
    \/ \E p \in Purchases : Settle(p)
    \/ \E c \in Confirms, p \in Purchases : ConfirmTicketPayment(c, p)
    \/ \E c \in Completers : CompleteStep(c)
    \/ \E h \in Hooks, p \in Purchases, a \in Actions : ProcessOrderAction(h, p, a)
    \/ \E h \in Hooks : HookStep(h)
    \/ \E s \in Sweeps : SweepList(s) \/ SweepRelease(s)
    \/ \E e \in Edits : EditStep(e)
    \/ Crash

Spec == Init /\ [][Next]_vars

\* Node runs a request's next step once its await is answered; PostgreSQL grants
\* a free lock to a waiter in turn.
Fairness ==
    /\ \A b \in Buyers : WF_vars(BuyerStep(b))
    /\ \A c \in Completers : SF_vars(CompleteStep(c))
    /\ \A h \in Hooks : SF_vars(HookStep(h))
    /\ \A s \in Sweeps : SF_vars(SweepRelease(s))
    /\ \A e \in Edits : WF_vars(EditStep(e))
FairSpec == Spec /\ Fairness

-----------------------------------------------------------------------------
(* Properties.                                                             *)

\* Every variable stays in its range.
TypeOK ==
    /\ stock \in [total : Nat, sold : Nat]
    /\ status \in [Purchases -> PurchaseStatus]
    /\ batch \in [Completers -> [of : Purchases \cup {NoOne}, linked : BOOLEAN,
                                 status : TicketStatus]]
    /\ rowLock \in [Purchases -> Hooks \cup {NoOne}]
    /\ fate \in [Purchases -> Fate]
    /\ pc \in [Procs -> Label]
    /\ buy \in [Procs -> Purchases \cup {NoOne}]
    /\ act \in [Hooks -> WebhookAction]
    /\ tix \in [Completers \cup Hooks -> SUBSET Completers]
    /\ upd \in [Completers \cup Hooks -> BOOLEAN]
    /\ relink \in [Completers \cup Hooks -> SUBSET Completers]
    /\ hit \in [Hooks -> SUBSET Completers]
    /\ ent \in [Hooks \cup Edits -> [total : Nat, sold : Nat]]
    /\ cols \in [Hooks \cup Edits -> SUBSET {"total", "sold"}]
    /\ due \in [Sweeps -> SUBSET Purchases]

\* The purchase's row is locked exactly by the webhook that has updated it and
\* has neither committed nor rolled back: no handler ends with the lock kept, and
\* none commits a status without it.
RowLockHeld ==
    /\ \A p \in Purchases : rowLock[p] # NoOne =>
         LET h == rowLock[p] IN upd[h] /\ buy[h] = p /\ pc[h] \in InTransaction
    /\ \A h \in Hooks : upd[h] /\ pc[h] \in InTransaction => rowLock[buy[h]] = h

\* A refunded purchase has no ticket left that lets anybody in: whichever payments
\* are confirmed while the webhook of the refund is between its read, its UPDATEs
\* and its COMMIT, it reaches the tickets that they issue, or it fails, or they do.
RefundKills ==
    \A i \in Completers :
      batch[i].of # NoOne /\ status[batch[i].of] = "REFUNDED" => batch[i].status # "ACTIVE"

\* Tickets are issued only for a purchase that MercadoPago has been paid for
\* (no merchant order, whose state the code does not read, is in play).
PaidBeforeIssued ==
    \A i \in Completers : batch[i].of # NoOne => fate[batch[i].of] \in {"paid", "refunded"}

\* A settled purchase is never PENDING again: not by the checkout's late save of
\* the entity it created, and so never released by the cleanup a second time.
NeverReopened ==
    [][\A p \in Purchases : status[p] \notin {"NONE", "PENDING"} => status'[p] # "PENDING"]_vars

\* With checkouts and one cleanup run alone, soldQuantity is exactly what the
\* PENDING purchases reserve: no reservation is lost, leaked or released twice.
ReservationsExact == stock.sold = QtyOf({p \in Purchases : status[p] = "PENDING"})

\* In the migrations' schema a ticket keeps its purchase: whatever entity is
\* saved late, with tickets it was loaded without, the save fails instead.
TicketsKeepPurchase ==
    \A i \in Completers : batch[i].of # NoOne => batch[i].linked

\* Whoever has started ends (answers, fails or is lost in a crash).
HandlersFinish ==
    \A i \in Procs : pc[i] # "idle" ~> pc[i] \in Finished

\* What was sold fits: the reserved and the confirmed tickets together are not
\* more than the ticket type has.
NoOverselling ==
    QtyOf({p \in Purchases : status[p] \in {"PENDING", "COMPLETED"}}) <= stock.total

\* No stock is lost for good: what is counted as sold is reserved by a purchase that
\* the cleanup can still release, or has been confirmed.
NothingLeaked ==
    stock.sold <= QtyOf({p \in Purchases : status[p] \in {"PENDING", "COMPLETED"}})

\* One purchase's tickets are issued once.
IssuedOnce == \A p \in Purchases : \A i, j \in Issued(p) : i = j

\* The committed ticket type counts no more sold than there are; other invariants
\* rest on it.
StockWithinCapacity == 0 <= stock.sold /\ stock.sold <= stock.total

\* No two completions of a purchase are both between their read of it and their
\* write.
Apart ==
    \A c, d \in Completers :
      {pc[c], pc[d]} \subseteq {"diff", "issue"} /\ buy[c] = buy[d] => c = d
=============================================================================
