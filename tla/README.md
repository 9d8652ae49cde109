# TLA+ models of the menucom API

This directory models the parts of the menucom backend (NestJS, TypeORM,
PostgreSQL, MercadoPago) in which concurrency, failures and the order of
messages decide whether money, stock, tickets, catalogs, memberships and accounts
come out right. TLC checks the
models on small instances, TLAPS proves their main safety properties for every
value of the constants. `PROJECT.json` lists the runs, the source lines that each
definition stands for, the hazards and the theorems.

To check a run: `tlc -workers 2 -config TicketSales_reserve.cfg MCTicketSales`.
To check proofs: `tlapm TicketSalesProofs.tla`.

## 1. The system

Every HTTP request, webhook delivery and cron job is a chain of asynchronous
steps in one Node process (there may be several servers). Between two `await`s
any other chain may run. State lives in PostgreSQL at READ COMMITTED and at
MercadoPago. Three facts shape nearly every hazard below:

* `repository.save(entity)` is a SELECT followed by an UPDATE of the columns in
  which the entity differs *from what that SELECT read*. An entity loaded earlier
  therefore writes back every column that somebody else has changed since, and
  inserts the row again if it was deleted. A loaded one-to-many relation is
  written back as well.
* Few paths lock: `createPendingPurchase` locks the ticket type's row, the ticket
  webhook's transaction locks the purchase's row from its UPDATE on. Everything
  else reads, decides and saves.
* MercadoPago repeats a notification until it gets a 2xx answer, and orders none.

### Components

| Component | State | Operations | Interacts with | Hard behaviour | What makes it correct |
|---|---|---|---|---|---|
| Ticket sales (`events/services/tickets`, `event-payment`) | `ticket_types`, `ticket_purchases`, `tickets` | reserve, pay link, direct purchase, `completePurchase` | MercadoPago, both webhooks, cleanup | stale saves, a committed reservation before a failing call | stock neither oversold nor leaked; tickets only when paid, once |
| Ticket webhook | the same, under a transaction | processed, refunded, canceled/expired, `releaseInventory` | `completePurchase` on a second connection | lock kept over awaits, stale read of the type | lock balanced and exclusive; every delivery ends |
| Reservation cleanup (cron) | the same | list PENDING purchases, release each | payments that arrive meanwhile | acts on a list read before | releases only what is PENDING, once |
| Ticket types | `ticket_types` | organizer's edit | reservations | lowers the total under sold stock | sold <= total |
| Ticket validation, QR codes | `tickets.status`, `tickets.qrCode` | two validation routes, regenerate, show codes | ticket webhook | two scans, save over a scan | one ticket, one entry |
| Idempotency store | `idempotency_records` | `tryProcess`, `cleanupExpired` | the two MercadoPago webhooks | crash between statements, retry | an effect at most once; in the end once |
| Payment webhook | none of its own | payment and merchant order notifications | orders, ticket sales, store, gateway | late, repeated, reordered | status follows the payment |
| Orders | `orders.status`, `paymentStatus`, `chargebackProcessedAt` | webhook status, fulfilment, edit, delete, fees | payment webhook | unlocked read, check, save | nothing shipped unpaid; stages in order |
| Payment intents, status mapping | `payment_intent.state` | created in the checkout, moved by webhooks | orders | created inside the order's transaction | agrees with the order |
| MercadoPago client, OAuth accounts, marketplace fees | `mercado_pago_accounts` | link, refresh, unlink | MercadoPago | rotating refresh token | the stored token is the valid one |
| Memberships, billing, preapprovals (`membership`) | `memberships`, the preapprovals at MercadoPago | subscribe, cancel, enable, migrate, pause, resume, extend, change by hand, notification | MercadoPago | created there before saved here, repeated and late notifications | what charges the user is recorded; the status follows |
| Plans, discounts, resource limits | `subscription_plans`, counts of other tables | check a quota, administer plans | catalogs, commerces | count, then insert | the excess is bounded |
| Catalogs (`catalog`) | `catalogs`, `catalog_items` | create, show, update, archive, link, delete; add, show, edit, delete an item | resource limits | a visit saves all that it has loaded | no item is lost, none is overwritten by another request |
| Commerces, roles (`commerce`, `auth/user-role`) | `commerces`, `user_roles` | open, update, deactivate; assign, revoke, update, change the own business | resource limits | a lookup that ignores NULL, look then insert | an owner stays one; a role is in one row |
| Accounts (`auth`, `user`) | `user`, `user_roles`, `recovery_password` | register, social login, update, delete, recover the password | Firebase, roles | look, then insert; stale saves | one account for an e-mail; a code opens once |
| Business profiles, events, venues | one row each | CRUD | | | |
| Notifications, websocket gateway | push tokens | send with retries | FCM | stale token | a live token is kept |
| Image proxy cache | an in-memory map | get, set, evict, expire | HTTP | bound, accounting | size = sum of the entries, within its bound |
| Logger, interceptors, uploads, app data, public API, PDFs | none | formatting, pass-through | | none | |

## 2. Modules

```
OnceOnly  <--refines--  Idempotency  --EXTENDS--  MCIdempotency, IdempotencyProofs
                        TicketSales  --EXTENDS--  MCTicketSales, TicketSalesProofs
                        TicketValidation -------  MCTicketValidation, TicketValidationProofs
                        OrderPayments ----------  MCOrderPayments, OrderPaymentsProofs
CatalogLimits <--refines--  Catalogs -----------  MCCatalogs, CatalogsProofs
                        CatalogLimits ----------  MCCatalogLimits (proofs: CatalogsProofs)
                        Commerces --------------  MCCommerces, CommercesProofs
                        Accounts ---------------  MCAccounts, AccountsProofs
                        Subscriptions ----------  MCSubscriptions, SubscriptionsProofs
```

A handler is a process with a program counter: one action per stretch between two
awaits, with every write of that stretch in it. Definitions called `...Mut` are
plausible bugs of the definition next to them; no specification uses them, the
mutants of `PROJECT.json` do, to show that each property can fail.

Catalogs, Commerces, Accounts and Subscriptions have a finite set `Reqs` of
requests, each of which performs one operation; a request that has ended is not
followed by another. Stale entities are what can go wrong there, and a ghost
variable says when: `overtaken` holds the requests that were in flight when another
one wrote. `Late` are those of them that have written all the same. A property with
the premise `Late = {}` says what the code guarantees when its stale writes do not
happen, so that whatever else goes wrong is another mistake; a property of the
requests outside `overtaken` says that only staleness makes a request do what it was
not asked for. `save()` is two steps, SELECT and write, where its SELECT decides
something that the handler's own load does not (TicketSales, OrderPayments,
Catalogs), and one step elsewhere.

### TicketSales

One ticket type and its purchases. `stock` is the `ticket_types` row, `status` the
purchases' `paymentStatus`, `batch` the tickets that one `completePurchase` call
issues, `rowLock` the webhook whose open transaction has updated a purchase,
`fate` MercadoPago's side. The program counters name the await:

| Processes | Actions | Code |
|---|---|---|
| `Buyers` | `Request`, `CreatePendingPurchase` (row lock, check, reserve, insert, commit), `CreatePreference`, `Answer` (the late save of the created entity) | `event-payment.service.ts`, `tickets.service.ts:31-84` |
| `Confirms`, `Direct`, `Calls` | `ConfirmTicketPayment`, `CompleteLoad`, `CompleteSelect`, `CompleteIssue` | `payment-webhook.service.ts`, `tickets.service.ts:86-150` |
| `Hooks` | `ProcessOrderAction`, `HookSelect`, `HookUpdate`, `HookResume`, `HookMark`, `ReleaseRead`, `ReleaseSelect`, `HookCommit` | `tickets-webhook.controller.ts` |
| `Sweeps` | `SweepList`, `SweepRelease` | `ticket-cleanup.service.ts` |
| `Edits` | `EditLoad`, `EditSelect`, `EditWrite` | `ticket-types.service.ts:59-77` |
| environment | `Settle` (paid, refunded, expired), `Crash` | |

`handleOrderProcessed` runs `completePurchase` of its own (`Call[h]`), which opens a
second transaction: the webhook's delivery waits in `await` for it to finish while
it waits for the row that the webhook has locked. `NotNull` and `Resolves` choose
between the two schemas the repository can produce (the migrations', and the one
TypeORM synchronizes from the entities) where they differ.

### Idempotency and OnceOnly

`Idempotency` is `tryProcess`, statement by statement: `Insert` (unique index),
`Run` (the processor, which may throw before or after its effect),
`StoreResponse`, `Undo` (the DELETE after an exception), and around it
`Redeliver`, `Expire`, `CleanupExpired` and `Crash`. Each failure is a fault of the
set `Faults`, and at most `MaxFaults` happen. `OnceOnly` is what such a store
promises: one holder of a key at a time, only the holder works, a finished key is
never given away again. The refinement maps the holder to the delivery that is past
its INSERT and the closed keys to the rows that outlive their delivery.

### TicketValidation

One ticket at the door: `Present` (a scan's load and checks), `RegenerateQRCode`,
`GetTicketWithOfflineData` (`GET qr-data`, which makes a code and stores none), the
two statements of their `save`, the ticket webhook, and `Age` (seven days pass). Codes
are numbered in the order of their generation.

The webhook's UPDATE of the tickets does not look at what they are. `Settle` is the
refund and the failure. `HandleOrderProcessed` is `tickets-webhook.controller.ts:276-282`,
by which *used* tickets become ACTIVE too: the delivery has found the purchase PENDING,
and so has the SELECT of its save; then a payment's confirmation issues the tickets and
somebody enters; the handler's own `completePurchase` finds the purchase COMPLETED and
returns, and the UPDATE follows. The purchase is PENDING only before the ticket exists,
so that such deliveries are there from the start (`Hooks`), and each updates once.

### OrderPayments

One order after its checkout, `order` its row (status, payment status, chargeback
mark), `mp` its payments at MercadoPago, `got` what a webhook was told, `ent` the
entity a handler has loaded, `cols` the columns its `save` writes.

| Action | Code |
|---|---|
| `GetPaymentInfo`, `UpdateOrderStatus`, `Reread`, `MarkChargebackProcessed`, `UpdateOrderPaymentFees` | `payment-webhook.service.ts:139-300` with `orders.service.ts:568-733` |
| `UpdateOrderFulfillmentStatus` (`Following`, `Approved`) | `orders.service.ts:626-682`, the seller |
| `EditOrder`, `Delete` | `orders.service.ts:496-562`; the body of an edit is a `Partial<CreateOrderDto>`, at runtime an `Object`, into which the `ValidationPipe` does not look, and `Object.assign` takes any column from it. `Bodies` are the columns that bodies name, with the values they give them; the saved entity carries the other columns as they were loaded |
| `Select`, `Update` | `save(order)`, including the INSERT of a row deleted meanwhile |
| `Pay`, `Fail` | MercadoPago; a failing statement or a stop of the server |

A handler serves request after request without a bound; how many are served *at a
time* is the number of handlers. `named` remembers the columns that bodies of edits have
named: what they write is checked by nothing, so that each property is claimed as long as
the columns it rests on have not been written in this way. That is the caller's doing;
what stale saves do to the same columns is the code's, and stays in.

### Catalogs

One catalog with its items, `shop` the row and the items' prices. The public routes
save the catalog with all its items to count the visit.

| Actions | Code |
|---|---|
| `GetPublicCatalog`, `GetItemById` | `catalog.service.ts`, the visits |
| `UpdateCatalog`, `ArchiveCatalog`, `AssignCatalogToCommerce`, `DeleteCatalog`, `Refuse` | `catalog.service.ts`, `catalog.controller.ts` |
| `AddItem` (`HasRoom`, `PlanAllows`), `UpdateItem`, `DeleteItem` | the same |
| `InsertItem`, `Remove`, `SaveSelect`, `SaveWrite`, `Reject` | `save` and `remove` of TypeORM on `catalog.entity.ts`, `catalog-item.entity.ts`: what the entity had when loaded and the SELECT did not find is inserted, an item the SELECT found and the entity does not have gets `catalogId` NULL, which its column forbids |

### CatalogLimits

The number of catalogs against `maxCatalogs`. Here a request is followed by others
without a bound, and `Cats` only has to be larger than the bound that is checked.
`GetPlanLimits`, `CanCreateCatalog` and `InsertCatalog` are three awaits of a
creation (`resource-limit.service.ts`, `catalog.service.ts`); `Save` is what the other
requests of Catalogs do to the table, `ChangePlan` what Subscriptions does to the plan.
At the start the merchant has any catalogs that his plan allows. A request may end
without a write (`Refuse`) wherever it awaits a statement.

Catalogs implements CatalogLimits (`ImplementsLimits`): of the table of catalogs, its one
catalog is all that a merchant has, a request on an item does nothing, and one that
saves the catalog, a visit or a change, is a `LoadCatalog` followed by a `Save` or a
`Refuse`; `Stage` maps the one's program counter to the other's.

### Commerces

One merchant's commerces and his rows of `user_roles`. `opens` is the commerce that a
request is about, `want` the role it looks up or grants, `had` the contexts in which
he was an owner before.

| Actions | Code |
|---|---|
| `Create` (`MayOpen`), `InsertCommerce`, `Lookup`, `LoadCommerce`, `SaveCommerce`, `Refuse` | `commerce.service.ts` |
| `AssignRole`, `Find` (`Matches`), `Grant`, `SaveRow`, `RevokeRole`, `Remove`, `UpdateRole`, `ChangeOwnRole`, `Sync` | `user-role.service.ts`, `user-role.controller.ts` |

A where clause with `resourceId: null` does not filter by it: `Matches` finds the role
of any resource, and which one is not determined.

### Accounts

The accounts with one e-mail address, `codes` the rows of `recovery_password`.

| Actions | Code |
|---|---|
| `Register`, `LoginSocial`, `FindByEmail`, `UpdateSocialToken`, `RegisterSocialWithData`, `CreateOfSocial`, `Insert`, `GrantMain`, `GrantCustomer` | `auth.service.ts`, `user-auth.service.ts`, `user.service.ts` |
| `UpdateProfile`, `SaveUser`, `RemoveUser`, `DeleteUser` | `user.service.ts`, `user-profile.service.ts` |
| `ChangePasswordByUser`, `FindCode`, `SendVerificationCode`, `DropCode`, `UseUp` | `user-recovery.service.ts` |

### Subscriptions

One user's membership, his preapprovals `mp` at MercadoPago and the notifications `due`.

| Actions | Code |
|---|---|
| `GetMembership`, `Subscribe`, `SubscribeFree`, `CancelMembership`, `CancelSubscription` | `membership.controller.ts`, `membership.service.ts` |
| `EnableAutoBilling`, `MigrateToAutoBilling`, `MigrateToManualBilling`, `PauseSubscription`, `ResumeSubscription`, `Touch`, `GeneratePaymentLink`, `ExtendMembership`, `UpdateByHand` | `billing-admin.service.ts`, `membership-admin.service.ts` |
| `CreatePreapproval`, `CallMercadoPago` | `mercado-pago-subscription.service.ts`, with requests that fail and answers that are lost |
| `FindMembership`, `CreateMembership`, `Update`, `Save` | the writes of the above |
| `HandlePreapprovalWebhook`, `GetPreapproval`, `MatchMembership` | `membership-webhook.controller.ts` |
| `MercadoPagoChanges` | the payer and his bank |

`months` is `expiresAt` as the months that are left (negative when past), or `Never`
where there is none: an access without `expiresAt` does not expire
(`membership.entity.ts:159`). `ExtendMembership` counts from now for such a one, so that the
extension makes it end, and takes the number of months from a body that no DTO describes:
`Periods` may have any integers, and an extension by less than a month is of the kind
`reduce`.

`twice` and `forced` remember two things after which nothing can be promised: a second
subscription by a user who has one, and a status written by hand.

## 3. Runs

The largest runs are `TicketValidation_entry` (4.1 million states), `OrderPayments_stages`
(2.2 million), `Subscriptions_charge` (1.5 million) and `Commerces_open` (0.7 million); none
takes more than three minutes with two workers. `CHECK_DEADLOCK FALSE` stands where all requests may be served and nothing more happens.

| Run | Bounds | What it shows |
|---|---|---|
| `TicketSales_reserve` | 5 tickets; one old, three new purchases (one direct) of one or two tickets, one cleanup run | `ReservationsExact`: `soldQuantity` is exactly what the PENDING purchases reserve, so no reservation is lost, leaked or released twice, also when the payment link fails or the server stops. `NeverReopened`: the checkout's late save never makes a released purchase PENDING again |
| `TicketSales_webhooks` | one old purchase of one ticket, a new one of two, a total of two, two webhooks that process, a payment notification, two cleanup runs | `RowLockHeld`: the lock is held exactly from UPDATE to COMMIT or ROLLBACK, over the await in between, its failure and a crash (for refunds and failures it is proved). `PaidBeforeIssued`. `NothingLeaked`: however often stock is released, what counts as sold is some purchase's |
| `TicketSales_handlers` | an old purchase of one ticket, a new one of two (which the migrations' schema refuses at its INSERT, as `eventId` is missing), a merchant order, a refund or failure webhook, a cleanup, an edit that lowers the total to 0; the migrations' schema; fairness | `HandlersFinish`: every request, webhook, cleanup and edit ends (no webhook that processes: see below). `RefundKills`: a refunded purchase has no ACTIVE ticket, wherever between its read, its UPDATEs and its COMMIT the refund meets the confirmation that issues tickets. `TicketsKeepPurchase`. `TypeOK`, with `soldQuantity` a number though `releaseInventory` and the edit write what they computed from an earlier read |
| `Idempotency_once` | three deliveries, two of one key, four faults of any kind but one after an effect | `Exclusive`, `EffectOnce`, and that `tryProcess` implements `OnceOnly` |
| `Idempotency_delivered` | the same deliveries, three faults of any kind but a crash and a failing DELETE; fairness; `cleanupExpired` called as it is written | `EffectsAccounted`: each delivery answered as processed has had an effect, and each further effect is paid for by a fault. `Delivered`: every notification takes effect at last |
| `TicketValidation_entry` | three scans by two routes, two regenerations, one webhook that processes, refunds, three codes | `UsedByEntry`: no ticket is used up without an entry, whatever entities are written back. `NeverRevived`: only a regeneration that has loaded the ticket before, or, once, a webhook that found the purchase PENDING, makes a dead ticket ACTIVE again. `NoSecondEntry`: after one scan has been let in, and without either of them, later ones are refused |
| `OrderPayments_stages` | a webhook, and a handler for the seller and for edits, requests without number; two attempts to pay; deletion; edits that name no column, the payment's status (as approved) or all columns, after which a behaviour is not followed (`NotAllNamed`), as no property claims anything of it; the proofs cover any bodies | `FulfilledOnlyPaid`, `StagesInOrder`, `ChargebackCancels`, each unless a body has written the column it rests on |
| `Catalogs_items` | three requests, three items, a capacity of two, two prices | `NoItemLost`: however late a visit is saved, an item goes only by its own deletion or that of its catalog. `OnlyOwnChanges`: a visit changes nothing, an edit no other item, nothing revives what was deleted. `CapacityKept`. `ImplementsLimits`: nothing they do to the table of catalogs, inserting a deleted one again included, is missing in CatalogLimits |
| `CatalogLimits_bound` | two requests at a time, without number; one commerce; limits 0 and 1; five catalogs, one more than the bound | `Bounded`: links, stale saves, deletions and changes of plan do not add up, the excess stays that of the requests in flight |
| `Commerces_open` | two requests, three commerces, four rows of which two from before, two contexts, a limit of one | `CommerceLimit`, `KeepsAccess`: an opening takes back a role at random, and the merchant stays an owner all the same. `GrantedOnce` |
| `Accounts_email` | three requests, accounts and codes | `OneAccount`, `HasRole`, `CodeOnce`, `OwnChanges` |
| `Subscriptions_charge` | three requests or notifications, two of them at a time, at most one of which fails or is refused (`Few`), two preapprovals, an access that ends in a month, now, a month ago or never, extensions by a month and by minus one; `Early` ends a behaviour after the first write that was too late, the first second subscription and the first status by hand, beyond which the properties promise nothing | `ChargeRecorded`: no preapproval charges the user that the membership does not record, but for requests that failed or are on their way. `StatusFollows`. `OnlyOwnChanges`: what a request that was not overtaken may change, and which ones may shorten the access |

The bounds are the smallest in which every hazard of the component occurs: two
processes for a race, a third to meet its result, stock for one purchase less than
is asked for, a second key beside a shared one, a second payment beside a rejected
one. `Synced` has one context where the code has two, since the two are treated alike,
and `MaxMonths` is one because an access is only compared with another one and moved by
a month. Symmetry is used between
requests and between ids, which no action orders; the runs with symmetry check no
liveness. Every action and every disjunct of the next-state relations fires in a passing
run, and every property has a mutant of the code that breaks it.

### What the code does against its documentation

The models state some promises that the code does not keep, and no run checks them,
as the counterexamples are short. To see one, check it under the cfg that is named:

| Property | How to see it | What happens |
|---|---|---|
| `HandlersFinish` | `TicketSales_handlers` with `Actions = {"processed"}` | `handleOrderProcessed` holds the purchase's row lock and awaits `completePurchase` (`tickets-webhook.controller.ts:273`), which needs that lock on another connection: neither ends |
| `NoOverselling` | `TicketSales_webhooks` | a payment confirmed after the cleanup has released the reservation completes the purchase without reserving again (`NeverOversold` proves the property where nothing is released while payments come in) |
| `IssuedOnce` | `TicketSales_webhooks` | two completions of one purchase, by the notification of the payment or by a webhook, both read PENDING and both issue the tickets (`IssuedOnceApart` proves that only such an overlap does, while nothing is released or refunded) |
| `NoReversal` | `OrderPayments_stages` | a repeated "approved" takes an order in PROCESSING back to CONFIRMED, while the API document excludes reversals |

Behaviour that the models have and that no run is spent on, because one or two
steps show it:

* No purchase that `createPendingPurchase` makes ever yields its tickets, whether it was
  bought directly or through a payment link, and paid or not: the type is loaded without its event, the
  purchase is stored without one (the migrations' schema refuses it), and
  `completePurchase` fails at `purchase.event.id`; the cleanup releases the reservation.
  Only purchases that have an event from elsewhere (`Legacy`) are completed.
* The cleanup marks a purchase FAILED although it was paid after the list was read.
* A purchase refunded while a confirmation is between its read and its write is COMPLETED
  again, with ACTIVE tickets. In the schema that TypeORM synchronizes it may even be
  REFUNDED with ACTIVE tickets (`RefundKills` under `TicketSales_handlers` with
  `NotNull = FALSE`); in the migrations' schema, without processed orders, it is not.
* A webhook of a processed order makes used tickets ACTIVE, if it found the purchase
  PENDING and another confirmation issued them meanwhile.
* Stock released twice (two cleanup runs) or from a stale read (`releaseInventory`, the
  organizer's edit) is sold twice or lost: `ReservationsExact` holds without these only.
* Where `purchaseId` without quotes names no column (`Resolves = FALSE`), the UPDATE
  of the tickets fails and every refund or failure webhook is rolled back.
* A merchant order issues a ticket purchase's tickets, and confirms an order,
  whatever its payments are.
* Idempotency: a response that cannot be stored repeats the work; a duplicate is
  answered as processed while the first is still running; an expired record still
  blocks its key; `cleanupExpired` deletes the live records instead of the expired
  ones (no code calls it); after a crash the work is lost, the retry being taken for
  a duplicate; an endpoint that answers 200 to an error is not retried.
* Two scans that both load the ticket before either saves are both let in; a
  regeneration saved after a scan makes the ticket ACTIVE again; a scan saved after a
  regeneration puts the old code back; the codes shown by `GET qr-data` are never
  accepted; the age of a code is not checked by `POST /tickets/validate/:code`,
  because `LooksSecure` is never true of a code the program makes.
* The body of `PUT /orders/:id` may name `status`, `paymentStatus` and
  `chargebackProcessedAt`, which are then written without any of their checks.
* A cancelled or charged-back order is confirmed again by a late notification; an
  order deleted while an edit is in flight comes back.
* Catalogs: a plan without limits (-1, "Unlimited everything" in
  `docs/implementation/MEMBERSHIP_IMPLEMENTATION.md:194`) gives its catalogs the capacity
  -1, with which no item can be added. The count of the items over the whole plan is
  always 0, as it compares a column with an object (`$in`), so that this limit refuses
  nothing unless it is 0 itself. An archived catalog can be edited, although
  `catalog-type.enum.ts:21` says "no editable". The route by slug shows catalogs that
  are not public. A catalog deleted while it is shown comes back.
* Commerces: the opening of a commerce takes back "the role without resource"
  (`commerce.service.ts:93`), and may find the row it has just written.
* Subscriptions: a user who subscribes twice is charged by both preapprovals, and only
  the second is recorded. `subscribeToPlan` writes 'authorized' whatever MercadoPago
  answered. `DELETE /membership` leaves the preapproval charging. A notification of a
  single payment matches no membership (`membership-webhook.controller.ts:150`). To
  extend an access that never expires makes it end, and an extension by a negative number
  of months shortens any.
* Accounts: two registrations at the same time make two accounts; a profile saved
  after a password reset restores the old password; one saved after a deletion
  restores the account; a code asked for again without a body replaces the first.

### Fairness

`FairSpec` of `TicketSales` asks for weak fairness of each request's next step (Node
resumes a chain whose await is answered, and nothing else disables it), and strong
fairness of the steps that wait for a row lock, because others may take the lock in
between and PostgreSQL grants it to its waiters in turn. Nothing is assumed of
arrivals, of MercadoPago or of crashes. `FairSpec` of `Idempotency` asks for weak
fairness of `tryProcess`'s steps and of MercadoPago's redelivery, which repeats
what it got no 2xx answer for. The number of faults is bounded, as it must be for
`Delivered`. `HandlersFinish` holds for every handler but a processing ticket webhook.

## 4. Proofs

All theorems hold for any sets of processes, purchases, payments, deliveries and
keys under the `ASSUME`s of the modules.

* **TicketSales** (`TicketSalesProofs`). `TypeCorrect`, `LockSafe` (`[]RowLockHeld`), `StaysSettled`
  (`NeverReopened`), `IssuedWhenPaid` (`PaidBeforeIssued`, if no merchant order is
  confirmed), `TicketsKept` (`TicketsKeepPurchase`, in the migrations' schema) and
  `RefundsKill` (`RefundKills`, in the migrations' schema, without processed orders).
  `StockInv` is `TypeOK`, the bound of `soldQuantity` (`StockWithinCapacity`), and `BuyKnown`: a process at work has a purchase,
  without which the row a webhook writes is not known to exist. The bound is inductive because each write of the row is
  guarded: a reservation by the free stock it has locked, the others by the CHECK
  constraint, a release by `Math.max(0, ...)`. `RowLockHeld` is inductive beside
  `StockInv`; `LockKept`, `LockOutside` and `LockReleased` say what a step does to the
  locks of a process that keeps, never has, or gives up its own. `SaleInv` says who
  can know a purchase: nobody but its buyer until MercadoPago has its payment link,
  which is the checkout's last step, so that its late save (`Unsettled`) cannot
  meet a webhook, a completion or the cleanup; a webhook or a confirmation has found the
  purchase paid (`Notified`, `Confirmed`). `LinksKept` follows the tickets that a
  webhook may write from its UPDATE to its COMMIT. `RefundsKill` rests on `RefundInv`: a
  webhook that is to settle the purchase has reached all its tickets when it comes to its COMMIT
  (`AllReached`), because whoever issues more must write the row that it has locked, or
  write nothing to it, and the latter has loaded fewer tickets than there are and
  fails (`LateFails`). A purchase that is completed after the refund is COMPLETED, not
  REFUNDED, and not spoken of.
  `ReservationsKept` (`[]ReservationsExact`) and `NeverOversold` (`[]NoOverselling`) are about
  the sum of the purchases' quantities, `QtyOf`: `QtyOfWithout` says that a purchase adds
  its own quantity to that of the others, `QtyOfNat` that the sum is a number. Both need
  finitely many purchases, and both are false of all that the code does (see 3), so
  that they say with whom they hold. `CheckoutsOnly`: checkouts, direct purchases and one
  run of the cleanup; `ExactInv` adds to the equation that a purchase is inserted when
  its request goes on (`Inserted`) and that what the cleanup has still to release is
  PENDING (`ListedPending`), which a second run would break. `PaymentsOnly`: checkouts and
  any number of confirmations, repeated or at the same time, without the cleanup, the
  ticket webhook and edits; there all that was ever inserted is sold (`SoldInv`).
  `NoStockLost` (`[]NothingLeaked`) needs far less: whatever is confirmed late, and
  however many runs of the cleanup release the same purchase, stock is never counted as
  sold that no purchase has. It excludes the two handlers that write a `soldQuantity`
  read before (`NoStaleWrites`), refunds and failures of the ticket webhook and
  edits, which lose stock in that way. Each step moves both sides of the inequality: a
  reservation alike, a confirmation only the right one, a release the left one by as
  much or by what is left (`LeakReserved`, `LeakMore`, `LeakReleased`).
  `IssuedOnceApart` is about `IssuedOnce`, which the code breaks when two confirmations
  of a purchase overlap: from the assumption that no two completions are both between
  their read and their write of one purchase (`[]Apart`), with nothing released or
  refunded, it follows. `IssueInv`: tickets are a completed purchase's, who is about to
  issue has found none, and a completed purchase stays one (`CompletedKept`).
* **Idempotency** (`IdempotencyProofs`). `TypeCorrect`; `ExclusiveHolds` if
  `cleanupExpired` is not called; `AtMostOnce` and `Implements` if moreover no failure
  comes after an effect (`Gentle`), which is where the code repeats work. The
  invariant `EffectKept` says how an effect is remembered: by the row, while the
  only delivery past its INSERT is about to store the response. Each concrete step
  is then a step of `OnceOnly` or a stutter under the refinement mapping (`StoreStep`).
  `EveryEffectAccounted`, with the cleanup and every fault but crashes, counts the
  deliveries whose effect no fault has followed (`Accounted`); it needs finitely many.
* **TicketValidation** (`TicketValidationProofs`). `TypeCorrect`, `UsedOnEntry`,
  `StaysDead` (`NeverRevived`) and `LaterScansRefused` (`NoSecondEntry`), with any number of
  regenerations and of webhooks that process, and with none. They rest on what an entity on its way to the row can
  write: a scan's only USED, and one that has no status to write has found a dead
  ticket.
* **OrderPayments** (`OrderPaymentsProofs`). `PaidFirst` (`[]FulfilledOnlyPaid`): as long
  as MercadoPago has no payment, no row, entity or notification says "approved" or
  shows a stage of the fulfilment (`PaidInv`), and a payment stays one (`PaidStays`).
  `StagesFollow`: every status that an entity may still write has had its
  predecessor in the row (`StageInv`).
  All three hold for any `Bodies`, with the exceptions that `named` makes: as long as no
  body has named a column, an entity's value of it comes from the row. `ChargebackEnds`: a webhook comes to the mark
  only past its cancellation (`ChargeInv`).
  `TransitionsValid`: if no two handlers are both between their load and their write of
  the order (`[]OneAtATime`), the status takes a valid transition unless a notification
  sets it, or an edit whose body has named it (`OnlyTransitions`). `AskedInv` says that the entity about to be written
  differs from the row in the status only by what the seller asked for. So the
  reversals of `NoReversal` above come from notifications, from overlapping requests or
  from such a body, and from nothing else.
* **Catalogs** (`CatalogsProofs`). `TypeCorrect`, `ItemsStay` (`NoItemLost`), `OwnChanges`
  (`OnlyOwnChanges`) and `CapacityHolds` (`CapacityKept`). `StagesInv` says of which
  operation a request at each await can be and what its entity has; `KeptInv`, what
  the entity and the SELECT of a request that nobody has overtaken agree with, namely
  the row. An item disappears in `SaveWrite` only as an orphan, and an orphan that is
  still there makes the transaction fail.
  `ImplementsCounting` proves the refinement of CatalogLimits, `ImplementsLimits`: `SeenInv`
  adds to `StagesInv` that a catalog that is gone has no commerce and a request that has
  not begun no operation; the save and the deletion have a lemma each.
* **CatalogLimits** (in `CatalogsProofs`, for any instance `Any` of it). `CountBounded`
  (`[]Bounded`), for any finite sets of requests, commerces and plans (`Given`) and any
  set of catalogs. That a place has few catalogs is not inductive, since links and
  stale saves move them. `BoundInv` therefore says that there is a function `b` from the
  catalogs to the place that each was *made for*: those made for a place, in the table or
  held by a request, are at most `Most`, the largest plan's allowance and all requests but
  one, and a catalog made for a commerce is there, now and in whatever a request is
  about to save (`Stays`), because only one without a commerce can be linked. So a
  creation for a commerce counts all that were made for it but those which other requests
  hold, and one without a commerce counts every catalog; nothing else makes any.
  `FibersBound` sums over the places.
* **Commerces** (`CommercesProofs`). `TypeCorrect`; `LimitHolds` (`CommerceLimit`) from
  `LimitInv`, which counts the commerces opened together with the requests about to insert
  one; `OncePerRole` (`GrantedOnce`) from `OnceInv`, what a grant that nobody has
  overtaken has looked up; `StaysOwner` (`KeepsAccess`) from `AccessInv`: in each context the
  merchant has more active rows of an owner than there are openings about to take one
  back.
* **Accounts** (`AccountsProofs`). `TypeCorrect`, `OnlyOwn` (`OwnChanges`), `OneAccountHolds`,
  `RoleHolds`, `CodeUsedOnce`. `Inv` says what each request has at each await (`Request`),
  and what one that nobody has overtaken can rely on (`Snapshot`): no account where it is
  about to insert one, the account's password in the entity it is about to save, the
  code it has found. `CodeInv` follows a new password: wherever it is found, its
  request has set it, with a code that is gone when the request is done.
* **Subscriptions** (`SubscriptionsProofs`). `TypeCorrect`, `OwnChanges` (`OnlyOwnChanges`),
  `NothingUnrecorded` (`ChargeRecorded`), `SameStatus` (`StatusFollows`). `Inv` has the same two
  parts as that of Accounts. `ChargeRecorded` is inductive beside it. `StatusInv` is
  needed for the status: it is the preapproval's, or a notification is due, being
  handled or has failed, or the request that changes it has not saved yet. `OwnChanges`
  holds for any `Periods`; the two extensions that shorten an access are in its statement.

Only model-checked: the liveness properties (`HandlersFinish`, `Delivered`), which are
out of the prover's reach. Quantities and catalogs are counted by sums and
cardinalities, and an induction over a set cannot be instantiated; the proofs use
a smallest counterexample (`WFMin`, on the sets ordered by their cardinality) for the
sums, and the theorems on cardinalities for the rest.

## 5. What is not modelled

* Row locks of `tickets` and of foreign keys, isolation levels above READ COMMITTED,
  the connection pool's size. Locks that a transaction takes last and keeps for one
  statement are part of the atomic step that commits.
* Requests that validation or authorization refuses, quantities that the
  DTOs exclude, wording, notifications and logs.
* `validateOffline` (no state), `activateTicket` and `isProcessed` (no caller).
* The order's checkout (its end is `Init` of `OrderPayments`), its items, and the
  payment intent's row.
* Memberships: custom plans, the administration of plans (two administrators may both
  set a default), discounts, which nothing applies, the audit, statistics,
  `downgradeExpiredMemberships`, which has no caller, and the notification of a payment
  beyond its touch of the row.
* Catalogs: names, slugs, searches, lists, images and categories.
* Accounts: changes of the e-mail address, tokens, guards, lists. Commerces: more than
  one merchant at a time, since each has rows of his own; the activity log; permissions.
* OAuth accounts of MercadoPago (what a rotating token is worth is decided there),
  marketplace fees (a lookup), notifications, the image cache (each call runs to its
  end without an await), business profiles, events, venues, the public API and the
  other components listed as not modelled in `PROJECT.json`.
