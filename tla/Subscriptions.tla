---------------------------- MODULE Subscriptions ----------------------------
(***************************************************************************)
(* The membership of one user and his preapprovals at MercadoPago, which   *)
(* charge him every month for as long as they are authorized.              *)
(*                                                                         *)
(* The user subscribes and cancels; an administrator enables, migrates,    *)
(* pauses and extends; a notification of a change at MercadoPago makes the *)
(* handler fetch the preapproval's status and save it.  Most handlers load *)
(* the membership, call MercadoPago and save the entity as they loaded and *)
(* changed it; some write the columns they name.                           *)
(*                                                                         *)
(* A handler that stops between two awaits takes no further step.          *)
(***************************************************************************)
EXTENDS Integers, FiniteSets

CONSTANTS
    Reqs,       \* requests and notifications, one operation each
    Pres,       \* ids of preapprovals
    None,       \* no mpPreapprovalId
    Never,      \* no expiresAt: an access that does not expire
    Periods,    \* the months by which administrators extend, of any sign
    MaxMonths   \* bound on the months of access left, or past

Status == {"none", "pending", "authorized", "paused", "cancelled"}
Months == -MaxMonths .. MaxMonths
Access == Months \cup {Never}
Membership == [state : {"gone", "here"}, plan : {"free", "paid"}, active : {"no", "yes"},
               months : Access, pre : Pres \cup {None}, status : Status,
               mode : {"none", "manual", "auto"}]
Gone == [state |-> "gone", plan |-> "free", active |-> "no", months |-> Never,
         pre |-> None, status |-> "none", mode |-> "none"]
Created == [Gone EXCEPT !.state = "here", !.active = "yes"]
Paying(p, m) == [Created EXCEPT !.plan = "paid", !.months = 1, !.pre = p,
                                !.status = "authorized", !.mode = m]
Kind == {"none", "view", "subscribe", "free", "cancel", "enable", "migrate", "manual",
         "pause", "resume", "touch", "link", "extend", "reduce",
         "admin", "notify"}
Label == {"idle", "create", "call", "find", "insert", "update", "fetch", "match", "save",
          "refused", "failed", "done"}
Await == Label \ {"idle", "refused", "failed", "done"}

ASSUME MonthsAssumption == MaxMonths \in Nat \ {0}
ASSUME NoneAssumption == None \notin Pres
ASSUME NeverAssumption == Never \notin Int
ASSUME PeriodsAssumption == Periods \subseteq Int

VARIABLES
    member,     \* the membership
    mp,         \* [Pres -> Status]: the preapprovals at MercadoPago
    due,        \* those with a notification on its way
    pc, kind,   \* where a request awaits, and its operation
    ent,        \* the entity it has loaded and changed
    got,        \* the preapproval it has created, is about or is notified of
    overtaken,  \* requests in flight when another one, or MercadoPago, has written
    twice,      \* somebody has subscribed who had a preapproval
    forced      \* a status was written that MercadoPago had not given

vars == <<member, mp, due, pc, kind, ent, got, overtaken, twice, forced>>

\* Before: no membership, a free one, or one that is charged.
Init ==
    /\ mp \in [Pres -> {"none", "authorized"}]
    /\ Cardinality({p \in Pres : mp[p] # "none"}) <= 1
    /\ member \in {Gone, Created} \cup {Paying(p, m) : p \in Pres, m \in {"none", "auto"}}
    /\ \A p \in Pres : mp[p] = "authorized" <=> member.pre = p
    /\ due = {}
    /\ pc = [r \in Reqs |-> "idle"]
    /\ kind = [r \in Reqs |-> "none"]
    /\ ent = [r \in Reqs |-> Gone]
    /\ got = [r \in Reqs |-> None]
    /\ overtaken = {}
    /\ twice = "no"
    /\ forced = "no"

Go(r, label) == pc' = [pc EXCEPT ![r] = label]
Keep(r, e) == ent' = [ent EXCEPT ![r] = e]
Finish(r) == /\ Go(r, "done") /\ kind' = [kind EXCEPT ![r] = "none"]
             /\ Keep(r, Gone) /\ got' = [got EXCEPT ![r] = None]
Others(r) == overtaken \cup {q \in Reqs \ {r} : pc[q] \in Await}
ReadOnly == UNCHANGED <<member, mp, due, overtaken, twice, forced>>

\* Request r begins operation k with entity e.
Begin(r, k, e, label) ==
    /\ pc[r] = "idle"
    /\ kind' = [kind EXCEPT ![r] = k]
    /\ Keep(r, e) /\ Go(r, label)
    /\ got' = [got EXCEPT ![r] = IF label = "call" THEN member.pre ELSE @]
    /\ ReadOnly

Has == member.state = "here"
Charged == member.pre # None

-----------------------------------------------------------------------------
(* The requests of the user.                                               *)

\* Every route that shows the membership creates the one that is missing.
GetMembership(r) == Begin(r, "view", Gone, IF Has THEN "done" ELSE "insert")

\* The preapproval is made first, whatever the membership says.
Subscribe(r) == Begin(r, "subscribe", Gone, "create")
SubscribeFree(r) == Begin(r, "free", Gone, "find")

\* DELETE /membership, and DELETE /membership/subscription.
CancelMembership(r) == Has /\ Begin(r, "cancel", Gone, "update")
CancelSubscription(r) == Has /\ Charged /\ Begin(r, "cancel", Gone, "call")

-----------------------------------------------------------------------------
(* The requests of an administrator.                                       *)

MayEnableMut == Has                          \* without the conflict
MayEnable == Has /\ ~Charged

EnableAutoBilling(r) ==
    /\ MayEnable
    /\ Begin(r, "enable", [member EXCEPT !.plan = "paid", !.active = "yes", !.months = 1,
                                         !.mode = "auto"], "create")
MigrateToAutoBilling(r) ==
    /\ MayEnable
    /\ Begin(r, "migrate", [member EXCEPT !.active = "yes", !.mode = "auto"], "create")

MigrateToManualBilling(r) ==
    /\ Has
    /\ Begin(r, "manual", [member EXCEPT !.pre = None, !.status = "none", !.mode = "manual"],
             IF Charged THEN "call" ELSE "save")

PauseSubscription(r) ==
    /\ Has /\ Charged
    /\ Begin(r, "pause", [member EXCEPT !.status = "paused"], "call")
ResumeSubscription(r) ==
    /\ Has /\ Charged
    /\ Begin(r, "resume", [member EXCEPT !.status = "authorized"], "call")

\* The amount, or the date of the payment of a month: nothing of what is here.
Touch(r) == Has /\ Charged /\ Begin(r, "touch", member, "save")

GeneratePaymentLink(r) == Has /\ Begin(r, "link", [member EXCEPT !.mode = "manual"], "save")

\* From what is left or past, or from now on for one that would never expire; the
\* period is the request's, whose body nothing validates.
From == IF member.months = Never THEN 0 ELSE member.months
Extended(k) == [member EXCEPT !.months = From + k, !.active = "yes"]
ExtendMembership(r) ==
    /\ Has
    /\ \E k \in Periods :
         /\ From + k \in Months
         /\ Begin(r, IF k > 0 THEN "extend" ELSE "reduce", Extended(k), "save")

\* Plan, isActive, subscriptionStatus and expiresAt, by hand, and expiresAt as read
\* before with the plan; a plan may be assigned to one who has no membership.
UpdateByHand(r) == Begin(r, "admin", Gone, IF Has THEN "update" ELSE "insert")

-----------------------------------------------------------------------------
(* What the requests go on with.                                           *)

\* POST /preapprovals: the card is charged at once, or the payer is asked first.
\* The request fails, or the answer is lost.
CreatePreapproval(r) ==
    /\ pc[r] = "create"
    /\ \/ \E p \in {q \in Pres : mp[q] = "none"}, s \in {"authorized", "pending"} :
            /\ mp' = [mp EXCEPT ![p] = s]
            /\ got' = [got EXCEPT ![r] = p]
            /\ \/ Go(r, "failed") /\ UNCHANGED ent
               \/ /\ kind[r] = "subscribe" /\ Go(r, "find") /\ Keep(r, [Gone EXCEPT !.status = s])
               \/ /\ kind[r] # "subscribe" /\ Go(r, "save")
                  /\ Keep(r, [ent[r] EXCEPT !.pre = p, !.status = s])
       \/ Go(r, "failed") /\ UNCHANGED <<mp, got, ent>>
    /\ UNCHANGED <<member, due, kind, overtaken, twice, forced>>

\* PUT /preapprovals/:id; the cancellation by the user goes on when it fails.
Wanted(r) ==
    IF kind[r] = "pause" THEN "paused" ELSE IF kind[r] = "resume" THEN "authorized" ELSE "cancelled"
CallMercadoPago(r) ==
    /\ pc[r] = "call"
    /\ \/ /\ mp[got[r]] # "cancelled"
          /\ mp' = [mp EXCEPT ![got[r]] = Wanted(r)]
          /\ due' = due \cup {got[r]}
          /\ overtaken' = IF mp' = mp THEN overtaken ELSE Others(r)
          /\ Go(r, IF kind[r] = "cancel" THEN "update" ELSE "save")
       \/ /\ Go(r, IF kind[r] = "cancel" THEN "update" ELSE "failed")
          /\ UNCHANGED <<mp, due, overtaken>>
    /\ UNCHANGED <<member, kind, ent, got, twice, forced>>

\* subscribeToPlan looks for the membership, and creates the one that is missing.
FindMembershipMut(r) ==                      \* without createMembership
    /\ pc[r] = "find"
    /\ Go(r, "update")
    /\ UNCHANGED <<kind, ent, got>> /\ ReadOnly
FindMembership(r) ==
    /\ pc[r] = "find"
    /\ Go(r, IF Has THEN "update" ELSE "insert")
    /\ UNCHANGED <<kind, ent, got>> /\ ReadOnly

\* userId is unique.
CreateMembership(r) ==
    /\ pc[r] = "insert"
    /\ IF Has THEN Go(r, "failed") /\ UNCHANGED <<member, overtaken>>
       ELSE /\ member' = IF kind[r] = "admin" THEN [Created EXCEPT !.plan = "paid"] ELSE Created
            /\ Go(r, IF kind[r] \in {"view", "admin"} THEN "done" ELSE "update")
            /\ overtaken' = Others(r)
    /\ UNCHANGED <<mp, due, kind, ent, got, twice, forced>>

\* subscribeToPlan names mpPreapprovalId, which undefined leaves as it is, and says
\* 'authorized'; a plan for life, or free without a cycle, has no end.
\* cancelMembership has none either, and leaves the preapproval as it is.
Subscribed(r, m) == [member EXCEPT !.plan = IF kind[r] = "free" THEN "free" ELSE "paid",
                                   !.active = "yes", !.months = m, !.status = "authorized",
                                   !.pre = IF kind[r] = "free" THEN @ ELSE got[r]]
Update(r) ==
    /\ pc[r] = "update"
    /\ \/ kind[r] \in {"subscribe", "free"} /\ \E m \in {1, Never} : member' = Subscribed(r, m)
       \/ kind[r] = "cancel" /\ member' = [member EXCEPT !.plan = "free", !.active = "no", !.months = Never]
       \/ /\ kind[r] = "admin"
          /\ \E p \in {"free", "paid"}, a \in {"no", "yes"}, s \in Status, m \in Access :
               member' = [member EXCEPT !.plan = p, !.active = a, !.status = s, !.months = m]
    /\ twice' = IF kind[r] = "subscribe" /\ Charged THEN "yes" ELSE twice
    /\ forced' = IF \/ kind[r] = "subscribe" /\ ent[r].status # "authorized"
                    \/ kind[r] \in {"free", "admin"} /\ member'.status # member.status
                 THEN "yes" ELSE forced
    /\ Finish(r) /\ overtaken' = Others(r)
    /\ UNCHANGED <<mp, due>>

\* save(), or it fails.
Save(r) ==
    /\ pc[r] = "save"
    /\ \/ member' = ent[r] /\ Finish(r)
          /\ overtaken' = IF ent[r] = member THEN overtaken ELSE Others(r)
       \/ Go(r, "failed") /\ Keep(r, Gone) /\ UNCHANGED <<member, kind, got, overtaken>>
    /\ UNCHANGED <<mp, due, twice, forced>>

-----------------------------------------------------------------------------
(* MercadoPago and its notifications.                                      *)

\* The payer authorizes, pauses or cancels, or his card is refused.
MercadoPagoChanges ==
    \E p \in Pres, s \in {"authorized", "paused", "cancelled"} :
      /\ mp[p] \notin {"none", "cancelled", s}
      /\ mp' = [mp EXCEPT ![p] = s]
      /\ due' = due \cup {p}
      /\ overtaken' = overtaken \cup {q \in Reqs : pc[q] \in Await}
      /\ UNCHANGED <<member, pc, kind, ent, got, twice, forced>>

\* Answered with 200 whatever becomes of it: it does not come again.
HandlePreapprovalWebhook(r) ==
    /\ pc[r] = "idle"
    /\ \E p \in due : due' = due \ {p} /\ got' = [got EXCEPT ![r] = p]
    /\ kind' = [kind EXCEPT ![r] = "notify"]
    /\ Go(r, "fetch")
    /\ UNCHANGED <<member, mp, ent, overtaken, twice, forced>>

GetPreapproval(r) ==
    /\ pc[r] = "fetch"
    /\ \/ Go(r, "match") /\ Keep(r, [Gone EXCEPT !.status = mp[got[r]]])
       \/ Go(r, "failed") /\ UNCHANGED ent
    /\ UNCHANGED <<kind, got>> /\ ReadOnly

\* where: {mpPreapprovalId}; a paused one stays active.
ActiveBy(s) ==
    IF s = "authorized" THEN "yes" ELSE IF s = "cancelled" THEN "no" ELSE member.active
RefreshedMut(s) ==                           \* a paused one is not taken down
    IF s = "paused" THEN member ELSE [member EXCEPT !.status = s, !.active = ActiveBy(s)]
Refreshed(s) == [member EXCEPT !.status = s, !.active = ActiveBy(s)]
MatchMembership(r) ==
    /\ pc[r] = "match"
    /\ IF Has /\ member.pre = got[r] THEN Go(r, "save") /\ Keep(r, Refreshed(ent[r].status))
       ELSE Go(r, "refused") /\ Keep(r, Gone)
    /\ UNCHANGED <<kind, got>> /\ ReadOnly

Next ==
    \/ \E r \in Reqs :
         \/ GetMembership(r) \/ Subscribe(r) \/ SubscribeFree(r)
         \/ CancelMembership(r) \/ CancelSubscription(r)
         \/ EnableAutoBilling(r) \/ MigrateToAutoBilling(r) \/ MigrateToManualBilling(r)
         \/ PauseSubscription(r) \/ ResumeSubscription(r) \/ Touch(r)
         \/ GeneratePaymentLink(r) \/ ExtendMembership(r) \/ UpdateByHand(r)
         \/ CreatePreapproval(r) \/ CallMercadoPago(r) \/ FindMembership(r)
         \/ CreateMembership(r) \/ Update(r) \/ Save(r)
         \/ HandlePreapprovalWebhook(r) \/ GetPreapproval(r) \/ MatchMembership(r)
    \/ MercadoPagoChanges

Spec == Init /\ [][Next]_vars

-----------------------------------------------------------------------------
(* Properties.                                                             *)

\* Every variable stays in its range, the membership is written only when it is
\* there, and the preapproval it records is one that MercadoPago has.
TypeOK ==
    /\ member \in Membership
    /\ ~Has => member = Gone
    /\ Charged => mp[member.pre] # "none"
    /\ mp \in [Pres -> Status] /\ due \subseteq Pres
    /\ pc \in [Reqs -> Label] /\ kind \in [Reqs -> Kind]
    /\ ent \in [Reqs -> Membership]
    /\ got \in [Reqs -> Pres \cup {None}]
    /\ overtaken \subseteq Reqs
    /\ twice \in {"no", "yes"} /\ forced \in {"no", "yes"}

\* The requests that have written, or found nothing to write, too late.
Late == {r \in overtaken : pc[r] \in {"done", "refused"}}

\* As long as nobody wrote too late or subscribed a second time, a preapproval that
\* still charges the user is the one the membership records, whatever is enabled,
\* migrated and cancelled, but for those of requests that failed or are on the way.
ChargeRecorded ==
    Late = {} /\ twice = "no" =>
      \A p \in Pres : mp[p] \in {"pending", "authorized", "paused"} =>
        \/ member.pre = p
        \/ \E r \in Reqs : /\ got[r] = p /\ kind[r] \in {"subscribe", "enable", "migrate"}
                           /\ pc[r] # "done"

\* Then, and with every notification handled and no status written by hand, the
\* membership has the status that the preapproval has at MercadoPago.
StatusFollows ==
    /\ Late = {} /\ due = {} /\ forced = "no" /\ Charged
    /\ \A r \in Reqs : pc[r] \notin Await /\ (kind[r] = "notify" => pc[r] # "failed")
    => member.status = mp[member.pre]

Shorter(a, b) == a # Never /\ (b = Never \/ a < b)

\* A request that nobody has overtaken, on the membership, changes nothing but what
\* it is for: no other one shortens the access, changes the plan or the way it is
\* billed, and none but the user's replaces a preapproval by another one.  An
\* extension does shorten an access that would never expire, and any one if its
\* months are negative.
OnlyOwnChanges ==
    [][\A r \in Reqs \ overtaken :
         pc[r] \in {"save", "update"} /\ pc'[r] = "done" =>
           /\ Shorter(member'.months, member.months) =>
                \/ kind[r] \in {"subscribe", "free", "enable", "admin", "reduce"}
                \/ kind[r] = "extend" /\ member.months = Never
           /\ member'.plan # member.plan => kind[r] \in {"subscribe", "free", "cancel", "enable", "admin"}
           /\ member'.mode # member.mode => kind[r] \in {"enable", "migrate", "manual", "link"}
           /\ member'.pre # member.pre =>
                \/ kind[r] = "subscribe" /\ member'.pre = got[r]
                \/ kind[r] \in {"enable", "migrate"} /\ ~Charged /\ member'.pre = got[r]
                \/ kind[r] = "manual" /\ member'.pre = None /\ mp[member.pre] = "cancelled"]_vars
=============================================================================
