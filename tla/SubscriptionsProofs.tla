------------------------- MODULE SubscriptionsProofs -------------------------
(***************************************************************************)
(* Proofs about Subscriptions, for any number of requests, notifications   *)
(* and preapprovals: its types, what one request changes, that nothing     *)
(* charges the user unrecorded and that the status follows MercadoPago's.  *)
(* All rest on Inv: what holds of every request, and what the entity of a  *)
(* request that nobody has overtaken still agrees with.                    *)
(***************************************************************************)
EXTENDS Subscriptions, TLAPS

-----------------------------------------------------------------------------
(* What holds of every request.                                            *)

\* MercadoPago forgets no preapproval, and the membership does not go away.
Request(r) ==
    /\ got[r] # None => mp[got[r]] # "none"
    /\ pc[r] \in {"idle", "create"} => got[r] = None
    /\ pc[r] \in {"call", "fetch", "match"} => got[r] # None
    /\ pc[r] = "create" => /\ kind[r] \in {"subscribe", "enable", "migrate"}
                           /\ kind[r] # "subscribe" => Has /\ ent[r].state = "here"
    /\ pc[r] = "call" => /\ kind[r] \in {"cancel", "manual", "pause", "resume"} /\ Has
                         /\ kind[r] # "cancel" => /\ ent[r].state = "here"
                                                  /\ ent[r].pre \in {None, got[r]}
    /\ pc[r] = "find" => kind[r] \in {"subscribe", "free"}
    /\ pc[r] = "insert" => kind[r] \in {"view", "subscribe", "free", "admin"}
    /\ pc[r] = "update" => kind[r] \in {"subscribe", "free", "cancel", "admin"} /\ Has
    /\ pc[r] \in {"find", "insert", "update"} /\ kind[r] = "subscribe" => got[r] # None
    /\ pc[r] \in {"fetch", "match"} => kind[r] = "notify"
    /\ pc[r] = "save" =>
         /\ kind[r] \in {"enable", "migrate", "manual", "pause", "resume", "touch", "link",
                         "extend", "reduce", "notify"}
         /\ Has /\ ent[r].state = "here" /\ (ent[r].pre # None => mp[ent[r].pre] # "none")

RequestInv == TypeOK /\ (\A p \in due : mp[p] # "none") /\ \A r \in Reqs : Request(r)

-----------------------------------------------------------------------------
(* What a request that nobody has overtaken can rely on.                   *)

\* Operation k, writing m, shortens no access that lasts n but where it may.
Lasts(k, m, n) == Shorter(m, n) => k \in {"enable", "reduce"} \/ (k = "extend" /\ n = Never)

\* The entity agrees with the membership but for what the request changes.
Current(r) ==
    /\ Lasts(kind[r], ent[r].months, member.months)
    /\ kind[r] # "enable" => ent[r].plan = member.plan
    /\ kind[r] \notin {"enable", "migrate", "manual", "link"} => ent[r].mode = member.mode
    /\ kind[r] \notin {"enable", "migrate", "manual"} => ent[r].pre = member.pre
    /\ kind[r] \in {"enable", "migrate"} => ~Charged
    /\ kind[r] = "manual" => ent[r].pre = None
    /\ kind[r] \in {"touch", "link", "extend", "reduce"} => ent[r].status = member.status

Snapshot(r) ==
    /\ pc[r] \in {"create", "call", "save"} /\ kind[r] \notin {"subscribe", "cancel"} => Current(r)
    /\ pc[r] = "call" => /\ got[r] = member.pre
                         /\ kind[r] = "pause" => ent[r].status = "paused"
                         /\ kind[r] = "resume" => ent[r].status = "authorized"
    /\ pc[r] = "save" /\ kind[r] = "manual" /\ Charged => mp[member.pre] = "cancelled"
    /\ pc[r] = "save" /\ kind[r] \in {"enable", "migrate", "pause", "resume", "notify"} =>
         got[r] # None /\ ent[r].pre = got[r] /\ ent[r].status = mp[got[r]]
    /\ pc[r] = "match" => ent[r].status = mp[got[r]]
    /\ pc[r] \in {"find", "insert", "update"} /\ kind[r] = "subscribe" => ent[r].status = mp[got[r]]

SnapshotInv == \A r \in Reqs \ overtaken : Snapshot(r)
Inv == RequestInv /\ SnapshotInv

-----------------------------------------------------------------------------
(* Both are inductive.                                                     *)

\* An access of a month and one without end are typed, and none is shorter than
\* itself.
LEMMA AccessTyped ==
  /\ Never \in Access /\ 1 \in Access
  /\ \A k, m : m \in Access => Lasts(k, m, m)
BY MonthsAssumption, NeverAssumption DEF Access, Months, Lasts, Shorter

LEMMA Typed ==
  /\ Gone \in Membership /\ Gone.pre = None /\ Gone.state = "gone"
  /\ Created \in Membership /\ Created.pre = None /\ Created.state = "here"
<1>1. Gone \in Membership /\ Gone.pre = None /\ Gone.state = "gone"
  BY AccessTyped DEF Gone, Membership, Status
<1>2. Created \in Membership
  BY <1>1 DEF Created, Membership
<1>3. Created.pre = None /\ Created.state = "here"
  BY DEF Created, Gone
<1> QED
  BY <1>1, <1>2, <1>3

LEMMA PayingTyped ==
  ASSUME NEW p \in Pres, NEW m \in {"none", "auto"}
  PROVE  /\ Paying(p, m) \in Membership /\ Paying(p, m).state = "here"
         /\ Paying(p, m).pre = p /\ Paying(p, m).status = "authorized"
<1> DEFINE c == Paying(p, m)
<1>1. c \in Membership
  BY Typed, AccessTyped DEF Paying, Membership, Status
<1>2. c.state = "here" /\ c.pre = p /\ c.status = "authorized"
  BY Typed DEF Paying, Membership
<1> QED
  BY <1>1, <1>2

LEMMA InitInv == Init => Inv
<1> SUFFICES ASSUME Init PROVE Inv
  OBVIOUS
<1>1. member \in {Gone, Created} \/ \E p \in Pres, m \in {"none", "auto"} : member = Paying(p, m)
  BY DEF Init
<1>2. member \in Membership /\ (~Has => member = Gone) /\ member.pre \in Pres \cup {None}
  BY <1>1, Typed, PayingTyped DEF Has
<1>4. mp \in [Pres -> Status] /\ (Charged => mp[member.pre] # "none")
  BY <1>2 DEF Init, Status, Charged
<1>3. TypeOK
  BY <1>2, <1>4, Typed DEF Init, TypeOK, Label, Kind
<1>5. \A r \in Reqs : Request(r) /\ Snapshot(r)
  BY DEF Init, Request, Snapshot
<1> QED
  BY <1>3, <1>5 DEF Init, Inv, RequestInv, SnapshotInv

Stands == \A p \in Pres : mp[p] # "none" => mp'[p] = mp[p]

\* What the other requests rely on stands, or they are overtaken.
LEMMA OthersKeep ==
  ASSUME Inv, NEW r, NEW q \in Reqs,
         pc'[q] = pc[q], kind'[q] = kind[q], ent'[q] = ent[q], got'[q] = got[q],
         \A p \in Pres : mp[p] # "none" => mp'[p] # "none",
         Has => Has', overtaken \subseteq overtaken',
         \/ UNCHANGED member /\ Stands
         \/ pc[q] \in Await => q \in overtaken'
  PROVE  Request(q)' /\ (q \notin overtaken' => Snapshot(q)')
<1>1. /\ Request(q) /\ (q \notin overtaken => Snapshot(q))
      /\ got[q] \in Pres \cup {None} /\ ent[q] \in Membership /\ ent[q].pre \in Pres \cup {None}
      /\ (Charged => member.pre \in Pres /\ mp[member.pre] # "none")
  BY DEF Inv, RequestInv, SnapshotInv, TypeOK, Membership, Charged
<1>2. Request(q)'
  BY <1>1 DEF Request
<1>3. CASE pc[q] \in Await => q \in overtaken'
  BY <1>2, <1>3 DEF Snapshot, Await, Label
<1>4. CASE UNCHANGED member /\ Stands
  <2>1. Charged' = Charged
    BY <1>4 DEF Charged
  <2>2. q \notin overtaken => (Current(q) => Current(q)')
    BY <1>4, <2>1 DEF Current
  <2> QED
    BY <1>1, <1>2, <1>4, <2>1, <2>2 DEF Snapshot, Request, Stands
<1> QED
  BY <1>2, <1>3, <1>4

\* The steps that leave the membership and MercadoPago as they are.
LEMMA Quiet ==
  ASSUME Inv, NEW r \in Reqs, UNCHANGED <<member, mp, overtaken, twice, forced>>, due' \subseteq due,
         pc' \in [Reqs -> Label], kind' \in [Reqs -> Kind], ent' \in [Reqs -> Membership],
         got' \in [Reqs -> Pres \cup {None}],
         \A q \in Reqs \ {r} : /\ pc'[q] = pc[q] /\ kind'[q] = kind[q]
                               /\ ent'[q] = ent[q] /\ got'[q] = got[q],
         Request(r)', r \notin overtaken => Snapshot(r)'
  PROVE  Inv'
<1>1. TypeOK' /\ \A p \in due' : mp'[p] # "none"
  BY DEF Inv, RequestInv, TypeOK, Has, Charged
<1>2. Has' = Has
  BY DEF Has
<1>3. \A q \in Reqs \ {r} : Request(q)' /\ (q \notin overtaken' => Snapshot(q)')
  BY <1>2, OthersKeep DEF Stands
<1> QED
  BY <1>1, <1>3 DEF Inv, RequestInv, SnapshotInv

LEMMA Fields ==
  ASSUME Inv
  PROVE  /\ member \in Membership /\ member.pre \in Pres \cup {None}
         /\ member.months \in Access /\ \A k : Lasts(k, member.months, member.months)
         /\ member.status \in Status
         /\ Charged <=> member.pre # None /\ (Charged => member.pre \in Pres /\ mp[member.pre] # "none")
         /\ mp \in [Pres -> Status] /\ due \subseteq Pres /\ overtaken \subseteq Reqs
BY AccessTyped DEF Inv, RequestInv, TypeOK, Membership, Charged

LEMMA Begun ==
  ASSUME Inv, NEW r \in Reqs, NEW k \in Kind, NEW e \in Membership, NEW label \in Label,
         Begin(r, k, e, label),
         LET g == IF label = "call" THEN member.pre ELSE None IN
         pc'[r] = label /\ kind'[r] = k /\ ent'[r] = e /\ got'[r] = g
           => Request(r)' /\ Snapshot(r)'
  PROVE  Inv'
<1>1. got[r] = None /\ TypeOK
  BY DEF Inv, RequestInv, Request, Begin
<1>2. /\ pc'[r] = label /\ kind'[r] = k /\ ent'[r] = e
      /\ got'[r] = IF label = "call" THEN member.pre ELSE None
      /\ \A q \in Reqs \ {r} : /\ pc'[q] = pc[q] /\ kind'[q] = kind[q]
                               /\ ent'[q] = ent[q] /\ got'[q] = got[q]
  BY <1>1 DEF Begin, Go, Keep, TypeOK
<1>3. /\ pc' \in [Reqs -> Label] /\ kind' \in [Reqs -> Kind] /\ ent' \in [Reqs -> Membership]
      /\ got' \in [Reqs -> Pres \cup {None}]
  BY <1>1, Fields DEF Begin, Go, Keep, TypeOK
<1> QED
  BY <1>2, <1>3, Quiet DEF Begin, ReadOnly

\* A request that begins with a changed copy of the membership.
Fit(k, e) ==
    /\ e.state = "here" /\ e.pre \in {None, member.pre}
    /\ Lasts(k, e.months, member.months)
    /\ k # "enable" => e.plan = member.plan
    /\ k \notin {"enable", "migrate", "manual", "link"} => e.mode = member.mode
    /\ k \notin {"enable", "migrate", "manual"} => e.pre = member.pre
    /\ k \in {"enable", "migrate"} => ~Charged
    /\ k = "manual" => e.pre = None
    /\ k \in {"touch", "link", "extend", "reduce"} => e.status = member.status
    /\ k = "pause" => e.status = "paused"
    /\ k = "resume" => e.status = "authorized"

LEMMA BegunWith ==
  ASSUME Inv, NEW r \in Reqs, NEW k \in Kind, NEW e \in Membership, NEW label \in Label,
         Begin(r, k, e, label), Has, Fit(k, e),
         \/ label = "create" /\ k \in {"enable", "migrate"}
         \/ label = "call" /\ k \in {"manual", "pause", "resume"} /\ Charged
         \/ label = "save" /\ k \in {"touch", "link", "extend", "reduce"}
         \/ label = "save" /\ k = "manual" /\ ~Charged
  PROVE  Inv'
<1>1. UNCHANGED <<member, mp>>
  BY DEF Begin, ReadOnly
<1>2. Has' /\ (Charged' <=> Charged) /\ (member.pre # None => mp[member.pre] # "none")
  BY <1>1, Fields DEF Has, Charged
<1>3. ASSUME pc'[r] = label, kind'[r] = k, ent'[r] = e,
             got'[r] = IF label = "call" THEN member.pre ELSE None
      PROVE  Request(r)' /\ Snapshot(r)'
  <2>1. Request(r)'
    BY <1>1, <1>2, <1>3 DEF Request, Fit, Charged
  <2>2. Current(r)'
    BY <1>1, <1>2, <1>3 DEF Current, Fit
  <2>3. Snapshot(r)'
    BY <1>1, <1>2, <1>3, <2>2 DEF Snapshot, Fit
  <2> QED
    BY <2>1, <2>3
<1> QED
  BY <1>3, Begun

\* A request that begins without one.
LEMMA BegunPlain ==
  ASSUME Inv, NEW r \in Reqs, NEW k \in Kind, NEW label \in Label, Begin(r, k, Gone, label),
         \/ label = "done"
         \/ label = "insert" /\ k \in {"view", "admin"}
         \/ label = "create" /\ k = "subscribe"
         \/ label = "find" /\ k = "free"
         \/ label = "update" /\ k \in {"cancel", "admin"} /\ Has
         \/ label = "call" /\ k = "cancel" /\ Has /\ Charged
  PROVE  Inv'
<1>1. UNCHANGED <<member, mp>>
  BY DEF Begin, ReadOnly
<1>2. (Has => Has') /\ (member.pre # None => mp[member.pre] # "none")
  BY <1>1, Fields DEF Has, Charged
<1>3. ASSUME pc'[r] = label, kind'[r] = k, ent'[r] = Gone,
             got'[r] = IF label = "call" THEN member.pre ELSE None
      PROVE  Request(r)' /\ Snapshot(r)'
  BY <1>1, <1>2, <1>3 DEF Request, Snapshot, Charged
<1> QED
  BY <1>3, Begun, Typed

LEMMA BeginStep ==
  ASSUME Inv, NEW r \in Reqs,
         \/ GetMembership(r) \/ Subscribe(r) \/ SubscribeFree(r)
         \/ CancelMembership(r) \/ CancelSubscription(r)
         \/ EnableAutoBilling(r) \/ MigrateToAutoBilling(r) \/ MigrateToManualBilling(r)
         \/ PauseSubscription(r) \/ ResumeSubscription(r) \/ Touch(r)
         \/ GeneratePaymentLink(r) \/ ExtendMembership(r) \/ UpdateByHand(r)
  PROVE  Inv'
<1> USE DEF Kind, Label
<1>1. CASE GetMembership(r)
  BY <1>1, BegunPlain DEF GetMembership
<1>2. CASE Subscribe(r)
  BY <1>2, BegunPlain DEF Subscribe
<1>3. CASE SubscribeFree(r)
  BY <1>3, BegunPlain DEF SubscribeFree
<1>4. CASE CancelMembership(r)
  BY <1>4, BegunPlain DEF CancelMembership
<1>5. CASE CancelSubscription(r)
  BY <1>5, BegunPlain DEF CancelSubscription
<1>6. CASE UpdateByHand(r)
  BY <1>6, BegunPlain DEF UpdateByHand
<1>7. CASE EnableAutoBilling(r)
  <2> DEFINE e == [member EXCEPT !.plan = "paid", !.active = "yes", !.months = 1, !.mode = "auto"]
  <2>1. e \in Membership
    BY Fields, AccessTyped DEF Membership
  <2>2. e.state = member.state /\ e.pre = member.pre
    BY Fields DEF Membership
  <2>3. Begin(r, "enable", e, "create") /\ Has /\ ~Charged
    BY <1>7 DEF EnableAutoBilling, MayEnable
  <2>4. Fit("enable", e)
    BY <2>2, <2>3 DEF Fit, Has, Lasts
  <2> HIDE DEF e
  <2> QED
    BY <2>1, <2>3, <2>4, BegunWith
<1>8. CASE MigrateToAutoBilling(r)
  <2> DEFINE e == [member EXCEPT !.active = "yes", !.mode = "auto"]
  <2>1. e \in Membership
    BY Fields DEF Membership
  <2>2. e.state = member.state /\ e.pre = member.pre /\ e.months = member.months /\ e.plan = member.plan
    BY Fields DEF Membership
  <2>3. Begin(r, "migrate", e, "create") /\ Has /\ ~Charged
    BY <1>8 DEF MigrateToAutoBilling, MayEnable
  <2>4. Fit("migrate", e)
    BY <2>2, <2>3, Fields DEF Fit, Has
  <2> HIDE DEF e
  <2> QED
    BY <2>1, <2>3, <2>4, BegunWith
<1>9. CASE MigrateToManualBilling(r)
  <2> DEFINE e == [member EXCEPT !.pre = None, !.status = "none", !.mode = "manual"]
  <2>1. e \in Membership
    BY Fields DEF Membership, Status
  <2>2. e.state = member.state /\ e.pre = None /\ e.months = member.months /\ e.plan = member.plan
    BY Fields DEF Membership
  <2>3. Begin(r, "manual", e, IF Charged THEN "call" ELSE "save") /\ Has
    BY <1>9 DEF MigrateToManualBilling
  <2>4. Fit("manual", e)
    BY <2>2, <2>3, Fields DEF Fit, Has
  <2> HIDE DEF e
  <2> QED
    BY <2>1, <2>3, <2>4, BegunWith
<1>10. ASSUME NEW k \in Kind, NEW s \in Status,
              \/ k = "pause" /\ s = "paused"
              \/ k = "resume" /\ s = "authorized",
              Has, Charged, Begin(r, k, [member EXCEPT !.status = s], "call")
       PROVE  Inv'
  <2> DEFINE e == [member EXCEPT !.status = s]
  <2>1. e \in Membership
    BY Fields DEF Membership
  <2>2. /\ e.state = member.state /\ e.pre = member.pre /\ e.months = member.months
        /\ e.plan = member.plan /\ e.mode = member.mode /\ e.status = s
    BY Fields DEF Membership
  <2>3. Fit(k, e)
    BY <1>10, <2>2, Fields DEF Fit, Has
  <2>4. Begin(r, k, e, "call")
    BY <1>10
  <2> HIDE DEF e
  <2> QED
    BY <1>10, <2>1, <2>3, <2>4, BegunWith
<1>11. CASE PauseSubscription(r)
  BY <1>11, <1>10 DEF PauseSubscription, Status
<1>12. CASE ResumeSubscription(r)
  BY <1>12, <1>10 DEF ResumeSubscription, Status
<1>13. CASE Touch(r)
  <2>1. Fit("touch", member)
    BY <1>13, Fields DEF Touch, Fit, Has
  <2> QED
    BY <1>13, <2>1, Fields, BegunWith DEF Touch
<1>14. CASE GeneratePaymentLink(r)
  <2> DEFINE e == [member EXCEPT !.mode = "manual"]
  <2>1. e \in Membership
    BY Fields DEF Membership
  <2>2. /\ e.state = member.state /\ e.pre = member.pre /\ e.months = member.months
        /\ e.plan = member.plan /\ e.status = member.status
    BY Fields DEF Membership
  <2>3. Begin(r, "link", e, "save") /\ Has
    BY <1>14 DEF GeneratePaymentLink
  <2>4. Fit("link", e)
    BY <2>2, <2>3, Fields DEF Fit, Has
  <2> HIDE DEF e
  <2> QED
    BY <2>1, <2>3, <2>4, BegunWith
<1>15. CASE ExtendMembership(r)
  <2>1. PICK k \in Periods : /\ From + k \in Months
                             /\ Begin(r, IF k > 0 THEN "extend" ELSE "reduce", Extended(k), "save")
    BY <1>15 DEF ExtendMembership
  <2> DEFINE e == Extended(k)
             o == IF k > 0 THEN "extend" ELSE "reduce"
  <2>2. /\ e \in Membership
        /\ e.state = member.state /\ e.pre = member.pre /\ e.months = From + k
        /\ e.plan = member.plan /\ e.mode = member.mode /\ e.status = member.status
    BY <2>1, Fields DEF Extended, Membership, Access
  <2>3. Lasts(o, From + k, member.months)
    <3>1. CASE k > 0 /\ member.months # Never
      <4>1. From = member.months /\ From \in Int /\ k \in Int
        BY <3>1, Fields, PeriodsAssumption DEF From, Access, Months
      <4>2. ~(From + k < member.months)
        BY <3>1, <4>1
      <4> QED
        BY <3>1, <4>2 DEF Lasts, Shorter
    <3>2. CASE ~(k > 0) \/ member.months = Never
      BY <3>2 DEF Lasts
    <3> QED
      BY <3>1, <3>2
  <2>4. Begin(r, o, e, "save") /\ Has /\ o \in {"extend", "reduce"}
    BY <1>15, <2>1 DEF ExtendMembership
  <2> HIDE DEF e, o
  <2>5. Fit(o, e)
    BY <2>2, <2>3, <2>4 DEF Fit, Has
  <2> QED
    BY <2>2, <2>4, <2>5, BegunWith
<1> QED
  BY <1>1, <1>2, <1>3, <1>4, <1>5, <1>6, <1>7, <1>8, <1>9, <1>11, <1>12, <1>13, <1>14, <1>15

\* The steps that write to the membership or to MercadoPago.
LEMMA Loud ==
  ASSUME Inv, NEW r \in Reqs,
         member' \in Membership, Has => Has', ~Has' => member' = Gone,
         member'.pre # None => mp'[member'.pre] # "none",
         mp' \in [Pres -> Status], \A p \in Pres : mp[p] # "none" => mp'[p] # "none",
         due' \subseteq Pres, \A p \in due' : mp'[p] # "none",
         overtaken \subseteq overtaken', overtaken' \subseteq Reqs,
         twice' \in {"no", "yes"}, forced' \in {"no", "yes"},
         pc' \in [Reqs -> Label], kind' \in [Reqs -> Kind], ent' \in [Reqs -> Membership],
         got' \in [Reqs -> Pres \cup {None}],
         \A q \in Reqs \ {r} : /\ pc'[q] = pc[q] /\ kind'[q] = kind[q]
                               /\ ent'[q] = ent[q] /\ got'[q] = got[q],
         \/ UNCHANGED member /\ Stands
         \/ \A q \in Reqs \ {r} : pc[q] \in Await => q \in overtaken',
         Request(r)', r \notin overtaken' => Snapshot(r)'
  PROVE  Inv'
<1>1. TypeOK'
  BY DEF TypeOK, Charged
<1>2. \A q \in Reqs \ {r} : Request(q)' /\ (q \notin overtaken' => Snapshot(q)')
  BY OthersKeep
<1> QED
  BY <1>1, <1>2 DEF Inv, RequestInv, SnapshotInv

LEMMA Of ==
  ASSUME Inv, NEW r \in Reqs
  PROVE  /\ pc[r] \in Label /\ kind[r] \in Kind /\ ent[r] \in Membership
         /\ got[r] \in Pres \cup {None} /\ ent[r].pre \in Pres \cup {None}
         /\ Request(r) /\ (r \notin overtaken => Snapshot(r))
         /\ pc \in [Reqs -> Label] /\ kind \in [Reqs -> Kind] /\ ent \in [Reqs -> Membership]
         /\ got \in [Reqs -> Pres \cup {None}]
         /\ twice \in {"no", "yes"} /\ forced \in {"no", "yes"} /\ (~Has => member = Gone)
         /\ \A p \in due : mp[p] # "none"
BY DEF Inv, RequestInv, SnapshotInv, TypeOK, Membership

\* A request that goes on to label with entity e, and nothing else changes.
LEMMA GoesOn ==
  ASSUME Inv, NEW r \in Reqs, NEW label \in Label, NEW e \in Membership, Go(r, label), Keep(r, e),
         UNCHANGED <<kind, got>>, ReadOnly,
         pc'[r] = label /\ ent'[r] = e => Request(r)' /\ (r \notin overtaken => Snapshot(r)')
  PROVE  Inv'
<1>1. /\ pc' \in [Reqs -> Label] /\ ent' \in [Reqs -> Membership] /\ pc'[r] = label /\ ent'[r] = e
      /\ \A q \in Reqs \ {r} : pc'[q] = pc[q] /\ ent'[q] = ent[q]
  BY Of DEF Go, Keep
<1> QED
  BY <1>1, Of, Quiet DEF ReadOnly

LEMMA Stays == ASSUME Inv, NEW r \in Reqs, UNCHANGED ent PROVE Keep(r, ent[r])
BY Of DEF Keep

LEMMA FindStep ==
  ASSUME Inv, NEW r \in Reqs, FindMembership(r)
  PROVE  Inv'
<1> DEFINE label == IF Has THEN "update" ELSE "insert"
<1>1. /\ UNCHANGED <<member, mp, kind, ent, got>> /\ ReadOnly /\ pc[r] = "find" /\ Go(r, label)
      /\ label \in {"update", "insert"} /\ (label = "update" => Has)
  BY DEF FindMembership, ReadOnly
<1> HIDE DEF label
<1>2. (Has => Has') /\ (Charged <=> Charged')
  BY <1>1 DEF Has, Charged
<1>3. ASSUME pc'[r] = label PROVE Request(r)' /\ (r \notin overtaken => Snapshot(r)')
  BY <1>1, <1>2, <1>3, Of DEF Request, Snapshot
<1> QED
  BY <1>1, <1>3, Of, Stays, GoesOn DEF Label

LEMMA FetchStep ==
  ASSUME Inv, NEW r \in Reqs, GetPreapproval(r)
  PROVE  Inv'
<1>1. UNCHANGED <<member, mp, kind, got>> /\ ReadOnly /\ pc[r] = "fetch"
  BY DEF GetPreapproval, ReadOnly
<1>2. CASE Go(r, "failed") /\ UNCHANGED ent
  <2>1. ASSUME pc'[r] = "failed" PROVE Request(r)' /\ Snapshot(r)'
    BY <1>1, <2>1, Of DEF Request, Snapshot
  <2> QED
    BY <1>1, <1>2, <2>1, Of, Stays, GoesOn DEF Label
<1>3. CASE Go(r, "match") /\ Keep(r, [Gone EXCEPT !.status = mp[got[r]]])
  <2> DEFINE e == [Gone EXCEPT !.status = mp[got[r]]]
  <2>1. got[r] \in Pres /\ mp[got[r]] \in Status /\ kind[r] = "notify" /\ mp[got[r]] # "none"
    BY <1>1, Of, Fields DEF Request
  <2>2. e \in Membership /\ e.status = mp[got[r]]
    BY <2>1, Typed DEF Membership
  <2>3. Keep(r, e)
    BY <1>3
  <2> HIDE DEF e
  <2>4. ASSUME pc'[r] = "match", ent'[r] = e PROVE Request(r)' /\ Snapshot(r)'
    BY <1>1, <2>1, <2>2, <2>4, NoneAssumption DEF Request, Snapshot
  <2> QED
    BY <1>1, <1>3, <2>2, <2>3, <2>4, GoesOn DEF Label
<1> QED
  BY <1>2, <1>3 DEF GetPreapproval

LEMMA MatchStep ==
  ASSUME Inv, NEW r \in Reqs, MatchMembership(r)
  PROVE  Inv'
<1>1. UNCHANGED <<member, mp, kind, got>> /\ ReadOnly /\ pc[r] = "match"
  BY DEF MatchMembership, ReadOnly
<1>2. CASE Go(r, "refused") /\ Keep(r, Gone)
  <2>1. ASSUME pc'[r] = "refused" PROVE Request(r)' /\ Snapshot(r)'
    BY <1>1, <2>1, Of DEF Request, Snapshot
  <2> QED
    BY <1>1, <1>2, <2>1, Typed, GoesOn DEF Label
<1>3. CASE Has /\ member.pre = got[r] /\ Go(r, "save") /\ Keep(r, Refreshed(ent[r].status))
  <2> DEFINE s == ent[r].status
  <2> DEFINE e == [member EXCEPT !.status = s, !.active = ActiveBy(s)]
  <2>1. s \in Status /\ ActiveBy(s) \in {"no", "yes"} /\ kind[r] = "notify" /\ got[r] \in Pres
    BY <1>1, Of, Fields DEF Membership, ActiveBy, Request
  <2>2. /\ e \in Membership /\ e.status = s /\ e.state = member.state /\ e.pre = member.pre
        /\ e.months = member.months /\ e.plan = member.plan /\ e.mode = member.mode
    BY <2>1, Fields DEF Membership
  <2>3. Keep(r, e)
    BY <1>3 DEF Refreshed
  <2>4. r \notin overtaken => s = mp[got[r]]
    BY <1>1, Of DEF Snapshot
  <2>5. Has' /\ mp[got[r]] # "none"
    BY <1>1, <1>3, <2>1, Of DEF Has, Request
  <2> HIDE DEF e, s
  <2>6. ASSUME pc'[r] = "save", ent'[r] = e PROVE Request(r)' /\ (r \notin overtaken => Snapshot(r)')
    <3>1. Request(r)'
      BY <1>1, <1>3, <2>1, <2>2, <2>5, <2>6 DEF Request, Has
    <3>2. Current(r)'
      BY <1>1, <2>1, <2>2, <2>6, Fields DEF Current
    <3>3. r \notin overtaken => Snapshot(r)'
      BY <1>1, <1>3, <2>1, <2>2, <2>4, <2>6, <3>2, NoneAssumption DEF Snapshot
    <3> QED
      BY <3>1, <3>3
  <2> QED
    BY <1>1, <1>3, <2>2, <2>3, <2>6, GoesOn DEF Label
<1> QED
  BY <1>2, <1>3 DEF MatchMembership

LEMMA NotifyStep ==
  ASSUME Inv, NEW r \in Reqs, HandlePreapprovalWebhook(r)
  PROVE  Inv'
<1>1. PICK p \in due : due' = due \ {p} /\ got' = [got EXCEPT ![r] = p]
  BY DEF HandlePreapprovalWebhook
<1>2. /\ UNCHANGED <<member, mp, ent, overtaken, twice, forced>> /\ pc[r] = "idle"
      /\ kind' = [kind EXCEPT ![r] = "notify"] /\ pc' = [pc EXCEPT ![r] = "fetch"]
  BY DEF HandlePreapprovalWebhook, Go
<1>3. /\ pc'[r] = "fetch" /\ kind'[r] = "notify" /\ got'[r] = p /\ p \in Pres /\ mp[p] # "none"
      /\ kind' \in [Reqs -> Kind] /\ pc' \in [Reqs -> Label] /\ got' \in [Reqs -> Pres \cup {None}]
      /\ \A q \in Reqs \ {r} : pc'[q] = pc[q] /\ kind'[q] = kind[q] /\ got'[q] = got[q]
  BY <1>1, <1>2, Of, Fields DEF Label, Kind
<1>4. Request(r)' /\ Snapshot(r)'
  BY <1>2, <1>3, NoneAssumption DEF Request, Snapshot
<1> QED
  BY <1>1, <1>2, <1>3, <1>4, Of, Quiet

LEMMA CreateStep ==
  ASSUME Inv, NEW r \in Reqs, CreatePreapproval(r)
  PROVE  Inv'
<1>1. UNCHANGED <<member, due, kind, overtaken, twice, forced>> /\ pc[r] = "create"
  BY DEF CreatePreapproval
<1>2. CASE Go(r, "failed") /\ UNCHANGED <<mp, got, ent>>
  <2>1. ASSUME pc'[r] = "failed" PROVE Request(r)' /\ Snapshot(r)'
    BY <1>1, <1>2, <2>1, Of DEF Request, Snapshot
  <2> QED
    BY <1>1, <1>2, <2>1, Of, Stays, GoesOn DEF Label, ReadOnly
<1>3. ASSUME NEW p \in Pres, NEW s \in {"authorized", "pending"}, mp[p] = "none",
             mp' = [mp EXCEPT ![p] = s], got' = [got EXCEPT ![r] = p],
             NEW label \in {"failed", "find", "save"}, NEW e \in Membership,
             Go(r, label), Keep(r, e),
             label = "find" => kind[r] = "subscribe" /\ e.status = s,
             label = "save" => /\ kind[r] # "subscribe" /\ e.pre = p /\ e.status = s
                               /\ e.state = ent[r].state /\ e.months = ent[r].months
                               /\ e.plan = ent[r].plan /\ e.mode = ent[r].mode
      PROVE  Inv'
  <2>1. /\ mp' \in [Pres -> Status] /\ mp'[p] = s /\ \A x \in Pres : mp[x] # "none" => mp'[x] = mp[x]
        /\ \A x \in Pres : mp[x] # "none" => mp'[x] # "none"
        /\ member.pre # None => mp'[member.pre] # "none"
    BY <1>3, Fields DEF Status
  <2>2. /\ pc' \in [Reqs -> Label] /\ ent' \in [Reqs -> Membership] /\ got' \in [Reqs -> Pres \cup {None}]
        /\ pc'[r] = label /\ ent'[r] = e /\ got'[r] = p /\ kind'[r] = kind[r]
        /\ \A q \in Reqs \ {r} : pc'[q] = pc[q] /\ ent'[q] = ent[q] /\ got'[q] = got[q]
    BY <1>1, <1>3, Of DEF Go, Keep, Label
  <2>3. Has' = Has /\ Charged' = Charged /\ s # "none"
    BY <1>1 DEF Has, Charged
  <2>4. Request(r)'
    BY <1>1, <1>3, <2>1, <2>2, <2>3, Of, NoneAssumption DEF Request
  <2>5. r \notin overtaken /\ label = "save" => Current(r)'
    BY <1>1, <1>3, <2>2, <2>3, Of DEF Snapshot, Current, Request
  <2>6. r \notin overtaken => Snapshot(r)'
    BY <1>1, <1>3, <2>1, <2>2, <2>3, <2>5, Of, NoneAssumption DEF Snapshot, Request
  <2> QED
    BY <1>1, <2>1, <2>2, <2>3, <2>4, <2>6, Of, Fields, Loud DEF Stands
<1>4. ASSUME NEW p \in Pres, NEW s \in {"authorized", "pending"}, mp[p] = "none",
             mp' = [mp EXCEPT ![p] = s], got' = [got EXCEPT ![r] = p],
             \/ Go(r, "failed") /\ UNCHANGED ent
             \/ kind[r] = "subscribe" /\ Go(r, "find") /\ Keep(r, [Gone EXCEPT !.status = s])
             \/ kind[r] # "subscribe" /\ Go(r, "save") /\ Keep(r, [ent[r] EXCEPT !.pre = p, !.status = s])
      PROVE  Inv'
  <2>1. CASE Go(r, "failed") /\ UNCHANGED ent
    BY <1>3, <1>4, <2>1, Of, Stays
  <2>2. CASE kind[r] = "subscribe" /\ Go(r, "find") /\ Keep(r, [Gone EXCEPT !.status = s])
    <3> DEFINE e == [Gone EXCEPT !.status = s]
    <3>1. e \in Membership /\ e.status = s
      BY Typed DEF Membership, Status
    <3>2. Keep(r, e)
      BY <2>2
    <3> HIDE DEF e
    <3> QED
      BY <1>3, <1>4, <2>2, <3>1, <3>2
  <2>3. CASE kind[r] # "subscribe" /\ Go(r, "save") /\ Keep(r, [ent[r] EXCEPT !.pre = p, !.status = s])
    <3> DEFINE e == [ent[r] EXCEPT !.pre = p, !.status = s]
    <3>1. e \in Membership
      BY Of DEF Membership, Status
    <3>2. /\ e.pre = p /\ e.status = s /\ e.state = ent[r].state /\ e.months = ent[r].months
          /\ e.plan = ent[r].plan /\ e.mode = ent[r].mode
      BY Of DEF Membership
    <3>3. Keep(r, e)
      BY <2>3
    <3> HIDE DEF e
    <3> QED
      BY <1>3, <1>4, <2>3, <3>1, <3>2, <3>3
  <2> QED
    BY <1>4, <2>1, <2>2, <2>3
<1> QED
  BY <1>2, <1>4 DEF CreatePreapproval

LEMMA CallStep ==
  ASSUME Inv, NEW r \in Reqs, CallMercadoPago(r)
  PROVE  Inv'
<1> DEFINE p == got[r]
<1>1. /\ UNCHANGED <<member, kind, ent, got, twice, forced>> /\ pc[r] = "call"
      /\ p \in Pres /\ mp[p] # "none"
  BY Of DEF CallMercadoPago, Request
<1>2. Has' = Has /\ Charged' = Charged /\ Wanted(r) \in {"paused", "authorized", "cancelled"}
  BY <1>1 DEF Has, Charged, Wanted
<1>3. CASE /\ mp' = [mp EXCEPT ![p] = Wanted(r)] /\ due' = due \cup {p}
           /\ overtaken' = IF mp' = mp THEN overtaken ELSE Others(r)
           /\ Go(r, IF kind[r] = "cancel" THEN "update" ELSE "save")
  <2>1. /\ mp' \in [Pres -> Status] /\ mp'[p] = Wanted(r)
        /\ \A x \in Pres : mp[x] # "none" => mp'[x] # "none"
        /\ \A x \in Pres \ {p} : mp'[x] = mp[x]
    BY <1>1, <1>2, <1>3, Fields DEF Status
  <2>2. /\ pc' \in [Reqs -> Label] /\ pc'[r] = IF kind[r] = "cancel" THEN "update" ELSE "save"
        /\ \A q \in Reqs \ {r} : pc'[q] = pc[q]
    BY <1>3, Of DEF Go, Label
  <2>3. /\ overtaken \subseteq overtaken' /\ overtaken' \subseteq Reqs
        /\ \/ UNCHANGED member /\ Stands
           \/ \A q \in Reqs \ {r} : pc[q] \in Await => q \in overtaken'
    <3>1. CASE mp' = mp
      BY <1>1, <1>3, <3>1, Fields DEF Stands
    <3>2. CASE mp' # mp
      BY <1>3, <3>2, Fields DEF Others
    <3> QED
      BY <3>1, <3>2
  <2>4. Request(r)'
    BY <1>1, <1>2, <2>1, <2>2, Of DEF Request
  <2>5. r \notin overtaken /\ kind[r] # "cancel" => Current(r)'
    <3>1. r \notin overtaken /\ kind[r] # "cancel" => Current(r)
      BY <1>1, Of DEF Snapshot, Request
    <3> QED
      BY <1>1, <1>2, <3>1 DEF Current
  <2>6. r \notin overtaken => Snapshot(r)'
    <3>1. r \notin overtaken /\ kind[r] \in {"pause", "resume"} => ent[r].pre = got[r]
      BY <1>1, Of DEF Snapshot, Current
    <3>2. r \notin overtaken /\ kind[r] = "manual" => mp'[member.pre] = "cancelled"
      BY <1>1, <2>1, Of DEF Snapshot, Wanted
    <3>3. r \notin overtaken /\ kind[r] \in {"pause", "resume"} => ent[r].status = mp'[got[r]]
      BY <1>1, <2>1, Of DEF Snapshot, Wanted
    <3> QED
      BY <1>1, <1>2, <2>2, <2>5, <3>1, <3>2, <3>3, Of, NoneAssumption DEF Snapshot, Request
  <2>7. /\ due' \subseteq Pres /\ \A x \in due' : mp'[x] # "none"
    BY <1>1, <1>3, <2>1, Of, Fields
  <2>8. member.pre # None => mp'[member.pre] # "none"
    BY <2>1, Fields
  <2> HIDE DEF p
  <2> QED
    BY <1>1, <1>2, <2>1, <2>2, <2>3, <2>4, <2>6, <2>7, <2>8, Of, Fields, Loud
<1>4. CASE /\ Go(r, IF kind[r] = "cancel" THEN "update" ELSE "failed")
           /\ UNCHANGED <<mp, due, overtaken>>
  <2> DEFINE label == IF kind[r] = "cancel" THEN "update" ELSE "failed"
  <2>1. ASSUME pc'[r] = label PROVE Request(r)' /\ Snapshot(r)'
    BY <1>1, <1>2, <1>4, <2>1, Of DEF Request, Snapshot
  <2> QED
    BY <1>1, <1>4, <2>1, Of, Stays, GoesOn DEF Label, ReadOnly
<1> QED
  BY <1>1, <1>3, <1>4 DEF CallMercadoPago

LEMMA InsertStep ==
  ASSUME Inv, NEW r \in Reqs, CreateMembership(r)
  PROVE  Inv'
<1>1. UNCHANGED <<mp, due, kind, ent, got, twice, forced>> /\ pc[r] = "insert"
  BY DEF CreateMembership
<1>2. CASE Has /\ Go(r, "failed") /\ UNCHANGED <<member, overtaken>>
  <2>1. ASSUME pc'[r] = "failed" PROVE Request(r)' /\ Snapshot(r)'
    BY <1>1, <1>2, <2>1, Of DEF Request, Snapshot
  <2> QED
    BY <1>1, <1>2, <2>1, Of, Stays, GoesOn DEF Label, ReadOnly
<1>3. CASE /\ ~Has /\ member' \in {Created, [Created EXCEPT !.plan = "paid"]}
           /\ Go(r, IF kind[r] \in {"view", "admin"} THEN "done" ELSE "update")
           /\ overtaken' = Others(r)
  <2>1. member' \in Membership /\ Has' /\ member'.pre = None
    BY <1>3, Typed DEF Has, Membership
  <2>2. /\ pc' \in [Reqs -> Label]
        /\ pc'[r] = IF kind[r] \in {"view", "admin"} THEN "done" ELSE "update"
        /\ \A q \in Reqs \ {r} : pc'[q] = pc[q]
    BY <1>3, Of DEF Go, Label
  <2>3. Request(r)' /\ (r \notin overtaken => Snapshot(r)')
    BY <1>1, <2>1, <2>2, Of DEF Request, Snapshot
  <2>4. /\ overtaken \subseteq overtaken' /\ overtaken' \subseteq Reqs
        /\ \A q \in Reqs \ {r} : pc[q] \in Await => q \in overtaken'
    BY <1>3, Fields DEF Others
  <2> QED
    BY <1>1, <2>1, <2>2, <2>3, <2>4, Of, Fields, Loud
<1> QED
  BY <1>2, <1>3 DEF CreateMembership

LEMMA Finished ==
  ASSUME Inv, NEW r \in Reqs, Finish(r)
  PROVE  /\ pc'[r] = "done" /\ got'[r] = None /\ Request(r)' /\ Snapshot(r)'
         /\ pc' \in [Reqs -> Label] /\ kind' \in [Reqs -> Kind] /\ ent' \in [Reqs -> Membership]
         /\ got' \in [Reqs -> Pres \cup {None}]
         /\ \A q \in Reqs \ {r} : /\ pc'[q] = pc[q] /\ kind'[q] = kind[q]
                                  /\ ent'[q] = ent[q] /\ got'[q] = got[q]
<1>1. /\ pc'[r] = "done" /\ got'[r] = None /\ pc' \in [Reqs -> Label] /\ kind' \in [Reqs -> Kind]
      /\ ent' \in [Reqs -> Membership] /\ got' \in [Reqs -> Pres \cup {None}]
      /\ \A q \in Reqs \ {r} : /\ pc'[q] = pc[q] /\ kind'[q] = kind[q]
                               /\ ent'[q] = ent[q] /\ got'[q] = got[q]
  BY Of, Typed DEF Finish, Go, Keep, Label, Kind
<1>2. Request(r)' /\ Snapshot(r)'
  BY <1>1 DEF Request, Snapshot
<1> QED
  BY <1>1, <1>2

\* The columns that Update names, and those it leaves.
LEMMA Updated ==
  ASSUME Inv, NEW r \in Reqs, Update(r)
  PROVE  /\ Has /\ member' \in Membership /\ member'.state = "here" /\ member'.mode = member.mode
         /\ \/ kind[r] = "subscribe" /\ member'.pre = got[r] /\ member'.status = "authorized"
            \/ kind[r] \in {"free", "admin"} /\ member'.pre = member.pre
            \/ /\ kind[r] = "cancel" /\ member'.pre = member.pre
               /\ member'.status = member.status /\ member'.months = Never
<1>1. kind[r] \in {"subscribe", "free", "cancel", "admin"} /\ Has
  BY Of DEF Update, Request
<1>2. ASSUME NEW m \in Access, kind[r] \in {"subscribe", "free"}, member' = Subscribed(r, m)
      PROVE  /\ member' \in Membership /\ member'.state = "here" /\ member'.mode = member.mode
             /\ \/ kind[r] = "subscribe" /\ member'.pre = got[r] /\ member'.status = "authorized"
                \/ kind[r] = "free" /\ member'.pre = member.pre
  <2>1. CASE kind[r] = "subscribe"
    <3>1. member' = [member EXCEPT !.plan = "paid", !.active = "yes", !.months = m,
                                   !.status = "authorized", !.pre = got[r]]
      BY <1>2, <2>1 DEF Subscribed
    <3>2. member' \in Membership
      BY <1>2, <3>1, AccessTyped, Fields, Of DEF Membership, Status
    <3>3. /\ member'.state = member.state /\ member'.mode = member.mode
          /\ member'.pre = got[r] /\ member'.status = "authorized"
      BY <3>1, Fields DEF Membership
    <3> QED
      BY <1>1, <2>1, <3>2, <3>3 DEF Has
  <2>2. CASE kind[r] = "free"
    <3>1. member' = [member EXCEPT !.plan = "free", !.active = "yes", !.months = m,
                                   !.status = "authorized", !.pre = member.pre]
      BY <1>2, <2>2 DEF Subscribed
    <3>2. member' \in Membership
      BY <1>2, <3>1, AccessTyped, Fields DEF Membership, Status
    <3>3. /\ member'.state = member.state /\ member'.mode = member.mode
          /\ member'.pre = member.pre
      BY <3>1, Fields DEF Membership
    <3> QED
      BY <1>1, <2>2, <3>2, <3>3 DEF Has
  <2> QED
    BY <1>2, <2>1, <2>2
<1>3. CASE kind[r] = "cancel" /\ member' = [member EXCEPT !.plan = "free", !.active = "no", !.months = Never]
  <2>1. member' \in Membership
    BY <1>3, AccessTyped, Fields DEF Membership
  <2>2. /\ member'.state = member.state /\ member'.mode = member.mode
        /\ member'.pre = member.pre /\ member'.status = member.status /\ member'.months = Never
    BY <1>3, Fields DEF Membership
  <2> QED
    BY <1>1, <1>3, <2>1, <2>2 DEF Has
<1>4. ASSUME NEW p \in {"free", "paid"}, NEW a \in {"no", "yes"}, NEW s \in Status,
             NEW m \in Access, kind[r] = "admin",
             member' = [member EXCEPT !.plan = p, !.active = a, !.status = s, !.months = m]
      PROVE  /\ member' \in Membership /\ member'.state = "here" /\ member'.mode = member.mode
             /\ member'.pre = member.pre
  <2>1. member' \in Membership
    BY <1>4, Fields DEF Membership
  <2>2. /\ member'.state = member.state /\ member'.mode = member.mode
        /\ member'.pre = member.pre
    BY <1>4, Fields DEF Membership
  <2> QED
    BY <1>1, <2>1, <2>2 DEF Has
<1>5. \A m \in {1, Never} : m \in Access
  BY AccessTyped
<1>6. CASE kind[r] \in {"subscribe", "free"} /\ \E m \in {1, Never} : member' = Subscribed(r, m)
  <2>1. PICK m \in Access : member' = Subscribed(r, m)
    BY <1>5, <1>6
  <2> QED
    BY <1>1, <1>2, <1>6, <2>1
<1>7. CASE kind[r] = "admin" /\ member'.pre = member.pre /\ member' \in Membership
           /\ member'.state = "here" /\ member'.mode = member.mode
  BY <1>1, <1>7
<1>8. CASE /\ kind[r] = "admin"
           /\ \E p \in {"free", "paid"}, a \in {"no", "yes"}, s \in Status, m \in Access :
                member' = [member EXCEPT !.plan = p, !.active = a, !.status = s, !.months = m]
  BY <1>4, <1>7, <1>8
<1> QED
  BY <1>3, <1>6, <1>8, Zenon DEF Update

LEMMA UpdateStep ==
  ASSUME Inv, NEW r \in Reqs, Update(r)
  PROVE  Inv'
<1>1. /\ Finish(r) /\ UNCHANGED <<mp, due>> /\ overtaken' = Others(r) /\ pc[r] = "update"
      /\ twice' \in {"no", "yes"} /\ forced' \in {"no", "yes"}
  BY Of DEF Update
<1>2. kind[r] = "subscribe" => got[r] # None /\ mp[got[r]] # "none"
  BY <1>1, Of DEF Request
<1>3. member'.pre # None => mp'[member'.pre] # "none"
  BY <1>1, <1>2, Updated, Fields
<1>4. Has' /\ member' \in Membership
  BY Updated DEF Has
<1>5. /\ overtaken \subseteq overtaken' /\ overtaken' \subseteq Reqs
      /\ \A q \in Reqs \ {r} : pc[q] \in Await => q \in overtaken'
  BY <1>1, Fields DEF Others
<1> QED
  BY <1>1, <1>3, <1>4, <1>5, Of, Fields, Finished, Loud

LEMMA SaveStep ==
  ASSUME Inv, NEW r \in Reqs, Save(r)
  PROVE  Inv'
<1>1. UNCHANGED <<mp, due, twice, forced>> /\ pc[r] = "save"
  BY DEF Save
<1>2. CASE Go(r, "failed") /\ Keep(r, Gone) /\ UNCHANGED <<member, kind, got, overtaken>>
  <2>1. ASSUME pc'[r] = "failed" PROVE Request(r)' /\ Snapshot(r)'
    BY <1>1, <1>2, <2>1, Of DEF Request, Snapshot
  <2> QED
    BY <1>1, <1>2, <2>1, Typed, GoesOn DEF Label, ReadOnly
<1>3. CASE /\ member' = ent[r] /\ Finish(r)
           /\ overtaken' = IF ent[r] = member THEN overtaken ELSE Others(r)
  <2>1. /\ member' \in Membership /\ Has' /\ (member'.pre # None => mp'[member'.pre] # "none")
    BY <1>1, <1>3, Of DEF Request, Has
  <2>2. /\ overtaken \subseteq overtaken' /\ overtaken' \subseteq Reqs
        /\ \/ UNCHANGED member /\ Stands
           \/ \A q \in Reqs \ {r} : pc[q] \in Await => q \in overtaken'
    BY <1>1, <1>3, Fields DEF Others, Stands
  <2> QED
    BY <1>1, <1>3, <2>1, <2>2, Of, Fields, Finished, Loud
<1> QED
  BY <1>2, <1>3 DEF Save

LEMMA ChangeStep ==
  ASSUME Inv, MercadoPagoChanges
  PROVE  Inv'
<1>1. PICK p \in Pres, s \in {"authorized", "paused", "cancelled"} :
        /\ mp[p] \notin {"none", "cancelled", s} /\ mp' = [mp EXCEPT ![p] = s]
        /\ due' = due \cup {p}
  BY DEF MercadoPagoChanges
<1>2. /\ overtaken' = overtaken \cup {q \in Reqs : pc[q] \in Await}
      /\ UNCHANGED <<member, pc, kind, ent, got, twice, forced>>
  BY DEF MercadoPagoChanges
<1>3. /\ mp' \in [Pres -> Status] /\ \A x \in Pres : mp[x] # "none" => mp'[x] # "none"
      /\ due' \subseteq Pres /\ mp'[p] # "none"
  BY <1>1, Fields DEF Status
<1>4. (Has' <=> Has) /\ \A x \in due' : mp'[x] # "none"
  BY <1>1, <1>2, <1>3, Fields DEF Has, Inv, RequestInv
<1>5. TypeOK'
  BY <1>2, <1>3, <1>4 DEF Inv, RequestInv, TypeOK, Charged, Membership
<1>6. \A q \in Reqs : Request(q)' /\ (q \notin overtaken' => Snapshot(q)')
  BY <1>2, <1>3, <1>4, OthersKeep
<1> QED
  BY <1>4, <1>5, <1>6 DEF Inv, RequestInv, SnapshotInv

LEMMA InvStep == Inv /\ [Next]_vars => Inv'
<1> SUFFICES ASSUME Inv, [Next]_vars PROVE Inv'
  OBVIOUS
<1>1. CASE UNCHANGED vars
  BY <1>1 DEF vars, Inv, RequestInv, SnapshotInv, TypeOK, Request, Snapshot, Current, Has, Charged
<1>2. CASE MercadoPagoChanges
  BY <1>2, ChangeStep
<1> QED
  BY <1>1, <1>2, BeginStep, CreateStep, CallStep, FindStep, InsertStep, UpdateStep, SaveStep,
     NotifyStep, FetchStep, MatchStep DEF Next

LEMMA InvHolds == Spec => []Inv
BY InitInv, InvStep, PTL DEF Spec

\* The membership is written only when it is there, and it records no preapproval that
\* MercadoPago does not have.
THEOREM TypeCorrect == Spec => []TypeOK
<1>1. Inv => TypeOK
  BY DEF Inv, RequestInv
<1> QED
  BY <1>1, InvHolds, PTL

-----------------------------------------------------------------------------
(* The changes of one request.                                             *)

\* Whose turn a step is, and from where.
Moves(q, from) == pc[q] \in from /\ \A x \in Reqs \ {q} : pc'[x] = pc[x]

Begins(q) ==
    \/ GetMembership(q) \/ Subscribe(q) \/ SubscribeFree(q)
    \/ CancelMembership(q) \/ CancelSubscription(q)
    \/ EnableAutoBilling(q) \/ MigrateToAutoBilling(q) \/ MigrateToManualBilling(q)
    \/ PauseSubscription(q) \/ ResumeSubscription(q) \/ Touch(q)
    \/ GeneratePaymentLink(q) \/ ExtendMembership(q) \/ UpdateByHand(q)

LEMMA Turns ==
  ASSUME Inv, NEW q \in Reqs
  PROVE  /\ Begins(q) \/ HandlePreapprovalWebhook(q) => Moves(q, {"idle"})
         /\ \/ CreatePreapproval(q) \/ CallMercadoPago(q) \/ FindMembership(q)
            \/ CreateMembership(q) \/ GetPreapproval(q) \/ MatchMembership(q)
            => Moves(q, {"create", "call", "find", "insert", "fetch", "match"})
         /\ Update(q) \/ Save(q) => Moves(q, {"update", "save"})
<1>1. ASSUME NEW k, NEW e, NEW label, Begin(q, k, e, label) PROVE Moves(q, {"idle"})
  BY <1>1, Of DEF Begin, Go, Moves
<1>2. ASSUME NEW label, Go(q, label) PROVE \A x \in Reqs \ {q} : pc'[x] = pc[x]
  BY <1>2, Of DEF Go
<1>3. ASSUME Begins(q) \/ HandlePreapprovalWebhook(q) PROVE Moves(q, {"idle"})
  BY <1>1, <1>2, <1>3 DEF Begins, GetMembership, Subscribe, SubscribeFree, CancelMembership,
     CancelSubscription, EnableAutoBilling, MigrateToAutoBilling, MigrateToManualBilling,
     PauseSubscription, ResumeSubscription, Touch, GeneratePaymentLink, ExtendMembership,
     UpdateByHand, HandlePreapprovalWebhook, Moves
<1>4. ASSUME \/ CreatePreapproval(q) \/ CallMercadoPago(q) \/ FindMembership(q)
             \/ CreateMembership(q) \/ GetPreapproval(q) \/ MatchMembership(q)
      PROVE  Moves(q, {"create", "call", "find", "insert", "fetch", "match"})
  BY <1>2, <1>4 DEF CreatePreapproval, CallMercadoPago, FindMembership, CreateMembership,
     GetPreapproval, MatchMembership, Moves
<1>5. ASSUME Update(q) \/ Save(q) PROVE Moves(q, {"update", "save"})
  BY <1>2, <1>5 DEF Update, Save, Finish, Moves
<1> QED
  BY <1>3, <1>4, <1>5

LEMMA Writes ==
  ASSUME Inv, [Next]_vars, NEW r \in Reqs, pc[r] \in {"save", "update"}, pc'[r] # pc[r]
  PROVE  Update(r) \/ Save(r)
<1>1. ~UNCHANGED vars /\ ~MercadoPagoChanges
  BY DEF vars, MercadoPagoChanges
<1> QED
  BY <1>1, Turns DEF Next, Moves, Begins

\* A request that nobody has overtaken changes nothing but what it is for.
THEOREM OwnChanges == Spec => OnlyOwnChanges
<1> DEFINE Own(r) ==
      /\ Shorter(member'.months, member.months) =>
           \/ kind[r] \in {"subscribe", "free", "enable", "admin", "reduce"}
           \/ kind[r] = "extend" /\ member.months = Never
      /\ member'.plan # member.plan => kind[r] \in {"subscribe", "free", "cancel", "enable", "admin"}
      /\ member'.mode # member.mode => kind[r] \in {"enable", "migrate", "manual", "link"}
      /\ member'.pre # member.pre =>
           \/ kind[r] = "subscribe" /\ member'.pre = got[r]
           \/ kind[r] \in {"enable", "migrate"} /\ ~Charged /\ member'.pre = got[r]
           \/ kind[r] = "manual" /\ member'.pre = None /\ mp[member.pre] = "cancelled"
<1> DEFINE A == \A r \in Reqs \ overtaken : pc[r] \in {"save", "update"} /\ pc'[r] = "done" => Own(r)
<1>1. ASSUME Inv, [Next]_vars PROVE A
  <2> SUFFICES ASSUME NEW r \in Reqs, r \notin overtaken, pc[r] \in {"save", "update"}, pc'[r] = "done"
               PROVE  Own(r)
    OBVIOUS
  <2>1. CASE Update(r)
    <3>1. kind[r] = "cancel" => ~Shorter(member'.months, member.months)
      BY <1>1, <2>1, Updated DEF Shorter
    <3> QED
      BY <1>1, <2>1, <3>1, Updated
  <2>2. CASE Save(r)
    <3>1. pc[r] = "save" /\ member' = ent[r]
      BY <1>1, <2>2, Of DEF Save, Go
    <3>2. kind[r] \notin {"subscribe", "cancel"} /\ Current(r) /\ Snapshot(r)
      BY <1>1, <3>1, Of DEF Request, Snapshot
    <3>3. Lasts(kind[r], member'.months, member.months)
      BY <3>1, <3>2 DEF Current
    <3>4. kind[r] # "enable" => member'.plan = member.plan
      BY <3>1, <3>2 DEF Current
    <3> QED
      BY <1>1, <3>1, <3>2, <3>3, <3>4, Of, Fields DEF Current, Snapshot, Request, Lasts
  <2> QED
    BY <1>1, <2>1, <2>2, Writes
<1> HIDE DEF A
<1>2. Inv /\ [Next]_vars => [A]_vars
  BY <1>1
<1>3. Spec => [][A]_vars
  BY <1>2, InvHolds, PTL DEF Spec
<1> QED
  BY <1>3 DEF A, OnlyOwnChanges

-----------------------------------------------------------------------------
(* What is charged, and the status.  A request that writes has not been    *)
(* overtaken, as long as nobody has written too late.                      *)

LEMMA LateStays ==
  ASSUME Inv, [Next]_vars
  PROVE  /\ overtaken \subseteq overtaken' /\ Late \subseteq Late'
         /\ twice' = "no" => twice = "no"
         /\ forced' = "no" => forced = "no"
<1>1. \A r \in Reqs : pc[r] \in {"done", "refused"} => pc'[r] = pc[r]
  <2>1. CASE UNCHANGED vars \/ MercadoPagoChanges
    BY <2>1 DEF vars, MercadoPagoChanges
  <2> QED
    BY <2>1, Turns DEF Next, Moves, Begins
<1>2. /\ overtaken \subseteq overtaken' /\ (twice' = "no" => twice = "no")
      /\ (forced' = "no" => forced = "no")
  <2>1. CASE UNCHANGED vars \/ MercadoPagoChanges
    BY <2>1 DEF vars, MercadoPagoChanges
  <2>2. ASSUME NEW r \in Reqs, Begins(r) PROVE UNCHANGED <<overtaken, twice, forced>>
    <3>1. ASSUME NEW k, NEW e, NEW label, Begin(r, k, e, label)
          PROVE  UNCHANGED <<overtaken, twice, forced>>
      BY <3>1 DEF Begin, ReadOnly
    <3> QED
      BY <2>2, <3>1 DEF Begins, GetMembership, Subscribe, SubscribeFree, CancelMembership,
         CancelSubscription, EnableAutoBilling, MigrateToAutoBilling, MigrateToManualBilling,
         PauseSubscription, ResumeSubscription, Touch, GeneratePaymentLink, ExtendMembership,
         UpdateByHand
  <2>3. ASSUME NEW r \in Reqs,
               \/ HandlePreapprovalWebhook(r) \/ GetPreapproval(r) \/ MatchMembership(r)
               \/ CreatePreapproval(r) \/ FindMembership(r)
        PROVE  UNCHANGED <<overtaken, twice, forced>>
    BY <2>3 DEF HandlePreapprovalWebhook, GetPreapproval, MatchMembership, CreatePreapproval,
       FindMembership, ReadOnly
  <2>4. ASSUME NEW r \in Reqs, CallMercadoPago(r) \/ CreateMembership(r) \/ Save(r)
        PROVE  overtaken \subseteq overtaken' /\ UNCHANGED <<twice, forced>>
    BY <2>4 DEF CallMercadoPago, CreateMembership, Save, Others
  <2>5. ASSUME NEW r \in Reqs, Update(r)
        PROVE  overtaken \subseteq overtaken' /\ (twice' = "no" => twice = "no")
               /\ (forced' = "no" => forced = "no")
    BY <2>5 DEF Update, Others
  <2> QED
    BY <2>1, <2>2, <2>3, <2>4, <2>5 DEF Next, Begins
<1> QED
  BY <1>1, <1>2, Fields DEF Late

Charging(p) == mp[p] \in {"pending", "authorized", "paused"}
Answers(r, p) == got[r] = p /\ kind[r] \in {"subscribe", "enable", "migrate"} /\ pc[r] # "done"

LEMMA Framed ==
  ASSUME Inv, NEW r \in Reqs, Begins(r)
  PROVE  /\ UNCHANGED <<member, mp, due, overtaken, twice, forced>> /\ pc[r] = "idle" /\ got[r] = None
         /\ \A q \in Reqs \ {r} : pc'[q] = pc[q] /\ kind'[q] = kind[q] /\ got'[q] = got[q]
<1>1. ASSUME NEW k, NEW e, NEW label, Begin(r, k, e, label)
      PROVE  /\ UNCHANGED <<member, mp, due, overtaken, twice, forced>> /\ pc[r] = "idle"
             /\ \A q \in Reqs \ {r} : pc'[q] = pc[q] /\ kind'[q] = kind[q] /\ got'[q] = got[q]
  BY <1>1, Of DEF Begin, ReadOnly, Go
<1>2. UNCHANGED <<member, mp, due, overtaken, twice, forced>> /\ pc[r] = "idle"
      /\ \A q \in Reqs \ {r} : pc'[q] = pc[q] /\ kind'[q] = kind[q] /\ got'[q] = got[q]
  BY <1>1 DEF Begins, GetMembership, Subscribe, SubscribeFree, CancelMembership,
     CancelSubscription, EnableAutoBilling, MigrateToAutoBilling, MigrateToManualBilling,
     PauseSubscription, ResumeSubscription, Touch, GeneratePaymentLink, ExtendMembership,
     UpdateByHand
<1> QED
  BY <1>2, Of DEF Request

\* What the request is about stays, whatever it awaits next.
LEMMA About ==
  ASSUME Inv, NEW r \in Reqs,
         \/ FindMembership(r) \/ CreateMembership(r) \/ GetPreapproval(r) \/ MatchMembership(r)
         \/ CallMercadoPago(r)
  PROVE  UNCHANGED <<kind, got, twice, forced>> /\ \A q \in Reqs \ {r} : pc'[q] = pc[q]
<1>1. UNCHANGED <<kind, got, twice, forced>>
  BY DEF FindMembership, CreateMembership, GetPreapproval, MatchMembership, CallMercadoPago, ReadOnly
<1> QED
  BY <1>1, Turns DEF Moves

LEMMA Saved ==
  ASSUME Inv, NEW r \in Reqs, Save(r)
  PROVE  /\ pc[r] = "save" /\ UNCHANGED <<mp, due, twice, forced>>
         /\ \/ member' = ent[r] /\ Finish(r)
            \/ pc'[r] = "failed" /\ UNCHANGED <<member, kind, got>>
               /\ \A q \in Reqs \ {r} : pc'[q] = pc[q]
BY Of DEF Save, Go

LEMMA ChargeStep == Inv /\ ChargeRecorded /\ [Next]_vars => ChargeRecorded'
<1> SUFFICES ASSUME Inv, ChargeRecorded, [Next]_vars, Late' = {}, twice' = "no",
                    NEW p \in Pres, Charging(p)'
             PROVE  member'.pre = p \/ \E r \in Reqs : Answers(r, p)'
  BY DEF ChargeRecorded, Charging, Answers
<1>1. Late = {} /\ twice = "no"
  BY LateStays
<1>2. Charging(p) => member.pre = p \/ \E r \in Reqs : Answers(r, p)
  BY <1>1 DEF ChargeRecorded, Charging, Answers
<1>3. CASE UNCHANGED vars \/ MercadoPagoChanges
  <2>1. UNCHANGED <<member, pc, kind, got>>
    BY <1>3 DEF vars, MercadoPagoChanges
  <2>2. Charging(p)
    <3>1. CASE UNCHANGED vars
      BY <3>1 DEF vars, Charging
    <3>2. CASE MercadoPagoChanges
      <4>1. PICK x \in Pres, t \in {"authorized", "paused", "cancelled"} :
              mp[x] \notin {"none", "cancelled", t} /\ mp' = [mp EXCEPT ![x] = t]
        BY <3>2 DEF MercadoPagoChanges
      <4>2. CASE x = p
        <5>1. mp[p] \in Status /\ mp[p] \notin {"none", "cancelled"}
          BY <4>1, <4>2, Fields
        <5> QED
          BY <5>1 DEF Charging, Status
      <4>3. CASE x # p
        <5>1. mp'[p] = mp[p]
          BY <4>1, <4>3, Fields
        <5> QED
          BY <5>1 DEF Charging
      <4> QED
        BY <4>2, <4>3
    <3> QED
      BY <1>3, <3>1, <3>2
  <2> QED
    BY <1>2, <2>1, <2>2 DEF Answers
<1>4. ASSUME NEW r \in Reqs, Begins(r) PROVE member'.pre = p \/ \E q \in Reqs : Answers(q, p)'
  <2>1. \A q \in Reqs : Answers(q, p) => Answers(q, p)'
    BY <1>4, Framed, NoneAssumption DEF Answers
  <2> QED
    BY <1>2, <1>4, <2>1, Framed DEF Charging
<1>5. ASSUME NEW r \in Reqs, HandlePreapprovalWebhook(r)
      PROVE  member'.pre = p \/ \E q \in Reqs : Answers(q, p)'
  <2>1. /\ UNCHANGED <<member, mp>> /\ got[r] = None
        /\ \A q \in Reqs \ {r} : pc'[q] = pc[q] /\ kind'[q] = kind[q] /\ got'[q] = got[q]
    BY <1>5, Of DEF HandlePreapprovalWebhook, Go, Request
  <2>2. \A q \in Reqs : Answers(q, p) => Answers(q, p)'
    BY <2>1, NoneAssumption DEF Answers
  <2> QED
    BY <1>2, <2>1, <2>2 DEF Charging
<1>6. ASSUME NEW r \in Reqs, CreatePreapproval(r)
      PROVE  member'.pre = p \/ \E q \in Reqs : Answers(q, p)'
  <2>1. /\ UNCHANGED <<member, kind>> /\ got[r] = None /\ kind[r] \in {"subscribe", "enable", "migrate"}
        /\ pc'[r] # "done" /\ \A q \in Reqs \ {r} : pc'[q] = pc[q] /\ got'[q] = got[q]
    BY <1>6, Of DEF CreatePreapproval, Go, Request
  <2>2. \A q \in Reqs : Answers(q, p) => Answers(q, p)'
    BY <2>1, NoneAssumption DEF Answers
  <2>3. CASE Charging(p)
    BY <1>2, <2>1, <2>2, <2>3
  <2>4. CASE ~Charging(p)
    <3>1. got'[r] = p
      BY <1>6, <2>4, Of, Fields DEF CreatePreapproval, Charging
    <3> QED
      BY <2>1, <3>1 DEF Answers
  <2> QED
    BY <2>3, <2>4
<1>7. ASSUME NEW r \in Reqs, CallMercadoPago(r)
      PROVE  member'.pre = p \/ \E q \in Reqs : Answers(q, p)'
  <2>1. UNCHANGED member /\ kind[r] \in {"cancel", "manual", "pause", "resume"} /\ mp[got[r]] # "none"
    BY <1>7, Of DEF CallMercadoPago, Request
  <2>2. Charging(p)
    BY <1>7, <2>1, Of, Fields DEF CallMercadoPago, Charging, Status
  <2>3. \A q \in Reqs : Answers(q, p) => Answers(q, p)'
    BY <1>7, <2>1, About DEF Answers
  <2> QED
    BY <1>2, <2>1, <2>2, <2>3
<1>8. ASSUME NEW r \in Reqs, CreateMembership(r)
      PROVE  member'.pre = p \/ \E q \in Reqs : Answers(q, p)'
  <2>1. /\ UNCHANGED mp /\ pc[r] = "insert" /\ (kind[r] = "subscribe" => pc'[r] # "done")
        /\ (Has => UNCHANGED member)
    BY <1>8, Of DEF CreateMembership, Go
  <2>2. ~Has => member.pre = None
    BY Of, Typed
  <2>3. \A q \in Reqs : Answers(q, p) => Answers(q, p)'
    BY <1>8, <2>1, About, Of DEF Answers, Request
  <2> QED
    BY <1>2, <2>1, <2>2, <2>3, NoneAssumption DEF Charging
<1>9. ASSUME NEW r \in Reqs, FindMembership(r) \/ GetPreapproval(r) \/ MatchMembership(r)
      PROVE  member'.pre = p \/ \E q \in Reqs : Answers(q, p)'
  <2>1. UNCHANGED <<member, mp>> /\ pc'[r] # "done"
    BY <1>9, Of DEF FindMembership, GetPreapproval, MatchMembership, ReadOnly, Go
  <2>2. \A q \in Reqs : Answers(q, p) => Answers(q, p)'
    BY <1>9, <2>1, About DEF Answers
  <2> QED
    BY <1>2, <2>1, <2>2 DEF Charging
<1>10. ASSUME NEW r \in Reqs, Finish(r), UNCHANGED mp, member'.pre = member.pre \/ member'.pre = got[r],
              Answers(r, p) => member'.pre = p, member'.pre # member.pre => member.pre # p
       PROVE  member'.pre = p \/ \E q \in Reqs : Answers(q, p)'
  <2>1. \A q \in Reqs \ {r} : Answers(q, p) => Answers(q, p)'
    BY <1>10, Finished DEF Answers
  <2> QED
    BY <1>2, <1>10, <2>1 DEF Charging
<1>11. ASSUME NEW r \in Reqs, Update(r)
       PROVE  member'.pre = p \/ \E q \in Reqs : Answers(q, p)'
  <2>1. Finish(r) /\ UNCHANGED mp /\ (kind[r] = "subscribe" => ~Charged)
    BY <1>11 DEF Update
  <2> QED
    BY <1>10, <1>11, <2>1, Updated, NoneAssumption DEF Answers, Charged
<1>12. ASSUME NEW r \in Reqs, Save(r)
       PROVE  member'.pre = p \/ \E q \in Reqs : Answers(q, p)'
  <2>1. CASE pc'[r] = "failed" /\ UNCHANGED <<member, kind, got>> /\ \A q \in Reqs \ {r} : pc'[q] = pc[q]
    <3>1. UNCHANGED mp /\ \A q \in Reqs : Answers(q, p) => Answers(q, p)'
      BY <1>12, <2>1, Saved DEF Answers
    <3> QED
      BY <1>2, <2>1, <3>1 DEF Charging
  <2>2. CASE member' = ent[r] /\ Finish(r)
    <3>1. pc'[r] = "done" /\ pc[r] = "save" /\ UNCHANGED mp
      BY <1>12, <2>2, Saved, Finished
    <3>2. r \notin overtaken
      BY <3>1, LateStays DEF Late
    <3>3. kind[r] \notin {"subscribe", "cancel"} /\ Current(r) /\ Snapshot(r)
      BY <3>1, <3>2, Of DEF Request, Snapshot
    <3>4. CASE kind[r] = "manual"
      <4>1. member.pre # p /\ ~Answers(r, p)
        BY <3>1, <3>3, <3>4, NoneAssumption DEF Snapshot, Charged, Charging, Answers
      <4>2. \A q \in Reqs \ {r} : Answers(q, p) => Answers(q, p)'
        BY <2>2, Finished DEF Answers
      <4> QED
        BY <1>2, <3>1, <4>1, <4>2 DEF Charging
    <3>5. CASE kind[r] \in {"enable", "migrate"}
      <4>1. member'.pre = got[r] /\ member.pre = None
        BY <2>2, <3>1, <3>3, <3>5 DEF Snapshot, Current, Charged
      <4> QED
        BY <1>10, <2>2, <3>1, <4>1, NoneAssumption DEF Answers
    <3>6. CASE kind[r] \notin {"manual", "enable", "migrate"}
      <4>1. member'.pre = member.pre /\ ~Answers(r, p)
        BY <2>2, <3>3, <3>6 DEF Current, Answers
      <4> QED
        BY <1>10, <2>2, <3>1, <4>1
    <3> QED
      BY <3>4, <3>5, <3>6
  <2> QED
    BY <1>12, <2>1, <2>2, Saved
<1> QED
  BY <1>3, <1>4, <1>5, <1>6, <1>7, <1>8, <1>9, <1>11, <1>12 DEF Next, Begins

\* No preapproval charges the user unrecorded, as long as nobody wrote too late or
\* subscribed a second time, but for those of requests that failed or are on the way.
THEOREM NothingUnrecorded == Spec => []ChargeRecorded
<1>1. Init => ChargeRecorded
  BY DEF Init, ChargeRecorded
<1> QED
  BY <1>1, ChargeStep, InvHolds, PTL DEF Spec

\* A status that is not that of the preapproval has a notification on its way, or
\* one that is handled, or that failed.
Notifies(r) == kind[r] = "notify" /\ got[r] = member.pre /\ pc[r] \in Await \cup {"failed"}
Notified == member.pre \in due \/ \E r \in Reqs : Notifies(r)

StatusInv == Late = {} /\ forced = "no" /\ Charged => member.status = mp[member.pre] \/ Notified

LEMMA StatusStep == Inv /\ StatusInv /\ [Next]_vars => StatusInv'
<1> SUFFICES ASSUME Inv, StatusInv, [Next]_vars, Late' = {}, forced' = "no", Charged'
             PROVE  member'.status = mp'[member'.pre] \/ Notified'
  BY DEF StatusInv
<1>1. Charged => member.status = mp[member.pre] \/ Notified
  BY LateStays DEF StatusInv
<1>2. ASSUME NEW r \in Reqs, UNCHANGED member, mp'[member.pre] = mp[member.pre],
             member.pre \in due => member.pre \in due' \/ Notifies(r)',
             \A q \in Reqs \ {r} : pc'[q] = pc[q] /\ kind'[q] = kind[q] /\ got'[q] = got[q],
             Notifies(r) => Notifies(r)'
      PROVE  member'.status = mp'[member'.pre] \/ Notified'
  <2>1. Charged /\ \A q \in Reqs : Notifies(q) => Notifies(q)'
    BY <1>2 DEF Notifies, Charged
  <2> QED
    BY <1>1, <1>2, <2>1 DEF Notified
<1>3. CASE UNCHANGED vars
  BY <1>1, <1>3 DEF vars, Notified, Notifies, Charged
<1>4. CASE MercadoPagoChanges
  <2>1. PICK p \in Pres, s \in {"authorized", "paused", "cancelled"} :
          mp' = [mp EXCEPT ![p] = s] /\ due' = due \cup {p}
    BY <1>4 DEF MercadoPagoChanges
  <2>2. UNCHANGED <<member, pc, kind, got>>
    BY <1>4 DEF MercadoPagoChanges
  <2>3. CASE member.pre = p
    BY <2>1, <2>2, <2>3 DEF Notified
  <2>4. CASE member.pre # p
    <3>1. Charged /\ mp'[member.pre] = mp[member.pre]
      BY <2>1, <2>2, <2>4, Fields DEF Charged
    <3> QED
      BY <1>1, <2>1, <2>2, <3>1 DEF Notified, Notifies
  <2> QED
    BY <2>3, <2>4
<1>5. ASSUME NEW r \in Reqs, Begins(r) PROVE member'.status = mp'[member'.pre] \/ Notified'
  <2>1. ~Notifies(r)
    BY <1>5, Framed DEF Notifies, Charged
  <2> QED
    BY <1>2, <1>5, <2>1, Framed
<1>6. ASSUME NEW r \in Reqs, HandlePreapprovalWebhook(r)
      PROVE  member'.status = mp'[member'.pre] \/ Notified'
  <2>1. /\ UNCHANGED <<member, mp>> /\ got[r] = None /\ kind'[r] = "notify" /\ pc'[r] = "fetch"
        /\ \A q \in Reqs \ {r} : pc'[q] = pc[q] /\ kind'[q] = kind[q] /\ got'[q] = got[q]
    BY <1>6, Of DEF HandlePreapprovalWebhook, Go, Request
  <2>2. PICK p \in due : due' = due \ {p} /\ got'[r] = p
    BY <1>6, Of DEF HandlePreapprovalWebhook
  <2>3. ~Notifies(r)
    BY <2>1 DEF Notifies, Charged
  <2>4. p = member.pre => Notifies(r)'
    BY <2>1, <2>2 DEF Notifies, Await, Label
  <2> QED
    BY <1>2, <2>1, <2>2, <2>3, <2>4
<1>7. ASSUME NEW r \in Reqs, CreatePreapproval(r)
      PROVE  member'.status = mp'[member'.pre] \/ Notified'
  <2>1. /\ UNCHANGED <<member, kind, due>> /\ kind[r] # "notify"
        /\ \A q \in Reqs \ {r} : pc'[q] = pc[q] /\ got'[q] = got[q]
    BY <1>7, Of DEF CreatePreapproval, Go, Request
  <2>2. mp'[member.pre] = mp[member.pre]
    BY <1>7, <2>1, Fields DEF CreatePreapproval, Charged
  <2> QED
    BY <1>2, <2>1, <2>2 DEF Notifies
<1>8. ASSUME NEW r \in Reqs, CallMercadoPago(r)
      PROVE  member'.status = mp'[member'.pre] \/ Notified'
  <2>1. UNCHANGED member /\ kind[r] # "notify"
    BY <1>8, Of DEF CallMercadoPago, Request
  <2>2. CASE member.pre \in due'
    BY <2>1, <2>2 DEF Notified
  <2>3. CASE member.pre \notin due'
    <3>1. mp'[member.pre] = mp[member.pre] /\ due \subseteq due'
      BY <1>8, <2>1, <2>3, Fields DEF CallMercadoPago, Charged
    <3> QED
      BY <1>2, <1>8, <2>1, <3>1, About DEF Notifies
  <2> QED
    BY <2>2, <2>3
<1>9. ASSUME NEW r \in Reqs, CreateMembership(r)
      PROVE  member'.status = mp'[member'.pre] \/ Notified'
  <2>1. CASE Has /\ UNCHANGED <<member, mp, due>>
    <3>1. kind[r] # "notify"
      BY <1>9, Of DEF CreateMembership, Request
    <3> QED
      BY <1>2, <1>9, <2>1, <3>1, About DEF Notifies
  <2>2. CASE member' \in {Created, [Created EXCEPT !.plan = "paid"]}
    <3>1. member'.pre = None
      BY <2>2, Typed DEF Membership
    <3> QED
      BY <3>1 DEF Charged
  <2> QED
    BY <1>9, <2>1, <2>2 DEF CreateMembership
<1>10. ASSUME NEW r \in Reqs, FindMembership(r) \/ GetPreapproval(r)
       PROVE  member'.status = mp'[member'.pre] \/ Notified'
  <2>1. UNCHANGED <<member, mp, due>>
    BY <1>10 DEF FindMembership, GetPreapproval, ReadOnly
  <2>2. Notifies(r) => Notifies(r)'
    <3>1. CASE FindMembership(r)
      BY <3>1, Of DEF FindMembership, Request, Notifies
    <3>2. CASE GetPreapproval(r)
      <4>1. pc'[r] \in {"match", "failed"}
        BY <3>2, Of DEF GetPreapproval, Go
      <4> QED
        BY <1>10, <2>1, <4>1, About DEF Notifies, Await, Label
    <3> QED
      BY <1>10, <3>1, <3>2
  <2> QED
    BY <1>2, <1>10, <2>1, <2>2, About
<1>11. ASSUME NEW r \in Reqs, MatchMembership(r)
       PROVE  member'.status = mp'[member'.pre] \/ Notified'
  <2>1. UNCHANGED <<member, mp, due>>
    BY <1>11 DEF MatchMembership, ReadOnly
  <2>2. Has
    BY <2>1, Of, Typed DEF Charged
  <2>3. got[r] = member.pre => pc'[r] = "save"
    BY <1>11, <2>2, Of DEF MatchMembership, Go
  <2>4. Notifies(r) => Notifies(r)'
    BY <1>11, <2>1, <2>3, About DEF Notifies, Await, Label
  <2> QED
    BY <1>2, <1>11, <2>1, <2>4, About
<1>12. ASSUME NEW r \in Reqs, Finish(r), UNCHANGED <<mp, due>>, kind[r] # "notify",
              member'.pre = member.pre, member'.status = member.status
       PROVE  member'.status = mp'[member'.pre] \/ Notified'
  <2>1. \A q \in Reqs : Notifies(q) => Notifies(q)'
    BY <1>12, Finished DEF Notifies
  <2> QED
    BY <1>1, <1>12, <2>1 DEF Notified, Charged
<1>13. ASSUME NEW r \in Reqs, Update(r)
       PROVE  member'.status = mp'[member'.pre] \/ Notified'
  <2>1. /\ Finish(r) /\ UNCHANGED <<mp, due>> /\ pc[r] = "update"
        /\ kind[r] = "subscribe" => ent[r].status = "authorized"
        /\ kind[r] \in {"free", "admin"} => member'.status = member.status
    BY <1>13 DEF Update
  <2>2. r \notin overtaken
    BY <1>13, <2>1, Finished, LateStays DEF Late
  <2>3. CASE kind[r] = "subscribe"
    <3>1. ent[r].status = mp[got[r]]
      BY <2>1, <2>2, <2>3, Of DEF Snapshot
    <3> QED
      BY <1>13, <2>1, <2>3, <3>1, Updated
  <2>4. CASE kind[r] # "subscribe"
    BY <1>12, <1>13, <2>1, <2>4, Updated
  <2> QED
    BY <2>3, <2>4
<1>14. ASSUME NEW r \in Reqs, Save(r)
       PROVE  member'.status = mp'[member'.pre] \/ Notified'
  <2>1. CASE pc'[r] = "failed" /\ UNCHANGED <<member, kind, got>> /\ \A q \in Reqs \ {r} : pc'[q] = pc[q]
    BY <1>2, <1>14, <2>1, Saved DEF Notifies
  <2>2. CASE member' = ent[r] /\ Finish(r)
    <3>1. pc'[r] = "done" /\ pc[r] = "save" /\ UNCHANGED <<mp, due>>
      BY <1>14, <2>2, Saved, Finished
    <3>2. r \notin overtaken
      BY <3>1, LateStays DEF Late
    <3>3. kind[r] \notin {"subscribe", "cancel"} /\ Current(r) /\ Snapshot(r)
      BY <3>1, <3>2, Of DEF Request, Snapshot
    <3>4. kind[r] # "manual"
      BY <2>2, <3>3 DEF Current, Charged
    <3>5. CASE kind[r] \in {"enable", "migrate", "pause", "resume", "notify"}
      BY <2>2, <3>1, <3>3, <3>5 DEF Snapshot
    <3>6. CASE kind[r] \in {"touch", "link", "extend", "reduce"}
      <4>1. member'.pre = member.pre /\ member'.status = member.status
        BY <2>2, <3>3, <3>6 DEF Current
      <4> QED
        BY <1>12, <2>2, <3>1, <3>6, <4>1
    <3> QED
      BY <3>1, <3>4, <3>5, <3>6, Of DEF Request
  <2> QED
    BY <1>14, <2>1, <2>2, Saved
<1> QED
  BY <1>3, <1>4, <1>5, <1>6, <1>7, <1>8, <1>9, <1>10, <1>11, <1>13, <1>14 DEF Next, Begins

\* With every notification handled and no status written by hand, the membership has
\* the status that its preapproval has at MercadoPago.
THEOREM SameStatus == Spec => []StatusFollows
<1>1. Init => StatusInv
  <2> SUFFICES ASSUME Init, Charged PROVE member.status = mp[member.pre]
    BY DEF StatusInv
  <2>1. PICK p \in Pres, m \in {"none", "auto"} : member = Paying(p, m)
    BY Typed DEF Init, Charged
  <2> QED
    BY <2>1, PayingTyped DEF Init
<1>2. StatusInv => StatusFollows
  BY DEF StatusInv, StatusFollows, Notified, Notifies
<1> QED
  BY <1>1, <1>2, StatusStep, InvHolds, PTL DEF Spec
=============================================================================
