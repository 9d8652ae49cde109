--------------------------- MODULE CatalogsProofs ---------------------------
(***************************************************************************)
(* Proofs about Catalogs, for any number of requests, items and any plan;  *)
(* that it implements CatalogLimits, and how many catalogs that allows.    *)
(*                                                                         *)
(* What a request changes can only be said while nobody has overtaken it:  *)
(* the shop is then still what it loaded (Kept), so that its save() finds  *)
(* the columns it was asked to change and no others.  That no item is ever *)
(* lost needs less: an item that an entity does not have is either not     *)
(* found by the SELECT, and left alone, or its catalogId would become NULL *)
(* and the whole write is refused.                                         *)
(***************************************************************************)
EXTENDS Catalogs, FiniteSetTheorems, TLAPS

Stages(r) ==
    /\ pc[r] = "insert" => kind[r] = "add"
    /\ pc[r] = "delete" => kind[r] \in {"delete", "remove"}
    /\ pc[r] \in {"select", "write"} =>
         kind[r] \in {"view", "update", "archive", "assign", "show", "edit"}
    /\ kind[r] = "delete" => item[r] = Items
    /\ OfCatalog(r) => ent[r].status # "gone"

StagesInv == TypeOK /\ \A r \in Reqs : Stages(r)

\* What the request has loaded is so still.
Kept(r) ==
    /\ shop.status # "gone"
    /\ pc[r] = "write" => seen[r] = shop
    /\ kind[r] \in {"view", "assign"} => ent[r].status = shop.status
    /\ kind[r] \in {"view", "update", "archive"} => ent[r].linked = shop.linked
    /\ kind[r] \in {"view", "show", "update", "archive", "assign"} => ent[r].price = shop.price
    /\ kind[r] = "edit" => \A i \in Items : ent[r].price[i] = 0 <=> shop.price[i] = 0
    /\ kind[r] = "add" => HasRoom /\ \E i \in Items : item[r] = {i} /\ shop.price[i] = 0

KeptInv ==
    /\ StagesInv
    /\ \A r \in Reqs : pc[r] \in InFlight /\ r \notin overtaken => Kept(r)

LEMMA BlankIsShop == Blank \in Shop
BY PriceAssumption DEF Blank, Shop, Price

LEMMA Edited ==
  ASSUME shop \in Shop
  PROVE  /\ \A st \in CatalogStatus : Updated(st) \in Shop
         /\ [shop EXCEPT !.status = "archived"] \in Shop
         /\ [shop EXCEPT !.linked = "yes"] \in Shop
         /\ \A i \in Items, p \in Price : [shop EXCEPT !.price[i] = p] \in Shop
BY DEF Updated, Shop, CatalogStatus

\* A request that has loaded the shop keeps the variables in their ranges and is
\* at a stage of its operation.
LEMMA BeginStages ==
  ASSUME StagesInv, NEW r \in Reqs, NEW k \in Kind, NEW S \in SUBSET Items, NEW e \in Shop,
         NEW label \in Label, Begin(r, k, S, e, label),
         label = "insert" => k = "add",
         label = "delete" => k \in {"delete", "remove"},
         label = "select" => k \in {"view", "update", "archive", "assign", "show", "edit"},
         label # "write",
         k = "delete" => S = Items,
         k \in {"view", "update", "archive", "assign"} => e.status # "gone"
  PROVE  StagesInv'
BY DEF OfCatalog, StagesInv, Stages, TypeOK, Begin, Present

\* So does a write that leaves no items without a catalog.
LEMMA WroteStages ==
  ASSUME StagesInv, NEW r \in Reqs, NEW s \in Shop,
         s.status = "gone" => \A i \in Items : s.price[i] = 0,
         Wrote(r, s), UNCHANGED <<kind, item, ent, seen>>
  PROVE  StagesInv'
BY DEF StagesInv, Stages, OfCatalog, TypeOK, Wrote, Label, Present

LEMMA InsertTyped ==
  ASSUME StagesInv, NEW r \in Reqs, InsertItem(r)
  PROVE  StagesInv'
<1> DEFINE s == [shop EXCEPT !.price = [i \in Items |-> IF i \in item[r] THEN 1 ELSE @[i]]]
<1>1. shop \in Shop /\ shop.status # "gone"
  BY DEF InsertItem, StagesInv, TypeOK
<1>2. [i \in Items |-> IF i \in item[r] THEN 1 ELSE shop.price[i]] \in [Items -> Price]
  BY <1>1, PriceAssumption DEF Shop, Price
<1>3. s \in Shop /\ s.status # "gone"
  BY <1>1, <1>2 DEF Shop
<1> QED
  BY <1>3, WroteStages DEF InsertItem

LEMMA RemoveTyped ==
  ASSUME StagesInv, NEW r \in Reqs, Remove(r)
  PROVE  StagesInv'
<1> DEFINE s == [status |-> IF kind[r] = "delete" THEN "gone" ELSE shop.status,
                 linked |-> IF kind[r] = "delete" THEN "no" ELSE shop.linked,
                 price |-> [i \in Items |-> IF i \in item[r] THEN 0 ELSE shop.price[i]]]
<1>1. s \in Shop
  BY PriceAssumption DEF Shop, Price, StagesInv, TypeOK
<1>2. s.status = "gone" => \A i \in Items : s.price[i] = 0
  BY DEF StagesInv, Stages, TypeOK, Present
<1> QED
  BY <1>1, <1>2, WroteStages DEF Remove

\* A write that is not rejected puts no item into a catalog that is gone.
LEMMA SaveTyped ==
  ASSUME StagesInv, NEW r \in Reqs, SaveWrite(r)
  PROVE  StagesInv'
<1> DEFINE s == [status |-> StatusAfter(r), linked |-> LinkAfter(r),
                 price |-> [i \in Items |-> PriceAfter(r, i)]]
<1>1. ent[r] \in Shop /\ seen[r] \in Shop /\ shop \in Shop
  BY DEF StagesInv, TypeOK
<1>2. \A i \in Items : PriceAfter(r, i) \in Price
  BY <1>1, PriceAssumption DEF PriceAfter, Shop, Price
<1>3. StatusAfter(r) \in CatalogStatus \cup {"gone"}
  BY <1>1 DEF StatusAfter, Shop
<1>4. LinkAfter(r) \in {"no", "yes"}
  BY <1>1 DEF LinkAfter, Shop
<1>5. s \in Shop
  BY <1>2, <1>3, <1>4 DEF Shop
<1>6. ASSUME StatusAfter(r) = "gone", NEW i \in Items PROVE PriceAfter(r, i) = 0
  <2>1. i \notin Inserts(r)
    BY <1>6 DEF SaveWrite, Rejected, Clashes, Inserts
  <2>2. CASE shop.status = "gone"
    BY <2>1, <2>2 DEF PriceAfter, StagesInv, TypeOK, Present
  <2>3. CASE shop.status # "gone"
    <3>1. OfCatalog(r) /\ ent[r].status = "gone"
      BY <1>6, <2>3 DEF StatusAfter, InsertsCatalog
    <3> QED
      BY <3>1 DEF StagesInv, Stages
  <2> QED
    BY <2>2, <2>3
<1> QED
  BY <1>5, <1>6, WroteStages DEF SaveWrite

LEMMA StagesHold == Spec => []StagesInv
<1>1. Init => StagesInv
  BY BlankIsShop, PriceAssumption
  DEF Init, StagesInv, Stages, OfCatalog, TypeOK, Shop, Price, CatalogStatus, Label, Kind
<1>2. StagesInv /\ [Next]_vars => StagesInv'
  <2> SUFFICES ASSUME StagesInv, [Next]_vars PROVE StagesInv'
    OBVIOUS
  <2>1. shop \in Shop /\ Present(shop) \subseteq Items
    BY DEF StagesInv, TypeOK, Present
  <2>2. ASSUME NEW r \in Reqs, GetPublicCatalog(r) PROVE StagesInv'
    BY <2>1, <2>2, BeginStages DEF GetPublicCatalog, Visible, Kind, Label
  <2>3. ASSUME NEW r \in Reqs, Refuse(r) PROVE StagesInv'
    BY <2>3, BeginStages, BlankIsShop DEF Refuse, Kind, Label
  <2>4. ASSUME NEW r \in Reqs, UpdateCatalog(r) PROVE StagesInv'
    <3>1. PICK st \in CatalogStatus : Begin(r, "update", {}, Updated(st), "select")
      BY <2>4 DEF UpdateCatalog
    <3>2. Updated(st) \in Shop /\ Updated(st).status # "gone"
      BY <2>1, Edited DEF Updated, Shop, CatalogStatus
    <3> QED
      BY <3>1, <3>2, BeginStages DEF Kind, Label
  <2>5. ASSUME NEW r \in Reqs, ArchiveCatalog(r) PROVE StagesInv'
    BY <2>1, <2>5, Edited, BeginStages DEF ArchiveCatalog, Kind, Label, Shop
  <2>6. ASSUME NEW r \in Reqs, AssignCatalogToCommerce(r) PROVE StagesInv'
    BY <2>1, <2>6, Edited, BeginStages DEF AssignCatalogToCommerce, Kind, Label, Shop
  <2>7. ASSUME NEW r \in Reqs, DeleteCatalog(r) PROVE StagesInv'
    BY <2>1, <2>7, BeginStages DEF DeleteCatalog, Kind, Label
  <2>8. ASSUME NEW r \in Reqs, AddItem(r) PROVE StagesInv'
    <3>1. PICK i \in Items : Begin(r, "add", {i}, [shop EXCEPT !.price[i] = 1], "insert")
      BY <2>8 DEF AddItem
    <3>2. [shop EXCEPT !.price[i] = 1] \in Shop
      BY <2>1, Edited, PriceAssumption DEF Price
    <3> QED
      BY <3>1, <3>2, BeginStages DEF Kind, Label
  <2>9. ASSUME NEW r \in Reqs, GetItemById(r) PROVE StagesInv'
    BY <2>1, <2>9, BeginStages DEF GetItemById, Kind, Label
  <2>10. ASSUME NEW r \in Reqs, UpdateItem(r) PROVE StagesInv'
    <3>1. PICK i \in Present(shop), p \in Price \ {0} :
            Begin(r, "edit", {i}, [shop EXCEPT !.price[i] = p], "select")
      BY <2>10 DEF UpdateItem
    <3>2. [shop EXCEPT !.price[i] = p] \in Shop /\ i \in Items
      BY <2>1, Edited
    <3> QED
      BY <3>1, <3>2, BeginStages DEF Kind, Label
  <2>11. ASSUME NEW r \in Reqs, DeleteItem(r) PROVE StagesInv'
    BY <2>1, <2>11, BeginStages DEF DeleteItem, Kind, Label
  <2>12. ASSUME NEW r \in Reqs, InsertItem(r) \/ Remove(r) \/ SaveWrite(r) PROVE StagesInv'
    BY <2>12, InsertTyped, RemoveTyped, SaveTyped
  <2>13. ASSUME NEW r \in Reqs, SaveSelect(r) PROVE StagesInv'
    BY <2>13 DEF SaveSelect, StagesInv, Stages, OfCatalog, TypeOK, Label
  <2>14. ASSUME NEW r \in Reqs, Reject(r) PROVE StagesInv'
    BY <2>14 DEF Reject, StagesInv, Stages, OfCatalog, TypeOK, Label
  <2>15. CASE UNCHANGED vars
    BY <2>15 DEF vars, StagesInv, Stages, OfCatalog, TypeOK, Present
  <2> QED
    BY <2>2, <2>3, <2>4, <2>5, <2>6, <2>7, <2>8, <2>9, <2>10, <2>11, <2>12, <2>13, <2>14,
       <2>15 DEF Next
<1> QED
  BY <1>1, <1>2, PTL DEF Spec

\* Every variable stays in its range, and no item is left without a catalog.
THEOREM TypeCorrect == Spec => []TypeOK
<1>1. StagesInv => TypeOK
  BY DEF StagesInv
<1> QED
  BY <1>1, StagesHold, PTL

-----------------------------------------------------------------------------
\* A write changes no item to none, and only a deletion does.
LEMMA SaveLosesNone ==
  ASSUME StagesInv, NEW r \in Reqs, SaveWrite(r), NEW i \in Present(shop)
  PROVE  i \in Present(shop')
<1>1. i \in Items /\ shop.price[i] # 0 /\ shop'.price[i] = PriceAfter(r, i)
  BY DEF Present, SaveWrite, Wrote
<1>2. i \notin Orphans(r)
  BY <1>1 DEF SaveWrite, Rejected
<1>3. PriceAfter(r, i) # 0
  BY <1>1, <1>2 DEF PriceAfter, Inserts
<1> QED
  BY <1>1, <1>3 DEF Present

\* An item disappears by the deletion of that item or of the catalog that a
\* request has asked for, and by nothing else.
THEOREM ItemsStay == Spec => NoItemLost
<1> DEFINE Lost(i) == \E r \in Reqs : /\ pc[r] = "delete" /\ pc'[r] = "done"
                                      /\ i \in item[r] /\ kind[r] \in {"delete", "remove"}
           A == \A i \in Present(shop) \ Present(shop') : Lost(i)
<1>1. ASSUME StagesInv, [Next]_vars PROVE A
  <2> SUFFICES ASSUME NEW i \in Present(shop), i \notin Present(shop') PROVE Lost(i)
    OBVIOUS
  <2>1. ASSUME NEW r \in Reqs, Remove(r) PROVE Lost(i)
    <3>1. i \in Items /\ shop.price[i] # 0 /\ shop'.price[i] = 0
      BY DEF Present
    <3>2. shop'.price[i] = IF i \in item[r] THEN 0 ELSE shop.price[i]
      BY <2>1, <3>1 DEF Remove, Wrote
    <3>3. pc[r] = "delete" /\ pc'[r] = "done"
      BY <1>1, <2>1 DEF Remove, Wrote, StagesInv, TypeOK
    <3> QED
      BY <3>1, <3>2, <3>3, <1>1 DEF StagesInv, Stages
  <2>2. ASSUME NEW r \in Reqs, InsertItem(r) PROVE FALSE
    BY <1>1, <2>2 DEF InsertItem, Wrote, Present, StagesInv, TypeOK, Shop
  <2>3. ASSUME NEW r \in Reqs, SaveWrite(r) PROVE FALSE
    BY <1>1, <2>3, SaveLosesNone
  <2> QED
    BY <1>1, <2>1, <2>2, <2>3
    DEF Next, vars, GetPublicCatalog, Refuse, UpdateCatalog, ArchiveCatalog,
        AssignCatalogToCommerce, DeleteCatalog, AddItem, GetItemById, UpdateItem, DeleteItem,
        SaveSelect, Reject, Begin
<1>2. StagesInv /\ [Next]_vars => [A]_vars
  BY <1>1
<1> QED
  BY <1>2, StagesHold, PTL DEF Spec, NoItemLost

-----------------------------------------------------------------------------
\* A request that has just loaded the shop has loaded what it is.
LEMMA BeginKept ==
  ASSUME KeptInv, NEW q \in Reqs, NEW k \in Kind, NEW S \in SUBSET Items, NEW e \in Shop,
         NEW label \in Label, Begin(q, k, S, e, label), label # "write",
         label \in InFlight => shop.status # "gone",
         k \in {"view", "assign"} => e.status = shop.status,
         k \in {"view", "update", "archive"} => e.linked = shop.linked,
         k \in {"view", "show", "update", "archive", "assign"} => e.price = shop.price,
         k = "edit" => \A i \in Items : e.price[i] = 0 <=> shop.price[i] = 0,
         k = "add" => HasRoom /\ \E i \in Items : S = {i} /\ shop.price[i] = 0
  PROVE  \A r \in Reqs : pc'[r] \in InFlight /\ r \notin overtaken' => Kept(r)'
<1> SUFFICES ASSUME NEW r \in Reqs, pc'[r] \in InFlight, r \notin overtaken' PROVE Kept(r)'
  OBVIOUS
<1>1. CASE r = q
  BY <1>1 DEF Begin, Kept, KeptInv, StagesInv, TypeOK, HasRoom
<1>2. CASE r # q
  BY <1>2 DEF Begin, Kept, KeptInv, StagesInv, TypeOK, HasRoom
<1> QED
  BY <1>1, <1>2

\* A write leaves the shop as it is or overtakes all the others.
LEMMA WroteKept ==
  ASSUME KeptInv, NEW q \in Reqs, NEW s \in Shop, Wrote(q, s), UNCHANGED <<kind, item, ent, seen>>
  PROVE  \A r \in Reqs : pc'[r] \in InFlight /\ r \notin overtaken' => Kept(r)'
<1> SUFFICES ASSUME NEW r \in Reqs, pc'[r] \in InFlight, r \notin overtaken' PROVE Kept(r)'
  OBVIOUS
<1>1. r # q /\ pc'[r] = pc[r]
  BY DEF Wrote, KeptInv, StagesInv, TypeOK, InFlight
<1>2. shop' = shop /\ r \notin overtaken
  BY <1>1 DEF Wrote
<1>3. Kept(r)
  BY <1>1, <1>2 DEF KeptInv
<1> QED
  BY <1>1, <1>2, <1>3 DEF Kept, HasRoom

LEMMA KeptHolds == Spec => []KeptInv
<1> DEFINE Goal == \A r \in Reqs : pc[r] \in InFlight /\ r \notin overtaken => Kept(r)
<1>1. Init /\ StagesInv => KeptInv
  BY DEF Init, KeptInv, InFlight
<1>2. KeptInv /\ StagesInv' /\ [Next]_vars => KeptInv'
  <2> SUFFICES ASSUME KeptInv, [Next]_vars, StagesInv' PROVE Goal'
    BY DEF KeptInv
  <2>1. shop \in Shop /\ Present(shop) \subseteq Items /\ shop' \in Shop
    BY DEF KeptInv, StagesInv, TypeOK, Present
  <2>2. \A i \in Present(shop) : shop.status # "gone"
    BY DEF KeptInv, StagesInv, TypeOK
  <2>3. ASSUME NEW q \in Reqs, GetPublicCatalog(q) PROVE Goal'
    BY <2>1, <2>3, BeginKept DEF GetPublicCatalog, Visible, Kind, Label
  <2>4. ASSUME NEW q \in Reqs, Refuse(q) PROVE Goal'
    BY <2>4, BeginKept, BlankIsShop DEF Refuse, Kind, Label, InFlight
  <2>5. ASSUME NEW q \in Reqs, UpdateCatalog(q) PROVE Goal'
    <3>1. PICK st \in CatalogStatus : Begin(q, "update", {}, Updated(st), "select")
      BY <2>5 DEF UpdateCatalog
    <3>2. /\ Updated(st) \in Shop
          /\ Updated(st).linked = shop.linked /\ Updated(st).price = shop.price
      BY <2>1, Edited DEF Updated, Shop, CatalogStatus
    <3> QED
      BY <2>5, <3>1, <3>2, BeginKept DEF UpdateCatalog, Kind, Label
  <2>6. ASSUME NEW q \in Reqs, ArchiveCatalog(q) PROVE Goal'
    BY <2>1, <2>6, Edited, BeginKept DEF ArchiveCatalog, Kind, Label, Shop
  <2>7. ASSUME NEW q \in Reqs, AssignCatalogToCommerce(q) PROVE Goal'
    BY <2>1, <2>7, Edited, BeginKept DEF AssignCatalogToCommerce, Kind, Label, Shop
  <2>8. ASSUME NEW q \in Reqs, DeleteCatalog(q) PROVE Goal'
    BY <2>1, <2>8, BeginKept DEF DeleteCatalog, Kind, Label
  <2>9. ASSUME NEW q \in Reqs, AddItem(q) PROVE Goal'
    <3>1. PICK i \in Items : /\ Begin(q, "add", {i}, [shop EXCEPT !.price[i] = 1], "insert")
                             /\ Fresh(i)
      BY <2>9 DEF AddItem
    <3>2. [shop EXCEPT !.price[i] = 1] \in Shop
      BY <2>1, Edited, PriceAssumption DEF Price
    <3> QED
      BY <2>9, <3>1, <3>2, BeginKept DEF AddItem, Fresh, Kind, Label
  <2>10. ASSUME NEW q \in Reqs, GetItemById(q) PROVE Goal'
    BY <2>1, <2>2, <2>10, BeginKept DEF GetItemById, Kind, Label
  <2>11. ASSUME NEW q \in Reqs, UpdateItem(q) PROVE Goal'
    <3>1. PICK i \in Present(shop), p \in Price \ {0} :
            Begin(q, "edit", {i}, [shop EXCEPT !.price[i] = p], "select")
      BY <2>11 DEF UpdateItem
    <3>2. [shop EXCEPT !.price[i] = p] \in Shop /\ i \in Items /\ shop.price[i] # 0
      BY <2>1, Edited DEF Present
    <3>3. \A j \in Items : [shop EXCEPT !.price[i] = p].price[j] = 0 <=> shop.price[j] = 0
      BY <2>1, <3>1, <3>2 DEF Shop
    <3> QED
      BY <2>2, <3>1, <3>2, <3>3, BeginKept DEF Kind, Label
  <2>12. ASSUME NEW q \in Reqs, DeleteItem(q) PROVE Goal'
    BY <2>1, <2>2, <2>12, BeginKept DEF DeleteItem, Kind, Label
  <2>13. ASSUME NEW q \in Reqs, InsertItem(q) \/ Remove(q) \/ SaveWrite(q) PROVE Goal'
    <3>1. Wrote(q, shop') /\ UNCHANGED <<kind, item, ent, seen>>
      BY <2>13 DEF InsertItem, Remove, SaveWrite, Wrote
    <3> QED
      BY <2>1, <3>1, WroteKept
  <2>14. ASSUME NEW q \in Reqs, SaveSelect(q) PROVE Goal'
    BY <2>14 DEF SaveSelect, KeptInv, Kept, HasRoom, StagesInv, TypeOK, InFlight
  <2>15. ASSUME NEW q \in Reqs, Reject(q) PROVE Goal'
    BY <2>15 DEF Reject, KeptInv, Kept, HasRoom, StagesInv, TypeOK, InFlight
  <2>16. CASE UNCHANGED vars
    BY <2>16 DEF vars, KeptInv, Kept, HasRoom
  <2> QED
    BY <2>3, <2>4, <2>5, <2>6, <2>7, <2>8, <2>9, <2>10, <2>11, <2>12, <2>13, <2>14, <2>15,
       <2>16 DEF Next
<1> QED
  BY <1>1, <1>2, StagesHold, PTL DEF Spec

\* The SELECT of a request that nobody has overtaken finds what it has loaded:
\* its save() writes what it was asked to, and only that.
LEMMA SaveKept ==
  ASSUME KeptInv, NEW r \in Reqs, SaveWrite(r), r \notin overtaken
  PROVE  /\ shop'.status # shop.status => MayStatus(r)
         /\ shop'.linked # shop.linked => MayLink(r)
         /\ \A i \in Items : shop'.price[i] # shop.price[i] => MayItem(r, i) /\ kind[r] = "edit"
         /\ Present(shop') = Present(shop)
<1>1. /\ Kept(r) /\ Stages(r) /\ seen[r] = shop /\ shop.status # "gone"
      /\ kind[r] \in {"view", "update", "archive", "assign", "show", "edit"}
  BY DEF SaveWrite, KeptInv, StagesInv, Stages, Kept, InFlight
<1>2. shop'.status = StatusAfter(r) /\ shop'.linked = LinkAfter(r)
  BY DEF SaveWrite, Wrote
<1>3. \A i \in Items : shop'.price[i] = PriceAfter(r, i)
  BY DEF SaveWrite, Wrote
<1>4. shop'.status # shop.status => MayStatus(r)
  BY <1>1, <1>2 DEF StatusAfter, InsertsCatalog, OfCatalog, Kept, MayStatus
<1>5. shop'.linked # shop.linked => MayLink(r)
  BY <1>1, <1>2 DEF LinkAfter, InsertsCatalog, OfCatalog, Kept, MayLink
<1>6. \A i \in Items : ent[r].price[i] = 0 <=> shop.price[i] = 0
  BY <1>1 DEF Kept
<1>7. Orphans(r) = {} /\ Inserts(r) = {}
  BY <1>1, <1>6 DEF Orphans, Inserts, Present, KeptInv, StagesInv, TypeOK
<1>8. ASSUME NEW i \in Items, shop'.price[i] # shop.price[i]
      PROVE  /\ MayItem(r, i) /\ kind[r] = "edit"
             /\ shop.price[i] # 0 /\ shop'.price[i] # 0
  BY <1>1, <1>3, <1>7, <1>8 DEF PriceAfter, Kept, MayItem
<1> QED
  BY <1>4, <1>5, <1>8 DEF Present

\* As long as nobody has overtaken a request, it changes nothing but what it was
\* asked to change.
THEOREM OwnChanges == Spec => OnlyOwnChanges
<1> DEFINE Own(r) == /\ shop'.status # shop.status => MayStatus(r)
                     /\ shop'.linked # shop.linked => MayLink(r)
                     /\ \A i \in Items : shop'.price[i] # shop.price[i] => MayItem(r, i)
           A == \A r \in Reqs \ overtaken : pc[r] \in InFlight /\ pc'[r] = "done" => Own(r)
<1>1. ASSUME KeptInv, [Next]_vars PROVE A
  <2> SUFFICES ASSUME NEW r \in Reqs, r \notin overtaken, pc[r] \in InFlight, pc'[r] = "done"
               PROVE  Own(r)
    OBVIOUS
  <2>1. Kept(r) /\ Stages(r)
    BY <1>1 DEF KeptInv, StagesInv
  <2>2. InsertItem(r) \/ Remove(r) \/ SaveWrite(r)
    BY <1>1
    DEF Next, vars, GetPublicCatalog, Refuse, UpdateCatalog, ArchiveCatalog,
        AssignCatalogToCommerce, DeleteCatalog, AddItem, GetItemById, UpdateItem, DeleteItem,
        SaveSelect, Reject, Begin, InsertItem, Remove, SaveWrite, Wrote, InFlight, KeptInv,
        StagesInv, TypeOK
  <2>3. CASE InsertItem(r)
    <3>1. shop'.status = shop.status /\ shop'.linked = shop.linked
      BY <1>1, <2>3 DEF InsertItem, Wrote, KeptInv, StagesInv, TypeOK, Shop
    <3>2. \A i \in Items : shop'.price[i] = IF i \in item[r] THEN 1 ELSE shop.price[i]
      BY <1>1, <2>3 DEF InsertItem, Wrote, KeptInv, StagesInv, TypeOK, Shop
    <3>3. kind[r] = "add" /\ \A i \in item[r] : shop.price[i] = 0
      BY <2>1, <2>3 DEF InsertItem, Stages, Kept
    <3> QED
      BY <3>1, <3>2, <3>3 DEF MayItem
  <2>4. CASE Remove(r)
    <3>1. kind[r] \in {"delete", "remove"} /\ shop.status # "gone"
      BY <2>1, <2>4 DEF Remove, Stages, Kept
    <3>2. kind[r] = "remove" => shop'.status = shop.status /\ shop'.linked = shop.linked
      BY <2>4 DEF Remove, Wrote
    <3>3. \A i \in Items : shop'.price[i] = IF i \in item[r] THEN 0 ELSE shop.price[i]
      BY <2>4 DEF Remove, Wrote
    <3> QED
      BY <3>1, <3>2, <3>3 DEF MayStatus, MayLink, MayItem
  <2>5. CASE SaveWrite(r)
    BY <1>1, <2>5, SaveKept
  <2> QED
    BY <2>2, <2>3, <2>4, <2>5
<1>2. KeptInv /\ [Next]_vars => [A]_vars
  BY <1>1
<1> QED
  BY <1>2, KeptHolds, PTL DEF Spec, OnlyOwnChanges

-----------------------------------------------------------------------------
CapacityInv == KeptInv /\ CapacityKept

\* As long as every request has written on what it had loaded, the capacity of
\* the catalog is kept.
THEOREM CapacityHolds == Spec => []CapacityKept
<1>1. Init /\ KeptInv => CapacityInv
  <2> SUFFICES ASSUME Init, KeptInv, Capacity >= 0 PROVE Cardinality(Present(shop)) <= Capacity
    BY DEF CapacityInv, CapacityKept
  <2>1. CASE Present(shop) = {}
    BY <2>1, FS_EmptySet, CapacityAssumption
  <2> QED
    BY <2>1 DEF Init
<1>2. CapacityInv /\ KeptInv' /\ [Next]_vars => CapacityInv'
  <2> SUFFICES ASSUME CapacityInv, KeptInv', [Next]_vars, Late' = {}, Capacity >= 0
               PROVE  Cardinality(Present(shop')) <= Capacity
    BY DEF CapacityInv, CapacityKept
  <2>1. /\ IsFiniteSet(Present(shop)) /\ Cardinality(Present(shop)) \in Nat
        /\ IsFiniteSet(Present(shop')) /\ Cardinality(Present(shop')) \in Nat
    <3>1. Present(shop) \subseteq Items /\ Present(shop') \subseteq Items
      BY DEF Present
    <3> QED
      BY <3>1, ItemsAssumption, FS_Subset, FS_CardinalityType
  <2>2. Late = {}
    <3> SUFFICES ASSUME NEW r \in Late PROVE r \in Late'
      OBVIOUS
    <3> QED
      BY DEF Late, CapacityInv, KeptInv, StagesInv, TypeOK, InFlight, Next, vars,
         GetPublicCatalog, Refuse, UpdateCatalog, ArchiveCatalog,
         AssignCatalogToCommerce, DeleteCatalog, AddItem, GetItemById, UpdateItem, DeleteItem,
         SaveSelect, Reject, Begin, InsertItem, Remove, SaveWrite, Wrote
  <2>3. Cardinality(Present(shop)) <= Capacity
    BY <2>2 DEF CapacityInv, CapacityKept
  <2>4. ASSUME Present(shop') \subseteq Present(shop)
        PROVE  Cardinality(Present(shop')) <= Capacity
    <3>1. Cardinality(Present(shop')) <= Cardinality(Present(shop))
      BY <2>1, <2>4, FS_Subset
    <3> QED
      BY <2>1, <2>3, <3>1, CapacityAssumption
  <2>5. ASSUME NEW r \in Reqs, InsertItem(r) PROVE Cardinality(Present(shop')) <= Capacity
    <3>1. pc'[r] = "done" /\ (r \in overtaken => r \in overtaken')
      BY <2>5 DEF InsertItem, Wrote, CapacityInv, KeptInv, StagesInv, TypeOK
    <3>2. r \notin overtaken
      BY <3>1 DEF Late
    <3>3. Kept(r) /\ kind[r] = "add"
      BY <2>5, <3>2 DEF InsertItem, CapacityInv, KeptInv, StagesInv, Stages, InFlight
    <3>4. PICK i \in Items : item[r] = {i} /\ shop.price[i] = 0
      BY <3>3 DEF Kept
    <3>5. \A j \in Items : shop'.price[j] = IF j = i THEN 1 ELSE shop.price[j]
      BY <2>5, <3>4 DEF InsertItem, Wrote, CapacityInv, KeptInv, StagesInv, TypeOK, Shop
    <3>6. Present(shop') = Present(shop) \cup {i} /\ i \notin Present(shop)
      BY <3>4, <3>5 DEF Present
    <3>7. Cardinality(Present(shop')) = Cardinality(Present(shop)) + 1
      BY <2>1, <3>6, FS_AddElement
    <3> QED
      BY <2>1, <3>3, <3>7, CapacityAssumption DEF Kept, HasRoom
  <2>6. ASSUME NEW r \in Reqs, Remove(r) PROVE Present(shop') \subseteq Present(shop)
    BY <2>6 DEF Remove, Wrote, Present
  <2>7. ASSUME NEW r \in Reqs, SaveWrite(r) PROVE Present(shop') \subseteq Present(shop)
    <3>1. pc'[r] = "done" /\ (r \in overtaken => r \in overtaken')
      BY <2>7 DEF SaveWrite, Wrote, CapacityInv, KeptInv, StagesInv, TypeOK
    <3>2. r \notin overtaken
      BY <3>1 DEF Late
    <3> QED
      BY <2>7, <3>2, SaveKept DEF CapacityInv
  <2>8. CASE shop' = shop
    BY <2>8, <2>4
  <2> QED
    BY <2>4, <2>5, <2>6, <2>7, <2>8
    DEF Next, vars, GetPublicCatalog, Refuse, UpdateCatalog, ArchiveCatalog,
        AssignCatalogToCommerce, DeleteCatalog, AddItem, GetItemById, UpdateItem, DeleteItem,
        SaveSelect, Reject, Begin
<1>3. CapacityInv => CapacityKept
  BY DEF CapacityInv
<1> QED
  BY <1>1, <1>2, <1>3, KeptHolds, PTL DEF Spec

-----------------------------------------------------------------------------
(* The catalog as CatalogLimits sees it.                                   *)

\* A request that has not started has no operation yet, and a catalog that is gone
\* no commerce.
SeenInv ==
    /\ StagesInv
    /\ shop.status = "gone" => shop.linked = "no"
    /\ \A r \in Reqs : pc[r] = "idle" => kind[r] = "none"

\* A save() that leaves no catalog has found none, and writes nothing.
LEMMA SaveSeen ==
  ASSUME SeenInv, NEW r \in Reqs, SaveWrite(r)
  PROVE  shop'.status = "gone" => shop'.linked = "no"
<1>1. shop'.status = StatusAfter(r) /\ shop'.linked = LinkAfter(r)
  BY DEF SaveWrite, Wrote
<1>2. OfCatalog(r) => ent[r].status # "gone"
  BY DEF SeenInv, StagesInv, Stages
<1> QED
  BY <1>1, <1>2 DEF SeenInv, StatusAfter, LinkAfter, InsertsCatalog

LEMMA SeenHolds == Spec => []SeenInv
<1>1. Init /\ StagesInv => SeenInv
  BY DEF Init, SeenInv
<1>2. SeenInv /\ StagesInv' /\ [Next]_vars => SeenInv'
  <2> SUFFICES ASSUME SeenInv, StagesInv', [Next]_vars
               PROVE  /\ shop'.status = "gone" => shop'.linked = "no"
                      /\ \A q \in Reqs : pc'[q] = "idle" => kind'[q] = "none"
    BY DEF SeenInv
  <2>t. pc \in [Reqs -> Label] /\ kind \in [Reqs -> Kind] /\ shop \in Shop
    BY DEF SeenInv, StagesInv, TypeOK
  <2>1. ASSUME NEW r \in Reqs, NEW k, NEW S, NEW e, NEW l \in Label \ {"idle"}, Begin(r, k, S, e, l)
        PROVE  /\ shop'.status = "gone" => shop'.linked = "no"
               /\ \A q \in Reqs : pc'[q] = "idle" => kind'[q] = "none"
    BY <2>1, <2>t DEF Begin, SeenInv
  <2>2. ASSUME NEW r \in Reqs, InsertItem(r) \/ Remove(r) \/ SaveSelect(r) \/ SaveWrite(r) \/ Reject(r)
        PROVE  /\ shop'.status = "gone" => shop'.linked = "no"
               /\ \A q \in Reqs : pc'[q] = "idle" => kind'[q] = "none"
    <3>1. CASE SaveWrite(r)
      BY <3>1, <2>t, SaveSeen DEF SaveWrite, Wrote, SeenInv
    <3>2. CASE Remove(r)
      BY <3>2, <2>t DEF Remove, Wrote, SeenInv
    <3>3. CASE InsertItem(r)
      BY <3>3, <2>t DEF InsertItem, Wrote, SeenInv, Shop
    <3>4. CASE SaveSelect(r) \/ Reject(r)
      BY <3>4, <2>t DEF SaveSelect, Reject, SeenInv
    <3> QED
      BY <2>2, <3>1, <3>2, <3>3, <3>4
  <2>3. CASE UNCHANGED vars
    BY <2>3 DEF vars, SeenInv
  <2>4. {"select", "delete", "insert", "refused"} \subseteq Label \ {"idle"}
    BY DEF Label
  <2> QED
    BY <2>1, <2>2, <2>3, <2>4
    DEF Next, GetPublicCatalog, Refuse, UpdateCatalog, ArchiveCatalog, AssignCatalogToCommerce,
        DeleteCatalog, AddItem, GetItemById, UpdateItem, DeleteItem
<1> QED
  BY <1>1, <1>2, StagesHold, PTL DEF Spec

\* The finite sets of an instance are those of FiniteSets.
LEMMA SameFinite == \A S : Merchant!IsFiniteSet(S) <=> IsFiniteSet(S)
BY DEF Merchant!IsFiniteSet, IsFiniteSet

\* The catalog at the start is one the merchant had before.
LEMMA SeenInit == Init => Merchant!Init
<1> SUFFICES ASSUME Init PROVE Merchant!Init
  OBVIOUS
<1>1. shop.status = "active" /\ shop.linked = "no"
  BY DEF Init
<1>2. IsFiniteSet({"catalog"})
  BY FS_Singleton
<1>3. \A r \in Reqs : Stage(r) = "idle" /\ ~LoadsCatalog(r)
  BY DEF Init, Stage, LoadsCatalog, OfCatalog
<1> DEFINE cats == IF shop.status = "gone" THEN {} ELSE {"catalog"}
           linked == [c \in {"catalog"} |-> shop.linked]
<1>4. cats \in SUBSET {"catalog"} /\ IsFiniteSet(cats) /\ {"catalog"} \ cats = {}
  BY <1>1, <1>2
<1>5. linked \in [{"catalog"} -> {"yes"} \cup {"no"}]
  BY <1>1
<1>6. \A c \in {"catalog"} \ cats : linked[c] = "no"
  BY <1>4
<1>7. /\ [r \in Reqs |-> Stage(r)] = [r \in Reqs |-> "idle"]
      /\ [r \in Reqs |-> IF LoadsCatalog(r) THEN ent[r].linked ELSE "no"] = [r \in Reqs |-> "no"]
  BY <1>3
<1>8. [r \in Reqs |-> "catalog"] \in [Reqs -> {"catalog"}]
  OBVIOUS
<1> HIDE DEF cats, linked
<1>9. /\ -1 \in {-1}
      /\ cats \in SUBSET {"catalog"} /\ IsFiniteSet(cats)
      /\ linked \in [{"catalog"} -> Merchant!Places]
      /\ \A c \in {"catalog"} \ cats : linked[c] = "no"
      /\ -1 # -1 => \A p \in Merchant!Places : Cardinality({c \in cats : linked[c] = p}) <= -1
  BY <1>4, <1>5, <1>6 DEF Merchant!Places
<1> QED
  BY <1>7, <1>8, <1>9, SameFinite DEF Merchant!Init, cats, linked

\* A request that has loaded the catalog is one of CatalogLimits' that has.
LEMMA SeenLoad ==
  ASSUME SeenInv, NEW r \in Reqs, NEW k \in {"view", "update", "archive", "assign", "delete"},
         NEW S, NEW e, shop.status # "gone",
         Begin(r, k, S, e, IF k = "delete" THEN "delete" ELSE "select"),
         IF k = "assign" THEN shop.linked = "no" /\ e.linked = "yes" ELSE e.linked = shop.linked
  PROVE  Merchant!Next
<1> DEFINE l == IF k = "delete" THEN "remove" ELSE IF k = "assign" THEN "link" ELSE "save"
<1>t. /\ pc \in [Reqs -> Label] /\ kind \in [Reqs -> Kind] /\ shop \in Shop
      /\ ent \in [Reqs -> Shop] /\ pc[r] = "idle" /\ kind[r] = "none"
  BY DEF SeenInv, StagesInv, TypeOK, Begin
<1>1. Stage(r) = "idle" /\ Stage(r)' = l /\ LoadsCatalog(r)'
  BY <1>t DEF Begin, Stage, OfCatalog, LoadsCatalog
<1>2. \A q \in Reqs \ {r} : Stage(q)' = Stage(q) /\ LoadsCatalog(q)' = LoadsCatalog(q)
                            /\ ent'[q] = ent[q]
  BY <1>t DEF Begin, Stage, OfCatalog, LoadsCatalog
<1>3. ent'[r].linked = e.linked /\ UNCHANGED shop
  BY <1>t DEF Begin
<1>4. Merchant!Load(r, "catalog", e.linked, l)
  BY <1>1, <1>2, <1>3 DEF Merchant!Load
<1>5. Merchant!LoadCatalog(r) \/ Merchant!AssignCatalogToCommerce(r) \/ Merchant!DeleteCatalog(r)
  BY <1>4 DEF Merchant!LoadCatalog, Merchant!AssignCatalogToCommerce, Merchant!DeleteCatalog
<1> QED
  BY <1>5 DEF Merchant!Next

\* One about an item is none of them, and neither is one that is refused.
LEMMA SeenOther ==
  ASSUME SeenInv, NEW r \in Reqs, NEW k \in {"none", "add", "show", "edit", "remove"},
         NEW S, NEW e, NEW l \in Label, Begin(r, k, S, e, l)
  PROVE  UNCHANGED Merchant!vars
<1>t. /\ pc \in [Reqs -> Label] /\ kind \in [Reqs -> Kind] /\ pc[r] = "idle" /\ kind[r] = "none"
      /\ ent \in [Reqs -> Shop]
  BY DEF SeenInv, StagesInv, TypeOK, Begin
<1>1. \A q \in Reqs : Stage(q)' = Stage(q) /\ LoadsCatalog(q)' = LoadsCatalog(q)
                      /\ (LoadsCatalog(q) => ent'[q] = ent[q])
  BY <1>t DEF Begin, Stage, OfCatalog, LoadsCatalog
<1> QED
  BY <1>1 DEF Begin, Merchant!vars

\* A write of a request: what the catalog is after it, and that the request is
\* ended.
LEMMA SeenEnd ==
  ASSUME SeenInv, NEW r \in Reqs, NEW l \in {"done", "failed"}, pc' = [pc EXCEPT ![r] = l],
         UNCHANGED <<kind, item, ent>>
  PROVE  /\ Stage(r)' = "idle"
         /\ \A q \in Reqs \ {r} : Stage(q)' = Stage(q)
         /\ \A q \in Reqs : LoadsCatalog(q)' = LoadsCatalog(q) /\ ent'[q] = ent[q]
<1>1. pc \in [Reqs -> Label]
  BY DEF SeenInv, StagesInv, TypeOK
<1> QED
  BY <1>1 DEF Stage, OfCatalog, LoadsCatalog

\* A request that ends and leaves the catalog as it is for CatalogLimits, is refused
\* there or is none.
LEMMA SeenNothing ==
  ASSUME SeenInv, NEW r \in Reqs, NEW l \in {"done", "failed"}, pc' = [pc EXCEPT ![r] = l],
         UNCHANGED <<kind, item, ent>>,
         shop'.status = "gone" <=> shop.status = "gone", shop'.linked = shop.linked
  PROVE  Merchant!Next \/ UNCHANGED Merchant!vars
<1>1. CASE Stage(r) = "idle"
  BY <1>1, SeenEnd DEF Merchant!vars
<1>2. CASE Stage(r) \in {"save", "link", "remove"}
  <2>1. Merchant!Refuse(r)
    BY <1>2, SeenEnd DEF Merchant!Refuse
  <2> QED
    BY <2>1 DEF Merchant!Next
<1> QED
  BY <1>1, <1>2 DEF Stage

\* The save() of the catalog writes the commerce that was loaded, or none.
LEMMA SeenSave ==
  ASSUME SeenInv, NEW r \in Reqs, SaveWrite(r)
  PROVE  Merchant!Next \/ UNCHANGED Merchant!vars
<1>1. /\ shop'.status = StatusAfter(r) /\ shop'.linked = LinkAfter(r)
      /\ pc' = [pc EXCEPT ![r] = "done"] /\ UNCHANGED <<kind, item, ent>> /\ pc[r] = "write"
  BY DEF SaveWrite, Wrote
<1>2. OfCatalog(r) => ent[r].status # "gone"
  BY DEF SeenInv, StagesInv, Stages
<1>3. CASE shop'.linked = shop.linked /\ (shop'.status = "gone" <=> shop.status = "gone")
  BY <1>1, <1>3, SeenNothing
<1>4. CASE ~(shop'.linked = shop.linked /\ (shop'.status = "gone" <=> shop.status = "gone"))
  <2>1. OfCatalog(r) /\ shop'.linked = ent[r].linked /\ shop'.status # "gone"
    BY <1>1, <1>2, <1>4 DEF StatusAfter, LinkAfter, InsertsCatalog
  <2>2. Stage(r) \in {"save", "link"} /\ LoadsCatalog(r)
    BY <1>1, <2>1 DEF Stage, LoadsCatalog
  <2>3. Merchant!Save(r)
    BY <1>1, <2>1, <2>2, SeenEnd DEF Merchant!Save
  <2> QED
    BY <2>3 DEF Merchant!Next
<1> QED
  BY <1>3, <1>4

\* A deletion takes the catalog away if it is not already.
LEMMA SeenRemove ==
  ASSUME SeenInv, NEW r \in Reqs, Remove(r)
  PROVE  Merchant!Next \/ UNCHANGED Merchant!vars
<1>1. /\ shop'.status = (IF kind[r] = "delete" THEN "gone" ELSE shop.status)
      /\ shop'.linked = (IF kind[r] = "delete" THEN "no" ELSE shop.linked)
      /\ pc' = [pc EXCEPT ![r] = "done"] /\ UNCHANGED <<kind, item, ent>> /\ pc[r] = "delete"
  BY DEF Remove, Wrote
<1>2. CASE kind[r] = "delete"
  <2>1. Stage(r) = "remove"
    BY <1>1, <1>2 DEF Stage
  <2>2. Merchant!Remove(r)
    BY <1>1, <1>2, <2>1, SeenEnd DEF Merchant!Remove
  <2> QED
    BY <2>2 DEF Merchant!Next
<1>3. CASE kind[r] # "delete"
  BY <1>1, <1>3, SeenNothing
<1> QED
  BY <1>2, <1>3

\* One step per action: a step of CatalogLimits, or none there.
LEMMA SeenStep == SeenInv /\ [Next]_vars => [Merchant!Next]_(Merchant!vars)
<1> SUFFICES ASSUME SeenInv, [Next]_vars PROVE Merchant!Next \/ UNCHANGED Merchant!vars
  OBVIOUS
<1>t. /\ shop \in Shop /\ pc \in [Reqs -> Label]
      /\ shop.status = "gone" => Present(shop) = {}
  BY DEF SeenInv, StagesInv, TypeOK
<1>1. ASSUME NEW r \in Reqs,
             GetPublicCatalog(r) \/ UpdateCatalog(r) \/ ArchiveCatalog(r)
             \/ AssignCatalogToCommerce(r) \/ DeleteCatalog(r)
      PROVE  Merchant!Next
  <2>1. CASE GetPublicCatalog(r)
    BY <2>1, SeenLoad DEF GetPublicCatalog, Visible
  <2>2. CASE UpdateCatalog(r)
    <3>1. PICK st \in CatalogStatus : Begin(r, "update", {}, Updated(st), "select")
      BY <2>2 DEF UpdateCatalog
    <3>2. Updated(st).linked = shop.linked
      BY <1>t DEF Updated, Shop
    <3> QED
      BY <2>2, <3>1, <3>2, SeenLoad DEF UpdateCatalog
  <2>3. CASE ArchiveCatalog(r)
    <3>1. [shop EXCEPT !.status = "archived"].linked = shop.linked
      BY <1>t DEF Shop
    <3> QED
      BY <2>3, <3>1, SeenLoad DEF ArchiveCatalog
  <2>4. CASE AssignCatalogToCommerce(r)
    <3>1. [shop EXCEPT !.linked = "yes"].linked = "yes"
      BY <1>t DEF Shop
    <3> QED
      BY <2>4, <3>1, SeenLoad DEF AssignCatalogToCommerce
  <2>5. CASE DeleteCatalog(r)
    BY <2>5, SeenLoad DEF DeleteCatalog
  <2> QED
    BY <1>1, <2>1, <2>2, <2>3, <2>4, <2>5
<1>2. ASSUME NEW r \in Reqs,
             Refuse(r) \/ AddItem(r) \/ GetItemById(r) \/ UpdateItem(r) \/ DeleteItem(r)
      PROVE  UNCHANGED Merchant!vars
  <2>1. {"refused", "insert", "select", "delete"} \subseteq Label
    BY DEF Label
  <2> QED
    BY <1>2, <2>1, SeenOther DEF Refuse, AddItem, GetItemById, UpdateItem, DeleteItem
<1>3. ASSUME NEW r \in Reqs, InsertItem(r)
      PROVE  Merchant!Next \/ UNCHANGED Merchant!vars
  <2>1. shop'.status = shop.status /\ shop'.linked = shop.linked
    BY <1>3, <1>t DEF InsertItem, Wrote, Shop
  <2>2. pc' = [pc EXCEPT ![r] = "done"] /\ UNCHANGED <<kind, item, ent>>
    BY <1>3 DEF InsertItem, Wrote
  <2> QED
    BY <2>1, <2>2, SeenNothing
<1>4. ASSUME NEW r \in Reqs, SaveSelect(r)
      PROVE  UNCHANGED Merchant!vars
  <2>1. \A q \in Reqs : Stage(q)' = Stage(q) /\ LoadsCatalog(q)' = LoadsCatalog(q)
    BY <1>4, <1>t DEF SaveSelect, Stage, LoadsCatalog, OfCatalog
  <2> QED
    BY <1>4, <2>1 DEF SaveSelect, Merchant!vars
<1>5. ASSUME NEW r \in Reqs, Reject(r)
      PROVE  Merchant!Next \/ UNCHANGED Merchant!vars
  BY <1>5, SeenNothing DEF Reject
<1>6. CASE UNCHANGED vars
  BY <1>6 DEF vars, Merchant!vars, Stage, LoadsCatalog, OfCatalog
<1> QED
  BY <1>1, <1>2, <1>3, <1>4, <1>5, <1>6, SeenSave, SeenRemove DEF Next

\* ImplementsLimits holds: every behaviour of the requests on a catalog and its
\* items is, of the merchant's catalogs, one of CatalogLimits.
THEOREM ImplementsCounting == Spec => ImplementsLimits
<1>1. Spec => Merchant!Init /\ [][Merchant!Next]_(Merchant!vars)
  BY SeenInit, SeenHolds, SeenStep, PTL DEF Spec
<1> QED
  BY <1>1 DEF ImplementsLimits, Merchant!Spec

-----------------------------------------------------------------------------
(* How many catalogs a merchant has.                                       *)

\* CatalogLimits, of any merchant: the requests are those above, the rest of its
\* constants and its variables are its own.
CONSTANTS Cats, Commerces, NoCommerce, Plans
VARIABLES catalogs, place, limit, stage, cat, where, allowed

Any == INSTANCE CatalogLimits WITH Own <- NoCommerce, Limits <- Plans, pc <- stage

\* CatalogLimits' assumptions on its constants.
Given ==
    /\ IsFiniteSet(Reqs) /\ Reqs # {}
    /\ IsFiniteSet(Commerces) /\ NoCommerce \notin Commerces
    /\ IsFiniteSet(Plans) /\ Plans \subseteq Nat \cup {-1} /\ Plans # {}

Limited == Given /\ -1 \notin Plans

\* Its finite sets and their cardinalities are those of FiniteSets.
LEMMA SameSets ==
    /\ \A S : Any!IsFiniteSet(S) <=> IsFiniteSet(S)
    /\ \A S : Any!Cardinality(S) = Cardinality(S)
BY DEF Any!IsFiniteSet, IsFiniteSet, Any!Cardinality, Cardinality

\* A finite set of integers that is not empty has a greatest element.
LEMMA FiniteMax ==
    ASSUME NEW S, IsFiniteSet(S), S \subseteq Int, S # {}
    PROVE  \E x \in S : \A y \in S : y <= x
<1> DEFINE Bad == {U \in SUBSET S : U # {} /\ ~ \E x \in U : \A y \in U : y <= x}
           R == StrictSubsetOrdering(S)
<1>1. SUFFICES ASSUME Bad # {} PROVE FALSE
    BY <1>1
<1>2. IsWellFoundedOn(R, SUBSET S)
    BY FS_StrictSubsetOrderingWellFounded, FS_FiniteSubsetsOfFinite
<1>3. PICK U \in Bad : \A V \in Bad : <<V, U>> \notin R
  <2> HIDE DEF R
  <2>1. Bad \subseteq SUBSET S
      OBVIOUS
  <2> HIDE DEF Bad
  <2> QED
      BY <1>1, <1>2, <2>1, WFMin
<1>4. PICK x \in U : TRUE
    BY <1>3
<1>5. U \ {x} \notin Bad
    BY <1>3, <1>4 DEF StrictSubsetOrdering
<1>6. CASE U \ {x} = {}
    BY <1>3, <1>4, <1>6
<1>7. CASE U \ {x} # {}
  <2>1. PICK m \in U \ {x} : \A y \in U \ {x} : y <= m
      BY <1>3, <1>5, <1>7
  <2>2. CASE x <= m
      BY <1>3, <2>1, <2>2
  <2>3. CASE ~(x <= m)
      BY <1>3, <1>4, <2>1, <2>3
  <2> QED
      BY <2>2, <2>3
<1> QED
    BY <1>6, <1>7

\* A finite set of which at most k elements are mapped to each element of P has at
\* most k times as many elements as P.
LEMMA FibersBound ==
    ASSUME NEW S, IsFiniteSet(S), NEW P, IsFiniteSet(P), NEW b \in [S -> P], NEW k \in Nat,
           \A p \in P : Cardinality({c \in S : b[c] = p}) <= k
    PROVE  Cardinality(S) <= Cardinality(P) * k
<1> DEFINE F(p) == {c \in S : b[c] = p}
           N(p) == Cardinality(F(p))
           g == [p \in P |-> CHOOSE f : f \in Bijection(1 .. N(p), F(p))]
           num(c) == CHOOSE i \in 1 .. N(b[c]) : g[b[c]][i] = c
           h == [c \in S |-> <<b[c], num(c)>>]
<1>1. ASSUME NEW p \in P
      PROVE  N(p) \in Nat /\ N(p) <= k /\ g[p] \in Bijection(1 .. N(p), F(p))
  <2>1. IsFiniteSet(F(p))
      BY FS_Subset
  <2>2. N(p) \in Nat /\ ExistsBijection(1 .. N(p), F(p))
      BY <2>1, FS_CardinalityType
  <2> QED
      BY <2>2 DEF ExistsBijection
<1>2. ASSUME NEW c \in S
      PROVE  num(c) \in 1 .. N(b[c]) /\ g[b[c]][num(c)] = c
  <2>1. g[b[c]] \in Bijection(1 .. N(b[c]), F(b[c])) /\ c \in F(b[c])
      BY <1>1
  <2>2. \E i \in 1 .. N(b[c]) : g[b[c]][i] = c
      BY <2>1 DEF Bijection, Surjection
  <2> HIDE DEF g, N
  <2> QED
      BY <2>2
<1> HIDE DEF num
<1>3. h \in Injection(S, P \X (1 .. k))
  <2>1. ASSUME NEW c \in S
        PROVE  b[c] \in P /\ num(c) \in 1 .. k
    <3> HIDE DEF F, N, g
    <3>1. b[c] \in P /\ N(b[c]) \in Nat /\ N(b[c]) <= k /\ num(c) \in 1 .. N(b[c])
        BY <1>1, <1>2
    <3> QED
        BY <3>1
  <2>2. ASSUME NEW c \in S, NEW d \in S, h[c] = h[d]
        PROVE  c = d
      BY <1>2, <2>2
  <2> QED
      BY <2>1, <2>2 DEF Injection, IsInjective
<1> HIDE DEF h
<1>4. IsFiniteSet(1 .. k) /\ Cardinality(1 .. k) = k
    BY FS_Interval
<1>5. IsFiniteSet(P \X (1 .. k)) /\ Cardinality(P \X (1 .. k)) = Cardinality(P) * k
    BY <1>4, FS_Product
<1> QED
    BY <1>3, <1>5, FS_Injection

\* Where a request holds a catalog.
Holding == {"insert", "save", "link", "remove"}
Most == Any!Largest + Cardinality(Reqs) - 1
\* The catalogs, there or held, that were made for p.
BornAt(b, p) == {c \in catalogs \cup Any!Held : b[c] = p}

\* b[c] is the place that the creation of catalog c was made for.  A catalog that
\* was made for a commerce stays there: only one without a commerce is linked, and
\* who saves it late writes that commerce back.
Stays(b) ==
    /\ \A c \in catalogs : b[c] \in Commerces => place[c] = b[c]
    /\ \A r \in Reqs : stage[r] \in Holding /\ b[cat[r]] \in Commerces => where[r] = b[cat[r]]
Born(b) == Stays(b) /\ \A p \in Any!Places : Cardinality(BornAt(b, p)) <= Most

BoundInv ==
    /\ Any!TypeOK /\ IsFiniteSet(catalogs)
    /\ \E b \in [Cats -> Any!Places] : Born(b)

\* There is a largest limit ...
LEMMA LargestIs == Limited => Any!Largest \in Plans /\ \A m \in Plans : m <= Any!Largest
<1> SUFFICES ASSUME Limited PROVE Any!Largest \in Plans /\ \A m \in Plans : m <= Any!Largest
    OBVIOUS
<1>1. \E l \in Plans : \A m \in Plans : m <= l
  <2>1. IsFiniteSet(Plans) /\ Plans \subseteq Int /\ Plans # {}
      BY DEF Limited, Given
  <2> QED
      BY <2>1, FiniteMax
<1> QED
    BY <1>1 DEF Any!Largest

\* ... so that the bound on one place's catalogs is a number.
LEMMA MostNat == Limited => Any!Largest \in Nat /\ Cardinality(Reqs) \in Nat \ {0} /\ Most \in Nat
<1> SUFFICES ASSUME Limited
             PROVE  Any!Largest \in Nat /\ Cardinality(Reqs) \in Nat \ {0} /\ Most \in Nat
    OBVIOUS
<1>1. Cardinality(Reqs) \in Nat \ {0}
    BY FS_CardinalityType, FS_EmptySet DEF Limited, Given
<1>2. Any!Largest \in Nat
    BY LargestIs DEF Limited, Given
<1> QED
    BY <1>1, <1>2 DEF Most

\* The catalogs that requests of a set hold are not more than these.
LEMMA FewHeld ==
    ASSUME Given, Any!TypeOK, NEW Q \in SUBSET Reqs
    PROVE  /\ IsFiniteSet({cat[q] : q \in Q})
           /\ Cardinality({cat[q] : q \in Q}) <= Cardinality(Q)
<1> DEFINE f == [q \in Q |-> cat[q]]
           T == {cat[q] : q \in Q}
<1>1. f \in Surjection(Q, T)
    BY DEF Surjection
<1>2. IsFiniteSet(Q)
    BY FS_Subset DEF Given
<1> QED
    BY <1>1, <1>2, FS_Surjection

\* So all that requests hold are finitely many.
LEMMA HeldFinite == Given /\ Any!TypeOK => IsFiniteSet(Any!Held)
BY FewHeld DEF Any!Held

\* The catalogs from before are within the plan.
LEMMA InitBound == Limited /\ Any!Init => BoundInv
<1> SUFFICES ASSUME Limited, Any!Init PROVE BoundInv
    OBVIOUS
<1>1. Any!TypeOK
    BY DEF Any!Init, Any!TypeOK, Any!Places, Any!Label
<1>2. Any!Held = {} /\ IsFiniteSet(catalogs)
    BY SameSets DEF Any!Init, Any!Held
<1>3. PICK b \in [Cats -> Any!Places] : b = place
    BY <1>1 DEF Any!TypeOK
<1>4. Stays(b)
    BY <1>3 DEF Stays, Any!Init, Holding
<1>5. ASSUME NEW p \in Any!Places
      PROVE  Cardinality(BornAt(b, p)) <= Most
  <2> DEFINE C == {c \in catalogs : place[c] = p}
  <2>1. BornAt(b, p) = C
      BY <1>2, <1>3 DEF BornAt
  <2>2. Cardinality(C) <= limit /\ limit \in Nat /\ limit <= Any!Largest
      BY LargestIs, SameSets DEF Any!Init, Limited, Given
  <2>3. IsFiniteSet(C) /\ Cardinality(C) \in Nat
      BY <1>2, FS_Subset, FS_CardinalityType
  <2> HIDE DEF C
  <2> QED
      BY <2>1, <2>2, <2>3, MostNat DEF Most
<1> QED
    BY <1>1, <1>2, <1>3, <1>4, <1>5 DEF BoundInv, Born

\* A step after which nobody holds or has a catalog that was not there or held
\* before, adds nothing to any place.
LEMMA NothingBorn ==
    ASSUME Limited, Any!TypeOK, Any!TypeOK', IsFiniteSet(catalogs), NEW b \in [Cats -> Any!Places],
           Born(b), Stays(b)', catalogs' \cup Any!Held' \subseteq catalogs \cup Any!Held
    PROVE  BoundInv'
<1>1. IsFiniteSet(catalogs \cup Any!Held)
    BY HeldFinite, FS_Union DEF Limited
<1>2. IsFiniteSet(catalogs')
    BY <1>1, FS_Subset
<1>3. ASSUME NEW p \in Any!Places
      PROVE  Cardinality(BornAt(b, p)') <= Most
  <2> DEFINE A == {c \in catalogs' \cup Any!Held' : b[c] = p}
             B == {c \in catalogs \cup Any!Held : b[c] = p}
  <2>1. IsFiniteSet(B) /\ Cardinality(B) \in Nat
      BY <1>1, FS_Subset, FS_CardinalityType
  <2>2. IsFiniteSet(A) /\ Cardinality(A) <= Cardinality(B) /\ Cardinality(A) \in Nat
    <3>1. A \subseteq B
        OBVIOUS
    <3> HIDE DEF A, B
    <3> QED
        BY <2>1, <3>1, FS_Subset, FS_CardinalityType
  <2>3. Cardinality(B) <= Most
      BY DEF Born, BornAt
  <2>4. BornAt(b, p)' = A
      BY DEF BornAt
  <2> HIDE DEF A, B
  <2>5. Cardinality(A) <= Most
      BY <2>1, <2>2, <2>3, MostNat
  <2> QED
      BY <2>4, <2>5
<1>4. Born(b)'
    BY <1>3 DEF Born, Most
<1> QED
    BY <1>2, <1>4 DEF BoundInv

\* A creation that has counted the catalogs adds one to those of its place: they
\* were fewer than its limit, and the other requests hold one each at most.
LEMMA OneBorn ==
    ASSUME Limited, Any!TypeOK, IsFiniteSet(catalogs), NEW b \in [Cats -> Any!Places], Born(b),
           NEW r \in Reqs, Any!CanCreateCatalog(r),
           NEW x \in Cats, x = cat'[r], NEW w \in Any!Places, w = where[r],
           NEW d \in [Cats -> Any!Places], d = [b EXCEPT ![x] = w]
    PROVE  Born(d)'
<1>1. /\ x \in Cats \ (catalogs \cup Any!Held) /\ w \in Any!Places
      /\ cat' = [cat EXCEPT ![r] = x] /\ stage' = [stage EXCEPT ![r] = "insert"] /\ stage[r] = "count"
      /\ UNCHANGED <<catalogs, place, where>>
    BY DEF Any!CanCreateCatalog, Any!TypeOK
<1>2. d \in [Cats -> Any!Places] /\ d[x] = w /\ \A c \in Cats \ {x} : d[c] = b[c]
    BY <1>1
<1> DEFINE Other == {q \in Reqs \ {r} : stage[q] \in Holding}
<1>3. /\ Any!Held = {cat[q] : q \in Other}
      /\ Any!Held' = {cat[q] : q \in Other} \cup {x}
    BY <1>1 DEF Any!Held, Holding, Any!TypeOK
<1>4. Stays(d)'
    BY <1>1, <1>2, <1>3 DEF Born, Stays, Any!TypeOK, Holding
<1> HIDE DEF Other
<1>5. ASSUME NEW p \in Any!Places, p # w
      PROVE  Cardinality(BornAt(d, p)') <= Most
  <2>1. BornAt(d, p)' = BornAt(b, p)
      BY <1>1, <1>2, <1>3, <1>5 DEF BornAt, Any!TypeOK, Any!Held
  <2> QED
      BY <2>1 DEF Born
<1>6. Cardinality(BornAt(d, w)') <= Most
  <2> DEFINE C == {c \in catalogs : b[c] = w}
             H == {cat[q] : q \in Other}
             N == {c \in catalogs' \cup Any!Held' : d[c] = w}
  <2>1. IsFiniteSet(C) /\ Cardinality(C) \in Nat /\ Cardinality(C) + 1 <= Any!Largest
    <3>1. IsFiniteSet(Any!Counted(w)) /\ C \subseteq Any!Counted(w)
        BY <1>1, FS_Subset DEF Any!Counted, Born, Stays, Any!Places
    <3>2. Cardinality(Any!Counted(w)) < allowed[r] /\ allowed[r] \in Plans
      <4>1. allowed[r] \in Plans /\ allowed[r] # -1
          BY DEF Any!TypeOK, Limited
      <4>2. Any!Cardinality(Any!Counted(where[r])) < allowed[r]
          BY <4>1 DEF Any!CanCreateCatalog, Any!MayCreate
      <4> QED
          BY <4>1, <4>2, SameSets
    <3> HIDE DEF C
    <3>3. /\ IsFiniteSet(C) /\ Cardinality(C) \in Nat /\ Cardinality(C) <= Cardinality(Any!Counted(w))
          /\ Cardinality(Any!Counted(w)) \in Nat
        BY <3>1, FS_Subset, FS_CardinalityType
    <3>4. allowed[r] \in Nat /\ allowed[r] <= Any!Largest
        BY <3>2, LargestIs DEF Limited, Given
    <3> QED
        BY <3>2, <3>3, <3>4, MostNat
  <2>2. IsFiniteSet(H) /\ Cardinality(H) \in Nat /\ Cardinality(H) <= Cardinality(Reqs) - 1
    <3>1. Other \subseteq Reqs \ {r}
        BY DEF Other
    <3>2. IsFiniteSet(Reqs \ {r}) /\ Cardinality(Reqs \ {r}) = Cardinality(Reqs) - 1
        BY FS_RemoveElement DEF Limited, Given
    <3>3. IsFiniteSet(Other) /\ Cardinality(Other) <= Cardinality(Reqs) - 1
          /\ Cardinality(Other) \in Nat
        BY <3>1, <3>2, FS_Subset, FS_CardinalityType
    <3>4. IsFiniteSet(H) /\ Cardinality(H) <= Cardinality(Other)
        BY <3>1, FewHeld DEF Limited
    <3> HIDE DEF H
    <3> QED
        BY <3>3, <3>4, FS_CardinalityType, MostNat
  <2>3. N \subseteq (C \cup H) \cup {x}
      BY <1>1, <1>2, <1>3 DEF Any!TypeOK
  <2>4. BornAt(d, w)' = N
      BY DEF BornAt
  <2> HIDE DEF C, H, N
  <2>5. IsFiniteSet(C \cup H) /\ Cardinality(C \cup H) <= Cardinality(C) + Cardinality(H)
        /\ Cardinality(C \cup H) \in Nat
    <3>1. /\ IsFiniteSet(C \cup H)
          /\ Cardinality(C \cup H) = Cardinality(C) + Cardinality(H) - Cardinality(C \cap H)
        BY <2>1, <2>2, FS_Union
    <3>2. Cardinality(C \cap H) \in Nat /\ Cardinality(C \cup H) \in Nat
        BY <2>1, <3>1, FS_Intersection, FS_CardinalityType
    <3> QED
        BY <2>1, <2>2, <3>1, <3>2
  <2>6. IsFiniteSet((C \cup H) \cup {x}) /\ Cardinality((C \cup H) \cup {x}) <= Cardinality(C \cup H) + 1
        /\ Cardinality((C \cup H) \cup {x}) \in Nat
    <3> DEFINE D == C \cup H
    <3>1. IsFiniteSet(D) /\ Cardinality(D) \in Nat
        BY <2>5
    <3> HIDE DEF D
    <3>2. /\ IsFiniteSet(D \cup {x})
          /\ Cardinality(D \cup {x}) = IF x \in D THEN Cardinality(D) ELSE Cardinality(D) + 1
        BY <3>1, FS_AddElement
    <3>3. IsFiniteSet(D \cup {x}) /\ Cardinality(D \cup {x}) <= Cardinality(D) + 1
          /\ Cardinality(D \cup {x}) \in Nat
        BY <3>1, <3>2
    <3> QED
        BY <3>3 DEF D
  <2>7. Cardinality(N) <= Cardinality((C \cup H) \cup {x}) /\ Cardinality(N) \in Nat
      BY <2>3, <2>6, FS_Subset, FS_CardinalityType
  <2> QED
      BY <2>1, <2>2, <2>4, <2>5, <2>6, <2>7, MostNat DEF Most
<1>7. Born(d)'
  <2>1. \A p \in Any!Places : Cardinality(BornAt(d, p)') <= Most
      BY <1>5, <1>6
  <2> QED
      BY <1>4, <2>1 DEF Born, Most
<1> QED
    BY <1>7

\* Every variable of CatalogLimits stays in its range.
LEMMA TypeStep == Any!TypeOK /\ [Any!Next]_(Any!vars) => Any!TypeOK'
<1> SUFFICES ASSUME Any!TypeOK, [Any!Next]_(Any!vars) PROVE Any!TypeOK'
    OBVIOUS
<1> USE DEF Any!TypeOK
<1>1. ASSUME NEW r \in Reqs, Any!GetPlanLimits(r) PROVE Any!TypeOK'
    BY <1>1 DEF Any!GetPlanLimits, Any!Label
<1>2. ASSUME NEW r \in Reqs, Any!CanCreateCatalog(r) PROVE Any!TypeOK'
    BY <1>2 DEF Any!CanCreateCatalog, Any!Label
<1>3. ASSUME NEW r \in Reqs, Any!Refuse(r) PROVE Any!TypeOK'
    BY <1>3 DEF Any!Refuse, Any!Label
<1>4. ASSUME NEW r \in Reqs, Any!InsertCatalog(r) PROVE Any!TypeOK'
    BY <1>4 DEF Any!InsertCatalog, Any!Label
<1>5. ASSUME NEW r \in Reqs, NEW c \in catalogs, NEW p \in Any!Places, NEW l \in {"save", "link", "remove"},
             Any!Load(r, c, p, l)
      PROVE Any!TypeOK'
    BY <1>5 DEF Any!Load, Any!Label
<1>6. ASSUME NEW r \in Reqs, Any!Save(r) PROVE Any!TypeOK'
    BY <1>6 DEF Any!Save, Any!Label
<1>7. ASSUME NEW r \in Reqs, Any!Remove(r) PROVE Any!TypeOK'
    BY <1>7 DEF Any!Remove, Any!Label, Any!Places
<1>8. CASE Any!ChangePlan
    BY <1>8 DEF Any!ChangePlan
<1>9. CASE UNCHANGED Any!vars
    BY <1>9 DEF Any!vars
<1>10. \A c \in catalogs : place[c] \in Any!Places /\ \A p \in Commerces : p \in Any!Places
    BY DEF Any!Places
<1> QED
    BY <1>1, <1>2, <1>3, <1>4, <1>5, <1>6, <1>7, <1>8, <1>9, <1>10
    DEF Any!Next, Any!LoadCatalog, Any!AssignCatalogToCommerce, Any!DeleteCatalog

\* One step per action: only a creation makes a catalog.
LEMMA StepBound == Limited /\ BoundInv /\ [Any!Next]_(Any!vars) => BoundInv'
<1> SUFFICES ASSUME Limited, BoundInv, [Any!Next]_(Any!vars) PROVE BoundInv'
    OBVIOUS
<1>0. Any!TypeOK /\ IsFiniteSet(catalogs) /\ Any!TypeOK'
    BY TypeStep DEF BoundInv
<1>b. PICK b \in [Cats -> Any!Places] : Born(b)
    BY DEF BoundInv
<1>k. ASSUME Stays(b)', catalogs' \cup Any!Held' \subseteq catalogs \cup Any!Held PROVE BoundInv'
    BY <1>0, <1>b, <1>k, NothingBorn
<1>s. Stays(b)
    BY <1>b DEF Born
<1> USE DEF Any!TypeOK, Holding
<1>1. ASSUME NEW r \in Reqs, Any!GetPlanLimits(r) \/ Any!Refuse(r)
      PROVE  BoundInv'
  <2>1. Stays(b)'
      BY <1>1, <1>0, <1>s DEF Any!GetPlanLimits, Any!Refuse, Stays
  <2>2. catalogs' \cup Any!Held' \subseteq catalogs \cup Any!Held
      BY <1>1, <1>0 DEF Any!GetPlanLimits, Any!Refuse, Any!Held
  <2> QED
      BY <1>k, <2>1, <2>2
<1>2. ASSUME NEW r \in Reqs, Any!CanCreateCatalog(r)
      PROVE  BoundInv'
  <2>1. PICK x \in Cats : x = cat'[r]
      BY <1>0
  <2>2. PICK w \in Any!Places : w = where[r]
      BY <1>0
  <2>3. PICK d \in [Cats -> Any!Places] : d = [b EXCEPT ![x] = w]
      OBVIOUS
  <2>4. Born(d)'
      BY <1>0, <1>b, <1>2, <2>1, <2>2, <2>3, OneBorn
  <2>5. IsFiniteSet(catalogs')
      BY <1>0, <1>2 DEF Any!CanCreateCatalog
  <2> QED
      BY <1>0, <2>4, <2>5 DEF BoundInv
<1>3. ASSUME NEW r \in Reqs, Any!InsertCatalog(r) \/ Any!Save(r)
      PROVE  BoundInv'
  <2>1. Stays(b)'
      BY <1>3, <1>0, <1>s DEF Any!InsertCatalog, Any!Save, Stays
  <2>2. catalogs' \cup Any!Held' \subseteq catalogs \cup Any!Held
      BY <1>3, <1>0 DEF Any!InsertCatalog, Any!Save, Any!Held
  <2> QED
      BY <1>k, <2>1, <2>2
<1>4. ASSUME NEW r \in Reqs, NEW c \in catalogs, NEW p \in Any!Places, NEW l \in {"save", "link", "remove"},
             Any!Load(r, c, p, l), p = place[c] \/ place[c] = NoCommerce
      PROVE  BoundInv'
  <2>1. Stays(b)'
      BY <1>4, <1>0, <1>s DEF Any!Load, Stays, Limited, Given
  <2>2. catalogs' \cup Any!Held' \subseteq catalogs \cup Any!Held
      BY <1>4, <1>0 DEF Any!Load, Any!Held
  <2> QED
      BY <1>k, <2>1, <2>2
<1>5. ASSUME NEW r \in Reqs, Any!Remove(r)
      PROVE  BoundInv'
  <2>1. Stays(b)'
      BY <1>5, <1>0, <1>s DEF Any!Remove, Stays
  <2>2. catalogs' \cup Any!Held' \subseteq catalogs \cup Any!Held
      BY <1>5, <1>0 DEF Any!Remove, Any!Held
  <2> QED
      BY <1>k, <2>1, <2>2
<1>6. CASE Any!ChangePlan \/ UNCHANGED Any!vars
  <2>1. Stays(b)'
      BY <1>6, <1>s DEF Any!ChangePlan, Any!vars, Stays
  <2>2. catalogs' \cup Any!Held' \subseteq catalogs \cup Any!Held
      BY <1>6 DEF Any!ChangePlan, Any!vars, Any!Held
  <2> QED
      BY <1>k, <2>1, <2>2
<1>7. \A c \in catalogs : place[c] \in Any!Places /\ \A p \in Commerces : p \in Any!Places
    BY <1>0 DEF Any!Places
<1> QED
    BY <1>1, <1>2, <1>3, <1>4, <1>5, <1>6, <1>7
    DEF Any!Next, Any!LoadCatalog, Any!AssignCatalogToCommerce, Any!DeleteCatalog

\* The places together have as many catalogs as each, times their number.
LEMMA BoundInvBounds == Limited /\ BoundInv => Any!Bounded
<1> SUFFICES ASSUME Limited, BoundInv
             PROVE  Cardinality(catalogs) <= (Cardinality(Commerces) + 1) * Most
    BY SameSets DEF Any!Bounded, Most
<1>1. PICK b \in [Cats -> Any!Places] : Born(b)
    BY DEF BoundInv
<1> DEFINE d == [c \in catalogs |-> b[c]]
<1>2. d \in [catalogs -> Any!Places] /\ IsFiniteSet(catalogs)
    BY DEF BoundInv, Any!TypeOK
<1>3. IsFiniteSet(Any!Places) /\ Cardinality(Any!Places) = Cardinality(Commerces) + 1
    BY FS_AddElement DEF Any!Places, Limited, Given
<1>4. ASSUME NEW p \in Any!Places
      PROVE  Cardinality({c \in catalogs : d[c] = p}) <= Most
  <2> DEFINE A == {c \in catalogs : d[c] = p}
  <2>1. A \subseteq BornAt(b, p)
      BY DEF BornAt
  <2>2. IsFiniteSet(catalogs \cup Any!Held)
      BY HeldFinite, FS_Union DEF BoundInv, Limited
  <2>3. IsFiniteSet(BornAt(b, p))
      BY <2>2, FS_Subset DEF BornAt
  <2>4. Cardinality(BornAt(b, p)) <= Most
      BY <1>1 DEF Born
  <2> HIDE DEF A
  <2>5. Cardinality(A) <= Cardinality(BornAt(b, p))
        /\ Cardinality(A) \in Nat /\ Cardinality(BornAt(b, p)) \in Nat
      BY <2>1, <2>3, FS_Subset, FS_CardinalityType
  <2>6. Cardinality(A) <= Most
      BY <2>4, <2>5, MostNat
  <2> QED
      BY <2>6 DEF A
<1> HIDE DEF d
<1> QED
    BY <1>2, <1>3, <1>4, MostNat, FibersBound

\* Bounded always holds, of any number of requests, commerces and plans: a creation
\* adds to the catalogs that were made for its place only after it has found fewer
\* of them than its limit, and nothing else adds to them.
THEOREM CountBounded == Given => (Any!Spec => []Any!Bounded)
<1> SUFFICES ASSUME Given PROVE Any!Spec => []Any!Bounded
    OBVIOUS
<1>1. CASE -1 \in Plans
  <2>1. Any!Bounded
      BY <1>1 DEF Any!Bounded
  <2> QED
      BY <2>1, PTL
<1>2. CASE -1 \notin Plans
  <2>1. Any!Init => BoundInv
      BY <1>2, InitBound DEF Limited
  <2>2. BoundInv /\ [Any!Next]_(Any!vars) => BoundInv'
      BY <1>2, StepBound DEF Limited
  <2>3. BoundInv => Any!Bounded
      BY <1>2, BoundInvBounds DEF Limited
  <2> QED
      BY <2>1, <2>2, <2>3, PTL DEF Any!Spec
<1> QED
    BY <1>1, <1>2
=============================================================================
