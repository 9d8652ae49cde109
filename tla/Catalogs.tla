------------------------------ MODULE Catalogs ------------------------------
(***************************************************************************)
(* One catalog with its items: the requests of its owner that change it,   *)
(* and the public requests that show it and count the visit.               *)
(*                                                                         *)
(* A handler loads the catalog or an item, changes the entity and saves    *)
(* it.  save() is a SELECT of what the entity holds, and a transaction     *)
(* that writes the columns in which the entity differs from that SELECT,   *)
(* inserts what the SELECT did not find, and sets catalogId to NULL, which *)
(* the column forbids, in the items that the SELECT found and the entity   *)
(* does not have.  A catalog that is shown is saved with all its items.    *)
(*                                                                         *)
(* A handler that stops between two awaits takes no further step.          *)
(***************************************************************************)
EXTENDS Integers, FiniteSets

CONSTANTS
    Reqs,        \* requests, one operation each
    Items,       \* ids of items
    MaxPrice,    \* prices are 1 .. MaxPrice; 0 where there is no item
    Capacity,    \* catalog.capacity, copied from the plan when it was created
    PlanAllows   \* canCreateCatalogItem, whose count of the items is always 0

Price == 0 .. MaxPrice
CatalogStatus == {"draft", "active", "inactive", "archived"}
Shop == [status : CatalogStatus \cup {"gone"}, linked : {"no", "yes"}, price : [Items -> Price]]
Kind == {"none", "view", "update", "archive", "assign", "delete", "add", "show", "edit", "remove"}
Label == {"idle", "select", "write", "insert", "delete", "refused", "failed", "done"}

ASSUME ItemsAssumption == IsFiniteSet(Items)
ASSUME PriceAssumption == MaxPrice \in Nat \ {0}
ASSUME CapacityAssumption == Capacity \in Int
ASSUME PlanAssumption == PlanAllows \in BOOLEAN

VARIABLES
    shop,       \* the catalog's row (status "gone": none) and its items
    pc,         \* where a request awaits
    kind,       \* the operation it performs ...
    item,       \* ... and the items it is about
    ent,        \* what it has loaded and changed
    seen,       \* what the SELECT of its save() found
    overtaken   \* requests in flight when another one's write changed the shop

vars == <<shop, pc, kind, item, ent, seen, overtaken>>

Present(s) == {i \in Items : s.price[i] # 0}
Blank == [status |-> "gone", linked |-> "no", price |-> [i \in Items |-> 0]]
InFlight == {"select", "write", "insert", "delete"}

Init ==
    /\ shop \in [status : {"active"}, linked : {"no"}, price : [Items -> {0, 1}]]
    /\ Cardinality(Present(shop)) <= Capacity \/ Present(shop) = {}
    /\ pc = [r \in Reqs |-> "idle"]
    /\ kind = [r \in Reqs |-> "none"]
    /\ item = [r \in Reqs |-> {}]
    /\ ent = [r \in Reqs |-> Blank]
    /\ seen = [r \in Reqs |-> Blank]
    /\ overtaken = {}

\* Request r has loaded the shop and goes on as k, about the items S, with entity e.
Begin(r, k, S, e, label) ==
    /\ pc[r] = "idle"
    /\ pc' = [pc EXCEPT ![r] = label]
    /\ kind' = [kind EXCEPT ![r] = k]
    /\ item' = [item EXCEPT ![r] = S]
    /\ ent' = [ent EXCEPT ![r] = e]
    /\ UNCHANGED <<shop, seen, overtaken>>

-----------------------------------------------------------------------------
(* The catalog.                                                            *)

\* GET /catalogs/public/:slug and /public/id/:id: what is shown is saved.
Visible == shop.status = "active"
GetPublicCatalog(r) ==
    /\ Visible
    /\ Begin(r, "view", Items, shop, "select")

\* The slug may be another catalog's, the role may lack the permission.
Refuse(r) ==
    /\ Begin(r, "none", {}, Blank, "refused")

UpdatedMut(st) == [shop EXCEPT !.status = st, !.linked = "no"]  \* commerceId is lost
Updated(st) == [shop EXCEPT !.status = st]

\* The body of PUT /catalogs/:id may set the status, an archived catalog's too.
UpdateCatalog(r) ==
    /\ shop.status # "gone"
    /\ \E st \in CatalogStatus : Begin(r, "update", {}, Updated(st), "select")

ArchiveCatalog(r) ==
    /\ shop.status # "gone"
    /\ Begin(r, "archive", {}, [shop EXCEPT !.status = "archived"], "select")

AssignCatalogToCommerce(r) ==
    /\ shop.status # "gone" /\ shop.linked = "no"
    /\ Begin(r, "assign", {}, [shop EXCEPT !.linked = "yes"], "select")

DeleteCatalog(r) ==
    /\ shop.status # "gone"
    /\ Begin(r, "delete", Items, shop, "delete")

-----------------------------------------------------------------------------
(* Its items.                                                              *)

\* uuidv4(): an id that nothing has had.
Fresh(i) == /\ shop.price[i] = 0
            /\ \A r \in Reqs : i \notin item[r] /\ ent[r].price[i] = 0

HasRoomMut == Cardinality(Present(shop)) <= Capacity           \* off by one
HasRoom == Cardinality(Present(shop)) < Capacity

AddItem(r) ==
    /\ shop.status # "gone" /\ PlanAllows /\ HasRoom
    /\ \E i \in Items : Fresh(i) /\ Begin(r, "add", {i}, [shop EXCEPT !.price[i] = 1], "insert")

\* GET /catalogs/:id/items/:itemId counts the visit and saves the item.
GetItemById(r) ==
    \E i \in Present(shop) : Begin(r, "show", {i}, shop, "select")

UpdateItem(r) ==
    \E i \in Present(shop), p \in Price \ {0} :
      Begin(r, "edit", {i}, [shop EXCEPT !.price[i] = p], "select")

DeleteItem(r) ==
    \E i \in Present(shop) : Begin(r, "remove", {i}, shop, "delete")

-----------------------------------------------------------------------------
(* What TypeORM makes of it.                                               *)

Wrote(r, s) ==
    /\ shop' = s
    /\ pc' = [pc EXCEPT ![r] = "done"]
    /\ overtaken' = IF s = shop THEN overtaken
                    ELSE overtaken \cup {q \in Reqs \ {r} : pc[q] \in InFlight}

InsertItem(r) ==
    /\ pc[r] = "insert"
    /\ shop.status # "gone"
    /\ Wrote(r, [shop EXCEPT !.price = [i \in Items |-> IF i \in item[r] THEN 1 ELSE @[i]]])
    /\ UNCHANGED <<kind, item, ent, seen>>

\* remove(): the items of a catalog go with it.
Remove(r) ==
    /\ pc[r] = "delete"
    /\ Wrote(r, [status |-> IF kind[r] = "delete" THEN "gone" ELSE shop.status,
                 linked |-> IF kind[r] = "delete" THEN "no" ELSE shop.linked,
                 price |-> [i \in Items |-> IF i \in item[r] THEN 0 ELSE shop.price[i]]])
    /\ UNCHANGED <<kind, item, ent, seen>>

SaveSelect(r) ==
    /\ pc[r] = "select"
    /\ pc' = [pc EXCEPT ![r] = "write"]
    /\ seen' = [seen EXCEPT ![r] = shop]
    /\ UNCHANGED <<shop, kind, item, ent, overtaken>>

OfCatalog(r) == kind[r] \in {"view", "update", "archive", "assign"}
InsertsCatalog(r) == OfCatalog(r) /\ seen[r].status = "gone"
Inserts(r) == {i \in item[r] : ent[r].price[i] # 0 /\ seen[r].price[i] = 0}

\* The items whose catalogId it sets to NULL: they would be the catalog's no more.
Orphans(r) == IF kind[r] = "view" THEN Present(seen[r]) \ Present(ent[r]) ELSE {}

StatusAfter(r) ==
    IF InsertsCatalog(r) THEN ent[r].status
    ELSE IF shop.status = "gone" \/ ~OfCatalog(r) \/ ent[r].status = seen[r].status
    THEN shop.status ELSE ent[r].status

LinkAfter(r) ==
    IF InsertsCatalog(r) THEN ent[r].linked
    ELSE IF shop.status = "gone" \/ ~OfCatalog(r) \/ ent[r].linked = seen[r].linked
    THEN shop.linked ELSE ent[r].linked

PriceAfter(r, i) ==
    IF i \in Orphans(r) THEN 0
    ELSE IF i \in Inserts(r) THEN ent[r].price[i]
    ELSE IF i \notin item[r] \/ shop.price[i] = 0 \/ ent[r].price[i] \in {0, seen[r].price[i]}
    THEN shop.price[i] ELSE ent[r].price[i]

\* A key is already there, an item has no catalog, or a catalogId is NULL.
ClashesMut(r) ==                      \* no foreign key from items to catalogs
    \/ InsertsCatalog(r) /\ shop.status # "gone"
    \/ \E i \in Inserts(r) : shop.price[i] # 0
Clashes(r) ==
    \/ InsertsCatalog(r) /\ shop.status # "gone"
    \/ \E i \in Inserts(r) : shop.price[i] # 0 \/ StatusAfter(r) = "gone"
RejectedMut(r) == Clashes(r)          \* catalogId may be NULL
Rejected(r) == Clashes(r) \/ \E i \in Orphans(r) : shop.price[i] # 0

SaveWrite(r) ==
    /\ pc[r] = "write"
    /\ ~Rejected(r)
    /\ Wrote(r, [status |-> StatusAfter(r), linked |-> LinkAfter(r),
                 price |-> [i \in Items |-> PriceAfter(r, i)]])
    /\ UNCHANGED <<kind, item, ent, seen>>

Reject(r) ==
    /\ \/ pc[r] = "write" /\ Rejected(r)
       \/ pc[r] = "insert" /\ shop.status = "gone"
    /\ pc' = [pc EXCEPT ![r] = "failed"]
    /\ UNCHANGED <<shop, kind, item, ent, seen, overtaken>>

Next ==
    \E r \in Reqs :
      \/ GetPublicCatalog(r) \/ Refuse(r) \/ UpdateCatalog(r) \/ ArchiveCatalog(r)
      \/ AssignCatalogToCommerce(r) \/ DeleteCatalog(r)
      \/ AddItem(r) \/ GetItemById(r) \/ UpdateItem(r) \/ DeleteItem(r)
      \/ InsertItem(r) \/ Remove(r) \/ SaveSelect(r) \/ SaveWrite(r) \/ Reject(r)

Spec == Init /\ [][Next]_vars

-----------------------------------------------------------------------------
(* The catalog as CatalogLimits sees it.                                   *)

LoadsCatalog(r) == OfCatalog(r) \/ kind[r] = "delete"

\* Between its load of the catalog and its write.
Stage(r) ==
    IF pc[r] \in {"select", "write"} /\ OfCatalog(r)
    THEN IF kind[r] = "assign" THEN "link" ELSE "save"
    ELSE IF pc[r] = "delete" /\ kind[r] = "delete" THEN "remove"
    ELSE "idle"

\* A merchant with this catalog, whose commerce is called "yes".
Merchant == INSTANCE CatalogLimits WITH
    Cats <- {"catalog"}, Commerces <- {"yes"}, Own <- "no", Limits <- {-1},
    catalogs <- IF shop.status = "gone" THEN {} ELSE {"catalog"},
    place <- [c \in {"catalog"} |-> shop.linked],
    limit <- -1,
    pc <- [r \in Reqs |-> Stage(r)],
    cat <- [r \in Reqs |-> "catalog"],
    where <- [r \in Reqs |-> IF LoadsCatalog(r) THEN ent[r].linked ELSE "no"],
    allowed <- [r \in Reqs |-> -1]

-----------------------------------------------------------------------------
(* Properties.                                                             *)

\* Every variable stays in its range, and there are no items without the catalog.
TypeOK ==
    /\ shop \in Shop
    /\ shop.status = "gone" => Present(shop) = {}
    /\ pc \in [Reqs -> Label] /\ kind \in [Reqs -> Kind] /\ item \in [Reqs -> SUBSET Items]
    /\ ent \in [Reqs -> Shop] /\ seen \in [Reqs -> Shop]
    /\ overtaken \subseteq Reqs

\* The requests that have written on what was no longer so.
Late == {r \in overtaken : pc[r] = "done"}

\* As long as every request wrote on what it had loaded, the catalog has no more
\* items than its capacity, whatever is added, deleted and shown.
CapacityKept == Late = {} /\ Capacity >= 0 => Cardinality(Present(shop)) <= Capacity

\* However late a catalog that was shown is saved: an item is gone only by the
\* deletion of that item or of the catalog that somebody has asked for.
NoItemLost ==
    [][\A i \in Present(shop) \ Present(shop') :
         \E r \in Reqs : /\ pc[r] = "delete" /\ pc'[r] = "done"
                         /\ i \in item[r] /\ kind[r] \in {"delete", "remove"}]_vars

\* What a request is asked to change; it brings nothing back that is gone.
MayStatus(r) ==
    IF shop.status = "gone" THEN FALSE ELSE kind[r] \in {"update", "archive", "delete"}
MayLink(r) == kind[r] \in {"assign", "delete"}
MayItem(r, i) ==
    /\ i \in item[r]
    /\ kind[r] \in IF shop.price[i] = 0 THEN {"add"} ELSE {"edit", "remove", "delete"}

\* A request whose entity nobody has overtaken changes nothing but what it was
\* asked to change: a visit nothing at all, an update neither the commerce nor an
\* item, an item's edit no other item, and none revives what has been deleted.
OnlyOwnChanges ==
    [][\A r \in Reqs \ overtaken :
         pc[r] \in InFlight /\ pc'[r] = "done" =>
           /\ shop'.status # shop.status => MayStatus(r)
           /\ shop'.linked # shop.linked => MayLink(r)
           /\ \A i \in Items : shop'.price[i] # shop.price[i] => MayItem(r, i)]_vars

\* Whatever the save() of a loaded entity finds and writes, of a catalog and its
\* items: for the count of the merchant's catalogs it is a step of CatalogLimits. The
\* commerce that was loaded is written or none, the catalog comes back or stays
\* away, and requests about an item change neither.
ImplementsLimits == Merchant!Spec
=============================================================================
