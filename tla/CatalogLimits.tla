---------------------------- MODULE CatalogLimits ----------------------------
(***************************************************************************)
(* How many catalogs a merchant has, against the maxCatalogs of the plan.  *)
(*                                                                         *)
(* A catalog belongs to one of the merchant's commerces or to the merchant *)
(* alone.  A request in the name of a commerce counts the catalogs of that *)
(* commerce, one without counts all that the merchant owns; both count,    *)
(* and insert some awaits later, with nothing locked.  A catalog without a *)
(* commerce can be linked to one, which counts nothing.                    *)
(*                                                                         *)
(* The requests that save a catalog they loaded (Catalogs) enter with what *)
(* they do here: the commerce it had may be written back, and a catalog    *)
(* that was deleted meanwhile inserted again.                              *)
(***************************************************************************)
EXTENDS Integers, FiniteSets

CONSTANTS
    Reqs,        \* requests in flight at a time; each may be followed by others
    Cats,        \* ids of catalogs
    Commerces,   \* the merchant's commerces
    Own,         \* the place of a catalog without a commerce
    Limits       \* the values of maxCatalogs in the plans; -1 for no limit

Places == Commerces \cup {Own}
Label == {"idle", "count", "insert", "save", "link", "remove"}

ASSUME ReqsAssumption == IsFiniteSet(Reqs) /\ Reqs # {}
ASSUME CommercesAssumption == IsFiniteSet(Commerces) /\ Own \notin Commerces
ASSUME LimitsAssumption == IsFiniteSet(Limits) /\ Limits \subseteq Nat \cup {-1} /\ Limits # {}

VARIABLES
    catalogs,   \* the catalogs in the table
    place,      \* catalogs.commerceId; Own where there is no catalog
    limit,      \* maxCatalogs of the plan the merchant has now
    pc,         \* where a request awaits
    cat,        \* the catalog a request has loaded or is about to insert
    where,      \* its commerce, or the one the request is made for
    allowed     \* the limit a creation has read

vars == <<catalogs, place, limit, pc, cat, where, allowed>>

Held == {cat[r] : r \in {q \in Reqs : pc[q] \in {"insert", "save", "link", "remove"}}}

\* The merchant may have catalogs from before, within the plan.
Init ==
    /\ limit \in Limits
    /\ catalogs \in SUBSET Cats /\ IsFiniteSet(catalogs)
    /\ place \in [Cats -> Places] /\ \A c \in Cats \ catalogs : place[c] = Own
    /\ limit # -1 => \A p \in Places : Cardinality({c \in catalogs : place[c] = p}) <= limit
    /\ pc = [r \in Reqs |-> "idle"]
    /\ cat \in [Reqs -> Cats] /\ \A q, r \in Reqs : cat[q] = cat[r]
    /\ where = [r \in Reqs |-> Own]
    /\ allowed = [r \in Reqs |-> limit]

-----------------------------------------------------------------------------
(* Creation.                                                               *)

\* getTenantFilter: with a commerce its catalogs, without one all the owner's.
CountedMut(p) == {c \in catalogs : place[c] = p}    \* only those without a commerce
Counted(p) == IF p = Own THEN catalogs ELSE {c \in catalogs : place[c] = p}

\* The plan is read first, the catalogs are counted after another await.
GetPlanLimits(r) ==
    /\ pc[r] = "idle"
    /\ \E p \in Places : where' = [where EXCEPT ![r] = p]
    /\ allowed' = [allowed EXCEPT ![r] = limit]
    /\ pc' = [pc EXCEPT ![r] = "count"]
    /\ UNCHANGED <<catalogs, place, limit, cat>>

MayCreateMut(r) ==                               \* off by one
    allowed[r] = -1 \/ Cardinality(Counted(where[r])) <= allowed[r]
MayCreate(r) == allowed[r] = -1 \/ Cardinality(Counted(where[r])) < allowed[r]

CanCreateCatalog(r) ==
    /\ pc[r] = "count" /\ MayCreate(r)
    /\ \E c \in Cats \ (catalogs \cup Held) : cat' = [cat EXCEPT ![r] = c]   \* uuidv4()
    /\ pc' = [pc EXCEPT ![r] = "insert"]
    /\ UNCHANGED <<catalogs, place, limit, where, allowed>>

\* No catalog more for this plan, or the slug is taken, or the statement fails; a
\* save may also find no commerce to write, or no catalog any more.
Refuse(r) ==
    /\ \/ pc[r] = "count" /\ ~MayCreate(r)
       \/ pc[r] \in {"insert", "save", "link", "remove"}
    /\ pc' = [pc EXCEPT ![r] = "idle"]
    /\ UNCHANGED <<catalogs, place, limit, cat, where, allowed>>

InsertCatalog(r) ==
    /\ pc[r] = "insert"
    /\ catalogs' = catalogs \cup {cat[r]}
    /\ place' = [place EXCEPT ![cat[r]] = where[r]]
    /\ pc' = [pc EXCEPT ![r] = "idle"]
    /\ UNCHANGED <<limit, cat, where, allowed>>

-----------------------------------------------------------------------------
(* The other requests.                                                     *)

Load(r, c, p, label) ==
    /\ pc[r] = "idle"
    /\ cat' = [cat EXCEPT ![r] = c]
    /\ where' = [where EXCEPT ![r] = p]
    /\ pc' = [pc EXCEPT ![r] = label]
    /\ UNCHANGED <<catalogs, place, limit, allowed>>

\* A catalog is shown, updated or archived.
LoadCatalog(r) == \E c \in catalogs : Load(r, c, place[c], "save")

AssignCatalogToCommerce(r) ==
    \E c \in catalogs, p \in Commerces : place[c] = Own /\ Load(r, c, p, "link")

DeleteCatalog(r) == \E c \in catalogs : Load(r, c, place[c], "remove")

\* The catalog is inserted when it is no longer there.
Save(r) ==
    /\ pc[r] \in {"save", "link"}
    /\ catalogs' = catalogs \cup {cat[r]}
    /\ place' = [place EXCEPT ![cat[r]] = where[r]]
    /\ pc' = [pc EXCEPT ![r] = "idle"]
    /\ UNCHANGED <<limit, cat, where, allowed>>

Remove(r) ==
    /\ pc[r] = "remove"
    /\ catalogs' = catalogs \ {cat[r]}
    /\ place' = [place EXCEPT ![cat[r]] = Own]
    /\ pc' = [pc EXCEPT ![r] = "idle"]
    /\ UNCHANGED <<limit, cat, where, allowed>>

\* A subscription, a webhook or an administrator changes the plan.
ChangePlan ==
    /\ limit' \in Limits \ {limit}
    /\ UNCHANGED <<catalogs, place, pc, cat, where, allowed>>

Next ==
    \/ \E r \in Reqs :
         \/ GetPlanLimits(r) \/ CanCreateCatalog(r) \/ Refuse(r) \/ InsertCatalog(r)
         \/ LoadCatalog(r) \/ AssignCatalogToCommerce(r) \/ DeleteCatalog(r)
         \/ Save(r) \/ Remove(r)
    \/ ChangePlan

Spec == Init /\ [][Next]_vars

-----------------------------------------------------------------------------
(* Properties.                                                             *)

\* Every variable stays in its range.
TypeOK ==
    /\ catalogs \subseteq Cats
    /\ place \in [Cats -> Places]
    /\ limit \in Limits
    /\ pc \in [Reqs -> Label]
    /\ cat \in [Reqs -> Cats]
    /\ where \in [Reqs -> Places]
    /\ allowed \in [Reqs -> Limits]

Largest == CHOOSE l \in Limits : \A m \in Limits : m <= l

\* Without an unlimited plan: for the catalogs without a commerce, and for each
\* commerce, the limit of the largest plan may be used once, and each time one
\* more catalog for each other request in flight; links, stale saves, deletions
\* and changes of plan, however often they come, add nothing to that.
Bounded ==
    -1 \notin Limits =>
      Cardinality(catalogs) <= (Cardinality(Commerces) + 1) * (Largest + Cardinality(Reqs) - 1)
=============================================================================
