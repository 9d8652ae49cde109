------------------------------ MODULE Commerces ------------------------------
(***************************************************************************)
(* One merchant: the commerces opened within the plan, and the rows of     *)
(* user_roles that opening a commerce, an administrator and the merchant's *)
(* own change of line of business write.                                   *)
(*                                                                         *)
(* A where clause with resourceId: null does not filter by resourceId:     *)
(* TypeORM leaves out what is null, so that a lookup of a role without a   *)
(* resource finds the role of any resource, in no particular order.        *)
(*                                                                         *)
(* save() writes the entity as it was loaded and changed, and inserts it   *)
(* when its row is gone; here it is one step.  A handler that stops        *)
(* between two awaits takes no further step.                               *)
(***************************************************************************)
EXTENDS Integers, FiniteSets

CONSTANTS
    Reqs,          \* requests, one operation each
    Admins,        \* those whose commerces are not counted
    Ids,           \* ids of commerces
    Rows,          \* ids of rows of user_roles ...
    Seeds,         \* ... those that may have been written before
    Contexts,      \* business contexts, General one of them
    General,       \* the context of customers
    Synced,        \* the contexts in which changeOwnRole looks for a role
    None,          \* resourceId NULL
    MaxCommerces   \* limits.maxCommerces of the plan; -1 for no limit

RoleType == {"owner", "customer", "manager"}
Key == [role : RoleType, context : Contexts, resource : Ids \cup {None}]
NoRow == [key |-> [role |-> "customer", context |-> General, resource |-> None], state |-> "gone"]
UserRole == [key : Key, state : {"gone", "active", "inactive"}]
Label == {"idle", "insert", "find", "grant", "lookup", "row", "remove", "sync", "shop", "refused", "done"}
Await == Label \ {"idle", "refused", "done"}

ASSUME ReqsAssumption == IsFiniteSet(Reqs) /\ Reqs # {} /\ Admins \subseteq Reqs
ASSUME IdsAssumption == IsFiniteSet(Ids) /\ None \notin Ids
ASSUME RowsAssumption == IsFiniteSet(Rows) /\ Seeds \subseteq Rows
ASSUME ContextAssumption == General \in Synced /\ Synced \subseteq Contexts
ASSUME MaxAssumption == MaxCommerces \in Nat \cup {-1}

VARIABLES
    commerces,  \* [Ids -> "none", "active", "inactive"]: the commerces and isActive
    roles,      \* the rows of user_roles
    pc,         \* where a request awaits
    opens,      \* the commerce that a request opens, deactivates or updates
    want,       \* the role it looks up or grants
    row, ent,   \* the row it has loaded, and the entity it will save
    overtaken,  \* requests in flight when another one has written
    taken,      \* an administrator or a change of business may have taken a role
    had         \* contexts in which the merchant was an active owner before

vars == <<commerces, roles, pc, opens, want, row, ent, overtaken, taken, had>>

Opened == {c \in Ids : commerces[c] # "none"}
Present == {x \in Rows : roles[x].state # "gone"}
Owns(x) == \E y \in Present : /\ roles[y].state = "active" /\ roles[y].key.role = "owner"
                             /\ roles[y].key.context = x

\* Before: no more commerces than the plan has, each with its row or not, the
\* role of the registration with or without that of a customer, or neither.
Init ==
    /\ commerces \in [Ids -> {"none", "active"}]
    /\ MaxCommerces >= 0 => Cardinality(Opened) <= MaxCommerces
    /\ \E f \in [Seeds -> {NoRow} \cup
          {[key |-> k, state |-> s] : s \in {"active", "inactive"},
             k \in {j \in Key : \/ j.role = "owner" /\ j.resource \in Opened \cup {None}
                                \/ j = NoRow.key}}] :
         roles = [x \in Rows |-> IF x \in Seeds THEN f[x] ELSE NoRow]
    /\ \A x, y \in Present : roles[x].key = roles[y].key => x = y
    /\ had = {x \in Contexts : Owns(x)}
    /\ pc = [r \in Reqs |-> "idle"]
    /\ opens = [r \in Reqs |-> None]
    /\ want = [r \in Reqs |-> NoRow.key]
    /\ row \in {[r \in Reqs |-> x] : x \in Rows}
    /\ ent = [r \in Reqs |-> NoRow]
    /\ overtaken = {}
    /\ taken = "no"

Go(r, label) == pc' = [pc EXCEPT ![r] = label]
Overtake(r) == overtaken' = overtaken \cup {q \in Reqs \ {r} : pc[q] \in Await}

-----------------------------------------------------------------------------
(* Opening a commerce.                                                     *)

MayOpenMut(r) ==                                 \* off by one
    r \in Admins \/ MaxCommerces = -1 \/ Cardinality(Opened) <= MaxCommerces
MayOpen(r) ==
    r \in Admins \/ MaxCommerces = -1 \/ Cardinality(Opened) < MaxCommerces

Create(r) ==
    /\ pc[r] = "idle" /\ MayOpen(r)
    /\ \E x \in Contexts : want' = [want EXCEPT ![r] = [role |-> "owner", context |-> x, resource |-> None]]
    /\ Go(r, "insert")
    /\ UNCHANGED <<commerces, roles, opens, row, ent, overtaken, taken, had>>

InsertCommerceMut(r) ==                          \* create() without save()
    /\ pc[r] = "insert"
    /\ \E c \in Ids \ Opened :
         /\ opens' = [opens EXCEPT ![r] = c]
         /\ want' = [want EXCEPT ![r].resource = c]
    /\ Go(r, "find") /\ Overtake(r)
    /\ UNCHANGED <<commerces, roles, row, ent, taken, had>>
InsertCommerce(r) ==
    /\ pc[r] = "insert"
    /\ \E c \in Ids \ Opened :
         /\ commerces' = [commerces EXCEPT ![c] = "active"]
         /\ opens' = [opens EXCEPT ![r] = c]
         /\ want' = [want EXCEPT ![r].resource = c]
    /\ Go(r, "find") /\ Overtake(r)
    /\ UNCHANGED <<roles, row, ent, taken, had>>

\* The limit is reached, the slug taken, the role lacks a permission.
Refuse(r) ==
    /\ pc[r] \in {"idle", "insert"} /\ Go(r, "refused")
    /\ UNCHANGED <<commerces, roles, opens, want, row, ent, overtaken, taken, had>>

-----------------------------------------------------------------------------
(* The rows of user_roles.                                                 *)

\* where: {userId, role, context, resourceId: k.resource || null}
MatchesMut(k) == {x \in Present : /\ roles[x].key.role = k.role      \* of any context
                                  /\ k.resource \in {None, roles[x].key.resource}}
Matches(k) == {x \in Present : /\ roles[x].key.role = k.role
                               /\ roles[x].key.context = k.context
                               /\ k.resource \in {None, roles[x].key.resource}}

\* After the grant, the creation of a commerce takes back a role without resource.
AfterGrant(r) == IF opens[r] # None THEN "lookup" ELSE "done"

\* assignRole: reactivates what it finds, or refuses (409), or inserts.
FindMut(r) ==                               \* inserts without having looked
    /\ pc[r] = "find"
    /\ Go(r, "grant") /\ UNCHANGED <<row, ent>>
    /\ UNCHANGED <<commerces, roles, opens, want, overtaken, taken, had>>
Find(r) ==
    /\ pc[r] = "find"
    /\ \/ Matches(want[r]) = {} /\ Go(r, "grant") /\ UNCHANGED <<row, ent>>
       \/ \E x \in Matches(want[r]) :
            \/ roles[x].state = "active" /\ Go(r, "refused") /\ UNCHANGED <<row, ent>>
            \/ /\ roles[x].state = "inactive" /\ Go(r, "row")
               /\ row' = [row EXCEPT ![r] = x]
               /\ ent' = [ent EXCEPT ![r] = [roles[x] EXCEPT !.state = "active"]]
    /\ UNCHANGED <<commerces, roles, opens, want, overtaken, taken, had>>

Grant(r) ==
    /\ pc[r] = "grant"
    /\ \E x \in Rows \ Present :
         /\ \A q \in Reqs : row[q] = x => pc[q] \notin {"row", "remove"}   \* a new uuid
         /\ roles' = [roles EXCEPT ![x] = [key |-> want[r], state |-> "active"]]
    /\ Go(r, AfterGrant(r)) /\ Overtake(r)
    /\ UNCHANGED <<commerces, opens, want, row, ent, taken, had>>

\* deactivateRole(ownerId, OWNER, dto.context, undefined), errors ignored.
Lookup(r) ==
    LET found == Matches([want[r] EXCEPT !.resource = None]) IN
    /\ pc[r] = "lookup"
    /\ \/ found = {} /\ Go(r, "done") /\ UNCHANGED <<opens, row, ent>>
       \/ \E x \in found :
            /\ row' = [row EXCEPT ![r] = x]
            /\ ent' = [ent EXCEPT ![r] = [roles[x] EXCEPT !.state = "inactive"]]
            /\ opens' = [opens EXCEPT ![r] = None]
            /\ Go(r, "row")
    /\ UNCHANGED <<commerces, roles, want, overtaken, taken, had>>

SaveRow(r) ==
    /\ pc[r] = "row"
    /\ roles' = [roles EXCEPT ![row[r]] = ent[r]]
    /\ Go(r, AfterGrant(r))
    /\ IF roles' = roles THEN UNCHANGED overtaken ELSE Overtake(r)
    /\ UNCHANGED <<commerces, opens, want, row, ent, taken, had>>

\* POST /user-roles/assign, for a role of one commerce or without one.
AssignRole(r) ==
    /\ pc[r] = "idle"
    /\ \E k \in Key : /\ k.resource \in Opened \cup {None}
                      /\ want' = [want EXCEPT ![r] = k]
    /\ Go(r, "find")
    /\ UNCHANGED <<commerces, roles, opens, row, ent, overtaken, taken, had>>

RevokeRole(r) ==
    /\ pc[r] = "idle"
    /\ \E x \in Present : row' = [row EXCEPT ![r] = x]
    /\ Go(r, "remove") /\ taken' = "yes"
    /\ UNCHANGED <<commerces, roles, opens, want, ent, overtaken, had>>

Remove(r) ==
    /\ pc[r] = "remove"
    /\ roles' = [roles EXCEPT ![row[r]] = NoRow]
    /\ Go(r, "done") /\ Overtake(r)
    /\ UNCHANGED <<commerces, opens, want, row, ent, taken, had>>

\* PATCH /user-roles/:roleId, which may leave isActive as it was.
UpdateRole(r) ==
    /\ pc[r] = "idle"
    /\ \E x \in Present, s \in {"active", "inactive"} :
         /\ row' = [row EXCEPT ![r] = x]
         /\ ent' = [ent EXCEPT ![r] = [roles[x] EXCEPT !.state = s]]
    /\ Go(r, "row") /\ taken' = "yes"
    /\ UNCHANGED <<commerces, roles, opens, want, overtaken, had>>

\* PATCH .../change-own-role: user.role first, with a statement of its own.
ChangeOwnRole(r) ==
    /\ pc[r] = "idle"
    /\ \E k \in Key : /\ k.resource = None /\ k.role \in {"owner", "customer"}
                      /\ k.role = "customer" => k.context = General
                      /\ want' = [want EXCEPT ![r] = k]
    /\ Go(r, "sync") /\ taken' = "yes"
    /\ UNCHANGED <<commerces, roles, opens, row, ent, overtaken, had>>

\* GENERAL or EVENTS; here resourceId is compared with IsNull().
Sync(r) ==
    LET found == {x \in Present : /\ roles[x].key.resource = None
                                  /\ roles[x].key.context \in Synced} IN
    /\ pc[r] = "sync"
    /\ \/ found = {} /\ Go(r, "find") /\ UNCHANGED <<row, ent>>
       \/ \E x \in found :
            /\ row' = [row EXCEPT ![r] = x]
            /\ ent' = [ent EXCEPT ![r] = [key |-> want[r], state |-> "active"]]
            /\ Go(r, "row")
    /\ UNCHANGED <<commerces, roles, opens, want, overtaken, taken, had>>

-----------------------------------------------------------------------------
(* The commerces.                                                          *)

\* PUT /commerces/:id, with or without isActive, and DELETE, which deactivates.
LoadCommerce(r) ==
    /\ pc[r] = "idle"
    /\ \E c \in Opened, s \in {"active", "inactive"} :
         /\ opens' = [opens EXCEPT ![r] = c]
         /\ ent' = [ent EXCEPT ![r].state = s]
    /\ Go(r, "shop")
    /\ UNCHANGED <<commerces, roles, want, row, overtaken, taken, had>>

SaveCommerce(r) ==
    /\ pc[r] = "shop"
    /\ commerces' = [commerces EXCEPT ![opens[r]] = ent[r].state]
    /\ Go(r, "done") /\ Overtake(r)
    /\ UNCHANGED <<roles, opens, want, row, ent, taken, had>>

Next ==
    \E r \in Reqs :
      \/ Create(r) \/ InsertCommerce(r) \/ Refuse(r)
      \/ Find(r) \/ Grant(r) \/ Lookup(r) \/ SaveRow(r)
      \/ AssignRole(r) \/ RevokeRole(r) \/ Remove(r) \/ UpdateRole(r)
      \/ ChangeOwnRole(r) \/ Sync(r) \/ LoadCommerce(r) \/ SaveCommerce(r)

Spec == Init /\ [][Next]_vars

-----------------------------------------------------------------------------
(* Properties.                                                             *)

\* Every variable stays in its range, and no role is for a commerce that is not.
TypeOK ==
    /\ commerces \in [Ids -> {"none", "active", "inactive"}]
    /\ roles \in [Rows -> UserRole]
    /\ \A x \in Present : roles[x].key.resource \in Opened \cup {None}
    /\ pc \in [Reqs -> Label]
    /\ opens \in [Reqs -> Ids \cup {None}]
    /\ want \in [Reqs -> Key]
    /\ row \in [Reqs -> Rows]
    /\ ent \in [Reqs -> UserRole]
    /\ overtaken \subseteq Reqs
    /\ taken \in {"no", "yes"} /\ had \subseteq Contexts

\* The limit of the plan is exceeded by one less than the requests at most:
\* those that counted before the first of them inserted.
CommerceLimit ==
    MaxCommerces >= 0 /\ Admins = {} =>
      Cardinality(Opened) <= MaxCommerces + Cardinality(Reqs) - 1

\* However the openings and the grants mix: a merchant who was an owner in a
\* context stays one, although each opening takes back some role of an owner,
\* which the lookup picks at random; only a revocation, an update of a role or a
\* change of the own business takes it from him.
KeepsAccess == taken = "no" => \A x \in had : Owns(x)

Late == {r \in overtaken : pc[r] \in {"lookup", "row", "done"}}

\* As long as no request has written after another one overtook it, a role in a
\* commerce is in one row, so that revoking that row revokes the role.
GrantedOnce ==
    Late = {} => \A x, y \in Present :
      roles[x].key = roles[y].key /\ roles[x].key.resource # None => x = y
=============================================================================
