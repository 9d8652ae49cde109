---------------------------- MODULE CommercesProofs ----------------------------
(***************************************************************************)
(* Proofs about Commerces, for any number of requests, commerces, contexts *)
(* and rows: its types, the bound on the commerces beyond the plan, a role *)
(* in one row as long as nobody writes too late, and that an owner stays   *)
(* one.  Each has an inductive invariant of its own on top of RefersInv,   *)
(* and the steps that disturb none of it share a lemma.                    *)
(***************************************************************************)
EXTENDS Commerces, FiniteSetTheorems, TLAPS

-----------------------------------------------------------------------------
(* Types.                                                                  *)

\* A request names a commerce that is there: the rows it writes refer to one.
Refers(r) ==
    /\ want[r].resource \in Opened \cup {None}
    /\ ent[r].key.resource \in Opened \cup {None}
    /\ pc[r] = "shop" => opens[r] \in Opened /\ ent[r].state # "gone"
    /\ pc[r] = "sync" => want[r].resource = None

RefersInv == TypeOK /\ \A r \in Reqs : Refers(r)

LEMMA NoRowTyped == NoRow \in UserRole /\ NoRow.key \in Key /\ NoRow.key.resource = None
BY ContextAssumption DEF NoRow, UserRole, Key, RoleType

LEMMA InitRefers == Init => RefersInv
<1> SUFFICES ASSUME Init PROVE RefersInv
  OBVIOUS
<1>1. PICK f \in [Seeds -> {NoRow} \cup
          {[key |-> k, state |-> s] : s \in {"active", "inactive"},
             k \in {j \in Key : \/ j.role = "owner" /\ j.resource \in Opened \cup {None}
                                \/ j = NoRow.key}}] :
         roles = [x \in Rows |-> IF x \in Seeds THEN f[x] ELSE NoRow]
  BY DEF Init
<1>2. \A x \in Rows : roles[x] \in UserRole /\ roles[x].key.resource \in Opened \cup {None}
  BY <1>1, NoRowTyped DEF UserRole
<1>3. /\ commerces \in [Ids -> {"none", "active", "inactive"}] /\ had \subseteq Contexts
      /\ row \in [Reqs -> Rows] /\ roles \in [Rows -> UserRole]
  BY <1>1, <1>2 DEF Init
<1> QED
  BY <1>2, <1>3, NoRowTyped DEF Init, RefersInv, Refers, TypeOK, Present, Label

\* The steps that leave the commerces and the roles as they are.
LEMMA QuietRefers ==
  ASSUME RefersInv, NEW r \in Reqs, UNCHANGED <<commerces, roles, had>>,
         pc' \in [Reqs -> Label], want' \in [Reqs -> Key], ent' \in [Reqs -> UserRole],
         row' \in [Reqs -> Rows], opens' \in [Reqs -> Ids \cup {None}],
         overtaken' \subseteq Reqs, taken' \in {"no", "yes"},
         \A q \in Reqs \ {r} : /\ want'[q] = want[q] /\ ent'[q] = ent[q]
                               /\ pc'[q] = pc[q] /\ opens'[q] = opens[q],
         want'[r].resource \in Opened \cup {None},
         ent'[r].key.resource \in Opened \cup {None},
         pc'[r] = "shop" => opens'[r] \in Opened /\ ent'[r].state # "gone",
         pc'[r] = "sync" => want'[r].resource = None
  PROVE  RefersInv'
BY DEF RefersInv, Refers, TypeOK, Opened, Present

LEMMA Same ==
  ASSUME RefersInv, NEW r \in Reqs
  PROVE  /\ want[r] \in Key /\ ent[r] \in UserRole /\ row[r] \in Rows
         /\ opens[r] \in Ids \cup {None}
         /\ want[r].resource \in Opened \cup {None}
         /\ ent[r].key.resource \in Opened \cup {None}
         /\ overtaken \subseteq Reqs /\ taken \in {"no", "yes"}
BY DEF RefersInv, Refers, TypeOK

LEMMA Row ==
  ASSUME RefersInv, NEW x \in Present, NEW s \in {"active", "inactive"}
  PROVE  /\ x \in Rows /\ roles[x] \in UserRole
         /\ [roles[x] EXCEPT !.state = s] \in UserRole
         /\ [roles[x] EXCEPT !.state = s].state = s
         /\ [roles[x] EXCEPT !.state = s].key = roles[x].key
         /\ roles[x].key.resource \in Opened \cup {None}
<1>1. x \in Rows /\ roles[x] \in UserRole /\ roles[x].key.resource \in Opened \cup {None}
  BY DEF RefersInv, TypeOK, Present
<1>2. /\ [roles[x] EXCEPT !.state = s] \in UserRole
      /\ [roles[x] EXCEPT !.state = s].state = s
      /\ [roles[x] EXCEPT !.state = s].key = roles[x].key
  BY <1>1 DEF UserRole
<1> QED
  BY <1>1, <1>2

\* The steps that write: commerces are only added, and rows refer to them.
LEMMA LoudRefers ==
  ASSUME RefersInv, NEW r \in Reqs, UNCHANGED <<want, row, ent, opens, taken, had>>,
         NEW label \in Label \ {"shop", "sync"}, pc' = [pc EXCEPT ![r] = label],
         overtaken' \subseteq Reqs,
         commerces' \in [Ids -> {"none", "active", "inactive"}], Opened \subseteq Opened',
         roles' \in [Rows -> UserRole],
         \A x \in Rows : roles'[x] = roles[x] \/ roles'[x].state = "gone"
                        \/ roles'[x].key.resource \in Opened \cup {None}
  PROVE  RefersInv'
BY DEF RefersInv, Refers, TypeOK, Opened, Present

LEMMA RefersStep == RefersInv /\ [Next]_vars => RefersInv'
<1> SUFFICES ASSUME RefersInv, [Next]_vars PROVE RefersInv'
  OBVIOUS
<1>1. ASSUME NEW r \in Reqs, Create(r) PROVE RefersInv'
  <2>1. PICK x \in Contexts : want' = [want EXCEPT ![r] = [role |-> "owner", context |-> x, resource |-> None]]
    BY <1>1 DEF Create
  <2> DEFINE w == [role |-> "owner", context |-> x, resource |-> None]
  <2>2. w \in Key /\ w.resource = None
    BY DEF Key, RoleType
  <2> QED
    BY <1>1, <2>1, <2>2, Same, QuietRefers DEF RefersInv, TypeOK, Create, Go, Label
<1>2. ASSUME NEW r \in Reqs, InsertCommerce(r) PROVE RefersInv'
  <2>1. PICK c \in Ids \ Opened : /\ commerces' = [commerces EXCEPT ![c] = "active"]
                                 /\ opens' = [opens EXCEPT ![r] = c]
                                 /\ want' = [want EXCEPT ![r].resource = c]
    BY <1>2 DEF InsertCommerce
  <2>2. Opened' = Opened \cup {c} /\ commerces' \in [Ids -> {"none", "active", "inactive"}]
    BY <2>1 DEF Opened, RefersInv, TypeOK
  <2>3. /\ [want[r] EXCEPT !.resource = c] \in Key
        /\ [want[r] EXCEPT !.resource = c].resource = c
    BY Same DEF Key
  <2>4. want' = [want EXCEPT ![r] = [want[r] EXCEPT !.resource = c]]
    BY <2>1
  <2>5. /\ want' \in [Reqs -> Key] /\ want'[r].resource = c
        /\ \A q \in Reqs \ {r} : want'[q] = want[q]
    BY <2>3, <2>4 DEF RefersInv, TypeOK
  <2>6. overtaken' \subseteq Reqs
    BY <1>2 DEF InsertCommerce, Overtake, RefersInv, TypeOK
  <2> QED
    BY <1>2, <2>1, <2>2, <2>5, <2>6
    DEF InsertCommerce, Go, RefersInv, Refers, TypeOK, Present, Label
<1>3. ASSUME NEW r \in Reqs, Refuse(r) PROVE RefersInv'
  BY <1>3, Same, QuietRefers DEF RefersInv, TypeOK, Refuse, Go, Label
<1>4. ASSUME NEW r \in Reqs, Find(r) PROVE RefersInv'
  <2>1. CASE UNCHANGED <<row, ent>>
    BY <1>4, <2>1, Same, QuietRefers DEF RefersInv, TypeOK, Find, Go, Label
  <2>2. ASSUME NEW x \in Matches(want[r]), Go(r, "row"), row' = [row EXCEPT ![r] = x],
               ent' = [ent EXCEPT ![r] = [roles[x] EXCEPT !.state = "active"]]
        PROVE  RefersInv'
    <3>1. x \in Present
      BY DEF Matches
    <3>2. /\ row' \in [Reqs -> Rows] /\ ent' \in [Reqs -> UserRole]
          /\ ent'[r].key.resource \in Opened \cup {None}
          /\ \A q \in Reqs \ {r} : ent'[q] = ent[q]
      BY <2>2, <3>1, Row DEF RefersInv, TypeOK
    <3>3. /\ pc' \in [Reqs -> Label] /\ pc'[r] = "row"
          /\ \A q \in Reqs \ {r} : pc'[q] = pc[q]
      BY <2>2 DEF RefersInv, TypeOK, Go, Label
    <3>4. UNCHANGED <<commerces, roles, opens, want, overtaken, taken, had>>
      BY <1>4 DEF Find
    <3> QED
      BY <3>2, <3>3, <3>4, Same, QuietRefers DEF RefersInv, TypeOK
  <2> QED
    BY <1>4, <2>1, <2>2 DEF Find
<1>5. ASSUME NEW r \in Reqs, Grant(r) PROVE RefersInv'
  <2>1. PICK x \in Rows : roles' = [roles EXCEPT ![x] = [key |-> want[r], state |-> "active"]]
    BY <1>5 DEF Grant
  <2>2. [key |-> want[r], state |-> "active"] \in UserRole
    BY Same DEF UserRole
  <2>3. roles' \in [Rows -> UserRole]
    BY <2>1, <2>2 DEF RefersInv, TypeOK
  <2>4. \A y \in Rows : roles'[y] = roles[y] \/ roles'[y].key.resource \in Opened \cup {None}
    BY <2>1, Same DEF RefersInv, TypeOK
  <2>5. AfterGrant(r) \in Label \ {"shop", "sync"} /\ overtaken' \subseteq Reqs
    BY <1>5, Same DEF Grant, Overtake, AfterGrant, Label
  <2>6. /\ commerces' \in [Ids -> {"none", "active", "inactive"}] /\ Opened \subseteq Opened'
        /\ UNCHANGED <<want, row, ent, opens, taken, had>>
        /\ pc' = [pc EXCEPT ![r] = AfterGrant(r)]
    BY <1>5 DEF Grant, Go, RefersInv, TypeOK, Opened
  <2> QED
    BY <2>3, <2>4, <2>5, <2>6, LoudRefers
<1>6. ASSUME NEW r \in Reqs, Lookup(r) PROVE RefersInv'
  <2>1. CASE UNCHANGED <<opens, row, ent>>
    <3>1. pc' = [pc EXCEPT ![r] = "done"] \/ pc' = [pc EXCEPT ![r] = "row"]
      BY <1>6 DEF Lookup, Go
    <3>2. UNCHANGED <<commerces, roles, opens, row, ent, want, overtaken, taken, had>>
      BY <1>6, <2>1 DEF Lookup
    <3> QED
      BY <3>1, <3>2, Same, QuietRefers DEF RefersInv, TypeOK, Label
  <2>2. ASSUME NEW x \in Matches([want[r] EXCEPT !.resource = None]), Go(r, "row"),
               row' = [row EXCEPT ![r] = x], opens' = [opens EXCEPT ![r] = None],
               ent' = [ent EXCEPT ![r] = [roles[x] EXCEPT !.state = "inactive"]]
        PROVE  RefersInv'
    <3>1. x \in Present
      BY DEF Matches
    <3> QED
      BY <1>6, <2>2, <3>1, Same, Row, QuietRefers DEF RefersInv, TypeOK, Lookup, Go, Label
  <2> QED
    BY <1>6, <2>1, <2>2 DEF Lookup
<1>7. ASSUME NEW r \in Reqs, SaveRow(r) PROVE RefersInv'
  <2>1. roles' \in [Rows -> UserRole]
    BY <1>7, Same DEF SaveRow, RefersInv, TypeOK
  <2>2. \A y \in Rows : roles'[y] = roles[y] \/ roles'[y].key.resource \in Opened \cup {None}
    BY <1>7, Same DEF SaveRow, RefersInv, TypeOK
  <2>3. AfterGrant(r) \in Label \ {"shop", "sync"} /\ overtaken' \subseteq Reqs
    BY <1>7, Same DEF SaveRow, Overtake, AfterGrant, Label
  <2>4. /\ commerces' \in [Ids -> {"none", "active", "inactive"}] /\ Opened \subseteq Opened'
        /\ UNCHANGED <<want, row, ent, opens, taken, had>>
        /\ pc' = [pc EXCEPT ![r] = AfterGrant(r)]
    BY <1>7 DEF SaveRow, Go, RefersInv, TypeOK, Opened
  <2> QED
    BY <2>1, <2>2, <2>3, <2>4, LoudRefers
<1>8. ASSUME NEW r \in Reqs, AssignRole(r) PROVE RefersInv'
  BY <1>8, Same, QuietRefers DEF RefersInv, TypeOK, AssignRole, Go, Label
<1>9. ASSUME NEW r \in Reqs, RevokeRole(r) PROVE RefersInv'
  BY <1>9, Same, QuietRefers DEF RefersInv, TypeOK, RevokeRole, Go, Label, Present
<1>10. ASSUME NEW r \in Reqs, Remove(r) PROVE RefersInv'
  <2>1. roles' \in [Rows -> UserRole]
    BY <1>10, NoRowTyped DEF Remove, RefersInv, TypeOK
  <2>2. \A y \in Rows : roles'[y] = roles[y] \/ roles'[y].state = "gone"
    BY <1>10 DEF Remove, RefersInv, TypeOK, NoRow
  <2>3. /\ commerces' \in [Ids -> {"none", "active", "inactive"}] /\ Opened \subseteq Opened'
        /\ UNCHANGED <<want, row, ent, opens, taken, had>>
        /\ pc' = [pc EXCEPT ![r] = "done"] /\ overtaken' \subseteq Reqs
    BY <1>10, Same DEF Remove, Go, Overtake, RefersInv, TypeOK, Opened
  <2>4. "done" \in Label \ {"shop", "sync"}
    BY DEF Label
  <2> QED
    BY <2>1, <2>2, <2>3, <2>4, LoudRefers
<1>11. ASSUME NEW r \in Reqs, UpdateRole(r) PROVE RefersInv'
  <2>1. PICK x \in Present, s \in {"active", "inactive"} :
          /\ row' = [row EXCEPT ![r] = x]
          /\ ent' = [ent EXCEPT ![r] = [roles[x] EXCEPT !.state = s]]
    BY <1>11 DEF UpdateRole
  <2>2. /\ row' \in [Reqs -> Rows] /\ ent' \in [Reqs -> UserRole]
        /\ ent'[r].key.resource \in Opened \cup {None}
        /\ \A q \in Reqs \ {r} : ent'[q] = ent[q]
    BY <2>1, Row DEF RefersInv, TypeOK
  <2> QED
    BY <1>11, <2>2, Same, QuietRefers DEF RefersInv, TypeOK, UpdateRole, Go, Label
<1>12. ASSUME NEW r \in Reqs, ChangeOwnRole(r) PROVE RefersInv'
  BY <1>12, Same, QuietRefers DEF RefersInv, TypeOK, ChangeOwnRole, Go, Label
<1>13. ASSUME NEW r \in Reqs, Sync(r) PROVE RefersInv'
  <2>1. CASE UNCHANGED <<row, ent>>
    <3>1. pc' = [pc EXCEPT ![r] = "find"] \/ pc' = [pc EXCEPT ![r] = "row"]
      BY <1>13 DEF Sync, Go
    <3>2. UNCHANGED <<commerces, roles, opens, row, ent, want, overtaken, taken, had>>
      BY <1>13, <2>1 DEF Sync
    <3> QED
      BY <3>1, <3>2, Same, QuietRefers DEF RefersInv, TypeOK, Label
  <2>2. ASSUME NEW x \in Present, Go(r, "row"), row' = [row EXCEPT ![r] = x],
               ent' = [ent EXCEPT ![r] = [key |-> want[r], state |-> "active"]]
        PROVE  RefersInv'
    <3>1. /\ [key |-> want[r], state |-> "active"] \in UserRole
          /\ [key |-> want[r], state |-> "active"].key = want[r]
      BY Same DEF UserRole
    <3>2. /\ row' \in [Reqs -> Rows] /\ ent' \in [Reqs -> UserRole]
          /\ ent'[r].key.resource \in Opened \cup {None}
          /\ \A q \in Reqs \ {r} : ent'[q] = ent[q]
      BY <2>2, <3>1, Same DEF RefersInv, TypeOK, Present
    <3>3. /\ pc' \in [Reqs -> Label] /\ pc'[r] = "row"
          /\ \A q \in Reqs \ {r} : pc'[q] = pc[q]
      BY <2>2 DEF RefersInv, TypeOK, Go, Label
    <3>4. UNCHANGED <<commerces, roles, opens, want, overtaken, taken, had>>
      BY <1>13 DEF Sync
    <3> QED
      BY <3>2, <3>3, <3>4, Same, QuietRefers DEF RefersInv, TypeOK
  <2> QED
    BY <1>13, <2>1, <2>2 DEF Sync
<1>14. ASSUME NEW r \in Reqs, LoadCommerce(r) PROVE RefersInv'
  <2>1. PICK c \in Opened, s \in {"active", "inactive"} :
          opens' = [opens EXCEPT ![r] = c] /\ ent' = [ent EXCEPT ![r].state = s]
    BY <1>14 DEF LoadCommerce
  <2>2. /\ [ent[r] EXCEPT !.state = s] \in UserRole
        /\ [ent[r] EXCEPT !.state = s].key = ent[r].key
        /\ [ent[r] EXCEPT !.state = s].state # "gone"
    BY Same DEF UserRole
  <2>3. ent' = [ent EXCEPT ![r] = [ent[r] EXCEPT !.state = s]] /\ c \in Ids
    BY <2>1 DEF Opened
  <2> QED
    BY <1>14, <2>1, <2>2, <2>3, Same, QuietRefers DEF RefersInv, TypeOK, LoadCommerce, Go, Label
<1>15. ASSUME NEW r \in Reqs, SaveCommerce(r) PROVE RefersInv'
  <2>1. opens[r] \in Opened /\ ent[r].state \in {"active", "inactive"}
    BY <1>15, Same DEF SaveCommerce, RefersInv, Refers, UserRole
  <2>2. /\ commerces' \in [Ids -> {"none", "active", "inactive"}] /\ Opened' = Opened
        /\ UNCHANGED <<want, row, ent, opens, taken, had, roles>>
        /\ pc' = [pc EXCEPT ![r] = "done"] /\ overtaken' \subseteq Reqs
    BY <1>15, <2>1, Same DEF SaveCommerce, Go, Overtake, RefersInv, TypeOK, Opened
  <2>3. roles' \in [Rows -> UserRole] /\ "done" \in Label \ {"shop", "sync"}
    BY <2>2 DEF RefersInv, TypeOK, Label
  <2> QED
    BY <2>2, <2>3, LoudRefers
<1>16. CASE UNCHANGED vars
  BY <1>16 DEF vars, RefersInv, Refers, TypeOK, Opened, Present
<1> QED
  BY <1>1, <1>2, <1>3, <1>4, <1>5, <1>6, <1>7, <1>8, <1>9, <1>10, <1>11, <1>12, <1>13,
     <1>14, <1>15, <1>16 DEF Next

LEMMA RefersHold == Spec => []RefersInv
BY InitRefers, RefersStep, PTL DEF Spec

\* Every variable stays in its range, and no row of user_roles is for a commerce
\* that does not exist (Commerces!TypeOK).
THEOREM TypeCorrect == Spec => []TypeOK
<1>1. RefersInv => TypeOK
  BY DEF RefersInv
<1> QED
  BY <1>1, RefersHold, PTL

-----------------------------------------------------------------------------
(* The limit of the plan.  A request that has been allowed to open another *)
(* commerce found one place at least, and so did all that wait with it.    *)

Inserting == {r \in Reqs : pc[r] = "insert"}

LimitInv ==
    MaxCommerces >= 0 /\ Admins = {} =>
      Cardinality(Opened) + Cardinality(Inserting) <= MaxCommerces + Cardinality(Reqs) - 1

LEMMA Finite ==
  /\ IsFiniteSet(Opened) /\ Cardinality(Opened) \in Nat
  /\ IsFiniteSet(Inserting) /\ Cardinality(Inserting) \in Nat
  /\ Cardinality(Reqs) \in Nat /\ Cardinality(Reqs) >= 1
<1>1. Opened \subseteq Ids /\ Inserting \subseteq Reqs
  BY DEF Opened, Inserting
<1>2. Cardinality(Reqs) # 0
  BY ReqsAssumption, FS_EmptySet
<1> QED
  BY <1>1, <1>2, ReqsAssumption, IdsAssumption, FS_Subset, FS_CardinalityType

\* Nothing but Create lets a request wait for its INSERT, and nothing but the INSERT
\* makes a commerce.
LEMMA LimitKept ==
  ASSUME LimitInv, Opened' = Opened, Inserting' \subseteq Inserting
  PROVE  LimitInv'
<1>1. Cardinality(Inserting') <= Cardinality(Inserting) /\ Cardinality(Inserting') \in Nat
  BY Finite, FS_Subset, FS_CardinalityType
<1> QED
  BY <1>1, Finite, MaxAssumption DEF LimitInv

LEMMA OthersInsert ==
  ASSUME RefersInv, NEW r \in Reqs, NEW label \in Label \ {"insert"}, Go(r, label)
  PROVE  Inserting' \subseteq Inserting
BY DEF RefersInv, TypeOK, Go, Inserting

LEMMA LimitStep == RefersInv /\ LimitInv /\ [Next]_vars => LimitInv'
<1> SUFFICES ASSUME RefersInv, LimitInv, [Next]_vars PROVE LimitInv'
  OBVIOUS
<1>1. ASSUME NEW r \in Reqs, Create(r) PROVE LimitInv'
  <2>1. Opened' = Opened /\ Inserting' \subseteq Reqs
    BY <1>1 DEF Create, Opened, Inserting
  <2>2. Cardinality(Inserting') <= Cardinality(Reqs) /\ Cardinality(Inserting') \in Nat
    BY <2>1, ReqsAssumption, FS_Subset, FS_CardinalityType
  <2>3. MaxCommerces >= 0 /\ Admins = {} => Cardinality(Opened) <= MaxCommerces - 1
    BY <1>1, Finite, MaxAssumption DEF Create, MayOpen
  <2> QED
    BY <2>1, <2>2, <2>3, Finite, MaxAssumption DEF LimitInv
<1>2. ASSUME NEW r \in Reqs, InsertCommerce(r) PROVE LimitInv'
  <2>1. PICK c \in Ids \ Opened : commerces' = [commerces EXCEPT ![c] = "active"]
    BY <1>2 DEF InsertCommerce
  <2>2. Opened' = Opened \cup {c}
    BY <2>1 DEF Opened, RefersInv, TypeOK
  <2>3. Inserting' = Inserting \ {r} /\ r \in Inserting
    BY <1>2 DEF InsertCommerce, Go, Inserting, RefersInv, TypeOK
  <2>4. Cardinality(Opened') = Cardinality(Opened) + 1
    BY <2>1, <2>2, Finite, FS_AddElement
  <2>5. Cardinality(Inserting') = Cardinality(Inserting) - 1
    BY <2>3, Finite, FS_RemoveElement
  <2> QED
    BY <2>4, <2>5, Finite, MaxAssumption DEF LimitInv
<1>3. ASSUME NEW r \in Reqs, SaveCommerce(r) PROVE LimitInv'
  <2>1. opens[r] \in Opened /\ ent[r].state \in {"active", "inactive"}
    BY <1>3, Same DEF SaveCommerce, RefersInv, Refers, UserRole
  <2>2. Opened' = Opened
    BY <1>3, <2>1 DEF SaveCommerce, RefersInv, TypeOK, Opened
  <2>3. Inserting' \subseteq Inserting
    BY <1>3 DEF SaveCommerce, Go, Inserting, RefersInv, TypeOK
  <2> QED
    BY <2>2, <2>3, LimitKept
<1>4. ASSUME NEW r \in Reqs, UNCHANGED commerces, NEW label \in Label \ {"insert"}, Go(r, label)
      PROVE  LimitInv'
  BY <1>4, OthersInsert, LimitKept DEF Opened
<1>5. ASSUME NEW r \in Reqs,
             \/ Refuse(r) \/ Find(r) \/ Grant(r) \/ Lookup(r) \/ SaveRow(r) \/ AssignRole(r)
             \/ RevokeRole(r) \/ Remove(r) \/ UpdateRole(r) \/ ChangeOwnRole(r) \/ Sync(r)
             \/ LoadCommerce(r)
      PROVE  LimitInv'
  <2>1. UNCHANGED commerces /\ \E label \in Label \ {"insert"} : Go(r, label)
    BY <1>5 DEF Refuse, Find, Grant, AfterGrant, Lookup, SaveRow, AssignRole, RevokeRole, Remove,
       UpdateRole, ChangeOwnRole, Sync, LoadCommerce, Label
  <2> QED
    BY <2>1, <1>4
<1>6. CASE UNCHANGED vars
  BY <1>6 DEF vars, LimitInv, Opened, Inserting
<1> QED
  BY <1>1, <1>2, <1>3, <1>5, <1>6 DEF Next

\* A merchant's commerces exceed the plan by no more than the requests that may
\* have counted before another one's INSERT (CommerceService.create).
THEOREM LimitHolds == Spec => []CommerceLimit
<1>1. Init => LimitInv
  <2> SUFFICES ASSUME Init PROVE LimitInv
    OBVIOUS
  <2>1. Inserting = {}
    BY DEF Init, Inserting
  <2>2. Cardinality(Inserting) = 0
    BY <2>1, FS_EmptySet
  <2> QED
    BY <2>2, Finite, MaxAssumption DEF Init, LimitInv
<1>2. LimitInv => CommerceLimit
  BY Finite, MaxAssumption DEF LimitInv, CommerceLimit
<1> QED
  BY <1>1, <1>2, LimitStep, RefersHold, PTL DEF Spec

-----------------------------------------------------------------------------
(* Roles are granted once.  What a request that nobody has overtaken has   *)
(* found in user_roles is so still: there is no row for what it grants, and *)
(* the row it saves is there with the key it had.                          *)

Unique == \A x, y \in Present :
    roles[x].key = roles[y].key /\ roles[x].key.resource # None => x = y

Found(r) ==
    /\ pc[r] = "grant" /\ want[r].resource # None => \A x \in Present : roles[x].key # want[r]
    /\ pc[r] = "row" => /\ row[r] \in Present
                        /\ \/ ent[r].key = roles[row[r]].key
                           \/ ent[r].key.resource = None

OnceInv ==
    /\ Late = {} => Unique
    /\ \A r \in Reqs \ overtaken : Found(r)

\* A request that has loaded something has left the roles as they are.
LEMMA QuietOnce ==
  ASSUME RefersInv, OnceInv, NEW r \in Reqs, UNCHANGED <<roles, overtaken>>,
         \A q \in Reqs \ {r} : /\ pc'[q] = pc[q] /\ want'[q] = want[q]
                               /\ ent'[q] = ent[q] /\ row'[q] = row[q],
         pc[r] \in {"lookup", "row", "done"} => pc'[r] \in {"lookup", "row", "done"},
         Found(r)'
  PROVE  OnceInv'
<1>1. Present' = Present /\ (Unique => Unique')
  BY DEF Present, Unique
<1>2. ASSUME NEW q \in Late PROVE q \in Late'
  <2>1. q \in Reqs /\ q \in overtaken' /\ pc[q] \in {"lookup", "row", "done"}
    BY DEF Late, RefersInv, TypeOK
  <2>2. pc'[q] \in {"lookup", "row", "done"}
    BY <2>1
  <2> QED
    BY <2>1, <2>2 DEF Late
<1>3. \A q \in Reqs \ {r} : Found(q) => Found(q)'
  BY <1>1 DEF Found
<1> QED
  BY <1>1, <1>2, <1>3 DEF OnceInv

\* A request that writes overtakes all that have loaded something.
LEMMA LoudOnce ==
  ASSUME RefersInv, OnceInv, NEW r \in Reqs, NEW label \in {"find", "lookup", "done"},
         Go(r, label), Overtake(r),
         pc[r] \in {"lookup", "row", "done"} => label \in {"lookup", "done"},
         Late' = {} /\ Unique => Unique'
  PROVE  OnceInv'
<1>1. pc'[r] = label /\ \A q \in Reqs \ {r} : pc'[q] = pc[q]
  BY DEF Go, RefersInv, TypeOK
<1>2. overtaken \subseteq overtaken'
  BY DEF Overtake
<1>3. ASSUME NEW q \in Late PROVE q \in Late'
  <2>1. q \in Reqs /\ q \in overtaken' /\ pc[q] \in {"lookup", "row", "done"}
    BY <1>2 DEF Late, RefersInv, TypeOK
  <2>2. pc'[q] \in {"lookup", "row", "done"}
    BY <1>1, <2>1
  <2> QED
    BY <2>1, <2>2 DEF Late
<1>4. ASSUME NEW q \in Reqs \ overtaken' PROVE Found(q)'
  <2>1. pc'[q] \notin {"grant", "row"}
    BY <1>1, <1>4 DEF Overtake, Await, Label
  <2> QED
    BY <2>1 DEF Found
<1> QED
  BY <1>3, <1>4 DEF OnceInv

LEMMA OnceStep == RefersInv /\ OnceInv /\ [Next]_vars => OnceInv'
<1> SUFFICES ASSUME RefersInv, OnceInv, [Next]_vars PROVE OnceInv'
  OBVIOUS
<1>1. ASSUME NEW r \in Reqs, \/ Create(r) \/ Refuse(r) \/ AssignRole(r) \/ RevokeRole(r)
                              \/ ChangeOwnRole(r) \/ LoadCommerce(r)
      PROVE  OnceInv'
  <2>1. UNCHANGED <<roles, overtaken>> /\ pc[r] \in {"idle", "insert"}
    BY <1>1 DEF Create, Refuse, AssignRole, RevokeRole, ChangeOwnRole, LoadCommerce
  <2>2. \A q \in Reqs \ {r} : /\ pc'[q] = pc[q] /\ want'[q] = want[q]
                              /\ ent'[q] = ent[q] /\ row'[q] = row[q]
    BY <1>1 DEF Create, Refuse, AssignRole, RevokeRole, ChangeOwnRole, LoadCommerce, Go,
       RefersInv, TypeOK
  <2>3. pc'[r] \notin {"grant", "row"}
    BY <1>1 DEF Create, Refuse, AssignRole, RevokeRole, ChangeOwnRole, LoadCommerce, Go,
       RefersInv, TypeOK
  <2> QED
    BY <2>1, <2>2, <2>3, QuietOnce DEF Found
<1>2. ASSUME NEW r \in Reqs, UNCHANGED <<roles, overtaken, want>>, NEW x \in Present,
             NEW e \in UserRole, Go(r, "row"), row' = [row EXCEPT ![r] = x],
             ent' = [ent EXCEPT ![r] = e], e.key = roles[x].key \/ e.key.resource = None
      PROVE  OnceInv'
  <2>1. \A q \in Reqs \ {r} : /\ pc'[q] = pc[q] /\ want'[q] = want[q]
                              /\ ent'[q] = ent[q] /\ row'[q] = row[q]
    BY <1>2 DEF Go, RefersInv, TypeOK
  <2>2. pc'[r] = "row" /\ row'[r] = x /\ ent'[r] = e
    BY <1>2 DEF Go, RefersInv, TypeOK
  <2>3. Found(r)'
    BY <1>2, <2>2 DEF Found, Present
  <2> QED
    BY <1>2, <2>1, <2>2, <2>3, QuietOnce
<1>3. ASSUME NEW r \in Reqs, Find(r) PROVE OnceInv'
  <2>1. UNCHANGED <<roles, overtaken, want>> /\ pc[r] = "find"
    BY <1>3 DEF Find
  <2>2. CASE UNCHANGED <<row, ent>>
    <3>1. \A q \in Reqs \ {r} : pc'[q] = pc[q]
      BY <1>3 DEF Find, Go, RefersInv, TypeOK
    <3>2. \/ pc'[r] = "grant" /\ Matches(want[r]) = {}
          \/ pc'[r] = "refused"
          \/ \E x \in Matches(want[r]) : roles[x].state = "inactive" /\ ent'[r] = [roles[x] EXCEPT !.state = "active"] /\ row'[r] = x /\ pc'[r] = "row"
      BY <1>3 DEF Find, Go, RefersInv, TypeOK
    <3>3. CASE pc'[r] = "grant" /\ Matches(want[r]) = {}
      <4>1. \A x \in Present : roles[x].key # want[r]
        BY <3>3 DEF Matches
      <4>2. Found(r)'
        BY <2>1, <3>3, <4>1 DEF Found, Present
      <4> QED
        BY <2>1, <2>2, <3>1, <4>2, QuietOnce
    <3>4. CASE pc'[r] = "refused"
      BY <2>1, <2>2, <3>1, <3>4, QuietOnce DEF Found
    <3>5. ASSUME NEW x \in Matches(want[r]), ent'[r] = [roles[x] EXCEPT !.state = "active"],
                 row'[r] = x, pc'[r] = "row"
          PROVE  OnceInv'
      <4>1. x \in Present
        BY DEF Matches
      <4>2. ent'[r].key = roles[x].key
        BY <3>5, <4>1, Row
      <4>3. Found(r)'
        BY <2>1, <3>5, <4>1, <4>2 DEF Found, Present
      <4> QED
        BY <2>1, <2>2, <3>1, <4>3, QuietOnce
    <3> QED
      BY <3>2, <3>3, <3>4, <3>5
  <2>3. ASSUME NEW x \in Matches(want[r]), Go(r, "row"), row' = [row EXCEPT ![r] = x],
               ent' = [ent EXCEPT ![r] = [roles[x] EXCEPT !.state = "active"]]
        PROVE  OnceInv'
    <3>1. x \in Present
      BY DEF Matches
    <3> QED
      BY <2>1, <2>3, <3>1, <1>2, Row
  <2> QED
    BY <1>3, <2>2, <2>3 DEF Find
<1>4. ASSUME NEW r \in Reqs, Grant(r) PROVE OnceInv'
  <2>1. PICK x \in Rows \ Present : roles' = [roles EXCEPT ![x] = [key |-> want[r], state |-> "active"]]
    BY <1>4 DEF Grant
  <2>2. /\ Go(r, AfterGrant(r)) /\ AfterGrant(r) \in {"lookup", "done"} /\ Overtake(r)
        /\ pc[r] = "grant"
    BY <1>4 DEF Grant, AfterGrant
  <2>3. /\ Present' = Present \cup {x} /\ roles'[x].key = want[r]
        /\ \A y \in Present : roles'[y] = roles[y]
    BY <2>1 DEF Present, RefersInv, TypeOK
  <2>4. ASSUME Late' = {}, Unique PROVE Unique'
    <3>1. r \notin overtaken
      BY <2>2, <2>4 DEF Late, Go, Overtake, RefersInv, TypeOK
    <3>2. want[r].resource # None => \A y \in Present : roles[y].key # want[r]
      BY <2>2, <3>1 DEF OnceInv, Found
    <3> QED
      BY <2>3, <2>4, <3>2 DEF Unique
  <2> QED
    BY <2>2, <2>4, LoudOnce
<1>5. ASSUME NEW r \in Reqs, Lookup(r) PROVE OnceInv'
  <2>1. UNCHANGED <<roles, overtaken, want>> /\ pc[r] = "lookup"
    BY <1>5 DEF Lookup
  <2>2. CASE Go(r, "done") /\ UNCHANGED <<opens, row, ent>>
    <3>1. pc'[r] = "done" /\ \A q \in Reqs \ {r} : pc'[q] = pc[q]
      BY <2>2 DEF Go, RefersInv, TypeOK
    <3>2. Found(r)'
      BY <3>1 DEF Found
    <3> QED
      BY <2>1, <2>2, <3>1, <3>2, QuietOnce
  <2>3. ASSUME NEW x \in Matches([want[r] EXCEPT !.resource = None]), Go(r, "row"),
               row' = [row EXCEPT ![r] = x],
               ent' = [ent EXCEPT ![r] = [roles[x] EXCEPT !.state = "inactive"]]
        PROVE  OnceInv'
    <3>1. x \in Present
      BY DEF Matches
    <3> QED
      BY <2>1, <2>3, <3>1, <1>2, Row
  <2> QED
    BY <1>5, <2>2, <2>3 DEF Lookup
<1>6. ASSUME NEW r \in Reqs, SaveRow(r) PROVE OnceInv'
  <2>1. /\ Go(r, AfterGrant(r)) /\ AfterGrant(r) \in {"lookup", "done"}
        /\ pc[r] = "row" /\ UNCHANGED <<want, row, ent>>
    BY <1>6 DEF SaveRow, AfterGrant
  <2>2. CASE roles' = roles
    <3>1. UNCHANGED overtaken
      BY <1>6, <2>2 DEF SaveRow
    <3>2. pc'[r] \in {"lookup", "done"} /\ \A q \in Reqs \ {r} : pc'[q] = pc[q]
      BY <2>1 DEF Go, RefersInv, TypeOK
    <3>3. Found(r)'
      BY <3>2 DEF Found
    <3> QED
      BY <2>1, <2>2, <3>1, <3>2, <3>3, QuietOnce
  <2>3. CASE roles' # roles
    <3>1. Overtake(r) /\ roles' = [roles EXCEPT ![row[r]] = ent[r]]
      BY <1>6, <2>3 DEF SaveRow
    <3>2. ASSUME Late' = {}, Unique PROVE Unique'
      <4>1. r \notin overtaken
        BY <2>1, <3>1, <3>2 DEF Late, Go, Overtake, RefersInv, TypeOK
      <4>2. /\ row[r] \in Present
            /\ ent[r].key = roles[row[r]].key \/ ent[r].key.resource = None
        BY <2>1, <4>1 DEF OnceInv, Found
      <4>3. /\ Present' \subseteq Present /\ roles'[row[r]] = ent[r]
            /\ \A y \in Present \ {row[r]} : roles'[y] = roles[y]
        BY <3>1, <4>2 DEF Present, RefersInv, TypeOK
      <4> QED
        BY <3>2, <4>2, <4>3 DEF Unique
    <3> QED
      BY <2>1, <3>1, <3>2, LoudOnce
  <2> QED
    BY <2>2, <2>3
<1>7. ASSUME NEW r \in Reqs, \/ Remove(r) \/ InsertCommerce(r) \/ SaveCommerce(r) PROVE OnceInv'
  <2>1. PICK label \in {"find", "done"} :
          Go(r, label) /\ Overtake(r) /\ pc[r] \in {"remove", "insert", "shop"}
    BY <1>7 DEF Remove, InsertCommerce, SaveCommerce
  <2>2. Present' \subseteq Present /\ \A y \in Present' : roles'[y] = roles[y]
    BY <1>7 DEF Remove, InsertCommerce, SaveCommerce, Present, NoRow, RefersInv, TypeOK
  <2>3. Unique => Unique'
    BY <2>2 DEF Unique
  <2> QED
    BY <2>1, <2>3, LoudOnce
<1>8. ASSUME NEW r \in Reqs, UpdateRole(r) PROVE OnceInv'
  <2>1. PICK x \in Present, s \in {"active", "inactive"} :
          row' = [row EXCEPT ![r] = x] /\ ent' = [ent EXCEPT ![r] = [roles[x] EXCEPT !.state = s]]
    BY <1>8 DEF UpdateRole
  <2>2. UNCHANGED <<roles, overtaken, want>> /\ Go(r, "row")
    BY <1>8 DEF UpdateRole
  <2> QED
    BY <2>1, <2>2, <1>2, Row
<1>9. ASSUME NEW r \in Reqs, Sync(r) PROVE OnceInv'
  <2>1. UNCHANGED <<roles, overtaken, want>> /\ pc[r] = "sync"
    BY <1>9 DEF Sync
  <2>2. CASE Go(r, "find") /\ UNCHANGED <<row, ent>>
    <3>1. pc'[r] = "find" /\ \A q \in Reqs \ {r} : pc'[q] = pc[q]
      BY <2>2 DEF Go, RefersInv, TypeOK
    <3>2. Found(r)'
      BY <3>1 DEF Found
    <3> QED
      BY <2>1, <2>2, <3>1, <3>2, QuietOnce
  <2>3. ASSUME NEW x \in Present, Go(r, "row"), row' = [row EXCEPT ![r] = x],
               ent' = [ent EXCEPT ![r] = [key |-> want[r], state |-> "active"]]
        PROVE  OnceInv'
    <3>1. [key |-> want[r], state |-> "active"] \in UserRole /\ want[r].resource = None
      BY <2>1, Same DEF UserRole, RefersInv, Refers
    <3> QED
      BY <2>1, <2>3, <3>1, <1>2
  <2> QED
    BY <1>9, <2>2, <2>3 DEF Sync
<1>10. CASE UNCHANGED vars
  BY <1>10 DEF vars, OnceInv, Found, Late, Unique, Present
<1> QED
  BY <1>1, <1>3, <1>4, <1>5, <1>6, <1>7, <1>8, <1>9, <1>10 DEF Next

\* A role in a commerce is in one row as long as nobody has written on what was no
\* longer so (assignRole, which looks first and inserts later).
THEOREM OncePerRole == Spec => []GrantedOnce
<1>1. Init => OnceInv
  BY DEF Init, OnceInv, Found, Unique
<1>2. OnceInv => GrantedOnce
  BY DEF OnceInv, Unique, GrantedOnce
<1> QED
  BY <1>1, <1>2, OnceStep, RefersHold, PTL DEF Spec

-----------------------------------------------------------------------------
(* A merchant stays an owner.  An opening takes back one role of an owner, *)
(* whichever the lookup finds; but its own role has been granted before,   *)
(* and counted: a context in which the merchant was an owner has more such *)
(* roles than openings that are about to take one back.                    *)

Owners(x) == {y \in Rows : /\ roles[y].state = "active" /\ roles[y].key.role = "owner"
                           /\ roles[y].key.context = x}

\* The last ones have not saved the role that they reactivate, but another one has.
TakesBack(x) == {r \in Reqs :
    \/ pc[r] = "lookup" /\ want[r].context = x
    \/ pc[r] = "row" /\ ent[r].state = "inactive" /\ ent[r].key.context = x
    \/ /\ pc[r] = "row" /\ opens[r] # None /\ want[r].context = x
       /\ roles[row[r]].state = "active"}

Opening(r) == opens[r] # None /\ pc[r] \in {"find", "grant", "lookup", "row"}

Opener(r) ==
    /\ opens[r] \in Opened \cup {None} /\ (pc[r] = "idle" => opens[r] = None)
    /\ pc[r] = "insert" => want[r].role = "owner"
    /\ pc[r] \notin {"remove", "sync"}
    /\ pc[r] = "lookup" => opens[r] # None
    /\ Opening(r) => want[r].role = "owner" /\ want[r].resource = opens[r]
    /\ pc[r] = "row" => /\ row[r] \in Present /\ roles[row[r]].key = ent[r].key
                        /\ ent[r].state \in {"active", "inactive"}
                        /\ opens[r] # None => ent[r].key = want[r] /\ ent[r].state = "active"

AccessInv ==
    taken = "no" =>
      /\ \A r \in Reqs : Opener(r)
      /\ \A q, r \in Reqs : Opening(q) /\ Opening(r) /\ opens[q] = opens[r] => q = r
      /\ \A x \in had : Cardinality(TakesBack(x)) < Cardinality(Owners(x))

LEMMA OwnersFinite ==
  /\ \A x : IsFiniteSet(Owners(x)) /\ Cardinality(Owners(x)) \in Nat
  /\ \A x : IsFiniteSet(TakesBack(x)) /\ Cardinality(TakesBack(x)) \in Nat
<1>1. \A x : Owners(x) \subseteq Rows /\ TakesBack(x) \subseteq Reqs
  BY DEF Owners, TakesBack
<1> QED
  BY <1>1, ReqsAssumption, RowsAssumption, FS_Subset, FS_CardinalityType

\* How the two numbers change: both shrink by one, both grow by one, or one does.
LEMMA Fewer ==
  ASSUME NEW S, NEW S1, NEW T, NEW T1, IsFiniteSet(S), IsFiniteSet(T), IsFiniteSet(T1),
         Cardinality(S) < Cardinality(T), S1 \subseteq S, T \subseteq T1
  PROVE  Cardinality(S1) < Cardinality(T1)
<1>1. Cardinality(S1) <= Cardinality(S) /\ Cardinality(T) <= Cardinality(T1) /\ IsFiniteSet(S1)
  BY FS_Subset
<1> QED
  BY <1>1, FS_CardinalityType

LEMMA TakenBack ==
  ASSUME NEW S, NEW S1, NEW T, NEW T1, IsFiniteSet(S), IsFiniteSet(T), IsFiniteSet(T1),
         Cardinality(S) < Cardinality(T),
         NEW r \in S, NEW y, S1 \subseteq S \ {r}, T \ {y} \subseteq T1
  PROVE  Cardinality(S1) < Cardinality(T1)
<1> Cardinality(S) \in Nat /\ Cardinality(T) \in Nat
  BY FS_CardinalityType
<1>1. Cardinality(S \ {r}) = Cardinality(S) - 1 /\ IsFiniteSet(S \ {r})
  BY FS_RemoveElement
<1>2. Cardinality(T \ {y}) >= Cardinality(T) - 1 /\ IsFiniteSet(T \ {y})
  <2>1. CASE y \in T
    <3>1. Cardinality(T \ {y}) = Cardinality(T) - 1 /\ IsFiniteSet(T \ {y})
      BY <2>1, FS_RemoveElement
    <3> QED
      BY <3>1
  <2>2. CASE y \notin T
    <3>1. T \ {y} = T
      BY <2>2
    <3> QED
      BY <3>1
  <2> QED
    BY <2>1, <2>2
<1>3. Cardinality(S1) <= Cardinality(S) - 1 /\ IsFiniteSet(S1)
  BY <1>1, FS_Subset
<1>4. Cardinality(T1) >= Cardinality(T) - 1
  BY <1>2, FS_Subset, FS_CardinalityType
<1> QED
  BY <1>3, <1>4, FS_CardinalityType

LEMMA Added ==
  ASSUME NEW S, NEW S1, NEW T, NEW T1, IsFiniteSet(S), IsFiniteSet(T), IsFiniteSet(T1),
         Cardinality(S) < Cardinality(T),
         NEW r, NEW y, y \notin T, S1 \subseteq S \cup {r}, T \cup {y} \subseteq T1
  PROVE  Cardinality(S1) < Cardinality(T1)
<1> Cardinality(S) \in Nat /\ Cardinality(T) \in Nat
  BY FS_CardinalityType
<1>1. Cardinality(S \cup {r}) <= Cardinality(S) + 1 /\ IsFiniteSet(S \cup {r})
  <2>1. CASE r \notin S
    <3>1. Cardinality(S \cup {r}) = Cardinality(S) + 1 /\ IsFiniteSet(S \cup {r})
      BY <2>1, FS_AddElement
    <3> QED
      BY <3>1
  <2>2. CASE r \in S
    <3>1. S \cup {r} = S
      BY <2>2
    <3> QED
      BY <3>1
  <2> QED
    BY <2>1, <2>2
<1>2. Cardinality(T \cup {y}) = Cardinality(T) + 1 /\ IsFiniteSet(T \cup {y})
  BY FS_AddElement
<1>3. Cardinality(S1) <= Cardinality(S) + 1 /\ IsFiniteSet(S1)
  BY <1>1, FS_Subset, FS_CardinalityType
<1>4. Cardinality(T1) >= Cardinality(T) + 1
  BY <1>2, FS_Subset, FS_CardinalityType
<1> QED
  BY <1>3, <1>4, FS_CardinalityType

\* A step that leaves the roles as they are: no other request can take one back.
LEMMA QuietAccess ==
  ASSUME RefersInv, AccessInv, NEW r \in Reqs, UNCHANGED <<roles, had>>, Opened \subseteq Opened',
         taken' = "no" => taken = "no",
         \A q \in Reqs \ {r} : /\ pc'[q] = pc[q] /\ want'[q] = want[q] /\ opens'[q] = opens[q]
                               /\ ent'[q] = ent[q] /\ row'[q] = row[q],
         taken' = "no" => /\ Opener(r)'
                          /\ Opening(r)' => \A q \in Reqs \ {r} : Opening(q) => opens[q] # opens'[r]
                          /\ \A x \in had : r \in TakesBack(x)' => r \in TakesBack(x)
  PROVE  AccessInv'
<1> SUFFICES ASSUME taken' = "no" PROVE AccessInv!2'
  BY DEF AccessInv
<1>1. Present' = Present /\ \A x : Owners(x)' = Owners(x)
  BY DEF Present, Owners
<1>2. \A q \in Reqs : Opener(q)'
  BY <1>1 DEF AccessInv, Opener, Opening
<1>3. \A q \in Reqs \ {r} : Opening(q)' <=> Opening(q)
  BY DEF Opening
<1>4. \A q, p \in Reqs : Opening(q)' /\ Opening(p)' /\ opens'[q] = opens'[p] => q = p
  BY <1>3 DEF AccessInv
<1>5. \A x \in had : TakesBack(x)' \subseteq TakesBack(x)
  BY DEF TakesBack
<1>6. \A x \in had' : Cardinality(TakesBack(x)') < Cardinality(Owners(x)')
  BY <1>1, <1>5, Fewer, OwnersFinite DEF AccessInv
<1> QED
  BY <1>2, <1>4, <1>6

\* The same for a step that writes a row of user_roles and keeps its key.
LEMMA WriteAccess ==
  ASSUME RefersInv, AccessInv, taken = "no", NEW r \in Reqs, NEW label \in {"lookup", "done"},
         UNCHANGED <<commerces, opens, want, row, ent, taken, had>>, Go(r, label),
         label = "lookup" <=> opens[r] # None, pc[r] \in {"grant", "row"},
         NEW y \in Rows, NEW u \in UserRole, roles'[y] = u, \A x \in Rows \ {y} : roles'[x] = roles[x],
         \A q \in Reqs \ {r} : pc[q] = "row" /\ row[q] = y =>
            u.key = roles[y].key /\ u.state # "gone",
         \A x \in had : Cardinality(TakesBack(x)') < Cardinality(Owners(x)')
  PROVE  AccessInv'
<1>1. /\ pc'[r] = label /\ \A q \in Reqs \ {r} : pc'[q] = pc[q]
      /\ roles'[y] = u /\ \A x \in Rows \ {y} : roles'[x] = roles[x]
  BY DEF Go, RefersInv, TypeOK
<1>2. Opener(r)'
  BY <1>1 DEF AccessInv, Opener, Opening, Opened
<1>3. ASSUME NEW q \in Reqs \ {r} PROVE Opener(q)'
  <2>1. Opener(q)
    BY DEF AccessInv
  <2>2. pc[q] = "row" => row[q] \in Present' /\ roles'[row[q]].key = ent[q].key
    BY <1>1, <2>1 DEF Opener, Present
  <2> QED
    BY <1>1, <2>1, <2>2 DEF Opener, Opening, Opened
<1>4. \A q \in Reqs : Opening(q)' => Opening(q)
  BY <1>1 DEF Opening
<1>5. \A q, p \in Reqs : Opening(q)' /\ Opening(p)' /\ opens'[q] = opens'[p] => q = p
  BY <1>4 DEF AccessInv
<1> QED
  BY <1>2, <1>3, <1>5 DEF AccessInv

LEMMA GrantAccess ==
  ASSUME RefersInv, AccessInv, taken = "no", NEW r \in Reqs, Grant(r)
  PROVE  AccessInv'
<1>0. PICK u \in UserRole : u = [key |-> want[r], state |-> "active"]
  BY DEF RefersInv, TypeOK, UserRole
<1>1. PICK y \in Rows \ Present : /\ roles' = [roles EXCEPT ![y] = u]
                                 /\ \A q \in Reqs : row[q] = y => pc[q] # "row"
  BY <1>0 DEF Grant
<1>2. /\ UNCHANGED <<commerces, opens, want, row, ent, taken, had>> /\ pc[r] = "grant"
      /\ Go(r, AfterGrant(r)) /\ AfterGrant(r) \in {"lookup", "done"}
      /\ AfterGrant(r) = "lookup" <=> opens[r] # None
  BY DEF Grant, AfterGrant
<1>3. u \in UserRole /\ u.key = want[r] /\ u.state = "active" /\ roles[y].state = "gone"
  BY <1>0, <1>1, Same DEF UserRole, Present
<1>4. /\ pc'[r] = AfterGrant(r) /\ \A q \in Reqs \ {r} : pc'[q] = pc[q]
      /\ roles'[y] = u /\ \A x \in Rows \ {y} : roles'[x] = roles[x]
  BY <1>1, <1>2 DEF Go, RefersInv, TypeOK
<1>5. ASSUME NEW x \in had PROVE Cardinality(TakesBack(x)') < Cardinality(Owners(x)')
  <2>1. Cardinality(TakesBack(x)) < Cardinality(Owners(x)) /\ y \notin Owners(x)
    BY <1>3 DEF AccessInv, Owners
  <2>2. Owners(x) \subseteq Owners(x)'
    BY <1>3, <1>4 DEF Owners
  <2>3. \A q \in Reqs \ {r} : q \in TakesBack(x)' => q \in TakesBack(x)
    BY <1>1, <1>2, <1>4, Same DEF TakesBack
  <2>4. IsFiniteSet(Owners(x)')
    BY RowsAssumption, FS_Subset DEF Owners
  <2>5. CASE r \in TakesBack(x)'
    <3>1. opens[r] # None /\ want[r].context = x
      BY <1>2, <1>4, <2>5 DEF TakesBack
    <3>2. want[r].role = "owner"
      BY <1>2, <3>1 DEF AccessInv, Opener, Opening
    <3>3. y \in Owners(x)'
      BY <1>3, <1>4, <3>1, <3>2 DEF Owners
    <3>4. TakesBack(x)' \subseteq TakesBack(x) \cup {r}
      BY <2>3 DEF TakesBack
    <3> QED
      BY <2>1, <2>2, <2>4, <3>3, <3>4, Added, OwnersFinite
  <2>6. CASE r \notin TakesBack(x)'
    <3>1. TakesBack(x)' \subseteq TakesBack(x)
      BY <2>3, <2>6 DEF TakesBack
    <3> QED
      BY <2>1, <2>2, <2>4, <3>1, Fewer, OwnersFinite
  <2> QED
    BY <2>5, <2>6
<1>6. \A q \in Reqs \ {r} : pc[q] = "row" /\ row[q] = y => u.key = roles[y].key /\ u.state # "gone"
  BY <1>1
<1>7. u \in UserRole /\ y \in Rows /\ roles'[y] = u /\ \A x \in Rows \ {y} : roles'[x] = roles[x]
  BY <1>4
<1>8. \A x \in had : Cardinality(TakesBack(x)') < Cardinality(Owners(x)')
  BY <1>5
<1> QED
  BY <1>2, <1>6, <1>7, <1>8, WriteAccess

LEMMA SaveAccess ==
  ASSUME RefersInv, AccessInv, taken = "no", NEW r \in Reqs, SaveRow(r)
  PROVE  AccessInv'
<1> DEFINE y == row[r]
<1> DEFINE u == ent[r]
<1>1. /\ UNCHANGED <<commerces, opens, want, row, ent, taken, had>> /\ pc[r] = "row"
      /\ Go(r, AfterGrant(r)) /\ AfterGrant(r) \in {"lookup", "done"}
      /\ AfterGrant(r) = "lookup" <=> opens[r] # None
      /\ roles' = [roles EXCEPT ![y] = u]
  BY DEF SaveRow, AfterGrant
<1>2. /\ y \in Rows /\ u \in UserRole /\ y \in Present /\ u.key = roles[y].key
      /\ u.state \in {"active", "inactive"}
      /\ opens[r] # None => u.key = want[r] /\ u.state = "active"
  BY <1>1, Same DEF AccessInv, Opener
<1>3. /\ pc'[r] = AfterGrant(r) /\ \A q \in Reqs \ {r} : pc'[q] = pc[q]
      /\ roles'[y] = u /\ \A x \in Rows \ {y} : roles'[x] = roles[x]
  BY <1>1, <1>2 DEF Go, RefersInv, TypeOK
<1>4. ASSUME NEW x \in had PROVE Cardinality(TakesBack(x)') < Cardinality(Owners(x)')
  <2>1. Cardinality(TakesBack(x)) < Cardinality(Owners(x))
    BY DEF AccessInv
  <2>2. IsFiniteSet(Owners(x)')
    BY RowsAssumption, FS_Subset DEF Owners
  <2>3. CASE u.state = "inactive"
    <3>1. AfterGrant(r) = "done"
      BY <1>1, <1>2, <2>3
    <3>2. TakesBack(x)' \subseteq TakesBack(x) \ {r}
      BY <1>1, <1>3, <2>3, <3>1, Same DEF TakesBack
    <3>3. Owners(x) \ {y} \subseteq Owners(x)'
      BY <1>3 DEF Owners
    <3>4. CASE u.key.context = x
      <4>1. r \in TakesBack(x)
        BY <1>1, <2>3, <3>4 DEF TakesBack
      <4> QED
        BY <2>1, <2>2, <3>2, <3>3, <4>1, TakenBack, OwnersFinite
    <3>5. CASE u.key.context # x
      <4>1. Owners(x) \subseteq Owners(x)'
        BY <1>2, <1>3, <3>5 DEF Owners
      <4> QED
        BY <2>1, <2>2, <3>2, <4>1, Fewer, OwnersFinite
    <3> QED
      BY <3>4, <3>5
  <2>4. CASE u.state = "active" /\ roles[y].state = "active"
    <3>1. \A z \in Rows : roles'[z].state = roles[z].state /\ roles'[z].key = roles[z].key
      BY <1>2, <1>3, <2>4
    <3>2. Owners(x) \subseteq Owners(x)'
      BY <3>1 DEF Owners
    <3>3. \A q \in Reqs \ {r} : q \in TakesBack(x)' => q \in TakesBack(x)
      BY <1>1, <1>3, <3>1, Same DEF TakesBack
    <3>4. r \in TakesBack(x)' => r \in TakesBack(x)
      BY <1>1, <1>3, <2>4 DEF TakesBack
    <3>5. TakesBack(x)' \subseteq TakesBack(x)
      BY <3>3, <3>4 DEF TakesBack
    <3> QED
      BY <2>1, <2>2, <3>2, <3>5, Fewer, OwnersFinite
  <2>5. CASE u.state = "active" /\ roles[y].state # "active"
    <3>1. Owners(x) \subseteq Owners(x)' /\ y \notin Owners(x)
      BY <1>3, <2>5 DEF Owners
    <3>2. ASSUME NEW q \in Reqs, q \in TakesBack(x)', q \notin TakesBack(x)
          PROVE  /\ opens[q] # None /\ pc[q] = "row" /\ row[q] = y /\ want[q].context = x
      <4>1. CASE q = r
        BY <1>1, <1>3, <2>5, <3>2, <4>1, <1>2 DEF TakesBack
      <4>2. CASE q # r
        BY <1>1, <1>3, <3>2, <4>2, Same DEF TakesBack
      <4> QED
        BY <4>1, <4>2
    <3>3. ASSUME NEW q \in Reqs, opens[q] # None, pc[q] = "row", row[q] = y
          PROVE  /\ Opening(q) /\ u.key = want[q] /\ want[q].role = "owner"
                 /\ want[q].resource = opens[q]
      BY <1>2, <3>3 DEF AccessInv, Opener, Opening
    <3>4. CASE TakesBack(x)' \subseteq TakesBack(x)
      BY <2>1, <2>2, <3>1, <3>4, Fewer, OwnersFinite
    <3>5. CASE ~(TakesBack(x)' \subseteq TakesBack(x))
      <4>1. PICK q \in Reqs : q \in TakesBack(x)' /\ q \notin TakesBack(x)
        BY <3>5 DEF TakesBack
      <4>2. ASSUME NEW p \in Reqs, p \in TakesBack(x)', p \notin TakesBack(x) PROVE p = q
        BY <3>2, <3>3, <4>1, <4>2 DEF AccessInv
      <4>3. TakesBack(x)' \subseteq TakesBack(x) \cup {q}
        BY <4>2 DEF TakesBack
      <4>4. y \in Owners(x)'
        BY <1>2, <1>3, <2>5, <3>2, <3>3, <4>1 DEF Owners
      <4> QED
        BY <2>1, <2>2, <3>1, <4>3, <4>4, Added, OwnersFinite
    <3> QED
      BY <3>4, <3>5
  <2> QED
    BY <1>2, <2>3, <2>4, <2>5
<1> QED
  BY <1>1, <1>2, <1>3, <1>4, WriteAccess

LEMMA AccessStep == RefersInv /\ AccessInv /\ [Next]_vars => AccessInv'
<1> SUFFICES ASSUME RefersInv, AccessInv, [Next]_vars PROVE AccessInv'
  OBVIOUS
<1>1. ASSUME NEW r \in Reqs, RevokeRole(r) \/ UpdateRole(r) \/ ChangeOwnRole(r) PROVE AccessInv'
  BY <1>1 DEF RevokeRole, UpdateRole, ChangeOwnRole, AccessInv
<1>2. ASSUME NEW r \in Reqs, Remove(r) \/ Sync(r) PROVE AccessInv'
  <2>1. taken' = taken /\ pc[r] \in {"remove", "sync"}
    BY <1>2 DEF Remove, Sync
  <2> QED
    BY <2>1 DEF AccessInv, Opener
<1>3. ASSUME NEW r \in Reqs, Create(r) PROVE AccessInv'
  <2>1. /\ UNCHANGED <<commerces, roles, opens, row, ent, taken, had>> /\ Opened' = Opened
        /\ pc[r] = "idle" /\ pc'[r] = "insert" /\ want'[r].role = "owner"
        /\ \A q \in Reqs \ {r} : pc'[q] = pc[q] /\ want'[q] = want[q]
    BY <1>3 DEF Create, Go, RefersInv, TypeOK, Opened
  <2>2. taken' = "no" => Opener(r)' /\ ~Opening(r)' /\ \A x : r \notin TakesBack(x)'
    BY <2>1 DEF AccessInv, Opener, Opening, TakesBack
  <2> QED
    BY <2>1, <2>2, QuietAccess
<1>4. ASSUME NEW r \in Reqs, InsertCommerce(r) PROVE AccessInv'
  <2>1. PICK c \in Ids \ Opened :
          /\ commerces' = [commerces EXCEPT ![c] = "active"]
          /\ opens' = [opens EXCEPT ![r] = c]
          /\ want' = [want EXCEPT ![r].resource = c]
    BY <1>4 DEF InsertCommerce
  <2>2. UNCHANGED <<roles, row, ent, taken, had>> /\ pc[r] = "insert" /\ Go(r, "find")
    BY <1>4 DEF InsertCommerce
  <2>3. /\ pc'[r] = "find" /\ opens'[r] = c
        /\ \A q \in Reqs \ {r} : pc'[q] = pc[q] /\ want'[q] = want[q] /\ opens'[q] = opens[q]
    BY <2>1, <2>2 DEF Go, RefersInv, TypeOK
  <2>4. want'[r].resource = c /\ want'[r].role = want[r].role
    BY <2>1, Same DEF Key, RefersInv, TypeOK
  <2>5. Opened \subseteq Opened' /\ c \in Opened'
    BY <2>1 DEF Opened, RefersInv, TypeOK
  <2>6. taken' = "no" => Opener(r)'
    BY <2>2, <2>3, <2>4, <2>5 DEF AccessInv, Opener, Opening
  <2>7. taken' = "no" => \A q \in Reqs \ {r} : Opening(q) => opens[q] # opens'[r]
    BY <2>1, <2>2, <2>3, IdsAssumption DEF AccessInv, Opener, Opening
  <2>8. \A x : r \notin TakesBack(x)'
    BY <2>3 DEF TakesBack
  <2> QED
    BY <2>2, <2>3, <2>5, <2>6, <2>7, <2>8, QuietAccess
<1>5. ASSUME NEW r \in Reqs, Refuse(r) PROVE AccessInv'
  <2>1. /\ UNCHANGED <<commerces, roles, opens, want, row, ent, taken, had>> /\ Opened' = Opened
        /\ pc'[r] = "refused" /\ \A q \in Reqs \ {r} : pc'[q] = pc[q]
    BY <1>5 DEF Refuse, Go, RefersInv, TypeOK, Opened
  <2>2. taken' = "no" => Opener(r)' /\ ~Opening(r)' /\ \A x : r \notin TakesBack(x)'
    BY <2>1 DEF AccessInv, Opener, Opening, TakesBack
  <2> QED
    BY <2>1, <2>2, QuietAccess
<1>6. ASSUME NEW r \in Reqs, Find(r) PROVE AccessInv'
  <2>1. UNCHANGED <<commerces, roles, opens, want, taken, had>> /\ Opened' = Opened /\ pc[r] = "find"
    BY <1>6 DEF Find, Opened
  <2>2. CASE UNCHANGED <<row, ent>> /\ (Go(r, "grant") \/ Go(r, "refused"))
    <3>1. pc'[r] \in {"grant", "refused"} /\ \A q \in Reqs \ {r} : pc'[q] = pc[q]
      BY <2>2 DEF Go, RefersInv, TypeOK
    <3>2. Opening(r)' => Opening(r)
      BY <2>1, <3>1 DEF Opening
    <3>3. taken' = "no" => Opener(r)' /\ \A x : r \notin TakesBack(x)'
      BY <2>1, <3>1, <3>2 DEF AccessInv, Opener, TakesBack, Opening
    <3>4. taken' = "no" => (Opening(r)' => \A q \in Reqs \ {r} : Opening(q) => opens[q] # opens'[r])
      BY <2>1, <3>2 DEF AccessInv
    <3> QED
      BY <2>1, <2>2, <3>1, <3>3, <3>4, QuietAccess
  <2>3. ASSUME NEW x \in Matches(want[r]), roles[x].state = "inactive", Go(r, "row"),
               row' = [row EXCEPT ![r] = x],
               ent' = [ent EXCEPT ![r] = [roles[x] EXCEPT !.state = "active"]]
        PROVE  AccessInv'
    <3>1. /\ x \in Present /\ roles[x].key.role = want[r].role
          /\ roles[x].key.context = want[r].context
          /\ want[r].resource \in {None, roles[x].key.resource}
      BY DEF Matches
    <3>2. /\ pc'[r] = "row" /\ row'[r] = x /\ ent'[r] = [roles[x] EXCEPT !.state = "active"]
          /\ \A q \in Reqs \ {r} : pc'[q] = pc[q] /\ row'[q] = row[q] /\ ent'[q] = ent[q]
      BY <2>3 DEF Go, RefersInv, TypeOK
    <3>3. ent'[r].key = roles[x].key /\ ent'[r].state = "active" /\ roles[x].key \in Key
      BY <3>1, <3>2, Row DEF UserRole
    <3>4. Opening(r)' => Opening(r)
      BY <2>1 DEF Opening
    <3>5. taken' = "no" /\ opens[r] # None => ent'[r].key = want[r]
      <4>1. taken' = "no" /\ opens[r] # None => want[r].resource = opens[r]
        BY <2>1 DEF AccessInv, Opener, Opening
      <4>2. taken' = "no" /\ opens[r] # None => roles[x].key.resource = want[r].resource
        BY <3>1, <4>1
      <4> QED
        BY <3>1, <3>3, <4>2, Same DEF Key
    <3>6. taken' = "no" => Opener(r)'
      BY <2>1, <3>1, <3>2, <3>3, <3>4, <3>5 DEF AccessInv, Opener, Opening, Present
    <3>7. \A z : r \notin TakesBack(z)'
      BY <2>1, <2>3, <3>2, <3>3 DEF TakesBack
    <3>8. taken' = "no" => (Opening(r)' => \A q \in Reqs \ {r} : Opening(q) => opens[q] # opens'[r])
      BY <2>1, <3>4 DEF AccessInv
    <3> QED
      BY <2>1, <3>2, <3>6, <3>7, <3>8, QuietAccess
  <2> QED
    BY <1>6, <2>2, <2>3 DEF Find
<1>7. ASSUME NEW r \in Reqs, Grant(r) PROVE AccessInv'
  <2>1. taken' = taken
    BY <1>7 DEF Grant
  <2> QED
    BY <1>7, <2>1, GrantAccess, Same DEF AccessInv
<1>8. ASSUME NEW r \in Reqs, Lookup(r) PROVE AccessInv'
  <2>1. UNCHANGED <<commerces, roles, want, taken, had>> /\ Opened' = Opened /\ pc[r] = "lookup"
    BY <1>8 DEF Lookup, Opened
  <2>2. CASE UNCHANGED <<opens, row, ent>> /\ Go(r, "done")
    <3>1. pc'[r] = "done" /\ \A q \in Reqs \ {r} : pc'[q] = pc[q]
      BY <2>2 DEF Go, RefersInv, TypeOK
    <3>2. taken' = "no" => Opener(r)' /\ ~Opening(r)' /\ \A x : r \notin TakesBack(x)'
      BY <2>1, <2>2, <3>1 DEF AccessInv, Opener, Opening, TakesBack
    <3> QED
      BY <2>1, <2>2, <3>1, <3>2, QuietAccess
  <2>3. ASSUME NEW x \in Matches([want[r] EXCEPT !.resource = None]), Go(r, "row"),
               row' = [row EXCEPT ![r] = x], opens' = [opens EXCEPT ![r] = None],
               ent' = [ent EXCEPT ![r] = [roles[x] EXCEPT !.state = "inactive"]]
        PROVE  AccessInv'
    <3>1. x \in Present /\ roles[x].key.context = want[r].context
      BY Same DEF Matches, Key
    <3>2. /\ pc'[r] = "row" /\ row'[r] = x /\ ent'[r] = [roles[x] EXCEPT !.state = "inactive"]
          /\ opens'[r] = None
          /\ \A q \in Reqs \ {r} : /\ pc'[q] = pc[q] /\ row'[q] = row[q] /\ ent'[q] = ent[q]
                                    /\ opens'[q] = opens[q]
      BY <2>3 DEF Go, RefersInv, TypeOK
    <3>3. ent'[r].key = roles[x].key /\ ent'[r].state = "inactive"
      BY <3>1, <3>2, Row
    <3>4. taken' = "no" => Opener(r)' /\ ~Opening(r)'
      BY <2>1, <3>1, <3>2, <3>3 DEF Opener, Opening, Present
    <3>5. \A z : r \in TakesBack(z)' => r \in TakesBack(z)
      BY <2>1, <3>1, <3>2, <3>3 DEF TakesBack
    <3> QED
      BY <2>1, <3>2, <3>4, <3>5, QuietAccess
  <2> QED
    BY <1>8, <2>2, <2>3 DEF Lookup
<1>9. ASSUME NEW r \in Reqs, SaveRow(r) PROVE AccessInv'
  <2>1. taken' = taken
    BY <1>9 DEF SaveRow
  <2> QED
    BY <1>9, <2>1, SaveAccess, Same DEF AccessInv
<1>10. ASSUME NEW r \in Reqs, AssignRole(r) PROVE AccessInv'
  <2>1. /\ UNCHANGED <<commerces, roles, opens, row, ent, taken, had>> /\ Opened' = Opened
        /\ pc[r] = "idle" /\ pc'[r] = "find"
        /\ \A q \in Reqs \ {r} : pc'[q] = pc[q] /\ want'[q] = want[q]
    BY <1>10 DEF AssignRole, Go, RefersInv, TypeOK, Opened
  <2>2. taken' = "no" => Opener(r)' /\ ~Opening(r)' /\ \A x : r \notin TakesBack(x)'
    BY <2>1 DEF AccessInv, Opener, Opening, TakesBack
  <2> QED
    BY <2>1, <2>2, QuietAccess
<1>11. ASSUME NEW r \in Reqs, LoadCommerce(r) PROVE AccessInv'
  <2>1. PICK c \in Opened : opens' = [opens EXCEPT ![r] = c]
    BY <1>11 DEF LoadCommerce
  <2>2. /\ UNCHANGED <<commerces, roles, want, row, taken, had>> /\ Opened' = Opened
        /\ pc'[r] = "shop" /\ opens'[r] \in Opened
        /\ \A q \in Reqs \ {r} : pc'[q] = pc[q] /\ opens'[q] = opens[q] /\ ent'[q] = ent[q]
    BY <1>11, <2>1 DEF LoadCommerce, Go, RefersInv, TypeOK, Opened
  <2>3. taken' = "no" => Opener(r)' /\ ~Opening(r)' /\ \A x : r \notin TakesBack(x)'
    BY <2>2 DEF Opener, Opening, TakesBack
  <2> QED
    BY <2>2, <2>3, QuietAccess
<1>12. ASSUME NEW r \in Reqs, SaveCommerce(r) PROVE AccessInv'
  <2>1. /\ UNCHANGED <<roles, opens, want, row, ent, taken, had>> /\ pc[r] = "shop"
        /\ pc'[r] = "done" /\ \A q \in Reqs \ {r} : pc'[q] = pc[q]
        /\ commerces' = [commerces EXCEPT ![opens[r]] = ent[r].state]
    BY <1>12 DEF SaveCommerce, Go, RefersInv, TypeOK
  <2>2. ent[r].state # "none"
    BY Same DEF UserRole
  <2>3. Opened \subseteq Opened'
    BY <2>1, <2>2 DEF Opened, RefersInv, TypeOK
  <2>4. taken' = "no" => Opener(r)' /\ ~Opening(r)' /\ \A x : r \notin TakesBack(x)'
    BY <2>1, <2>3 DEF AccessInv, Opener, Opening, TakesBack
  <2> QED
    BY <2>1, <2>3, <2>4, QuietAccess
<1>13. CASE UNCHANGED vars
  BY <1>13 DEF vars, AccessInv, Opener, Opening, TakesBack, Owners, Opened, Present
<1> QED
  BY <1>1, <1>2, <1>3, <1>4, <1>5, <1>6, <1>7, <1>8, <1>9, <1>10, <1>11, <1>12, <1>13 DEF Next

\* However the openings and the grants mix, a merchant who was an owner in a context
\* stays one until an administrator or a change of the own business takes the role.
THEOREM StaysOwner == Spec => []KeepsAccess
<1>1. Init => AccessInv
  <2> SUFFICES ASSUME Init PROVE AccessInv
    OBVIOUS
  <2>1. \A r \in Reqs : Opener(r) /\ ~Opening(r)
    BY DEF Init, Opener, Opening
  <2>2. ASSUME NEW x \in had PROVE Cardinality(TakesBack(x)) < Cardinality(Owners(x))
    <3>1. TakesBack(x) = {}
      BY DEF Init, TakesBack
    <3>2. Owners(x) # {}
      BY DEF Init, Owns, Owners, Present
    <3>3. Cardinality(TakesBack(x)) = 0 /\ Cardinality(Owners(x)) # 0
      BY <3>1, <3>2, OwnersFinite, FS_EmptySet
    <3> QED
      BY <3>3, OwnersFinite
  <2> QED
    BY <2>1, <2>2 DEF AccessInv
<1>2. AccessInv => KeepsAccess
  <2> SUFFICES ASSUME AccessInv, taken = "no", NEW x \in had PROVE Owns(x)
    BY DEF KeepsAccess
  <2>1. Cardinality(Owners(x)) > 0
    BY OwnersFinite DEF AccessInv
  <2>2. Owners(x) # {}
    BY <2>1, FS_EmptySet
  <2> QED
    BY <2>2 DEF Owners, Owns, Present
<1> QED
  BY <1>1, <1>2, AccessStep, RefersHold, PTL DEF Spec
=============================================================================
