---------------------------- MODULE AccountsProofs ----------------------------
(***************************************************************************)
(* Proofs about Accounts, for any number of requests, users and codes: its *)
(* types, that the e-mail has one account and the account a role, that a   *)
(* code is used once, and what one request changes.                        *)
(***************************************************************************)
EXTENDS Accounts, TLAPS

-----------------------------------------------------------------------------
(* What holds of every request.                                            *)

Request(r) ==
    /\ pc[r] = "idle" => kind[r] = "none"
    /\ pc[r] \in {"idle", "email", "load", "create", "insert"} => ent[r] = NoRow /\ code[r] = None
    /\ pc[r] \in {"email", "load"} => kind[r] = "login"
    /\ pc[r] = "create" => kind[r] = "social"
    /\ pc[r] \in {"insert", "main", "customer"} => kind[r] \in {"register", "social"}
    /\ pc[r] = "save" => kind[r] \in {"login", "social", "profile", "reset"} /\ ent[r].state = "here"
    /\ pc[r] \in {"code", "send", "drop", "use"} => kind[r] = "reset"
    /\ pc[r] = "code" => ent[r].state = "here"
    /\ pc[r] \in {"load", "save", "main", "customer", "delete", "code", "send", "drop", "use"} =>
         user[r] # None
    /\ pc[r] \in {"drop", "use"} \/ (pc[r] = "save" /\ kind[r] = "reset") => code[r] # None
    /\ r \in failed => pc[r] \in {"customer", "done"}

RequestInv == TypeOK /\ \A r \in Reqs : Request(r)

-----------------------------------------------------------------------------
(* What a request that nobody has overtaken can rely on.                   *)

Current(r) ==
    /\ user[r] \in Here
    /\ kind[r] # "reset" \/ pc[r] = "code" => ent[r].pw = users[user[r]].pw
    /\ kind[r] \notin {"login", "social"} => ent[r].social = users[user[r]].social

Snapshot(r) ==
    /\ pc[r] = "insert" => Here = {}
    /\ pc[r] \in {"save", "code"} => Current(r)
    /\ pc[r] \in {"drop", "use"} \/ (pc[r] = "save" /\ kind[r] = "reset") => codes[code[r]] = user[r]

SnapshotInv == \A r \in Reqs \ overtaken : Snapshot(r)

Inv == RequestInv /\ SnapshotInv

-----------------------------------------------------------------------------
(* The passwords and the codes.                                            *)

\* The password of a request is found only after the request has set it.
Set(r) == ent[r].pw = r \/ (kind[r] = "register" /\ pc[r] \notin {"idle", "insert"})

\* A reset that has set it has a code, which it has used up when it is done.
Code(r) ==
    kind[r] = "reset" /\ ent[r].pw = r =>
      /\ pc[r] \in {"save", "use", "done"} /\ code[r] # None
      /\ pc[r] = "done" => codes[code[r]] = None

CodeInv ==
    /\ \A r \in Reqs, i \in Ids : users[i].pw = r => Set(r)
    /\ \A q, r \in Reqs : ent[q].pw = r => Set(r)
    /\ \A r \in Reqs : Code(r)
    /\ CodeOnce

-----------------------------------------------------------------------------
(* The first two are inductive.                                            *)

LEMMA RowTyped ==
  /\ NoRow \in Row /\ NoRow.state = "gone" /\ NoRow.pw = None
  /\ \A e \in Row : /\ [e EXCEPT !.social = "yes"] \in Row
                    /\ [e EXCEPT !.social = "yes"].state = e.state
                    /\ [e EXCEPT !.social = "yes"].pw = e.pw
  /\ \A e \in Row, r \in Reqs : /\ [e EXCEPT !.pw = r] \in Row /\ [e EXCEPT !.pw = r].pw = r
                                /\ [e EXCEPT !.pw = r].state = e.state
                                /\ [e EXCEPT !.pw = r].social = e.social
BY DEF NoRow, Row

LEMMA InitInv == Init => Inv
<1> SUFFICES ASSUME Init PROVE Inv
  OBVIOUS
<1>1. users \in [Ids -> Row]
  BY RowTyped DEF Init, Row
<1>2. codes \in [Codes -> Ids \cup {None}] /\ roles \in [Ids -> SUBSET Role]
      /\ \A i \in Ids \ Here : roles[i] = {}
  BY DEF Init, Here, Role
<1>3. TypeOK
  BY <1>1, <1>2, RowTyped DEF Init, TypeOK, Label, Kind
<1>4. \A r \in Reqs : Request(r) /\ Snapshot(r)
  BY DEF Init, Request, Snapshot
<1> QED
  BY <1>3, <1>4 DEF Inv, RequestInv, SnapshotInv

LEMMA Of ==
  ASSUME Inv, NEW r \in Reqs
  PROVE  /\ pc[r] \in Label /\ kind[r] \in Kind /\ user[r] \in Ids \cup {None}
         /\ ent[r] \in Row /\ code[r] \in Codes \cup {None}
         /\ Request(r) /\ (r \notin overtaken => Snapshot(r))
BY DEF Inv, RequestInv, SnapshotInv, TypeOK

LEMMA Typed ==
  ASSUME Inv
  PROVE  /\ users \in [Ids -> Row] /\ roles \in [Ids -> SUBSET Role]
         /\ \A i \in Ids \ Here : roles[i] = {}
         /\ codes \in [Codes -> Ids \cup {None}] /\ pc \in [Reqs -> Label]
         /\ kind \in [Reqs -> Kind] /\ user \in [Reqs -> Ids \cup {None}]
         /\ ent \in [Reqs -> Row] /\ code \in [Reqs -> Codes \cup {None}]
         /\ overtaken \subseteq Reqs /\ failed \subseteq Reqs
BY DEF Inv, RequestInv, TypeOK

\* What the other requests rely on stands, or they are overtaken.
LEMMA OthersKeep ==
  ASSUME Inv, NEW q \in Reqs,
         pc'[q] = pc[q], kind'[q] = kind[q], user'[q] = user[q], ent'[q] = ent[q], code'[q] = code[q],
         q \in failed' => q \in failed, overtaken \subseteq overtaken',
         \/ UNCHANGED <<users, codes>>
         \/ pc[q] \in Await => q \in overtaken'
  PROVE  Request(q)' /\ (q \notin overtaken' => Snapshot(q)')
<1>1. Request(q) /\ (q \notin overtaken => Snapshot(q)) /\ Request(q)'
  BY Of DEF Request
<1>2. CASE UNCHANGED <<users, codes>>
  BY <1>1, <1>2 DEF Snapshot, Current, Here
<1>3. CASE pc[q] \in Await => q \in overtaken'
  BY <1>1, <1>3 DEF Snapshot, Await, Label
<1> QED
  BY <1>2, <1>3

\* A step changes the request whose turn it is, and no other one.
Framed(r) ==
    /\ pc' \in [Reqs -> Label] /\ kind' \in [Reqs -> Kind] /\ user' \in [Reqs -> Ids \cup {None}]
    /\ ent' \in [Reqs -> Row] /\ code' \in [Reqs -> Codes \cup {None}]
    /\ \A q \in Reqs \ {r} : /\ pc'[q] = pc[q] /\ kind'[q] = kind[q] /\ user'[q] = user[q]
                            /\ ent'[q] = ent[q] /\ code'[q] = code[q]

\* The steps that only read.
LEMMA Reads ==
  ASSUME Inv, NEW r \in Reqs, ReadOnly,
         Framed(r), Request(r)', r \notin overtaken => Snapshot(r)'
  PROVE  Inv'
<1>1. TypeOK'
  BY Typed DEF TypeOK, ReadOnly, Here, Framed
<1>2. \A q \in Reqs \ {r} : Request(q)' /\ (q \notin overtaken' => Snapshot(q)')
  BY OthersKeep DEF ReadOnly, Framed
<1> QED
  BY <1>1, <1>2 DEF Inv, RequestInv, SnapshotInv, ReadOnly

\* The steps that write.
LEMMA Writes ==
  ASSUME Inv, NEW r \in Reqs, NEW label \in Label, Go(r, label), UNCHANGED <<kind, ent, code>>,
         user' \in [Reqs -> Ids \cup {None}], \A q \in Reqs \ {r} : user'[q] = user[q],
         users' \in [Ids -> Row], roles' \in [Ids -> SUBSET Role],
         \A i \in Ids \ Here' : roles'[i] = {}, codes' \in [Codes -> Ids \cup {None}],
         \/ overtaken' = overtaken /\ UNCHANGED <<users, codes>>
         \/ Overtake(r),
         failed' \subseteq failed \cup {r},
         pc'[r] = label => Request(r)' /\ (r \notin overtaken => Snapshot(r)')
  PROVE  Inv'
<1>1. pc' \in [Reqs -> Label] /\ pc'[r] = label /\ \A q \in Reqs \ {r} : pc'[q] = pc[q]
  BY Typed DEF Go
<1>2. /\ overtaken \subseteq overtaken' /\ overtaken' \subseteq Reqs
      /\ \A q \in Reqs \ {r} : \/ UNCHANGED <<users, codes>>
                               \/ pc[q] \in Await => q \in overtaken'
  BY Typed DEF Overtake
<1>3. TypeOK'
  BY <1>1, <1>2, Typed DEF TypeOK
<1>4. \A q \in Reqs \ {r} : Request(q)' /\ (q \notin overtaken' => Snapshot(q)')
  BY <1>1, <1>2, OthersKeep
<1> QED
  BY <1>1, <1>2, <1>3, <1>4 DEF Inv, RequestInv, SnapshotInv

\* The steps that begin an operation.
LEMMA Begins ==
  ASSUME Inv, NEW r \in Reqs, NEW k \in Kind, NEW label \in Label, Begin(r, k, label), ReadOnly,
         NEW i \in Ids \cup {None}, NEW e \in Row, UNCHANGED code,
         (UNCHANGED user /\ i = user[r]) \/ On(r, i),
         (UNCHANGED ent /\ e = NoRow) \/ ent' = [ent EXCEPT ![r] = e],
         \/ label \in {"refused", "done"}
         \/ label = "insert" /\ k = "register" /\ Here = {} /\ e = NoRow
         \/ label = "main" /\ k = "register" /\ i \in Here
         \/ label = "email" /\ k = "login" /\ e = NoRow
         \/ label = "create" /\ k = "social" /\ e = NoRow
         \/ label = "save" /\ k = "profile" /\ i \in Here /\ e = users[i]
         \/ label = "delete" /\ i \in Here
         \/ label = "code" /\ k = "reset" /\ i \in Here /\ e = users[i]
  PROVE  Inv'
<1>1. pc[r] = "idle" /\ ent[r] = NoRow /\ code[r] = None /\ None \notin Ids
  BY Of, ValuesAssumption DEF Begin, Request
<1>2. /\ Framed(r) /\ pc'[r] = label /\ kind'[r] = k /\ user'[r] = i /\ ent'[r] = e
      /\ code'[r] = None
  BY <1>1, Typed, RowTyped DEF Begin, Go, On, Framed
<1>3. UNCHANGED <<users, codes, failed>> /\ r \notin failed
  BY <1>1, Of DEF ReadOnly, Request
<1>4. Here' = Here /\ \A j \in Here : j \in Ids /\ users[j].state = "here"
  BY <1>3 DEF Here
<1>5. Request(r)'
  BY <1>1, <1>2, <1>3, <1>4 DEF Request
<1>6. Snapshot(r)'
  BY <1>1, <1>2, <1>3, <1>4 DEF Snapshot, Current
<1> QED
  BY <1>2, <1>5, <1>6, Reads

LEMMA BeginStep ==
  ASSUME Inv, NEW r \in Reqs,
         \/ Register(r) \/ LoginSocial(r) \/ RegisterSocialWithData(r) \/ UpdateProfile(r)
         \/ RemoveUser(r) \/ ChangePasswordByUser(r) \/ Refuse(r)
  PROVE  Inv'
<1> USE DEF Kind, Label
<1>1. user[r] \in Ids \cup {None} /\ \A i \in Here : i \in Ids /\ users[i] \in Row
  BY Of, Typed DEF Here
<1>2. CASE Register(r)
  <2>1. UNCHANGED <<ent, code>> /\ ReadOnly
    BY <1>2 DEF Register
  <2>2. CASE Here = {} /\ Begin(r, "register", "insert") /\ UNCHANGED user
    BY <1>1, <2>1, <2>2, RowTyped, Begins
  <2>3. ASSUME NEW i \in Here, NEW answer \in {"main", "refused"},
               Begin(r, "register", answer), On(r, i)
        PROVE  Inv'
    BY <1>1, <2>1, <2>3, RowTyped, Begins
  <2> QED
    BY <1>2, <2>2, <2>3 DEF Register, Known
<1>3. CASE LoginSocial(r)
  BY <1>1, <1>3, RowTyped, Begins DEF LoginSocial
<1>4. CASE RegisterSocialWithData(r)
  BY <1>1, <1>4, RowTyped, Begins DEF RegisterSocialWithData
<1>5. CASE UpdateProfile(r)
  <2>1. Begin(r, "profile", "save") /\ UNCHANGED code /\ ReadOnly
    BY <1>5 DEF UpdateProfile
  <2>2. PICK i \in Here : On(r, i) /\ ent' = [ent EXCEPT ![r] = users[i]]
    BY <1>5 DEF UpdateProfile, Loaded
  <2>3. pc[r] = "idle" /\ code[r] = None /\ r \notin failed /\ None \notin Ids /\ i \in Ids
        /\ users[i].state = "here" /\ Here' = Here /\ UNCHANGED <<users, codes, failed>>
    BY <2>1, Of, ValuesAssumption DEF Begin, Request, Here, ReadOnly
  <2>4. /\ Framed(r) /\ pc'[r] = "save" /\ kind'[r] = "profile" /\ user'[r] = i
        /\ ent'[r] = users[i] /\ code'[r] = None
    BY <1>1, <2>1, <2>2, <2>3, Typed DEF Framed, Begin, Go, On
  <2>5. Request(r)' /\ Snapshot(r)'
    BY <2>3, <2>4 DEF Request, Snapshot, Current
  <2> QED
    BY <2>1, <2>4, <2>5, Reads
<1>6. CASE RemoveUser(r)
  BY <1>1, <1>6, RowTyped, Begins DEF RemoveUser
<1>7. CASE ChangePasswordByUser(r)
  BY <1>1, <1>7, Begins DEF ChangePasswordByUser, Known
<1>8. CASE Refuse(r)
  BY <1>1, <1>8, RowTyped, Begins DEF Refuse
<1> QED
  BY <1>2, <1>3, <1>4, <1>5, <1>6, <1>7, <1>8

LEMMA EmailStep ==
  ASSUME Inv, NEW r \in Reqs, FindByEmail(r)
  PROVE  Inv'
<1> USE DEF Label, Kind
<1>1. UNCHANGED <<users, codes, failed, ent, code>> /\ ReadOnly /\ pc[r] = "email" /\ Here' = Here
  BY DEF FindByEmail, ReadOnly, Here
<1>2. ent[r] = NoRow /\ code[r] = None /\ kind[r] = "login" /\ r \notin failed /\ None \notin Ids
  BY <1>1, Of, ValuesAssumption DEF Request
<1>3. CASE Go(r, "create") /\ kind' = [kind EXCEPT ![r] = "social"] /\ UNCHANGED user
  <2>1. Framed(r) /\ pc'[r] = "create" /\ kind'[r] = "social" /\ ent'[r] = NoRow /\ code'[r] = None
    BY <1>1, <1>2, <1>3, Typed DEF Framed, Go, On
  <2>2. Request(r)' /\ Snapshot(r)'
    BY <1>1, <1>2, <2>1 DEF Request, Snapshot
  <2> QED
    BY <1>1, <2>1, <2>2, Reads
<1>4. ASSUME NEW i \in Here, Go(r, "load"), On(r, i), UNCHANGED kind PROVE Inv'
  <2>1. i \in Ids
    BY DEF Here
  <2>2. /\ Framed(r) /\ pc'[r] = "load" /\ kind'[r] = "login" /\ user'[r] = i
        /\ ent'[r] = NoRow /\ code'[r] = None
    BY <1>1, <1>2, <1>4, Typed, <2>1 DEF Framed, Go, On
  <2>3. Request(r)' /\ Snapshot(r)'
    BY <1>1, <1>2, <2>1, <2>2 DEF Request, Snapshot
  <2> QED
    BY <1>1, <2>2, <2>3, Reads
<1> QED
  BY <1>3, <1>4 DEF FindByEmail, Known

LEMMA TokenStep ==
  ASSUME Inv, NEW r \in Reqs, UpdateSocialToken(r)
  PROVE  Inv'
<1> USE DEF Label, Kind
<1>1. /\ UNCHANGED <<users, codes, failed, kind, user, code>> /\ ReadOnly /\ pc[r] = "load"
      /\ Here' = Here
  BY DEF UpdateSocialToken, ReadOnly, Here
<1>2. /\ ent[r] = NoRow /\ code[r] = None /\ kind[r] = "login" /\ r \notin failed /\ user[r] # None
      /\ None \notin Ids
  BY <1>1, Of, ValuesAssumption DEF Request
<1>3. CASE Go(r, "refused") /\ UNCHANGED ent
  <2>1. /\ Framed(r) /\ pc'[r] = "refused" /\ kind'[r] = kind[r] /\ user'[r] = user[r]
        /\ ent'[r] = ent[r] /\ code'[r] = code[r]
    BY <1>1, <1>2, <1>3, Typed DEF Framed, Go
  <2>2. Request(r)' /\ Snapshot(r)'
    BY <1>1, <1>2, <2>1 DEF Request, Snapshot
  <2> QED
    BY <1>1, <2>1, <2>2, Reads
<1>4. CASE /\ user[r] \in Here /\ Go(r, "save")
           /\ ent' = [ent EXCEPT ![r] = [users[user[r]] EXCEPT !.social = "yes"]]
  <2> DEFINE e == [users[user[r]] EXCEPT !.social = "yes"]
  <2>1. e \in Row /\ e.pw = users[user[r]].pw /\ e.state = "here"
    BY <1>4, Typed, RowTyped DEF Here
  <2>2. ent' = [ent EXCEPT ![r] = e]
    BY <1>4
  <2> HIDE DEF e
  <2>3. /\ Framed(r) /\ pc'[r] = "save" /\ kind'[r] = "login" /\ user'[r] = user[r]
        /\ ent'[r] = e /\ code'[r] = None
    BY <1>1, <1>2, <1>4, Typed, <2>1, <2>2 DEF Framed, Go
  <2>4. Request(r)' /\ Snapshot(r)'
    BY <1>1, <1>2, <1>4, <2>1, <2>3 DEF Request, Snapshot, Current
  <2> QED
    BY <1>1, <2>3, <2>4, Reads
<1> QED
  BY <1>3, <1>4 DEF UpdateSocialToken

LEMMA CreateStep ==
  ASSUME Inv, NEW r \in Reqs, CreateOfSocial(r)
  PROVE  Inv'
<1> USE DEF Label, Kind
<1>1. /\ UNCHANGED <<users, codes, failed, kind, code>> /\ ReadOnly /\ pc[r] = "create"
      /\ Here' = Here
  BY DEF CreateOfSocial, ReadOnly, Here
<1>2. /\ ent[r] = NoRow /\ code[r] = None /\ kind[r] = "social" /\ r \notin failed
      /\ None \notin Ids
  BY <1>1, Of, ValuesAssumption DEF Request
<1>3. CASE Here = {} /\ Go(r, "insert") /\ UNCHANGED <<user, ent>>
  <2>1. /\ Framed(r) /\ pc'[r] = "insert" /\ kind'[r] = "social" /\ user'[r] = user[r]
        /\ ent'[r] = NoRow /\ code'[r] = None
    BY <1>1, <1>2, <1>3, Typed DEF Framed, Go
  <2>2. Request(r)' /\ Snapshot(r)'
    BY <1>1, <1>2, <1>3, <2>1 DEF Request, Snapshot
  <2> QED
    BY <1>1, <2>1, <2>2, Reads
<1>4. ASSUME NEW i \in Here, On(r, i), Go(r, "main"), UNCHANGED ent PROVE Inv'
  <2>1. i \in Ids
    BY DEF Here
  <2>2. /\ Framed(r) /\ pc'[r] = "main" /\ kind'[r] = "social" /\ user'[r] = i
        /\ ent'[r] = NoRow /\ code'[r] = None
    BY <1>1, <1>2, <1>4, <2>1, Typed DEF Framed, Go, On
  <2>3. Request(r)' /\ Snapshot(r)'
    BY <1>1, <1>2, <2>1, <2>2 DEF Request, Snapshot
  <2> QED
    BY <1>1, <2>2, <2>3, Reads
<1>5. ASSUME NEW i \in Here, On(r, i), Go(r, "save"),
             ent' = [ent EXCEPT ![r] = [users[i] EXCEPT !.social = "yes"]]
      PROVE  Inv'
  <2> DEFINE e == [users[i] EXCEPT !.social = "yes"]
  <2>1. e \in Row /\ e.pw = users[i].pw /\ e.state = "here" /\ i \in Ids
    BY Typed, RowTyped DEF Here
  <2>2. ent' = [ent EXCEPT ![r] = e]
    BY <1>5
  <2> HIDE DEF e
  <2>3. /\ Framed(r) /\ pc'[r] = "save" /\ kind'[r] = "social" /\ user'[r] = i
        /\ ent'[r] = e /\ code'[r] = None
    BY <1>1, <1>2, <1>5, <2>1, <2>2, Typed DEF Framed, Go, On
  <2>4. Request(r)' /\ Snapshot(r)'
    BY <1>1, <1>2, <2>1, <2>3 DEF Request, Snapshot, Current
  <2> QED
    BY <1>1, <2>3, <2>4, Reads
<1> QED
  BY <1>3, <1>4, <1>5 DEF CreateOfSocial, Known

LEMMA CodeStep ==
  ASSUME Inv, NEW r \in Reqs, FindCode(r)
  PROVE  Inv'
<1> USE DEF Label, Kind
<1>1. UNCHANGED <<users, codes, failed, kind, user>> /\ ReadOnly /\ pc[r] = "code" /\ Here' = Here
  BY DEF FindCode, ReadOnly, Here
<1>2. kind[r] = "reset" /\ user[r] # None /\ r \notin failed /\ (r \notin overtaken => Current(r))
  BY <1>1, Of DEF Request, Snapshot
<1>3. ASSUME NEW label \in {"send", "refused", "done"}, Go(r, label), UNCHANGED <<ent, code>>
      PROVE  Inv'
  <2>1. /\ Framed(r) /\ pc'[r] = label /\ kind'[r] = kind[r] /\ user'[r] = user[r]
        /\ ent'[r] = ent[r] /\ code'[r] = code[r]
    BY <1>1, <1>3, Typed DEF Framed, Go
  <2>2. Request(r)' /\ Snapshot(r)'
    BY <1>1, <1>2, <2>1 DEF Request, Snapshot
  <2> QED
    BY <1>1, <2>1, <2>2, Reads
<1>4. ASSUME NEW c \in Codes, codes[c] = user[r], code' = [code EXCEPT ![r] = c],
             Go(r, "drop"), UNCHANGED ent
      PROVE  Inv'
  <2>1. /\ Framed(r) /\ pc'[r] = "drop" /\ kind'[r] = kind[r] /\ user'[r] = user[r]
        /\ ent'[r] = ent[r] /\ code'[r] = c
    BY <1>1, <1>4, Typed DEF Framed, Go
  <2>2. Request(r)' /\ Snapshot(r)'
    BY <1>1, <1>2, <1>4, <2>1, ValuesAssumption DEF Request, Snapshot
  <2> QED
    BY <1>1, <2>1, <2>2, Reads
<1>5. ASSUME NEW c \in Codes, codes[c] = user[r], code' = [code EXCEPT ![r] = c],
             Go(r, "save"), ent' = [ent EXCEPT ![r].pw = r]
      PROVE  Inv'
  <2> DEFINE e == [ent[r] EXCEPT !.pw = r]
  <2>1. e \in Row /\ e.pw = r /\ e.state = ent[r].state /\ e.social = ent[r].social
    BY Of, RowTyped
  <2>2. ent' = [ent EXCEPT ![r] = e]
    BY <1>5
  <2> HIDE DEF e
  <2>3. /\ Framed(r) /\ pc'[r] = "save" /\ kind'[r] = kind[r] /\ user'[r] = user[r]
        /\ ent'[r] = e /\ code'[r] = c
    BY <1>1, <1>5, Typed, <2>1, <2>2 DEF Framed, Go
  <2>4. Request(r)' /\ (r \notin overtaken => Snapshot(r)')
    BY <1>1, <1>2, <1>5, <2>1, <2>3, Of, ValuesAssumption DEF Request, Snapshot, Current
  <2> QED
    BY <1>1, <2>3, <2>4, Reads
<1> QED
  BY <1>3, <1>4, <1>5 DEF FindCode

LEMMA InsertStep ==
  ASSUME Inv, NEW r \in Reqs, Insert(r)
  PROVE  Inv'
<1>1. PICK i \in Ids :
        /\ Fresh(i) /\ On(r, i)
        /\ users' = [users EXCEPT ![i] =
             [state |-> "here", pw |-> IF kind[r] = "register" THEN r ELSE None,
              social |-> IF kind[r] = "register" THEN "no" ELSE "yes"]]
  BY DEF Insert
<1>2. pc[r] = "insert" /\ Go(r, "main") /\ Overtake(r)
      /\ UNCHANGED <<roles, codes, kind, ent, code, failed>>
  BY DEF Insert
<1>3. kind[r] \in {"register", "social"} /\ r \notin failed /\ None \notin Ids
  BY <1>2, Of, ValuesAssumption DEF Request
<1>4. /\ users' \in [Ids -> Row] /\ user' \in [Reqs -> Ids \cup {None}] /\ user'[r] = i
      /\ \A q \in Reqs \ {r} : user'[q] = user[q]
      /\ \A j \in Ids : users[j].state = "here" => users'[j].state = "here"
  BY <1>1, Typed DEF On, Row
<1>5. \A j \in Ids \ Here' : roles'[j] = {}
  BY <1>2, <1>4, Typed DEF Here
<1>6. pc'[r] = "main" => Request(r)' /\ Snapshot(r)'
  BY <1>2, <1>3, <1>4 DEF Request, Snapshot
<1> QED
  BY <1>2, <1>4, <1>5, <1>6, Typed, Writes DEF Label

LEMMA GrantStep ==
  ASSUME Inv, NEW r \in Reqs, GrantMain(r) \/ GrantCustomer(r)
  PROVE  Inv'
<1>1. PICK label \in {"customer", "done"} : Go(r, label)
  BY DEF GrantMain, GrantCustomer
<1>2. pc[r] \in {"main", "customer"} /\ Overtake(r) /\ UNCHANGED <<users, codes, kind, user, ent, code>>
      /\ (Assign(r, "main") \/ Assign(r, "customer"))
  BY DEF GrantMain, GrantCustomer
<1>3. kind[r] \in {"register", "social"} /\ user[r] # None
  BY <1>2, Of DEF Request
<1>4. /\ roles' \in [Ids -> SUBSET Role] /\ \A j \in Ids \ Here' : roles'[j] = {}
      /\ failed' \subseteq failed \cup {r}
  BY <1>2, Typed DEF Assign, Role, Here
<1>5. pc'[r] = label => Request(r)' /\ Snapshot(r)'
  BY <1>1, <1>2, <1>3 DEF Request, Snapshot
<1> QED
  BY <1>1, <1>2, <1>4, <1>5, Typed, Writes DEF Label

LEMMA SaveStep ==
  ASSUME Inv, NEW r \in Reqs, SaveUser(r)
  PROVE  Inv'
<1> DEFINE label == IF kind[r] = "social" THEN "main" ELSE IF kind[r] = "reset" THEN "use" ELSE "done"
<1>1. /\ pc[r] = "save" /\ users' = [users EXCEPT ![user[r]] = ent[r]] /\ Go(r, label)
      /\ UNCHANGED <<roles, codes, kind, user, ent, code, failed>>
      /\ (users' = users /\ UNCHANGED overtaken) \/ Overtake(r)
  BY DEF SaveUser
<1>2. /\ user[r] \in Ids /\ ent[r] \in Row /\ ent[r].state = "here" /\ r \notin failed
      /\ kind[r] = "reset" => code[r] # None /\ (r \notin overtaken => codes[code[r]] = user[r])
  BY <1>1, Of DEF Request, Snapshot
<1>3. label \in Label /\ label \in {"main", "use", "done"}
      /\ (label = "main" => kind[r] = "social") /\ (label = "use" => kind[r] = "reset")
  BY DEF Label
<1>4. users' \in [Ids -> Row] /\ \A j \in Ids : users[j].state = "here" => users'[j].state = "here"
  BY <1>1, <1>2, Typed
<1>5. \A j \in Ids \ Here' : roles'[j] = {}
  BY <1>1, <1>4, Typed DEF Here
<1> HIDE DEF label
<1>6. user[r] # None
  BY <1>2, ValuesAssumption
<1>7. pc'[r] = label => Request(r)' /\ (r \notin overtaken => Snapshot(r)')
  BY <1>1, <1>2, <1>3, <1>6 DEF Request, Snapshot
<1> QED
  BY <1>1, <1>3, <1>4, <1>5, <1>7, Typed, Writes

LEMMA DeleteStep ==
  ASSUME Inv, NEW r \in Reqs, DeleteUser(r)
  PROVE  Inv'
<1>1. /\ pc[r] = "delete" /\ users' = [users EXCEPT ![user[r]] = NoRow]
      /\ roles' = [roles EXCEPT ![user[r]] = {}] /\ Go(r, "done") /\ Overtake(r)
      /\ UNCHANGED <<codes, kind, user, ent, code, failed>>
  BY DEF DeleteUser
<1>2. user[r] \in Ids /\ r \notin failed
  BY <1>1, Of DEF Request
<1>3. /\ users' \in [Ids -> Row] /\ roles' \in [Ids -> SUBSET Role] /\ roles'[user[r]] = {}
      /\ \A j \in Ids \ {user[r]} : users'[j] = users[j] /\ roles'[j] = roles[j]
  BY <1>1, <1>2, Typed, RowTyped
<1>4. ASSUME NEW j \in Ids \ Here' PROVE roles'[j] = {}
  <2>1. j # user[r] => j \in Ids \ Here
    BY <1>3 DEF Here
  <2> QED
    BY <1>3, <2>1, Typed
<1>5. pc'[r] = "done" => Request(r)' /\ Snapshot(r)'
  BY <1>1 DEF Request, Snapshot
<1> QED
  BY <1>1, <1>3, <1>4, <1>5, Typed, Writes DEF Label

LEMMA CodesStep ==
  ASSUME Inv, NEW r \in Reqs, SendVerificationCode(r) \/ DropCode(r) \/ UseUp(r)
  PROVE  Inv'
<1>1. /\ pc[r] \in {"send", "drop", "use"} /\ Overtake(r)
      /\ UNCHANGED <<users, roles, kind, user, ent, code, failed>>
  BY DEF SendVerificationCode, DropCode, UseUp
<1>2. kind[r] = "reset" /\ user[r] \in Ids /\ user[r] # None /\ r \notin failed
  BY <1>1, Of DEF Request
<1>3. codes' \in [Codes -> Ids \cup {None}]
  BY <1>2, Typed DEF SendVerificationCode, DropCode, UseUp
<1>4. \A j \in Ids \ Here' : roles'[j] = {}
  BY <1>1, Typed DEF Here
<1>5. PICK label \in {"send", "done"} : Go(r, label)
  BY DEF SendVerificationCode, DropCode, UseUp
<1>6. pc'[r] = label => Request(r)' /\ Snapshot(r)'
  BY <1>1, <1>2, <1>5 DEF Request, Snapshot
<1> QED
  BY <1>1, <1>3, <1>4, <1>5, <1>6, Typed, Writes DEF Label

LEMMA InvStep ==
  ASSUME Inv, [Next]_vars
  PROVE  Inv'
<1>1. CASE UNCHANGED vars
  BY <1>1 DEF vars, Inv, RequestInv, SnapshotInv, TypeOK, Request, Snapshot, Current, Here
<1>2. CASE Next
  <2>1. PICK r \in Reqs :
          \/ Register(r) \/ LoginSocial(r) \/ FindByEmail(r) \/ UpdateSocialToken(r)
          \/ RegisterSocialWithData(r) \/ CreateOfSocial(r) \/ Insert(r)
          \/ GrantMain(r) \/ GrantCustomer(r)
          \/ UpdateProfile(r) \/ SaveUser(r) \/ RemoveUser(r) \/ DeleteUser(r)
          \/ ChangePasswordByUser(r) \/ FindCode(r)
          \/ SendVerificationCode(r) \/ DropCode(r) \/ UseUp(r) \/ Refuse(r)
    BY <1>2 DEF Next
  <2> QED
    BY <2>1, BeginStep, EmailStep, TokenStep, CreateStep, InsertStep, GrantStep, SaveStep,
       DeleteStep, CodeStep, CodesStep
<1> QED
  BY <1>1, <1>2

\* Every variable stays in its range, and no account that is gone has a role.
THEOREM TypeCorrect == Spec => []TypeOK
<1>1. Inv => TypeOK
  BY DEF Inv, RequestInv
<1> QED
  BY <1>1, InitInv, InvStep, PTL DEF Spec

-----------------------------------------------------------------------------
(* What a step changes.                                                    *)

Others(r) ==
    \A q \in Reqs \ {r} : /\ pc'[q] = pc[q] /\ kind'[q] = kind[q] /\ user'[q] = user[q]
                         /\ ent'[q] = ent[q] /\ code'[q] = code[q]

Looks(r) ==
    \/ Register(r) \/ LoginSocial(r) \/ FindByEmail(r) \/ UpdateSocialToken(r)
    \/ RegisterSocialWithData(r) \/ CreateOfSocial(r) \/ UpdateProfile(r) \/ RemoveUser(r)
    \/ ChangePasswordByUser(r) \/ FindCode(r) \/ Refuse(r)

Acts(r) ==
    \/ Insert(r) \/ GrantMain(r) \/ GrantCustomer(r) \/ SaveUser(r) \/ DeleteUser(r)
    \/ SendVerificationCode(r) \/ DropCode(r) \/ UseUp(r)

LEMMA LooksOnly ==
  ASSUME Inv, NEW r \in Reqs, Looks(r)
  PROVE  /\ UNCHANGED <<users, roles, codes, overtaken, failed>> /\ Others(r)
         /\ pc[r] \in {"idle", "email", "load", "create", "code"}
<1>1. ASSUME NEW k, NEW label, Begin(r, k, label)
      PROVE  pc[r] = "idle" /\ \A q \in Reqs \ {r} : pc'[q] = pc[q] /\ kind'[q] = kind[q]
  BY <1>1, Typed DEF Begin, Go
<1>2. ASSUME NEW label, Go(r, label) PROVE \A q \in Reqs \ {r} : pc'[q] = pc[q]
  BY <1>2, Typed DEF Go
<1>3. ASSUME NEW i, On(r, i) PROVE \A q \in Reqs \ {r} : user'[q] = user[q]
  BY <1>3, Typed DEF On
<1>4. UNCHANGED <<users, roles, codes, overtaken, failed>>
  BY DEF Looks, Register, LoginSocial, FindByEmail, UpdateSocialToken, RegisterSocialWithData,
     CreateOfSocial, UpdateProfile, RemoveUser, ChangePasswordByUser, FindCode, Refuse, ReadOnly
<1>5. CASE Register(r) \/ LoginSocial(r) \/ RegisterSocialWithData(r) \/ RemoveUser(r) \/ Refuse(r)
  BY <1>1, <1>3, <1>4, <1>5 DEF Register, LoginSocial, RegisterSocialWithData, RemoveUser, Refuse, Others
<1>6. CASE UpdateProfile(r) \/ ChangePasswordByUser(r)
  BY <1>1, <1>3, <1>4, <1>6, Typed DEF UpdateProfile, ChangePasswordByUser, Others
<1>7. CASE FindByEmail(r) \/ UpdateSocialToken(r) \/ CreateOfSocial(r)
  BY <1>2, <1>3, <1>4, <1>7, Typed DEF FindByEmail, UpdateSocialToken, CreateOfSocial, Others
<1>8. CASE FindCode(r)
  BY <1>2, <1>4, <1>8, Typed DEF FindCode, Others
<1> QED
  BY <1>5, <1>6, <1>7, <1>8 DEF Looks

LEMMA ActsOnly ==
  ASSUME Inv, NEW r \in Reqs, Acts(r)
  PROVE  /\ UNCHANGED <<kind, ent, code>> /\ Others(r)
         /\ overtaken \subseteq overtaken' /\ failed \subseteq failed'
         /\ pc[r] \in {"insert", "main", "customer", "save", "delete", "send", "drop", "use"}
         /\ pc'[r] \in {"main", "customer", "send", "use", "done"}
         /\ ~Insert(r) => UNCHANGED user
         /\ ~(Insert(r) \/ SaveUser(r) \/ DeleteUser(r)) => UNCHANGED users
         /\ ~(GrantMain(r) \/ GrantCustomer(r) \/ DeleteUser(r)) => UNCHANGED roles
         /\ ~(SendVerificationCode(r) \/ DropCode(r) \/ UseUp(r)) => UNCHANGED codes
<1>1. ASSUME NEW label, Go(r, label)
      PROVE  pc'[r] = label /\ \A q \in Reqs \ {r} : pc'[q] = pc[q]
  BY <1>1, Typed DEF Go
<1>2. CASE Insert(r)
  BY <1>1, <1>2, Typed DEF Insert, On, Others, Overtake
<1>3. CASE GrantMain(r) \/ GrantCustomer(r)
  BY <1>1, <1>3 DEF GrantMain, GrantCustomer, Assign, Others, Overtake
<1>4. CASE SaveUser(r) \/ DeleteUser(r)
  BY <1>1, <1>4 DEF SaveUser, DeleteUser, Others, Overtake
<1>5. CASE SendVerificationCode(r) \/ DropCode(r) \/ UseUp(r)
  BY <1>1, <1>5 DEF SendVerificationCode, DropCode, UseUp, Others, Overtake
<1> QED
  BY <1>2, <1>3, <1>4, <1>5 DEF Acts

LEMMA Steps ==
  ASSUME Next
  PROVE  \E r \in Reqs : Looks(r) \/ Acts(r)
BY DEF Next, Looks, Acts

LEMMA InvHolds == Spec => []Inv
BY InitInv, InvStep, PTL DEF Spec

\* A request that nobody has overtaken changes a password only as a reset, with a
\* code of that account, links only as a social one, and brings no account back.
THEOREM OnlyOwn == Spec => OwnChanges
<1> DEFINE Own(r, i) ==
      \/ users'[i] = users[i]
      \/ pc[r] = "insert" /\ i \notin Here
      \/ /\ pc[r] = "save" /\ i \in Here /\ i = user[r]
         /\ users'[i].pw # users[i].pw => kind[r] = "reset" /\ codes[code[r]] = i
         /\ users'[i].social # users[i].social => kind[r] \in {"login", "social"}
<1> DEFINE A == \A r \in Reqs \ overtaken, i \in Ids :
                  pc[r] \in {"save", "insert"} /\ pc'[r] # pc[r] => Own(r, i)
<1>1. ASSUME Inv, [Next]_vars PROVE A
  <2> SUFFICES ASSUME NEW r \in Reqs, r \notin overtaken, NEW i \in Ids,
                      pc[r] \in {"save", "insert"}, pc'[r] # pc[r]
               PROVE  Own(r, i)
    OBVIOUS
  <2>1. Acts(r)
    <3>1. Next
      BY <1>1 DEF vars
    <3>2. PICK q \in Reqs : Looks(q) \/ Acts(q)
      BY <3>1, Steps
    <3>3. q = r
      BY <1>1, <3>2, LooksOnly, ActsOnly DEF Others
    <3> QED
      BY <1>1, <3>2, <3>3, LooksOnly
  <2>2. CASE Insert(r)
    <3>1. PICK j \in Ids : Fresh(j) /\ pc[r] = "insert" /\ \A x \in Ids \ {j} : users'[x] = users[x]
      BY <1>1, <2>2, Typed DEF Insert
    <3> QED
      BY <3>1 DEF Fresh
  <2>3. CASE SaveUser(r)
    <3>1. pc[r] = "save" /\ users' = [users EXCEPT ![user[r]] = ent[r]]
      BY <2>3 DEF SaveUser
    <3>2. /\ kind[r] \in {"login", "social", "profile", "reset"} /\ Current(r)
          /\ kind[r] = "reset" => codes[code[r]] = user[r]
      BY <1>1, <3>1, Of DEF Request, Snapshot
    <3>3. i # user[r] => users'[i] = users[i]
      BY <1>1, <3>1, Typed
    <3>4. i = user[r] => users'[i] = ent[r]
      BY <1>1, <3>1, Typed
    <3> QED
      BY <3>1, <3>2, <3>3, <3>4 DEF Current
  <2>4. ~DeleteUser(r)
    BY DEF DeleteUser
  <2>5. CASE UNCHANGED users
    BY <2>5
  <2> QED
    BY <1>1, <2>1, <2>2, <2>3, <2>4, <2>5, ActsOnly
<1> HIDE DEF A
<1>2. Inv /\ [Next]_vars => [A]_vars
  BY <1>1
<1>3. Spec => [][A]_vars
  BY <1>2, InvHolds, PTL DEF Spec
<1> QED
  BY <1>3 DEF A, OwnChanges

-----------------------------------------------------------------------------
(* The account and its role.  A request that writes has not been overtaken *)
(* as long as nobody has written too late.                                 *)

LEMMA LateStays ==
  ASSUME Inv, NEW r \in Reqs, Looks(r) \/ Acts(r)
  PROVE  /\ Late \subseteq Late'
         /\ Acts(r) => r \notin overtaken \/ r \in Late'
<1> DEFINE after == {"main", "customer", "send", "use", "done"}
<1>1. ASSUME NEW q \in Late, q # r PROVE q \in Late'
  BY <1>1, LooksOnly, ActsOnly, Typed DEF Late, Others
<1>2. ASSUME r \in Late PROVE r \in Late'
  BY <1>2, LooksOnly, ActsOnly DEF Late
<1>3. ASSUME Acts(r), r \in overtaken PROVE r \in Late'
  BY <1>3, ActsOnly DEF Late
<1> QED
  BY <1>1, <1>2, <1>3

LEMMA OneStep == Inv /\ OneAccount /\ [Next]_vars => OneAccount'
<1> SUFFICES ASSUME Inv, OneAccount, [Next]_vars, Late' = {} PROVE (\A i, j \in Here : i = j)'
  BY DEF OneAccount
<1>1. CASE UNCHANGED vars
  BY <1>1 DEF vars, OneAccount, Late, Here
<1>2. CASE Next
  <2>1. PICK r \in Reqs : Looks(r) \/ Acts(r)
    BY <1>2, Steps
  <2>2. (\A i, j \in Here : i = j) /\ (Acts(r) => r \notin overtaken)
    BY <2>1, LateStays DEF OneAccount
  <2>3. CASE UNCHANGED users
    BY <2>2, <2>3 DEF Here
  <2>4. CASE Insert(r)
    <3>1. PICK j \in Ids : \A x \in Ids \ {j} : users'[x] = users[x]
      BY <2>4, Typed DEF Insert
    <3>2. Here = {}
      BY <2>2, <2>4, Of DEF Acts, Snapshot, Insert
    <3> QED
      BY <3>1, <3>2 DEF Here
  <2>5. CASE SaveUser(r)
    <3>1. pc[r] = "save" /\ users' = [users EXCEPT ![user[r]] = ent[r]]
      BY <2>5 DEF SaveUser
    <3>2. user[r] \in Here
      BY <2>2, <2>5, <3>1, Of DEF Acts, Snapshot, Current
    <3>3. \A x \in Ids \ {user[r]} : users'[x] = users[x]
      BY <3>1, Typed
    <3>4. Here' \subseteq Here
      BY <3>2, <3>3 DEF Here
    <3> QED
      BY <2>2, <3>4
  <2>6. CASE DeleteUser(r)
    <3>1. \A x \in Ids : users'[x] = users[x] \/ users'[x] = NoRow
      BY <2>6, Typed DEF DeleteUser
    <3>2. Here' \subseteq Here
      BY <3>1, RowTyped DEF Here
    <3> QED
      BY <2>2, <3>2
  <2> QED
    BY <2>1, <2>3, <2>4, <2>5, <2>6, LooksOnly, ActsOnly
<1> QED
  BY <1>1, <1>2

\* As long as no request wrote after another one had overtaken it, the e-mail has
\* one account, however it is registered, linked, updated and deleted.
THEOREM OneAccountHolds == Spec => []OneAccount
<1>1. Init => OneAccount
  BY DEF Init, OneAccount
<1> QED
  BY <1>1, OneStep, InvHolds, PTL DEF Spec

\* Whom a registration owes its role to, and until when.
Owed(q, i) == user[q] = i /\ (q \in failed \/ pc[q] = "main")

LEMMA OwedStays ==
  ASSUME Inv, NEW r \in Reqs, Looks(r) \/ Acts(r), NEW q \in Reqs, NEW i, Owed(q, i)
  PROVE  Owed(q, i)' \/ (q = r /\ GrantMain(r))
<1>1. pc[q] \in {"main", "customer", "done"}
  BY Of DEF Owed, Request
<1>2. CASE q # r
  BY <1>2, LooksOnly, ActsOnly DEF Owed, Others
<1>3. CASE q = r
  <2>1. Acts(r) /\ ~Insert(r)
    BY <1>1, <1>3, LooksOnly DEF Insert
  <2>2. UNCHANGED user /\ failed \subseteq failed'
    BY <2>1, ActsOnly
  <2>3. pc[r] # "main" \/ GrantMain(r)
    BY <2>1 DEF Acts, Insert, GrantMain, GrantCustomer, SaveUser, DeleteUser, SendVerificationCode,
       DropCode, UseUp
  <2> QED
    BY <1>3, <2>2, <2>3 DEF Owed
<1> QED
  BY <1>2, <1>3

LEMMA RoleStep == Inv /\ HasRole /\ [Next]_vars => HasRole'
<1> SUFFICES ASSUME Inv, HasRole, [Next]_vars, Late' = {}, NEW i \in Here'
             PROVE  roles'[i] # {} \/ \E q \in Reqs : Owed(q, i)'
  BY DEF HasRole, Owed
<1>1. CASE UNCHANGED vars
  BY <1>1 DEF vars, HasRole, Late, Here, Owed
<1>2. CASE Next
  <2>1. PICK r \in Reqs : Looks(r) \/ Acts(r)
    BY <1>2, Steps
  <2>2. (Late = {} /\ (Acts(r) => r \notin overtaken)) /\ i \in Ids
    BY <2>1, LateStays DEF Here
  <2>3. ASSUME i \in Here PROVE roles[i] # {} \/ \E q \in Reqs : Owed(q, i)
    BY <2>2, <2>3 DEF HasRole, Owed
  <2>4. CASE Insert(r)
    <3>1. PICK j \in Ids : On(r, j) /\ \A x \in Ids \ {j} : users'[x] = users[x]
      BY <2>4, Typed DEF Insert
    <3>2. Here = {}
      BY <2>2, <2>4, Of DEF Acts, Snapshot, Insert
    <3>3. i = j
      BY <3>1, <3>2 DEF Here
    <3>4. user'[r] = j /\ pc'[r] = "main"
      BY <2>4, <3>1, Typed DEF Insert, On, Go
    <3> QED
      BY <3>3, <3>4 DEF Owed
  <2>5. CASE DeleteUser(r)
    <3>1. /\ user[r] \in Ids /\ users'[user[r]].state = "gone"
          /\ \A x \in Ids \ {user[r]} : users'[x] = users[x] /\ roles'[x] = roles[x]
      BY <2>5, Of, Typed, RowTyped DEF DeleteUser, Request
    <3>2. i \in Here /\ roles'[i] = roles[i]
      BY <2>2, <3>1 DEF Here
    <3> QED
      BY <2>1, <2>3, <2>5, <3>2, OwedStays DEF DeleteUser, GrantMain
  <2>6. CASE GrantMain(r) \/ GrantCustomer(r)
    <3>1. i \in Here
      BY <2>6 DEF GrantMain, GrantCustomer, Here
    <3>2. /\ \A x \in Ids : roles[x] \subseteq roles'[x]
          /\ r \in failed' \/ roles'[user[r]] # {}
          /\ UNCHANGED user
      <4>1. ASSUME NEW role, Assign(r, role)
            PROVE  /\ \A x \in Ids : roles[x] \subseteq roles'[x]
                   /\ r \in failed' \/ roles'[user[r]] # {}
        <5>1. CASE UNCHANGED roles /\ failed' = failed \cup {r}
          BY <5>1
        <5>2. CASE user[r] \in Here /\ roles' = [roles EXCEPT ![user[r]] = @ \cup {role}]
          <6>1. /\ user[r] \in Ids /\ role \in roles'[user[r]] /\ roles[user[r]] \subseteq roles'[user[r]]
                /\ \A x \in Ids \ {user[r]} : roles'[x] = roles[x]
            BY <5>2, Typed DEF Here
          <6> QED
            BY <6>1
        <5> QED
          BY <4>1, <5>1, <5>2 DEF Assign
      <4> QED
        BY <2>6, <4>1 DEF GrantMain, GrantCustomer
    <3> QED
      BY <2>1, <2>2, <2>3, <3>1, <3>2, OwedStays DEF Owed
  <2>7. CASE SaveUser(r)
    <3>1. pc[r] = "save" /\ users' = [users EXCEPT ![user[r]] = ent[r]] /\ UNCHANGED roles
      BY <2>7 DEF SaveUser
    <3>2. user[r] \in Here
      BY <2>2, <2>7, <3>1, Of DEF Acts, Snapshot, Current
    <3>3. \A x \in Ids \ {user[r]} : users'[x] = users[x]
      BY <3>1, Typed
    <3>4. i \in Here
      BY <3>2, <3>3 DEF Here
    <3> QED
      BY <2>1, <2>3, <2>7, <3>1, <3>4, OwedStays DEF SaveUser, GrantMain
  <2>8. CASE UNCHANGED <<users, roles>> /\ ~GrantMain(r)
    BY <2>1, <2>3, <2>8, OwedStays DEF Here
  <2> QED
    BY <2>1, <2>4, <2>5, <2>6, <2>7, <2>8, LooksOnly, ActsOnly
<1> QED
  BY <1>1, <1>2

\* Then, too, an account whose registration is over has its role, unless the
\* grant failed, which the registration swallows.
THEOREM RoleHolds == Spec => []HasRole
<1>1. Init => HasRole
  BY DEF Init, HasRole, Here
<1> QED
  BY <1>1, RoleStep, InvHolds, PTL DEF Spec

-----------------------------------------------------------------------------
(* A code is used once.                                                    *)

LEMMA InitCodes == Init => CodeInv
<1> SUFFICES ASSUME Init PROVE CodeInv
  OBVIOUS
<1>1. \A r \in Reqs, i \in Ids : users[i].pw # r
  BY ValuesAssumption DEF Init, NoRow
<1>2. \A r \in Reqs : kind[r] = "none" /\ \A q \in Reqs : ent[r].pw # q
  BY ValuesAssumption DEF Init, NoRow
<1> QED
  BY <1>1, <1>2 DEF CodeInv, Code, CodeOnce

\* A request that still looks has set no password.
LEMMA NotYet ==
  ASSUME Inv, NEW r \in Reqs, Code(r), Looks(r)
  PROVE  ~Set(r)
<1>1. pc[r] \in {"idle", "email", "load", "create", "code"}
  BY LooksOnly
<1>2. Request(r) /\ NoRow.pw # r
  BY Of, RowTyped, ValuesAssumption
<1> QED
  BY <1>1, <1>2 DEF Set, Code, Request

\* From where it takes the password of its entity.
LEMMA Takes ==
  ASSUME Inv, NEW r \in Reqs, Looks(r)
  PROVE  \/ ent'[r].pw = ent[r].pw
         \/ \E i \in Ids : ent'[r].pw = users[i].pw
         \/ pc'[r] = "save" /\ code'[r] # None /\ ent'[r].pw = r
<1>1. CASE UNCHANGED ent
  BY <1>1
<1>2. ASSUME NEW i \in Here, ent' = [ent EXCEPT ![r] = users[i]] PROVE \E j \in Ids : ent'[r].pw = users[j].pw
  BY <1>2, Typed DEF Here
<1>3. ASSUME NEW i \in Here, ent' = [ent EXCEPT ![r] = [users[i] EXCEPT !.social = "yes"]]
      PROVE  \E j \in Ids : ent'[r].pw = users[j].pw
  <2>1. i \in Ids /\ [users[i] EXCEPT !.social = "yes"].pw = users[i].pw
    BY Typed, RowTyped DEF Here
  <2> DEFINE e == [users[i] EXCEPT !.social = "yes"]
  <2>2. ent' = [ent EXCEPT ![r] = e] /\ e.pw = users[i].pw
    BY <1>3, <2>1
  <2> HIDE DEF e
  <2> QED
    BY <2>1, <2>2, Typed
<1>4. ASSUME NEW c \in Codes, code' = [code EXCEPT ![r] = c], Go(r, "save"),
             ent' = [ent EXCEPT ![r].pw = r]
      PROVE  pc'[r] = "save" /\ code'[r] # None /\ ent'[r].pw = r
  <2> DEFINE e == [ent[r] EXCEPT !.pw = r]
  <2>1. ent' = [ent EXCEPT ![r] = e] /\ e.pw = r
    BY <1>4, Of, RowTyped
  <2> HIDE DEF e
  <2> QED
    BY <1>4, <2>1, Typed, ValuesAssumption DEF Go
<1>5. CASE Register(r) \/ LoginSocial(r) \/ FindByEmail(r) \/ RegisterSocialWithData(r)
           \/ RemoveUser(r) \/ Refuse(r)
  BY <1>1, <1>5 DEF Register, LoginSocial, FindByEmail, RegisterSocialWithData, RemoveUser, Refuse
<1>6. CASE UpdateSocialToken(r) \/ CreateOfSocial(r)
  BY <1>1, <1>3, <1>6 DEF UpdateSocialToken, CreateOfSocial, Known
<1>7. CASE UpdateProfile(r) \/ ChangePasswordByUser(r)
  BY <1>2, <1>7 DEF UpdateProfile, ChangePasswordByUser, Known, Loaded
<1>8. CASE FindCode(r)
  BY <1>1, <1>4, <1>8 DEF FindCode
<1> QED
  BY <1>5, <1>6, <1>7, <1>8 DEF Looks

\* What it writes into the row.
LEMMA Puts ==
  ASSUME Inv, NEW r \in Reqs, Acts(r), NEW i \in Ids
  PROVE  \/ users'[i].pw = users[i].pw \/ users'[i].pw \in {ent[r].pw, None}
         \/ users'[i].pw = r /\ kind[r] = "register" /\ pc'[r] = "main"
<1>1. CASE Insert(r)
  <2>1. PICK j \in Ids : users' = [users EXCEPT ![j] =
          [state |-> "here", pw |-> IF kind[r] = "register" THEN r ELSE None,
           social |-> IF kind[r] = "register" THEN "no" ELSE "yes"]]
    BY <1>1 DEF Insert
  <2>2. pc'[r] = "main"
    BY <1>1, Typed DEF Insert, Go
  <2> QED
    BY <2>1, <2>2, Typed
<1>2. CASE SaveUser(r)
  BY <1>2, Typed DEF SaveUser
<1>3. CASE DeleteUser(r)
  BY <1>3, Typed, RowTyped DEF DeleteUser
<1> QED
  BY <1>1, <1>2, <1>3, ActsOnly

LEMMA SetStays ==
  ASSUME Inv, CodeInv, NEW r \in Reqs, Looks(r) \/ Acts(r), NEW q \in Reqs, Set(q)
  PROVE  Set(q)'
<1>1. CASE q # r
  BY <1>1, LooksOnly, ActsOnly DEF Set, Others
<1>2. CASE q = r
  <2>1. Acts(r)
    BY <1>2, NotYet DEF CodeInv
  <2> QED
    BY <1>2, <2>1, ActsOnly DEF Set
<1> QED
  BY <1>1, <1>2

LEMMA CodeStays ==
  ASSUME Inv, CodeInv, NEW r \in Reqs, Looks(r) \/ Acts(r), NEW q \in Reqs
  PROVE  Code(q)' /\ (q = r /\ Looks(r) /\ kind'[r] = "reset" /\ ent'[r].pw = r => pc'[r] = "save")
<1>1. \A c \in Codes : codes[c] = None /\ (\E x \in Reqs : code[x] = c) => codes'[c] = None
  <2>1. CASE SendVerificationCode(r)
    BY <2>1, Typed DEF SendVerificationCode
  <2>2. CASE DropCode(r) \/ UseUp(r)
    BY <2>2, Typed DEF DropCode, UseUp
  <2> QED
    BY <2>1, <2>2, LooksOnly, ActsOnly
<1>2. Code(q) /\ code[q] \in Codes \cup {None}
  BY Of DEF CodeInv
<1>3. CASE q # r
  <2>1. kind'[q] = kind[q] /\ ent'[q] = ent[q] /\ pc'[q] = pc[q] /\ code'[q] = code[q]
    BY <1>3, LooksOnly, ActsOnly DEF Others
  <2> QED
    BY <1>1, <1>2, <1>3, <2>1 DEF Code
<1>4. CASE q = r /\ Looks(r)
  <2>1. ~Set(r) /\ \A i \in Ids : users[i].pw # r
    BY <1>2, <1>4, NotYet DEF CodeInv
  <2>2. ent'[r].pw = r => pc'[r] = "save" /\ code'[r] # None
    BY <1>4, <2>1, Takes DEF Set
  <2> QED
    BY <1>4, <2>2 DEF Code
<1>5. CASE q = r /\ Acts(r) /\ ~Looks(r)
  <2>1. UNCHANGED <<kind, ent, code>>
    BY <1>5, ActsOnly
  <2>2. ASSUME kind[r] = "reset", ent[r].pw = r
        PROVE  /\ pc'[r] \in {"use", "done"} /\ code[r] # None
               /\ pc'[r] = "done" => codes'[code[r]] = None
    <3>1. pc[r] \in {"save", "use"} /\ code[r] \in Codes /\ code[r] # None
      BY <1>2, <1>5, <2>2, ActsOnly, ValuesAssumption DEF Code
    <3>2. SaveUser(r) \/ UseUp(r)
      BY <1>5, <3>1 DEF Acts, Insert, GrantMain, GrantCustomer, DeleteUser, SendVerificationCode, DropCode
    <3>3. CASE SaveUser(r)
      BY <2>2, <3>1, <3>3, Typed DEF SaveUser, Go
    <3>4. CASE UseUp(r)
      BY <3>1, <3>4, Typed DEF UseUp, Go
    <3> QED
      BY <3>1, <3>2, <3>3, <3>4
  <2> QED
    BY <1>5, <2>1, <2>2 DEF Code
<1> QED
  BY <1>3, <1>4, <1>5

\* The request that is done last has been overtaken.
LEMMA Second ==
  ASSUME Inv, CodeInv, NEW r \in Reqs, Looks(r) \/ Acts(r), NEW q \in Reqs, q # r,
         kind'[r] = "reset", pc'[r] = "done", ent'[r].pw = r,
         kind[q] = "reset", pc[q] = "done", ent[q].pw = q, code[q] = code'[r]
  PROVE  r \in overtaken'
<1>1. Acts(r) /\ ~Looks(r)
  BY CodeStays
<1>2. UNCHANGED <<kind, ent, code>> /\ overtaken \subseteq overtaken'
  BY <1>1, ActsOnly
<1>3. pc[r] \in {"save", "use"} /\ codes[code[r]] = None
  BY <1>1, <1>2, ActsOnly DEF CodeInv, Code
<1>4. user[r] # None /\ (r \notin overtaken => codes[code[r]] = user[r])
  BY <1>2, <1>3, Of DEF Request, Snapshot
<1> QED
  BY <1>2, <1>3, <1>4

LEMMA CodeInvStep == Inv /\ CodeInv /\ [Next]_vars => CodeInv'
<1> SUFFICES ASSUME Inv, CodeInv, [Next]_vars PROVE CodeInv'
  OBVIOUS
<1>1. CASE UNCHANGED vars
  BY <1>1 DEF vars, CodeInv, Set, Code, CodeOnce
<1>2. CASE Next
  <2>1. PICK r \in Reqs : Looks(r) \/ Acts(r)
    BY <1>2, Steps
  <2>2. ASSUME NEW q \in Reqs, NEW i \in Ids, users'[i].pw = q PROVE Set(q)'
    <3>1. CASE users'[i].pw = users[i].pw \/ users'[i].pw = ent[r].pw
      <4>1. Set(q)
        BY <2>2, <3>1 DEF CodeInv
      <4> QED
        BY <2>1, <4>1, SetStays
    <3>2. CASE users'[i].pw = r /\ kind'[r] = "register" /\ pc'[r] = "main"
      BY <2>2, <3>2 DEF Set
    <3>3. CASE users'[i].pw = None
      BY <2>2, <3>3, ValuesAssumption
    <3> QED
      BY <2>1, <3>1, <3>2, <3>3, LooksOnly, ActsOnly, Puts
  <2>3. ASSUME NEW q \in Reqs, NEW x \in Reqs, ent'[q].pw = x PROVE Set(x)'
    <3>1. ent'[q].pw = ent[q].pw \/ (\E i \in Ids : ent'[q].pw = users[i].pw) \/ x = q
      BY <2>1, <2>3, LooksOnly, ActsOnly, Takes DEF Others
    <3>2. CASE x = q
      BY <2>3, <3>2 DEF Set
    <3>3. CASE ent[q].pw = x \/ \E i \in Ids : users[i].pw = x
      <4>1. Set(x)
        BY <3>3 DEF CodeInv
      <4> QED
        BY <2>1, <4>1, SetStays
    <3> QED
      BY <2>3, <3>1, <3>2, <3>3
  <2>4. \A q \in Reqs : Code(q)'
    BY <2>1, CodeStays
  <2>5. CodeOnce'
    <3> SUFFICES ASSUME NEW q \in Reqs, NEW x \in Reqs, q # x,
                        (kind[q] = "reset" /\ pc[q] = "done" /\ ent[q].pw = q)',
                        (kind[x] = "reset" /\ pc[x] = "done" /\ ent[x].pw = x)',
                        code'[q] = code'[x]
                 PROVE  q \in overtaken' \/ x \in overtaken'
      BY DEF CodeOnce
    <3>1. \A y \in Reqs \ {r} : /\ kind'[y] = kind[y] /\ pc'[y] = pc[y] /\ ent'[y] = ent[y]
                               /\ code'[y] = code[y]
      BY <2>1, LooksOnly, ActsOnly DEF Others
    <3>2. CASE q # r /\ x # r
      BY <2>1, <3>1, <3>2, LooksOnly, ActsOnly DEF CodeInv, CodeOnce
    <3>3. CASE q = r
      BY <2>1, <3>1, <3>3, Second
    <3>4. CASE x = r
      BY <2>1, <3>1, <3>4, Second
    <3> QED
      BY <3>2, <3>3, <3>4
  <2> QED
    BY <2>2, <2>3, <2>4, <2>5 DEF CodeInv
<1> QED
  BY <1>1, <1>2

\* Of two requests that changed the password with the same code, one has been
\* overtaken: a code that was used up opens nothing to those who come later.
THEOREM CodeUsedOnce == Spec => []CodeOnce
<1>1. CodeInv => CodeOnce
  BY DEF CodeInv
<1> QED
  BY <1>1, InitCodes, CodeInvStep, InvHolds, PTL DEF Spec

=============================================================================
