------------------------------ MODULE Accounts ------------------------------
(***************************************************************************)
(* The accounts with one e-mail address: registration with a password and  *)
(* with Firebase, the social login, updates of the profile, deletion, and  *)
(* the recovery of the password with a code.                               *)
(*                                                                         *)
(* The table has no unique e-mail: every handler looks first, and writes   *)
(* some awaits later.  save() writes the entity as it was loaded and       *)
(* changed, and inserts it when its row is gone; here it is one step.      *)
(* Nobody changes the e-mail address of an account.  A handler that stops  *)
(* between two awaits takes no further step.                               *)
(***************************************************************************)
CONSTANTS
    Reqs,    \* requests, one operation each
    Ids,     \* ids of users
    Codes,   \* ids of rows of recovery_password
    Old,     \* the password from before; a request is the password it sets
    None     \* no password, no row

Row == [state : {"gone", "here"}, pw : Reqs \cup {Old, None}, social : {"no", "yes"}]
NoRow == [state |-> "gone", pw |-> None, social |-> "no"]
Role == {"main", "customer"}
Kind == {"none", "register", "login", "social", "profile", "remove", "reset"}
Label == {"idle", "insert", "email", "load", "create", "save", "main", "customer",
          "delete", "code", "send", "drop", "use", "refused", "done"}
Await == Label \ {"idle", "refused", "done"}

ASSUME ValuesAssumption == Old \notin Reqs /\ None \notin Reqs \cup Ids \cup Codes /\ Old # None

VARIABLES
    users,      \* the rows of user
    roles,      \* [Ids -> SUBSET Role]: their rows of user_roles
    codes,      \* [Codes -> Ids or None]: the rows of recovery_password
    pc,         \* where a request awaits
    kind,       \* what it does
    user, ent,  \* the account it is about, and the entity it will save
    code,       \* the code it has found
    overtaken,  \* requests in flight when another one has written
    failed      \* registrations that swallowed a failed grant

vars == <<users, roles, codes, pc, kind, user, ent, code, overtaken, failed>>

Here == {i \in Ids : users[i].state = "here"}

\* findOne({where: {email}})
KnownMut == {i \in Here : users[i].pw # None}      \* overlooks the social ones
Known == Here

\* Before: nobody, or one account with or without a code for its recovery.
Init ==
    /\ users \in [Ids -> {NoRow} \cup [state : {"here"}, pw : {Old, None}, social : {"no", "yes"}]]
    /\ \A i, j \in Here : i = j
    /\ \A i \in Here : users[i].pw = None => users[i].social = "yes"
    /\ roles = [i \in Ids |-> IF i \in Here THEN {"main"} ELSE {}]
    /\ codes \in [Codes -> Here \cup {None}]
    /\ \A c, d \in Codes : codes[c] # None /\ codes[d] # None => c = d
    /\ pc = [r \in Reqs |-> "idle"]
    /\ kind = [r \in Reqs |-> "none"]
    /\ user = [r \in Reqs |-> None]
    /\ ent = [r \in Reqs |-> NoRow]
    /\ code = [r \in Reqs |-> None]
    /\ overtaken = {}
    /\ failed = {}

Go(r, label) == pc' = [pc EXCEPT ![r] = label]
Begin(r, k, label) == pc[r] = "idle" /\ kind' = [kind EXCEPT ![r] = k] /\ Go(r, label)
On(r, i) == user' = [user EXCEPT ![r] = i]
Overtake(r) == overtaken' = overtaken \cup {q \in Reqs \ {r} : pc[q] \in Await}
ReadOnly == UNCHANGED <<users, roles, codes, overtaken, failed>>

-----------------------------------------------------------------------------
(* Registration and login.                                                 *)

\* POST /auth/register; with the legacy role 'client' a known e-mail is no error.
Register(r) ==
    /\ IF Known = {} THEN Begin(r, "register", "insert") /\ UNCHANGED user
       ELSE \E i \in Known, answer \in {"main", "refused"} :
              Begin(r, "register", answer) /\ On(r, i)
    /\ UNCHANGED <<ent, code>> /\ ReadOnly

\* findBySocialToken; a query that fails counts as one that finds nothing.
LoginSocial(r) ==
    /\ \/ Begin(r, "login", "email")
       \/ (\E i \in Here : users[i].social = "yes") /\ Begin(r, "login", "done")
    /\ UNCHANGED <<user, ent, code>> /\ ReadOnly

FindByEmail(r) ==
    /\ pc[r] = "email"
    /\ IF Known = {} THEN Go(r, "create") /\ kind' = [kind EXCEPT ![r] = "social"] /\ UNCHANGED user
       ELSE \E i \in Known : Go(r, "load") /\ On(r, i) /\ UNCHANGED kind
    /\ UNCHANGED <<ent, code>> /\ ReadOnly

\* updateSocialToken loads the account once more.
UpdateSocialToken(r) ==
    /\ pc[r] = "load"
    /\ IF user[r] \in Here
       THEN Go(r, "save") /\ ent' = [ent EXCEPT ![r] = [users[user[r]] EXCEPT !.social = "yes"]]
       ELSE Go(r, "refused") /\ UNCHANGED ent
    /\ UNCHANGED <<kind, user, code>> /\ ReadOnly

RegisterSocialWithData(r) ==
    /\ Begin(r, "social", "create")
    /\ UNCHANGED <<user, ent, code>> /\ ReadOnly

CreateOfSocial(r) ==
    /\ pc[r] = "create"
    /\ IF Known = {} THEN Go(r, "insert") /\ UNCHANGED <<user, ent>>
       ELSE \E i \in Known :
         /\ On(r, i)
         /\ IF users[i].social = "yes" THEN Go(r, "main") /\ UNCHANGED ent
            ELSE Go(r, "save") /\ ent' = [ent EXCEPT ![r] = [users[i] EXCEPT !.social = "yes"]]
    /\ UNCHANGED <<kind, code>> /\ ReadOnly

\* uuidv4(): an id that nothing has had.
Fresh(i) == i \notin Here /\ \A r \in Reqs : user[r] # i
Insert(r) ==
    /\ pc[r] = "insert"
    /\ \E i \in Ids :
         /\ Fresh(i) /\ On(r, i)
         /\ users' = [users EXCEPT ![i] =
              [state |-> "here", pw |-> IF kind[r] = "register" THEN r ELSE None,
               social |-> IF kind[r] = "register" THEN "no" ELSE "yes"]]
    /\ Go(r, "main") /\ Overtake(r)
    /\ UNCHANGED <<roles, codes, kind, ent, code, failed>>

\* assignRole; the role is there already, or the statement fails, and the
\* registration goes on.
Assign(r, role) ==
    \/ /\ user[r] \in Here
       /\ roles' = [roles EXCEPT ![user[r]] = @ \cup {role}]
       /\ UNCHANGED failed
    \/ failed' = failed \cup {r} /\ UNCHANGED roles

GrantMainMut(r) ==                            \* only for those with a password
    /\ pc[r] = "main"
    /\ IF kind[r] = "register" THEN Assign(r, "main") ELSE UNCHANGED <<roles, failed>>
    /\ Go(r, "customer") /\ Overtake(r)
    /\ UNCHANGED <<users, codes, kind, user, ent, code>>
GrantMain(r) ==
    /\ pc[r] = "main" /\ Assign(r, "main")
    /\ \E label \in {"customer", "done"} : Go(r, label)      \* needsCustomerRole
    /\ Overtake(r)
    /\ UNCHANGED <<users, codes, kind, user, ent, code>>

GrantCustomer(r) ==
    /\ pc[r] = "customer" /\ Assign(r, "customer")
    /\ Go(r, "done") /\ Overtake(r)
    /\ UNCHANGED <<users, codes, kind, user, ent, code>>

-----------------------------------------------------------------------------
(* The account.                                                            *)

\* The profile, its photo, the FCM token, the legacy role: none of what is here.
LoadedMut(i) == [users[i] EXCEPT !.pw = None]      \* without its password
Loaded(i) == users[i]
UpdateProfile(r) ==
    /\ Begin(r, "profile", "save")
    /\ \E i \in Here : On(r, i) /\ ent' = [ent EXCEPT ![r] = Loaded(i)]
    /\ UNCHANGED code /\ ReadOnly

SaveUser(r) ==
    /\ pc[r] = "save"
    /\ users' = [users EXCEPT ![user[r]] = ent[r]]
    /\ Go(r, IF kind[r] = "social" THEN "main" ELSE IF kind[r] = "reset" THEN "use" ELSE "done")
    /\ IF users' = users THEN UNCHANGED overtaken ELSE Overtake(r)
    /\ UNCHANGED <<roles, codes, kind, user, ent, code, failed>>

RemoveUser(r) ==
    /\ Begin(r, "remove", "delete")
    /\ \E i \in Here : On(r, i)
    /\ UNCHANGED <<ent, code>> /\ ReadOnly

\* The roles go with it; the codes, which reference nothing, stay.
DeleteUserMut(r) ==                           \* no cascade to the roles
    /\ pc[r] = "delete"
    /\ users' = [users EXCEPT ![user[r]] = NoRow]
    /\ Go(r, "done") /\ Overtake(r)
    /\ UNCHANGED <<roles, codes, kind, user, ent, code, failed>>
DeleteUser(r) ==
    /\ pc[r] = "delete"
    /\ users' = [users EXCEPT ![user[r]] = NoRow]
    /\ roles' = [roles EXCEPT ![user[r]] = {}]
    /\ Go(r, "done") /\ Overtake(r)
    /\ UNCHANGED <<codes, kind, user, ent, code, failed>>

-----------------------------------------------------------------------------
(* The recovery of the password: one route, by what the body holds.        *)

ChangePasswordByUser(r) ==
    /\ Begin(r, "reset", "code")
    /\ \E i \in Known : On(r, i) /\ ent' = [ent EXCEPT ![r] = users[i]]
    /\ UNCHANGED code /\ ReadOnly

FindCode(r) ==
    LET found == {c \in Codes : codes[c] = user[r]} IN
    /\ pc[r] = "code"
    /\ \/ found = {} /\ Go(r, "send") /\ UNCHANGED <<ent, code>>
       \/ \E c \in found :
            /\ code' = [code EXCEPT ![r] = c]
            /\ \/ Go(r, "drop") /\ UNCHANGED ent                    \* no code in the body
               \/ Go(r, "save") /\ ent' = [ent EXCEPT ![r].pw = r]  \* the right one
       \/ found # {} /\ UNCHANGED <<ent, code>>
            /\ \/ Go(r, "refused")                                  \* a wrong one
               \/ Go(r, "done")                                     \* no new password
    /\ UNCHANGED <<kind, user>> /\ ReadOnly

\* Not awaited: the request has answered, and nobody learns of a failure.
SendVerificationCode(r) ==
    /\ pc[r] = "send"
    /\ \E c \in Codes : /\ codes[c] = None /\ \A q \in Reqs : code[q] # c
                        /\ codes' = [codes EXCEPT ![c] = user[r]]
    /\ Go(r, "done") /\ Overtake(r)
    /\ UNCHANGED <<users, roles, kind, user, ent, code, failed>>

DropCode(r) ==
    /\ pc[r] = "drop"
    /\ codes' = [codes EXCEPT ![code[r]] = None]
    /\ Go(r, "send") /\ Overtake(r)
    /\ UNCHANGED <<users, roles, kind, user, ent, code, failed>>

UseUpMut(r) ==                                 \* the code stays
    /\ pc[r] = "use"
    /\ Go(r, "done") /\ Overtake(r)
    /\ UNCHANGED <<users, roles, codes, kind, user, ent, code, failed>>
UseUp(r) ==
    /\ pc[r] = "use"
    /\ codes' = [codes EXCEPT ![code[r]] = None]
    /\ Go(r, "done") /\ Overtake(r)
    /\ UNCHANGED <<users, roles, kind, user, ent, code, failed>>

\* No account to work on, or the body is not valid.
Refuse(r) ==
    /\ Begin(r, "none", "refused")
    /\ UNCHANGED <<user, ent, code>> /\ ReadOnly

Next ==
    \E r \in Reqs :
      \/ Register(r) \/ LoginSocial(r) \/ FindByEmail(r) \/ UpdateSocialToken(r)
      \/ RegisterSocialWithData(r) \/ CreateOfSocial(r) \/ Insert(r)
      \/ GrantMain(r) \/ GrantCustomer(r)
      \/ UpdateProfile(r) \/ SaveUser(r) \/ RemoveUser(r) \/ DeleteUser(r)
      \/ ChangePasswordByUser(r) \/ FindCode(r)
      \/ SendVerificationCode(r) \/ DropCode(r) \/ UseUp(r) \/ Refuse(r)

Spec == Init /\ [][Next]_vars

-----------------------------------------------------------------------------
(* Properties.                                                             *)

\* Every variable stays in its range, and no account that is gone has a role.
TypeOK ==
    /\ users \in [Ids -> Row]
    /\ roles \in [Ids -> SUBSET Role] /\ \A i \in Ids \ Here : roles[i] = {}
    /\ codes \in [Codes -> Ids \cup {None}]
    /\ pc \in [Reqs -> Label]
    /\ kind \in [Reqs -> Kind]
    /\ user \in [Reqs -> Ids \cup {None}]
    /\ ent \in [Reqs -> Row]
    /\ code \in [Reqs -> Codes \cup {None}]
    /\ overtaken \subseteq Reqs /\ failed \subseteq Reqs

\* The requests that have gone past a write although another one overtook them.
Late == {r \in overtaken : pc[r] \in {"main", "customer", "send", "use", "done"}}

\* As long as no request wrote after another one had overtaken it, the e-mail has
\* one account, however it is registered, linked, updated and deleted.
OneAccount == Late = {} => \A i, j \in Here : i = j

\* Then, too, an account whose registration is over has its role, unless the
\* grant failed, which the registration swallows.
HasRole ==
    Late = {} => \A i \in Here :
      \/ roles[i] # {}
      \/ \E r \in Reqs : user[r] = i /\ (r \in failed \/ pc[r] = "main")

\* Of two requests that changed the password with the same code, one has been
\* overtaken: a code that was used up opens nothing to those who come later.
CodeOnce ==
    \A q, r \in Reqs :
      /\ q # r /\ kind[q] = "reset" /\ kind[r] = "reset"
      /\ pc[q] = "done" /\ pc[r] = "done"
      /\ ent[q].pw = q /\ ent[r].pw = r /\ code[q] = code[r]
      => q \in overtaken \/ r \in overtaken

\* A request that nobody has overtaken changes a password only as a reset, with a
\* code of that account, links only as a social one, and brings no account back.
OwnChanges ==
    [][\A r \in Reqs \ overtaken, i \in Ids :
         pc[r] \in {"save", "insert"} /\ pc'[r] # pc[r] =>
           \/ users'[i] = users[i]
           \/ pc[r] = "insert" /\ i \notin Here
           \/ /\ pc[r] = "save" /\ i \in Here /\ i = user[r]
              /\ users'[i].pw # users[i].pw => kind[r] = "reset" /\ codes[code[r]] = i
              /\ users'[i].social # users[i].social => kind[r] \in {"login", "social"}]_vars
=============================================================================
