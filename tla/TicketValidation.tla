-------------------------- MODULE TicketValidation --------------------------
(***************************************************************************)
(* One ticket at the door: the two routes that validate a code and mark    *)
(* the ticket used, the regeneration of its code, the codes that its owner *)
(* is shown, and the ticket webhook that refunds, cancels or activates it. *)
(*                                                                         *)
(* Each handler loads the row, changes the entity and saves it; save() is  *)
(* a SELECT and an UPDATE of the columns in which the entity differs from  *)
(* what that SELECT read.  Nothing is locked between load and UPDATE.      *)
(*                                                                         *)
(* The codes of the ticket differ in their time of generation alone and    *)
(* are numbered in that order; the first is the one it was issued with.    *)
(***************************************************************************)
EXTENDS Integers

CONSTANTS
    Scans,       \* requests to validate a code ...
    PathScans,   \* ... those to POST /tickets/validate/:code; the others carry
                 \* the code in the body of POST /tickets/validate
    Regens,      \* requests to POST /tickets/:id/regenerate-qr
    Hooks,       \* deliveries of order.processed that found the purchase PENDING,
                 \* before the ticket was issued, and have not updated it yet
    Changes,     \* statuses that a refunded or a failed order gives the ticket
    MaxCode      \* bound on the codes generated

Procs == Scans \cup Regens
Codes == 1 .. MaxCode
Status == {"ACTIVE", "USED", "CANCELLED", "REFUNDED"}
Label == {"idle", "select", "update", "accepted", "refused", "done"}

ASSUME ScansAssumption == /\ PathScans \subseteq Scans /\ Scans \cap Regens = {}
                          /\ Hooks \cap (Scans \cup Regens) = {}
ASSUME ChangesAssumption == Changes \subseteq {"CANCELLED", "REFUNDED"}
ASSUME CodeAssumption == MaxCode \in Nat \ {0}

VARIABLES
    row,      \* the ticket's row: [status, code]
    last,     \* the newest code generated
    aged,     \* codes up to this one are more than seven days old
    pc,       \* where a handler awaits, or what it has answered
    read,     \* the code presented by a scan, 0 before
    ent,      \* the entity a handler has loaded and changed
    cols      \* the columns its save() has found to write

vars == <<row, last, aged, pc, read, ent, cols>>

Go(i, label) == pc' = [pc EXCEPT ![i] = label]

Init ==
    /\ row = [status |-> "ACTIVE", code |-> 1]
    /\ last = 1
    /\ aged = 0
    /\ pc = [i \in Procs \cup Hooks |-> "idle"]
    /\ read = [s \in Scans |-> 0]
    /\ ent = [i \in Procs |-> [status |-> "ACTIVE", code |-> 1]]
    /\ cols = [i \in Procs |-> {}]

-----------------------------------------------------------------------------
(* Validation.                                                             *)

\* More than 50 characters with a '-' or a '_': base64url has these two only
\* for the bytes '>', '?', '~' and DEL or beyond ASCII, none of which is in the
\* JSON of a code, so that no code is taken for a secure one.
LooksSecure(c) == FALSE

\* Signature and expiry are checked where the code is taken for a secure one.
Genuine(s, c) == s \notin PathScans \/ LooksSecure(c) => c > aged

\* The code is the stored one, and the ticket neither used nor otherwise dead.
AdmitsMut(c) == row.code = c /\ row.status \notin {"CANCELLED", "REFUNDED"}
Admits(c) == row.code = c /\ row.status = "ACTIVE"

EnteredMut == row                     \* the ticket is not marked as used
Entered == [row EXCEPT !.status = "USED"]

Present(s) ==
    /\ pc[s] = "idle"
    /\ \E c \in 1 .. last :
         /\ read' = [read EXCEPT ![s] = c]
         /\ \/ Genuine(s, c) /\ Admits(c)
               /\ ent' = [ent EXCEPT ![s] = Entered] /\ Go(s, "select")
            \/ ~(Genuine(s, c) /\ Admits(c))
               /\ Go(s, "refused") /\ UNCHANGED ent
    /\ UNCHANGED <<row, last, aged, cols>>

-----------------------------------------------------------------------------
(* Regeneration, and the codes shown to the owner.                         *)

RegeneratedMut == [status |-> "USED", code |-> last + 1]   \* the ticket is retired
Regenerated == [row EXCEPT !.code = last + 1]

RegenerateQRCode(r) ==
    /\ pc[r] = "idle" /\ last < MaxCode
    /\ ent' = [ent EXCEPT ![r] = Regenerated]
    /\ last' = last + 1
    /\ Go(r, "select")
    /\ UNCHANGED <<row, aged, read, cols>>

\* GET /tickets/:id/qr-data shows the owner a new code, which is not stored.
GetTicketWithOfflineData ==
    /\ last < MaxCode
    /\ last' = last + 1
    /\ UNCHANGED <<row, aged, pc, read, ent, cols>>

-----------------------------------------------------------------------------
(* save(ticket).                                                           *)

SaveSelect(i) ==
    /\ pc[i] = "select"
    /\ cols' = [cols EXCEPT ![i] = {f \in {"status", "code"} : ent[i][f] # row[f]}]
    /\ Go(i, "update")
    /\ UNCHANGED <<row, last, aged, read, ent>>

SaveUpdate(i) ==
    /\ pc[i] = "update"
    /\ row' = [status |-> IF "status" \in cols[i] THEN ent[i].status ELSE row.status,
               code |-> IF "code" \in cols[i] THEN ent[i].code ELSE row.code]
    /\ Go(i, IF i \in Scans THEN "accepted" ELSE "done")
    /\ UNCHANGED <<last, aged, read, ent, cols>>

-----------------------------------------------------------------------------
(* Around it.                                                              *)

\* The ticket webhook's UPDATE of the tickets of a purchase, whatever they are:
\* when the order is refunded, failed, expired or cancelled ...
Settle(st) ==
    /\ row' = [row EXCEPT !.status = st]
    /\ UNCHANGED <<last, aged, pc, read, ent, cols>>

\* ... and when it is processed, which is for a purchase found PENDING only.  The
\* purchase is settled as its tickets are issued, so that no other delivery comes.
HandleOrderProcessed(h) ==
    /\ pc[h] = "idle"
    /\ row' = [row EXCEPT !.status = "ACTIVE"]
    /\ Go(h, "done")
    /\ UNCHANGED <<last, aged, read, ent, cols>>

Age ==
    /\ aged < last
    /\ aged' = aged + 1
    /\ UNCHANGED <<row, last, pc, read, ent, cols>>

Next ==
    \/ \E s \in Scans : Present(s)
    \/ \E r \in Regens : RegenerateQRCode(r)
    \/ GetTicketWithOfflineData
    \/ \E i \in Procs : SaveSelect(i) \/ SaveUpdate(i)
    \/ \E st \in Changes : Settle(st)
    \/ \E h \in Hooks : HandleOrderProcessed(h)
    \/ Age

Spec == Init /\ [][Next]_vars

-----------------------------------------------------------------------------
(* Properties.                                                             *)

\* Every variable stays in its range.
TypeOK ==
    /\ row \in [status : Status, code : Codes]
    /\ last \in Codes /\ aged \in 0 .. last
    /\ pc \in [Procs \cup Hooks -> Label]
    /\ read \in [Scans -> 0 .. MaxCode]
    /\ ent \in [Procs -> [status : Status, code : Codes]]
    /\ cols \in [Procs -> SUBSET {"status", "code"}]

Accepted == {s \in Scans : pc[s] = "accepted"}

\* Regenerations that have loaded a valid ticket.
Revivers == {r \in Regens : pc[r] # "idle" /\ ent[r].status = "ACTIVE"}

\* Webhooks that have updated the ticket of the purchase they once found PENDING.
Activators == {h \in Hooks : pc[h] = "done"}

\* A ticket that has been used, refunded or cancelled becomes ACTIVE again in
\* two ways only, however late the entities loaded before are saved: by the
\* UPDATE of a regeneration that loaded the ticket while it was valid, and, once
\* for each, by a webhook that found the purchase PENDING before it was issued.
NeverRevived ==
    [][row.status # "ACTIVE" /\ row'.status = "ACTIVE" =>
         \/ \E r \in Revivers : pc[r] = "update" /\ pc'[r] = "done"
         \/ \E h \in Hooks : h \notin Activators /\ h \in Activators']_vars

\* A scan that comes after somebody has been let in is refused, unless a
\* regeneration has loaded the ticket while it was valid or such a webhook has
\* made it ACTIVE.
NoSecondEntry ==
    [][\A s \in Scans : pc[s] = "idle" /\ pc'[s] = "select" =>
         Accepted = {} \/ Revivers # {} \/ Activators # {}]_vars

\* No ticket is used up without somebody having been let in: not by entities
\* that regenerations write back, nor by anything that comes from a refusal.
UsedByEntry == row.status = "USED" => Accepted # {}
=============================================================================
