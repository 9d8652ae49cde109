----------------------- MODULE TicketValidationProofs -----------------------
(***************************************************************************)
(* Proofs about TicketValidation, for any number of requests and codes.    *)
(*                                                                         *)
(* That nobody is let in after somebody has been rests on what an entity   *)
(* on its way to the row can still write: a scan's holds USED, and a scan  *)
(* that has found no status to write has found the row dead already.  Only *)
(* the entity of a regeneration may hold ACTIVE (Revivers), and only a     *)
(* webhook that once found the purchase PENDING writes it (Activators).    *)
(***************************************************************************)
EXTENDS TicketValidation, TLAPS

InFlight == {"select", "update"}

\* Somebody may write ACTIVE, or has done so.
Renewed == Revivers # {} \/ Activators # {}

\* What a scan on its way to the row can write never revives the ticket.
ScansKill ==
    \A s \in Scans :
      /\ pc[s] \in InFlight => ent[s].status = "USED"
      /\ pc[s] = "update" /\ "status" \notin cols[s] =>
           row.status # "ACTIVE" \/ Renewed

EntryInv ==
    /\ TypeOK
    /\ ScansKill
    /\ Accepted # {} => row.status # "ACTIVE" \/ Renewed

\* An entity that holds USED has a scan that has been accepted behind it, or is
\* that scan's own.
UsedInv ==
    /\ TypeOK
    /\ UsedByEntry
    /\ \A r \in Regens : pc[r] \in InFlight /\ ent[r].status = "USED" => Accepted # {}

\* Every variable keeps its range.
THEOREM TypeCorrect == Spec => []TypeOK
<1> USE ScansAssumption, ChangesAssumption, CodeAssumption
<1>1. Init => TypeOK
  BY DEF Init, TypeOK, Procs, Codes, Status, Label
<1>2. TypeOK /\ [Next]_vars => TypeOK'
  <2> SUFFICES ASSUME TypeOK, [Next]_vars PROVE TypeOK'
    OBVIOUS
  <2> USE DEF TypeOK, Procs, Codes, Status, Label, Go
  <2>1. ASSUME NEW s \in Scans, Present(s) PROVE TypeOK'
    BY <2>1 DEF Present, Entered
  <2>2. ASSUME NEW r \in Regens, RegenerateQRCode(r) PROVE TypeOK'
    BY <2>2 DEF RegenerateQRCode, Regenerated
  <2>3. CASE GetTicketWithOfflineData
    BY <2>3 DEF GetTicketWithOfflineData
  <2>4. ASSUME NEW i \in Procs, SaveSelect(i) PROVE TypeOK'
    BY <2>4 DEF SaveSelect
  <2>5. ASSUME NEW i \in Procs, SaveUpdate(i) PROVE TypeOK'
    BY <2>5 DEF SaveUpdate
  <2>6. ASSUME NEW st \in Changes, Settle(st) PROVE TypeOK'
    BY <2>6 DEF Settle
  <2>7. CASE Age
    BY <2>7 DEF Age
  <2>8. CASE UNCHANGED vars
    BY <2>8 DEF vars
  <2>9. ASSUME NEW h \in Hooks, HandleOrderProcessed(h) PROVE TypeOK'
    BY <2>9 DEF HandleOrderProcessed
  <2> QED
    BY <2>1, <2>2, <2>3, <2>4, <2>5, <2>6, <2>7, <2>8, <2>9 DEF Next
<1> QED
  BY <1>1, <1>2, PTL DEF Spec

\* A regeneration that has loaded a valid ticket has always done so, and a webhook
\* that has updated the ticket too.
LEMMA RenewedStays ==
  ASSUME TypeOK, [Next]_vars, Renewed
  PROVE  Renewed'
<1> USE ScansAssumption DEF TypeOK, Revivers, Activators, Procs, Go
<1>1. ASSUME NEW r \in Revivers PROVE r \in Revivers'
  BY DEF Next, Present, RegenerateQRCode, GetTicketWithOfflineData, SaveSelect, SaveUpdate,
         Settle, HandleOrderProcessed, Age, vars
<1>2. ASSUME NEW h \in Activators PROVE h \in Activators'
  BY DEF Next, Present, RegenerateQRCode, GetTicketWithOfflineData, SaveSelect, SaveUpdate,
         Settle, HandleOrderProcessed, Age, vars
<1> QED
  BY <1>1, <1>2 DEF Renewed

\* No step but the UPDATE of such a regeneration or webhook revives the ticket, and
\* whatever else is on its way to the row still kills it.
LEMMA EntryStep ==
  ASSUME EntryInv, TypeOK', [Next]_vars
  PROVE  /\ EntryInv'
         /\ row.status # "ACTIVE" /\ row'.status = "ACTIVE" =>
              \/ \E r \in Revivers : pc[r] = "update" /\ pc'[r] = "done"
              \/ \E h \in Hooks : h \notin Activators /\ h \in Activators'
<1> DEFINE By == row.status # "ACTIVE" /\ row'.status = "ACTIVE" =>
                   \/ \E r \in Revivers : pc[r] = "update" /\ pc'[r] = "done"
                   \/ \E h \in Hooks : h \notin Activators /\ h \in Activators'
           Goal == /\ ScansKill'
                   /\ (Accepted # {} => row.status # "ACTIVE" \/ Renewed)'
                   /\ By
<1> SUFFICES Goal
  BY DEF EntryInv
<1>0. Renewed => Renewed'
  BY RenewedStays DEF EntryInv
<1> USE ScansAssumption, ChangesAssumption
<1> USE DEF EntryInv, TypeOK, ScansKill, Accepted, InFlight, Procs, Go
<1>1. ASSUME NEW s \in Scans, Present(s) PROVE Goal
  BY <1>0, <1>1 DEF Present, Entered
<1>2. ASSUME NEW r \in Regens, RegenerateQRCode(r) PROVE Goal
  BY <1>0, <1>2 DEF RegenerateQRCode
<1>3. CASE GetTicketWithOfflineData
  BY <1>0, <1>3 DEF GetTicketWithOfflineData
<1>4. ASSUME NEW i \in Procs, SaveSelect(i) PROVE Goal
  BY <1>0, <1>4 DEF SaveSelect
<1>5. ASSUME NEW i \in Scans, SaveUpdate(i) PROVE Goal
  <2>1. pc[i] = "update" /\ ent[i].status = "USED"
    BY <1>5 DEF SaveUpdate
  <2>2. row'.status # "ACTIVE" \/ (row.status = "ACTIVE" /\ Renewed)
    BY <1>5, <2>1 DEF SaveUpdate
  <2> QED
    BY <1>0, <1>5, <2>1, <2>2 DEF SaveUpdate
<1>6. ASSUME NEW i \in Regens, SaveUpdate(i) PROVE Goal
  <2>1. pc[i] = "update" /\ pc' = [pc EXCEPT ![i] = "done"] /\ i \notin Scans
    BY <1>6 DEF SaveUpdate
  <2>2. row'.status = row.status \/ row'.status = ent[i].status
    BY <1>6 DEF SaveUpdate
  <2>3. ent[i].status = "ACTIVE" => i \in Revivers
    BY <2>1 DEF Revivers
  <2>4. row.status # "ACTIVE" => row'.status # "ACTIVE" \/ Renewed'
    BY <1>0, <2>2, <2>3 DEF Renewed
  <2>5. UNCHANGED <<ent, cols>> /\ Accepted' = Accepted
    BY <1>6, <2>1 DEF SaveUpdate
  <2>6. \A s \in Scans : pc'[s] = pc[s]
    BY <2>1
  <2>7. By
    BY <2>1, <2>2, <2>3
  <2> QED
    BY <1>0, <2>4, <2>5, <2>6, <2>7
<1>7. ASSUME NEW st \in Changes, Settle(st) PROVE Goal
  <2>1. row'.status = st /\ st # "ACTIVE"
    BY <1>7 DEF Settle
  <2> QED
    BY <1>7, <2>1 DEF Settle
<1>8. CASE Age
  BY <1>0, <1>8 DEF Age
<1>9. CASE UNCHANGED vars
  BY <1>0, <1>9 DEF vars
<1>10. ASSUME NEW h \in Hooks, HandleOrderProcessed(h) PROVE Goal
  <2>1. h \notin Activators /\ h \in Activators'
    BY <1>10 DEF HandleOrderProcessed, Activators
  <2>2. /\ UNCHANGED <<ent, cols>> /\ Accepted' = Accepted
        /\ \A s \in Scans : pc'[s] = pc[s]
    BY <1>10 DEF HandleOrderProcessed
  <2>3. Renewed'
    BY <2>1 DEF Renewed
  <2> QED
    BY <2>1, <2>2, <2>3
<1> QED
  BY <1>1, <1>2, <1>3, <1>4, <1>5, <1>6, <1>7, <1>8, <1>9, <1>10 DEF Next, Procs

LEMMA EntryHolds == Spec => []EntryInv
<1>1. Init /\ TypeOK => EntryInv
  BY ScansAssumption DEF Init, EntryInv, ScansKill, Accepted, InFlight, Procs
<1>2. EntryInv /\ TypeOK' /\ [Next]_vars => EntryInv'
  BY EntryStep
<1> QED
  BY <1>1, <1>2, TypeCorrect, PTL DEF Spec

\* A ticket once used, refunded or cancelled becomes ACTIVE by the UPDATE of a
\* regeneration that loaded it valid or of a webhook that found its purchase
\* PENDING before it was issued, one for each, and by nothing else.
THEOREM StaysDead == Spec => NeverRevived
<1>1. /\ EntryInv /\ TypeOK' /\ [Next]_vars
      => [row.status # "ACTIVE" /\ row'.status = "ACTIVE" =>
            \/ \E r \in Revivers : pc[r] = "update" /\ pc'[r] = "done"
            \/ \E h \in Hooks : h \notin Activators /\ h \in Activators']_vars
  BY EntryStep
<1> QED
  BY <1>1, EntryHolds, TypeCorrect, PTL DEF Spec, NeverRevived

\* Whoever comes after somebody has been let in is refused, unless a regeneration
\* has loaded the ticket while it was valid or such a webhook has activated it.
THEOREM LaterScansRefused == Spec => NoSecondEntry
<1> DEFINE Later == \A s \in Scans : pc[s] = "idle" /\ pc'[s] = "select" =>
                      Accepted = {} \/ Revivers # {} \/ Activators # {}
<1>1. ASSUME EntryInv, [Next]_vars PROVE Later
  <2> SUFFICES ASSUME NEW s \in Scans, pc[s] = "idle", pc'[s] = "select"
               PROVE  Accepted = {} \/ Revivers # {} \/ Activators # {}
    OBVIOUS
  <2>1. Present(s)
    BY <1>1, ScansAssumption
    DEF Next, Present, RegenerateQRCode, GetTicketWithOfflineData, SaveSelect,
        SaveUpdate, Settle, HandleOrderProcessed, Age, vars, Go, EntryInv, TypeOK, Procs
  <2>2. row.status = "ACTIVE"
    BY <2>1, <1>1 DEF Present, Admits, Go, EntryInv, TypeOK, Procs
  <2> QED
    BY <1>1, <2>2 DEF EntryInv, Renewed
<1>2. EntryInv /\ [Next]_vars => [Later]_vars
  BY <1>1
<1> QED
  BY <1>2, EntryHolds, PTL DEF Spec, NoSecondEntry

\* A ticket is USED only if somebody has been let in with it, regenerations and
\* all.
THEOREM UsedOnEntry == Spec => []UsedByEntry
<1>1. Init /\ TypeOK => UsedInv
  BY DEF Init, UsedInv, UsedByEntry, InFlight, Procs
<1>2. UsedInv /\ TypeOK' /\ [Next]_vars => UsedInv'
  <2> DEFINE Writes == \A r \in Regens :
                         pc[r] \in InFlight /\ ent[r].status = "USED" => Accepted # {}
             Goal == UsedByEntry' /\ Writes'
  <2> SUFFICES ASSUME UsedInv, TypeOK', [Next]_vars PROVE Goal
    BY DEF UsedInv
  <2> USE ScansAssumption, ChangesAssumption
  <2> USE DEF UsedInv, TypeOK, UsedByEntry, Accepted, InFlight, Procs, Go
  <2>1. ASSUME NEW s \in Scans, Present(s) PROVE Goal
    BY <2>1 DEF Present
  <2>2. ASSUME NEW r \in Regens, RegenerateQRCode(r) PROVE Goal
    BY <2>2 DEF RegenerateQRCode, Regenerated
  <2>3. CASE GetTicketWithOfflineData
    BY <2>3 DEF GetTicketWithOfflineData
  <2>4. ASSUME NEW i \in Procs, SaveSelect(i) PROVE Goal
    BY <2>4 DEF SaveSelect
  <2>5. ASSUME NEW i \in Procs, SaveUpdate(i) PROVE Goal
    <3>1. CASE i \in Scans
      <4>1. i \in Accepted'
        BY <2>5, <3>1 DEF SaveUpdate
      <4> QED
        BY <4>1
    <3>2. CASE i \in Regens
      <4>1. Accepted' = Accepted
        BY <2>5, <3>2 DEF SaveUpdate
      <4>2. row'.status = "USED" => Accepted # {}
        BY <2>5, <3>2 DEF SaveUpdate
      <4>3. \A r \in Regens : pc'[r] \in InFlight => pc[r] \in InFlight /\ ent'[r] = ent[r]
        BY <2>5, <3>2 DEF SaveUpdate
      <4> QED
        BY <4>1, <4>2, <4>3
    <3> QED
      BY <2>5, <3>1, <3>2
  <2>6. ASSUME NEW st \in Changes, Settle(st) PROVE Goal
    BY <2>6 DEF Settle
  <2>7. CASE Age
    BY <2>7 DEF Age
  <2>8. CASE UNCHANGED vars
    BY <2>8 DEF vars
  <2>9. ASSUME NEW h \in Hooks, HandleOrderProcessed(h) PROVE Goal
    BY <2>9 DEF HandleOrderProcessed
  <2> QED
    BY <2>1, <2>2, <2>3, <2>4, <2>5, <2>6, <2>7, <2>8, <2>9 DEF Next
<1>3. UsedInv => UsedByEntry
  BY DEF UsedInv
<1> QED
  BY <1>1, <1>2, <1>3, TypeCorrect, PTL DEF Spec
=============================================================================
