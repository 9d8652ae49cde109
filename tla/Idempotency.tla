---------------------------- MODULE Idempotency ----------------------------
(***************************************************************************)
(* IdempotencyService.tryProcess around the two MercadoPago webhooks, and  *)
(* MercadoPago's redelivery of what it got no 2xx answer for.              *)
(*                                                                         *)
(* The records live in one table with a unique index on the key.  Each     *)
(* await of tryProcess is a step: INSERT, the processor, UPDATE of the     *)
(* response, DELETE after an exception.  A delivery's key is the name of   *)
(* its endpoint with the x-request-id: deliveries of the two endpoints     *)
(* never share one.  Every failure is a fault of Faults; at most MaxFaults *)
(* happen.                                                                 *)
(***************************************************************************)
EXTENDS Integers, FiniteSets

CONSTANTS
    Deliveries,   \* HTTP requests, each repeated as long as it is not answered OK
    Keys,
    Key,          \* Key[d]: the idempotency key of delivery d
    Swallowing,   \* those to POST /payments/webhooks, which answers 200 to an error
    Faults,       \* what may go wrong, see FaultKind
    MaxFaults,    \* bound on the number of faults
    Scheduled,    \* TRUE: cleanupExpired is called (no code of the program does)
    NoOne

FaultKind == {"insert", "before", "after", "store", "delete", "crash"}

ASSUME DeliveriesAssumption == /\ Key \in [Deliveries -> Keys]
                               /\ Swallowing \subseteq Deliveries
                               /\ NoOne \notin Deliveries
ASSUME FaultsAssumption == /\ Faults \subseteq FaultKind
                           /\ MaxFaults \in Nat
                           /\ Scheduled \in BOOLEAN

VARIABLES
    record,   \* the row of a key: none, live or past its expiresAt
    pc,       \* where a delivery awaits, or how it was answered
    ran,      \* how often a key's processor has taken effect
    faults    \* faults so far

vars == <<record, pc, ran, faults>>

InFlight == {"run", "store", "undo"}
Label == {"idle", "ok", "duplicate", "error", "lost"} \cup InFlight
Holders(k) == {d \in Deliveries : Key[d] = k /\ pc[d] \in InFlight}

Go(d, label) == pc' = [pc EXCEPT ![d] = label]
Fault(f) == f \in Faults /\ faults < MaxFaults /\ faults' = faults + 1
NoFault == UNCHANGED faults

Init ==
    /\ record = [k \in Keys |-> "none"]
    /\ pc = [d \in Deliveries |-> "idle"]
    /\ ran = [k \in Keys |-> 0]
    /\ faults = 0

-----------------------------------------------------------------------------
(* tryProcess.                                                             *)

\* A key is taken as long as its record is there, expired or not.
TakenMut(k) == record[k] = "live"
Taken(k) == record[k] # "none"

\* The INSERT inside the try block whose handler deletes the key.
InsertMut(d) ==
    /\ pc[d] = "idle" /\ NoFault /\ UNCHANGED ran
    /\ IF Taken(Key[d]) THEN Go(d, "undo") /\ UNCHANGED record
       ELSE Go(d, "run") /\ record' = [record EXCEPT ![Key[d]] = "live"]
Insert(d) ==
    /\ pc[d] = "idle"
    /\ \/ ~Taken(Key[d]) /\ NoFault
          /\ record' = [record EXCEPT ![Key[d]] = "live"] /\ Go(d, "run")
       \/ Taken(Key[d]) /\ NoFault /\ UNCHANGED record /\ Go(d, "duplicate")
       \/ Fault("insert") /\ UNCHANGED record /\ Go(d, "error")
    /\ UNCHANGED ran

\* An exception of the processor is not rethrown to tryProcess.
RunMut(d) ==
    /\ pc[d] = "run" /\ Go(d, "store") /\ UNCHANGED record
    /\ \/ NoFault /\ ran' = [ran EXCEPT ![Key[d]] = @ + 1]
       \/ Fault("before") /\ UNCHANGED ran
\* The processor throws before it has changed anything, or after.
Run(d) ==
    LET effect == [ran EXCEPT ![Key[d]] = @ + 1] IN
    /\ pc[d] = "run"
    /\ \/ NoFault /\ ran' = effect /\ Go(d, "store")
       \/ Fault("before") /\ UNCHANGED ran /\ Go(d, "undo")
       \/ Fault("after") /\ ran' = effect /\ Go(d, "undo")
    /\ UNCHANGED record

\* The UPDATE of the response is in the same try block as the processor.
StoreResponse(d) ==
    /\ pc[d] = "store"
    /\ \/ NoFault /\ Go(d, "ok")
       \/ Fault("store") /\ Go(d, "undo")
    /\ UNCHANGED <<record, ran>>

\* DELETE by key; when it fails its own exception is thrown and the row stays.
FreedMut(d) == record                          \* no DELETE after an exception
Freed(d) == [record EXCEPT ![Key[d]] = "none"]
Undo(d) ==
    /\ pc[d] = "undo"
    /\ \/ NoFault /\ record' = Freed(d)
       \/ Fault("delete") /\ UNCHANGED record
    /\ Go(d, "error")
    /\ UNCHANGED ran

-----------------------------------------------------------------------------
(* Around it.                                                              *)

\* MercadoPago repeats a request that failed or got no answer.
Redeliver(d) ==
    /\ pc[d] = "lost" \/ (pc[d] = "error" /\ d \notin Swallowing)
    /\ Go(d, "idle")
    /\ UNCHANGED <<record, ran, faults>>

Expire(k) ==
    /\ record[k] = "live"
    /\ record' = [record EXCEPT ![k] = "expired"]
    /\ UNCHANGED <<pc, ran, faults>>

\* DELETE ... WHERE expiresAt > now.
Swept(k) == record[k] = "live"
CleanupExpired ==
    /\ Scheduled
    /\ record' = [k \in Keys |-> IF Swept(k) THEN "none" ELSE record[k]]
    /\ UNCHANGED <<pc, ran, faults>>

\* The server stops; the rows stay.
Crash ==
    /\ \E d \in Deliveries : pc[d] \in InFlight
    /\ Fault("crash")
    /\ pc' = [d \in Deliveries |-> IF pc[d] \in InFlight THEN "lost" ELSE pc[d]]
    /\ UNCHANGED <<record, ran>>

TryProcess(d) == Insert(d) \/ Run(d) \/ StoreResponse(d) \/ Undo(d)

Next ==
    \/ \E d \in Deliveries : TryProcess(d) \/ Redeliver(d)
    \/ \E k \in Keys : Expire(k)
    \/ CleanupExpired
    \/ Crash

Spec == Init /\ [][Next]_vars

\* Every await is answered, and MercadoPago keeps repeating.
Fairness == \A d \in Deliveries : WF_vars(TryProcess(d)) /\ WF_vars(Redeliver(d))
FairSpec == Spec /\ Fairness

-----------------------------------------------------------------------------
(* Properties.                                                             *)

\* Every variable stays in its range.
TypeOK ==
    /\ record \in [Keys -> {"none", "live", "expired"}]
    /\ pc \in [Deliveries -> Label]
    /\ ran \in [Keys -> Nat]
    /\ faults \in Nat

\* However deliveries with one key, faults, redeliveries and expiry interleave,
\* at most one of them is inside tryProcess past its INSERT, and the key's row
\* is there as long as it is: no other's DELETE takes the row away.
Exclusive ==
    \A k \in Keys : /\ \A c, d \in Holders(k) : c = d
                    /\ Holders(k) # {} => record[k] # "none"

\* As long as no processor throws after its effect and no UPDATE of a response
\* fails, a notification takes effect at most once, whatever else goes wrong.
EffectOnce == \A k \in Keys : ran[k] <= 1

\* Even with the cleanup deleting live records: every delivery answered as
\* processed has had an effect of its own, and every effect beyond those comes
\* from a fault (no crash, which may stop several deliveries at once).
EffectsAccounted ==
    \A k \in Keys :
      LET at(labels) == Cardinality({d \in Deliveries : Key[d] = k /\ pc[d] \in labels})
      IN  at({"ok"}) <= ran[k] /\ ran[k] <= at({"ok", "store"}) + faults

\* Every notification takes effect at last, when errors are answered as errors,
\* the server does not stop and the DELETE of a failed notification's key works.
Delivered == \A d \in Deliveries : <>(ran[Key[d]] > 0)

\* The abstract store: the holder is the delivery in flight, a key is closed
\* once its row outlives the delivery that made it.
OneOf(S) == CHOOSE d \in S : TRUE
Holder(k) == IF Holders(k) = {} THEN NoOne ELSE OneOf(Holders(k))
Abstract == INSTANCE OnceOnly WITH
    holder <- [k \in Keys |-> Holder(k)],
    closed <- {k \in Keys : record[k] # "none" /\ Holders(k) = {}},
    done <- {k \in Keys : ran[k] > 0}

\* Without those two faults, and with the cleanup not called, tryProcess
\* implements the store that gives a key's work to one delivery, once.
ImplementsOnceOnly == Abstract!Spec
=============================================================================
