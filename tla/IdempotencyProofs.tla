------------------------- MODULE IdempotencyProofs -------------------------
(***************************************************************************)
(* Proofs about Idempotency, for any number of deliveries, keys and        *)
(* faults.  Exclusive is inductive as long as nobody calls cleanupExpired. *)
(* EffectOnce needs to know where the one effect of a key can be: its row  *)
(* is there, and whoever still works under the key has only its response   *)
(* left to store.                                                          *)
(***************************************************************************)
EXTENDS Idempotency, FiniteSetTheorems, TLAPS

\* The faults that repeat an effect: a processor that throws after it, and the
\* failing UPDATE of a response.
Gentle == Faults \cap {"after", "store"} = {}

\* A key's one effect is kept by its row.
EffectKept ==
    \A k \in Keys :
      \/ ran[k] = 0
      \/ /\ ran[k] = 1
         /\ record[k] # "none"
         /\ \A d \in Deliveries : Key[d] = k /\ pc[d] \in InFlight => pc[d] = "store"

\* Every variable keeps its range.
THEOREM TypeCorrect == Spec => []TypeOK
<1>1. Init => TypeOK
  BY DEF Init, TypeOK, Label
<1>2. TypeOK /\ [Next]_vars => TypeOK'
  <2> SUFFICES ASSUME TypeOK, [Next]_vars PROVE TypeOK'
    OBVIOUS
  <2> USE DeliveriesAssumption, FaultsAssumption
  <2> USE DEF TypeOK, Label, InFlight, Go, Fault, NoFault
  <2>1. ASSUME NEW d \in Deliveries, Insert(d) PROVE TypeOK'
    BY <2>1 DEF Insert, Taken
  <2>2. ASSUME NEW d \in Deliveries, Run(d) PROVE TypeOK'
    BY <2>2 DEF Run
  <2>3. ASSUME NEW d \in Deliveries, StoreResponse(d) PROVE TypeOK'
    BY <2>3 DEF StoreResponse
  <2>4. ASSUME NEW d \in Deliveries, Undo(d) PROVE TypeOK'
    BY <2>4 DEF Undo, Freed
  <2>5. ASSUME NEW d \in Deliveries, Redeliver(d) PROVE TypeOK'
    BY <2>5 DEF Redeliver
  <2>6. ASSUME NEW k \in Keys, Expire(k) PROVE TypeOK'
    BY <2>6 DEF Expire
  <2>7. CASE CleanupExpired
    BY <2>7 DEF CleanupExpired
  <2>8. CASE Crash
    BY <2>8 DEF Crash
  <2>9. CASE UNCHANGED vars
    BY <2>9 DEF vars
  <2> QED
    BY <2>1, <2>2, <2>3, <2>4, <2>5, <2>6, <2>7, <2>8, <2>9 DEF Next, TryProcess
<1> QED
  BY <1>1, <1>2, PTL DEF Spec

\* Exclusive, said of deliveries instead of sets of holders.
LEMMA ExclusiveMeans ==
    Exclusive <=>
      /\ \A c, d \in Deliveries :
           Key[c] = Key[d] /\ {pc[c], pc[d]} \subseteq InFlight => c = d
      /\ \A d \in Deliveries : pc[d] \in InFlight => record[Key[d]] # "none"
<1> DEFINE Unique == \A c, d \in Deliveries :
                       Key[c] = Key[d] /\ {pc[c], pc[d]} \subseteq InFlight => c = d
           Recorded == \A d \in Deliveries : pc[d] \in InFlight => record[Key[d]] # "none"
<1>1. \A k \in Keys, d \in Deliveries :
        d \in Holders(k) <=> Key[d] = k /\ pc[d] \in InFlight
  BY DEF Holders
<1>2. \A d \in Deliveries : Key[d] \in Keys
  BY DeliveriesAssumption
<1>3. Exclusive => Unique /\ Recorded
  <2> SUFFICES ASSUME Exclusive PROVE Unique /\ Recorded
    OBVIOUS
  <2>1. ASSUME NEW c \in Deliveries, NEW d \in Deliveries, Key[c] = Key[d],
               {pc[c], pc[d]} \subseteq InFlight
        PROVE  c = d
    <3>1. c \in Holders(Key[d]) /\ d \in Holders(Key[d])
      BY <1>1, <1>2, <2>1
    <3> QED
      BY <1>2, <3>1 DEF Exclusive
  <2>2. ASSUME NEW d \in Deliveries, pc[d] \in InFlight
        PROVE  record[Key[d]] # "none"
    <3>1. d \in Holders(Key[d])
      BY <1>1, <1>2, <2>2
    <3> QED
      BY <1>2, <3>1 DEF Exclusive
  <2> QED
    BY <2>1, <2>2
<1>4. Unique /\ Recorded => Exclusive
  <2>1. \A k \in Keys : Holders(k) \subseteq Deliveries
    BY DEF Holders
  <2> QED
    BY <1>1, <2>1 DEF Exclusive
<1> QED
  BY <1>3, <1>4

\* Every step but the cleanup's keeps deliveries of one key apart.
LEMMA ExclusiveStep ==
  ASSUME TypeOK, Exclusive, ~Scheduled, [Next]_vars
  PROVE  Exclusive'
<1> DEFINE Apart == /\ \A c, d \in Deliveries :
                         Key[c] = Key[d] /\ {pc[c], pc[d]} \subseteq InFlight => c = d
                    /\ \A d \in Deliveries : pc[d] \in InFlight => record[Key[d]] # "none"
<1>1. Apart
  BY ExclusiveMeans
<1>2. Apart'
  <2> USE <1>1, DeliveriesAssumption
  <2> USE DEF TypeOK, InFlight, Go
  <2>1. ASSUME NEW d \in Deliveries, Insert(d) PROVE Apart'
    BY <2>1 DEF Insert, Taken
  <2>2. ASSUME NEW d \in Deliveries, Run(d) PROVE Apart'
    BY <2>2 DEF Run
  <2>3. ASSUME NEW d \in Deliveries, StoreResponse(d) PROVE Apart'
    <3>1. \A c \in Deliveries : pc'[c] \in InFlight => pc[c] \in InFlight
      BY <2>3 DEF StoreResponse
    <3> QED
      BY <2>3, <3>1 DEF StoreResponse
  <2>4. ASSUME NEW d \in Deliveries, Undo(d) PROVE Apart'
    <3>1. \A c \in Deliveries : pc'[c] \in InFlight => pc[c] \in InFlight /\ c # d
      BY <2>4 DEF Undo
    <3>2. pc[d] \in InFlight
      BY <2>4 DEF Undo
    <3>3. \A k \in Keys \ {Key[d]} : record'[k] = record[k]
      BY <2>4 DEF Undo, Freed
    <3> QED
      BY <3>1, <3>2, <3>3
  <2>5. ASSUME NEW d \in Deliveries, Redeliver(d) PROVE Apart'
    BY <2>5 DEF Redeliver
  <2>6. ASSUME NEW k \in Keys, Expire(k) PROVE Apart'
    BY <2>6 DEF Expire
  <2>7. CASE Crash
    <3>1. \A c \in Deliveries : pc'[c] \notin InFlight
      BY <2>7 DEF Crash
    <3> QED
      BY <3>1
  <2>8. CASE UNCHANGED vars
    BY <2>8 DEF vars
  <2>9. ~CleanupExpired
    BY DEF CleanupExpired
  <2> QED
    BY <2>1, <2>2, <2>3, <2>4, <2>5, <2>6, <2>7, <2>8, <2>9 DEF Next, TryProcess
<1>3. Apart' => Exclusive'
  BY DeliveriesAssumption DEF Exclusive, Holders
<1> QED
  BY <1>2, <1>3

\* As long as cleanupExpired is not called, at most one delivery of a key is past
\* its INSERT, and its row is there.
THEOREM ExclusiveHolds == ~Scheduled => (Spec => []Exclusive)
<1> SUFFICES ASSUME ~Scheduled PROVE Spec => []Exclusive
  OBVIOUS
<1>1. Init => Exclusive
  BY DEF Init, Exclusive, Holders, InFlight
<1>2. TypeOK /\ Exclusive /\ [Next]_vars => Exclusive'
  BY ExclusiveStep
<1> QED
  BY <1>1, <1>2, TypeCorrect, PTL DEF Spec

\* Without the faults that repeat an effect, its row keeps it.
LEMMA EffectKeptStep ==
  ASSUME TypeOK, Exclusive, EffectKept, ~Scheduled, Gentle, [Next]_vars
  PROVE  EffectKept'
<1> USE DeliveriesAssumption
<1> USE DEF TypeOK, InFlight, Go, EffectKept, Gentle, Fault
<1>1. ASSUME NEW d \in Deliveries, Insert(d) PROVE EffectKept'
  BY <1>1 DEF Insert, Taken
<1>2. ASSUME NEW d \in Deliveries, Run(d) PROVE EffectKept'
  <2>1. ran[Key[d]] = 0 /\ record[Key[d]] # "none"
    BY <1>2, ExclusiveMeans DEF Run
  <2>2. \A c \in Deliveries \ {d} : Key[c] = Key[d] => pc[c] \notin InFlight
    BY <1>2, ExclusiveMeans DEF Run
  <2> QED
    BY <1>2, <2>1, <2>2 DEF Run
<1>3. ASSUME NEW d \in Deliveries, StoreResponse(d) PROVE EffectKept'
  BY <1>3 DEF StoreResponse
<1>4. ASSUME NEW d \in Deliveries, Undo(d) PROVE EffectKept'
  BY <1>4 DEF Undo, Freed
<1>5. ASSUME NEW d \in Deliveries, Redeliver(d) PROVE EffectKept'
  BY <1>5 DEF Redeliver
<1>6. ASSUME NEW k \in Keys, Expire(k) PROVE EffectKept'
  BY <1>6 DEF Expire
<1>7. CASE Crash
  BY <1>7 DEF Crash
<1>8. CASE UNCHANGED vars
  BY <1>8 DEF vars
<1>9. ~CleanupExpired
  BY DEF CleanupExpired
<1> QED
  BY <1>1, <1>2, <1>3, <1>4, <1>5, <1>6, <1>7, <1>8, <1>9 DEF Next, TryProcess

\* The invariant the two theorems below rest on.
LEMMA EffectKeptHolds == ~Scheduled /\ Gentle => (Spec => []EffectKept)
<1> SUFFICES ASSUME ~Scheduled, Gentle PROVE Spec => []EffectKept
  OBVIOUS
<1>1. Init => EffectKept
  BY DEF Init, EffectKept
<1>2. TypeOK /\ Exclusive /\ EffectKept /\ [Next]_vars => EffectKept'
  BY EffectKeptStep
<1> QED
  BY <1>1, <1>2, TypeCorrect, ExclusiveHolds, PTL DEF Spec

\* Without the two faults and without the cleanup, whatever crashes, redeliveries
\* and failing deletes there are, a notification takes effect at most once.
THEOREM AtMostOnce == ~Scheduled /\ Gentle => (Spec => []EffectOnce)
<1> SUFFICES ASSUME ~Scheduled, Gentle PROVE Spec => []EffectOnce
  OBVIOUS
<1>1. EffectKept => EffectOnce
  BY DEF EffectKept, EffectOnce
<1> QED
  BY <1>1, EffectKeptHolds, PTL

-----------------------------------------------------------------------------
(* The refinement.                                                         *)

\* The abstract holder of a key is the one delivery in flight.
HolderFacts ==
    /\ \A d \in Deliveries : pc[d] \in InFlight => Holder(Key[d]) = d /\ Holders(Key[d]) # {}
    /\ \A k \in Keys : (\A d \in Deliveries : Key[d] = k => pc[d] \notin InFlight)
                         <=> Holders(k) = {}
    /\ \A k \in Keys : Holder(k) = NoOne <=> Holders(k) = {}

\* So it is when deliveries of one key exclude each other.
LEMMA HolderIs == Exclusive => HolderFacts
<1> SUFFICES ASSUME Exclusive PROVE HolderFacts
  OBVIOUS
<1>1. \A d \in Deliveries : pc[d] \in InFlight => d \in Holders(Key[d])
  BY DEF Holders
<1>2. \A d \in Deliveries : Key[d] \in Keys
  BY DeliveriesAssumption
<1>3. \A k \in Keys : \A c, d \in Holders(k) : c = d
  BY DEF Exclusive
<1>4. \A k \in Keys : Holders(k) # {} => Holder(k) \in Holders(k)
  BY DEF Holder, OneOf
<1>5. \A k \in Keys : Holders(k) \subseteq Deliveries
  BY DEF Holders
<1>6. \A d \in Deliveries : pc[d] \in InFlight => Holder(Key[d]) = d
  BY <1>1, <1>2, <1>3, <1>4
<1>7. \A k \in Keys : Holder(k) = NoOne <=> Holders(k) = {}
  BY <1>4, <1>5, DeliveriesAssumption DEF Holder
<1>8. \A k \in Keys : (\A d \in Deliveries : Key[d] = k => pc[d] \notin InFlight)
                        <=> Holders(k) = {}
  BY DEF Holders
<1> QED
  BY <1>1, <1>2, <1>6, <1>7, <1>8 DEF HolderFacts

\* The values the refinement gives to the abstract variables.
AbsHolder == [k \in Keys |-> Holder(k)]
AbsClosed == {k \in Keys : record[k] # "none" /\ Holders(k) = {}}
AbsDone == {k \in Keys : ran[k] > 0}

\* A delivery that leaves the keys of all others alone leaves their abstract
\* state alone.
LEMMA OthersKeep ==
  ASSUME NEW d \in Deliveries,
         \A c \in Deliveries \ {d} : pc'[c] = pc[c],
         \A k \in Keys \ {Key[d]} : record'[k] = record[k]
  PROVE  \A k \in Keys \ {Key[d]} :
           /\ Holders(k)' = Holders(k)
           /\ Holder(k)' = Holder(k)
           /\ k \in AbsClosed' <=> k \in AbsClosed
<1>1. \A k \in Keys \ {Key[d]} : Holders(k)' = Holders(k)
  BY DEF Holders
<1>2. \A k \in Keys \ {Key[d]} : Holder(k)' = Holder(k)
  BY <1>1 DEF Holder
<1> QED
  BY <1>1, <1>2 DEF AbsClosed

\* A delivery that ends frees its key in the abstract store; the key is closed if
\* the row stays.
LEMMA Leaves ==
  ASSUME TypeOK, HolderFacts, HolderFacts', Exclusive,
         NEW d \in Deliveries,
         pc[d] \in InFlight, pc'[d] \notin InFlight,
         \A c \in Deliveries \ {d} : pc'[c] = pc[c],
         \A k \in Keys \ {Key[d]} : record'[k] = record[k],
         record' \in [Keys -> {"none", "live", "expired"}]
  PROVE  /\ AbsHolder[Key[d]] = d
         /\ AbsHolder' = [AbsHolder EXCEPT ![Key[d]] = NoOne]
         /\ AbsClosed' = IF record'[Key[d]] = "none" THEN AbsClosed
                         ELSE AbsClosed \cup {Key[d]}
<1>1. Key[d] \in Keys
  BY DeliveriesAssumption
<1>2. Holder(Key[d]) = d /\ Holders(Key[d]) # {}
  BY DEF HolderFacts
<1>3. \A c \in Deliveries : Key[c] = Key[d] => pc'[c] \notin InFlight
  BY ExclusiveMeans
<1>4. Holders(Key[d])' = {} /\ Holder(Key[d])' = NoOne
  BY <1>1, <1>3 DEF HolderFacts
<1>5. AbsHolder' = [AbsHolder EXCEPT ![Key[d]] = NoOne]
  BY <1>1, <1>4, OthersKeep DEF AbsHolder
<1>6. Key[d] \notin AbsClosed /\ (Key[d] \in AbsClosed' <=> record'[Key[d]] # "none")
  BY <1>1, <1>2, <1>4 DEF AbsClosed
<1>7. AbsClosed \subseteq Keys /\ AbsClosed' \subseteq Keys
  BY DEF AbsClosed
<1>8. \A k \in Keys \ {Key[d]} : k \in AbsClosed' <=> k \in AbsClosed
  BY OthersKeep
<1>9. AbsHolder[Key[d]] = d
  BY <1>1, <1>2 DEF AbsHolder
<1>10. CASE record'[Key[d]] = "none"
  <2>1. AbsClosed' = AbsClosed
    BY <1>6, <1>7, <1>8, <1>10
  <2> QED
    BY <1>5, <1>9, <1>10, <2>1
<1>11. CASE record'[Key[d]] # "none"
  <2>1. AbsClosed' = AbsClosed \cup {Key[d]}
    BY <1>1, <1>6, <1>7, <1>8, <1>11
  <2> QED
    BY <1>5, <1>9, <1>11, <2>1
<1> QED
  BY <1>10, <1>11

\* Every step is a step of the abstract store, or none.
LEMMA StoreStep ==
  ASSUME TypeOK, Exclusive, Exclusive', EffectKept, ~Scheduled, Gentle, [Next]_vars
  PROVE  Abstract!Next \/ UNCHANGED <<AbsHolder, AbsClosed, AbsDone>>
<1> USE DeliveriesAssumption
<1> DEFINE Stutter == UNCHANGED <<AbsHolder, AbsClosed, AbsDone>>
<1>0. \A d \in Deliveries : Key[d] \in Keys
  OBVIOUS
<1>a. HolderFacts
  BY HolderIs
<1>b. HolderFacts'
  BY HolderIs, PTL
<1>1. ASSUME NEW d \in Deliveries, Insert(d) PROVE Abstract!Claim(d) \/ Stutter
  <2>1. CASE pc'[d] = "run"
    <3>1. /\ record[Key[d]] = "none"
          /\ \A c \in Deliveries \ {d} : pc'[c] = pc[c]
          /\ \A k \in Keys \ {Key[d]} : record'[k] = record[k]
          /\ ran' = ran
      BY <1>0, <1>1, <2>1 DEF Insert, Taken, Go, TypeOK
    <3>2. Holders(Key[d]) = {} /\ Holder(Key[d]) = NoOne
      BY <1>0, <1>a, <3>1 DEF Exclusive, HolderFacts
    <3>3. Holder(Key[d])' = d /\ Holders(Key[d])' # {}
      BY <1>0, <1>b, <2>1 DEF InFlight, HolderFacts
    <3>4. AbsHolder' = [AbsHolder EXCEPT ![Key[d]] = d]
      BY <1>0, <3>1, <3>3, OthersKeep DEF AbsHolder
    <3>5. AbsClosed' = AbsClosed
      BY <1>0, <3>1, <3>2, <3>3, OthersKeep DEF AbsClosed
    <3> QED
      BY <1>0, <3>1, <3>2, <3>4, <3>5 DEF Abstract!Claim, AbsHolder, AbsClosed, AbsDone
  <2>2. CASE pc'[d] # "run"
    <3>1. /\ \A c \in Deliveries : pc'[c] \in InFlight <=> pc[c] \in InFlight
          /\ record' = record /\ ran' = ran
      BY <1>1, <2>2 DEF Insert, Go, TypeOK, InFlight
    <3>2. \A k \in Keys : Holders(k)' = Holders(k)
      BY <3>1 DEF Holders
    <3> QED
      BY <3>1, <3>2 DEF Holder, AbsHolder, AbsClosed, AbsDone
  <2> QED
    BY <2>1, <2>2
<1>2. ASSUME NEW d \in Deliveries, Run(d) PROVE Abstract!CarryOut(d) \/ Stutter
  <2>1. /\ pc[d] \in InFlight /\ record' = record
        /\ \A c \in Deliveries : pc'[c] \in InFlight <=> pc[c] \in InFlight
    BY <1>2 DEF Run, Go, TypeOK, InFlight
  <2>2. \A k \in Keys : Holders(k)' = Holders(k)
    BY <2>1 DEF Holders
  <2>3. AbsHolder' = AbsHolder /\ AbsClosed' = AbsClosed
    BY <2>1, <2>2 DEF Holder, AbsHolder, AbsClosed
  <2>4. ran[Key[d]] = 0
    BY <1>0, <1>2 DEF EffectKept, Run, InFlight
  <2>5. CASE ran' = ran
    BY <2>3, <2>5 DEF AbsDone
  <2>6. CASE ran' = [ran EXCEPT ![Key[d]] = @ + 1]
    <3>1. AbsDone' = AbsDone \cup {Key[d]} /\ Key[d] \notin AbsDone
      BY <1>0, <2>4, <2>6 DEF AbsDone, TypeOK
    <3>2. AbsHolder[Key[d]] = d
      BY <1>0, <1>a, <2>1 DEF AbsHolder, HolderFacts
    <3> QED
      BY <2>3, <3>1, <3>2 DEF Abstract!CarryOut, AbsHolder, AbsClosed, AbsDone
  <2> QED
    BY <1>2, <2>5, <2>6 DEF Run
<1>3. ASSUME NEW d \in Deliveries, StoreResponse(d) PROVE Abstract!Close(d)
  <2>1. /\ pc[d] \in InFlight /\ pc'[d] \notin InFlight
        /\ record' = record /\ ran' = ran
        /\ \A c \in Deliveries \ {d} : pc'[c] = pc[c]
    BY <1>3 DEF StoreResponse, Go, TypeOK, InFlight, Fault, Gentle
  <2>2. record'[Key[d]] # "none" /\ record' \in [Keys -> {"none", "live", "expired"}]
    BY <1>0, <2>1, ExclusiveMeans DEF TypeOK
  <2>3. /\ AbsHolder[Key[d]] = d
        /\ AbsHolder' = [AbsHolder EXCEPT ![Key[d]] = NoOne]
        /\ AbsClosed' = AbsClosed \cup {Key[d]}
    BY <1>a, <1>b, <2>1, <2>2, Leaves
  <2> QED
    BY <2>1, <2>3 DEF Abstract!Close, AbsHolder, AbsClosed, AbsDone
<1>4. ASSUME NEW d \in Deliveries, Undo(d) PROVE Abstract!Release(d) \/ Abstract!Close(d)
  <2>1. /\ pc[d] = "undo" /\ pc[d] \in InFlight /\ pc'[d] \notin InFlight
        /\ ran' = ran
        /\ \A c \in Deliveries \ {d} : pc'[c] = pc[c]
        /\ \A k \in Keys \ {Key[d]} : record'[k] = record[k]
        /\ record' \in [Keys -> {"none", "live", "expired"}]
    BY <1>4 DEF Undo, Freed, Go, TypeOK, InFlight
  <2>2. /\ AbsHolder[Key[d]] = d
        /\ AbsHolder' = [AbsHolder EXCEPT ![Key[d]] = NoOne]
        /\ AbsClosed' = IF record'[Key[d]] = "none" THEN AbsClosed
                        ELSE AbsClosed \cup {Key[d]}
    BY <1>a, <1>b, <2>1, Leaves
  <2>3. Key[d] \notin AbsDone
    <3>1. ran[Key[d]] = 0
      BY <1>0, <2>1 DEF EffectKept, InFlight
    <3> QED
      BY <3>1 DEF AbsDone
  <2>4. AbsDone' = AbsDone
    BY <2>1 DEF AbsDone
  <2>5. CASE record'[Key[d]] = "none"
    BY <2>2, <2>3, <2>4, <2>5 DEF Abstract!Release, AbsHolder, AbsClosed, AbsDone
  <2>6. CASE record'[Key[d]] # "none"
    BY <2>2, <2>4, <2>6 DEF Abstract!Close, AbsHolder, AbsClosed, AbsDone
  <2> QED
    BY <2>5, <2>6
<1>5. ASSUME NEW d \in Deliveries, Redeliver(d) PROVE Stutter
  <2>1. /\ record' = record /\ ran' = ran
        /\ \A c \in Deliveries : pc'[c] \in InFlight <=> pc[c] \in InFlight
    BY <1>5 DEF Redeliver, Go, TypeOK, InFlight
  <2>2. \A k \in Keys : Holders(k)' = Holders(k)
    BY <2>1 DEF Holders
  <2> QED
    BY <2>1, <2>2 DEF Holder, AbsHolder, AbsClosed, AbsDone
<1>6. ASSUME NEW l \in Keys, Expire(l) PROVE Stutter
  <2>1. \A k \in Keys : Holders(k)' = Holders(k)
    BY <1>6 DEF Expire, Holders
  <2>2. \A k \in Keys : record'[k] # "none" <=> record[k] # "none"
    BY <1>6 DEF Expire, TypeOK
  <2> QED
    BY <1>6, <2>1, <2>2 DEF Expire, Holder, AbsHolder, AbsClosed, AbsDone
<1>7. CASE Crash
  <2>1. Abstract!Abandon
    <3>1. /\ \A c \in Deliveries : pc'[c] \notin InFlight
          /\ record' = record /\ ran' = ran
      BY <1>7 DEF Crash, TypeOK, InFlight
    <3>2. \A k \in Keys : Holders(k)' = {} /\ Holder(k)' = NoOne
      BY <1>b, <3>1 DEF HolderFacts
    <3>3. AbsHolder' = [k \in Keys |-> NoOne]
      BY <3>2 DEF AbsHolder
    <3>4. \A k \in Keys : Holder(k) # NoOne => record[k] # "none"
      BY <1>a DEF HolderFacts, Exclusive
    <3>5. AbsClosed' = AbsClosed \cup {k \in Keys : AbsHolder[k] # NoOne}
      BY <1>a, <3>1, <3>2, <3>4 DEF AbsClosed, AbsHolder, HolderFacts
    <3> QED
      BY <3>1, <3>3, <3>5 DEF Abstract!Abandon, AbsHolder, AbsClosed, AbsDone
  <2> QED
    BY <2>1 DEF Abstract!Next
<1>8. CASE UNCHANGED vars
  BY <1>8 DEF vars, Holder, Holders, AbsHolder, AbsClosed, AbsDone
<1>9. ~CleanupExpired
  BY DEF CleanupExpired
<1> QED
  BY <1>1, <1>2, <1>3, <1>4, <1>5, <1>6, <1>7, <1>8, <1>9 DEF Next, TryProcess, Abstract!Next

\* tryProcess implements the abstract store: under the same assumptions as
\* AtMostOnce, each of its behaviours is one of OnceOnly.
THEOREM Implements == ~Scheduled /\ Gentle => (Spec => ImplementsOnceOnly)
<1> SUFFICES ASSUME ~Scheduled, Gentle PROVE Spec => ImplementsOnceOnly
  OBVIOUS
<1>1. Init => Abstract!Init
  BY DEF Init, Abstract!Init, Holder, Holders, InFlight
<1>2. /\ TypeOK /\ Exclusive /\ Exclusive' /\ EffectKept /\ [Next]_vars
      => [Abstract!Next]_<<[k \in Keys |-> Holder(k)],
                           {k \in Keys : record[k] # "none" /\ Holders(k) = {}},
                           {k \in Keys : ran[k] > 0}>>
  BY StoreStep DEF AbsHolder, AbsClosed, AbsDone
<1> QED
  BY <1>1, <1>2, TypeCorrect, ExclusiveHolds, EffectKeptHolds, PTL
     DEF Spec, ImplementsOnceOnly, Abstract!Spec

-----------------------------------------------------------------------------
(* Counting effects.                                                       *)

\* The deliveries of a key at one of these places, and those of them whose effect
\* no fault has followed.
At(k, labels) == {d \in Deliveries : Key[d] = k /\ pc[d] \in labels}
Carried(k) == At(k, {"ok", "store"})

\* EffectsAccounted with its lower bound made inductive: a delivery about to store
\* its response has had an effect already.
Accounted == \A k \in Keys : /\ Cardinality(Carried(k)) <= ran[k]
                             /\ ran[k] <= Cardinality(Carried(k)) + faults

\* One delivery moves, and its key's effects and the faults are counted with it.
LEMMA CountedStep ==
  ASSUME IsFiniteSet(Deliveries), TypeOK, Accounted, NEW d \in Deliveries,
         \A c \in Deliveries \ {d} : pc'[c] = pc[c],
         \A k \in Keys \ {Key[d]} : ran'[k] = ran[k],
         faults' \in Nat, faults <= faults',
         \/ /\ pc[d] \in {"ok", "store"} <=> pc'[d] \in {"ok", "store"}
            /\ \/ ran'[Key[d]] = ran[Key[d]]
               \/ ran'[Key[d]] = ran[Key[d]] + 1 /\ faults' = faults + 1
         \/ /\ pc[d] \notin {"ok", "store"} /\ pc'[d] \in {"ok", "store"}
            /\ ran'[Key[d]] = ran[Key[d]] + 1
         \/ /\ pc[d] \in {"ok", "store"} /\ pc'[d] \notin {"ok", "store"}
            /\ ran'[Key[d]] = ran[Key[d]] /\ faults' = faults + 1
  PROVE  Accounted'
<1> SUFFICES ASSUME NEW k \in Keys
             PROVE  /\ Cardinality(Carried(k)') <= ran'[k]
                    /\ ran'[k] <= Cardinality(Carried(k)') + faults'
  BY DEF Accounted
<1>1. IsFiniteSet(Carried(k)) /\ Cardinality(Carried(k)) \in Nat
  BY FS_Subset, FS_CardinalityType DEF Carried, At
<1>2. ran[k] \in Nat /\ faults \in Nat
  BY DEF TypeOK
<1>3. Cardinality(Carried(k)) <= ran[k] /\ ran[k] <= Cardinality(Carried(k)) + faults
  BY DEF Accounted
<1>4. CASE Key[d] # k
  <2>1. Carried(k)' = Carried(k) /\ ran'[k] = ran[k]
    BY <1>4 DEF Carried, At
  <2> QED
    BY <1>1, <1>2, <1>3, <2>1
<1>5. CASE Key[d] = k
  <2>1. d \in Carried(k) <=> pc[d] \in {"ok", "store"}
    BY <1>5 DEF Carried, At
  <2>2. CASE pc[d] \in {"ok", "store"} <=> pc'[d] \in {"ok", "store"}
    <3>1. Carried(k)' = Carried(k)
      BY <2>2 DEF Carried, At
    <3> QED
      BY <1>1, <1>2, <1>3, <1>5, <2>2, <3>1
  <2>3. CASE pc[d] \notin {"ok", "store"} /\ pc'[d] \in {"ok", "store"}
    <3>1. Carried(k)' = Carried(k) \cup {d} /\ ran'[k] = ran[k] + 1
      BY <1>5, <2>3 DEF Carried, At
    <3>2. Cardinality(Carried(k) \cup {d}) = Cardinality(Carried(k)) + 1
      BY <1>1, <2>1, <2>3, FS_AddElement
    <3> QED
      BY <1>1, <1>2, <1>3, <3>1, <3>2
  <2>4. CASE pc[d] \in {"ok", "store"} /\ pc'[d] \notin {"ok", "store"}
    <3>1. Carried(k)' = Carried(k) \ {d} /\ ran'[k] = ran[k] /\ faults' = faults + 1
      BY <1>5, <2>4 DEF Carried, At
    <3>2. Cardinality(Carried(k) \ {d}) = Cardinality(Carried(k)) - 1
      BY <1>1, <2>1, <2>4, FS_RemoveElement
    <3> QED
      BY <1>1, <1>2, <1>3, <3>1, <3>2
  <2> QED
    BY <2>2, <2>3, <2>4
<1> QED
  BY <1>4, <1>5

\* EffectsAccounted always holds for finitely many deliveries, with the cleanup as
\* without and with every fault but a crash: an effect beyond those of the
\* deliveries answered as processed has a fault of its own.
THEOREM EveryEffectAccounted ==
  ASSUME IsFiniteSet(Deliveries), "crash" \notin Faults
  PROVE  Spec => []EffectsAccounted
<1> USE DeliveriesAssumption
<1>1. Init => Accounted
  <2> SUFFICES ASSUME Init, NEW k \in Keys
               PROVE  Carried(k) = {} /\ ran[k] = 0 /\ faults = 0
    BY FS_EmptySet DEF Accounted
  <2> QED
    BY DEF Init, Carried, At
<1>2. TypeOK /\ Accounted /\ [Next]_vars => Accounted'
  <2> SUFFICES ASSUME TypeOK, Accounted, [Next]_vars PROVE Accounted'
    OBVIOUS
  <2> USE DEF Go, Fault, NoFault
  <2>t. /\ pc \in [Deliveries -> Label] /\ ran \in [Keys -> Nat] /\ faults \in Nat
        /\ faults <= faults /\ faults <= faults + 1 /\ faults + 1 \in Nat
    BY DEF TypeOK
  <2>k. ASSUME UNCHANGED <<pc, ran, faults>> PROVE Accounted'
    BY <2>k DEF Accounted, Carried, At
  <2>1. ASSUME NEW d \in Deliveries, Insert(d) PROVE Accounted'
    BY <2>1, <2>t, CountedStep DEF Insert
  <2>2. ASSUME NEW d \in Deliveries, Run(d) PROVE Accounted'
    BY <2>2, <2>t, CountedStep DEF Run
  <2>3. ASSUME NEW d \in Deliveries, StoreResponse(d) PROVE Accounted'
    BY <2>3, <2>t, CountedStep DEF StoreResponse
  <2>4. ASSUME NEW d \in Deliveries, Undo(d) PROVE Accounted'
    BY <2>4, <2>t, CountedStep DEF Undo
  <2>5. ASSUME NEW d \in Deliveries, Redeliver(d) PROVE Accounted'
    BY <2>5, <2>t, CountedStep DEF Redeliver
  <2>6. CASE (\E k \in Keys : Expire(k)) \/ CleanupExpired \/ UNCHANGED vars
    BY <2>6, <2>k DEF Expire, CleanupExpired, vars
  <2>7. ~Crash
    BY DEF Crash
  <2> QED
    BY <2>1, <2>2, <2>3, <2>4, <2>5, <2>6, <2>7 DEF Next, TryProcess
<1>3. TypeOK /\ Accounted => EffectsAccounted
  <2> SUFFICES ASSUME TypeOK, Accounted, NEW k \in Keys
               PROVE  /\ Cardinality(At(k, {"ok"})) <= ran[k]
                      /\ ran[k] <= Cardinality(At(k, {"ok", "store"})) + faults
    BY DEF EffectsAccounted, At
  <2>1. At(k, {"ok"}) \subseteq Carried(k) /\ Carried(k) \subseteq Deliveries
    BY DEF At, Carried
  <2>2. IsFiniteSet(Carried(k))
    BY <2>1, FS_Subset
  <2>3. /\ Cardinality(At(k, {"ok"})) <= Cardinality(Carried(k))
        /\ Cardinality(At(k, {"ok"})) \in Nat /\ Cardinality(Carried(k)) \in Nat
    BY <2>1, <2>2, FS_Subset, FS_CardinalityType
  <2>4. Cardinality(Carried(k)) <= ran[k] /\ ran[k] <= Cardinality(Carried(k)) + faults
    BY DEF Accounted
  <2>5. ran[k] \in Nat
    BY DEF TypeOK
  <2> QED
    BY <2>3, <2>4, <2>5 DEF Carried
<1> QED
  BY <1>1, <1>2, <1>3, TypeCorrect, PTL DEF Spec
=============================================================================
