------------------------------ MODULE OnceOnly ------------------------------
(***************************************************************************)
(* What a store of idempotency keys promises: at any time at most one      *)
(* delivery holds a key, only the holder carries the work out, and a key   *)
(* whose work has been carried out is never given away again.              *)
(***************************************************************************)
CONSTANTS Deliveries, Keys, Key, NoOne

VARIABLES
    holder,    \* holder[k]: the delivery that is working under key k
    closed,    \* keys that nobody can claim any more
    done       \* keys whose work has been carried out

Init == /\ holder = [k \in Keys |-> NoOne]
        /\ closed = {}
        /\ done = {}

Claim(d) ==
    /\ holder[Key[d]] = NoOne
    /\ Key[d] \notin closed
    /\ holder' = [holder EXCEPT ![Key[d]] = d]
    /\ UNCHANGED <<closed, done>>

CarryOut(d) ==
    /\ holder[Key[d]] = d
    /\ Key[d] \notin done
    /\ done' = done \cup {Key[d]}
    /\ UNCHANGED <<holder, closed>>

Close(d) ==
    /\ holder[Key[d]] = d
    /\ holder' = [holder EXCEPT ![Key[d]] = NoOne]
    /\ closed' = closed \cup {Key[d]}
    /\ UNCHANGED done

\* The key may be claimed again: nothing has been carried out under it.
Release(d) ==
    /\ holder[Key[d]] = d
    /\ Key[d] \notin done
    /\ holder' = [holder EXCEPT ![Key[d]] = NoOne]
    /\ UNCHANGED <<closed, done>>

\* Every holder is lost; the keys they held stay taken.
Abandon ==
    /\ closed' = closed \cup {k \in Keys : holder[k] # NoOne}
    /\ holder' = [k \in Keys |-> NoOne]
    /\ UNCHANGED done

Next == \/ \E d \in Deliveries : Claim(d) \/ CarryOut(d) \/ Close(d) \/ Release(d)
        \/ Abandon

Spec == Init /\ [][Next]_<<holder, closed, done>>
=============================================================================
