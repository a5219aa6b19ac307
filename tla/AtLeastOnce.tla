---------------------------- MODULE AtLeastOnce ----------------------------
(***************************************************************************)
(* What the webhook outbox promises its two sides, whatever sends it and   *)
(* however long that takes.  To the receiver: an event is never sent more  *)
(* often than it has been tried, nor tried more than Limit times.  To the  *)
(* shop: an event is marked delivered only once it has arrived, and one    *)
(* that has not is given up only when its tries are used up.               *)
(***************************************************************************)
EXTENDS Naturals

CONSTANTS Events, Limit

VARIABLES
    fate,    \* none, pending, delivered or pruned
    tries,   \* how often each event has been given out for sending
    got      \* how often it arrived

vars == <<fate, tries, got>>

Init ==
    /\ fate = [e \in Events |-> "none"]
    /\ tries = [e \in Events |-> 0]
    /\ got = [e \in Events |-> 0]

Post(e) ==
    /\ fate[e] = "none"
    /\ fate' = [fate EXCEPT ![e] = "pending"]
    /\ UNCHANGED <<tries, got>>

Try(batch) ==
    /\ \A e \in batch : fate[e] = "pending" /\ tries[e] < Limit
    /\ tries' = [e \in Events |-> IF e \in batch THEN tries[e] + 1 ELSE tries[e]]
    /\ UNCHANGED <<fate, got>>

(* A try may arrive long after the event was settled by another.           *)
Arrive(e) ==
    /\ got[e] < tries[e]
    /\ got' = [got EXCEPT ![e] = @ + 1]
    /\ UNCHANGED <<fate, tries>>

Settle(e) ==
    /\ fate[e] = "pending" /\ got[e] > 0
    /\ fate' = [fate EXCEPT ![e] = "delivered"]
    /\ UNCHANGED <<tries, got>>

Drop(old) ==
    /\ \A e \in old : /\ fate[e] \in {"pending", "delivered"}
                    /\ fate[e] = "pending" => tries[e] >= Limit
    /\ fate' = [e \in Events |-> IF e \in old THEN "pruned" ELSE fate[e]]
    /\ UNCHANGED <<tries, got>>

Next ==
    \/ \E e \in Events : Post(e) \/ Arrive(e) \/ Settle(e)
    \/ \E some \in SUBSET Events : Try(some) \/ Drop(some)

Spec == Init /\ [][Next]_vars
=============================================================================
