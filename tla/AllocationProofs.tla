-------------------------- MODULE AllocationProofs --------------------------
(* Reservations for any number of requests, amounts, attempts and delays.  *)
(* One lemma per conjunct of IInv, one step per action that disturbs it.   *)
EXTENDS Allocation, FiniteSetTheorems, TLAPS

(* Nothing is requested, stored or held at first.                          *)
LEMMA InitIInv == Init => IInv
<1> SUFFICES ASSUME Init PROVE IInv
  OBVIOUS
<1>1. TypeOK
  BY AllocationAssumption DEF AllocationAssumption, Init, TypeOK, Ended
<1>2. RacesLost
  BY FS_EmptySet, AllocationAssumption DEF AllocationAssumption, Init, RacesLost
<1> QED BY <1>1, <1>2, AllocationAssumption
        DEF AllocationAssumption, Init, IInv, RowsDone, HoldCovers, HoldOutlivesEnd,
            KeysUnique, AnswersAgree, HonestRefusal, Stored, Ended

(* The actions of the invoices and of the jobs leave the requests alone.   *)
RowAction ==
    \/ \E i \in Requests : Cancel(i) \/ Credit(i) \/ Revoke(i)
    \/ Sweep \/ SweepFails \/ Tick

LEMMA RowActionFrame ==
  ASSUME RowAction
  PROVE  UNCHANGED <<reqVars, pay>>
  BY DEF RowAction, Cancel, Credit, Revoke, Sweep, SweepSelect, SweepUpdate, SweepRelease,
         SweepFails, Tick

LEMMA RowActionHeld ==
  ASSUME IInv, RowAction
  PROVE  \A i \in Requests : (held'[i] => held[i]) /\ (Stored(i)' <=> Stored(i))
  BY DEF RowAction, Cancel, Credit, Revoke, Sweep, SweepSelect, SweepUpdate, SweepRelease,
         SweepFails, Tick, rowVars, IInv, TypeOK, HoldCovers, Stored, Ended

-----------------------------------------------------------------------------
LEMMA TypeStep == ASSUME IInv, [Next]_vars PROVE TypeOK'
<1> USE AllocationAssumption DEF AllocationAssumption, IInv, TypeOK, rowVars, jobVars, reqVars
<1>1. ASSUME NEW r \in Requests, Begin(r) PROVE TypeOK'
  BY <1>1 DEF Begin
<1>2. ASSUME NEW r \in Requests, Exhaust(r) PROVE TypeOK'
  BY <1>2 DEF Exhaust, Refusals
<1>3. ASSUME NEW r \in Requests, Read(r) PROVE TypeOK'
  <2>1. Amounts(r) \subseteq Nat
    BY DEF Amounts
  <2> QED BY <1>3, <2>1 DEF Read
<1>4. ASSUME NEW r \in Requests, Collide(r) PROVE TypeOK'
  BY <1>4 DEF Collide, Refusals, LastTry, RacesLost
<1>5. ASSUME NEW r \in Requests, Repeat(r) \/ Replay(r) PROVE TypeOK'
  BY <1>5 DEF Repeat, Replay, Refusals
<1>6. ASSUME NEW r \in Requests, Create(r) PROVE TypeOK'
  BY <1>6 DEF Create, Ended
<1>7. ASSUME NEW i \in Requests, Cancel(i) PROVE TypeOK'
  BY <1>7 DEF Cancel, Ended
<1>8. ASSUME NEW i \in Requests, Credit(i) PROVE TypeOK'
  BY <1>8 DEF Credit, Ended, Greatest
<1>9. ASSUME NEW i \in Requests, Revoke(i) PROVE TypeOK'
  BY <1>9 DEF Revoke
<1>10. CASE SweepSelect
  BY <1>10 DEF SweepSelect
<1>11. CASE SweepUpdate
  BY <1>11 DEF SweepUpdate, Ended, HoldOnExpiry, Greatest
<1>12. CASE SweepRelease \/ SweepFails
  BY <1>12 DEF SweepRelease, SweepFails
<1>13. CASE Tick
  BY <1>13 DEF Tick
<1>14. CASE UNCHANGED vars
  BY <1>14 DEF vars
<1> QED BY <1>1, <1>2, <1>3, <1>4, <1>5, <1>6, <1>7, <1>8, <1>9, <1>10, <1>11, <1>12,
           <1>13, <1>14 DEF Next, Serve, Sweep

LEMMA RowsDoneStep == ASSUME IInv, [Next]_vars PROVE RowsDone'
<1> USE DEF IInv, TypeOK, RowsDone, Stored, rowVars, jobVars, reqVars
<1>1. ASSUME NEW r \in Requests, Begin(r) \/ Serve(r) PROVE RowsDone'
  BY <1>1 DEF Begin, Serve, Exhaust, Read, Collide, Repeat, Replay, Create
<1>2. CASE RowAction
  BY <1>2, RowActionFrame, RowActionHeld
<1>3. CASE UNCHANGED vars
  BY <1>3 DEF vars
<1> QED BY <1>1, <1>2, <1>3 DEF Next, RowAction

(* A hold is extended whenever an invoice ends, and released only at 0.    *)
LEMMA HoldStep == ASSUME IInv, [Next]_vars PROVE HoldCovers' /\ HoldOutlivesEnd'
<1> USE AllocationAssumption
    DEF AllocationAssumption, IInv, TypeOK, HoldCovers, HoldOutlivesEnd, RowsDone, Stored,
        Ended, rowVars, jobVars
<1> DEFINE Goal == HoldCovers' /\ HoldOutlivesEnd'
<1>1. ASSUME NEW r \in Requests,
             Begin(r) \/ Exhaust(r) \/ Read(r) \/ Collide(r) \/ Repeat(r) \/ Replay(r)
      PROVE  Goal
  BY <1>1 DEF Begin, Exhaust, Read, Collide, Repeat, Replay
<1>2. ASSUME NEW r \in Requests, Create(r) PROVE Goal
  BY <1>2 DEF Create
<1>3. ASSUME NEW i \in Requests, Cancel(i) PROVE Goal
  BY <1>3 DEF Cancel
<1>4. ASSUME NEW i \in Requests, Credit(i) \/ Revoke(i) PROVE Goal
  BY <1>4 DEF Credit, Revoke, Greatest
<1>5. CASE SweepSelect \/ SweepFails
  BY <1>5 DEF SweepSelect, SweepFails
<1>6. CASE SweepUpdate
  BY <1>6 DEF SweepUpdate, HoldOnExpiry, Greatest
<1>7. CASE SweepRelease
  BY <1>7 DEF SweepRelease, Releasable
<1>8. CASE Tick
  BY <1>8 DEF Tick
<1>9. CASE UNCHANGED vars
  BY <1>9 DEF vars
<1> QED BY <1>1, <1>2, <1>3, <1>4, <1>5, <1>6, <1>7, <1>8, <1>9 DEF Next, Serve, Sweep

(* An answer names a stored invoice of the same key and amount, and a key  *)
(* is stored once.                                                         *)
LEMMA AnswerStep == ASSUME IInv, [Next]_vars PROVE KeysUnique' /\ AnswersAgree'
<1> USE AllocationAssumption
    DEF AllocationAssumption, IInv, TypeOK, RowsDone, KeysUnique, AnswersAgree, Stored, rowVars,
        jobVars, reqVars
<1> DEFINE Goal == KeysUnique' /\ AnswersAgree'
<1>1. ASSUME NEW r \in Requests, Begin(r) PROVE Goal
  BY <1>1 DEF Begin
<1>2. ASSUME NEW r \in Requests, Exhaust(r) \/ Collide(r) PROVE Goal
  BY <1>2 DEF Exhaust, Collide, Refusals
<1>3. ASSUME NEW r \in Requests, Read(r) \/ Repeat(r) PROVE Goal
  BY <1>3 DEF Read, Repeat
<1>4. ASSUME NEW r \in Requests, Create(r) PROVE Goal
  BY <1>4 DEF Create, KeyFree
<1>5. ASSUME NEW r \in Requests, Replay(r) PROVE Goal
  BY <1>5 DEF Replay, SameOrder, Refusals
<1>6. CASE RowAction
  BY <1>6, RowActionFrame, RowActionHeld
<1>7. CASE UNCHANGED vars
  BY <1>7 DEF vars
<1> QED BY <1>1, <1>2, <1>3, <1>4, <1>5, <1>6, <1>7 DEF Next, Serve, RowAction

(* Every lost race is the gain of a request that had not gained before.    *)
LEMMA RaceStep == ASSUME IInv, [Next]_vars PROVE RacesLost' /\ HonestRefusal'
<1> USE DEF IInv, TypeOK, RowsDone, RacesLost, HonestRefusal, rowVars, jobVars, reqVars
<1> DEFINE Goal == RacesLost' /\ HonestRefusal'
<1>0. \A r \in Requests : Cardinality(rivals[r]) \in Nat
  BY FS_CardinalityType
<1>1. ASSUME NEW r \in Requests, Begin(r) \/ Exhaust(r) \/ Repeat(r) PROVE Goal
  <2>1. /\ UNCHANGED <<rowVars, pay, tries, rivals>>
        /\ HeldAmounts' = HeldAmounts
        /\ \A q \in Requests : pc'[q] = "insert" => pc[q] = "insert"
        /\ \A q \in Requests : pc[q] = "done" => pc'[q] = "done"
        /\ \A q \in Requests : answer'[q] = "exhausted" => answer[q] = "exhausted" \/ full'[q]
        /\ \A q \in Requests : full[q] => full'[q]
    BY <1>1, AllocationAssumption
    DEF AllocationAssumption, Refusals, Begin, Exhaust, Repeat, HeldAmounts
  <2> QED BY <2>1 DEF Stored
<1>2. ASSUME NEW r \in Requests, Read(r) PROVE Goal
  <2>1. PICK a \in Amounts(r) : FirstFree(r, a) /\ pay' = [pay EXCEPT ![r] = a]
    BY <1>2 DEF Read
  <2>2. ~held[r]
    BY <1>2 DEF Read
  <2>3. HeldAmounts' = HeldAmounts
    BY <1>2, <2>1, <2>2 DEF Read, HeldAmounts
  <2>4. pay'[r] \notin HeldAmounts'
    BY <2>1, <2>3 DEF FirstFree
  <2> QED BY <1>2, <2>1, <2>3, <2>4 DEF Read, Stored
<1>3. ASSUME NEW r \in Requests, Collide(r) PROVE Goal
  <2>1. HeldAmounts' = HeldAmounts
    BY <1>3 DEF Collide, HeldAmounts
  <2>2. tries'[r] = tries[r] + 1 /\ tries[r] < Cardinality(rivals[r])
    BY <1>3 DEF Collide
  <2> QED BY <1>3, <1>0, <2>1, <2>2, AllocationAssumption
          DEF AllocationAssumption, Collide, LastTry, Stored
<1>4. ASSUME NEW r \in Requests, Create(r) PROVE Goal
  <2>1. /\ pc[r] = "insert"
        /\ ~Stored(r)
        /\ pc' = [pc EXCEPT ![r] = "done"]
        /\ answer' = [answer EXCEPT ![r] = r]
        /\ tries' = [tries EXCEPT ![r] = 0]
        /\ UNCHANGED <<full, pay>>
        /\ status' = [status EXCEPT ![r] = "pending"]
        /\ held' = [held EXCEPT ![r] = TRUE]
        /\ rivals' = [q \in Requests |->
             IF q = r THEN {}
             ELSE IF pc[q] \in {"read", "insert", "replay"} THEN rivals[q] \cup {r}
             ELSE rivals[q]]
    BY <1>4 DEF Create
  <2>2. \A q \in Requests :
          /\ r \notin rivals[q]
          /\ IsFiniteSet(rivals[q] \cup {r})
          /\ Cardinality(rivals[q] \cup {r}) = Cardinality(rivals[q]) + 1
    BY <2>1, FS_AddElement
  <2>3. \A q \in Requests : q # r =>
          /\ IsFiniteSet(rivals'[q])
          /\ \A i \in rivals'[q] : Stored(i)'
          /\ Cardinality(rivals'[q]) \in Nat
          /\ Cardinality(rivals'[q]) >= Cardinality(rivals[q])
          /\ pc'[q] = "insert" => Cardinality(rivals'[q]) > Cardinality(rivals[q])
    <3> SUFFICES ASSUME NEW q \in Requests, q # r
                 PROVE  /\ IsFiniteSet(rivals'[q])
                        /\ \A i \in rivals'[q] : Stored(i)'
                        /\ Cardinality(rivals'[q]) \in Nat
                        /\ Cardinality(rivals'[q]) >= Cardinality(rivals[q])
                        /\ pc'[q] = "insert" => Cardinality(rivals'[q]) > Cardinality(rivals[q])
      OBVIOUS
    <3>1. \A i \in rivals[q] \cup {r} : Stored(i)'
      BY <2>1 DEF Stored
    <3>2. CASE pc[q] \in {"read", "insert", "replay"}
      <4>1. rivals'[q] = rivals[q] \cup {r}
        BY <2>1, <3>2
      <4>2. Cardinality(rivals[q]) \in Nat
        BY <1>0
      <4> HIDE DEF IInv, TypeOK, RowsDone, RacesLost, HonestRefusal
      <4> QED BY <3>1, <4>1, <2>2, <4>2
    <3>3. CASE pc[q] \notin {"read", "insert", "replay"}
      <4>1. rivals'[q] = rivals[q] /\ pc'[q] # "insert"
        BY <2>1, <3>3
      <4> QED BY <3>1, <4>1, <1>0
    <3> QED BY <3>2, <3>3
  <2>4. /\ rivals'[r] = {} /\ tries'[r] = 0 /\ pc'[r] = "done"
        /\ answer'[r] # "exhausted"
    BY <2>1, AllocationAssumption DEF AllocationAssumption, Refusals
  <2>5. \A q \in Requests : q # r =>
          /\ tries'[q] = tries[q] /\ pc'[q] = pc[q]
          /\ answer'[q] = answer[q] /\ full'[q] = full[q]
    BY <2>1
  <2>6. RacesLost'
    <3> SUFFICES ASSUME NEW q \in Requests
                 PROVE  /\ IsFiniteSet(rivals'[q])
                        /\ \A i \in rivals'[q] : Stored(i)'
                        /\ pc'[q] = "done" \/ tries'[q] < Attempts
                        /\ tries'[q] <= Cardinality(rivals'[q])
                        /\ pc'[q] = "insert" => tries'[q] < Cardinality(rivals'[q])
      BY DEF RacesLost
    <3>1. CASE q = r
      <4>1. rivals'[q] = {} /\ tries'[q] = 0 /\ pc'[q] = "done"
        BY <2>4, <3>1
      <4>2. IsFiniteSet({}) /\ Cardinality({}) = 0
        BY FS_EmptySet
      <4> HIDE DEF IInv, TypeOK, RowsDone, RacesLost, HonestRefusal
      <4> QED BY <4>1, <4>2
    <3>2. CASE q # r
      <4>1. tries[q] \in Nat /\ tries[q] <= Cardinality(rivals[q])
        OBVIOUS
      <4> QED BY <3>2, <4>1, <2>3, <2>5, <1>0
    <3> QED BY <3>1, <3>2
  <2>7. HonestRefusal'
    <3> SUFFICES ASSUME NEW q \in Requests, answer'[q] = "exhausted"
                 PROVE  full'[q] \/ Cardinality(rivals'[q]) >= Attempts
      BY DEF HonestRefusal
    <3>1. q # r /\ answer[q] = "exhausted"
      BY <2>4, <2>5
    <3>2. full[q] \/ Cardinality(rivals[q]) >= Attempts
      BY <3>1
    <3> QED BY <3>1, <3>2, <2>3, <2>5, <1>0, AllocationAssumption DEF AllocationAssumption
  <2> QED BY <2>6, <2>7
<1>5. ASSUME NEW r \in Requests, Replay(r) PROVE Goal
  <2>1. /\ UNCHANGED <<rowVars, pay>>
        /\ HeldAmounts' = HeldAmounts
        /\ tries' = [tries EXCEPT ![r] = 0]
        /\ rivals' = [rivals EXCEPT ![r] = {}]
        /\ pc' = [pc EXCEPT ![r] = "done"]
        /\ full' = full
        /\ answer'[r] # "exhausted"
        /\ \A q \in Requests : q # r => answer'[q] = answer[q]
    BY <1>5, AllocationAssumption
    DEF AllocationAssumption, Refusals, Replay, HeldAmounts
  <2>2. IsFiniteSet(rivals'[r]) /\ Cardinality(rivals'[r]) = 0 /\ rivals'[r] = {}
    BY <2>1, FS_EmptySet
  <2>3. RacesLost'
    BY <2>1, <2>2 DEF Stored
  <2>4. HonestRefusal'
    BY <2>1
  <2> QED BY <2>3, <2>4
<1>6. CASE RowAction
  <2>1. HeldAmounts' \subseteq HeldAmounts
    BY <1>6, RowActionFrame, RowActionHeld DEF HeldAmounts
  <2> QED BY <1>6, <2>1, RowActionFrame, RowActionHeld
<1>7. CASE UNCHANGED vars
  BY <1>7 DEF vars, HeldAmounts, Stored
<1> QED BY <1>1, <1>2, <1>3, <1>4, <1>5, <1>6, <1>7 DEF Next, Serve, RowAction

LEMMA NextIInv == IInv /\ [Next]_vars => IInv'
  BY TypeStep, RowsDoneStep, HoldStep, AnswerStep, RaceStep DEF IInv

-----------------------------------------------------------------------------
(* The invariant behind everything below, in every reachable state.        *)
THEOREM Invariance == Spec => []IInv
  BY InitIInv, NextIInv, PTL DEF Spec

(* Every variable keeps its type; no request makes more than               *)
(* allocationAttempts attempts (postgres.CreateInvoice).                   *)
THEOREM TypeCorrect == Spec => []TypeOK
  BY Invariance, PTL DEF IInv

(* No amount is given back before its invoice has been over for            *)
(* amount_hold, less a stall (ReleaseExpiredAmountHolds).                  *)
THEOREM HoldsOutlive == Spec => []HoldOutlivesEnd
  BY Invariance, PTL DEF IInv

(* A refused request saw a full space, or lost to as many new invoices as  *)
(* it has attempts (postgres.CreateInvoice).                               *)
THEOREM RefusalsHonest == Spec => []HonestRefusal
  BY Invariance, PTL DEF IInv

(* One invoice per external ID, and nobody gets another order's invoice    *)
(* (invoice_create's replay).                                              *)
THEOREM AnswersAlwaysAgree == Spec => []AnswersAgree
  BY Invariance, PTL DEF IInv
=============================================================================
