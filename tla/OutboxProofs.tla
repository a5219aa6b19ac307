---------------------------- MODULE OutboxProofs ----------------------------
(* The safety of the outbox for any events, dispatchers and delays.        *)
EXTENDS Outbox, FiniteSetTheorems, TLAPS

LEMMA BackoffBounded == ASSUME NEW a PROVE Backoff(a) \in 0..BackoffMax
  BY OutboxAssumption DEF OutboxAssumption, Backoff

LEMMA LeaseNat == Lease \in Nat
  BY OutboxAssumption DEF OutboxAssumption, Lease

(* The outbox starts empty.                                                *)
LEMMA InitIInv == Init => IInv
  BY OutboxAssumption, LeaseNat
  DEF OutboxAssumption, Init, IInv, TypeOK, TakenIsAccepted, DeliveredIsTrue,
      LostOnlyIfExhausted

LEMMA PruneStep ==
  ASSUME IInv, NEW d \in Dispatchers, Prune(d)
  PROVE  IInv'
  BY DEF IInv, TypeOK, TakenIsAccepted, DeliveredIsTrue, LostOnlyIfExhausted,
         Prune, Prunable, InTable, Exhausted

LEMMA ClaimStep ==
  ASSUME IInv, NEW d \in Dispatchers, Claim(d)
  PROVE  IInv'
<1>1. PICK batch \in SUBSET {e \in Events : Due(e)} :
          /\ ClaimRows(d, batch)
          /\ phase' = [phase EXCEPT ![d] = IF batch = {} THEN "idle" ELSE "delivering"]
  BY DEF Claim
<1>2. /\ UNCHANGED <<stored, age, accepted, faults>>
      /\ attempts' = [e \in Events |-> IF e \in batch THEN attempts[e] + 1 ELSE attempts[e]]
      /\ wait' = [e \in Events |-> IF e \in batch THEN Lease ELSE wait[e]]
      /\ flights' = flights \cup
           {[by |-> d, event |-> e, attempt |-> attempts[e] + 1,
             stage |-> "queued", spent |-> 0] : e \in batch}
  BY <1>1 DEF Claim, ClaimRows
<1>3. \A e \in batch : e \in Events /\ attempts[e] + 1 \in 1..MaxAttempts
  BY OutboxAssumption DEF OutboxAssumption, Due, Exhausted, IInv, TypeOK
<1>4. flights' \subseteq Flights
  BY <1>2, <1>3, OutboxAssumption
  DEF OutboxAssumption, IInv, TypeOK, Flights
<1>5. attempts' \in [Events -> 0..MaxAttempts] /\ wait' \in [Events -> 0..Lease + BackoffMax]
  BY <1>2, <1>3, LeaseNat, OutboxAssumption DEF OutboxAssumption, IInv, TypeOK
<1>6. TypeOK'
  BY <1>1, <1>2, <1>4, <1>5 DEF IInv, TypeOK
<1>7. TakenIsAccepted'
  BY <1>2 DEF IInv, TakenIsAccepted
<1>8. DeliveredIsTrue' /\ LostOnlyIfExhausted'
  BY <1>2, <1>3, OutboxAssumption
  DEF OutboxAssumption, IInv, TypeOK, DeliveredIsTrue, LostOnlyIfExhausted, Exhausted
<1> QED BY <1>6, <1>7, <1>8 DEF IInv

LEMMA ReturnStep ==
  ASSUME IInv, NEW d \in Dispatchers, Return(d) \/ Crash(d)
  PROVE  IInv'
<1>1. /\ UNCHANGED <<stored, attempts, wait, age, accepted>>
      /\ phase' = [phase EXCEPT ![d] = "idle"]
      /\ flights' \subseteq flights
  BY DEF Return, Crash, rowVars
<1>2. faults' \in 0..MaxFaults
  BY OutboxAssumption DEF OutboxAssumption, IInv, TypeOK, Return, Crash, Fault
<1> QED BY <1>1, <1>2
        DEF IInv, TypeOK, TakenIsAccepted, DeliveredIsTrue, LostOnlyIfExhausted, Exhausted

LEMMA StartStep ==
  ASSUME IInv, NEW f \in flights, Start(f) \/ Refuse(f)
  PROVE  IInv'
<1>1. UNCHANGED <<stored, attempts, wait, age, accepted, phase, faults>>
  BY DEF Start, Refuse, rowVars
<1>2. PICK stage \in {"sending", "refused"} :
          flights' = (flights \ {f}) \cup {[f EXCEPT !.stage = stage]}
  BY DEF Start, Refuse, Become
<1>3. flights' \subseteq Flights
  BY <1>2 DEF IInv, TypeOK, Flights, InSlot
<1>4. TakenIsAccepted'
  BY <1>1, <1>2 DEF IInv, TypeOK, Flights, TakenIsAccepted
<1> QED BY <1>1, <1>3, <1>4
        DEF IInv, TypeOK, DeliveredIsTrue, LostOnlyIfExhausted, Exhausted

(* The receiver takes the event in, whatever becomes of its answer.        *)
LEMMA AcceptStep ==
  ASSUME IInv, NEW f \in flights, Accept(f) \/ LoseAnswer(f)
  PROVE  IInv'
<1>1. /\ UNCHANGED <<stored, attempts, wait, age, phase>>
      /\ accepted' = [accepted EXCEPT ![f.event] = @ + 1]
      /\ faults' \in 0..MaxFaults
  BY OutboxAssumption DEF OutboxAssumption, Accept, LoseAnswer, rowVars, Fault, IInv, TypeOK
<1>2. PICK stage \in {"taken", "refused"} :
          flights' = (flights \ {f}) \cup {[f EXCEPT !.stage = stage]}
  BY DEF Accept, LoseAnswer, Become
<1>3. flights' \subseteq Flights
  BY <1>2 DEF IInv, TypeOK, Flights, InSlot
<1>4. /\ f.event \in Events
      /\ \A e \in Events : accepted[e] \in Nat /\ accepted'[e] >= accepted[e]
      /\ accepted'[f.event] > 0
      /\ accepted' \in [Events -> Nat]
  BY <1>1 DEF IInv, TypeOK, Flights
<1>5. TypeOK'
  BY <1>1, <1>3, <1>4 DEF IInv, TypeOK
<1>6. TakenIsAccepted'
  <2> SUFFICES ASSUME NEW g \in flights', g.stage = "taken"
               PROVE  accepted'[g.event] > 0
    BY DEF TakenIsAccepted
  <2>1. CASE g \in flights
    BY <2>1, <1>4 DEF IInv, TypeOK, Flights, TakenIsAccepted
  <2>2. CASE g = [f EXCEPT !.stage = stage]
    BY <2>2, <1>4 DEF IInv, TypeOK, Flights
  <2> QED BY <2>1, <2>2, <1>2
<1>7. DeliveredIsTrue' /\ LostOnlyIfExhausted'
  BY <1>1, <1>4 DEF IInv, TypeOK, DeliveredIsTrue, LostOnlyIfExhausted, Exhausted
<1> QED BY <1>5, <1>6, <1>7 DEF IInv

LEMMA MarkStep ==
  ASSUME IInv, NEW f \in flights, Record(f)
  PROVE  IInv'
<1>1. f.event \in Events /\ flights' \subseteq flights
  BY DEF IInv, TypeOK, Flights, Record, MarkDelivered, MarkFailed, MarkFails, Leave
<1>2. CASE MarkDelivered(f)
  <2>1. /\ UNCHANGED <<attempts, wait, accepted, phase, faults>>
        /\ stored' \in [Events -> {"none", "pending", "delivered", "pruned"}]
        /\ age' \in [Events -> 0..Retention + 1]
        /\ \A e \in Events : e # f.event => stored'[e] = stored[e]
        /\ stored'[f.event] \in {"delivered", stored[f.event]}
    BY <1>1, <1>2, OutboxAssumption DEF OutboxAssumption, IInv, TypeOK, MarkDelivered
  <2>2. accepted[f.event] > 0
    BY <1>2 DEF MarkDelivered, IInv, TakenIsAccepted
  <2> QED BY <1>1, <2>1, <2>2
          DEF IInv, TypeOK, TakenIsAccepted, DeliveredIsTrue, LostOnlyIfExhausted, Exhausted
<1>3. CASE MarkFailed(f)
  <2>1. wait' \in [Events -> 0..Lease + BackoffMax]
    BY <1>1, <1>3, BackoffBounded, LeaseNat, OutboxAssumption
    DEF OutboxAssumption, IInv, TypeOK, MarkFailed
  <2> QED BY <1>1, <1>3, <2>1 DEF IInv, TypeOK, TakenIsAccepted, DeliveredIsTrue,
             LostOnlyIfExhausted, MarkFailed, Exhausted
<1>4. CASE MarkFails(f)
  BY <1>1, <1>4, OutboxAssumption
  DEF OutboxAssumption, IInv, TypeOK, TakenIsAccepted, DeliveredIsTrue, LostOnlyIfExhausted,
      MarkFails, Fault, rowVars, Exhausted
<1> QED BY <1>2, <1>3, <1>4 DEF Record

LEMMA TickStep == ASSUME IInv, Tick PROVE IInv'
<1>1. UNCHANGED <<stored, attempts, accepted, phase, faults>>
  BY DEF Tick
<1>2. wait' \in [Events -> 0..Lease + BackoffMax] /\ age' \in [Events -> 0..Retention + 1]
  BY OutboxAssumption, LeaseNat DEF OutboxAssumption, Tick, IInv, TypeOK
<1>3. \A g \in flights' : \E f \in flights :
          /\ g \in Flights
          /\ g.stage = f.stage
          /\ g.event = f.event
  <2> SUFFICES ASSUME NEW g \in flights'
               PROVE  \E f \in flights : g \in Flights /\ g.stage = f.stage /\ g.event = f.event
    OBVIOUS
  <2>1. PICK f \in flights :
          g = IF f.stage = "queued" THEN f ELSE [f EXCEPT !.spent = @ + 1]
    BY DEF Tick
  <2>2. f \in Flights /\ MayWait(f)
    BY DEF Tick, IInv, TypeOK
  <2>3. g \in Flights
    BY <2>1, <2>2, OutboxAssumption DEF OutboxAssumption, Flights, MayWait, InSlot
  <2> QED BY <2>1, <2>2, <2>3 DEF Flights
<1>4. TypeOK'
  BY <1>1, <1>2, <1>3 DEF IInv, TypeOK
<1> QED BY <1>1, <1>3, <1>4
        DEF IInv, TakenIsAccepted, DeliveredIsTrue, LostOnlyIfExhausted, Exhausted

LEMMA NextIInv == IInv /\ [Next]_vars => IInv'
<1> SUFFICES ASSUME IInv, [Next]_vars PROVE IInv'
  OBVIOUS
<1>1. CASE UNCHANGED vars
  BY <1>1 DEF vars, IInv, TypeOK, TakenIsAccepted, DeliveredIsTrue, LostOnlyIfExhausted,
     Exhausted
<1>2. ASSUME NEW e \in Events, Enqueue(e) PROVE IInv'
  BY <1>2, OutboxAssumption DEF OutboxAssumption, Enqueue, IInv, TypeOK, TakenIsAccepted,
     DeliveredIsTrue, LostOnlyIfExhausted, Exhausted
<1>3. ASSUME NEW d \in Dispatchers, Work(d) \/ Crash(d) PROVE IInv'
  BY <1>3, PruneStep, ClaimStep, ReturnStep, StartStep, AcceptStep, MarkStep
  DEF Work, Answer
<1> QED BY <1>1, <1>2, <1>3, TickStep DEF Next

-----------------------------------------------------------------------------
(* What is in flight has been paid for with an attempt: only a claim adds  *)
(* to it, and it adds one event per attempt it counts.                     *)
Counted(e) ==
    /\ IsFiniteSet(Unanswered(e))
    /\ accepted[e] + Cardinality(Unanswered(e)) <= attempts[e]

CountInv == \A e \in Events : Counted(e)

(* Nothing is added for e, nothing is accepted, nothing uncounted.         *)
LEMMA FewerUnanswered ==
  ASSUME IInv, IInv', NEW e \in Events, Counted(e), Unanswered(e)' \subseteq Unanswered(e),
         accepted'[e] = accepted[e], attempts'[e] = attempts[e]
  PROVE  Counted(e)'
<1>1. /\ IsFiniteSet(Unanswered(e)')
      /\ Cardinality(Unanswered(e)') <= Cardinality(Unanswered(e))
  BY FS_Subset DEF Counted
<1>2. Cardinality(Unanswered(e)') \in Nat /\ Cardinality(Unanswered(e)) \in Nat
  BY <1>1, FS_CardinalityType DEF Counted
<1>3. accepted[e] \in Nat /\ attempts[e] \in Nat
  BY OutboxAssumption DEF OutboxAssumption, IInv, TypeOK
<1> QED BY <1>1, <1>2, <1>3 DEF Counted

LEMMA ClaimCounts ==
  ASSUME IInv, CountInv, NEW d \in Dispatchers, Claim(d), NEW e \in Events
  PROVE  Counted(e)'
<1>1. PICK batch \in SUBSET {x \in Events : Due(x)} : ClaimRows(d, batch)
  BY DEF Claim
<1> DEFINE new == [by |-> d, event |-> e, attempt |-> attempts[e] + 1,
                   stage |-> "queued", spent |-> 0]
<1>2. Unanswered(e)' = Unanswered(e) \cup (IF e \in batch THEN {new} ELSE {})
  BY <1>1 DEF ClaimRows, Unanswered
<1>3. /\ accepted'[e] = accepted[e] /\ accepted[e] \in Nat /\ attempts[e] \in Nat
      /\ attempts'[e] = IF e \in batch THEN attempts[e] + 1 ELSE attempts[e]
  BY <1>1, OutboxAssumption DEF OutboxAssumption, IInv, TypeOK, Claim, ClaimRows
<1>4. IsFiniteSet(Unanswered(e)) /\ Cardinality(Unanswered(e)) \in Nat
  BY FS_CardinalityType DEF CountInv, Counted
<1>5. /\ IsFiniteSet(Unanswered(e) \cup {new})
      /\ Cardinality(Unanswered(e) \cup {new}) <= Cardinality(Unanswered(e)) + 1
  <2> HIDE DEF new
  <2>1. /\ IsFiniteSet(Unanswered(e) \cup {new})
        /\ Cardinality(Unanswered(e) \cup {new}) =
             IF new \in Unanswered(e) THEN Cardinality(Unanswered(e))
                                      ELSE Cardinality(Unanswered(e)) + 1
    BY <1>4, FS_AddElement
  <2> QED BY <2>1, <1>4
<1>6. Cardinality(Unanswered(e) \cup {new}) \in Nat
  BY <1>5, FS_CardinalityType
<1>7. CASE e \in batch
  BY <1>2, <1>3, <1>4, <1>5, <1>6, <1>7 DEF CountInv, Counted
<1>8. CASE e \notin batch
  <2>1. Unanswered(e)' = Unanswered(e)
    BY <1>2, <1>8
  <2> QED BY <2>1, <1>3, <1>8 DEF CountInv, Counted
<1> QED BY <1>7, <1>8

(* An event that goes out stays one event.                                 *)
LEMMA StartCounts ==
  ASSUME IInv, IInv', CountInv, NEW f \in flights, Start(f), NEW e \in Events
  PROVE  Counted(e)'
<1> DEFINE g == [f EXCEPT !.stage = "sending"]
<1>1. /\ f.stage = "queued" /\ f \in Flights
      /\ flights' = (flights \ {f}) \cup {g}
      /\ UNCHANGED <<accepted, attempts>>
  BY DEF Start, Become, rowVars, IInv, TypeOK
<1>2. g.event = f.event /\ g.stage = "sending"
  BY <1>1 DEF Flights
<1>3. CASE f.event = e
  <2>1. f \in Unanswered(e) /\ Unanswered(e)' \subseteq (Unanswered(e) \ {f}) \cup {g}
    BY <1>1, <1>2, <1>3 DEF Unanswered
  <2>2. /\ IsFiniteSet(Unanswered(e) \ {f})
        /\ Cardinality(Unanswered(e) \ {f}) = Cardinality(Unanswered(e)) - 1
    BY <2>1, FS_RemoveElement DEF CountInv, Counted
  <2>3. /\ IsFiniteSet((Unanswered(e) \ {f}) \cup {g})
        /\ Cardinality((Unanswered(e) \ {f}) \cup {g})
              <= Cardinality(Unanswered(e) \ {f}) + 1
    <3> HIDE DEF g
    <3> DEFINE rest == Unanswered(e) \ {f}
    <3>1. IsFiniteSet(rest) /\ Cardinality(rest) \in Nat
      BY <2>2, FS_CardinalityType
    <3> HIDE DEF rest
    <3>2. /\ IsFiniteSet(rest \cup {g})
          /\ Cardinality(rest \cup {g}) =
               IF g \in rest THEN Cardinality(rest) ELSE Cardinality(rest) + 1
      BY <3>1, FS_AddElement
    <3>3. IsFiniteSet(rest \cup {g}) /\ Cardinality(rest \cup {g}) <= Cardinality(rest) + 1
      BY <3>1, <3>2
    <3> QED BY <3>3 DEF rest
  <2>4. /\ IsFiniteSet(Unanswered(e)')
        /\ Cardinality(Unanswered(e)') <= Cardinality((Unanswered(e) \ {f}) \cup {g})
    BY <2>1, <2>3, FS_Subset
  <2>5. /\ Cardinality(Unanswered(e)') \in Nat /\ Cardinality(Unanswered(e)) \in Nat
        /\ Cardinality((Unanswered(e) \ {f}) \cup {g}) \in Nat
    BY <2>3, <2>4, FS_CardinalityType DEF CountInv, Counted
  <2>6. accepted[e] \in Nat /\ attempts[e] \in Nat
    BY OutboxAssumption DEF OutboxAssumption, IInv, TypeOK
  <2> QED BY <1>1, <2>2, <2>3, <2>4, <2>5, <2>6 DEF CountInv, Counted
<1>4. CASE f.event # e
  <2>1. Unanswered(e)' \subseteq Unanswered(e)
    BY <1>1, <1>2, <1>4 DEF Unanswered
  <2> QED BY <2>1, <1>1, FewerUnanswered DEF CountInv
<1> QED BY <1>3, <1>4

(* An event the receiver takes in is no longer unanswered.                 *)
LEMMA AcceptCounts ==
  ASSUME IInv, IInv', CountInv, NEW f \in flights, Accept(f) \/ LoseAnswer(f), NEW e \in Events
  PROVE  Counted(e)'
<1>1. PICK stage \in {"taken", "refused"} :
          flights' = (flights \ {f}) \cup {[f EXCEPT !.stage = stage]}
  BY DEF Accept, LoseAnswer, Become
<1>2. /\ f.stage = "sending" /\ f \in Flights
      /\ accepted' = [accepted EXCEPT ![f.event] = @ + 1]
      /\ UNCHANGED attempts
  BY DEF Accept, LoseAnswer, rowVars, IInv, TypeOK
<1>3. [f EXCEPT !.stage = stage].stage = stage
  BY <1>2 DEF Flights
<1>4. Unanswered(e)' \subseteq Unanswered(e) \ {f}
  BY <1>1, <1>3 DEF Unanswered
<1>5. CASE f.event = e
  <2>1. f \in Unanswered(e)
    BY <1>2, <1>5 DEF Unanswered
  <2>2. /\ IsFiniteSet(Unanswered(e) \ {f})
        /\ Cardinality(Unanswered(e) \ {f}) = Cardinality(Unanswered(e)) - 1
    BY <2>1, FS_RemoveElement DEF CountInv, Counted
  <2>3. /\ IsFiniteSet(Unanswered(e)')
        /\ Cardinality(Unanswered(e)') <= Cardinality(Unanswered(e) \ {f})
    BY <1>4, <2>2, FS_Subset
  <2>4. Cardinality(Unanswered(e)') \in Nat /\ Cardinality(Unanswered(e)) \in Nat
    BY <2>3, FS_CardinalityType DEF CountInv, Counted
  <2>5. accepted'[e] = accepted[e] + 1 /\ accepted[e] \in Nat /\ attempts[e] \in Nat
    BY <1>2, <1>5, OutboxAssumption DEF OutboxAssumption, IInv, TypeOK
  <2> QED BY <1>2, <2>2, <2>3, <2>4, <2>5 DEF CountInv, Counted
<1>6. CASE f.event # e
  <2>1. accepted'[e] = accepted[e]
    BY <1>2, <1>6 DEF IInv, TypeOK
  <2> QED BY <1>2, <1>4, <1>6, <2>1, FewerUnanswered DEF CountInv
<1> QED BY <1>5, <1>6

(* Time passes for every flight alike.                                     *)
LEMMA TickCounts ==
  ASSUME IInv, IInv', CountInv, Tick, NEW e \in Events
  PROVE  Counted(e)'
<1> DEFINE Later(f) == IF f.stage = "queued" THEN f ELSE [f EXCEPT !.spent = @ + 1]
<1> DEFINE later == [f \in Unanswered(e) |-> Later(f)]
<1>1. flights' = {Later(f) : f \in flights} /\ UNCHANGED <<accepted, attempts>>
  BY DEF Tick
<1>2. \A f \in flights : Later(f).event = f.event /\ Later(f).stage = f.stage
  BY DEF IInv, TypeOK, Flights
<1> HIDE DEF Later
<1>3. \A f \in Unanswered(e) : Later(f) \in Unanswered(e)'
  BY <1>1, <1>2 DEF Unanswered
<1>4. \A g \in Unanswered(e)' : \E f \in Unanswered(e) : g = Later(f)
  BY <1>1, <1>2 DEF Unanswered
<1>5. later \in Surjection(Unanswered(e), Unanswered(e)')
  BY <1>3, <1>4 DEF Surjection
<1>6. /\ IsFiniteSet(Unanswered(e)')
      /\ Cardinality(Unanswered(e)') <= Cardinality(Unanswered(e))
  BY <1>5, FS_Surjection DEF CountInv, Counted
<1>7. Cardinality(Unanswered(e)') \in Nat /\ Cardinality(Unanswered(e)) \in Nat
  BY <1>6, FS_CardinalityType DEF CountInv, Counted
<1>8. accepted[e] \in Nat /\ attempts[e] \in Nat
  BY OutboxAssumption DEF OutboxAssumption, IInv, TypeOK
<1> QED BY <1>1, <1>6, <1>7, <1>8 DEF CountInv, Counted

LEMMA NextCounts == IInv /\ IInv' /\ CountInv /\ [Next]_vars => CountInv'
<1> SUFFICES ASSUME IInv, IInv', CountInv, [Next]_vars, NEW e \in Events
             PROVE  Counted(e)'
  BY DEF CountInv
<1>1. ASSUME UNCHANGED <<accepted, attempts>>,
             \A g \in flights' : g.stage \in {"queued", "sending"} => g \in flights
      PROVE  Counted(e)'
  <2>1. Unanswered(e)' \subseteq Unanswered(e)
    BY <1>1 DEF Unanswered
  <2> QED BY <1>1, <2>1, FewerUnanswered DEF CountInv
<1>2. ASSUME NEW f \in flights, Refuse(f) PROVE Counted(e)'
  <2>1. f \in Flights /\ flights' = (flights \ {f}) \cup {[f EXCEPT !.stage = "refused"]}
    BY <1>2 DEF Refuse, Become, IInv, TypeOK
  <2>2. [f EXCEPT !.stage = "refused"].stage = "refused"
    BY <2>1 DEF Flights
  <2> QED BY <1>1, <1>2, <2>1, <2>2 DEF Refuse, rowVars
<1>3. ASSUME NEW f \in flights, Record(f) PROVE Counted(e)'
  BY <1>1, <1>3 DEF Record, MarkDelivered, MarkFailed, MarkFails, Leave, rowVars
<1>4. ASSUME NEW d \in Dispatchers, Prune(d) \/ Return(d) \/ Crash(d) PROVE Counted(e)'
  BY <1>1, <1>4 DEF Prune, Return, Crash, rowVars
<1>5. ASSUME NEW x \in Events, Enqueue(x) PROVE Counted(e)'
  BY <1>1, <1>5 DEF Enqueue
<1>6. CASE UNCHANGED vars
  BY <1>1, <1>6 DEF vars
<1> QED BY <1>2, <1>3, <1>4, <1>5, <1>6, ClaimCounts, StartCounts, AcceptCounts, TickCounts
        DEF Next, Work, Answer

LEMMA InitCounts == Init => CountInv
<1> SUFFICES ASSUME Init, NEW e \in Events PROVE Counted(e)
  BY DEF CountInv
<1>1. Unanswered(e) = {}
  BY DEF Init, Unanswered
<1> QED BY <1>1, FS_EmptySet DEF Init, Counted

-----------------------------------------------------------------------------
(* The invariant behind the outbox's promises, in every reachable state.   *)
THEOREM Invariance == Spec => []IInv
  BY InitIInv, NextIInv, PTL DEF Spec

(* A row says delivered only if the receiver took the event in             *)
(* (MarkWebhookDelivered follows a 2xx answer).                            *)
THEOREM DeliveredStaysTrue == Spec => []DeliveredIsTrue
  BY Invariance, PTL DEF IInv

(* An event the receiver never got is pruned only when its attempts are    *)
(* used up (PruneWebhookEvents).                                           *)
THEOREM OnlyExhaustedAreLost == Spec => []LostOnlyIfExhausted
  BY Invariance, PTL DEF IInv

(* Every variable keeps its type; in particular attempts never pass        *)
(* max_attempts (ClaimDueWebhookEvents).                                   *)
THEOREM TypeCorrect == Spec => []TypeOK
  BY Invariance, PTL DEF IInv

(* Every attempt is counted before it is made, so the receiver never sees  *)
(* more than that (ClaimDueWebhookEvents).                                 *)
THEOREM AttemptsAlwaysCounted == Spec => []AttemptsCounted
<1>1. CountInv => AttemptsCounted
  BY DEF CountInv, Counted, AttemptsCounted
<1> QED BY <1>1, Invariance, InitCounts, NextCounts, PTL DEF Spec

-----------------------------------------------------------------------------
(* The dispatchers implement AtLeastOnce, one lemma for each of its steps. *)
Abstract == <<stored, attempts, accepted>>

LEMMA EnqueuePosts ==
  ASSUME NEW e \in Events, Enqueue(e) PROVE Promise!Post(e)
  BY DEF Enqueue, Promise!Post

LEMMA PruneDrops ==
  ASSUME NEW d \in Dispatchers, Prune(d) PROVE \E old \in SUBSET Events : Promise!Drop(old)
<1> DEFINE old == {e \in Events : Prunable(e)}
<1>1. \A e \in old : /\ stored[e] \in {"pending", "delivered"}
                     /\ stored[e] = "pending" => attempts[e] >= MaxAttempts
  BY DEF Prunable, InTable, Exhausted
<1>2. stored' = [e \in Events |-> IF e \in old THEN "pruned" ELSE stored[e]]
  BY DEF Prune
<1>3. UNCHANGED <<attempts, accepted>>
  BY DEF Prune
<1>4. Promise!Drop(old)
  BY <1>1, <1>2, <1>3 DEF Promise!Drop
<1> QED BY <1>4

LEMMA ClaimTries ==
  ASSUME IInv, NEW d \in Dispatchers, Claim(d) PROVE \E b \in SUBSET Events : Promise!Try(b)
<1>1. PICK b \in SUBSET {e \in Events : Due(e)} : ClaimRows(d, b)
  BY DEF Claim
<1>2. \A e \in b : stored[e] = "pending" /\ attempts[e] < MaxAttempts
  BY OutboxAssumption DEF OutboxAssumption, IInv, TypeOK, Due, Exhausted
<1>3. /\ UNCHANGED <<stored, accepted>>
      /\ attempts' = [e \in Events |-> IF e \in b THEN attempts[e] + 1 ELSE attempts[e]]
  BY <1>1 DEF Claim, ClaimRows
<1>4. Promise!Try(b)
  BY <1>2, <1>3 DEF Promise!Try
<1> QED BY <1>4

(* The flight that arrives is one of the event's tries.                    *)
LEMMA AcceptArrives ==
  ASSUME IInv, CountInv, NEW f \in flights, Accept(f) \/ LoseAnswer(f)
  PROVE  Promise!Arrive(f.event)
<1>1. f.event \in Events /\ f \in Unanswered(f.event)
  BY DEF IInv, TypeOK, Flights, Accept, LoseAnswer, Unanswered
<1>2. Counted(f.event)
  BY <1>1 DEF CountInv
<1> DEFINE mine == Unanswered(f.event)
<1>3. IsFiniteSet(mine) /\ Cardinality(mine) \in Nat /\ f \in mine
  BY <1>1, <1>2, FS_CardinalityType DEF Counted
<1>4. Cardinality(mine) # 0
  <2> HIDE DEF mine
  <2> QED BY <1>3, FS_EmptySet
<1>5. accepted[f.event] < attempts[f.event]
  <2>1. accepted[f.event] \in Nat /\ attempts[f.event] \in Nat
    BY <1>1, OutboxAssumption DEF OutboxAssumption, IInv, TypeOK
  <2>2. accepted[f.event] + Cardinality(mine) <= attempts[f.event]
    BY <1>2 DEF Counted
  <2> QED BY <1>3, <1>4, <2>1, <2>2
<1>6. accepted' = [accepted EXCEPT ![f.event] = @ + 1] /\ UNCHANGED <<stored, attempts>>
  BY DEF Accept, LoseAnswer, rowVars
<1> QED BY <1>5, <1>6 DEF Promise!Arrive

LEMMA MarkSettles ==
  ASSUME IInv, NEW f \in flights, MarkDelivered(f)
  PROVE  Promise!Settle(f.event) \/ UNCHANGED Abstract
<1>1. f.event \in Events /\ accepted[f.event] > 0 /\ UNCHANGED <<attempts, accepted>>
  BY DEF IInv, TypeOK, Flights, TakenIsAccepted, MarkDelivered
<1>2. CASE stored[f.event] = "pending"
  BY <1>1, <1>2 DEF MarkDelivered, InTable, Promise!Settle
<1>3. CASE stored[f.event] # "pending"
  <2>1. stored' = stored
    BY <1>1, <1>3 DEF MarkDelivered, InTable, IInv, TypeOK
  <2> QED BY <1>1, <2>1 DEF Abstract
<1> QED BY <1>2, <1>3

LEMMA StepKeepsPromise ==
  ASSUME IInv, CountInv, [Next]_vars PROVE [Promise!Next]_Abstract
<1>1. CASE UNCHANGED vars
  BY <1>1 DEF vars, Abstract
<1>2. CASE Tick
  BY <1>2 DEF Tick, Abstract
<1>3. ASSUME NEW e \in Events, Enqueue(e) PROVE Promise!Next
  BY <1>3, EnqueuePosts DEF Promise!Next
<1>4. ASSUME NEW d \in Dispatchers, Work(d) \/ Crash(d) PROVE [Promise!Next]_Abstract
  <2>1. CASE Prune(d) \/ Claim(d)
    BY <2>1, PruneDrops, ClaimTries DEF Promise!Next
  <2>2. CASE Return(d) \/ Crash(d)
    BY <2>2 DEF Return, Crash, rowVars, Abstract
  <2>3. ASSUME NEW f \in flights, Start(f) \/ Refuse(f) \/ MarkFailed(f) \/ MarkFails(f)
        PROVE  UNCHANGED Abstract
    BY <2>3 DEF Start, Refuse, MarkFailed, MarkFails, rowVars, Abstract
  <2>4. ASSUME NEW f \in flights, Accept(f) \/ LoseAnswer(f) PROVE Promise!Next
    <3>1. f.event \in Events
      BY DEF IInv, TypeOK, Flights
    <3> QED BY <2>4, <3>1, AcceptArrives DEF Promise!Next
  <2>5. ASSUME NEW f \in flights, MarkDelivered(f) PROVE [Promise!Next]_Abstract
    <3>1. f.event \in Events
      BY DEF IInv, TypeOK, Flights
    <3> QED BY <2>5, <3>1, MarkSettles DEF Promise!Next
  <2> QED BY <1>4, <2>1, <2>2, <2>3, <2>4, <2>5 DEF Work, Answer, Record
<1> QED BY <1>1, <1>2, <1>3, <1>4 DEF Next

(* Whatever the dispatchers do, an event is never sent more often than it  *)
(* was claimed, nor claimed more than max_attempts times; it is marked     *)
(* only once it arrived and pruned only when marked or out of attempts     *)
(* (webhook_dispatcher.Execute implements AtLeastOnce).                    *)
THEOREM Implements == Spec => KeepsPromise
<1>1. Init => Promise!Init
  BY DEF Init, Promise!Init
<1>2. IInv /\ CountInv /\ [Next]_vars => [Promise!Next]_(Promise!vars)
  BY StepKeepsPromise DEF Abstract, Promise!vars
<1>3. Spec => []CountInv
  BY InitCounts, NextCounts, Invariance, PTL DEF Spec
<1> QED BY <1>1, <1>2, <1>3, Invariance, PTL DEF Spec, KeepsPromise, Promise!Spec
-----------------------------------------------------------------------------
(* Nobody sends an event twice, if a batch has a slot for each event and a *)
(* request with its outcome fits into the lease: no claim waits its turn,  *)
(* and the table is finite.                                                *)
Unqueued ==
    /\ BatchSize <= Concurrency
    /\ Timeout + Recording < Lease
    /\ IsFiniteSet(Events)

Of(d) == {f \in flights : f.by = d}

Batched(d) ==
    /\ IsFiniteSet(Of(d)) /\ Cardinality(Of(d)) <= BatchSize
    /\ phase[d] # "delivering" => Of(d) = {}

(* What is in flight is leased for as long as it is.                       *)
Leased == \A f \in flights : wait[f.event] + f.spent >= Lease

SoleInv == SingleFlight /\ Leased /\ \A d \in Dispatchers : Batched(d)

LEMMA Constants ==
  /\ {BatchSize, Concurrency, MaxAttempts, Timeout, Retention, BackoffMax} \subseteq Nat \ {0}
  /\ Recording \in Nat /\ Lease \in Nat
  BY OutboxAssumption, LeaseNat DEF OutboxAssumption

LEMMA WellTyped ==
  ASSUME IInv, NEW f \in flights
  PROVE  /\ f.event \in Events /\ f.by \in Dispatchers
         /\ f.spent \in 0..Timeout + Recording
         /\ wait[f.event] \in Nat
  BY Constants DEF IInv, TypeOK, Flights

(* A step that adds no flight to d leaves no more of them.                 *)
LEMMA StillBatched ==
  ASSUME NEW d \in Dispatchers, Batched(d), phase'[d] = phase[d],
         NEW h, h \in [flights -> flights'],
         \A f \in flights : h[f].by = f.by,
         \A g \in flights' : \E f \in flights : g = h[f]
  PROVE  Batched(d)'
<1> DEFINE mine == [f \in Of(d) |-> h[f]]
<1>1. mine \in Surjection(Of(d), Of(d)')
  BY DEF Of, Surjection
<1>2. /\ IsFiniteSet(Of(d)')
      /\ Cardinality(Of(d)') <= Cardinality(Of(d))
  BY <1>1, FS_Surjection DEF Batched
<1>3. /\ Cardinality(Of(d)') \in Nat /\ Cardinality(Of(d)) \in Nat
      /\ BatchSize \in Nat
  BY <1>2, FS_CardinalityType, Constants DEF Batched
<1>4. Of(d) = {} => Of(d)' = {}
  BY DEF Of
<1> QED BY <1>2, <1>3, <1>4 DEF Batched

(* Nothing is added to what d sends, whatever d does next.                 *)
LEMMA FewerBatched ==
  ASSUME NEW d \in Dispatchers, Batched(d), flights' \subseteq flights,
         phase'[d] # "delivering" => phase[d] # "delivering" \/ Of(d)' = {}
  PROVE  Batched(d)'
<1>1. Of(d)' \subseteq Of(d)
  BY DEF Of
<1>2. /\ IsFiniteSet(Of(d)')
      /\ Cardinality(Of(d)') <= Cardinality(Of(d))
  BY <1>1, FS_Subset DEF Batched
<1>3. /\ Cardinality(Of(d)') \in Nat /\ Cardinality(Of(d)) \in Nat
      /\ BatchSize \in Nat
  BY <1>2, FS_CardinalityType, Constants DEF Batched
<1> QED BY <1>1, <1>2, <1>3 DEF Batched

(* No flight of a full batch waits for a slot.                             *)
LEMMA SlotForAll ==
  ASSUME Unqueued, IInv, SoleInv, NEW f \in flights, f.stage = "queued"
  PROVE  SlotFree(f.by)
<1> DEFINE d == f.by
           all == Of(d)
           busy == {g \in flights : g.by = f.by /\ g.stage \in InSlot}
<1>1. /\ f \in all /\ d \in Dispatchers
      /\ busy \subseteq all \ {f}
  BY WellTyped DEF Of, InSlot
<1>2. IsFiniteSet(all) /\ Cardinality(all) <= BatchSize
  BY <1>1 DEF SoleInv, Batched
<1> HIDE DEF all, busy, d
<1>3. /\ IsFiniteSet(all \ {f})
      /\ Cardinality(all \ {f}) = Cardinality(all) - 1
  BY <1>1, <1>2, FS_RemoveElement
<1>4. IsFiniteSet(busy) /\ Cardinality(busy) <= Cardinality(all \ {f})
  BY <1>1, <1>3, FS_Subset
<1>5. Cardinality(busy) \in Nat /\ Cardinality(all) \in Nat
  BY <1>2, <1>4, FS_CardinalityType
<1>6. Cardinality(busy) < Concurrency
  BY <1>2, <1>3, <1>4, <1>5, Constants DEF Unqueued
<1> QED BY <1>6 DEF SlotFree, busy

(* A leased row is not due, so a claim takes what nobody is sending.       *)
LEMMA DueIsFree ==
  ASSUME Unqueued, IInv, SoleInv, NEW e \in Events, Due(e), NEW f \in flights
  PROVE  f.event # e
  BY WellTyped, Constants DEF Unqueued, SoleInv, Leased, Due

LEMMA ClaimSole ==
  ASSUME Unqueued, IInv, IInv', SoleInv, NEW d \in Dispatchers, Claim(d)
  PROVE  SoleInv'
<1> DEFINE new(e) == [by |-> d, event |-> e, attempt |-> attempts[e] + 1,
                      stage |-> "queued", spent |-> 0]
<1>1. PICK batch \in SUBSET {e \in Events : Due(e)} :
          /\ Cardinality(batch) <= BatchSize
          /\ ClaimRows(d, batch)
          /\ phase' = [phase EXCEPT ![d] = IF batch = {} THEN "idle" ELSE "delivering"]
  BY DEF Claim
<1>2. /\ flights' = flights \cup {new(e) : e \in batch}
      /\ wait' = [e \in Events |-> IF e \in batch THEN Lease ELSE wait[e]]
      /\ phase[d] = "claiming" /\ phase \in [Dispatchers -> {"idle", "claiming", "delivering"}]
  BY <1>1 DEF ClaimRows, Claim, IInv, TypeOK
<1>3. \A e \in batch : e \in Events /\ \A f \in flights : f.event # e
  BY DueIsFree
<1>4. SingleFlight'
  BY <1>2, <1>3 DEF SoleInv, SingleFlight
<1>5. Leased'
  <2> SUFFICES ASSUME NEW f \in flights' PROVE wait'[f.event] + f.spent >= Lease
    BY DEF Leased
  <2>1. CASE f \in flights
    <3>1. f.event \in Events /\ f.event \notin batch
      BY <2>1, <1>3, WellTyped
    <3> QED BY <2>1, <3>1, <1>2 DEF SoleInv, Leased
  <2>2. ASSUME NEW e \in batch, f = new(e) PROVE wait'[f.event] + f.spent >= Lease
    BY <2>2, <1>2, <1>3, Constants
  <2> QED BY <2>1, <2>2, <1>2
<1>6. ASSUME NEW x \in Dispatchers PROVE Batched(x)'
  <2>1. CASE x # d
    <3>1. Of(x)' = Of(x) /\ phase'[x] = phase[x]
      BY <2>1, <1>1, <1>2 DEF Of
    <3> QED BY <3>1 DEF SoleInv, Batched
  <2>2. CASE x = d
    <3> DEFINE as == [e \in batch |-> new(e)]
    <3>1. Of(d) = {}
      BY <1>2 DEF SoleInv, Batched
    <3>2. Of(d)' = {new(e) : e \in batch}
      BY <3>1, <1>2 DEF Of
    <3>3. as \in Surjection(batch, Of(d)')
      BY <3>2 DEF Surjection
    <3>4. IsFiniteSet(batch)
      BY <1>3, FS_Subset DEF Unqueued
    <3>5. IsFiniteSet(Of(d)') /\ Cardinality(Of(d)') <= Cardinality(batch)
      BY <3>3, <3>4, FS_Surjection
    <3>6. /\ Cardinality(Of(d)') \in Nat /\ Cardinality(batch) \in Nat
          /\ BatchSize \in Nat
      BY <3>4, <3>5, FS_CardinalityType, Constants
    <3>7. phase'[d] # "delivering" => batch = {}
      BY <1>1, <1>2
    <3> QED BY <2>2, <1>1, <3>2, <3>5, <3>6, <3>7 DEF Batched
  <2> QED BY <2>1, <2>2
<1> QED BY <1>4, <1>5, <1>6 DEF SoleInv

(* A flight that moves on to its next stage.                               *)
LEMMA BecomeSole ==
  ASSUME IInv, SoleInv, NEW f \in flights, NEW stage, Become(f, stage), UNCHANGED <<wait, phase>>
  PROVE  SoleInv'
<1> DEFINE g == [f EXCEPT !.stage = stage]
           h == [x \in flights |-> IF x = f THEN g ELSE x]
<1>1. /\ flights' = (flights \ {f}) \cup {g}
      /\ g.by = f.by /\ g.event = f.event /\ g.spent = f.spent
  BY DEF Become, IInv, TypeOK, Flights
<1> HIDE DEF g
<1>2. SingleFlight'
  <2>1. \A x \in flights' : \E y \in flights :
          x.event = y.event /\ x = IF y = f THEN g ELSE y
    BY <1>1
  <2> QED BY <2>1 DEF SoleInv, SingleFlight
<1>3. Leased'
  BY <1>1 DEF SoleInv, Leased
<1>4. /\ h \in [flights -> flights']
      /\ \A x \in flights : h[x].by = x.by
      /\ \A y \in flights' : \E x \in flights : y = h[x]
  BY <1>1
<1> HIDE DEF h
<1>5. ASSUME NEW d \in Dispatchers PROVE Batched(d)'
  BY <1>4, StillBatched DEF SoleInv
<1> QED BY <1>2, <1>3, <1>5 DEF SoleInv

(* A flight that ends; its row may be put off until a later attempt.       *)
LEMMA LeaveSole ==
  ASSUME IInv, SoleInv, NEW f \in flights, Record(f)
  PROVE  SoleInv'
<1>1. /\ flights' = flights \ {f} /\ phase' = phase
      /\ \A e \in Events : e # f.event => wait'[e] = wait[e]
  BY DEF Record, MarkDelivered, MarkFailed, MarkFails, Leave, rowVars, IInv, TypeOK
<1>2. SingleFlight'
  BY <1>1 DEF SoleInv, SingleFlight
<1>3. \A g \in flights' : g \in flights /\ g.event \in Events /\ g.event # f.event
  BY <1>1, WellTyped DEF SoleInv, SingleFlight
<1>4. Leased'
  BY <1>1, <1>3 DEF SoleInv, Leased
<1>5. ASSUME NEW d \in Dispatchers PROVE Batched(d)'
  BY <1>1, FewerBatched DEF SoleInv
<1> QED BY <1>2, <1>4, <1>5 DEF SoleInv

LEMMA TickSole ==
  ASSUME Unqueued, IInv, SoleInv, Tick
  PROVE  SoleInv'
<1> DEFINE h == [f \in flights |-> IF f.stage = "queued" THEN f ELSE [f EXCEPT !.spent = @ + 1]]
<1>1. /\ flights' = {h[f] : f \in flights} /\ phase' = phase
      /\ wait' = [e \in Events |-> IF wait[e] = 0 THEN 0 ELSE wait[e] - 1]
  BY DEF Tick
<1>2. \A f \in flights : f.stage # "queued"
  BY SlotForAll DEF Tick, MayWait
<1>3. \A f \in flights : /\ h[f].by = f.by /\ h[f].event = f.event
                         /\ h[f].spent = f.spent + 1
  BY <1>2 DEF IInv, TypeOK, Flights
<1> HIDE DEF h
<1>4. SingleFlight'
  BY <1>1, <1>3 DEF SoleInv, SingleFlight
<1>5. Leased'
  <2> SUFFICES ASSUME NEW f \in flights PROVE wait'[f.event] + (f.spent + 1) >= Lease
    BY <1>1, <1>3 DEF Leased
  <2>1. wait[f.event] + f.spent >= Lease
    BY DEF SoleInv, Leased
  <2>2. wait'[f.event] = IF wait[f.event] = 0 THEN 0 ELSE wait[f.event] - 1
    BY <1>1, WellTyped
  <2> QED BY <2>1, <2>2, WellTyped, Constants
<1>6. ASSUME NEW d \in Dispatchers PROVE Batched(d)'
  <2>1. /\ h \in [flights -> flights']
        /\ \A y \in flights' : \E x \in flights : y = h[x]
    BY <1>1 DEF h
  <2> QED BY <1>1, <1>3, <2>1, StillBatched DEF SoleInv
<1> QED BY <1>4, <1>5, <1>6 DEF SoleInv

LEMMA NextSole == Unqueued /\ IInv /\ IInv' /\ SoleInv /\ [Next]_vars => SoleInv'
<1> SUFFICES ASSUME Unqueued, IInv, IInv', SoleInv, [Next]_vars PROVE SoleInv'
  OBVIOUS
<1>1. ASSUME UNCHANGED wait, flights' \subseteq flights,
             \A d \in Dispatchers :
               phase'[d] # "delivering" => phase[d] # "delivering" \/ Of(d)' = {}
      PROVE  SoleInv'
  <2>1. SingleFlight' /\ Leased'
    BY <1>1 DEF SoleInv, SingleFlight, Leased
  <2>2. ASSUME NEW d \in Dispatchers PROVE Batched(d)'
    BY <1>1, FewerBatched DEF SoleInv
  <2> QED BY <2>1, <2>2 DEF SoleInv
<1>2. ASSUME NEW d \in Dispatchers, Prune(d) \/ Return(d) \/ Crash(d) PROVE SoleInv'
  <2>1. /\ UNCHANGED wait /\ flights' \subseteq flights
        /\ \A x \in Dispatchers : x # d => phase'[x] = phase[x]
        /\ phase[d] # "delivering" \/ \A f \in flights' : f.by # d
    BY <1>2 DEF Prune, Return, Crash, rowVars, IInv, TypeOK
  <2>2. phase[d] # "delivering" \/ Of(d)' = {}
    BY <2>1 DEF Of
  <2> QED BY <2>1, <2>2, <1>1
<1>3. ASSUME NEW f \in flights, Start(f) \/ Answer(f) PROVE SoleInv'
  <2>1. UNCHANGED <<wait, phase>>
    BY <1>3 DEF Start, Answer, Accept, Refuse, LoseAnswer, rowVars
  <2>2. PICK stage : Become(f, stage)
    BY <1>3 DEF Start, Answer, Accept, Refuse, LoseAnswer
  <2> QED BY <2>1, <2>2, BecomeSole
<1>4. ASSUME NEW e \in Events, Enqueue(e) PROVE SoleInv'
  BY <1>1, <1>4 DEF Enqueue
<1>5. CASE UNCHANGED vars
  BY <1>1, <1>5 DEF vars
<1> QED BY <1>2, <1>3, <1>4, <1>5, ClaimSole, LeaveSole, TickSole DEF Next, Work

LEMMA InitSole == Init => SoleInv
<1> SUFFICES ASSUME Init PROVE SoleInv
  OBVIOUS
<1>1. flights = {} /\ \A d : Of(d) = {}
  BY DEF Init, Of
<1> QED BY <1>1, FS_EmptySet, Constants DEF SoleInv, SingleFlight, Leased, Batched

(* Two dispatchers never hold the same event, as the claim promises        *)
(* (webhook_event_repo.go:61), wherever batch_size is at most concurrency. *)
THEOREM NobodySendsTwice == ASSUME Unqueued PROVE Spec => []SingleFlight
<1>1. Spec => []SoleInv
  BY InitSole, NextSole, Invariance, PTL DEF Spec
<1>2. SoleInv => SingleFlight
  BY DEF SoleInv
<1> QED BY <1>1, <1>2, PTL
(* While nothing has failed, what the receiver has seen once is marked or  *)
(* about to be, and what is still on its way it has not seen.              *)
Once(e) ==
    /\ accepted[e] <= 1
    /\ accepted[e] = 1 => \/ stored[e] \in {"delivered", "pruned"}
                          \/ \E f \in flights : f.event = e /\ f.stage = "taken"
    /\ \A f \in flights : f.event = e =>
         stored[e] # "none" /\ (f.stage # "taken" => accepted[e] = 0)

OnceInv == faults = 0 => \A e \in Events : Once(e)

LEMMA ClaimOnce ==
  ASSUME Unqueued, IInv, SoleInv, NEW d \in Dispatchers, Claim(d),
         \A e \in Events : Once(e), NEW e \in Events
  PROVE  Once(e)'
<1>1. PICK batch \in SUBSET {x \in Events : Due(x)} : ClaimRows(d, batch)
  BY DEF Claim
<1>2. UNCHANGED <<stored, accepted>> /\ flights \subseteq flights'
  BY <1>1 DEF Claim, ClaimRows
<1>3. \A f \in flights' \ flights : f.event \in batch /\ f.stage = "queued"
  BY <1>1 DEF ClaimRows
<1>4. ASSUME e \in batch PROVE stored[e] = "pending" /\ accepted[e] = 0
  <2>1. stored[e] = "pending" /\ \A f \in flights : f.event # e
    BY <1>4, DueIsFree DEF Due
  <2> QED BY <2>1 DEF Once, IInv, TypeOK
<1> QED BY <1>2, <1>3, <1>4 DEF Once

LEMMA BecomeOnce ==
  ASSUME IInv, SoleInv, NEW f \in flights, Start(f) \/ Accept(f) \/ Refuse(f),
         \A e \in Events : Once(e), NEW e \in Events
  PROVE  Once(e)'
<1>1. PICK g : /\ flights' = (flights \ {f}) \cup {g}
               /\ g.event = f.event
               /\ Accept(f) => g.stage = "taken"
               /\ ~Accept(f) => g.stage # "taken"
  <2> DEFINE g(stage) == [f EXCEPT !.stage = stage]
  <2>1. \A stage : g(stage).event = f.event /\ g(stage).stage = stage
    BY DEF IInv, TypeOK, Flights
  <2>2. CASE Accept(f)
    <3>1. flights' = (flights \ {f}) \cup {g("taken")}
      BY <2>2 DEF Accept, Become
    <3> QED BY <2>1, <2>2, <3>1
  <2>3. CASE ~Accept(f)
    <3>1. PICK stage \in {"sending", "refused"} : flights' = (flights \ {f}) \cup {g(stage)}
      BY <2>3 DEF Start, Refuse, Become
    <3> HIDE DEF g
    <3> QED BY <2>1, <2>3, <3>1
  <2> QED BY <2>2, <2>3
<1>2. /\ f.event \in Events /\ f.stage # "taken"
      /\ UNCHANGED stored
      /\ \A x \in Events : accepted[x] \in Nat
      /\ \A x \in Events : accepted'[x] = IF Accept(f) /\ x = f.event THEN accepted[x] + 1
                                                                     ELSE accepted[x]
  BY WellTyped DEF Start, Accept, Refuse, rowVars, IInv, TypeOK
<1>3. CASE e # f.event
  BY <1>1, <1>2, <1>3 DEF Once
<1>4. CASE e = f.event
  <2>1. stored[e] # "none" /\ accepted[e] = 0 /\ \A x \in flights : x.event = e => x = f
    BY <1>2, <1>4 DEF Once, SoleInv, SingleFlight
  <2> QED BY <1>1, <1>2, <1>4, <2>1 DEF Once
<1> QED BY <1>3, <1>4

LEMMA MarkOnce ==
  ASSUME IInv, SoleInv, NEW f \in flights, MarkDelivered(f) \/ MarkFailed(f),
         \A e \in Events : Once(e), NEW e \in Events
  PROVE  Once(e)'
<1>1. /\ flights' = flights \ {f} /\ accepted' = accepted /\ f.event \in Events
      /\ MarkFailed(f) => f.stage = "refused" /\ stored' = stored
      /\ e # f.event => stored'[e] = stored[e]
  BY WellTyped DEF MarkDelivered, MarkFailed, Leave, IInv, TypeOK
<1>2. CASE e # f.event
  BY <1>1, <1>2 DEF Once
<1>3. CASE e = f.event
  <2>1. stored[e] # "none" /\ \A x \in flights' : x.event # e
    BY <1>1, <1>3 DEF Once, SoleInv, SingleFlight
  <2>2. CASE MarkFailed(f)
    BY <1>1, <1>3, <2>1, <2>2 DEF Once
  <2>3. CASE MarkDelivered(f)
    <3>1. stored'[e] \in {"delivered", "pruned"}
      BY <1>3, <2>1, <2>3 DEF MarkDelivered, InTable, IInv, TypeOK
    <3> QED BY <1>1, <2>1, <3>1 DEF Once
  <2> QED BY <2>2, <2>3
<1> QED BY <1>2, <1>3

LEMMA TickOnce ==
  ASSUME IInv, Tick, \A e \in Events : Once(e), NEW e \in Events
  PROVE  Once(e)'
<1> DEFINE Later(f) == IF f.stage = "queued" THEN f ELSE [f EXCEPT !.spent = @ + 1]
<1>1. flights' = {Later(f) : f \in flights} /\ UNCHANGED <<stored, accepted>>
  BY DEF Tick
<1>2. \A f \in flights : Later(f).event = f.event /\ Later(f).stage = f.stage
  BY DEF IInv, TypeOK, Flights
<1> HIDE DEF Later
<1> QED BY <1>1, <1>2 DEF Once

LEMMA NextOnce == Unqueued /\ IInv /\ SoleInv /\ OnceInv /\ [Next]_vars => OnceInv'
<1> SUFFICES ASSUME Unqueued, IInv, SoleInv, OnceInv, [Next]_vars, faults' = 0,
                    NEW e \in Events
             PROVE  Once(e)'
  BY DEF OnceInv
<1>1. /\ faults = 0
      /\ \A f \in flights : ~LoseAnswer(f) /\ ~MarkFails(f)
      /\ \A d \in Dispatchers : ~Crash(d)
  BY DEF IInv, TypeOK, Next, Work, Answer, Record, vars, rowVars, Tick, Enqueue, Prune, Claim,
         Return, Crash, Start, Accept, Refuse, LoseAnswer, MarkDelivered, MarkFailed, MarkFails,
         Fault
<1>2. \A x \in Events : Once(x)
  BY <1>1 DEF OnceInv
<1>3. ASSUME NEW d \in Dispatchers, Prune(d) PROVE Once(e)'
  <2>1. /\ UNCHANGED <<accepted, flights>>
        /\ stored'[e] \in {stored[e], "pruned"}
    BY <1>3 DEF Prune
  <2> QED BY <1>2, <2>1 DEF Once
<1>4. ASSUME NEW d \in Dispatchers, Return(d) PROVE Once(e)'
  BY <1>2, <1>4 DEF Return, rowVars, Once
<1>5. ASSUME NEW x \in Events, Enqueue(x) PROVE Once(e)'
  <2>1. UNCHANGED <<accepted, flights>> /\ stored[x] = "none"
        /\ stored'[e] = IF e = x THEN "pending" ELSE stored[e]
    BY <1>5 DEF Enqueue, IInv, TypeOK
  <2> QED BY <1>2, <2>1 DEF Once
<1>6. CASE UNCHANGED vars
  BY <1>2, <1>6 DEF vars, Once
<1> QED BY <1>1, <1>2, <1>3, <1>4, <1>5, <1>6, ClaimOnce, BecomeOnce, MarkOnce, TickOnce
        DEF Next, Work, Answer, Record

(* Then the receiver takes an event in twice only where something failed:  *)
(* a crash, a lost answer, an outcome that was not recorded.               *)
THEOREM OnceWithoutFaults == ASSUME Unqueued PROVE Spec => []OnceUnlessFaulty
<1>1. Init => OnceInv
  BY DEF Init, OnceInv, Once
<1>2. Spec => []SoleInv
  BY InitSole, NextSole, Invariance, PTL DEF Spec
<1>3. OnceInv => OnceUnlessFaulty
  BY DEF OnceInv, Once, OnceUnlessFaulty
<1> QED BY <1>1, <1>2, <1>3, NextOnce, Invariance, PTL DEF Spec
=============================================================================
