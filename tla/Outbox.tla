------------------------------- MODULE Outbox -------------------------------
(***************************************************************************)
(* The webhook outbox: cp_webhook_events and the dispatchers that drain    *)
(* it (internal/usecases/notify/webhook_dispatcher).  A dispatcher prunes, *)
(* claims a batch by pushing next_attempt_at a lease ahead, sends what it  *)
(* claimed over a bounded number of slots and records each outcome.  Only  *)
(* the statements are transactions, so a claim outlives its claimant.      *)
(*                                                                         *)
(* Time is kept as what is left of each delay, in units of the reader's    *)
(* choice: rows due at the same moment are claimed in any order, and so    *)
(* are rows that have been due for longer.  A row that SKIP LOCKED passes  *)
(* over is being claimed, marked or pruned, none of which leaves it due,   *)
(* so taking the statements one after the other loses nothing.             *)
(***************************************************************************)
EXTENDS Naturals, FiniteSets

CONSTANTS
    Events,        \* rows the matching engine enqueues
    Dispatchers,   \* processes, each with a cron job that never overlaps itself
    BatchSize, Concurrency, MaxAttempts,
    Timeout,       \* of one request
    LeaseSlack,    \* the 30 s in Lease()
    BackoffBase, BackoffMax, Retention,
    Recording,     \* bound: how long recording an outcome takes
    MaxFaults      \* bound: crashes, lost answers and failed updates

ASSUME OutboxAssumption ==
    /\ {BatchSize, Concurrency, MaxAttempts, Timeout, BackoffBase, BackoffMax,
        Retention} \subseteq Nat \ {0}
    /\ BackoffBase <= BackoffMax
    /\ {LeaseSlack, Recording, MaxFaults} \subseteq Nat

VARIABLES
    stored,     \* none, pending, delivered (delivered_at is set) or pruned
    attempts,   \* cp_webhook_events.attempts
    wait,       \* how far next_attempt_at lies ahead
    age,        \* time since created_at, or since delivered_at once that is set
    accepted,   \* how often the receiver took the event in
    phase,      \* where each dispatcher is in Execute
    flights,    \* the claimed events and what has become of them
    faults

rowVars == <<stored, attempts, wait, age>>
vars == <<stored, attempts, wait, age, accepted, phase, flights, faults>>

-----------------------------------------------------------------------------
Lease == 2 * Timeout + LeaseSlack

(* Doubling from BackoffBase, capped at BackoffMax.                        *)
Backoff(attempt) ==
    LET d == BackoffBase * 2 ^ (attempt - 1)
    IN IF d \in 1..BackoffMax THEN d ELSE BackoffMax

InSlot == {"sending", "taken", "refused"}
Flights == [by: Dispatchers, event: Events, attempt: 1..MaxAttempts,
            stage: InSlot \cup {"queued"}, spent: 0..Timeout + Recording]

TypeOK ==
    /\ stored \in [Events -> {"none", "pending", "delivered", "pruned"}]
    /\ attempts \in [Events -> 0..MaxAttempts]
    /\ wait \in [Events -> 0..Lease + BackoffMax]
    /\ age \in [Events -> 0..Retention + 1]
    /\ accepted \in [Events -> Nat]
    /\ phase \in [Dispatchers -> {"idle", "claiming", "delivering"}]
    /\ flights \subseteq Flights
    /\ faults \in 0..MaxFaults

Init ==
    /\ stored = [e \in Events |-> "none"]
    /\ attempts = [e \in Events |-> 0]
    /\ wait = [e \in Events |-> 0]
    /\ age = [e \in Events |-> 0]
    /\ accepted = [e \in Events |-> 0]
    /\ phase = [d \in Dispatchers |-> "idle"]
    /\ flights = {}
    /\ faults = 0

Fault == faults < MaxFaults /\ faults' = faults + 1

-----------------------------------------------------------------------------
(* The matching engine's transaction commits.                              *)
Enqueue(e) ==
    /\ stored[e] = "none"
    /\ stored' = [stored EXCEPT ![e] = "pending"]
    /\ UNCHANGED <<attempts, wait, age, accepted, phase, flights, faults>>

InTable(e) == stored[e] \in {"pending", "delivered"}

(* Faulty: undelivered rows are pruned whatever attempts they have left.   *)
PrunableByAge(e) == age[e] > Retention /\ InTable(e)

Exhausted(e) == attempts[e] >= MaxAttempts

Prunable(e) ==
    /\ age[e] > Retention
    /\ InTable(e)
    /\ stored[e] = "pending" => Exhausted(e)

(* Execute begins by pruning, whoever may be sending what it prunes.       *)
Prune(d) ==
    /\ phase[d] = "idle"
    /\ stored' = [e \in Events |-> IF Prunable(e) THEN "pruned" ELSE stored[e]]
    /\ phase' = [phase EXCEPT ![d] = "claiming"]
    /\ UNCHANGED <<attempts, wait, age, accepted, flights, faults>>

(* Faulty: a delivered row is still due.                                   *)
DueForever(e) == InTable(e) /\ wait[e] = 0 /\ ~Exhausted(e)

Due(e) == stored[e] = "pending" /\ wait[e] = 0 /\ ~Exhausted(e)

(* Faulty: the claim does not move next_attempt_at.                        *)
ClaimWithoutLease(d, batch) ==
    /\ attempts' = [e \in Events |-> IF e \in batch THEN attempts[e] + 1 ELSE attempts[e]]
    /\ flights' = flights \cup
         {[by |-> d, event |-> e, attempt |-> attempts[e] + 1,
           stage |-> "queued", spent |-> 0] : e \in batch}
    /\ UNCHANGED <<stored, age, wait>>

(* One attempt is spent and the row is leased, in one statement.           *)
ClaimRows(d, batch) ==
    /\ attempts' = [e \in Events |-> IF e \in batch THEN attempts[e] + 1 ELSE attempts[e]]
    /\ wait' = [e \in Events |-> IF e \in batch THEN Lease ELSE wait[e]]
    /\ flights' = flights \cup
         {[by |-> d, event |-> e, attempt |-> attempts[e] + 1,
           stage |-> "queued", spent |-> 0] : e \in batch}
    /\ UNCHANGED <<stored, age>>

(* As many due rows as fit into a batch; with none Execute returns.        *)
Claim(d) ==
    LET due == {e \in Events : Due(e)} IN
    /\ phase[d] = "claiming"
    /\ \E batch \in SUBSET due :
         /\ Cardinality(batch) <= BatchSize
         /\ Cardinality(batch) = BatchSize \/ batch = due
         /\ ClaimRows(d, batch)
         /\ phase' = [phase EXCEPT ![d] = IF batch = {} THEN "idle" ELSE "delivering"]
    /\ UNCHANGED <<accepted, faults>>

-----------------------------------------------------------------------------
(* deliverOne: wait for a slot, send, record the outcome, free the slot.   *)

Leave(f) == flights' = flights \ {f}
Become(f, stage) == flights' = (flights \ {f}) \cup {[f EXCEPT !.stage = stage]}

(* Faulty: a slot is kept back.                                            *)
SlotKeptBack(d) ==
    Cardinality({f \in flights : f.by = d /\ f.stage \in InSlot}) < Concurrency - 1

SlotFree(d) ==
    Cardinality({f \in flights : f.by = d /\ f.stage \in InSlot}) < Concurrency

Start(f) ==
    /\ f.stage = "queued"
    /\ SlotFree(f.by)
    /\ Become(f, "sending")
    /\ UNCHANGED <<rowVars, accepted, phase, faults>>

(* The receiver answers 2xx ...                                            *)
Accept(f) ==
    /\ f.stage = "sending"
    /\ accepted' = [accepted EXCEPT ![f.event] = @ + 1]
    /\ Become(f, "taken")
    /\ UNCHANGED <<rowVars, phase, faults>>

(* ... or something else, or not in time ...                               *)
Refuse(f) ==
    /\ f.stage = "sending"
    /\ Become(f, "refused")
    /\ UNCHANGED <<rowVars, accepted, phase, faults>>

(* ... or takes the event in and its answer is lost or late.               *)
LoseAnswer(f) ==
    /\ f.stage = "sending"
    /\ Fault
    /\ accepted' = [accepted EXCEPT ![f.event] = @ + 1]
    /\ Become(f, "refused")
    /\ UNCHANGED <<rowVars, phase>>

(* Both updates go by id alone and hit nothing once the row is pruned.     *)
MarkDelivered(f) ==
    /\ f.stage = "taken"
    /\ IF InTable(f.event)
       THEN /\ stored' = [stored EXCEPT ![f.event] = "delivered"]
            /\ age' = [age EXCEPT ![f.event] = 0]
       ELSE UNCHANGED <<stored, age>>
    /\ Leave(f)
    /\ UNCHANGED <<attempts, wait, accepted, phase, faults>>

MarkFailed(f) ==
    /\ f.stage = "refused"
    /\ wait' = [wait EXCEPT ![f.event] = IF InTable(f.event) THEN Backoff(f.attempt) ELSE @]
    /\ Leave(f)
    /\ UNCHANGED <<stored, attempts, age, accepted, phase, faults>>

(* The update fails, because the database or the context is gone.          *)
MarkFails(f) ==
    /\ f.stage \in {"taken", "refused"}
    /\ Fault
    /\ Leave(f)
    /\ UNCHANGED <<rowVars, accepted, phase>>

(* wg.Wait() returns: every event of the batch has its result.             *)
Return(d) ==
    /\ phase[d] = "delivering"
    /\ \A f \in flights : f.by # d
    /\ phase' = [phase EXCEPT ![d] = "idle"]
    /\ UNCHANGED <<rowVars, accepted, flights, faults>>

(* The process dies or is shut down, and starts again.                     *)
Crash(d) ==
    /\ phase[d] # "idle"
    /\ Fault
    /\ phase' = [phase EXCEPT ![d] = "idle"]
    /\ flights' = {f \in flights : f.by # d}
    /\ UNCHANGED <<rowVars, accepted>>

-----------------------------------------------------------------------------
(* The HTTP client gives up after Timeout, recording an outcome takes at   *)
(* most Recording, and a free slot is taken up at once.                    *)
MayWait(f) ==
    /\ f.stage = "queued" => ~SlotFree(f.by)
    /\ f.stage = "sending" => f.spent < Timeout
    /\ f.stage \in {"taken", "refused"} => f.spent < Timeout + Recording

Tick ==
    /\ \A f \in flights : MayWait(f)
    /\ wait' = [e \in Events |-> IF wait[e] = 0 THEN 0 ELSE wait[e] - 1]
    /\ age' = [e \in Events |-> IF InTable(e) /\ age[e] <= Retention THEN age[e] + 1 ELSE age[e]]
    /\ flights' = {IF f.stage = "queued" THEN f ELSE [f EXCEPT !.spent = @ + 1] : f \in flights}
    /\ UNCHANGED <<stored, attempts, accepted, phase, faults>>

Answer(f) == Accept(f) \/ Refuse(f) \/ LoseAnswer(f)
Record(f) == MarkDelivered(f) \/ MarkFailed(f) \/ MarkFails(f)
Work(d) ==
    \/ Prune(d) \/ Claim(d) \/ Return(d)
    \/ \E f \in flights : f.by = d /\ (Start(f) \/ Answer(f) \/ Record(f))

Next ==
    \/ Tick
    \/ \E e \in Events : Enqueue(e)
    \/ \E d \in Dispatchers : Work(d) \/ Crash(d)

Spec == Init /\ [][Next]_vars

(* Time passes, and cron keeps every dispatcher running.                   *)
FairSpec == Spec /\ WF_vars(Tick) /\ \A d \in Dispatchers : WF_vars(Work(d))

-----------------------------------------------------------------------------
(* webhook_event_repo.go:61: the lease and SKIP LOCKED "let more than one  *)
(* dispatcher run without either double-sending".  True while a batch is   *)
(* sent within one lease.                                                  *)
SingleFlight == \A f, g \in flights : f.event = g.event => f = g

(* The receiver gets an event twice only when something failed: a crash, a *)
(* lost answer, an update that did not happen.                             *)
OnceUnlessFaulty == faults = 0 => \A e \in Events : accepted[e] <= 1

(* What has been claimed but not answered.                                 *)
Unanswered(e) == {f \in flights : f.event = e /\ f.stage \in {"queued", "sending"}}

(* max_attempts holds however dispatchers overlap, and every attempt is    *)
(* counted before it is made: the receiver never sees more than that.      *)
AttemptsCounted ==
    \A e \in Events : accepted[e] + Cardinality(Unanswered(e)) <= attempts[e]

(* A row says delivered only if the receiver has the event, and an event   *)
(* it never got leaves the table only when its attempts are used up.       *)
DeliveredIsTrue == \A e \in Events : stored[e] = "delivered" => accepted[e] > 0
LostOnlyIfExhausted ==
    \A e \in Events : stored[e] = "pruned" /\ accepted[e] = 0 => Exhausted(e)

(* The invariant behind the last two: an outcome that waits to be recorded *)
(* as delivered is one the receiver has seen.                              *)
TakenIsAccepted == \A f \in flights : f.stage = "taken" => accepted[f.event] > 0

IInv == TypeOK /\ TakenIsAccepted /\ DeliveredIsTrue /\ LostOnlyIfExhausted

(* Every event is delivered or runs out of attempts: a crash, a slow batch *)
(* or a full slot never leaves one behind (README: a receiver that is down *)
(* delays notifications).                                                  *)
Drains == \A e \in Events : stored[e] = "pending" ~> stored[e] # "pending" \/ Exhausted(e)

(* Dispatchers that overlap, die and lose answers still keep the promise   *)
(* of AtLeastOnce: leases, slots, batches and faults are invisible there.  *)
Promise == INSTANCE AtLeastOnce
    WITH Events <- Events, Limit <- MaxAttempts, fate <- stored, tries <- attempts, got <- accepted

KeepsPromise == Promise!Spec

(* queries/webhook_event.sql:13: "a dispatcher that dies mid-delivery      *)
(* releases the row on rollback": an event whose sender is gone before it  *)
(* was sent is due at once.                                                *)
DyingReleases ==
    [][\A f \in flights :
        /\ f.stage = "queued"
        /\ \A g \in flights' : g.event = f.event => g.by # f.by
        => wait'[f.event] = 0]_vars
=============================================================================
