----------------------------- MODULE Allocation -----------------------------
(***************************************************************************)
(* How amounts are reserved and given back: concurrent requests to create  *)
(* an invoice (internal/usecases/invoices/invoice_create over              *)
(* postgres.CreateInvoice), the cancellations and the sweeps of            *)
(* invoice_expirer.  A request reads the held amounts of one asset and     *)
(* inserts the first free one in a second statement; the unique indexes    *)
(* decide, and the loser reads again.                                      *)
(*                                                                         *)
(* Time is kept as what is left of each deadline.  The service reads its   *)
(* clock up to Stall before its statement runs; the sweeps use the         *)
(* database's.  What the matching engine does to an invoice is modelled in *)
(* Matching; only its effect on status and hold is repeated here.          *)
(***************************************************************************)
EXTENDS Naturals, FiniteSets

CONSTANTS
    Requests,      \* each creates at most one invoice, which bears its name
    Keys,          \* external IDs
    NoKey,
    Bases,         \* requested amounts
    Asks,          \* bound: the keys and amounts each request may come with
    Step, NonceMax,
    Attempts,      \* allocationAttempts
    TTL, AmountHold,
    Stall,         \* bound: how old the service's reading of the clock may be
    Moved          \* bound: the invoices that are cancelled or credited

Refusals == {"taken", "exhausted"}

ASSUME AllocationAssumption ==
    /\ Bases \subseteq Nat /\ NoKey \notin Keys
    /\ Asks \in [Requests -> SUBSET ((Keys \cup {NoKey}) \X Bases)]
    /\ {Step, NonceMax, Attempts} \subseteq Nat \ {0}
    /\ {TTL, AmountHold, Stall} \subseteq Nat
    /\ Stall <= TTL /\ Stall <= AmountHold /\ Moved \subseteq Requests
    /\ Requests \cap (Refusals \cup {"none"}) = {}

VARIABLES
    pc,         \* where each request is
    key, base,  \* what it asks for
    pay,        \* the amount it is about to insert, then the row's pay_amount
    tries,      \* races lost by this call
    answer,     \* the invoice it was given, or why it was refused
    full,       \* history: no amount was free at its last read
    rivals,     \* history: who else has created an invoice during the call; a call
                \*   that ends with an invoice or "taken" drops these two
    status, held,
    ttl, hold,  \* how far expires_at and amount_hold_until lie ahead
    ended,      \* history: time since the invoice ended, up to AmountHold
    sweeping,   \* what the expirer does next
    overdue     \* what its sub-select has found

reqVars == <<pc, key, base, tries, answer, full, rivals>>
rowVars == <<status, held, ttl, hold, ended>>
jobVars == <<sweeping, overdue>>
vars == <<reqVars, rowVars, pay, jobVars>>

-----------------------------------------------------------------------------
Ended == {"confirmed", "expired", "cancelled"}
Stored(i) == status[i] # "none"
HeldAmounts == {pay[i] : i \in {r \in Requests : held[r]}}
Greatest(a, b) == IF a >= b THEN a ELSE b

TypeOK ==
    /\ pc \in [Requests -> {"new", "read", "insert", "replay", "done"}]
    /\ key \in [Requests -> Keys \cup {NoKey}]
    /\ base \in [Requests -> Nat]
    /\ pay \in [Requests -> Nat]
    /\ tries \in [Requests -> 0..Attempts]
    /\ answer \in [Requests -> Requests \cup Refusals \cup {"none"}]
    /\ full \in [Requests -> BOOLEAN]
    /\ rivals \in [Requests -> SUBSET Requests]
    /\ status \in [Requests -> Ended \cup {"none", "pending", "detected"}]
    /\ held \in [Requests -> BOOLEAN]
    /\ ttl \in [Requests -> 0..TTL]
    /\ hold \in [Requests -> 0..TTL + AmountHold]
    /\ ended \in [Requests -> 0..AmountHold]
    /\ sweeping \in {"select", "update", "release"}
    /\ overdue \subseteq Requests

Init ==
    /\ pc = [r \in Requests |-> "new"]
    /\ key = [r \in Requests |-> NoKey]
    /\ base = [r \in Requests |-> 0]
    /\ pay = [r \in Requests |-> 0]
    /\ tries = [r \in Requests |-> 0]
    /\ answer = [r \in Requests |-> "none"]
    /\ full = [r \in Requests |-> FALSE]
    /\ rivals = [r \in Requests |-> {}]
    /\ status = [r \in Requests |-> "none"]
    /\ held = [r \in Requests |-> FALSE]
    /\ ttl = [r \in Requests |-> 0]
    /\ hold = [r \in Requests |-> 0]
    /\ ended = [r \in Requests |-> 0]
    /\ sweeping = "select"
    /\ overdue = {}

-----------------------------------------------------------------------------
(* A call with a valid body for an enabled asset.                          *)
Begin(r) ==
    /\ pc[r] = "new"
    /\ pc' = [pc EXCEPT ![r] = "read"]
    /\ \E k \in Keys \cup {NoKey}, b \in Bases :
         /\ <<k, b>> \in Asks[r]
         /\ key' = [key EXCEPT ![r] = k] /\ base' = [base EXCEPT ![r] = b]
    /\ UNCHANGED <<tries, answer, full, rivals, rowVars, pay, jobVars>>

Amounts(r) == {base[r] + n * Step : n \in 0..NonceMax - 1}

(* The lowest free nonce; off-grid amounts occupy none.                    *)
FirstFree(r, a) ==
    /\ a \in Amounts(r) \ HeldAmounts
    /\ \A b \in Amounts(r) \ HeldAmounts : a <= b

(* Nothing is free: ErrAmountSpaceExhausted.                               *)
Exhaust(r) ==
    /\ pc[r] = "read"
    /\ Amounts(r) \subseteq HeldAmounts
    /\ pc' = [pc EXCEPT ![r] = "done"]
    /\ answer' = [answer EXCEPT ![r] = "exhausted"]
    /\ full' = [full EXCEPT ![r] = TRUE]
    /\ UNCHANGED <<key, base, tries, rivals, rowVars, pay, jobVars>>

Read(r) ==
    /\ pc[r] = "read"
    /\ \E a \in Amounts(r) : FirstFree(r, a) /\ pay' = [pay EXCEPT ![r] = a]
    /\ pc' = [pc EXCEPT ![r] = "insert"]
    /\ UNCHANGED <<key, base, tries, answer, full, rivals, rowVars, jobVars>>

(* Faulty: the last attempt is never made.                                 *)
LastTryEarly(r) == tries[r] + 2 >= Attempts

LastTry(r) == tries[r] + 1 >= Attempts

(* 23505 on cp_invoices_asset_amount_held_key: the race is lost.           *)
Collide(r) ==
    /\ pc[r] = "insert"
    /\ pay[r] \in HeldAmounts
    /\ tries' = [tries EXCEPT ![r] = @ + 1]
    /\ IF LastTry(r)
       THEN /\ pc' = [pc EXCEPT ![r] = "done"]
            /\ answer' = [answer EXCEPT ![r] = "exhausted"]
       ELSE /\ pc' = [pc EXCEPT ![r] = "read"]
            /\ UNCHANGED answer
    /\ UNCHANGED <<key, base, full, rivals, rowVars, pay, jobVars>>

(* Faulty: no index on external_id.                                        *)
KeyAlwaysFree(r) == TRUE

KeyFree(r) == key[r] = NoKey \/ \A i \in Requests : Stored(i) => key[i] # key[r]

(* 23505 on cp_invoices_external_id_key: the amount was free, the key not. *)
Repeat(r) ==
    /\ pc[r] = "insert"
    /\ pay[r] \notin HeldAmounts
    /\ ~KeyFree(r)
    /\ pc' = [pc EXCEPT ![r] = "replay"]
    /\ UNCHANGED <<key, base, tries, answer, full, rivals, rowVars, pay, jobVars>>

Create(r) ==
    /\ pc[r] = "insert"
    /\ pay[r] \notin HeldAmounts
    /\ KeyFree(r)
    /\ pc' = [pc EXCEPT ![r] = "done"]
    /\ answer' = [answer EXCEPT ![r] = r]
    /\ tries' = [tries EXCEPT ![r] = 0]
    /\ rivals' = [q \in Requests |->
         IF q = r THEN {}
         ELSE IF pc[q] \in {"read", "insert", "replay"} THEN rivals[q] \cup {r}
         ELSE rivals[q]]
    /\ status' = [status EXCEPT ![r] = "pending"]
    /\ held' = [held EXCEPT ![r] = TRUE]
    /\ \E late \in 0..Stall :
         /\ ttl' = [ttl EXCEPT ![r] = TTL - late]
         /\ hold' = [hold EXCEPT ![r] = TTL + AmountHold - late]
    /\ UNCHANGED <<key, base, full, ended, pay, jobVars>>

SameOrder(r, i) == base[i] = base[r]

(* GetInvoiceByExternalID; rows are never deleted.                         *)
Replay(r) ==
    /\ pc[r] = "replay"
    /\ \E i \in Requests :
         /\ Stored(i) /\ key[i] = key[r]
         /\ answer' = [answer EXCEPT ![r] = IF SameOrder(r, i) THEN i ELSE "taken"]
    /\ pc' = [pc EXCEPT ![r] = "done"]
    /\ tries' = [tries EXCEPT ![r] = 0]
    /\ rivals' = [rivals EXCEPT ![r] = {}]
    /\ UNCHANGED <<key, base, full, rowVars, pay, jobVars>>

-----------------------------------------------------------------------------
(* The merchant withdraws an invoice: the new hold replaces the old one.   *)
Cancel(i) ==
    /\ i \in Moved
    /\ status[i] = "pending"
    /\ status' = [status EXCEPT ![i] = "cancelled"]
    /\ \E late \in 0..Stall : hold' = [hold EXCEPT ![i] = AmountHold - late]
    /\ ended' = [ended EXCEPT ![i] = 0]
    /\ UNCHANGED <<held, ttl, reqVars, pay, jobVars>>

(* The matching engine credits an invoice ...                              *)
Credit(i) ==
    /\ i \in Moved
    /\ \/ status[i] = "pending" /\ status' = [status EXCEPT ![i] = "detected"]
       \/ status[i] \in {"pending", "detected"} /\ status' = [status EXCEPT ![i] = "confirmed"]
    /\ \E late \in 0..Stall :
         hold' = [hold EXCEPT ![i] = Greatest(@, AmountHold - late)]
    /\ ended' = [ended EXCEPT ![i] = 0]
    /\ UNCHANGED <<held, ttl, reqVars, pay, jobVars>>

(* ... or takes the credit back, leaving the hold as it is.                *)
Revoke(i) ==
    /\ status[i] = "detected"
    /\ status' = [status EXCEPT ![i] = "pending"]
    /\ UNCHANGED <<held, ttl, hold, ended, reqVars, pay, jobVars>>

-----------------------------------------------------------------------------
(* One run of the expirer.  What its sub-select found may have changed     *)
(* status by the time the UPDATE reaches it, and is expired all the same.  *)
(* NOW() is the start of that statement's transaction; that a hold counts  *)
(* from the update here, a moment later, is within Stall.                  *)
SweepSelect ==
    /\ sweeping = "select"
    /\ overdue' = {i \in Requests : status[i] = "pending" /\ ttl[i] = 0}
    /\ sweeping' = "update"
    /\ UNCHANGED <<reqVars, rowVars, pay>>

(* Faulty: an expiring invoice keeps the hold it has.                      *)
HoldOnExpiryKept(i) == hold[i]

HoldOnExpiry(i) == Greatest(hold[i], AmountHold)

SweepUpdate ==
    /\ sweeping = "update"
    /\ status' = [i \in Requests |-> IF i \in overdue THEN "expired" ELSE status[i]]
    /\ hold' = [i \in Requests |-> IF i \in overdue THEN HoldOnExpiry(i) ELSE hold[i]]
    /\ ended' = [i \in Requests |->
         IF i \in overdue /\ status[i] \notin Ended THEN 0 ELSE ended[i]]
    /\ overdue' = {}
    /\ sweeping' = "release"
    /\ UNCHANGED <<held, ttl, reqVars, pay>>

(* Faulty: the amounts of cancelled invoices are never given back.         *)
ReleasableButCancelled(i) == hold[i] = 0 /\ status[i] \in {"confirmed", "expired"}

Releasable(i) == hold[i] = 0 /\ status[i] \in Ended

SweepRelease ==
    /\ sweeping = "release"
    /\ held' = [i \in Requests |-> held[i] /\ ~Releasable(i)]
    /\ sweeping' = "select"
    /\ UNCHANGED <<status, ttl, hold, ended, reqVars, pay, overdue>>

(* One of the two statements fails and the run ends there.                 *)
SweepFails ==
    /\ sweeping # "select"
    /\ sweeping' = "select"
    /\ overdue' = {}
    /\ UNCHANGED <<reqVars, rowVars, pay>>

Tick ==
    /\ ttl' = [i \in Requests |-> IF ttl[i] = 0 THEN 0 ELSE ttl[i] - 1]
    /\ hold' = [i \in Requests |-> IF hold[i] = 0 THEN 0 ELSE hold[i] - 1]
    /\ ended' = [i \in Requests |->
         IF status[i] \in Ended /\ ended[i] < AmountHold THEN ended[i] + 1 ELSE ended[i]]
    /\ UNCHANGED <<status, held, reqVars, pay, jobVars>>

Serve(r) ==
    Exhaust(r) \/ Read(r) \/ Collide(r) \/ Repeat(r) \/ Create(r) \/ Replay(r)

Sweep == SweepSelect \/ SweepUpdate \/ SweepRelease

Next ==
    \/ \E r \in Requests : Begin(r) \/ Serve(r) \/ Cancel(r) \/ Credit(r) \/ Revoke(r)
    \/ Sweep \/ SweepFails \/ Tick

Spec == Init /\ [][Next]_vars

(* Time passes, cron runs the expirer again and again, and now and then    *)
(* each of its statements succeeds.                                        *)
FairSpec == Spec /\ WF_vars(Tick) /\ WF_vars(SweepSelect)
                 /\ SF_vars(SweepUpdate) /\ SF_vars(SweepRelease)

-----------------------------------------------------------------------------
(* README.md:98, "an amount stays reserved for amount_hold after its       *)
(* invoice ends": no later request inherits it sooner, however late the    *)
(* expirer is and whatever its UPDATE overtakes, but for a stall.          *)
HoldOutlivesEnd ==
    \A i \in Requests : Stored(i) /\ ~held[i] =>
        status[i] \in Ended /\ ended[i] + Stall >= AmountHold

(* A request is told that the space is exhausted only when it was, or when *)
(* as many others as it has attempts took an amount while it ran           *)
(* (invoice_repo.go:15, "losing three races in a row").                    *)
HonestRefusal ==
    \A r \in Requests : answer[r] = "exhausted" =>
        full[r] \/ Cardinality(rivals[r]) >= Attempts

(* Whoever is given an invoice is given what was asked for, and all who    *)
(* use one key get one invoice (replay: "must not end up with two").       *)
AnswersAgree ==
    \A q, r \in Requests :
        /\ answer[r] \in Requests =>
             Stored(answer[r]) /\ key[answer[r]] = key[r] /\ base[answer[r]] = base[r]
        /\ answer[q] \in Requests /\ answer[r] \in Requests /\ key[q] = key[r] =>
             answer[q] = answer[r] \/ key[q] = NoKey

(* The invariants behind them.  A stored row's request is done; a row      *)
(* holds its amount until it has ended; what its hold has left and the     *)
(* time since the end make up AmountHold; keys are unique; and each lost   *)
(* race is somebody else's gain.                                           *)
RowsDone ==
    \A i \in Requests :
        /\ held[i] => Stored(i)
        /\ Stored(i) \/ answer[i] # "none" => pc[i] = "done"

HoldCovers ==
    /\ \A i \in overdue : Stored(i)
    /\ \A i \in Requests :
         /\ status[i] \in {"pending", "detected"} => held[i]
         /\ status[i] \in Ended /\ held[i] => hold[i] + ended[i] + Stall >= AmountHold

KeysUnique ==
    \A i, j \in Requests :
        Stored(i) /\ Stored(j) /\ key[i] = key[j] => i = j \/ key[i] = NoKey

RacesLost ==
    \A r \in Requests :
        /\ IsFiniteSet(rivals[r])
        /\ \A i \in rivals[r] : Stored(i)
        /\ pc[r] = "done" \/ tries[r] < Attempts
        /\ tries[r] <= Cardinality(rivals[r])
        /\ pc[r] = "insert" /\ pay[r] \in HeldAmounts => tries[r] < Cardinality(rivals[r])

IInv == TypeOK /\ RowsDone /\ HoldCovers /\ HoldOutlivesEnd
             /\ KeysUnique /\ AnswersAgree /\ RacesLost /\ HonestRefusal

(* An amount is not lost: it comes back unless its invoice is credited.    *)
AmountsReturn ==
    \A i \in Requests : status[i] = "pending" ~> ~held[i] \/ status[i] = "detected"

(* invoice_cancel/usecase.go:35, "the hold on its payment amount is        *)
(* extended rather than dropped".                                          *)
CancelExtends ==
    [][\A i \in Requests : status[i] = "pending" /\ status'[i] = "cancelled" =>
        hold'[i] >= hold[i]]_vars

(* README.md:166, "repeating it returns the same invoice": a repeated      *)
(* external ID is answered, whatever room there is for new amounts.        *)
RepeatAnswered ==
    [][\A r, i \in Requests :
        /\ Stored(i) /\ key[i] = key[r] /\ base[i] = base[r] /\ key[r] # NoKey
        /\ pc[r] = "read" /\ tries[r] = 0
        => answer'[r] # "exhausted"]_vars
=============================================================================
