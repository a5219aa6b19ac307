------------------------------ MODULE Matching ------------------------------
(***************************************************************************)
(* The matching engine of internal/service/matching and everybody it       *)
(* shares the database with.  One chain watcher turns observed transfers   *)
(* into payments, orphans and invoice status changes; meanwhile the API    *)
(* creates and cancels invoices, and the expirer voids overdue ones and    *)
(* releases reserved amounts.                                              *)
(*                                                                         *)
(* Granularity: a transaction (WithTx) or a single SQL statement is one    *)
(* action, because its compare-and-set takes effect on the row lock it     *)
(* holds until commit.  Reads made outside a transaction are steps of      *)
(* their own, and what they saw is carried in `job` and may be stale when  *)
(* it is used.  The expirer's UPDATE is split in two for the same reason:  *)
(* under READ COMMITTED its sub-select sees one snapshot, and a row that   *)
(* another transaction changed meanwhile is only re-checked against        *)
(* `id IN (...)`, whose result is not recomputed.                          *)
(*                                                                         *)
(* The clock is not modelled: a pending invoice may be overdue, and the    *)
(* hold of an ended one may have lapsed, at any moment.                    *)
(*                                                                         *)
(* A block is told from another only by how often its transfer had been    *)
(* un-mined before: block[t] is the block t is (or would next be) in, and  *)
(* recorded[t] the one its cp_payments row names, which no later sighting  *)
(* updates.  Heights only grow final, so a block a transfer has left may   *)
(* be taken for final at any time.                                         *)
(***************************************************************************)
EXTENDS Naturals, Sequences, FiniteSets

CONSTANTS
    Transfers,        \* chain references: (network, tx_hash, log_index)
    Value,            \* what each transfer moves, in smallest units
    Foreign,          \* the transfers of a token this service does not know
    MaxInvoices,      \* bound: how many invoices are ever created
    BaseAmounts,      \* what merchants ask for
    Step,             \* cp_assets.step
    NonceMax,         \* cp_assets.nonce_max
    MaxReorgs,        \* bound: how often each transfer is un-mined
    WebhooksEnabled   \* is a receiver configured?

ASSUME MatchingAssumption ==
    /\ Foreign \subseteq Transfers
    /\ Value \in [Transfers -> Nat \ {0}]
    /\ BaseAmounts \subseteq Nat \ {0}
    /\ {Step, NonceMax} \subseteq Nat \ {0}
    /\ MaxInvoices \in Nat
    /\ MaxReorgs \in [Transfers -> Nat]
    /\ WebhooksEnabled \in BOOLEAN

VARIABLES
    chain,      \* where each transfer stands on chain
    block,      \* which block it is in there
    status,     \* cp_invoices.status, "none" before the row exists
    amount,     \* cp_invoices.pay_amount
    held,       \* cp_invoices.amount_held
    row,        \* the transfer's cp_payments row: none, live or removed
    payee,      \* cp_payments.invoice_id
    recorded,   \* cp_payments.block_number (on TRON, block_time)
    filed,      \* cp_orphan_transfers.reason, "none" without a row
    outbox,     \* per invoice, the events enqueued, oldest first
    job,        \* what the watcher is doing with which transfer
    overdue     \* the snapshot of the expirer's running statement

invoiceVars == <<status, amount, held>>
paymentVars == <<row, payee, recorded>>
chainVars   == <<chain, block>>

vars == <<chain, block, status, amount, held, row, payee, recorded, filed,
          outbox, job, overdue>>

-----------------------------------------------------------------------------
(* Invoices are numbered in the order of their created_at.                 *)
Invoices  == 1..MaxInvoices
NoInvoice == 0

Terminal == {"confirmed", "expired", "cancelled"}
Payable  == {"pending", "detected"}
Status   == Terminal \cup Payable
Events   == {"detected", "confirmed", "reverted"}
Reasons  == {"unknown_asset", "no_matching_invoice", "invoice_terminal"}

invoiceTransitions ==
    {<<"pending", "detected">>, <<"pending", "confirmed">>,
     <<"pending", "expired">>,  <<"pending", "cancelled">>,
     <<"detected", "confirmed">>, <<"detected", "pending">>}

(* Faulty: a status may also move to itself, as Transition() lets it.      *)
CanTransitionToSelf(s, next) == s = next \/ <<s, next>> \in invoiceTransitions

CanTransitionTo(s, next) == <<s, next>> \in invoiceTransitions

(* Faulty: the upper bound of the window is inclusive.                     *)
CoversUpperBound(pay, v) == pay <= v /\ v <= pay + Step

(* The half-open window [pay_amount, pay_amount + step).                   *)
Covers(pay, v) == pay <= v /\ v < pay + Step

(* Every amount an invoice may ask for.                                    *)
PayAmounts == {b + n * Step : b \in BaseAmounts, n \in 0..NonceMax - 1}

Blocks == Nat

Idle == [step |-> "idle"]
Jobs ==
    {Idle}
    \cup [step: {"lookup", "find"}, transfer: Transfers, block: Blocks, final: BOOLEAN]
    \cup [step: {"credit"}, transfer: Transfers, block: Blocks, final: BOOLEAN,
          invoice: Invoices, seen: Payable]
    \cup [step: {"file"}, transfer: Transfers, reason: Reasons]
    \cup [step: {"settle", "revoke"}, transfer: Transfers]

TypeOK ==
    /\ chain \in [Transfers -> {"absent", "shallow", "final"}]
    /\ block \in [Transfers -> Blocks]
    /\ status \in [Invoices -> Status \cup {"none"}]
    /\ amount \in [Invoices -> PayAmounts \cup {0}]
    /\ held \in [Invoices -> BOOLEAN]
    /\ row \in [Transfers -> {"none", "live", "removed"}]
    /\ payee \in [Transfers -> Invoices \cup {NoInvoice}]
    /\ recorded \in [Transfers -> Blocks]
    /\ filed \in [Transfers -> Reasons \cup {"none"}]
    /\ outbox \in [Invoices -> Seq(Events)]
    /\ job \in Jobs
    /\ overdue \subseteq Invoices

Init ==
    /\ chain = [t \in Transfers |-> "absent"]
    /\ block = [t \in Transfers |-> 0]
    /\ status = [i \in Invoices |-> "none"]
    /\ amount = [i \in Invoices |-> 0]
    /\ held = [i \in Invoices |-> FALSE]
    /\ row = [t \in Transfers |-> "none"]
    /\ payee = [t \in Transfers |-> NoInvoice]
    /\ recorded = [t \in Transfers |-> 0]
    /\ filed = [t \in Transfers |-> "none"]
    /\ outbox = [i \in Invoices |-> <<>>]
    /\ job = Idle
    /\ overdue = {}

-----------------------------------------------------------------------------
(* The chain: transfers are mined, un-mined while shallow, and finalised.  *)

Mine(t) ==
    /\ chain[t] = "absent"
    /\ chain' = [chain EXCEPT ![t] = "shallow"]
    /\ UNCHANGED <<block, invoiceVars, paymentVars, filed, outbox, job, overdue>>

Reorg(t) ==
    /\ chain[t] = "shallow"
    /\ block[t] < MaxReorgs[t]
    /\ chain' = [chain EXCEPT ![t] = "absent"]
    /\ block' = [block EXCEPT ![t] = @ + 1]
    /\ UNCHANGED <<invoiceVars, paymentVars, filed, outbox, job, overdue>>

Finalise(t) ==
    /\ chain[t] = "shallow"
    /\ chain' = [chain EXCEPT ![t] = "final"]
    /\ UNCHANGED <<block, invoiceVars, paymentVars, filed, outbox, job, overdue>>

-----------------------------------------------------------------------------
(* The API and the expirer.                                                *)

(* The nonces whose amount no held invoice reserves.                       *)
FreeNonces(base) ==
    {n \in 0..NonceMax - 1 :
        \A i \in Invoices : held[i] => amount[i] # base + n * Step}

(* CreateInvoice: ErrAmountSpaceExhausted when no nonce is free.  The      *)
(* race between its read and its insert is Allocation's subject.           *)
Create(i, base) ==
    /\ status[i] = "none"
    /\ \A j \in Invoices : j < i => status[j] # "none"
    /\ \E n \in FreeNonces(base) :
         /\ \A m \in FreeNonces(base) : n <= m
         /\ amount' = [amount EXCEPT ![i] = base + n * Step]
    /\ status' = [status EXCEPT ![i] = "pending"]
    /\ held' = [held EXCEPT ![i] = TRUE]
    /\ UNCHANGED <<chainVars, paymentVars, filed, outbox, job, overdue>>

Cancel(i) ==
    /\ status[i] = "pending"
    /\ status' = [status EXCEPT ![i] = "cancelled"]
    /\ UNCHANGED <<chainVars, amount, held, paymentVars, filed, outbox, job, overdue>>

(* The sub-select of ExpirePendingInvoices: a snapshot of overdue rows.    *)
ExpireSelect ==
    /\ overdue = {}
    /\ overdue' \in (SUBSET {i \in Invoices : status[i] = "pending"}) \ {{}}
    /\ UNCHANGED <<chainVars, invoiceVars, paymentVars, filed, outbox, job>>

(* ... and the UPDATE, which does not look at the status again.            *)
ExpireUpdate ==
    /\ overdue # {}
    /\ status' = [i \in Invoices |-> IF i \in overdue THEN "expired" ELSE status[i]]
    /\ overdue' = {}
    /\ UNCHANGED <<chainVars, amount, held, paymentVars, filed, outbox, job>>

(* The statement fails and is rolled back.                                 *)
ExpireAbort ==
    /\ overdue # {}
    /\ overdue' = {}
    /\ UNCHANGED <<chainVars, invoiceVars, paymentVars, filed, outbox, job>>

(* Faulty: the sweep forgets to look at the status.                        *)
ReleasableAnyStatus(i) == held[i]

Releasable(i) == held[i] /\ status[i] \in Terminal

(* ReleaseExpiredAmountHolds, over the rows whose hold has run out.        *)
Release ==
    /\ overdue = {}
    /\ \E lapsed \in (SUBSET {i \in Invoices : Releasable(i)}) \ {{}} :
         held' = [i \in Invoices |-> held[i] /\ i \notin lapsed]
    /\ UNCHANGED <<chainVars, status, amount, paymentVars, filed, outbox, job, overdue>>

-----------------------------------------------------------------------------
(* The watcher: one transfer at a time, one round trip per step.           *)

Notify(i, e) ==
    outbox' = IF WebhooksEnabled THEN [outbox EXCEPT ![i] = Append(@, e)] ELSE outbox

(* Faulty: the update does not compare.                                    *)
TransitionUnguarded(i, expected, next, e) ==
    /\ status' = [status EXCEPT ![i] = next]
    /\ Notify(i, e)

(* UpdateInvoiceStatus: a compare-and-set, and the event beside it.        *)
TransitionInvoice(i, expected, next, e) ==
    /\ status[i] = expected
    /\ status' = [status EXCEPT ![i] = next]
    /\ Notify(i, e)

(* A transfer in the fetched logs, with the verdict on its finality that   *)
(* was fetched before them.                                                *)
Observe(t, final) ==
    /\ job = Idle
    /\ chain[t] # "absent"
    /\ final => chain[t] = "final"
    /\ job' = [step |-> "lookup", transfer |-> t, block |-> block[t], final |-> final]
    /\ UNCHANGED <<chainVars, invoiceVars, paymentVars, filed, outbox, overdue>>

SettleJob(t) == [step |-> "settle", transfer |-> t]

(* Faulty: every transfer is new, whatever is on record about it.          *)
LookupForgets ==
    /\ job.step = "lookup"
    /\ job' = [job EXCEPT !.step = "find"]
    /\ UNCHANGED <<chainVars, invoiceVars, paymentVars, filed, outbox, overdue>>

(* Faulty: a payment on record is settled whether or not it is final.      *)
LookupSettlesEarly ==
    /\ job.step = "lookup"
    /\ job' = IF row[job.transfer] # "live" THEN [job EXCEPT !.step = "find"]
              ELSE SettleJob(job.transfer)
    /\ UNCHANGED <<chainVars, invoiceVars, paymentVars, filed, outbox, overdue>>

(* Apply reads the transfer's payment.  A live one is re-applied, that is  *)
(* settled if final; a removed or missing one is treated as new.           *)
Lookup ==
    /\ job.step = "lookup"
    /\ job' = IF row[job.transfer] # "live" THEN [job EXCEPT !.step = "find"]
              ELSE IF job.final THEN SettleJob(job.transfer)
              ELSE Idle
    /\ UNCHANGED <<chainVars, invoiceVars, paymentVars, filed, outbox, overdue>>

(* FindHeldInvoiceForAmount: of the held invoices whose window covers v,   *)
(* the newest.                                                             *)
Claimants(v) == {i \in Invoices : held[i] /\ Covers(amount[i], v)}
IsNewest(i, S) == \A j \in S : j <= i

File(t, reason) == [step |-> "file", transfer |-> t, reason |-> reason]
CreditJob(i) == [step |-> "credit", transfer |-> job.transfer, block |-> job.block,
                 final |-> job.final, invoice |-> i, seen |-> status[i]]

Attribute(t) ==
    \/ /\ Claimants(Value[t]) = {}
       /\ job' = File(t, "no_matching_invoice")
    \/ \E i \in Claimants(Value[t]) :
         /\ IsNewest(i, Claimants(Value[t]))
         /\ job' = IF status[i] \in Terminal THEN File(t, "invoice_terminal")
                   ELSE CreditJob(i)

(* Apply resolves the asset, then the invoice by amount.                   *)
Find ==
    /\ job.step = "find"
    /\ IF job.transfer \in Foreign
       THEN job' = File(job.transfer, "unknown_asset")
       ELSE Attribute(job.transfer)
    /\ UNCHANGED <<chainVars, invoiceVars, paymentVars, filed, outbox, overdue>>

RecordOrphan ==
    /\ job.step = "file"
    /\ filed' = [filed EXCEPT ![job.transfer] = IF @ = "none" THEN job.reason ELSE @]
    /\ job' = Idle
    /\ UNCHANGED <<chainVars, invoiceVars, paymentVars, outbox, overdue>>

(* ON CONFLICT DO NOTHING: a row that exists, live or removed, stays, and  *)
(* so does the block it names.                                             *)
RecordPayment(t, b, i) ==
    IF row[t] = "none"
    THEN /\ row' = [row EXCEPT ![t] = "live"]
         /\ payee' = [payee EXCEPT ![t] = i]
         /\ recorded' = [recorded EXCEPT ![t] = b]
    ELSE UNCHANGED paymentVars

(* Faulty: the partial unique index is missing.                            *)
LiveKeyMissing(t, i) == TRUE

(* cp_payments_live_invoice_key: one live payment per invoice.             *)
LiveKeyFree(t, i) ==
    row[t] # "none" \/ \A u \in Transfers : ~(row[u] = "live" /\ payee[u] = i)

Target == IF job.final THEN "confirmed" ELSE "detected"

(* credit(), when the payment is recorded and the compare-and-set wins.    *)
Credit ==
    /\ job.step = "credit"
    /\ LiveKeyFree(job.transfer, job.invoice)
    /\ RecordPayment(job.transfer, job.block, job.invoice)
    /\ CanTransitionTo(job.seen, Target)
    /\ TransitionInvoice(job.invoice, job.seen, Target, Target)
    /\ job' = Idle
    /\ UNCHANGED <<chainVars, amount, held, filed, overdue>>

(* credit(), when the invoice needs no move or has moved since it was      *)
(* read: the payment stands, the status and the outbox are left alone.     *)
CreditStands ==
    /\ job.step = "credit"
    /\ LiveKeyFree(job.transfer, job.invoice)
    /\ RecordPayment(job.transfer, job.block, job.invoice)
    /\ ~CanTransitionTo(job.seen, Target) \/ status[job.invoice] # job.seen
    /\ job' = Idle
    /\ UNCHANGED <<chainVars, invoiceVars, filed, outbox, overdue>>

(* credit() rolls back on cp_payments_live_invoice_key, or any statement   *)
(* of any handler fails, or the process restarts.                          *)
Abort ==
    /\ job # Idle
    /\ job' = Idle
    /\ UNCHANGED <<chainVars, invoiceVars, paymentVars, filed, outbox, overdue>>

(* Does the block on record look final?  It does when its transfer is, and *)
(* may at any time when the transfer is no longer in it.                   *)
RecordedFinal(t) == chain[t] = "final" \/ recorded[t] # block[t]

(* The settle pass lists the live payments of detected invoices and takes  *)
(* up those whose recorded block is at or below the finality line.         *)
ListAwaiting(t) ==
    /\ job = Idle
    /\ row[t] = "live"
    /\ status[payee[t]] = "detected"
    /\ RecordedFinal(t)
    /\ job' = SettleJob(t)
    /\ UNCHANGED <<chainVars, invoiceVars, paymentVars, filed, outbox, overdue>>

(* Settle re-reads the invoice inside its transaction.                     *)
Settle ==
    LET i == payee[job.transfer] IN
    /\ job.step = "settle"
    /\ IF CanTransitionTo(status[i], "confirmed")
       THEN TransitionInvoice(i, status[i], "confirmed", "confirmed")
       ELSE UNCHANGED <<status, outbox>>
    /\ job' = Idle
    /\ UNCHANGED <<chainVars, amount, held, paymentVars, filed, overdue>>

(* A live payment of a detected invoice whose transfer is missing from the *)
(* logs of its recorded block: it was un-mined, or is in another chunk     *)
(* now, or its asset has been disabled, or the endpoint lags behind.       *)
ObserveMissing(t) ==
    /\ job = Idle
    /\ row[t] = "live"
    /\ status[payee[t]] = "detected"
    /\ job' = [step |-> "revoke", transfer |-> t]
    /\ UNCHANGED <<chainVars, invoiceVars, paymentVars, filed, outbox, overdue>>

(* A log flagged `removed`, whatever the invoice's status.                 *)
ObserveRemoved(t) ==
    /\ job = Idle
    /\ chain[t] = "absent"
    /\ row[t] = "live"
    /\ job' = [step |-> "revoke", transfer |-> t]
    /\ UNCHANGED <<chainVars, invoiceVars, paymentVars, filed, outbox, overdue>>

(* Faulty: the merchant is not told that the payment is gone.              *)
RevokeSilently ==
    LET i == payee[job.transfer] IN
    /\ job.step = "revoke"
    /\ row' = [row EXCEPT ![job.transfer] = "removed"]
    /\ UNCHANGED <<payee, recorded>>
    /\ status' = [status EXCEPT ![i] = IF @ = "detected" THEN "pending" ELSE @]
    /\ job' = Idle
    /\ UNCHANGED <<chainVars, amount, held, filed, outbox, overdue>>

(* Revoke withdraws the payment; only a detected invoice becomes payable.  *)
Revoke ==
    LET i == payee[job.transfer] IN
    /\ job.step = "revoke"
    /\ row' = [row EXCEPT ![job.transfer] = "removed"]
    /\ UNCHANGED <<payee, recorded>>
    /\ IF status[i] = "detected"
       THEN TransitionInvoice(i, "detected", "pending", "reverted")
       ELSE UNCHANGED <<status, outbox>>
    /\ job' = Idle
    /\ UNCHANGED <<chainVars, amount, held, filed, overdue>>

-----------------------------------------------------------------------------
Chain    == \E t \in Transfers : Mine(t) \/ Reorg(t) \/ Finalise(t)
Merchant == \E i \in Invoices : Cancel(i) \/ \E b \in BaseAmounts : Create(i, b)
Expirer  == ExpireSelect \/ ExpireUpdate \/ ExpireAbort \/ Release
Watcher  ==
    \/ \E t \in Transfers :
         \/ \E final \in BOOLEAN : Observe(t, final)
         \/ ListAwaiting(t)
         \/ ObserveMissing(t)
         \/ ObserveRemoved(t)
    \/ Lookup \/ Find \/ RecordOrphan
    \/ Credit \/ CreditStands \/ Settle \/ Revoke \/ Abort

Next == Chain \/ Merchant \/ Expirer \/ Watcher

Spec == Init /\ [][Next]_vars

-----------------------------------------------------------------------------
(* What the engine guarantees.                                             *)

(* While an invoice can still be paid its amount is reserved: neither a    *)
(* hold release, nor a reorg that makes it payable again, nor anything     *)
(* that runs meanwhile, leaves it open to a second invoice's payer.        *)
PayableIsHeld == \A i \in Invoices : status[i] \in Payable => held[i]

(* What was enqueued last tells the merchant where the invoice stands,     *)
(* unless the expirer ended it, which enqueues nothing (enqueue() shares   *)
(* the transaction of the status change it reports).                       *)
LastEvent(i) == IF outbox[i] = <<>> THEN "nothing" ELSE outbox[i][Len(outbox[i])]

OutboxTruthful ==
    WebhooksEnabled => \A i \in Invoices :
        /\ status[i] \in {"detected", "confirmed"} => LastEvent(i) = status[i]
        /\ status[i] \in {"pending", "cancelled"} => LastEvent(i) \in {"nothing", "reverted"}

(* However often a transfer is re-read, settled or reorganised, and        *)
(* whoever else moves its invoice, the events form one coherent story:     *)
(* "confirmed" comes at most once and last, "reverted" only right after    *)
(* "detected", and "detected" only first or after "reverted".              *)
EventsCoherent ==
    \A i \in Invoices : \A k \in 1..Len(outbox[i]) :
        /\ k < Len(outbox[i]) => outbox[i][k] # "confirmed"
        /\ outbox[i][k] = "reverted" => k > 1 /\ outbox[i][k-1] = "detected"
        /\ outbox[i][k] = "detected" => k = 1 \/ outbox[i][k-1] = "reverted"

(* A detected invoice is backed by a recorded transfer in its window, a    *)
(* confirmed one by a transfer whose recorded block is past the finality   *)
(* line: no verdict, however stale, runs ahead of the record.              *)
Backs(t, i) == row[t] # "none" /\ t \notin Foreign /\ Covers(amount[i], Value[t])

PaidIsBacked ==
    \A i \in Invoices :
        /\ status[i] = "detected" => \E t \in Transfers : Backs(t, i)
        /\ status[i] = "confirmed" =>
              \E t \in Transfers : Backs(t, i) /\ RecordedFinal(t)

(* An invoice has at most one live payment, and while it still owes money  *)
(* it has none: a payment and the status change it causes commit together, *)
(* and so do a withdrawal and the return to pending.                       *)
LivePaymentsMatch ==
    /\ \A t, u \in Transfers :
          row[t] = "live" /\ row[u] = "live" /\ payee[t] = payee[u] => t = u
    /\ \A t \in Transfers : row[t] = "live" => status[payee[t]] # "pending"

(* A transfer whose payment stands is never filed as well, however often   *)
(* it is re-read and whatever ended its invoice between the reads of one   *)
(* pass: no "duplicate record of money already credited", which somebody   *)
(* would refund by hand (matching.go:152-157).                             *)
LiveNotFiled ==
    [][\A t \in Transfers : row[t] = "live" => filed'[t] = filed[t]]_vars

(* A transfer of exactly an invoice's amount, found while that amount is   *)
(* reserved, is not put down to a different invoice: "pay_amount + step    *)
(* is, by construction, some other invoice's amount" (invoice.go:165).     *)
ExactPaymentNotPoached ==
    [][job.step = "find" /\ job'.step = "credit" =>
        \A i \in Invoices :
            held[i] /\ amount[i] = Value[job.transfer] => i = job'.invoice]_vars

(* The inductive invariant behind all of these.  Beside the above it says  *)
(* what an invoice that does not exist yet is like, what is on record      *)
(* about a payment, and what still holds of the reads a job carries: the   *)
(* watcher is the only one to move an invoice to detected or confirmed, so *)
(* a credit that lost its race finds the invoice ended and never pending.  *)
Unborn ==
    \A i \in Invoices :
        /\ status[i] = "none" => ~held[i] /\ outbox[i] = <<>> /\ i \notin overdue
        /\ ~WebhooksEnabled => outbox[i] = <<>>

RowsKnown ==
    \A t \in Transfers : row[t] # "none" =>
        /\ payee[t] \in Invoices
        /\ status[payee[t]] # "none"
        /\ Backs(t, payee[t])
        /\ recorded[t] <= block[t]

JobCurrent ==
    /\ job.step \in {"lookup", "find", "credit"} =>
          /\ job.block <= block[job.transfer]
          /\ job.final => chain[job.transfer] = "final"
    /\ job.step \in {"find", "file"} => row[job.transfer] # "live"
    /\ job.step = "settle" => row[job.transfer] = "live" /\ RecordedFinal(job.transfer)
    /\ job.step = "revoke" => row[job.transfer] = "live"
    /\ job.step = "credit" =>
          /\ row[job.transfer] # "live"
          /\ job.transfer \notin Foreign
          /\ Covers(amount[job.invoice], Value[job.transfer])
          /\ \/ status[job.invoice] = job.seen
             \/ status[job.invoice] = "expired"
             \/ status[job.invoice] = "cancelled" /\ job.seen = "pending"

(* No two invoices reserve one amount: what Create leaves, and the others  *)
(* rely on.                                                                *)
AmountsExclusive ==
    \A i, j \in Invoices : held[i] /\ held[j] /\ amount[i] = amount[j] => i = j

Money ==
    /\ AmountsExclusive
    /\ PayableIsHeld
    /\ PaidIsBacked
    /\ LivePaymentsMatch

IInv ==
    /\ TypeOK
    /\ Unborn
    /\ RowsKnown
    /\ JobCurrent
    /\ Money
    /\ OutboxTruthful
    /\ EventsCoherent

(* The service keeps the promises of the invoice lifecycle.                *)
Lifecycle == INSTANCE InvoiceLifecycle
    WITH MaxInvoices <- MaxInvoices, WebhooksEnabled <- WebhooksEnabled,
         status <- status, held <- held, outbox <- outbox
LifecycleSpec == Lifecycle!Spec

-----------------------------------------------------------------------------
(* What documents and comments say and the code does not do.               *)

(* queries/invoice.sql:114: "Only pending invoices expire. An invoice in   *)
(* detected has money on chain, and the clock must not void it."           *)
ClockNeverVoidsMoney ==
    [][\A i \in Invoices : status[i] = "detected" => status'[i] # "expired"]_vars

(* queries/invoice.sql:84: "Once a transfer has been seen the money is     *)
(* real, and cancelling would strand it": a live payment's invoice is      *)
(* not a cancelled one.                                                    *)
NoPaymentStranded ==
    \A t \in Transfers : row[t] = "live" => status[payee[t]] # "cancelled"

(* matching.go:152-157: a transfer already credited, re-read after its     *)
(* invoice ended, is not "filed as an orphan - a duplicate record of money *)
(* already credited".  Stated for the only transfer that can have paid.    *)
CreditedNotFiled ==
    \A t \in Transfers :
        row[t] # "none" /\ status[payee[t]] = "confirmed"
        /\ (\A u \in Transfers : Backs(u, payee[t]) => u = t)
        => filed[t] # "invoice_terminal"

(* README.md:214: invoice.confirmed is sent when "the transfer reached     *)
(* `confirmations` / finality": a confirmed invoice has a backing transfer *)
(* that is final on chain, not one un-mined since it was recorded.         *)
ConfirmedIsFinal ==
    \A i \in Invoices : status[i] = "confirmed" =>
        \E t \in Transfers : Backs(t, i) /\ chain[t] = "final"

(* queries/payment.sql:25: the settle pass "is the reason a payment seen   *)
(* before it was final still reaches `confirmed`": a detected invoice has  *)
(* a live payment for that pass, and for the reorg check, to find.         *)
DetectedIsWatched ==
    \A i \in Invoices : status[i] = "detected" =>
        \E t \in Transfers : row[t] = "live" /\ payee[t] = i

(* matching.go:429-433: an orphan is "a transfer that could not be         *)
(* credited", left to be refunded or credited by hand: the engine does not *)
(* credit it later on its own.                                             *)
FiledStaysUncredited ==
    [][\A t \in Transfers : filed[t] # "none" /\ row[t] = "none" => row'[t] = "none"]_vars
=============================================================================
