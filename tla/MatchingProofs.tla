--------------------------- MODULE MatchingProofs ---------------------------
(***************************************************************************)
(* Proofs about Matching, for every set of transfers, every amounts and    *)
(* any number of invoices and reorgs.                                      *)
(***************************************************************************)
EXTENDS Matching, TLAPS

(* What the step of a job says about its other fields.                     *)
LEMMA JobShape ==
    ASSUME job \in Jobs
    PROVE  /\ job.step \in {"lookup", "find", "credit"} =>
                /\ job.transfer \in Transfers
                /\ job.block \in Blocks
                /\ job.final \in BOOLEAN
           /\ job.step = "credit" =>
                /\ job.invoice \in Invoices
                /\ job.seen \in Payable
           /\ job.step = "file" => job.transfer \in Transfers /\ job.reason \in Reasons
           /\ job.step \in {"settle", "revoke"} => job.transfer \in Transfers
  BY DEF Jobs, Idle

(* Moving a looked-up transfer to its next step keeps the rest of the job. *)
LEMMA JobStep ==
    ASSUME job \in Jobs, job.step = "lookup"
    PROVE  [job EXCEPT !.step = "find"]
             = [step |-> "find", transfer |-> job.transfer, block |-> job.block,
                final |-> job.final]
  BY DEF Jobs, Idle

(* Appending an event: what the new list is, entry by entry.               *)
LEMMA AppendEvent ==
    ASSUME NEW s \in Seq(Events), NEW e \in Events
    PROVE  /\ Append(s, e) \in Seq(Events)
           /\ Append(s, e) # <<>>
           /\ Len(s) \in Nat
           /\ Len(Append(s, e)) = Len(s) + 1
           /\ Append(s, e)[Len(s) + 1] = e
           /\ \A k \in 1..Len(s) : Append(s, e)[k] = s[k]
  OBVIOUS

LEMMA InitIInv == Init => IInv
  <1> SUFFICES ASSUME Init PROVE IInv
    OBVIOUS
  <1>1. TypeOK
    <2>1. job \in Jobs
      BY DEF Init, Jobs
    <2> QED
      BY <2>1 DEF Init, TypeOK, Blocks
  <1>2. Unborn /\ RowsKnown /\ JobCurrent
    BY DEF Init, Unborn, RowsKnown, JobCurrent, Idle, RecordedFinal
  <1>3. Money
    BY DEF Init, Money, AmountsExclusive, PayableIsHeld, PaidIsBacked, LivePaymentsMatch, Payable
  <1>4. OutboxTruthful /\ EventsCoherent
    BY DEF Init, OutboxTruthful, EventsCoherent
  <1> QED
    BY <1>1, <1>2, <1>3, <1>4 DEF IInv

-----------------------------------------------------------------------------
(* The chain.  A final transfer stays final, and nothing else depends on   *)
(* where a transfer stands.                                                *)
LEMMA ChainStep ==
    ASSUME IInv, Chain PROVE IInv'
  <1>1. PICK t \in Transfers : Mine(t) \/ Reorg(t) \/ Finalise(t)
    BY DEF Chain
  <1>2. UNCHANGED <<invoiceVars, paymentVars, filed, outbox, job, overdue>>
    BY <1>1 DEF Mine, Reorg, Finalise
  <1>3. \A u \in Transfers :
            /\ chain[u] = "final" => chain'[u] = "final"
            /\ recorded[u] \in Nat /\ block[u] \in Nat /\ block'[u] \in Nat
            /\ block'[u] = block[u] \/ block'[u] = block[u] + 1
    BY <1>1 DEF Mine, Reorg, Finalise, IInv, TypeOK, Blocks
  <1>4. TypeOK'
    <2>1. chain' \in [Transfers -> {"absent", "shallow", "final"}]
      BY <1>1 DEF Mine, Reorg, Finalise, IInv, TypeOK
    <2>2. block' \in [Transfers -> Blocks]
      <3>1. block \in [Transfers -> Nat] /\ block[t] + 1 \in Nat
        BY DEF IInv, TypeOK, Blocks
      <3>2. block' = block \/ block' = [block EXCEPT ![t] = block[t] + 1]
        BY <1>1 DEF Mine, Reorg, Finalise
      <3> QED
        BY <3>1, <3>2 DEF Blocks
    <2> QED
      BY <1>2, <2>1, <2>2 DEF IInv, TypeOK, invoiceVars, paymentVars
  <1>5. Unborn' /\ RowsKnown'
    BY <1>2, <1>3 DEF IInv, Unborn, RowsKnown, Backs, paymentVars, chainVars, invoiceVars
  <1>6. \A u \in Transfers : row[u] # "none" /\ RecordedFinal(u) => RecordedFinal(u)'
    BY <1>2, <1>3 DEF RecordedFinal, IInv, RowsKnown, paymentVars
  <1>7. JobCurrent'
    <2>1. ASSUME job.step \in {"lookup", "find", "credit"}
          PROVE  job.block <= block'[job.transfer]
      <3>1. /\ job.transfer \in Transfers /\ job.block \in Nat
            /\ job.block <= block[job.transfer]
        BY <2>1, JobShape DEF IInv, TypeOK, JobCurrent, Blocks
      <3> QED
        BY <1>3, <3>1
    <2>2. ASSUME job.step = "settle"
          PROVE  \A u \in Transfers : u = job.transfer => RecordedFinal(u)'
      BY <1>6, <2>2 DEF IInv, JobCurrent, RecordedFinal, paymentVars
    <2>3. job.step = "settle" => RecordedFinal(job.transfer)'
      BY <1>2, <2>2, JobShape DEF RecordedFinal, IInv, TypeOK, paymentVars
    <2> QED
      BY <1>2, <1>3, <2>1, <2>3, JobShape DEF IInv, TypeOK, JobCurrent, invoiceVars, paymentVars, RecordedFinal
  <1>8. Money'
    BY <1>2, <1>6 DEF IInv, Money, AmountsExclusive, PayableIsHeld, PaidIsBacked,
                      LivePaymentsMatch, Backs, RecordedFinal, paymentVars, invoiceVars
  <1>9. OutboxTruthful' /\ EventsCoherent'
    BY <1>2 DEF IInv, OutboxTruthful, EventsCoherent, LastEvent, invoiceVars, paymentVars
  <1> QED
    BY <1>4, <1>5, <1>7, <1>8, <1>9 DEF IInv

-----------------------------------------------------------------------------
(* What was paid stays backed while neither the chain nor the payments     *)
(* change and no invoice becomes paid.                                     *)
LEMMA PaidKept ==
    ASSUME IInv, UNCHANGED chainVars, UNCHANGED paymentVars,
           \A j \in Invoices : status'[j] \in {"detected", "confirmed"} =>
               status'[j] = status[j] /\ amount'[j] = amount[j]
    PROVE  PaidIsBacked'
  <1>1. \A t \in Transfers : RecordedFinal(t)' <=> RecordedFinal(t)
    BY DEF RecordedFinal, chainVars, paymentVars
  <1>2. \A t \in Transfers, j \in Invoices :
            amount'[j] = amount[j] /\ Backs(t, j) => Backs(t, j)'
    BY DEF Backs, paymentVars
  <1> QED
    BY <1>1, <1>2 DEF IInv, Money, PaidIsBacked

(* The merchant.                                                           *)

LEMMA CreateStep ==
    ASSUME IInv, NEW i \in Invoices, NEW base \in BaseAmounts, Create(i, base)
    PROVE  IInv'
  <1>1. PICK n \in FreeNonces(base) : amount' = [amount EXCEPT ![i] = base + n * Step]
    BY DEF Create
  <1>2. /\ status[i] = "none"
        /\ status' = [status EXCEPT ![i] = "pending"]
        /\ held' = [held EXCEPT ![i] = TRUE]
        /\ UNCHANGED <<chainVars, paymentVars, filed, outbox, job, overdue>>
    BY DEF Create
  <1>3. /\ \A j \in Invoices : held[j] => amount[j] # base + n * Step
        /\ base + n * Step \in PayAmounts
    BY <1>1 DEF FreeNonces, PayAmounts
  <1>4. TypeOK'
    BY <1>1, <1>2, <1>3 DEF IInv, TypeOK, chainVars, Status, Payable, paymentVars
  <1>5. \A j \in Invoices : j # i =>
            status'[j] = status[j] /\ amount'[j] = amount[j] /\ held'[j] = held[j]
    BY <1>1, <1>2 DEF IInv, TypeOK
  <1>6. status'[i] = "pending" /\ held'[i] /\ amount'[i] = base + n * Step
        /\ ~held[i] /\ outbox[i] = <<>> /\ i \notin overdue
    BY <1>1, <1>2 DEF IInv, TypeOK, Unborn
  <1>7. \A t \in Transfers : row[t] # "none" => payee[t] # i
    BY <1>2 DEF IInv, RowsKnown
  <1>8. Unborn'
    BY <1>2, <1>5, <1>6 DEF IInv, Unborn
  <1>9. RowsKnown'
    BY <1>2, <1>5, <1>7 DEF IInv, RowsKnown, Backs, paymentVars, chainVars
  <1>10. JobCurrent'
    BY <1>2, <1>5, JobShape DEF IInv, TypeOK, JobCurrent, chainVars, Payable, paymentVars, RecordedFinal
  <1>11. AmountsExclusive'
    BY <1>3, <1>5, <1>6 DEF IInv, Money, AmountsExclusive
  <1>12. PayableIsHeld'
    BY <1>5, <1>6 DEF IInv, Money, PayableIsHeld
  <1>13. PaidIsBacked'
    BY <1>2, <1>5, <1>6, PaidKept
  <1>14. LivePaymentsMatch'
    BY <1>2, <1>5, <1>7 DEF IInv, Money, LivePaymentsMatch, RowsKnown, paymentVars
  <1>15. OutboxTruthful' /\ EventsCoherent'
    BY <1>2, <1>5, <1>6 DEF IInv, OutboxTruthful, EventsCoherent, LastEvent
  <1> QED
    BY <1>4, <1>8, <1>9, <1>10, <1>11, <1>12, <1>13, <1>14, <1>15 DEF IInv, Money

LEMMA CancelStep ==
    ASSUME IInv, NEW i \in Invoices, Cancel(i) PROVE IInv'
  <1>1. /\ status[i] = "pending"
        /\ status' = [status EXCEPT ![i] = "cancelled"]
        /\ UNCHANGED <<chainVars, amount, held, paymentVars, filed, outbox, job, overdue>>
    BY DEF Cancel
  <1>2. status'[i] = "cancelled" /\ \A j \in Invoices : j # i => status'[j] = status[j]
    BY <1>1 DEF IInv, TypeOK
  <1>3. TypeOK'
    BY <1>1 DEF IInv, TypeOK, chainVars, Status, Terminal, paymentVars
  <1>4. Unborn' /\ RowsKnown'
    BY <1>1, <1>2 DEF IInv, Unborn, RowsKnown, Backs, paymentVars, chainVars
  <1>5. JobCurrent'
    BY <1>1, <1>2, JobShape DEF IInv, TypeOK, JobCurrent, chainVars, Payable, paymentVars, RecordedFinal
  <1>6. AmountsExclusive' /\ PayableIsHeld'
    BY <1>1, <1>2 DEF IInv, Money, AmountsExclusive, PayableIsHeld, Payable
  <1>7. PaidIsBacked'
    BY <1>1, <1>2, PaidKept
  <1>8. LivePaymentsMatch'
    BY <1>1, <1>2 DEF IInv, Money, LivePaymentsMatch, RowsKnown, paymentVars
  <1>9. OutboxTruthful' /\ EventsCoherent'
    BY <1>1, <1>2 DEF IInv, OutboxTruthful, EventsCoherent, LastEvent
  <1> QED
    BY <1>3, <1>4, <1>5, <1>6, <1>7, <1>8, <1>9 DEF IInv, Money

LEMMA MerchantStep ==
    ASSUME IInv, Merchant PROVE IInv'
  BY CreateStep, CancelStep DEF Merchant

-----------------------------------------------------------------------------
(* The expirer.  An invoice in its snapshot has been created, which is all *)
(* that the late update may rely on.                                       *)

LEMMA ExpireSnapshotStep ==
    ASSUME IInv, ExpireSelect \/ ExpireAbort PROVE IInv'
  <1>1. UNCHANGED <<chainVars, invoiceVars, paymentVars, filed, outbox, job>>
    BY DEF ExpireSelect, ExpireAbort
  <1>2. overdue' \subseteq Invoices /\ \A i \in overdue' : status[i] = "pending"
    BY DEF ExpireSelect, ExpireAbort
  <1>3. TypeOK'
    BY <1>1, <1>2 DEF IInv, TypeOK, chainVars, invoiceVars, paymentVars
  <1>4. Unborn' /\ RowsKnown'
    BY <1>1, <1>2 DEF IInv, Unborn, RowsKnown, Backs, paymentVars, chainVars, invoiceVars
  <1>5. JobCurrent'
    BY <1>1 DEF IInv, JobCurrent, chainVars, invoiceVars, paymentVars, RecordedFinal
  <1>6. Money'
    BY <1>1 DEF IInv, Money, AmountsExclusive, PayableIsHeld, PaidIsBacked,
                LivePaymentsMatch, Backs, RecordedFinal, paymentVars, chainVars, invoiceVars
  <1>7. OutboxTruthful' /\ EventsCoherent'
    BY <1>1 DEF IInv, OutboxTruthful, EventsCoherent, LastEvent, invoiceVars, paymentVars
  <1> QED
    BY <1>3, <1>4, <1>5, <1>6, <1>7 DEF IInv

LEMMA ExpireUpdateStep ==
    ASSUME IInv, ExpireUpdate PROVE IInv'
  <1>1. /\ status' = [i \in Invoices |-> IF i \in overdue THEN "expired" ELSE status[i]]
        /\ overdue' = {}
        /\ UNCHANGED <<chainVars, amount, held, paymentVars, filed, outbox, job>>
    BY DEF ExpireUpdate
  <1>2. \A i \in Invoices : \/ status'[i] = status[i]
                            \/ status'[i] = "expired" /\ status[i] # "none"
    BY <1>1 DEF IInv, Unborn
  <1>3. TypeOK'
    BY <1>1 DEF IInv, TypeOK, chainVars, Status, Terminal, paymentVars
  <1>4. Unborn' /\ RowsKnown'
    BY <1>1, <1>2 DEF IInv, Unborn, RowsKnown, Backs, paymentVars, chainVars
  <1>5. JobCurrent'
    BY <1>1, <1>2, JobShape DEF IInv, TypeOK, JobCurrent, chainVars, paymentVars, RecordedFinal
  <1>6. AmountsExclusive' /\ PayableIsHeld'
    BY <1>1, <1>2 DEF IInv, Money, AmountsExclusive, PayableIsHeld, Payable
  <1>7. PaidIsBacked'
    BY <1>1, <1>2, PaidKept
  <1>8. LivePaymentsMatch'
    BY <1>1, <1>2 DEF IInv, Money, LivePaymentsMatch, RowsKnown, paymentVars
  <1>9. OutboxTruthful' /\ EventsCoherent'
    BY <1>1, <1>2 DEF IInv, OutboxTruthful, EventsCoherent, LastEvent
  <1> QED
    BY <1>3, <1>4, <1>5, <1>6, <1>7, <1>8, <1>9 DEF IInv, Money

LEMMA ReleaseStep ==
    ASSUME IInv, Release PROVE IInv'
  <1>1. UNCHANGED <<chainVars, status, amount, paymentVars, filed, outbox, job, overdue>>
    BY DEF Release
  <1>2. PICK lapsed \in SUBSET {i \in Invoices : Releasable(i)} :
            held' = [i \in Invoices |-> held[i] /\ i \notin lapsed]
    BY DEF Release
  <1>3. /\ held' \in [Invoices -> BOOLEAN]
        /\ \A i \in Invoices : held'[i] => held[i]
        /\ \A i \in Invoices : status[i] \in Payable /\ held[i] => held'[i]
    <2>1. \A i \in lapsed : status[i] \notin Payable
      BY <1>2 DEF Releasable, Payable, Terminal
    <2> QED
      BY <1>2, <2>1, Zenon
  <1>4. TypeOK'
    BY <1>1, <1>3 DEF IInv, TypeOK, chainVars, paymentVars
  <1>5. Unborn' /\ RowsKnown'
    BY <1>1, <1>3 DEF IInv, Unborn, RowsKnown, Backs, paymentVars, chainVars
  <1>6. JobCurrent'
    BY <1>1 DEF IInv, JobCurrent, chainVars, paymentVars, RecordedFinal
  <1>7. Money'
    BY <1>1, <1>3 DEF IInv, Money, AmountsExclusive, PayableIsHeld, PaidIsBacked,
                      LivePaymentsMatch, Backs, RecordedFinal, paymentVars, chainVars
  <1>8. OutboxTruthful' /\ EventsCoherent'
    BY <1>1 DEF IInv, OutboxTruthful, EventsCoherent, LastEvent
  <1> QED
    BY <1>4, <1>5, <1>6, <1>7, <1>8 DEF IInv

LEMMA ExpirerStep ==
    ASSUME IInv, Expirer PROVE IInv'
  BY ExpireSnapshotStep, ExpireUpdateStep, ReleaseStep DEF Expirer

-----------------------------------------------------------------------------
(* The watcher's reads.                                                    *)

LEMMA AttributeJob ==
    ASSUME IInv, NEW t \in Transfers, job.transfer = t, job.final \in BOOLEAN,
           Attribute(t)
    PROVE  \/ \E r \in Reasons : job' = File(t, r)
           \/ \E i \in Invoices :
                /\ job' = CreditJob(i)
                /\ status[i] \in Payable
                /\ Covers(amount[i], Value[t])
  <1>1. CASE Claimants(Value[t]) = {}
    BY <1>1 DEF Attribute, Reasons
  <1>2. ASSUME NEW i \in Claimants(Value[t]),
               job' = IF status[i] \in Terminal THEN File(t, "invoice_terminal")
                      ELSE CreditJob(i)
        PROVE  \/ job' = File(t, "invoice_terminal")
               \/ job' = CreditJob(i) /\ status[i] \in Payable
    <2>1. i \in Invoices /\ held[i]
      BY <1>2 DEF Claimants
    <2>2. status[i] \in Status
      BY <2>1 DEF IInv, TypeOK, Unborn
    <2> QED
      BY <1>2, <2>2 DEF Status
  <1> QED
    BY <1>1, <1>2 DEF Attribute, Claimants, Reasons

LEMMA FindJob ==
    ASSUME IInv, Find PROVE job' \in Jobs /\ JobCurrent'
  <1>1. /\ job.transfer \in Transfers /\ job.final \in BOOLEAN /\ job.block \in Blocks
        /\ UNCHANGED <<chainVars, invoiceVars, paymentVars, filed, outbox, overdue>>
    BY JobShape DEF Find, IInv, TypeOK
  <1>2. \/ \E r \in Reasons : job' = File(job.transfer, r)
        \/ \E i \in Invoices :
             /\ job' = CreditJob(i)
             /\ status[i] \in Payable
             /\ Covers(amount[i], Value[job.transfer])
             /\ job.transfer \notin Foreign
    BY <1>1, AttributeJob DEF Find, Reasons
  <1>3. ASSUME NEW r \in Reasons, job' = File(job.transfer, r)
        PROVE  job' \in Jobs /\ JobCurrent'
    <2>1. row[job.transfer] # "live"
      BY DEF Find, IInv, JobCurrent
    <2> QED
      BY <1>1, <1>3, <2>1 DEF File, Jobs, JobCurrent, RecordedFinal, paymentVars
  <1>4. ASSUME NEW i \in Invoices, job' = CreditJob(i), status[i] \in Payable,
               Covers(amount[i], Value[job.transfer]), job.transfer \notin Foreign
        PROVE  job' \in Jobs /\ JobCurrent'
    <2>1. job' \in Jobs
      BY <1>1, <1>4 DEF CreditJob, Jobs
    <2>2. /\ job.final => chain[job.transfer] = "final"
          /\ job.block <= block[job.transfer]
          /\ row[job.transfer] # "live"
      BY DEF Find, IInv, JobCurrent, RecordedFinal, paymentVars
    <2>3. JobCurrent'
      BY <1>1, <1>4, <2>2 DEF CreditJob, JobCurrent, chainVars, invoiceVars, paymentVars, RecordedFinal
    <2> QED
      BY <2>1, <2>3
  <1> QED
    BY <1>2, <1>3, <1>4

JobOnly ==
    \/ \E t \in Transfers, final \in BOOLEAN : Observe(t, final)
    \/ \E t \in Transfers : ListAwaiting(t) \/ ObserveMissing(t) \/ ObserveRemoved(t)
    \/ Lookup \/ Find \/ Abort

(* The steps that change nothing but what the watcher is doing.            *)
LEMMA JobOnlyStep ==
    ASSUME IInv, JobOnly PROVE IInv'
  <1>1. UNCHANGED <<chainVars, invoiceVars, paymentVars, filed, outbox, overdue>>
    BY DEF JobOnly, Observe, ListAwaiting, ObserveMissing, ObserveRemoved, Lookup, Find, Abort
  <1>2. job' \in Jobs /\ JobCurrent'
    <2>1. ASSUME NEW t \in Transfers, NEW final \in BOOLEAN, Observe(t, final)
          PROVE  job' \in Jobs /\ JobCurrent'
      BY <1>1, <2>1 DEF Observe, Jobs, JobCurrent, IInv, TypeOK, Blocks, chainVars, paymentVars, RecordedFinal
    <2>2. ASSUME NEW t \in Transfers, ListAwaiting(t) \/ ObserveMissing(t) \/ ObserveRemoved(t)
          PROVE  job' \in Jobs /\ JobCurrent'
      <3>1. CASE ListAwaiting(t)
        BY <1>1, <3>1 DEF ListAwaiting, SettleJob, Jobs, JobCurrent, chainVars, paymentVars, RecordedFinal
      <3>2. CASE ObserveMissing(t) \/ ObserveRemoved(t)
        BY <1>1, <3>2 DEF ObserveMissing, ObserveRemoved, Jobs, JobCurrent, RecordedFinal, paymentVars
      <3> QED
        BY <2>2, <3>1, <3>2
    <2>3. CASE Lookup
      <3>1. /\ job \in Jobs /\ job.transfer \in Transfers /\ job.final \in BOOLEAN
            /\ job.final => chain[job.transfer] = "final"
            /\ job.block \in Blocks /\ job.block <= block[job.transfer]
        BY <2>3, JobShape DEF Lookup, IInv, TypeOK, JobCurrent, RecordedFinal, paymentVars
      <3>2. CASE job' = Idle
        BY <3>2 DEF Jobs, JobCurrent, Idle, RecordedFinal
      <3>3. CASE job' = [job EXCEPT !.step = "find"] /\ row[job.transfer] # "live"
        <4>1. job' = [step |-> "find", transfer |-> job.transfer, block |-> job.block,
                      final |-> job.final]
          BY <2>3, <3>1, <3>3, JobStep DEF Lookup
        <4> QED
          BY <1>1, <3>1, <3>3, <4>1 DEF Jobs, JobCurrent, chainVars, paymentVars, RecordedFinal
      <3>4. CASE job' = SettleJob(job.transfer) /\ row[job.transfer] = "live" /\ job.final
        BY <1>1, <3>1, <3>4 DEF SettleJob, Jobs, JobCurrent, RecordedFinal, chainVars, paymentVars
      <3> QED
        BY <2>3, <3>2, <3>3, <3>4 DEF Lookup
    <2>4. CASE Find
      BY <2>4, FindJob
    <2>5. CASE Abort
      BY <2>5 DEF Abort, Jobs, JobCurrent, Idle, RecordedFinal
    <2> QED
      BY <2>1, <2>2, <2>3, <2>4, <2>5 DEF JobOnly
  <1>3. TypeOK'
    BY <1>1, <1>2 DEF IInv, TypeOK, chainVars, invoiceVars, paymentVars
  <1>4. Unborn' /\ RowsKnown'
    BY <1>1 DEF IInv, Unborn, RowsKnown, Backs, paymentVars, chainVars, invoiceVars
  <1>5. Money'
    BY <1>1 DEF IInv, Money, AmountsExclusive, PayableIsHeld, PaidIsBacked,
                LivePaymentsMatch, Backs, RecordedFinal, paymentVars, chainVars, invoiceVars
  <1>6. OutboxTruthful' /\ EventsCoherent'
    BY <1>1 DEF IInv, OutboxTruthful, EventsCoherent, LastEvent, invoiceVars, paymentVars
  <1> QED
    BY <1>2, <1>3, <1>4, <1>5, <1>6 DEF IInv

-----------------------------------------------------------------------------
(* The watcher's writes.                                                   *)

LEMMA RecordOrphanStep ==
    ASSUME IInv, RecordOrphan PROVE IInv'
  <1>1. /\ UNCHANGED <<chainVars, invoiceVars, paymentVars, outbox, overdue>>
        /\ job' = Idle
        /\ filed' = [filed EXCEPT ![job.transfer] = IF @ = "none" THEN job.reason ELSE @]
    BY DEF RecordOrphan
  <1>2. TypeOK'
    <2>1. filed' \in [Transfers -> Reasons \cup {"none"}]
      BY <1>1, JobShape DEF RecordOrphan, IInv, TypeOK
    <2> QED
      BY <1>1, <2>1 DEF IInv, TypeOK, Jobs, chainVars, invoiceVars, paymentVars
  <1>3. Unborn' /\ RowsKnown'
    BY <1>1 DEF IInv, Unborn, RowsKnown, Backs, paymentVars, chainVars, invoiceVars
  <1>4. JobCurrent'
    BY <1>1 DEF JobCurrent, Idle, RecordedFinal
  <1>5. Money'
    BY <1>1 DEF IInv, Money, AmountsExclusive, PayableIsHeld, PaidIsBacked,
                LivePaymentsMatch, Backs, RecordedFinal, paymentVars, chainVars, invoiceVars
  <1>6. OutboxTruthful' /\ EventsCoherent'
    BY <1>1 DEF IInv, OutboxTruthful, EventsCoherent, LastEvent, invoiceVars, paymentVars
  <1> QED
    BY <1>2, <1>3, <1>4, <1>5, <1>6 DEF IInv

(* A transition and its event: status, outbox and the events' coherence    *)
(* move together, for each of the four ways money moves an invoice.        *)
MoneyMoved(i, from, to, e) ==
    <<from, to, e>> \in
        {<<"pending", "detected", "detected">>, <<"pending", "confirmed", "confirmed">>,
         <<"detected", "confirmed", "confirmed">>, <<"detected", "pending", "reverted">>}
    /\ TransitionInvoice(i, from, to, e)

LEMMA MoneyMovedOutbox ==
    ASSUME IInv, NEW i \in Invoices, NEW from, NEW to, NEW e, MoneyMoved(i, from, to, e)
    PROVE  /\ status' = [status EXCEPT ![i] = to]
           /\ status[i] = from
           /\ status' \in [Invoices -> Status \cup {"none"}]
           /\ outbox' \in [Invoices -> Seq(Events)]
           /\ \A j \in Invoices : j # i => outbox'[j] = outbox[j]
           /\ ~WebhooksEnabled => outbox'[i] = <<>>
           /\ OutboxTruthful' /\ EventsCoherent'
  <1>1. /\ status[i] = from
        /\ status' = [status EXCEPT ![i] = to]
        /\ Notify(i, e)
        /\ e \in Events /\ to \in Payable \cup {"confirmed"} /\ to \in Status
    BY DEF MoneyMoved, TransitionInvoice, Events, Status, Terminal, Payable
  <1>2. status' \in [Invoices -> Status \cup {"none"}] /\ status'[i] = to
        /\ \A j \in Invoices : j # i => status'[j] = status[j]
    BY <1>1 DEF IInv, TypeOK
  <1>3. CASE ~WebhooksEnabled
    <2>1. outbox' = outbox
      BY <1>1, <1>3 DEF Notify
    <2> QED
      BY <1>1, <1>2, <1>3, <2>1 DEF IInv, TypeOK, Unborn, OutboxTruthful, EventsCoherent
  <1>4. CASE WebhooksEnabled
    <2> DEFINE s == outbox[i]
    <2>1. outbox' = [outbox EXCEPT ![i] = Append(s, e)] /\ s \in Seq(Events)
      BY <1>1, <1>4 DEF Notify, IInv, TypeOK
    <2>2. /\ outbox' \in [Invoices -> Seq(Events)]
          /\ outbox'[i] = Append(s, e)
          /\ \A j \in Invoices : j # i => outbox'[j] = outbox[j]
      BY <1>1, <2>1, AppendEvent DEF IInv, TypeOK
    <2>3. /\ from = "pending" => LastEvent(i) \in {"nothing", "reverted"}
          /\ from = "detected" => LastEvent(i) = "detected"
      BY <1>1, <1>4 DEF IInv, OutboxTruthful
    <2>4. OutboxTruthful'
      <3>1. (LastEvent(i))' = e
        BY <2>1, <2>2, AppendEvent, <1>1 DEF LastEvent
      <3>2. \A j \in Invoices : j # i => (LastEvent(j))' = LastEvent(j)
        BY <2>2 DEF LastEvent
      <3> QED
        BY <1>2, <3>1, <3>2 DEF MoneyMoved, IInv, OutboxTruthful
    <2>5. EventsCoherent'
      <3> SUFFICES ASSUME NEW j \in Invoices, NEW k \in 1..Len(outbox'[j])
                   PROVE  /\ k < Len(outbox'[j]) => outbox'[j][k] # "confirmed"
                          /\ outbox'[j][k] = "reverted" => k > 1 /\ outbox'[j][k-1] = "detected"
                          /\ outbox'[j][k] = "detected" => k = 1 \/ outbox'[j][k-1] = "reverted"
        BY DEF EventsCoherent
      <3>1. CASE j # i
        BY <2>2, <3>1 DEF IInv, EventsCoherent
      <3>2. CASE j = i /\ k \in 1..Len(s)
        <4>1. /\ Len(s) \in Nat
              /\ outbox'[i][k] = s[k]
              /\ k > 1 => outbox'[i][k-1] = s[k-1]
          BY <1>1, <2>1, <2>2, <3>2, AppendEvent
        <4>2. s[k] # "confirmed"
          <5>1. CASE k < Len(s)
            BY <3>2, <5>1 DEF IInv, EventsCoherent
          <5>2. CASE k = Len(s)
            BY <2>3, <3>2, <4>1, <5>2 DEF MoneyMoved, LastEvent
          <5> QED
            BY <3>2, <4>1, <5>1, <5>2
        <4> QED
          BY <3>2, <4>1, <4>2 DEF IInv, EventsCoherent
      <3>3. CASE j = i /\ k = Len(s) + 1
        <4>1. /\ Len(s) \in Nat
              /\ outbox'[i][k] = e
              /\ Len(outbox'[i]) = k
              /\ k > 1 => outbox'[i][k-1] = s[Len(s)] /\ LastEvent(i) = s[Len(s)]
              /\ k = 1 => LastEvent(i) = "nothing"
          BY <1>1, <2>1, <2>2, <3>3, AppendEvent DEF LastEvent
        <4>2. /\ e = "detected" => LastEvent(i) \in {"nothing", "reverted"}
              /\ e = "reverted" => LastEvent(i) = "detected"
          BY <2>3 DEF MoneyMoved
        <4>3. e = "reverted" => k > 1
          BY <3>3, <4>1, <4>2
        <4>4. e = "detected" /\ k > 1 => outbox'[i][k-1] = "reverted"
          <5> SUFFICES ASSUME e = "detected", k > 1 PROVE outbox'[i][k-1] = "reverted"
            OBVIOUS
          <5>1. LastEvent(i) # "nothing"
            BY <2>1, <4>1 DEF Events
          <5> QED
            BY <4>1, <4>2, <5>1
        <4>5. k = 1 \/ k > 1
          BY <3>3, <4>1
        <4> QED
          BY <3>3, <4>1, <4>2, <4>3, <4>4, <4>5
      <3> QED
        BY <1>1, <2>1, <2>2, <3>1, <3>2, <3>3, AppendEvent
    <2> QED
      BY <1>1, <1>2, <1>4, <2>2, <2>4, <2>5
  <1> QED
    BY <1>1, <1>2, <1>3, <1>4

(* RecordPayment on its own: rows only appear, and for this invoice.       *)
LEMMA RecordPaymentRows ==
    ASSUME IInv, NEW t \in Transfers, NEW i \in Invoices, row[t] # "live",
           NEW b \in Blocks, LiveKeyFree(t, i), RecordPayment(t, b, i)
    PROVE  /\ row' \in [Transfers -> {"none", "live", "removed"}]
           /\ payee' \in [Transfers -> Invoices \cup {NoInvoice}]
           /\ recorded' \in [Transfers -> Blocks]
           /\ row'[t] # "none"
           /\ \A u \in Transfers : u # t \/ row[u] # "none" =>
                 row'[u] = row[u] /\ payee'[u] = payee[u] /\ recorded'[u] = recorded[u]
           /\ row[t] = "none" =>
                 /\ row'[t] = "live" /\ payee'[t] = i /\ recorded'[t] = b
                 /\ \A u \in Transfers : ~(row[u] = "live" /\ payee[u] = i)
  <1>1. CASE row[t] # "none"
    BY <1>1 DEF RecordPayment, IInv, TypeOK, paymentVars
  <1>2. CASE row[t] = "none"
    <2>1. /\ row' = [row EXCEPT ![t] = "live"]
          /\ payee' = [payee EXCEPT ![t] = i]
          /\ recorded' = [recorded EXCEPT ![t] = b]
          /\ \A u \in Transfers : ~(row[u] = "live" /\ payee[u] = i)
      BY <1>2 DEF RecordPayment, LiveKeyFree
    <2>2. /\ row' \in [Transfers -> {"none", "live", "removed"}]
          /\ payee' \in [Transfers -> Invoices \cup {NoInvoice}]
          /\ recorded' \in [Transfers -> Blocks]
      BY <2>1 DEF IInv, TypeOK
    <2> QED
      BY <1>2, <2>1, <2>2 DEF IInv, TypeOK
  <1> QED
    BY <1>1, <1>2

LEMMA CreditStep ==
    ASSUME IInv, Credit PROVE IInv'
  <1>1. /\ job.transfer \in Transfers /\ job.invoice \in Invoices
        /\ job.seen \in Payable /\ job.final \in BOOLEAN /\ job.block \in Blocks
    BY JobShape DEF Credit, IInv, TypeOK
  <1>2. PICK t \in Transfers, i \in Invoices, b \in Blocks, seen \in Payable, target \in {"detected", "confirmed"} :
            /\ t = job.transfer /\ i = job.invoice /\ b = job.block
            /\ seen = job.seen /\ target = Target
    BY <1>1 DEF Target
  <1>3. /\ row[t] # "live" /\ t \notin Foreign /\ Covers(amount[i], Value[t])
        /\ b <= block[t]
        /\ target = "confirmed" => chain[t] = "final"
    BY <1>2 DEF Credit, IInv, JobCurrent, Target, RecordedFinal, paymentVars
  <1>4. /\ UNCHANGED <<chainVars, amount, held, filed, overdue>>
        /\ job' = Idle
    BY DEF Credit
  <1>5. MoneyMoved(i, seen, target, target)
    BY <1>2 DEF Credit, CanTransitionTo, invoiceTransitions, MoneyMoved, Payable
  <1>6. /\ status' = [status EXCEPT ![i] = target]
        /\ status[i] = seen
        /\ status' \in [Invoices -> Status \cup {"none"}]
        /\ outbox' \in [Invoices -> Seq(Events)]
        /\ \A j \in Invoices : j # i => outbox'[j] = outbox[j]
        /\ ~WebhooksEnabled => outbox'[i] = <<>>
        /\ OutboxTruthful' /\ EventsCoherent'
    BY <1>5, MoneyMovedOutbox
  <1>7. LiveKeyFree(t, i) /\ RecordPayment(t, b, i)
    BY <1>2 DEF Credit
  <1>8. /\ row' \in [Transfers -> {"none", "live", "removed"}]
        /\ payee' \in [Transfers -> Invoices \cup {NoInvoice}]
        /\ recorded' \in [Transfers -> Blocks]
        /\ row'[t] # "none"
        /\ \A u \in Transfers : u # t \/ row[u] # "none" =>
              row'[u] = row[u] /\ payee'[u] = payee[u] /\ recorded'[u] = recorded[u]
        /\ row[t] = "none" =>
              /\ row'[t] = "live" /\ payee'[t] = i /\ recorded'[t] = b
              /\ \A u \in Transfers : ~(row[u] = "live" /\ payee[u] = i)
    BY <1>3, <1>7, RecordPaymentRows
  <1>9. /\ status'[i] = target /\ \A j \in Invoices : j # i => status'[j] = status[j]
        /\ status[i] # "none"
    BY <1>6 DEF IInv, TypeOK, Payable
  <1>10. TypeOK'
    BY <1>4, <1>6, <1>8 DEF IInv, TypeOK, Jobs, chainVars, paymentVars
  <1>11. Unborn' /\ JobCurrent'
    BY <1>4, <1>6, <1>9 DEF IInv, Unborn, JobCurrent, Idle, RecordedFinal
  <1>12. /\ \A u \in Transfers, j \in Invoices :
              /\ Backs(u, j) => Backs(u, j)'
              /\ Backs(u, j) /\ RecordedFinal(u) => RecordedFinal(u)'
         /\ Backs(t, i)'
    BY <1>3, <1>4, <1>8 DEF Backs, RecordedFinal, chainVars, paymentVars
  <1>13. RowsKnown'
    BY <1>3, <1>4, <1>8, <1>9 DEF IInv, RowsKnown, Backs, paymentVars, chainVars
  <1>14. AmountsExclusive' /\ PayableIsHeld'
    BY <1>4, <1>6, <1>9 DEF IInv, Money, AmountsExclusive, PayableIsHeld
  <1>15. PaidIsBacked'
    <2> SUFFICES ASSUME NEW j \in Invoices
                 PROVE  /\ status'[j] = "detected" => \E u \in Transfers : Backs(u, j)'
                        /\ status'[j] = "confirmed" =>
                             \E u \in Transfers : Backs(u, j)' /\ RecordedFinal(u)'
      BY DEF PaidIsBacked
    <2>1. CASE j = i
      BY <1>3, <1>4, <1>9, <1>12, <2>1 DEF RecordedFinal, chainVars, paymentVars
    <2>2. CASE j # i
      BY <1>4, <1>9, <1>12, <2>2 DEF IInv, Money, PaidIsBacked, chainVars, paymentVars
    <2> QED
      BY <2>1, <2>2
  <1>16. LivePaymentsMatch'
    <2>1. ASSUME NEW u \in Transfers, NEW v \in Transfers, row'[u] = "live", row'[v] = "live",
                 payee'[u] = payee'[v]
          PROVE  u = v
      BY <1>3, <1>8, <2>1 DEF IInv, Money, LivePaymentsMatch
    <2>2. ASSUME NEW u \in Transfers, row'[u] = "live"
          PROVE  status'[payee'[u]] # "pending"
      <3>1. CASE payee'[u] = i
        BY <1>9, <3>1
      <3>2. CASE payee'[u] # i
        BY <1>8, <1>9, <2>2, <3>2 DEF IInv, Money, LivePaymentsMatch, RowsKnown
      <3> QED
        BY <3>1, <3>2
    <2> QED
      BY <2>1, <2>2 DEF LivePaymentsMatch
  <1> QED
    BY <1>6, <1>10, <1>11, <1>13, <1>14, <1>15, <1>16 DEF IInv, Money

(* The payment alone: its invoice was payable when it was read, and the    *)
(* watcher being the only one to move money, it has ended since or keeps   *)
(* the status it had, which is not pending.                                *)
LEMMA CreditStandsStep ==
    ASSUME IInv, CreditStands PROVE IInv'
  <1>1. /\ job.transfer \in Transfers /\ job.invoice \in Invoices
        /\ job.seen \in Payable /\ job.block \in Blocks
    BY JobShape DEF CreditStands, IInv, TypeOK
  <1>2. PICK t \in Transfers, i \in Invoices, b \in Blocks :
            t = job.transfer /\ i = job.invoice /\ b = job.block
    BY <1>1
  <1>3. /\ row[t] # "live" /\ t \notin Foreign /\ Covers(amount[i], Value[t])
        /\ status[i] \in {"detected", "expired", "cancelled"} /\ b <= block[t]
    <2>1. /\ row[t] # "live" /\ t \notin Foreign /\ Covers(amount[i], Value[t])
          /\ b <= block[t]
      BY <1>2 DEF CreditStands, IInv, JobCurrent, RecordedFinal, paymentVars
    <2>2. CASE status[i] # job.seen
      BY <1>2, <2>2 DEF CreditStands, IInv, JobCurrent, RecordedFinal, paymentVars
    <2>3. CASE status[i] = job.seen
      <3>1. ~CanTransitionTo(job.seen, Target)
        BY <1>2, <2>3 DEF CreditStands
      <3>2. job.seen # "pending"
        BY <3>1 DEF CanTransitionTo, invoiceTransitions, Target
      <3> QED
        BY <1>1, <2>1, <2>3, <3>2 DEF Payable
    <2> QED
      BY <2>1, <2>2, <2>3
  <1>4. UNCHANGED <<chainVars, invoiceVars, filed, outbox, overdue>> /\ job' = Idle
    BY DEF CreditStands
  <1>5. LiveKeyFree(t, i) /\ RecordPayment(t, b, i)
    BY <1>2 DEF CreditStands
  <1>6. /\ row' \in [Transfers -> {"none", "live", "removed"}]
        /\ payee' \in [Transfers -> Invoices \cup {NoInvoice}]
        /\ recorded' \in [Transfers -> Blocks]
        /\ row'[t] # "none"
        /\ \A u \in Transfers : u # t \/ row[u] # "none" =>
              row'[u] = row[u] /\ payee'[u] = payee[u] /\ recorded'[u] = recorded[u]
        /\ row[t] = "none" =>
              /\ row'[t] = "live" /\ payee'[t] = i /\ recorded'[t] = b
              /\ \A u \in Transfers : ~(row[u] = "live" /\ payee[u] = i)
    BY <1>3, <1>5, RecordPaymentRows
  <1>7. TypeOK'
    BY <1>4, <1>6 DEF IInv, TypeOK, Jobs, chainVars, invoiceVars, paymentVars
  <1>8. Unborn' /\ JobCurrent'
    BY <1>4 DEF IInv, Unborn, JobCurrent, Idle, invoiceVars, paymentVars, RecordedFinal
  <1>9. RowsKnown'
    BY <1>3, <1>4, <1>6 DEF IInv, RowsKnown, Backs, paymentVars, chainVars, invoiceVars
  <1>10. AmountsExclusive' /\ PayableIsHeld'
    BY <1>4 DEF IInv, Money, AmountsExclusive, PayableIsHeld, invoiceVars, paymentVars
  <1>11. PaidIsBacked'
    BY <1>4, <1>6 DEF IInv, Money, PaidIsBacked, Backs, RecordedFinal, paymentVars, chainVars, invoiceVars
  <1>12. LivePaymentsMatch'
    <2>1. ASSUME NEW u \in Transfers, NEW v \in Transfers, row'[u] = "live", row'[v] = "live",
                 payee'[u] = payee'[v]
          PROVE  u = v
      BY <1>3, <1>6, <2>1 DEF IInv, Money, LivePaymentsMatch
    <2>2. ASSUME NEW u \in Transfers, row'[u] = "live"
          PROVE  status'[payee'[u]] # "pending"
      BY <1>3, <1>4, <1>6, <2>2 DEF IInv, Money, LivePaymentsMatch, invoiceVars, paymentVars
    <2> QED
      BY <2>1, <2>2 DEF LivePaymentsMatch
  <1>13. OutboxTruthful' /\ EventsCoherent'
    BY <1>4 DEF IInv, OutboxTruthful, EventsCoherent, LastEvent, invoiceVars, paymentVars
  <1> QED
    BY <1>7, <1>8, <1>9, <1>10, <1>11, <1>12, <1>13 DEF IInv, Money

LEMMA SettleStep ==
    ASSUME IInv, Settle PROVE IInv'
  <1>1. /\ job.transfer \in Transfers /\ row[job.transfer] = "live"
        /\ RecordedFinal(job.transfer) /\ payee[job.transfer] \in Invoices
    BY JobShape DEF Settle, IInv, TypeOK, JobCurrent, RowsKnown, RecordedFinal, paymentVars
  <1>2. PICK t \in Transfers, i \in Invoices : t = job.transfer /\ i = payee[t]
    BY <1>1
  <1>3. /\ row[t] = "live" /\ RecordedFinal(t) /\ Backs(t, i)
        /\ status[i] \notin {"none", "pending"}
    BY <1>1, <1>2 DEF IInv, RowsKnown, Money, LivePaymentsMatch
  <1>4. UNCHANGED <<chainVars, amount, held, paymentVars, filed, overdue>> /\ job' = Idle
    BY DEF Settle
  <1>5. CASE status[i] # "detected"
    <2>1. UNCHANGED <<status, outbox>>
      BY <1>2, <1>3, <1>5 DEF Settle, CanTransitionTo, invoiceTransitions
    <2>2. TypeOK'
      BY <1>4, <2>1 DEF IInv, TypeOK, Jobs, chainVars, paymentVars
    <2>3. Unborn' /\ RowsKnown' /\ JobCurrent'
      BY <1>4, <2>1 DEF IInv, Unborn, RowsKnown, Backs, paymentVars, chainVars, JobCurrent, Idle, RecordedFinal
    <2>4. Money'
      BY <1>4, <2>1 DEF IInv, Money, AmountsExclusive, PayableIsHeld, PaidIsBacked,
                        LivePaymentsMatch, Backs, RecordedFinal, paymentVars, chainVars
    <2>5. OutboxTruthful' /\ EventsCoherent'
      BY <1>4, <2>1 DEF IInv, OutboxTruthful, EventsCoherent, LastEvent
    <2> QED
      BY <2>2, <2>3, <2>4, <2>5 DEF IInv
  <1>6. CASE status[i] = "detected"
    <2>1. MoneyMoved(i, "detected", "confirmed", "confirmed")
      BY <1>2, <1>6 DEF Settle, CanTransitionTo, invoiceTransitions, MoneyMoved
    <2>2. /\ status' = [status EXCEPT ![i] = "confirmed"]
          /\ status' \in [Invoices -> Status \cup {"none"}]
          /\ outbox' \in [Invoices -> Seq(Events)]
          /\ \A j \in Invoices : j # i => outbox'[j] = outbox[j]
          /\ ~WebhooksEnabled => outbox'[i] = <<>>
          /\ OutboxTruthful' /\ EventsCoherent'
      BY <2>1, MoneyMovedOutbox
    <2>3. status'[i] = "confirmed" /\ \A j \in Invoices : j # i => status'[j] = status[j]
      BY <2>2 DEF IInv, TypeOK
    <2>4. TypeOK'
      BY <1>4, <2>2 DEF IInv, TypeOK, Jobs, chainVars, paymentVars
    <2>5. Unborn' /\ JobCurrent'
      BY <1>4, <1>6, <2>2, <2>3 DEF IInv, Unborn, JobCurrent, Idle, RecordedFinal
    <2>6. RowsKnown'
      BY <1>4, <2>3 DEF IInv, RowsKnown, Backs, paymentVars, chainVars
    <2>7. AmountsExclusive' /\ PayableIsHeld'
      BY <1>4, <2>3 DEF IInv, Money, AmountsExclusive, PayableIsHeld, Payable
    <2>8. PaidIsBacked'
      <3>1. \A u \in Transfers : RecordedFinal(u) => RecordedFinal(u)'
        BY <1>4 DEF RecordedFinal, chainVars, paymentVars
      <3>2. \A u \in Transfers, j \in Invoices : Backs(u, j) => Backs(u, j)'
        BY <1>4 DEF Backs, paymentVars
      <3> QED
        BY <1>3, <2>3, <3>1, <3>2 DEF IInv, Money, PaidIsBacked
    <2>9. LivePaymentsMatch'
      BY <1>4, <2>3 DEF IInv, Money, LivePaymentsMatch, RowsKnown, paymentVars
    <2> QED
      BY <2>2, <2>4, <2>5, <2>6, <2>7, <2>8, <2>9 DEF IInv, Money
  <1> QED
    BY <1>5, <1>6

(* A withdrawal.  The invoice had no other live payment, so none is left   *)
(* behind when it returns to pending.                                      *)
LEMMA RevokeStep ==
    ASSUME IInv, Revoke PROVE IInv'
  <1>1. /\ job.transfer \in Transfers /\ row[job.transfer] = "live"
        /\ payee[job.transfer] \in Invoices
    BY JobShape DEF Revoke, IInv, TypeOK, JobCurrent, RowsKnown, RecordedFinal, paymentVars
  <1>2. PICK t \in Transfers, i \in Invoices : t = job.transfer /\ i = payee[t]
    BY <1>1
  <1>3. /\ UNCHANGED <<chainVars, amount, held, payee, recorded, filed, overdue>>
        /\ job' = Idle /\ row' = [row EXCEPT ![t] = "removed"]
    BY <1>2 DEF Revoke
  <1>4. /\ row' \in [Transfers -> {"none", "live", "removed"}]
        /\ row'[t] = "removed" /\ row[t] = "live"
        /\ \A u \in Transfers : u # t => row'[u] = row[u]
    BY <1>1, <1>2, <1>3 DEF IInv, TypeOK
  <1>5. \A u \in Transfers, j \in Invoices :
            /\ Backs(u, j) => Backs(u, j)'
            /\ RecordedFinal(u) => RecordedFinal(u)'
    BY <1>3, <1>4 DEF Backs, RecordedFinal, chainVars, paymentVars
  <1>6. AmountsExclusive'
    BY <1>3 DEF IInv, Money, AmountsExclusive
  <1>7. CASE status[i] # "detected"
    <2>1. UNCHANGED <<status, outbox>>
      BY <1>2, <1>7 DEF Revoke
    <2>2. TypeOK'
      BY <1>3, <1>4, <2>1 DEF IInv, TypeOK, Jobs, chainVars, paymentVars
    <2>3. Unborn' /\ JobCurrent'
      BY <1>3, <2>1 DEF IInv, Unborn, JobCurrent, Idle, RecordedFinal
    <2>4. RowsKnown'
      BY <1>3, <1>4, <2>1 DEF IInv, RowsKnown, Backs, paymentVars, chainVars
    <2>5. PayableIsHeld'
      BY <1>3, <2>1 DEF IInv, Money, PayableIsHeld
    <2>6. PaidIsBacked'
      BY <1>3, <1>5, <2>1 DEF IInv, Money, PaidIsBacked, chainVars, paymentVars
    <2>7. LivePaymentsMatch'
      BY <1>3, <1>4, <2>1 DEF IInv, Money, LivePaymentsMatch
    <2>8. OutboxTruthful' /\ EventsCoherent'
      BY <2>1 DEF IInv, OutboxTruthful, EventsCoherent, LastEvent
    <2> QED
      BY <1>6, <2>2, <2>3, <2>4, <2>5, <2>6, <2>7, <2>8 DEF IInv, Money
  <1>8. CASE status[i] = "detected"
    <2>1. MoneyMoved(i, "detected", "pending", "reverted")
      BY <1>2, <1>8 DEF Revoke, MoneyMoved
    <2>2. /\ status' = [status EXCEPT ![i] = "pending"]
          /\ status' \in [Invoices -> Status \cup {"none"}]
          /\ outbox' \in [Invoices -> Seq(Events)]
          /\ \A j \in Invoices : j # i => outbox'[j] = outbox[j]
          /\ ~WebhooksEnabled => outbox'[i] = <<>>
          /\ OutboxTruthful' /\ EventsCoherent'
      BY <2>1, MoneyMovedOutbox
    <2>3. status'[i] = "pending" /\ \A j \in Invoices : j # i => status'[j] = status[j]
      BY <2>2 DEF IInv, TypeOK
    <2>4. TypeOK'
      BY <1>3, <1>4, <2>2 DEF IInv, TypeOK, Jobs, chainVars, paymentVars
    <2>5. Unborn' /\ JobCurrent'
      BY <1>3, <1>8, <2>2, <2>3 DEF IInv, Unborn, JobCurrent, Idle, RecordedFinal
    <2>6. RowsKnown'
      BY <1>3, <1>4, <2>3 DEF IInv, RowsKnown, Backs, paymentVars, chainVars
    <2>7. PayableIsHeld'
      BY <1>3, <1>8, <2>3 DEF IInv, Money, PayableIsHeld, Payable
    <2>8. PaidIsBacked'
      BY <1>3, <1>5, <2>3 DEF IInv, Money, PaidIsBacked, chainVars, paymentVars
    <2>9. LivePaymentsMatch'
      BY <1>2, <1>3, <1>4, <2>3 DEF IInv, Money, LivePaymentsMatch, RowsKnown
    <2> QED
      BY <1>6, <2>2, <2>4, <2>5, <2>6, <2>7, <2>8, <2>9 DEF IInv, Money
  <1> QED
    BY <1>7, <1>8

LEMMA WatcherStep ==
    ASSUME IInv, Watcher PROVE IInv'
  BY JobOnlyStep, RecordOrphanStep, CreditStep, CreditStandsStep, SettleStep, RevokeStep
  DEF Watcher, JobOnly

-----------------------------------------------------------------------------
LEMMA NextIInv ==
    ASSUME IInv, [Next]_vars PROVE IInv'
  <1>1. CASE Next
    BY <1>1, ChainStep, MerchantStep, ExpirerStep, WatcherStep DEF Next
  <1>2. CASE UNCHANGED vars
    <2>1. TypeOK' /\ Unborn' /\ RowsKnown' /\ JobCurrent'
      BY <1>2 DEF vars, IInv, TypeOK, Unborn, RowsKnown, JobCurrent, Backs, RecordedFinal, paymentVars
    <2>2. Money'
      BY <1>2 DEF vars, IInv, Money, AmountsExclusive, PayableIsHeld, PaidIsBacked,
                  LivePaymentsMatch, Backs, RecordedFinal, paymentVars
    <2>3. OutboxTruthful' /\ EventsCoherent'
      BY <1>2 DEF vars, IInv, OutboxTruthful, EventsCoherent, LastEvent
    <2> QED
      BY <2>1, <2>2, <2>3 DEF IInv
  <1> QED
    BY <1>1, <1>2

(* The inductive invariant holds, whatever order the API, the expirer, the *)
(* watcher and the chain run in.                                           *)
THEOREM Invariance == Spec => []IInv
  <1>1. Init => IInv
    BY InitIInv
  <1>2. IInv /\ [Next]_vars => IInv'
    BY NextIInv
  <1> QED
    BY <1>1, <1>2, PTL DEF Spec

(* Every variable of the engine keeps its type.                            *)
THEOREM TypeCorrect == Spec => []TypeOK
  <1>1. IInv => TypeOK
    BY DEF IInv
  <1> QED
    BY <1>1, Invariance, PTL

(* An invoice that can still be paid never loses its amount to another.    *)
THEOREM PayableStaysHeld == Spec => []PayableIsHeld
  <1>1. IInv => PayableIsHeld
    BY DEF IInv, Money
  <1> QED
    BY <1>1, Invariance, PTL

(* The merchant is told nothing but what the chain backs.                  *)
THEOREM PaidStaysBacked == Spec => []PaidIsBacked
  <1>1. IInv => PaidIsBacked
    BY DEF IInv, Money
  <1> QED
    BY <1>1, Invariance, PTL

(* A payment and the status it causes never come apart into two payments   *)
(* for one invoice or a paid invoice that waits for money.                 *)
THEOREM LivePaymentsAlwaysMatch == Spec => []LivePaymentsMatch
  <1>1. IInv => LivePaymentsMatch
    BY DEF IInv, Money
  <1> QED
    BY <1>1, Invariance, PTL

(* The last event enqueued for an invoice is never a false one.            *)
THEOREM OutboxStaysTruthful == Spec => []OutboxTruthful
  <1>1. IInv => OutboxTruthful
    BY DEF IInv
  <1> QED
    BY <1>1, Invariance, PTL

(* The events of an invoice always tell one coherent story.                *)
THEOREM EventsStayCoherent == Spec => []EventsCoherent
  <1>1. IInv => EventsCoherent
    BY DEF IInv
  <1> QED
    BY <1>1, Invariance, PTL

(* A transfer whose payment stands is never filed as well: between the     *)
(* read that found no live payment and the orphan it leads to, nobody else *)
(* records one (matching.go:152-157).                                      *)
THEOREM LiveStaysUnfiled == Spec => LiveNotFiled
  <1>1. ASSUME IInv, [Next]_vars
        PROVE  [\A t \in Transfers : row[t] = "live" => filed'[t] = filed[t]]_vars
    <2> SUFFICES ASSUME Next, NEW t \in Transfers, row[t] = "live"
                 PROVE  filed'[t] = filed[t]
      BY <1>1
    <2>1. CASE RecordOrphan
      <3>1. job.step = "file" /\ job \in Jobs /\ filed \in [Transfers -> Reasons \cup {"none"}]
        BY <1>1, <2>1 DEF RecordOrphan, IInv, TypeOK
      <3>2. row[job.transfer] # "live"
        BY <1>1, <3>1 DEF IInv, JobCurrent
      <3>3. t # job.transfer
        BY <3>2
      <3> QED
        BY <2>1, <3>1, <3>3 DEF RecordOrphan
    <2>2. CASE ~RecordOrphan
      BY <2>2 DEF Next, Chain, Mine, Reorg, Finalise, Merchant, Cancel, Create, Expirer,
                  ExpireSelect, ExpireUpdate, ExpireAbort, Release, Watcher, Observe,
                  ListAwaiting, ObserveMissing, ObserveRemoved, Lookup, Find,
                  Credit, CreditStands, Settle, Revoke, Abort
    <2> QED
      BY <2>1, <2>2
  <1> QED
    BY <1>1, Invariance, PTL DEF Spec, LiveNotFiled

-----------------------------------------------------------------------------
(* The engine implements the invoice lifecycle: its initial states are     *)
(* initial, and each of its steps is a lifecycle step or a stutter.        *)

LEMMA ReadsStutter ==
    ASSUME Chain \/ JobOnly \/ RecordOrphan \/ CreditStands \/ ExpireSelect \/ ExpireAbort
    PROVE  UNCHANGED <<status, held, outbox>>
  BY DEF Chain, Mine, Reorg, Finalise, JobOnly, Observe, ListAwaiting, ObserveMissing,
         ObserveRemoved, Lookup, Find, Abort, RecordOrphan, CreditStands, ExpireSelect, ExpireAbort,
         invoiceVars, paymentVars

LEMMA MerchantRefines ==
    ASSUME Merchant PROVE Lifecycle!LifeStep
  <1>1. ASSUME NEW i \in Invoices, NEW b \in BaseAmounts, Create(i, b)
        PROVE  Lifecycle!Open(i)
    BY <1>1 DEF Create, Lifecycle!Open
  <1>2. ASSUME NEW i \in Invoices, Cancel(i) PROVE Lifecycle!Withdraw(i)
    BY <1>2 DEF Cancel, Lifecycle!Withdraw
  <1> QED
    BY <1>1, <1>2 DEF Merchant, Invoices, Lifecycle!LifeStep, Lifecycle!Ids

LEMMA ExpirerRefines ==
    ASSUME IInv, Expirer PROVE Lifecycle!LifeStep \/ UNCHANGED <<status, held, outbox>>
  <1>1. CASE ExpireSelect \/ ExpireAbort
    BY <1>1, ReadsStutter
  <1>2. CASE ExpireUpdate
    <2>1. overdue \in SUBSET Invoices /\ \A i \in overdue : status[i] # "none"
      BY DEF IInv, TypeOK, Unborn
    <2>2. Lifecycle!Lapse(overdue)
      BY <1>2, <2>1 DEF ExpireUpdate, Lifecycle!Lapse, Lifecycle!Ids, Invoices
    <2> QED
      BY <2>1, <2>2 DEF Lifecycle!LifeStep, Lifecycle!Ids, Invoices
  <1>3. CASE Release
    <2>1. PICK lapsed \in SUBSET {i \in Invoices : Releasable(i)} :
            held' = [i \in Invoices |-> held[i] /\ i \notin lapsed]
      BY <1>3 DEF Release
    <2>2. lapsed \in SUBSET Invoices /\ \A i \in lapsed : status[i] \in Terminal
      BY <2>1 DEF Releasable
    <2>3. UNCHANGED <<status, outbox>>
      BY <1>3 DEF Release
    <2>4. Lifecycle!GiveBack(lapsed)
      <3>1. held' = [i \in Lifecycle!Ids |-> held[i] /\ i \notin lapsed]
        BY <2>1 DEF Lifecycle!Ids, Invoices
      <3> QED
        BY <2>2, <2>3, <3>1 DEF Lifecycle!GiveBack, Lifecycle!Ended, Terminal
    <2> QED
      BY <2>2, <2>4 DEF Lifecycle!LifeStep, Lifecycle!Ids, Invoices
  <1> QED
    BY <1>1, <1>2, <1>3 DEF Expirer

LEMMA MoneyMoveRefines ==
    ASSUME NEW i \in Invoices, NEW from, NEW to, NEW e, MoneyMoved(i, from, to, e),
           held' = held
    PROVE  Lifecycle!LifeStep
  <1>1. Lifecycle!MoneyMove(i)
    <2>1. <<from, to, e>> \in Lifecycle!MoneyMoves
      BY DEF MoneyMoved, Lifecycle!MoneyMoves
    <2>2. /\ status[i] = from
          /\ status' = [status EXCEPT ![i] = to]
          /\ outbox' = IF WebhooksEnabled
                       THEN [outbox EXCEPT ![i] = Append(@, e)] ELSE outbox
      BY DEF MoneyMoved, TransitionInvoice, Notify
    <2> QED
      BY <2>1, <2>2 DEF Lifecycle!MoneyMove
  <1> QED
    BY <1>1 DEF Lifecycle!LifeStep, Lifecycle!Ids, Invoices

LEMMA WatcherRefines ==
    ASSUME IInv, Watcher PROVE Lifecycle!LifeStep \/ UNCHANGED <<status, held, outbox>>
  <1>1. CASE JobOnly \/ RecordOrphan \/ CreditStands
    BY <1>1, ReadsStutter
  <1>2. CASE Credit
    <2>1. /\ job.invoice \in Invoices /\ job.seen \in Payable
          /\ Target \in {"detected", "confirmed"}
      BY <1>2, JobShape DEF Credit, IInv, TypeOK, Target
    <2>2. PICK i \in Invoices, seen \in Payable, target \in {"detected", "confirmed"} :
              i = job.invoice /\ seen = job.seen /\ target = Target
      BY <2>1
    <2>3. MoneyMoved(i, seen, target, target) /\ held' = held
      BY <1>2, <2>2 DEF Credit, CanTransitionTo, invoiceTransitions, MoneyMoved, Payable
    <2> QED
      BY <2>3, MoneyMoveRefines
  <1>3. CASE Settle \/ Revoke
    <2>1. job.transfer \in Transfers /\ payee[job.transfer] \in Invoices
          /\ status[payee[job.transfer]] # "pending"
      BY <1>3, JobShape DEF Settle, Revoke, IInv, TypeOK, JobCurrent, RowsKnown,
                            Money, LivePaymentsMatch, RecordedFinal, paymentVars
    <2>2. PICK i \in Invoices : i = payee[job.transfer]
      BY <2>1
    <2>3. held' = held
      BY <1>3 DEF Settle, Revoke
    <2>4. \/ UNCHANGED <<status, outbox>>
          \/ MoneyMoved(i, "detected", "confirmed", "confirmed")
          \/ MoneyMoved(i, "detected", "pending", "reverted")
      BY <1>3, <2>1, <2>2 DEF Settle, Revoke, CanTransitionTo, invoiceTransitions, MoneyMoved
    <2> QED
      BY <2>3, <2>4, MoneyMoveRefines
  <1> QED
    BY <1>1, <1>2, <1>3 DEF Watcher, JobOnly

(* Every behaviour of the engine is a behaviour of the lifecycle: whatever *)
(* happens, status, reservation and announcements move only along it.      *)
THEOREM Refinement == Spec => LifecycleSpec
  <1>1. Init => Lifecycle!Start
    BY DEF Init, Lifecycle!Start, Lifecycle!Ids, Invoices
  <1>2. ASSUME IInv, [Next]_vars
        PROVE  [Lifecycle!LifeStep]_<<status, held, outbox>>
    <2>1. CASE UNCHANGED vars
      BY <2>1 DEF vars
    <2>2. CASE Next
      BY <1>2, <2>2, ReadsStutter, MerchantRefines, ExpirerRefines, WatcherRefines DEF Next
    <2> QED
      BY <1>2, <2>1, <2>2
  <1>3. [Lifecycle!LifeStep]_<<status, held, outbox>> => [Lifecycle!LifeStep]_(Lifecycle!lifeVars)
    BY DEF Lifecycle!lifeVars
  <1> QED
    BY <1>1, <1>2, <1>3, Invariance, PTL DEF Spec, LifecycleSpec, Lifecycle!Spec

-----------------------------------------------------------------------------
(* What merchants ask for lies on one grid, a multiple of the step apart:  *)
(* then the windows of two invoices are the same or disjoint.  Otherwise   *)
(* they overlap (MatchingOffGrid.cfg).                                     *)
OnGrid == \A b, c \in BaseAmounts : b % Step = c % Step

(* What is reserved is an amount some merchant may ask for.                *)
HeldIsPriced == \A i \in Invoices : held[i] => amount[i] \in PayAmounts

LEMMA PricedStep ==
    ASSUME IInv, HeldIsPriced, [Next]_vars
    PROVE  HeldIsPriced'
  <1>1. CASE UNCHANGED <<amount, held>>
    BY <1>1 DEF HeldIsPriced
  <1>2. CASE Release
    BY <1>2 DEF Release, HeldIsPriced, IInv, TypeOK
  <1>3. ASSUME NEW i \in Invoices, NEW b \in BaseAmounts, Create(i, b)
        PROVE  HeldIsPriced'
    <2>1. PICK n \in 0..NonceMax - 1 : amount' = [amount EXCEPT ![i] = b + n * Step]
      BY <1>3 DEF Create, FreeNonces
    <2>2. b + n * Step \in PayAmounts
      BY DEF PayAmounts
    <2>3. /\ held' = [held EXCEPT ![i] = TRUE]
          /\ amount \in [Invoices -> PayAmounts \cup {0}] /\ held \in [Invoices -> BOOLEAN]
      BY <1>3 DEF Create, IInv, TypeOK
    <2> HIDE DEF PayAmounts
    <2>4. ASSUME NEW j \in Invoices, held'[j] PROVE amount'[j] \in PayAmounts
      BY <2>1, <2>2, <2>3, <2>4 DEF HeldIsPriced
    <2> QED
      BY <2>4 DEF HeldIsPriced
  <1>4. \/ UNCHANGED <<amount, held>> \/ Release
        \/ \E i \in Invoices, b \in BaseAmounts : Create(i, b)
    BY DEF Next, vars, Chain, Mine, Reorg, Finalise, Merchant, Cancel, Expirer, ExpireSelect,
           ExpireUpdate, ExpireAbort, Watcher, Observe, ListAwaiting, ObserveMissing,
           ObserveRemoved, Lookup, Find, RecordOrphan, Credit, CreditStands, Settle, Revoke,
           Abort, invoiceVars, TransitionInvoice
  <1> QED
    BY <1>1, <1>2, <1>3, <1>4

LEMMA SamePoint ==
    ASSUME NEW s \in Nat \ {0}, NEW a \in Nat, NEW v \in Nat,
           a % s = v % s, a <= v, v < a + s
    PROVE  a = v
  <1>1. a = (a \div s) * s + (a % s) /\ v = (v \div s) * s + (v % s)
        /\ a \div s \in Nat /\ v \div s \in Nat
    OBVIOUS
  <1> DEFINE p == a \div s
             q == v \div s
  <1>2. p \in Nat /\ q \in Nat /\ v - a = q * s - p * s
    BY <1>1
  <1> HIDE DEF p, q
  <1>3. p * s <= q * s /\ q * s < p * s + s
    BY <1>2
  <1>4. CASE q < p
    <2>1. (q + 1) * s <= p * s
      BY <1>2, <1>4
    <2> QED
      BY <1>2, <1>3, <2>1
  <1>5. CASE q > p
    <2>1. (p + 1) * s <= q * s
      BY <1>2, <1>5
    <2> QED
      BY <1>2, <1>3, <2>1
  <1>6. CASE q = p
    BY <1>2, <1>6
  <1> QED
    BY <1>2, <1>4, <1>5, <1>6

LEMMA RestOfPoint ==
    ASSUME NEW s \in Nat \ {0}, NEW p \in Nat, NEW r \in 0..s - 1
    PROVE  (p * s + r) % s = r
  OBVIOUS

LEMMA OneGrid ==
    ASSUME OnGrid, NEW a \in PayAmounts, NEW v \in PayAmounts
    PROVE  a \in Nat /\ v \in Nat /\ a % Step = v % Step
  <1>0. Step \in Nat \ {0} /\ NonceMax \in Nat \ {0} /\ BaseAmounts \subseteq Nat
    BY MatchingAssumption
  <1>1. ASSUME NEW b \in Nat, NEW n \in Nat, NEW s \in Nat \ {0}
        PROVE  b + n * s \in Nat /\ (b + n * s) % s = b % s
    <2>1. b = (b \div s) * s + (b % s) /\ b \div s \in Nat /\ b % s \in 0..s - 1
      OBVIOUS
    <2> DEFINE q == b \div s
               r == b % s
    <2>2. q \in Nat /\ r \in 0..s - 1 /\ b + n * s = (q + n) * s + r
      BY <2>1
    <2> HIDE DEF q, r
    <2>3. ((q + n) * s + r) % s = r
      <3> DEFINE p == q + n
      <3>1. p \in Nat
        BY <2>2
      <3> HIDE DEF p
      <3>2. (p * s + r) % s = r
        BY <2>2, <3>1, RestOfPoint
      <3> QED
        BY <3>2 DEF p
    <2> QED
      BY <2>2, <2>3 DEF r
  <1>2. PICK b \in BaseAmounts, n \in 0..NonceMax - 1 : a = b + n * Step
    BY DEF PayAmounts
  <1>3. PICK c \in BaseAmounts, m \in 0..NonceMax - 1 : v = c + m * Step
    BY DEF PayAmounts
  <1>4. a \in Nat /\ a % Step = b % Step
    <2>1. b \in Nat /\ n \in Nat
      BY <1>0
    <2> QED
      BY <1>0, <1>1, <1>2, <2>1
  <1>5. v \in Nat /\ v % Step = c % Step
    <2>1. c \in Nat /\ m \in Nat
      BY <1>0
    <2> QED
      BY <1>0, <1>1, <1>3, <2>1
  <1> QED
    BY <1>4, <1>5 DEF OnGrid

(* On a grid a transfer of exactly a reserved amount has one claimant.     *)
LEMMA ExactFind ==
    ASSUME OnGrid, IInv, HeldIsPriced, Find, job'.step = "credit",
           NEW i \in Invoices, held[i], amount[i] = Value[job.transfer]
    PROVE  i = job'.invoice
  <1>1. job.transfer \in Transfers /\ Attribute(job.transfer)
    BY JobShape DEF Find, File, IInv, TypeOK
  <1>2. PICK j \in Invoices : /\ held[j] /\ Covers(amount[j], Value[job.transfer])
                              /\ job' = CreditJob(j)
    <2>1. CASE job' = File(job.transfer, "no_matching_invoice")
      BY <2>1 DEF File
    <2>2. CASE \E j \in Claimants(Value[job.transfer]) :
                 job' = IF status[j] \in Terminal THEN File(job.transfer, "invoice_terminal")
                        ELSE CreditJob(j)
      <3>1. PICK j \in Claimants(Value[job.transfer]) :
              job' = File(job.transfer, "invoice_terminal") \/ job' = CreditJob(j)
        BY <2>2
      <3>2. job' = CreditJob(j)
        BY <3>1 DEF File
      <3> QED
        BY <3>2 DEF Claimants
    <2> QED
      BY <1>1, <2>1, <2>2 DEF Attribute
  <1>3. amount[i] \in PayAmounts /\ amount[j] \in PayAmounts
    BY <1>2 DEF HeldIsPriced
  <1>4. /\ amount[i] \in Nat /\ amount[j] \in Nat
        /\ amount[j] % Step = amount[i] % Step
    BY <1>3, OneGrid
  <1>5. amount[j] = amount[i]
    BY <1>2, <1>4, SamePoint, MatchingAssumption DEF Covers
  <1>6. i = j
    BY <1>2, <1>5 DEF IInv, Money, AmountsExclusive
  <1> QED
    BY <1>2, <1>6 DEF CreditJob

(* As long as merchants ask for amounts on one grid, no transfer of        *)
(* exactly an invoice's amount is put down to a different invoice,         *)
(* whatever is created, ended and released (invoice.go:165).               *)
THEOREM ExactGoesHome ==
    ASSUME OnGrid
    PROVE  Spec => ExactPaymentNotPoached
  <1>1. Init => HeldIsPriced
    BY DEF Init, HeldIsPriced
  <1>2. IInv /\ HeldIsPriced /\ [Next]_vars => HeldIsPriced'
    BY PricedStep
  <1>3. ASSUME IInv, HeldIsPriced, [Next]_vars
        PROVE  [job.step = "find" /\ job'.step = "credit" =>
                  \A i \in Invoices :
                    held[i] /\ amount[i] = Value[job.transfer] => i = job'.invoice]_vars
    <2>1. SUFFICES ASSUME Next, job.step = "find", job'.step = "credit"
                   PROVE  Find
      BY <1>3, ExactFind
    <2> QED
      BY <2>1 DEF Next, Chain, Mine, Reorg, Finalise, Merchant, Cancel, Create, Expirer,
                  ExpireSelect, ExpireUpdate, ExpireAbort, Release, Watcher, Observe,
                  ListAwaiting, ObserveMissing, ObserveRemoved, Lookup, RecordOrphan,
                  Credit, CreditStands, Settle, Revoke, Abort, Idle
  <1> QED
    BY <1>1, <1>2, <1>3, Invariance, PTL DEF Spec, ExactPaymentNotPoached
=============================================================================
