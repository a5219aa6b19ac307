---------------------------- MODULE TronWatcher ----------------------------
(***************************************************************************)
(* The TRON watcher (internal/usecases/chain/tron_watcher): every tick     *)
(* reads the solidified head, then one page of the transfer feed from the  *)
(* cursor's timestamp on, hands each transfer to the matching engine and   *)
(* settles the payments on record that lie at or below the head.           *)
(*                                                                         *)
(* A transfer pays the invoice whose window its amount falls into, or      *)
(* none; what the matching engine makes of it is Matching's effect on      *)
(* payment and invoice.  Nothing on TRON tells that a transfer was         *)
(* un-mined: it is missing from the feed.                                  *)
(***************************************************************************)
EXTENDS Naturals, FiniteSets

CONSTANTS
    Transfers, Transactions, Invoices, NoInvoice,
    Tx,           \* the transaction a transfer is part of
    Pays,         \* the invoice it pays, or NoInvoice
    Worthless,    \* transfers of nothing
    PageLimit,
    InOrder,      \* the feed shows no transfer before those of earlier blocks
    Replaces,     \* a reorg may move a transfer to another block it replaces
    MaxTime, MaxReorgs, MaxFaults  \* bounds

ASSUME TronAssumption ==
    /\ IsFiniteSet(Transfers)
    /\ NoInvoice \notin Invoices
    /\ Tx \in [Transfers -> Transactions]
    /\ Pays \in [Transfers -> Invoices \cup {NoInvoice}]
    /\ Worthless \subseteq Transfers
    /\ PageLimit \in Nat \ {0}
    /\ {InOrder, Replaces} \subseteq BOOLEAN
    /\ {MaxTime, MaxReorgs, MaxFaults} \subseteq Nat

VARIABLES
    mined,        \* the timestamp of a transfer's block, 0 while it is in none
    now, solid,   \* timestamps of the head and of the solidified head
    shown,        \* what the feed has indexed
    reorgs, faults,  \* what the bounds count
    cursor,       \* cp_chain_cursors.last_timestamp
    status,       \* of an invoice
    credited,     \* cp_payments.invoice_id by transaction, NoInvoice without row
    at,           \* cp_payments.block_time
    filed,        \* transactions in cp_orphan_transfers
    pc, line, newest,  \* the tick's locals
    page          \* what is left of the page: transfers with their timestamps

chainVars == <<mined, now, solid, shown, reorgs>>
stored == <<status, credited, at, filed>>
vars == <<chainVars, faults, cursor, stored, pc, line, newest, page>>

-----------------------------------------------------------------------------
Times == 0..MaxTime

TypeOK ==
    /\ mined \in [Transfers -> Times]
    /\ now \in Times /\ solid \in Times /\ solid <= now
    /\ shown \subseteq Transfers
    /\ reorgs \in 0..MaxReorgs /\ faults \in 0..MaxFaults
    /\ cursor \in Times
    /\ status \in [Invoices -> {"pending", "detected", "confirmed"}]
    /\ credited \in [Transactions -> Invoices \cup {NoInvoice}]
    /\ at \in [Transactions -> Times]
    /\ filed \subseteq Transactions
    /\ pc \in {"idle", "feed", "apply", "settle"}
    /\ line \in Times /\ newest \in Times
    /\ page \subseteq Transfers \X Times /\ Cardinality(page) <= PageLimit

Init ==
    /\ mined = [t \in Transfers |-> 0]
    /\ now = 0 /\ solid = 0 /\ shown = {}
    /\ reorgs = 0 /\ faults = 0
    /\ cursor = 0
    /\ status = [i \in Invoices |-> "pending"]
    /\ credited = [x \in Transactions |-> NoInvoice]
    /\ at = [x \in Transactions |-> 0]
    /\ filed = {}
    /\ pc = "idle" /\ line = 0 /\ newest = 0 /\ page = {}

-----------------------------------------------------------------------------
(* The chain and the indexer behind the feed.                              *)

(* The transfers of one transaction are in one block.                      *)
Whole(m) == \A t, u \in Transfers : Tx[t] = Tx[u] => m[t] = m[u]

Mine ==
    /\ now < MaxTime
    /\ now' = now + 1
    /\ \E S \in SUBSET {t \in Transfers : mined[t] = 0} :
         mined' = [t \in Transfers |-> IF t \in S THEN now' ELSE mined[t]]
    /\ Whole(mined')
    /\ UNCHANGED <<solid, shown, reorgs, faults, cursor, stored, pc, line, newest, page>>

Solidify ==
    /\ solid < now
    /\ solid' = solid + 1
    /\ UNCHANGED <<mined, now, shown, reorgs, faults, cursor, stored, pc, line, newest, page>>

(* The blocks above the solidified one are replaced.                       *)
Reorg ==
    /\ reorgs < MaxReorgs
    /\ reorgs' = reorgs + 1
    /\ \E new \in [Transfers -> Times] :
         /\ \A t \in Transfers :
              \/ new[t] = mined[t]
              \/ mined[t] > solid /\ new[t] = 0
              \/ Replaces /\ mined[t] \notin 1..solid /\ new[t] \in solid + 1 .. now
         /\ Whole(new)
         /\ mined' = new
         /\ shown' = {t \in shown : new[t] = mined[t]}
    /\ UNCHANGED <<now, solid, faults, cursor, stored, pc, line, newest, page>>

Show(t) ==
    /\ mined[t] # 0 /\ t \notin shown
    /\ InOrder => {u \in Transfers : mined[u] \in 1 .. mined[t] - 1} \subseteq shown
    /\ shown' = shown \cup {t}
    /\ UNCHANGED <<mined, now, solid, reorgs, faults, cursor, stored, pc, line, newest, page>>

-----------------------------------------------------------------------------
EndTickWith(next) ==
    /\ pc' = next
    /\ line' = 0 /\ newest' = 0 /\ page' = {}

SolidifiedBlock ==
    /\ pc = "idle"
    /\ line' = solid
    /\ pc' = "feed"
    /\ UNCHANGED <<chainVars, faults, cursor, stored, newest, page>>

(* Faulty: the cursor's own timestamp is taken for done.                   *)
InRangeExclusive(t) == mined[t] > cursor

InRange(t) == mined[t] >= cursor

Feed == {<<t, mined[t]>> : t \in {u \in shown : InRange(u)}}

Fits(S) == Cardinality(S) <= PageLimit

(* Oldest first, as many as fit.                                           *)
FirstPage(S) ==
    /\ Fits(S)
    /\ \A q \in Feed \ S : ~Fits(S \cup {q}) /\ \A r \in S : r[2] <= q[2]

TRC20Transfers ==
    /\ pc = "feed"
    /\ \E S \in SUBSET Feed : FirstPage(S) /\ page' = S
    /\ newest' = cursor
    /\ pc' = "apply"
    /\ UNCHANGED <<chainVars, faults, cursor, stored, line>>

IsNext(r) == r \in page /\ \A q \in page : r[2] <= q[2]

(* Faulty: what is on record is matched as if it were new.                 *)
OnRecordNever(t) == FALSE

OnRecord(t) == credited[Tx[t]] # NoInvoice

StatusFor(time) == IF time <= line THEN "confirmed" ELSE "detected"

(* matching.Apply, in the order it asks: a payment on record is settled    *)
(* once it is seen final ...                                               *)
Reapply(t, time) ==
    /\ OnRecord(t)
    /\ status' = [status EXCEPT ![credited[Tx[t]]] = IF time <= line THEN "confirmed" ELSE @]
    /\ UNCHANGED <<credited, at, filed>>

(* ... a transfer for no invoice or for one that has ended is an orphan ... *)
Orphan(t) ==
    /\ ~OnRecord(t)
    /\ Pays[t] = NoInvoice \/ status[Pays[t]] = "confirmed"
    /\ filed' = filed \cup {Tx[t]}
    /\ UNCHANGED <<status, credited, at>>

(* ... and any other is credited, unless its invoice has a payment: the    *)
(* key cp_payments_live_invoice_key.                                       *)
Credit(t, time) ==
    /\ ~OnRecord(t)
    /\ Pays[t] # NoInvoice /\ status[Pays[t]] = "pending"
    /\ credited' = [credited EXCEPT ![Tx[t]] = Pays[t]]
    /\ at' = [at EXCEPT ![Tx[t]] = time]
    /\ status' = [status EXCEPT ![Pays[t]] = StatusFor(time)]
    /\ UNCHANGED filed

Refused(t) ==
    \/ t \in Worthless
    \/ credited[Tx[t]] = NoInvoice /\ Pays[t] # NoInvoice /\ status[Pays[t]] = "detected"

Apply(r) ==
    /\ pc = "apply"
    /\ IsNext(r) /\ ~Refused(r[1])
    /\ Reapply(r[1], r[2]) \/ Orphan(r[1]) \/ Credit(r[1], r[2])
    /\ page' = page \ {r}
    /\ newest' = IF r[2] > newest THEN r[2] ELSE newest
    /\ UNCHANGED <<chainVars, faults, cursor, pc, line>>

(* The tick ends with the cursor where it was, and before the settle pass. *)
ApplyFails(r) ==
    /\ pc = "apply"
    /\ IsNext(r) /\ Refused(r[1])
    /\ EndTickWith("idle")
    /\ UNCHANGED <<chainVars, faults, cursor, stored>>

SaveCursor ==
    /\ pc = "apply" /\ page = {}
    /\ cursor' = newest
    /\ pc' = "settle"
    /\ UNCHANGED <<chainVars, faults, stored, line, newest, page>>

Unsettled(x) == credited[x] # NoInvoice /\ status[credited[x]] = "detected"

(* Faulty: finality is not looked at.                                      *)
SettleableAnyway(x) == Unsettled(x)

(* Faulty: what the cursor has passed is left alone.                       *)
SettleableInFeed(x) == Unsettled(x) /\ at[x] <= line /\ at[x] >= cursor

Settleable(x) == Unsettled(x) /\ at[x] <= line

Settle(x) ==
    /\ pc = "settle"
    /\ Settleable(x)
    /\ status' = [status EXCEPT ![credited[x]] = "confirmed"]
    /\ UNCHANGED <<chainVars, faults, cursor, credited, at, filed, pc, line, newest, page>>

EndTick ==
    /\ pc = "settle"
    /\ \A x \in Transactions : ~Settleable(x)
    /\ EndTickWith("idle")
    /\ UNCHANGED <<chainVars, faults, cursor, stored>>

(* A call fails or the process ends: nothing but the locals is lost.       *)
Interrupt ==
    /\ pc # "idle"
    /\ faults < MaxFaults
    /\ faults' = faults + 1
    /\ EndTickWith("idle")
    /\ UNCHANGED <<chainVars, cursor, stored>>

Work ==
    \/ SolidifiedBlock \/ TRC20Transfers \/ SaveCursor \/ EndTick
    \/ \E r \in page : Apply(r) \/ ApplyFails(r)
    \/ \E x \in Transactions : Settle(x)

Next == Mine \/ Solidify \/ Reorg \/ (\E t \in Transfers : Show(t)) \/ Work \/ Interrupt

Spec == Init /\ [][Next]_vars

(* The chain solidifies, the feed catches up with it, cron keeps ticking.  *)
FairSpec ==
    /\ Spec
    /\ WF_vars(Solidify) /\ WF_vars(Work)
    /\ \A t \in Transfers : WF_vars(Show(t))

-----------------------------------------------------------------------------
Solid(t)    == mined[t] \in 1..solid
Recorded(t) == OnRecord(t) \/ Tx[t] \in filed

(* tron_watcher/usecase.go:144, "the cursor must not advance past a        *)
(* transfer that was not handled": what is solid is on record, on file or  *)
(* not behind the cursor, across failed ticks, reorgs and late indexing of *)
(* transfers that share a timestamp.                                       *)
NothingPassed == \A t \in Transfers : Solid(t) => Recorded(t) \/ mined[t] >= cursor

(* An invoice is confirmed for a payment whose recorded block is solid.    *)
ConfirmedIsBacked ==
    \A i \in Invoices : status[i] = "confirmed" =>
        \E x \in Transactions : credited[x] = i /\ at[x] <= solid

(* matching.go:152-157: reading a transfer again makes no "duplicate       *)
(* record of money already credited".                                      *)
CreditedNotFiled == \A x \in filed : credited[x] = NoInvoice

-----------------------------------------------------------------------------
(* The inductive invariant, for a feed in order and reorgs that put what   *)
(* they un-mine into new blocks.                                           *)

Clocks ==
    /\ cursor <= now /\ newest <= now /\ line <= solid
    /\ \A t \in Transfers : mined[t] <= now
    /\ \A x \in Transactions : at[x] <= now
    /\ \A r \in page : r[2] \in 1..now

(* A transaction is never seen earlier than it was seen before.            *)
TimesGrow ==
    /\ Whole(mined)
    /\ \A r, q \in page : Tx[r[1]] = Tx[q[1]] => r[2] = q[2]
    /\ \A t \in Transfers : OnRecord(t) /\ mined[t] # 0 => at[Tx[t]] <= mined[t]
    /\ \A r \in page : mined[r[1]] # 0 => r[2] <= mined[r[1]]
    /\ \A r \in page : OnRecord(r[1]) => at[Tx[r[1]]] <= r[2]

ShownInOrder ==
    /\ \A u \in shown : mined[u] # 0
    /\ \A u \in shown, t \in Transfers : mined[t] \in 1 .. mined[u] - 1 => t \in shown

(* What lies before the cursor, before the newest transfer of this page or *)
(* before one that is still to be applied.                                 *)
Passed ==
    /\ \A t \in Transfers : mined[t] \in 1 .. cursor - 1 => Recorded(t)
    /\ \A t \in Transfers : mined[t] \in 1 .. newest - 1 => Recorded(t)
    /\ \A r \in page, t \in Transfers :
         mined[t] \in 1 .. r[2] - 1 => Recorded(t) \/ <<t, mined[t]>> \in page

OnePerTransaction == \A t, u \in Transfers : Tx[t] = Tx[u] => t = u

FiledEnded ==
    /\ CreditedNotFiled
    /\ \A t \in Transfers : Tx[t] \in filed =>
         Pays[t] = NoInvoice \/ status[Pays[t]] = "confirmed"

IInv ==
    /\ TypeOK
    /\ IsFiniteSet(page)
    /\ Clocks
    /\ TimesGrow
    /\ ConfirmedIsBacked
    /\ ShownInOrder
    /\ Passed
    /\ OnePerTransaction => FiledEnded

-----------------------------------------------------------------------------
(* tron_watcher/usecase.go:177, "a payment that never solidifies is the    *)
(* only trace it leaves": a transfer that was un-mined does not confirm.   *)
UnminedNeverConfirms ==
    \A x \in Transactions :
        credited[x] # NoInvoice /\ status[credited[x]] = "confirmed" =>
            \E t \in Transfers : Tx[t] = x /\ Solid(t)

Handled(t) ==
    \/ Tx[t] \in filed
    \/ credited[Tx[t]] = Pays[t] /\ Pays[t] # NoInvoice /\ status[Pays[t]] = "confirmed"

(* What can hold discovery up: a page that one timestamp fills, and a      *)
(* transfer the engine refuses.                                            *)
Stuck ==
    \/ \E time \in Times \ {0} :
         Cardinality({t \in Transfers : mined[t] = time}) >= PageLimit
    \/ \E t \in Transfers : mined[t] # 0 /\ Refused(t)

(* README.md:101, "nothing is ever silently dropped": unless discovery is  *)
(* held up for good, every solid transfer confirms its invoice or is filed. *)
SolidIsHandled == \A t \in Transfers : <>[]~Stuck => (Solid(t) ~> Handled(t))

(* tron_watcher/usecase.go:84-86, the settle pass keeps invoices from      *)
(* staying in detected forever: every invoice with a solid payment is      *)
(* confirmed.                                                              *)
DetectedConfirms ==
    \A t \in Transfers : Solid(t) /\ OnRecord(t) ~>
        \E i \in Invoices : credited[Tx[t]] = i /\ status[i] = "confirmed"
=============================================================================
