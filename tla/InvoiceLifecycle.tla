-------------------------- MODULE InvoiceLifecycle --------------------------
(***************************************************************************)
(* What an invoice promises the merchant, without watchers, payments or    *)
(* chains: the statuses it goes through, the events that announce them and *)
(* the time its amount stays reserved.  It is the lifecycle the service    *)
(* really has, so an expiry may overtake any other end of the invoice.     *)
(***************************************************************************)
EXTENDS Naturals, Sequences

CONSTANTS MaxInvoices, WebhooksEnabled

VARIABLES status, held, outbox

lifeVars == <<status, held, outbox>>

Ids == 1..MaxInvoices
Ended == {"confirmed", "expired", "cancelled"}

Start ==
    /\ status = [i \in Ids |-> "none"]
    /\ held = [i \in Ids |-> FALSE]
    /\ outbox = [i \in Ids |-> <<>>]

(* A new invoice reserves its amount.                                      *)
Open(i) ==
    /\ status[i] = "none"
    /\ status' = [status EXCEPT ![i] = "pending"]
    /\ held' = [held EXCEPT ![i] = TRUE]
    /\ UNCHANGED outbox

(* Money moves an invoice only along these edges, and is always announced. *)
MoneyMoves ==
    {<<"pending", "detected", "detected">>, <<"pending", "confirmed", "confirmed">>,
     <<"detected", "confirmed", "confirmed">>, <<"detected", "pending", "reverted">>}

MoneyMove(i) ==
    \E m \in MoneyMoves :
        /\ status[i] = m[1]
        /\ status' = [status EXCEPT ![i] = m[2]]
        /\ outbox' = IF WebhooksEnabled
                     THEN [outbox EXCEPT ![i] = Append(@, m[3])] ELSE outbox
        /\ UNCHANGED held

(* The merchant withdraws an unpaid invoice.                               *)
Withdraw(i) ==
    /\ status[i] = "pending"
    /\ status' = [status EXCEPT ![i] = "cancelled"]
    /\ UNCHANGED <<held, outbox>>

(* The clock ends a batch of existing invoices, in silence.                *)
Lapse(batch) ==
    /\ \A i \in batch : status[i] # "none"
    /\ status' = [i \in Ids |-> IF i \in batch THEN "expired" ELSE status[i]]
    /\ UNCHANGED <<held, outbox>>

(* Only ended invoices give their amounts back.                            *)
GiveBack(batch) ==
    /\ \A i \in batch : status[i] \in Ended
    /\ held' = [i \in Ids |-> held[i] /\ i \notin batch]
    /\ UNCHANGED <<status, outbox>>

LifeStep ==
    \/ \E i \in Ids : Open(i) \/ MoneyMove(i) \/ Withdraw(i)
    \/ \E batch \in SUBSET Ids : Lapse(batch) \/ GiveBack(batch)

Spec == Start /\ [][LifeStep]_lifeVars
=============================================================================
