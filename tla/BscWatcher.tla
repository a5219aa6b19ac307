----------------------------- MODULE BscWatcher -----------------------------
(***************************************************************************)
(* The BSC watcher (internal/usecases/chain/bsc_watcher): every tick reads *)
(* the head and the finality line, backs the cursor up once per process,   *)
(* scans in chunks from the cursor or from the reorg window, revokes what  *)
(* is no longer there and settles what has become final.                   *)
(*                                                                         *)
(* Every call goes to the next endpoint in rotation, and an endpoint may   *)
(* be Lag blocks behind.  Each transfer pays an open invoice of its own;   *)
(* what the matching engine makes of it is Matching's effect on the pair.  *)
(*                                                                         *)
(* A log's index counts the logs of its block, and with the hash of the    *)
(* transaction it is what a payment is known by: a transfer that is mined  *)
(* again may come back at another position, under another reference.       *)
(***************************************************************************)
EXTENDS Naturals, FiniteSets

CONSTANTS
    Transfers,
    Positions,                 \* of a transfer's log in its block
    Depth, Confirmations, LogRange, MaxChunks,
    Lines,                     \* how finality is told: tag, count or both
    First, MaxHeight,          \* bounds: heights of the first and the last block
    Outage,                    \* bound: blocks mined between two completed scans
    Lag,                       \* bound: how far an endpoint is behind
    MaxReorgs, MaxFaults,      \* bounds
    Faults                     \* which of abort, crash, rewind and history occur

ASSUME BscAssumption ==
    /\ {Depth, Confirmations, LogRange, MaxChunks, First} \subseteq Nat \ {0}
    /\ {MaxHeight, Outage, Lag, MaxReorgs, MaxFaults} \subseteq Nat
    /\ First <= MaxHeight /\ Lag < First
    /\ Lines \in SUBSET {"tag", "count"} \ {{}}
    /\ Positions # {}
    /\ Faults \subseteq {"abort", "crash", "rewind", "history"}

VARIABLES
    mined,      \* the block a transfer is in, 0 while it is in none
    position,   \* where in the block
    minings,    \* history: how many blocks it has been in
    tip, final, \* of the chain
    reorgs, faults, fresh,  \* what the bounds count
    cursor,     \* cp_chain_cursors.last_block
    status,     \* of the invoice a transfer pays
    row,        \* cp_payments, by chain reference: none, live or removed
    at,         \* cp_payments.block_number
    rewound,    \* the process has backed its cursor up
    pc, head, line, from, to, chunk,  \* the tick's locals
    reply,      \* the logs of the chunk: a reference's block, or 0
    todo,       \* those still to be applied
    truth       \* history: what was where it is stored when the logs were read

chainVars == <<mined, position, minings, tip, final, reorgs>>
stored == <<status, row, at>>
tickVars == <<head, line, from, to, chunk, reply, todo, truth>>
vars == <<chainVars, faults, fresh, cursor, stored, rewound, pc, tickVars>>

-----------------------------------------------------------------------------
Heights == 0..MaxHeight
Refs    == Transfers \X Positions

(* The block a reference is in.                                            *)
LogOf(r) == IF position[r[1]] = r[2] THEN mined[r[1]] ELSE 0

TypeOK ==
    /\ mined \in [Transfers -> Heights] /\ position \in [Transfers -> Positions]
    /\ minings \in [Transfers -> Nat]
    /\ tip \in Heights /\ final \in Heights /\ fresh \in Heights
    /\ reorgs \in 0..MaxReorgs /\ faults \in 0..MaxFaults
    /\ cursor \in Heights
    /\ status \in [Transfers -> {"pending", "detected", "confirmed"}]
    /\ row \in [Refs -> {"none", "live", "removed"}] /\ at \in [Refs -> Heights]
    /\ rewound \in BOOLEAN
    /\ pc \in {"down", "idle", "line", "rewind", "scan", "logs", "apply", "settle"}
    /\ head \in Heights /\ line \in Heights
    /\ from \in 0..MaxHeight + 1 /\ to \in Heights /\ chunk \in 0..MaxChunks
    /\ reply \in [Refs -> Heights]
    /\ todo \subseteq Refs /\ truth \subseteq Refs

Init ==
    /\ mined = [t \in Transfers |-> 0] /\ minings = mined
    /\ position = [t \in Transfers |-> CHOOSE i \in Positions : TRUE]
    /\ tip = First /\ final = First /\ fresh = First
    /\ reorgs = 0 /\ faults = 0
    /\ cursor = 0
    /\ status = [t \in Transfers |-> "pending"]
    /\ row = [r \in Refs |-> "none"] /\ at = [r \in Refs |-> 0]
    /\ rewound = FALSE
    /\ pc = "idle"
    /\ head = 0 /\ line = 0 /\ from = 0 /\ to = 0 /\ chunk = 0
    /\ reply = at /\ todo = {} /\ truth = {}

-----------------------------------------------------------------------------
(* The chain.  Finality is never more than Confirmations behind, which is  *)
(* what counting them relies on.                                           *)

Include(new) ==
    /\ mined' = new
    /\ position' \in [Transfers -> Positions]
    /\ \A t \in Transfers : new[t] \in {0, mined[t]} => position'[t] = position[t]
    /\ minings' = [t \in Transfers |->
         IF new[t] \notin {0, mined[t]} THEN minings[t] + 1 ELSE minings[t]]

(* While the service is up it completes a scan every Outage blocks, and    *)
(* before it has saved a cursor nothing is expected of it.                 *)
Mine ==
    /\ tip < MaxHeight
    /\ tip + 1 <= final + Confirmations
    /\ (pc = "down" /\ cursor > 0) \/ tip < fresh + Outage
    /\ tip' = tip + 1
    /\ \E S \in SUBSET {t \in Transfers : mined[t] = 0} :
         Include([t \in Transfers |-> IF t \in S THEN tip + 1 ELSE mined[t]])
    /\ UNCHANGED <<final, reorgs, faults, fresh, cursor, stored, rewound, pc, tickVars>>

Finalise ==
    /\ final < tip
    /\ final' = final + 1
    /\ UNCHANGED <<mined, position, minings, tip, reorgs, faults, fresh, cursor, stored,
                   rewound, pc, tickVars>>

(* The blocks above the finalised one are replaced.                        *)
Reorg ==
    /\ reorgs < MaxReorgs
    /\ reorgs' = reorgs + 1
    /\ \E new \in [Transfers -> {0} \cup final..tip] :
         /\ \A t \in Transfers :
              IF mined[t] \in 1..final THEN new[t] = mined[t] ELSE new[t] # final
         /\ Include(new)
    /\ UNCHANGED <<tip, final, faults, fresh, cursor, stored, rewound, pc, tickVars>>

-----------------------------------------------------------------------------
Fault(kind) == kind \in Faults /\ faults < MaxFaults /\ faults' = faults + 1

(* The locals of a tick are gone when it ends.                             *)
LeaveTick(next) ==
    /\ pc' = next
    /\ head' = 0 /\ line' = 0 /\ from' = 0 /\ to' = 0 /\ chunk' = 0
    /\ reply' = [r \in Refs |-> 0] /\ todo' = {} /\ truth' = {}

(* eth_blockNumber.                                                        *)
ReadHead ==
    /\ pc = "idle"
    /\ \E behind \in 0..Lag : head' = tip - behind
    /\ pc' = "line"
    /\ UNCHANGED <<chainVars, faults, fresh, cursor, stored, rewound,
                   line, from, to, chunk, reply, todo, truth>>

(* The finalized tag, or a count of confirmations where it is not served.  *)
FinalityLine ==
    /\ pc = "line"
    /\ \/ "tag" \in Lines /\ \E behind \in 0..Lag : line' = final - behind
       \/ "count" \in Lines /\ line' = IF head < Confirmations THEN 0 ELSE head - Confirmations
    /\ pc' = "rewind"
    /\ UNCHANGED <<chainVars, faults, fresh, cursor, stored, rewound,
                   head, from, to, chunk, reply, todo, truth>>

Minus(a, b) == IF a >= b THEN a - b ELSE 0

RewindOnce ==
    /\ pc = "rewind"
    /\ rewound' = TRUE
    /\ cursor' = IF rewound THEN cursor ELSE Minus(cursor, Depth)
    /\ pc' = "scan"
    /\ UNCHANGED <<chainVars, faults, fresh, stored, tickVars>>

(* The flag is set before the call that may fail.                          *)
RewindFails ==
    /\ pc = "rewind"
    /\ ~rewound
    /\ Fault("rewind")
    /\ rewound' = TRUE
    /\ LeaveTick("idle")
    /\ UNCHANGED <<chainVars, fresh, cursor, stored>>

(* Faulty: the reorg window is not read again.                             *)
ScanFromCursor == IF cursor = 0 THEN head ELSE cursor + 1

(* Behind the cursor, or as far back as the window reaches.                *)
ScanFrom ==
    LET next == IF cursor = 0 THEN head ELSE cursor + 1
        window == IF head + 1 > Depth THEN head - Depth + 1 ELSE 1
    IN IF window < next THEN window ELSE next

Scan ==
    /\ pc = "scan"
    /\ from' = ScanFrom
    /\ pc' = IF ScanFrom > head THEN "settle" ELSE "logs"
    /\ UNCHANGED <<chainVars, faults, fresh, cursor, stored, rewound,
                   head, line, to, chunk, reply, todo, truth>>

(* eth_getLogs answers with the canonical chain as far as the endpoint     *)
(* has it.                                                                 *)
GetLogs ==
    /\ pc = "logs"
    /\ to' = IF from + LogRange - 1 > head THEN head ELSE from + LogRange - 1
    /\ \E behind \in 0..Lag :
         reply' = [r \in Refs |->
           IF LogOf(r) \in from..to' /\ LogOf(r) <= tip - behind THEN LogOf(r) ELSE 0]
    /\ todo' = {r \in Refs : reply'[r] # 0}
    /\ truth' = {r \in Refs : LogOf(r) # 0 /\ LogOf(r) = at[r]}
    /\ pc' = "apply"
    /\ UNCHANGED <<chainVars, faults, fresh, cursor, stored, rewound,
                   head, line, from, chunk>>

(* The endpoint's history does not go back behind the reorg window: the    *)
(* scan ends there, but the tick goes on.                                  *)
RangeTooDeep ==
    /\ pc = "logs"
    /\ from + Depth <= head
    /\ Fault("history")
    /\ pc' = "settle"
    /\ UNCHANGED <<chainVars, fresh, cursor, stored, rewound, tickVars>>

(* Logs are applied in the order of the chain.                             *)
IsNext(r) == r \in todo /\ \A q \in todo : reply[r] <= reply[q]

(* matching.Apply: a live payment is settled once it is seen final.        *)
Reapply(r) ==
    /\ row[r] = "live"
    /\ status' = [status EXCEPT ![r[1]] = IF reply[r] <= line THEN "confirmed" ELSE @]
    /\ UNCHANGED <<row, at>>

(* A transfer of an invoice that has ended is an orphan.                   *)
Orphan(r) == row[r] # "live" /\ status[r[1]] = "confirmed" /\ UNCHANGED stored

(* The key cp_payments_live_invoice_key.                                   *)
LiveElsewhere(r) == \E q \in Refs : q[1] = r[1] /\ q # r /\ row[q] = "live"

(* Anything else is credited; a removed row stays as it is.                *)
Credit(r) ==
    /\ row[r] # "live" /\ status[r[1]] # "confirmed"
    /\ row[r] = "none" => ~LiveElsewhere(r)
    /\ IF row[r] = "none"
       THEN row' = [row EXCEPT ![r] = "live"] /\ at' = [at EXCEPT ![r] = reply[r]]
       ELSE UNCHANGED <<row, at>>
    /\ status' = [status EXCEPT
         ![r[1]] = IF reply[r] <= line THEN "confirmed" ELSE "detected"]

Apply(r) ==
    /\ pc = "apply"
    /\ IsNext(r)
    /\ Reapply(r) \/ Orphan(r) \/ Credit(r)
    /\ todo' = todo \ {r}
    /\ UNCHANGED <<chainVars, faults, fresh, cursor, rewound, pc,
                   head, line, from, to, chunk, reply, truth>>

(* The key is violated: the transaction is rolled back and the tick ends.  *)
ApplyFails(r) ==
    /\ pc = "apply"
    /\ IsNext(r)
    /\ row[r] = "none" /\ status[r[1]] # "confirmed" /\ LiveElsewhere(r)
    /\ LeaveTick("idle")
    /\ UNCHANGED <<chainVars, faults, fresh, cursor, stored, rewound>>

Unsettled(r) == row[r] = "live" /\ status[r[1]] = "detected"

(* Faulty: absence is judged beyond the chunk.                             *)
MissingAnywhere(r) == Unsettled(r) /\ at[r] <= head /\ reply[r] = 0

(* ListLivePaymentsInBlockRange, less what was seen.                       *)
Missing(r) == Unsettled(r) /\ at[r] \in from..to /\ reply[r] = 0

Revoke(r) ==
    /\ pc = "apply" /\ todo = {}
    /\ Missing(r)
    /\ row' = [row EXCEPT ![r] = "removed"]
    /\ status' = [status EXCEPT ![r[1]] = "pending"]
    /\ UNCHANGED <<chainVars, faults, fresh, cursor, at, rewound, pc, tickVars>>

MoreChunks(n) == n < MaxChunks

(* Faulty: the cursor is saved as the head.                                *)
SaveHead == head

SaveTo == to

SaveCursor ==
    /\ pc = "apply" /\ todo = {}
    /\ \A r \in Refs : ~Missing(r)
    /\ cursor' = IF cursor >= SaveTo THEN cursor ELSE SaveTo
    /\ from' = to + 1
    /\ chunk' = chunk + 1
    /\ IF to < head /\ MoreChunks(chunk')
       THEN pc' = "logs" /\ UNCHANGED fresh
       ELSE pc' = "settle" /\ fresh' = head
    /\ reply' = [r \in Refs |-> 0] /\ truth' = {}
    /\ UNCHANGED <<chainVars, faults, stored, rewound, head, line, to, todo>>

(* Faulty: whatever is live is settled.                                    *)
SettleableAnyway(r) == Unsettled(r)

Settleable(r) == Unsettled(r) /\ at[r] <= line

Settle(r) ==
    /\ pc = "settle"
    /\ Settleable(r)
    /\ status' = [status EXCEPT ![r[1]] = "confirmed"]
    /\ UNCHANGED <<chainVars, faults, fresh, cursor, row, at, rewound, pc, tickVars>>

EndTick ==
    /\ pc = "settle"
    /\ \A r \in Refs : ~Settleable(r)
    /\ LeaveTick("idle")
    /\ UNCHANGED <<chainVars, faults, fresh, cursor, stored, rewound>>

(* A call fails and Execute returns its error ...                          *)
Abort ==
    /\ pc \in {"line", "scan", "logs", "apply", "settle"}
    /\ Fault("abort")
    /\ LeaveTick("idle")
    /\ UNCHANGED <<chainVars, fresh, cursor, stored, rewound>>

(* ... or the process ends, and is started again some time later.          *)
Crash ==
    /\ pc # "down"
    /\ Fault("crash")
    /\ rewound' = FALSE
    /\ LeaveTick("down")
    /\ UNCHANGED <<chainVars, fresh, cursor, stored>>

Restart ==
    /\ pc = "down"
    /\ pc' = "idle"
    /\ fresh' = IF cursor > 0 THEN tip ELSE fresh
    /\ UNCHANGED <<chainVars, faults, cursor, stored, rewound, tickVars>>

Work ==
    \/ ReadHead \/ FinalityLine \/ RewindOnce \/ Scan \/ GetLogs \/ SaveCursor \/ EndTick
    \/ \E r \in Refs : Apply(r) \/ ApplyFails(r) \/ Revoke(r) \/ Settle(r)

Next == Mine \/ Finalise \/ Reorg \/ Work \/ Restart \/ RewindFails \/ RangeTooDeep \/ Abort \/ Crash

Spec == Init /\ [][Next]_vars

(* The chain becomes final, cron keeps ticking, a dead process is started. *)
FairSpec == Spec /\ WF_vars(Finalise) /\ WF_vars(Work) /\ WF_vars(Restart)

-----------------------------------------------------------------------------
(* README.md:101, "nothing is ever silently dropped": between ticks, a     *)
(* final transfer is stored or still lies ahead of the scan, whatever      *)
(* reorgs, restarts and backlogs have happened.                            *)
NoLoss ==
    pc = "idle" /\ rewound => \A t \in Transfers :
        \/ mined[t] \notin 1..final
        \/ status[t] = "confirmed"
        \/ \E i \in Positions : row[<<t, i>>] = "live"
        \/ mined[t] > Minus(tip, Depth)
        \/ mined[t] > cursor

(* A transfer that was in one block only confirms an invoice when that     *)
(* block is final.                                                         *)
PaidIsFinal ==
    \A t \in Transfers :
        status[t] = "confirmed" /\ minings[t] = 1 => mined[t] \in 1..final

(* bsc_watcher/usecase.go:319, "a payment in this range that is absent     *)
(* from this range's logs really is gone": none is revoked that was in the *)
(* block it is stored with when the logs were read.                        *)
AbsentIsGone ==
    [][\A r \in Refs : row[r] = "live" /\ row'[r] = "removed" => r \notin truth]_vars

(* Every final transfer confirms its invoice.                              *)
FinalIsPaid == \A t \in Transfers : mined[t] \in 1..final ~> status[t] = "confirmed"
=============================================================================
