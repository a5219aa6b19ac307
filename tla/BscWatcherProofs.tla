--------------------------- MODULE BscWatcherProofs ---------------------------
(***************************************************************************)
(* Proofs about the BSC watcher for any transfers, positions, heights,     *)
(* reorgs, chunks and failures.  Five invariants, each on top of those     *)
(* before: types, what the logs of a chunk say, what the scan covers,      *)
(* where a payment may be on record whose transfer is in no block, and how *)
(* far behind the cursor can be.                                           *)
(***************************************************************************)
EXTENDS BscWatcher, TLAPS

InTick == {"line", "rewind", "scan", "logs", "apply", "settle"}

(* Types, and what they rest on: the finalised block lies between the      *)
(* first and the last, and no tick scans more chunks than it may.          *)
TypeInv ==
    /\ TypeOK
    /\ First <= final /\ final <= tip
    /\ \A t \in Transfers : mined[t] <= tip
    /\ pc \in {"logs", "apply"} => chunk < MaxChunks
    /\ pc \in {"down", "idle", "line", "rewind", "scan"} => chunk = 0

LEMMA Constants ==
  /\ Depth \in Nat \ {0} /\ Confirmations \in Nat \ {0} /\ LogRange \in Nat \ {0}
  /\ MaxChunks \in Nat \ {0} /\ First \in Nat \ {0}
  /\ MaxHeight \in Nat /\ Outage \in Nat /\ Lag \in Nat /\ MaxReorgs \in Nat /\ MaxFaults \in Nat
  /\ First <= MaxHeight /\ Lag < First
  BY BscAssumption DEF BscAssumption

LEMMA InitType == Init => TypeInv
<1> SUFFICES ASSUME Init PROVE TypeInv
  OBVIOUS
<1>1. (CHOOSE i \in Positions : TRUE) \in Positions
  BY BscAssumption DEF BscAssumption
<1>2. /\ mined \in [Transfers -> Heights] /\ position \in [Transfers -> Positions]
      /\ minings \in [Transfers -> Nat]
      /\ \A t \in Transfers : mined[t] = 0
  BY <1>1, Constants DEF Init, Heights
<1>3. /\ row \in [Refs -> {"none", "live", "removed"}] /\ at \in [Refs -> Heights]
      /\ reply \in [Refs -> Heights]
      /\ status \in [Transfers -> {"pending", "detected", "confirmed"}]
  BY Constants DEF Init, Heights
<1>4. /\ 0 \in Heights /\ First \in Heights
      /\ 0 \in 0..MaxReorgs /\ 0 \in 0..MaxFaults /\ 0 \in 0..MaxHeight + 1 /\ 0 \in 0..MaxChunks
  BY Constants DEF Heights
<1>5. TypeOK
  BY <1>2, <1>3, <1>4 DEF Init, TypeOK
<1> QED BY <1>2, <1>5, Constants DEF Init, TypeInv

LEMMA IncludeType ==
  ASSUME TypeInv, NEW new \in [Transfers -> Heights], Include(new)
  PROVE  /\ mined' \in [Transfers -> Heights] /\ position' \in [Transfers -> Positions]
         /\ minings' \in [Transfers -> Nat]
  BY DEF TypeInv, TypeOK, Include

(* The chain moves under the watcher.                                      *)
LEMMA ChainType ==
  ASSUME TypeInv, Mine \/ Finalise \/ Reorg
  PROVE  TypeInv'
<1>1. CASE Mine
  <2>1. PICK S \in SUBSET {t \in Transfers : mined[t] = 0} :
            Include([t \in Transfers |-> IF t \in S THEN tip + 1 ELSE mined[t]])
    BY <1>1 DEF Mine
  <2>2. tip + 1 \in Heights /\ tip' = tip + 1 /\ tip \in Heights
    BY <1>1, Constants DEF Mine, TypeInv, TypeOK, Heights
  <2>3. [t \in Transfers |-> IF t \in S THEN tip + 1 ELSE mined[t]] \in [Transfers -> Heights]
    BY <2>2 DEF TypeInv, TypeOK
  <2>4. /\ mined' \in [Transfers -> Heights] /\ position' \in [Transfers -> Positions]
        /\ minings' \in [Transfers -> Nat]
    BY <2>1, <2>3, IncludeType
  <2>5. \A t \in Transfers : mined'[t] <= tip'
    BY <2>1, <2>2, Constants DEF Include, TypeInv, TypeOK, Heights
  <2>6. TypeOK'
    BY <1>1, <2>2, <2>4 DEF Mine, TypeInv, TypeOK, Heights, stored, tickVars
  <2> QED BY <1>1, <2>2, <2>5, <2>6, Constants
          DEF Mine, TypeInv, TypeOK, Heights, tickVars
<1>2. CASE Finalise
  <2>1. TypeOK'
    BY <1>2, Constants DEF Finalise, TypeInv, TypeOK, Heights, stored, tickVars
  <2> QED BY <1>2, <2>1, Constants DEF Finalise, TypeInv, TypeOK, Heights, tickVars
<1>3. CASE Reorg
  <2>1. PICK new \in [Transfers -> {0} \cup final..tip] : Include(new)
    BY <1>3 DEF Reorg
  <2>2. new \in [Transfers -> Heights] /\ \A t \in Transfers : new[t] <= tip
    BY <2>1, Constants DEF TypeInv, TypeOK, Heights
  <2>3. /\ mined' \in [Transfers -> Heights] /\ position' \in [Transfers -> Positions]
        /\ minings' \in [Transfers -> Nat] /\ mined' = new
    BY <2>1, <2>2, IncludeType DEF Include
  <2>4. reorgs' \in 0..MaxReorgs
    BY <1>3, Constants DEF Reorg, TypeInv, TypeOK
  <2>5. TypeOK'
    BY <1>3, <2>3, <2>4 DEF Reorg, TypeInv, TypeOK, stored, tickVars, Heights, Refs
  <2> QED BY <1>3, <2>2, <2>3, <2>5 DEF Reorg, TypeInv, tickVars
<1> QED BY <1>1, <1>2, <1>3

LEMMA LeaveType ==
  ASSUME TypeInv, LeaveTick("idle") \/ LeaveTick("down"), UNCHANGED <<chainVars, fresh, stored>>,
         faults' \in 0..MaxFaults, rewound' \in BOOLEAN, cursor' \in Heights
  PROVE  TypeInv'
<1>1. /\ reply' \in [Refs -> Heights] /\ todo' = {} /\ truth' = {}
      /\ head' = 0 /\ line' = 0 /\ from' = 0 /\ to' = 0 /\ chunk' = 0
      /\ pc' \in {"idle", "down"}
  BY Constants DEF LeaveTick, Heights
<1>2. TypeOK'
  BY <1>1, Constants DEF TypeInv, TypeOK, chainVars, stored, Heights, Refs
<1> QED BY <1>1, <1>2 DEF TypeInv, chainVars

LEMMA FaultType == ASSUME TypeInv, NEW k, Fault(k) PROVE faults' \in 0..MaxFaults
  BY Constants DEF Fault, TypeInv, TypeOK

(* The first half of a tick: head, line, cursor and window.                *)
LEMMA TickType ==
  ASSUME TypeInv, ReadHead \/ FinalityLine \/ RewindOnce \/ Scan
  PROVE  TypeInv'
<1> USE DEF TypeInv, TypeOK, chainVars, stored, tickVars
<1>1. CASE ReadHead
  <2>1. head' \in Heights
    BY <1>1, Constants DEF ReadHead, Heights
  <2> QED BY <1>1, <2>1 DEF ReadHead
<1>2. CASE FinalityLine
  <2>1. line' \in Heights
    BY <1>2, Constants DEF FinalityLine, Heights
  <2> QED BY <1>2, <2>1 DEF FinalityLine
<1>3. CASE RewindOnce
  <2>1. cursor' \in Heights
    BY <1>3, Constants DEF RewindOnce, Heights, Minus
  <2> QED BY <1>3, <2>1 DEF RewindOnce
<1>4. CASE Scan
  <2>1. from' \in 0..MaxHeight + 1
    BY <1>4, Constants DEF Scan, Heights, ScanFrom
  <2> QED BY <1>4, <2>1, Constants DEF Scan
<1> QED BY <1>1, <1>2, <1>3, <1>4

LEMMA GetLogsType == ASSUME TypeInv, GetLogs PROVE TypeInv'
<1>1. to' \in Heights
  BY Constants DEF GetLogs, Heights, TypeInv, TypeOK
<1>2. \A r \in Refs : LogOf(r) \in Heights
  BY Constants DEF LogOf, Refs, TypeInv, TypeOK, Heights
<1>3. reply' \in [Refs -> Heights]
  BY <1>2, Constants DEF GetLogs, Heights
<1>4. todo' \subseteq Refs /\ truth' \subseteq Refs
  BY DEF GetLogs
<1> QED BY <1>1, <1>3, <1>4
        DEF GetLogs, TypeInv, TypeOK, chainVars, stored, tickVars, Heights, Refs

LEMMA ApplyType ==
  ASSUME TypeInv, NEW r \in Refs, Apply(r) \/ Revoke(r) \/ Settle(r)
  PROVE  TypeInv'
<1>1. r[1] \in Transfers
  BY DEF Refs
<1>2. /\ status' \in [Transfers -> {"pending", "detected", "confirmed"}]
      /\ row' \in [Refs -> {"none", "live", "removed"}] /\ at' \in [Refs -> Heights]
  <2>1. CASE Apply(r)
    <3>1. reply[r] \in Heights
      BY DEF TypeInv, TypeOK
    <3> QED BY <1>1, <2>1, <3>1
            DEF Apply, Reapply, Orphan, Credit, TypeInv, TypeOK, stored
  <2>2. CASE Revoke(r) \/ Settle(r)
    BY <1>1, <2>2 DEF Revoke, Settle, TypeInv, TypeOK
  <2> QED BY <2>1, <2>2
<1>3. /\ UNCHANGED <<chainVars, faults, fresh, cursor, rewound, pc, head, line, from, to, chunk,
                     reply, truth>>
      /\ todo' \subseteq todo
  BY DEF Apply, Revoke, Settle, tickVars
<1> QED BY <1>2, <1>3 DEF TypeInv, TypeOK, chainVars, Heights, Refs

LEMMA SaveCursorType == ASSUME TypeInv, SaveCursor PROVE TypeInv'
<1>1. /\ cursor' \in Heights /\ from' \in 0..MaxHeight + 1 /\ fresh' \in Heights
      /\ reply' \in [Refs -> Heights] /\ truth' = {}
  BY Constants DEF SaveCursor, SaveTo, TypeInv, TypeOK, Heights
<1>2. /\ chunk' \in 0..MaxChunks
      /\ (pc' = "logs" /\ chunk' < MaxChunks) \/ pc' = "settle"
  BY Constants DEF SaveCursor, MoreChunks, TypeInv, TypeOK
<1>3. UNCHANGED <<chainVars, faults, stored, rewound, head, line, to, todo>>
  BY DEF SaveCursor
<1> QED BY <1>1, <1>2, <1>3 DEF TypeInv, TypeOK, chainVars, stored, Heights, Refs

LEMMA NextType == TypeInv /\ [Next]_vars => TypeInv'
<1> SUFFICES ASSUME TypeInv, [Next]_vars PROVE TypeInv'
  OBVIOUS
<1>1. CASE RewindFails \/ Abort \/ Crash \/ EndTick \/ \E r \in Refs : ApplyFails(r)
  <2>1. faults' \in 0..MaxFaults
    BY <1>1, FaultType DEF RewindFails, Abort, Crash, EndTick, ApplyFails, TypeInv, TypeOK
  <2>2. /\ LeaveTick("idle") \/ LeaveTick("down")
        /\ UNCHANGED <<chainVars, fresh, stored>>
        /\ rewound' \in BOOLEAN /\ cursor' \in Heights
    BY <1>1 DEF RewindFails, Abort, Crash, EndTick, ApplyFails, TypeInv, TypeOK
  <2> QED BY <2>1, <2>2, LeaveType
<1>2. CASE RangeTooDeep
  BY <1>2, FaultType
  DEF RangeTooDeep, TypeInv, TypeOK, chainVars, stored, tickVars, Heights, Refs
<1>3. CASE Restart
  BY <1>3 DEF Restart, TypeInv, TypeOK, chainVars, stored, tickVars, Heights, Refs
<1>4. CASE UNCHANGED vars
  BY <1>4 DEF vars, TypeInv, TypeOK, chainVars, stored, tickVars, Heights, Refs
<1> QED BY <1>1, <1>2, <1>3, <1>4, ChainType, TickType, GetLogsType, ApplyType, SaveCursorType
        DEF Next, Work

(* Every variable keeps its type; in particular no tick scans more than    *)
(* maxChunksPerTick chunks and the cursor never passes the last block.     *)
THEOREM TypeCorrect == Spec => []TypeOK
<1>1. Spec => []TypeInv
  BY InitType, NextType, PTL DEF Spec
<1>2. TypeInv => TypeOK
  BY DEF TypeInv
<1> QED BY <1>1, <1>2, PTL
-----------------------------------------------------------------------------
(* Where every endpoint is as far as the chain, what is stored where it is *)
(* when the logs are read is among them.                                   *)
ReplyInv ==
    pc = "apply" =>
      /\ \A r \in todo : reply[r] # 0
      /\ \A r \in truth : row[r] = "live" /\ at[r] \in from..to => reply[r] # 0

LEMMA GetLogsReply == ASSUME Lag = 0, TypeInv, GetLogs PROVE ReplyInv'
<1>1. /\ reply' = [r \in Refs |->
              IF LogOf(r) \in from..to' /\ LogOf(r) <= tip THEN LogOf(r) ELSE 0]
      /\ todo' = {r \in Refs : reply'[r] # 0}
      /\ truth' = {r \in Refs : LogOf(r) # 0 /\ LogOf(r) = at[r]}
      /\ at' = at /\ from' = from
  BY Constants DEF GetLogs, stored, TypeInv, TypeOK, Heights
<1>2. \A r \in Refs : LogOf(r) <= tip
  BY Constants DEF LogOf, Refs, TypeInv, TypeOK, Heights
<1> QED BY <1>1, <1>2 DEF ReplyInv

LEMMA ApplyReply ==
  ASSUME TypeInv, ReplyInv, NEW r \in Refs, Apply(r) \/ Revoke(r) \/ Settle(r)
  PROVE  ReplyInv'
<1>1. UNCHANGED <<pc, from, to, reply, truth>> /\ todo' \subseteq todo
  BY DEF Apply, Revoke, Settle, tickVars
<1>2. CASE Apply(r)
  <2>1. pc = "apply" /\ reply[r] # 0
    BY <1>2 DEF Apply, IsNext, ReplyInv
  <2>2. \A q \in Refs : q = r \/ (row'[q] = row[q] /\ at'[q] = at[q])
    BY <1>2 DEF Apply, Reapply, Orphan, Credit, stored, TypeInv, TypeOK
  <2> QED BY <1>1, <2>1, <2>2 DEF ReplyInv, TypeInv, TypeOK
<1>3. CASE Revoke(r) \/ Settle(r)
  <2>1. at' = at /\ \A q \in Refs : row'[q] = "live" => row[q] = "live"
    BY <1>3 DEF Revoke, Settle, TypeInv, TypeOK
  <2> QED BY <1>1, <2>1 DEF ReplyInv, TypeInv, TypeOK
<1> QED BY <1>2, <1>3

LEMMA NextReply == Lag = 0 /\ TypeInv /\ ReplyInv /\ [Next]_vars => ReplyInv'
<1> SUFFICES ASSUME Lag = 0, TypeInv, ReplyInv, [Next]_vars PROVE ReplyInv'
  OBVIOUS
<1>1. CASE Mine \/ Finalise \/ Reorg \/ UNCHANGED vars
  BY <1>1 DEF Mine, Finalise, Reorg, vars, tickVars, stored, ReplyInv
<1>2. CASE \/ ReadHead \/ FinalityLine \/ RewindOnce \/ Scan \/ SaveCursor \/ EndTick
           \/ Restart \/ RewindFails \/ RangeTooDeep \/ Abort \/ Crash
           \/ \E r \in Refs : ApplyFails(r)
  <2>1. pc' # "apply"
    BY <1>2 DEF ReadHead, FinalityLine, RewindOnce, Scan, SaveCursor, EndTick, Restart,
       RewindFails, RangeTooDeep, Abort, Crash, ApplyFails, LeaveTick
  <2> QED BY <2>1 DEF ReplyInv
<1> QED BY <1>1, <1>2, GetLogsReply, ApplyReply DEF Next, Work

(* What is revoked is not where it is stored, for endpoints that are all   *)
(* as far as the chain (BscLagging refutes it where one is behind).        *)
THEOREM AbsentReallyIs == ASSUME Lag = 0 PROVE Spec => AbsentIsGone
<1>1. Init => ReplyInv
  BY DEF Init, ReplyInv
<1>2. TypeInv /\ ReplyInv /\ [Next]_vars =>
        [\A r \in Refs : row[r] = "live" /\ row'[r] = "removed" => r \notin truth]_vars
  <2> SUFFICES ASSUME TypeInv, ReplyInv, Next, NEW r \in Refs,
                      row[r] = "live", row'[r] = "removed"
               PROVE  r \notin truth
    OBVIOUS
  <2>1. row' # row
    OBVIOUS
  <2>2. PICK q \in Refs : Revoke(q)
    <3>1. \/ \E q \in Refs : Apply(q) \/ Revoke(q)
          \/ row' = row
      BY DEF Next, Work, Mine, Finalise, Reorg, ReadHead, FinalityLine, RewindOnce, Scan,
         GetLogs, SaveCursor, EndTick, Restart, RewindFails, RangeTooDeep, Abort, Crash,
         ApplyFails, Settle, stored
    <3>2. ASSUME NEW q \in Refs, Apply(q) PROVE FALSE
      BY <3>2 DEF Apply, Reapply, Orphan, Credit, stored, TypeInv, TypeOK
    <3> QED BY <2>1, <3>1, <3>2
  <2>3. q = r
    BY <2>2 DEF Revoke, TypeInv, TypeOK
  <2> QED BY <2>2, <2>3 DEF Revoke, Missing, ReplyInv
<1>3. Spec => []TypeInv
  BY InitType, NextType, PTL DEF Spec
<1> QED BY <1>1, <1>2, <1>3, NextReply, PTL DEF Spec, AbsentIsGone
-----------------------------------------------------------------------------
(* Nothing final is missed where the window covers an outage and what is   *)
(* not yet final, where a tick may scan all of the window, where the chain *)
(* is longer than all restarts can rewind, and where endpoints are level,  *)
(* keep their history and let the watcher rewind.                          *)
WindowSuffices ==
    /\ Lag = 0
    /\ Faults \cap {"rewind", "history"} = {}
    /\ Outage + Confirmations <= Depth
    /\ Depth <= MaxChunks * LogRange
    /\ Depth * (MaxFaults + 1) <= First

Waiting(t) == mined[t] # 0 /\ status[t] # "confirmed"

ChainInv ==
    /\ tip <= final + Confirmations
    /\ \A t \in Transfers : mined[t] # 0 => First < mined[t]
    /\ cursor <= tip /\ fresh <= tip
    /\ tip <= fresh + Outage \/ (pc = "down" /\ cursor > 0)
    /\ cursor = 0 => fresh = First

TickInv ==
    /\ pc \in InTick => First <= head /\ fresh <= head /\ head <= tip /\ cursor <= head
    /\ pc \in InTick \ {"line"} => line <= final /\ head <= line + Confirmations
    /\ pc \in InTick \ {"line", "rewind"} => rewound
    /\ pc = "down" => ~rewound
    /\ pc \in {"logs", "apply"} => from \in 1..head /\ (cursor = 0 => First < from + Depth)
    /\ pc \in {"logs", "apply"} => cursor < from \/ head + chunk * LogRange < from + Depth
    /\ pc = "apply" => to \in from..head /\ to < from + LogRange
                         /\ (to < head => to + 1 = from + LogRange)

(* Every process backs the cursor up once.                                 *)
CursorInv == cursor = 0 \/ First < cursor + Depth * (IF rewound THEN faults + 1 ELSE faults)

(* What the cursor has passed without confirming it came so late that the  *)
(* window, or the rewind that is due, still covers it.                     *)
CoverInv ==
    \A t \in Transfers : Waiting(t) =>
      IF rewound THEN cursor < mined[t] \/ fresh < mined[t] + Confirmations
                 ELSE cursor < mined[t] + Depth

(* What a tick has scanned is confirmed, if it lies below the line; in the *)
(* current chunk it may also be among the logs still to be applied.        *)
ScanInv ==
    \A t \in Transfers : Waiting(t) /\ mined[t] <= line =>
      /\ pc \in {"logs", "apply"} => from <= mined[t]
      /\ pc = "apply" /\ mined[t] <= to =>
           <<t, position[t]>> \in todo /\ reply[<<t, position[t]>>] = mined[t]

WatchInv == TypeInv /\ ChainInv /\ TickInv /\ CursorInv /\ CoverInv /\ ScanInv

(* The types that arithmetic needs.                                        *)
LEMMA Numbers ==
  ASSUME TypeInv
  PROVE  /\ tip \in Nat /\ final \in Nat /\ fresh \in Nat /\ cursor \in Nat /\ faults \in Nat
         /\ faults <= MaxFaults
         /\ head \in Nat /\ line \in Nat /\ from \in Nat /\ to \in Nat /\ chunk \in Nat
         /\ \A t \in Transfers : mined[t] \in Nat
         /\ rewound \in BOOLEAN
  BY Constants DEF TypeInv, TypeOK, Heights

LEMMA NumbersNext ==
  ASSUME TypeInv'
  PROVE  /\ tip' \in Nat /\ fresh' \in Nat /\ cursor' \in Nat /\ from' \in Nat
         /\ \A t \in Transfers : mined'[t] \in Nat
  BY Constants DEF TypeInv, TypeOK, Heights

(* One more rewind costs one more Depth, one more chunk one more LogRange. *)
LEMMA OneMore == ASSUME NEW n \in Nat PROVE Depth * (n + 1) = Depth * n + Depth /\ Depth * n \in Nat
  BY Constants

LEMMA OneChunkMore ==
  ASSUME NEW n \in Nat
  PROVE  (n + 1) * LogRange = n * LogRange + LogRange /\ n * LogRange \in Nat
  BY Constants

LEMMA ChunksGrow ==
  ASSUME NEW n \in Nat, n < MaxChunks
  PROVE  (n + 1) * LogRange <= MaxChunks * LogRange
<1>1. PICK k \in Nat : MaxChunks = (n + 1) + k
  <2>1. MaxChunks - (n + 1) \in Nat /\ MaxChunks = (n + 1) + (MaxChunks - (n + 1))
    BY Constants
  <2> QED BY <2>1
<1>2. /\ ((n + 1) + k) * LogRange = (n + 1) * LogRange + k * LogRange
      /\ k * LogRange \in Nat /\ (n + 1) * LogRange \in Nat
  BY Constants
<1> QED BY <1>1, <1>2

LEMMA Rewinds == ASSUME NEW n \in Nat, n <= MaxFaults PROVE Depth * n <= Depth * MaxFaults
<1>1. PICK k \in Nat : MaxFaults = n + k
  <2>1. MaxFaults - n \in Nat /\ MaxFaults = n + (MaxFaults - n)
    BY Constants
  <2> QED BY <2>1
<1>2. Depth * (n + k) = Depth * n + Depth * k /\ Depth * k \in Nat /\ Depth * n \in Nat
  BY Constants
<1> QED BY <1>1, <1>2

LEMMA InitWatch == WindowSuffices /\ Init => WatchInv
<1> SUFFICES ASSUME WindowSuffices, Init PROVE WatchInv
  OBVIOUS
<1>1. TypeInv
  BY InitType
<1>2. \A t \in Transfers : mined[t] = 0
  BY DEF Init
<1>3. ChainInv
  BY <1>2, Constants DEF Init, ChainInv
<1> QED BY <1>1, <1>2, <1>3
        DEF Init, WatchInv, TickInv, InTick, CursorInv, CoverInv, ScanInv, Waiting

(* Whatever is included lies above the finalised block, and what is not    *)
(* above it stays where it is.                                             *)
LEMMA IncludeAbove ==
  ASSUME WindowSuffices, TypeInv, WatchInv, TypeInv', NEW new, Include(new),
         \A t \in Transfers : new[t] = mined[t] \/ new[t] = 0 \/ final < new[t],
         \A t \in Transfers : mined[t] # 0 /\ mined[t] <= final => new[t] = mined[t],
         ChainInv', tip <= tip',
         UNCHANGED <<final, faults, fresh, cursor, stored, rewound, pc, tickVars>>
  PROVE  WatchInv'
<1> USE Numbers, NumbersNext, Constants DEF WatchInv
<1>1. /\ \A t \in Transfers : mined'[t] = new[t]
      /\ \A t \in Transfers : new[t] = mined[t] => position'[t] = position[t]
      /\ UNCHANGED <<status, head, line, from, to, chunk, todo, reply>>
  BY DEF Include, stored, tickVars
<1>2. TickInv'
  BY <1>1 DEF TickInv, InTick
<1>3. CursorInv'
  BY DEF CursorInv
<1>4. \A t \in Transfers : Waiting(t)' =>
        (Waiting(t) /\ new[t] = mined[t]) \/ final < mined'[t]
  BY <1>1 DEF Waiting
<1>5. CoverInv'
  <2>1. fresh < final + 1 + Confirmations /\ cursor < final + 1 + Depth
    BY DEF ChainInv, WindowSuffices
  <2> QED BY <1>1, <1>4, <2>1 DEF CoverInv
<1>6. ScanInv'
  <2>1. pc \in {"logs", "apply"} => line <= final
    BY DEF TickInv, InTick
  <2> QED BY <1>1, <1>4, <2>1 DEF ScanInv
<1> QED BY <1>2, <1>3, <1>5, <1>6

LEMMA ChainWatch ==
  ASSUME WindowSuffices, TypeInv, WatchInv, Mine \/ Finalise \/ Reorg, TypeInv'
  PROVE  WatchInv'
<1> USE Numbers, NumbersNext, Constants
<1>1. CASE Mine
  <2>1. PICK S \in SUBSET {t \in Transfers : mined[t] = 0} :
            Include([t \in Transfers |-> IF t \in S THEN tip + 1 ELSE mined[t]])
    BY <1>1 DEF Mine
  <2> DEFINE new == [t \in Transfers |-> IF t \in S THEN tip + 1 ELSE mined[t]]
  <2>2. \A t \in Transfers : mined'[t] = new[t] /\ (new[t] = tip + 1 \/ new[t] = mined[t])
    BY <2>1 DEF Include
  <2>3. final <= tip /\ First <= tip
    BY DEF WatchInv, TypeInv
  <2>4. ChainInv'
    BY <1>1, <2>2, <2>3 DEF Mine, WatchInv, ChainInv
  <2>5. /\ \A t \in Transfers : new[t] = mined[t] \/ new[t] = 0 \/ final < new[t]
        /\ \A t \in Transfers : mined[t] # 0 /\ mined[t] <= final => new[t] = mined[t]
    BY <2>3
  <2>6. tip <= tip' /\ UNCHANGED <<final, faults, fresh, cursor, stored, rewound, pc, tickVars>>
    BY <1>1 DEF Mine
  <2> HIDE DEF new
  <2> QED BY <2>1, <2>4, <2>5, <2>6, IncludeAbove DEF new
<1>2. CASE Finalise
  <2>1. /\ final' = final + 1
        /\ UNCHANGED <<mined, position, tip, faults, fresh, cursor, status, rewound, pc,
                       head, line, from, to, chunk, todo, reply>>
    BY <1>2 DEF Finalise, stored, tickVars
  <2> QED BY <2>1 DEF WatchInv, ChainInv, TickInv, CursorInv, CoverInv, ScanInv, Waiting, InTick
<1>3. CASE Reorg
  <2>1. PICK new \in [Transfers -> {0} \cup final..tip] :
            /\ \A t \in Transfers :
                 IF mined[t] \in 1..final THEN new[t] = mined[t] ELSE new[t] # final
            /\ Include(new)
    BY <1>3 DEF Reorg
  <2>2. First <= final
    BY DEF WatchInv, TypeInv
  <2>3. /\ \A t \in Transfers : new[t] = mined[t] \/ new[t] = 0 \/ final < new[t]
        /\ \A t \in Transfers : mined[t] # 0 /\ mined[t] <= final => new[t] = mined[t]
    BY <2>1
  <2>4. UNCHANGED <<tip, final, faults, fresh, cursor, stored, rewound, pc, tickVars>>
    BY <1>3 DEF Reorg
  <2>5. \A t \in Transfers : mined'[t] = new[t]
    BY <2>1 DEF Include
  <2>6. ChainInv'
    BY <2>2, <2>3, <2>4, <2>5 DEF WatchInv, ChainInv
  <2> QED BY <2>1, <2>3, <2>4, <2>6, IncludeAbove
<1> QED BY <1>1, <1>2, <1>3

LEMMA HeadWatch ==
  ASSUME WindowSuffices, TypeInv, WatchInv, ReadHead \/ FinalityLine, TypeInv'
  PROVE  WatchInv'
<1> USE Numbers, NumbersNext, Constants
<1>1. /\ UNCHANGED <<chainVars, faults, fresh, cursor, stored, rewound,
                     from, to, chunk, todo, reply>>
      /\ pc' \in {"line", "rewind"} /\ pc \in {"idle", "line"}
  BY DEF ReadHead, FinalityLine
<1>2. ChainInv' /\ CursorInv' /\ CoverInv' /\ ScanInv'
  BY <1>1 DEF WatchInv, ChainInv, CursorInv, CoverInv, ScanInv, Waiting, chainVars, stored
<1>3. CASE ReadHead
  <2>1. head' = tip /\ pc' = "line" /\ First <= tip
    BY <1>3 DEF ReadHead, WindowSuffices, WatchInv, TypeInv
  <2>2. TickInv'
    BY <1>1, <2>1 DEF WatchInv, ChainInv, TickInv, InTick, chainVars
  <2> QED BY <1>2, <2>2 DEF WatchInv
<1>4. CASE FinalityLine
  <2>1. head' = head /\ pc' = "rewind" /\ pc = "line"
    BY <1>4 DEF FinalityLine
  <2>2. head <= tip /\ tip <= final + Confirmations
    BY <2>1 DEF WatchInv, ChainInv, TickInv, InTick
  <2>3. line' <= final /\ head <= line' + Confirmations
    BY <1>4, <2>2 DEF FinalityLine, WindowSuffices
  <2>4. TickInv'
    BY <1>1, <2>1, <2>3 DEF WatchInv, TickInv, InTick, chainVars
  <2> QED BY <1>2, <2>4 DEF WatchInv
<1> QED BY <1>3, <1>4

LEMMA RewindWatch == ASSUME WindowSuffices, TypeInv, WatchInv, RewindOnce, TypeInv' PROVE WatchInv'
<1> USE Numbers, NumbersNext, Constants
<1>1. /\ UNCHANGED <<chainVars, faults, fresh, stored, tickVars>>
      /\ pc = "rewind" /\ pc' = "scan" /\ rewound' = TRUE
      /\ cursor' = IF rewound THEN cursor ELSE Minus(cursor, Depth)
  BY DEF RewindOnce
<1>2. ~rewound /\ cursor # 0 => Depth < cursor /\ First < (cursor - Depth) + Depth * (faults + 1)
  <2> SUFFICES ASSUME ~rewound, cursor # 0
               PROVE  Depth < cursor /\ First < (cursor - Depth) + Depth * (faults + 1)
    OBVIOUS
  <2>1. First < cursor + Depth * faults
    BY DEF WatchInv, CursorInv
  <2>2. Depth * faults <= Depth * MaxFaults
    BY Rewinds
  <2>3. Depth * (MaxFaults + 1) = Depth * MaxFaults + Depth /\ Depth * MaxFaults \in Nat
    BY OneMore
  <2>4. Depth * (faults + 1) = Depth * faults + Depth /\ Depth * faults \in Nat
    BY OneMore
  <2>5. Depth * (MaxFaults + 1) <= First
    BY DEF WindowSuffices
  <2> HIDE DEF WatchInv
  <2> QED BY <2>1, <2>2, <2>3, <2>4, <2>5
<1>3. cursor' <= cursor /\ (cursor' = 0 <=> cursor = 0)
  BY <1>1, <1>2 DEF Minus
<1>4. ChainInv'
  BY <1>1, <1>3 DEF WatchInv, ChainInv, chainVars
<1>5. TickInv'
  BY <1>1, <1>3 DEF WatchInv, TickInv, InTick, chainVars, tickVars
<1>6. CursorInv'
  <2>1. CASE rewound
    BY <1>1, <2>1 DEF WatchInv, CursorInv
  <2>2. CASE ~rewound
    <3>1. cursor' = Minus(cursor, Depth)
      BY <1>1, <2>2
    <3>2. cursor' = 0 \/ (cursor' = cursor - Depth /\ cursor # 0)
      BY <3>1 DEF Minus
    <3> QED BY <1>1, <1>2, <2>2, <3>2 DEF CursorInv
  <2> QED BY <2>1, <2>2
<1>7. CoverInv'
  <2> SUFFICES ASSUME NEW t \in Transfers, Waiting(t)'
               PROVE  cursor' < mined[t] \/ fresh < mined[t] + Confirmations
    BY <1>1 DEF CoverInv, chainVars
  <2>1. Waiting(t) /\ mined[t] > 0
    BY <1>1 DEF Waiting, chainVars, stored
  <2>2. IF rewound THEN cursor < mined[t] \/ fresh < mined[t] + Confirmations
                   ELSE cursor < mined[t] + Depth
    BY <2>1 DEF WatchInv, CoverInv
  <2> QED BY <1>1, <2>1, <2>2 DEF Minus
<1>8. ScanInv'
  BY <1>1 DEF ScanInv
<1> QED BY <1>4, <1>5, <1>6, <1>7, <1>8 DEF WatchInv

(* A scan begins before everything that waits.                             *)
LEMMA ScanWatch == ASSUME WindowSuffices, TypeInv, WatchInv, Scan, TypeInv' PROVE WatchInv'
<1> USE Numbers, NumbersNext, Constants
<1>1. /\ UNCHANGED <<chainVars, faults, fresh, cursor, stored, rewound, head, line, to, chunk,
                     todo, reply>>
      /\ pc = "scan" /\ pc' \in {"settle", "logs"} /\ from' = ScanFrom
      /\ pc' = "logs" => ScanFrom <= head
  <2>1. ScanFrom \in Nat
    BY DEF ScanFrom
  <2> QED BY <2>1 DEF Scan
<1>2. /\ rewound /\ First <= head /\ fresh <= head /\ head <= tip /\ tip <= fresh + Outage
      /\ cursor = 0 => fresh = First
  BY <1>1 DEF WatchInv, ChainInv, TickInv, InTick
<1>3. /\ ScanFrom > 0
      /\ cursor = 0 => First < ScanFrom + Depth
      /\ cursor < ScanFrom \/ head < ScanFrom + Depth
  BY <1>2 DEF ScanFrom
<1>4. ASSUME NEW t \in Transfers, Waiting(t) PROVE ScanFrom <= mined[t]
  <2>1. cursor < mined[t] \/ fresh < mined[t] + Confirmations
    BY <1>2, <1>4 DEF WatchInv, CoverInv
  <2>2. mined[t] > 0 /\ First < mined[t]
    BY <1>4 DEF Waiting, WatchInv, ChainInv
  <2>3. Outage + Confirmations <= Depth
    BY DEF WindowSuffices
  <2> QED BY <1>2, <2>1, <2>2, <2>3 DEF ScanFrom
<1>5. ChainInv' /\ CursorInv' /\ CoverInv'
  BY <1>1 DEF WatchInv, ChainInv, CursorInv, CoverInv, Waiting, chainVars, stored
<1>6. TickInv'
  <2>1. chunk = 0 /\ 0 * LogRange = 0
    BY <1>1 DEF TypeInv
  <2> QED BY <1>1, <1>2, <1>3, <2>1 DEF WatchInv, TickInv, InTick, chainVars
<1>7. ScanInv'
  BY <1>1, <1>4 DEF ScanInv, Waiting, chainVars, stored
<1> QED BY <1>5, <1>6, <1>7 DEF WatchInv

LEMMA GetLogsWatch == ASSUME WindowSuffices, TypeInv, WatchInv, GetLogs, TypeInv' PROVE WatchInv'
<1> USE Numbers, NumbersNext, Constants
<1>1. /\ UNCHANGED <<chainVars, faults, fresh, cursor, stored, rewound, head, line, from, chunk>>
      /\ pc = "logs" /\ pc' = "apply"
      /\ to' = IF from + LogRange - 1 > head THEN head ELSE from + LogRange - 1
      /\ reply' = [r \in Refs |->
              IF LogOf(r) \in from..to' /\ LogOf(r) <= tip THEN LogOf(r) ELSE 0]
      /\ todo' = {r \in Refs : reply'[r] # 0}
  BY DEF GetLogs, WindowSuffices
<1>2. /\ from \in 1..head /\ to' \in from..head /\ to' < from + LogRange
      /\ to' < head => to' + 1 = from + LogRange
  BY <1>1 DEF WatchInv, TickInv
<1>3. ChainInv' /\ CursorInv' /\ CoverInv'
  BY <1>1 DEF WatchInv, ChainInv, CursorInv, CoverInv, Waiting, chainVars, stored
<1>4. TickInv'
  BY <1>1, <1>2 DEF WatchInv, TickInv, InTick, chainVars
<1>5. ScanInv'
  <2> SUFFICES ASSUME NEW t \in Transfers, Waiting(t), mined[t] <= line
               PROVE  /\ from <= mined[t]
                      /\ mined[t] <= to' => /\ <<t, position[t]>> \in todo'
                                            /\ reply'[<<t, position[t]>>] = mined[t]
    BY <1>1 DEF ScanInv, Waiting, chainVars, stored
  <2>1. from <= mined[t]
    BY <1>1 DEF WatchInv, ScanInv
  <2>2. <<t, position[t]>> \in Refs /\ LogOf(<<t, position[t]>>) = mined[t]
    BY DEF Refs, LogOf, WatchInv, TypeInv, TypeOK
  <2>3. mined[t] <= tip /\ mined[t] # 0
    BY DEF WatchInv, TypeInv, Waiting
  <2> QED BY <1>1, <2>1, <2>2, <2>3
<1> QED BY <1>3, <1>4, <1>5 DEF WatchInv

(* A log below the line confirms its invoice, and nothing undoes that.     *)
LEMMA ApplyWatch ==
  ASSUME WindowSuffices, TypeInv, WatchInv, TypeInv',
         NEW r \in Refs, Apply(r) \/ Revoke(r) \/ Settle(r)
  PROVE  WatchInv'
<1> USE Numbers, NumbersNext, Constants
<1>1. /\ UNCHANGED <<chainVars, faults, fresh, cursor, rewound, pc, head, line, from, to, chunk,
                     reply>>
      /\ r[1] \in Transfers
  BY DEF Apply, Revoke, Settle, tickVars, Refs
<1>2. \A t \in Transfers : Waiting(t)' => Waiting(t)
  BY <1>1 DEF Apply, Reapply, Orphan, Credit, Revoke, Missing, Settle, Settleable, Unsettled,
     stored, Waiting, WatchInv, TypeInv, TypeOK, chainVars
<1>3. ChainInv' /\ TickInv' /\ CursorInv' /\ CoverInv'
  BY <1>1, <1>2 DEF WatchInv, ChainInv, TickInv, CursorInv, CoverInv, chainVars
<1>4. CASE Apply(r)
  <2>1. pc = "apply" /\ todo' = todo \ {r}
    BY <1>4 DEF Apply
  <2>2. reply[r] <= line => ~Waiting(r[1])'
    BY <1>1, <1>4 DEF Apply, Reapply, Orphan, Credit, stored, Waiting, WatchInv, TypeInv, TypeOK
  <2>3. ScanInv'
    <3> SUFFICES ASSUME NEW t \in Transfers, Waiting(t)', mined[t] <= line
                 PROVE  /\ from <= mined[t]
                        /\ mined[t] <= to => /\ <<t, position[t]>> \in todo \ {r}
                                             /\ reply[<<t, position[t]>>] = mined[t]
      BY <1>1, <2>1 DEF ScanInv, chainVars
    <3>1. /\ from <= mined[t]
          /\ mined[t] <= to => /\ <<t, position[t]>> \in todo
                               /\ reply[<<t, position[t]>>] = mined[t]
      BY <1>2, <2>1 DEF WatchInv, ScanInv
    <3> QED BY <2>2, <3>1
  <2> QED BY <1>3, <2>3, TypeInv' DEF WatchInv
<1>5. CASE Revoke(r) \/ Settle(r)
  <2>1. todo' = todo
    BY <1>5 DEF Revoke, Settle, tickVars
  <2>2. ScanInv'
    BY <1>1, <1>2, <2>1 DEF WatchInv, ScanInv, chainVars
  <2> QED BY <1>3, <2>2, TypeInv' DEF WatchInv
<1> QED BY <1>4, <1>5

(* What the cursor now passes is confirmed, or lies above the line.        *)
LEMMA SaveCursorWatch ==
  ASSUME WindowSuffices, TypeInv, WatchInv, SaveCursor, TypeInv'
  PROVE  WatchInv'
<1> USE Numbers, NumbersNext, Constants
<1>1. /\ UNCHANGED <<chainVars, faults, stored, rewound, head, line, to, todo>>
      /\ pc = "apply" /\ todo = {} /\ from' = to + 1
      /\ cursor' = IF cursor >= to THEN cursor ELSE to
      /\ chunk' = chunk + 1
      /\ \/ to < head /\ pc' = "logs" /\ fresh' = fresh
         \/ (to >= head \/ chunk + 1 >= MaxChunks) /\ pc' = "settle" /\ fresh' = head
  BY DEF SaveCursor, SaveTo, MoreChunks
<1>2. /\ First <= head /\ fresh <= head /\ head <= tip /\ line <= final
      /\ head <= line + Confirmations /\ rewound
      /\ from \in 1..head /\ to \in from..head /\ (cursor = 0 => First < from + Depth)
      /\ cursor <= head /\ tip <= fresh + Outage
  BY <1>1 DEF WatchInv, ChainInv, TickInv, InTick
<1>a. /\ to < head => to + 1 = from + LogRange
      /\ chunk < MaxChunks
  BY <1>1 DEF WatchInv, TickInv, TypeInv
<1>b. (chunk + 1) * LogRange = chunk * LogRange + LogRange /\ chunk * LogRange \in Nat
  BY OneChunkMore
<1>3. \A t \in Transfers : Waiting(t) => to < mined[t] \/ line < mined[t]
  BY <1>1 DEF WatchInv, ScanInv
<1>4. cursor' > 0 /\ cursor <= cursor' /\ cursor' <= tip
  BY <1>1, <1>2
<1>5. ChainInv'
  BY <1>1, <1>2, <1>4 DEF WatchInv, ChainInv, chainVars
<1>c. cursor < from \/ head + chunk * LogRange < from + Depth
  BY <1>1 DEF WatchInv, TickInv
<1>6. TickInv'
  <2>1. pc' = "logs" => cursor' < from' \/ head + chunk' * LogRange < from' + Depth
    BY <1>1, <1>2, <1>a, <1>b, <1>c
  <2> QED BY <1>1, <1>2, <1>4, <2>1 DEF WatchInv, TickInv, InTick, chainVars
<1>7. CursorInv'
  <2>1. Depth * (faults + 1) = Depth * faults + Depth /\ Depth * faults \in Nat
    BY OneMore
  <2>2. CASE cursor = 0
    <3>1. First < cursor' + (Depth * faults + Depth)
      BY <1>1, <1>2, <2>1, <2>2
    <3> QED BY <1>1, <1>2, <2>1, <3>1 DEF CursorInv
  <2>3. CASE cursor # 0
    <3>1. First < cursor + Depth * (faults + 1)
      BY <1>2, <2>3 DEF WatchInv, CursorInv
    <3>2. First < cursor' + Depth * (faults + 1)
      BY <1>4, <2>1, <3>1
    <3> QED BY <1>1, <1>2, <3>2 DEF CursorInv
  <2> QED BY <2>2, <2>3
<1>8. CoverInv'
  <2> SUFFICES ASSUME NEW t \in Transfers, Waiting(t)
               PROVE  cursor' < mined[t] \/ fresh' < mined[t] + Confirmations
    BY <1>1, <1>2 DEF CoverInv, Waiting, chainVars, stored
  <2>1. cursor < mined[t] \/ fresh < mined[t] + Confirmations
    BY <1>2 DEF WatchInv, CoverInv
  <2>2. line < mined[t] => fresh' < mined[t] + Confirmations
    BY <1>1, <1>2
  <2>3. ~(line < mined[t]) => to < mined[t]
    BY <1>3
  <2>4. CASE cursor < mined[t]
    BY <1>1, <2>2, <2>3, <2>4
  <2>5. CASE mined[t] <= cursor /\ mined[t] <= line
    <3>1. to < mined[t]
      BY <2>3, <2>5
    <3>2. head + chunk * LogRange < from + Depth /\ to < head
      BY <1>2, <1>c, <2>5, <3>1
    <3>3. chunk + 1 < MaxChunks
      <4> SUFFICES ASSUME chunk + 1 >= MaxChunks PROVE FALSE
        OBVIOUS
      <4>1. chunk + 1 = MaxChunks
        BY <1>a
      <4>2. Depth <= chunk * LogRange + LogRange
        BY <1>b, <4>1 DEF WindowSuffices
      <4> QED BY <1>a, <1>b, <3>2, <4>2
    <3> QED BY <1>1, <2>1, <2>5, <3>2, <3>3
  <2> QED BY <2>2, <2>4, <2>5
<1>9. ScanInv'
  BY <1>1, <1>3 DEF ScanInv, Waiting, chainVars, stored
<1> QED BY <1>5, <1>6, <1>7, <1>8, <1>9 DEF WatchInv
LEMMA LeaveWatch ==
  ASSUME WindowSuffices, TypeInv, WatchInv, NEW next \in {"idle", "down"}, LeaveTick(next),
         UNCHANGED <<chainVars, fresh, cursor, stored>>, TypeInv',
         \/ next = "idle" /\ pc # "down" /\ UNCHANGED rewound /\ faults' \in {faults, faults + 1}
         \/ next = "down" /\ pc # "down" /\ rewound' = FALSE /\ faults' = faults + 1
  PROVE  WatchInv'
<1> USE Numbers, NumbersNext, Constants
<1>1. pc' = next /\ \A t \in Transfers : Waiting(t)' <=> Waiting(t)
  BY DEF LeaveTick, Waiting, chainVars, stored
<1>2. tip <= fresh + Outage /\ cursor <= tip /\ fresh <= tip
  BY DEF WatchInv, ChainInv
<1>3. ChainInv'
  BY <1>1, <1>2 DEF WatchInv, ChainInv, chainVars
<1>4. TickInv'
  BY <1>1 DEF TickInv, InTick
<1>5. CursorInv'
  <2>1. Depth * (faults + 1) = Depth * faults + Depth /\ Depth * faults \in Nat
    BY OneMore
  <2>2. Depth * (faults + 2) = Depth * faults + Depth + Depth
    BY Constants
  <2>3. cursor = 0 \/ First < cursor + Depth * (faults + 1)
    BY <2>1 DEF WatchInv, CursorInv
  <2>4. CASE next = "down"
    BY <2>3, <2>4 DEF CursorInv
  <2>5. CASE next = "idle"
    <3>1. CASE rewound
      <4>1. cursor = 0 \/ First < cursor + Depth * (faults' + 1)
        BY <2>1, <2>2, <2>3, <2>5
      <4> QED BY <2>5, <3>1, <4>1 DEF CursorInv
    <3>2. CASE ~rewound
      <4>1. cursor = 0 \/ First < cursor + Depth * faults
        BY <3>2 DEF WatchInv, CursorInv
      <4>2. cursor = 0 \/ First < cursor + Depth * faults'
        BY <2>1, <2>5, <4>1
      <4> QED BY <2>5, <3>2, <4>2 DEF CursorInv
    <3> QED BY <3>1, <3>2
  <2> QED BY <2>4, <2>5
<1>6. CoverInv'
  <2> SUFFICES ASSUME NEW t \in Transfers, Waiting(t)
               PROVE  IF rewound' THEN cursor < mined[t] \/ fresh < mined[t] + Confirmations
                                  ELSE cursor < mined[t] + Depth
    BY <1>1 DEF CoverInv, chainVars
  <2>1. IF rewound THEN cursor < mined[t] \/ fresh < mined[t] + Confirmations
                   ELSE cursor < mined[t] + Depth
    BY DEF WatchInv, CoverInv
  <2>2. cursor < mined[t] + Depth
    BY <1>2, <2>1 DEF WindowSuffices
  <2> QED BY <2>1, <2>2
<1>7. ScanInv'
  BY <1>1 DEF ScanInv
<1> QED BY <1>3, <1>4, <1>5, <1>6, <1>7 DEF WatchInv

LEMMA RestartWatch == ASSUME WindowSuffices, TypeInv, WatchInv, Restart, TypeInv' PROVE WatchInv'
<1> USE Numbers, NumbersNext, Constants
<1>1. /\ UNCHANGED <<chainVars, faults, cursor, stored, rewound>>
      /\ pc = "down" /\ pc' = "idle" /\ fresh' = IF cursor > 0 THEN tip ELSE fresh
  BY DEF Restart
<1>2. ~rewound
  BY <1>1 DEF WatchInv, TickInv
<1>3. ChainInv'
  BY <1>1 DEF WatchInv, ChainInv, chainVars
<1>4. TickInv' /\ ScanInv'
  BY <1>1 DEF TickInv, InTick, ScanInv
<1>5. CursorInv'
  BY <1>1 DEF WatchInv, CursorInv
<1>6. CoverInv'
  BY <1>1, <1>2 DEF WatchInv, CoverInv, Waiting, chainVars, stored
<1> QED BY <1>3, <1>4, <1>5, <1>6 DEF WatchInv

LEMMA NextWatch == WindowSuffices /\ WatchInv /\ [Next]_vars => WatchInv'
<1> SUFFICES ASSUME WindowSuffices, WatchInv, [Next]_vars PROVE WatchInv'
  OBVIOUS
<1>1. TypeInv /\ TypeInv'
  BY NextType DEF WatchInv
<1>2. ~RewindFails /\ ~RangeTooDeep
  BY DEF RewindFails, RangeTooDeep, Fault, WindowSuffices
<1>3. CASE EndTick \/ \E r \in Refs : ApplyFails(r)
  <2>1. /\ LeaveTick("idle") /\ pc # "down"
        /\ UNCHANGED <<chainVars, faults, fresh, cursor, stored, rewound>>
    BY <1>3 DEF EndTick, ApplyFails
  <2> QED BY <1>1, <2>1, LeaveWatch
<1>4. CASE Abort
  <2>1. /\ LeaveTick("idle") /\ pc # "down" /\ faults' = faults + 1
        /\ UNCHANGED <<chainVars, fresh, cursor, stored, rewound>>
    BY <1>4 DEF Abort, Fault
  <2> QED BY <1>1, <2>1, LeaveWatch
<1>5. CASE Crash
  <2>1. /\ LeaveTick("down") /\ pc # "down" /\ rewound' = FALSE /\ faults' = faults + 1
        /\ UNCHANGED <<chainVars, fresh, cursor, stored>>
    BY <1>5 DEF Crash, Fault
  <2> QED BY <1>1, <2>1, LeaveWatch
<1>6. CASE UNCHANGED vars
  BY <1>1, <1>6
  DEF vars, chainVars, stored, tickVars, WatchInv, ChainInv, TickInv, InTick, CursorInv,
      CoverInv, ScanInv, Waiting
<1> QED BY <1>1, <1>2, <1>3, <1>4, <1>5, <1>6, ChainWatch, HeadWatch, RewindWatch, ScanWatch,
           GetLogsWatch, ApplyWatch, SaveCursorWatch, RestartWatch DEF Next, Work

(* Between ticks every final transfer is stored or still lies ahead of the *)
(* scan, across reorgs, restarts, failed ticks and backlogs.               *)
THEOREM NothingIsLost == ASSUME WindowSuffices PROVE Spec => []NoLoss
<1>1. Spec => []WatchInv
  BY InitWatch, NextWatch, PTL DEF Spec
<1>2. WatchInv => NoLoss
  <2> SUFFICES ASSUME WatchInv, pc = "idle", rewound, NEW t \in Transfers, Waiting(t)
               PROVE  mined[t] > Minus(tip, Depth) \/ mined[t] > cursor
    BY DEF NoLoss, Waiting
  <2>1. TypeInv
    BY DEF WatchInv
  <2>2. cursor < mined[t] \/ fresh < mined[t] + Confirmations
    BY DEF WatchInv, CoverInv
  <2>3. tip <= fresh + Outage /\ Outage + Confirmations <= Depth
    BY DEF WatchInv, ChainInv, WindowSuffices
  <2>4. mined[t] > 0
    BY <2>1, Numbers DEF Waiting
  <2> QED BY <2>1, <2>2, <2>3, <2>4, Numbers, Constants DEF Minus
<1> QED BY <1>1, <1>2, PTL
-----------------------------------------------------------------------------
(* An invoice is paid only by what is final.  The danger is a ghost: a     *)
(* payment on record whose transfer is in no block any more.  One that the *)
(* scan reaches is revoked, so no tick may fall short of one: where a scan *)
(* begins, its chunks reach what is on record.  How often the watcher was  *)
(* restarted before does not matter, as long as it caught up in between.   *)
Live(r) == row[r] = "live"

ScanReaches ==
    pc = "scan" /\ cursor # 0 =>
      \A r \in Refs : Live(r) => at[r] <= cursor + MaxChunks * LogRange

(* What no run of MaxFaults faults can break: all of them in a row.        *)
Reach == LogRange + Depth + Outage

TickReaches == WindowSuffices /\ Reach + Depth * MaxFaults <= MaxChunks * LogRange

(* The transfer has been in block b, and if only in one, then in that.     *)
OnlyIn(t, b) == minings[t] > 0 /\ (minings[t] = 1 => mined[t] \in {0, b})

SeenInv ==
    /\ \A t \in Transfers : mined[t] # 0 => minings[t] > 0
    /\ \A r \in Refs : Live(r) =>
         /\ First < at[r] /\ at[r] <= tip /\ (pc \in InTick => at[r] <= head)
         /\ OnlyIn(r[1], at[r]) /\ status[r[1]] # "pending"
    /\ \A r, q \in Refs : Live(r) /\ Live(q) /\ r[1] = q[1] => r = q
    /\ pc = "apply" => \A r \in Refs : reply[r] # 0 =>
         /\ First < reply[r] /\ reply[r] \in from..to /\ OnlyIn(r[1], reply[r])
         /\ reply[r] <= line => mined[r[1]] = reply[r]

PaidInv ==
    \A t \in Transfers : status[t] = "confirmed" =>
      minings[t] > 0 /\ (minings[t] = 1 => mined[t] \in 1..final)

ChunkInv ==
    pc \in {"logs", "apply"} =>
      /\ cursor # 0 => from <= cursor + 1
      /\ \/ head + chunk * LogRange < from + Depth
         \/ \A r \in Refs : Live(r) => at[r] + chunk * LogRange < from + MaxChunks * LogRange

Ghost(r) == Live(r) /\ status[r[1]] # "confirmed" /\ mined[r[1]] = 0 /\ minings[r[1]] = 1

(* Ghosts are covered as what waits is, and none is left where a tick      *)
(* settles.                                                                *)
GhostInv ==
    \A r \in Refs : Ghost(r) =>
      /\ IF rewound THEN cursor < at[r] \/ fresh < at[r] + Confirmations
                    ELSE cursor < at[r] + Depth
      /\ at[r] <= line =>
           /\ pc \in {"logs", "apply"} => from <= at[r]
           /\ pc = "apply" /\ at[r] <= to => reply[r] = 0
           /\ pc # "settle"

FinalInv == SeenInv /\ PaidInv /\ ChunkInv /\ GhostInv

LEMMA Rows ==
  ASSUME TypeInv
  PROVE  /\ \A r \in Refs : r[1] \in Transfers /\ at[r] \in Nat /\ reply[r] \in Nat
         /\ \A t \in Transfers : minings[t] \in Nat
  BY DEF TypeInv, TypeOK, Heights, Refs

LEMMA ReachNat == Reach \in Nat
  BY Constants DEF Reach

LEMMA InitFinal == Init => FinalInv
<1> SUFFICES ASSUME Init PROVE FinalInv
  OBVIOUS
<1>1. /\ \A r \in Refs : ~Live(r)
      /\ \A t \in Transfers : mined[t] = 0 /\ status[t] = "pending"
      /\ pc = "idle"
  BY DEF Init, Live
<1> QED BY <1>1 DEF FinalInv, SeenInv, PaidInv, ChunkInv, GhostInv, Ghost

(* A transfer that leaves its block leaves a ghost, above the final block. *)
LEMMA IncludeFinal ==
  ASSUME WindowSuffices, TypeInv, WatchInv, FinalInv, TypeInv', NEW new, Include(new),
         \A t \in Transfers : new[t] = mined[t] \/ new[t] = 0 \/ final < new[t],
         \A t \in Transfers : mined[t] # 0 /\ mined[t] <= final => new[t] = mined[t],
         tip <= tip',
         UNCHANGED <<final, faults, fresh, cursor, stored, rewound, pc, tickVars>>
  PROVE  FinalInv'
<1> USE Numbers, NumbersNext, Rows, Constants
<1>1. /\ \A t \in Transfers : mined'[t] = new[t]
      /\ \A t \in Transfers :
           minings'[t] = IF new[t] \notin {0, mined[t]} THEN minings[t] + 1 ELSE minings[t]
      /\ UNCHANGED <<status, row, at, head, line, from, to, chunk, todo, reply>>
  BY DEF Include, stored, tickVars
<1>2. \A t \in Transfers : \A b : OnlyIn(t, b) => OnlyIn(t, b)'
  BY <1>1 DEF OnlyIn
<1>3. pc \in InTick \ {"line"} => line <= final
  BY DEF WatchInv, TickInv
<1>4. \A r \in Refs : Live(r)' <=> Live(r)
  BY <1>1 DEF Live
<1>5. SeenInv'
  <2>1. \A t \in Transfers : mined'[t] # 0 => minings'[t] > 0
    BY <1>1 DEF FinalInv, SeenInv
  <2>2. ASSUME NEW r \in Refs, Live(r)
        PROVE  /\ First < at[r] /\ at[r] <= tip' /\ (pc \in InTick => at[r] <= head)
               /\ OnlyIn(r[1], at[r])' /\ status[r[1]] # "pending"
    <3>1. /\ First < at[r] /\ at[r] <= tip /\ (pc \in InTick => at[r] <= head)
          /\ OnlyIn(r[1], at[r]) /\ status[r[1]] # "pending"
      BY <2>2 DEF FinalInv, SeenInv
    <3>2. OnlyIn(r[1], at[r])'
      BY <1>1, <1>2, <3>1 DEF OnlyIn
    <3> QED BY <3>1, <3>2
  <2>3. \A r, q \in Refs : Live(r)' /\ Live(q)' /\ r[1] = q[1] => r = q
    BY <1>4 DEF FinalInv, SeenInv
  <2>4. ASSUME pc = "apply", NEW r \in Refs, reply[r] # 0
        PROVE  /\ First < reply[r] /\ reply[r] \in from..to /\ OnlyIn(r[1], reply[r])'
               /\ reply[r] <= line => mined'[r[1]] = reply[r]
    <3>1. /\ First < reply[r] /\ reply[r] \in from..to /\ OnlyIn(r[1], reply[r])
          /\ reply[r] <= line => mined[r[1]] = reply[r]
      BY <2>4 DEF FinalInv, SeenInv
    <3>2. OnlyIn(r[1], reply[r])'
      BY <1>1, <1>2, <3>1 DEF OnlyIn
    <3>3. line <= final
      BY <1>3, <2>4 DEF InTick
    <3> QED BY <1>1, <3>1, <3>2, <3>3
  <2> QED BY <1>1, <1>4, <2>1, <2>2, <2>3, <2>4 DEF SeenInv, OnlyIn
<1>6. PaidInv'
  BY <1>1 DEF FinalInv, PaidInv
<1>7. ChunkInv'
  BY <1>1, <1>4 DEF FinalInv, ChunkInv
<1>8. GhostInv'
  <2> SUFFICES ASSUME NEW r \in Refs, Ghost(r)'
               PROVE  /\ IF rewound THEN cursor < at[r] \/ fresh < at[r] + Confirmations
                                    ELSE cursor < at[r] + Depth
                      /\ at[r] <= line =>
                           /\ pc \in {"logs", "apply"} => from <= at[r]
                           /\ pc = "apply" /\ at[r] <= to => reply[r] = 0
                           /\ pc # "settle"
    BY <1>1 DEF GhostInv
  <2>1. /\ Live(r) /\ status[r[1]] # "confirmed" /\ new[r[1]] = 0 /\ minings[r[1]] = 1
    BY <1>1, <1>4 DEF Ghost
  <2>2. mined[r[1]] \in {0, at[r]} /\ at[r] # 0
    BY <2>1 DEF FinalInv, SeenInv, OnlyIn
  <2>3. CASE mined[r[1]] = 0
    BY <2>1, <2>3 DEF Ghost, FinalInv, GhostInv
  <2>4. CASE mined[r[1]] = at[r]
    <3>1. final < at[r]
      BY <2>1, <2>2, <2>4
    <3>2. fresh < at[r] + Confirmations /\ cursor < at[r] + Depth
      BY <3>1 DEF WatchInv, ChainInv, WindowSuffices
    <3>3. pc \in {"logs", "apply", "settle"} => line < at[r]
      BY <1>3, <3>1 DEF InTick
    <3> QED BY <3>2, <3>3
  <2> QED BY <2>2, <2>3, <2>4
<1> QED BY <1>5, <1>6, <1>7, <1>8 DEF FinalInv

LEMMA ChainFinal ==
  ASSUME WindowSuffices, TypeInv, WatchInv, FinalInv, Mine \/ Finalise \/ Reorg, TypeInv'
  PROVE  FinalInv'
<1> USE Numbers, NumbersNext, Rows, Constants
<1>1. CASE Mine
  <2>1. PICK S \in SUBSET {t \in Transfers : mined[t] = 0} :
            Include([t \in Transfers |-> IF t \in S THEN tip + 1 ELSE mined[t]])
    BY <1>1 DEF Mine
  <2> DEFINE new == [t \in Transfers |-> IF t \in S THEN tip + 1 ELSE mined[t]]
  <2>2. final <= tip
    BY DEF TypeInv
  <2>3. /\ \A t \in Transfers : new[t] = mined[t] \/ new[t] = 0 \/ final < new[t]
        /\ \A t \in Transfers : mined[t] # 0 /\ mined[t] <= final => new[t] = mined[t]
    BY <2>2
  <2>4. tip <= tip' /\ UNCHANGED <<final, faults, fresh, cursor, stored, rewound, pc, tickVars>>
    BY <1>1 DEF Mine
  <2> HIDE DEF new
  <2> QED BY <2>1, <2>3, <2>4, IncludeFinal DEF new
<1>2. CASE Finalise
  <2>1. /\ final' = final + 1
        /\ UNCHANGED <<mined, minings, tip, faults, fresh, cursor, status, row, at, rewound, pc,
                       head, line, from, to, chunk, todo, reply>>
    BY <1>2 DEF Finalise, stored, tickVars
  <2> QED BY <2>1 DEF FinalInv, SeenInv, PaidInv, ChunkInv, GhostInv, Ghost, Live, OnlyIn
<1>3. CASE Reorg
  <2>1. PICK new \in [Transfers -> {0} \cup final..tip] :
            /\ \A t \in Transfers :
                 IF mined[t] \in 1..final THEN new[t] = mined[t] ELSE new[t] # final
            /\ Include(new)
    BY <1>3 DEF Reorg
  <2>2. /\ \A t \in Transfers : new[t] = mined[t] \/ new[t] = 0 \/ final < new[t]
        /\ \A t \in Transfers : mined[t] # 0 /\ mined[t] <= final => new[t] = mined[t]
    BY <2>1
  <2>3. UNCHANGED <<tip, final, faults, fresh, cursor, stored, rewound, pc, tickVars>>
    BY <1>3 DEF Reorg
  <2> QED BY <2>1, <2>2, <2>3, IncludeFinal
<1> QED BY <1>1, <1>2, <1>3

LEMMA HeadFinal ==
  ASSUME WindowSuffices, TypeInv, FinalInv, ReadHead \/ FinalityLine
  PROVE  FinalInv'
<1>1. /\ UNCHANGED <<mined, minings, tip, final, status, row, at, faults, fresh, cursor, rewound>>
      /\ pc' \in {"line", "rewind"}
      /\ head' = tip \/ (pc \in InTick /\ head' = head)
  BY Numbers, Constants
  DEF ReadHead, FinalityLine, chainVars, stored, WindowSuffices, InTick
<1> QED BY <1>1 DEF FinalInv, SeenInv, PaidInv, ChunkInv, GhostInv, Ghost, Live, OnlyIn

LEMMA RewindFinal ==
  ASSUME WindowSuffices, TypeInv, WatchInv, WatchInv', FinalInv, RewindOnce, TypeInv'
  PROVE  FinalInv'
<1> USE Numbers, NumbersNext, Rows, Constants
<1>1. /\ UNCHANGED <<mined, minings, tip, final, status, row, at, faults, fresh>>
      /\ pc = "rewind" /\ pc' = "scan" /\ rewound' = TRUE /\ head' = head
      /\ rewound => cursor' = cursor
      /\ ~rewound => cursor' = Minus(cursor, Depth)
  BY DEF RewindOnce, chainVars, stored, tickVars
<1>2. SeenInv' /\ PaidInv'
  BY <1>1 DEF FinalInv, SeenInv, PaidInv, Live, OnlyIn, InTick
<1>3. ChunkInv'
  BY <1>1 DEF ChunkInv
<1>4. GhostInv'
  <2> SUFFICES ASSUME NEW r \in Refs, Ghost(r)
               PROVE  cursor' < at[r] \/ fresh < at[r] + Confirmations
    BY <1>1 DEF GhostInv, Ghost, Live
  <2>1. IF rewound THEN cursor < at[r] \/ fresh < at[r] + Confirmations
                   ELSE cursor < at[r] + Depth
    BY DEF FinalInv, GhostInv
  <2>2. at[r] > 0
    BY DEF FinalInv, SeenInv, Ghost
  <2> QED BY <1>1, <2>1, <2>2 DEF Minus
<1> QED BY <1>2, <1>3, <1>4 DEF FinalInv

(* A scan begins at or below every ghost, near enough to reach it.         *)
LEMMA ScanFinal ==
  ASSUME WindowSuffices, ScanReaches, TypeInv, WatchInv, FinalInv, Scan, TypeInv'
  PROVE  FinalInv'
<1> USE Numbers, NumbersNext, Rows, Constants
<1>1. /\ UNCHANGED <<mined, minings, tip, final, status, row, at, faults, fresh, cursor, rewound,
                     head, line, to, chunk>>
      /\ pc = "scan" /\ from' = ScanFrom
      /\ pc' = IF ScanFrom > head THEN "settle" ELSE "logs"
  BY DEF Scan, chainVars, stored
<1>2. /\ rewound /\ First <= head /\ head <= tip /\ tip <= fresh + Outage /\ chunk = 0
      /\ cursor = 0 => fresh = First
  BY <1>1 DEF TypeInv, WatchInv, ChainInv, TickInv, InTick
<1>3. /\ ScanFrom \in Nat /\ ScanFrom <= head
      /\ cursor # 0 => ScanFrom <= cursor + 1
      /\ head < ScanFrom + Depth \/ (cursor # 0 /\ ScanFrom = cursor + 1)
  BY <1>2 DEF ScanFrom
<1>4. pc' = "logs"
  BY <1>1, <1>3
<1>5. SeenInv' /\ PaidInv'
  BY <1>1, <1>4 DEF FinalInv, SeenInv, PaidInv, Live, OnlyIn, InTick
<1>6. ASSUME NEW r \in Refs, Live(r), cursor # 0 PROVE at[r] < cursor + 1 + MaxChunks * LogRange
  <2>1. at[r] <= cursor + MaxChunks * LogRange
    BY <1>1, <1>6 DEF ScanReaches
  <2>2. MaxChunks * LogRange \in Nat
    BY OneChunkMore
  <2> QED BY <2>1, <2>2
<1>7. ChunkInv'
  <2>1. chunk * LogRange = 0
    BY <1>2
  <2>2. \/ head + chunk * LogRange < from' + Depth
        \/ \A r \in Refs : Live(r) => at[r] + chunk * LogRange < from' + MaxChunks * LogRange
    BY <1>1, <1>3, <1>6, <2>1
  <2> QED BY <1>1, <1>2, <1>3, <1>4, <2>2 DEF FinalInv, ChunkInv, Live
<1>8. GhostInv'
  <2> SUFFICES ASSUME NEW r \in Refs, Ghost(r)
               PROVE  ScanFrom <= at[r]
    BY <1>1, <1>2, <1>4 DEF GhostInv, Ghost, Live, FinalInv
  <2>1. cursor < at[r] \/ fresh < at[r] + Confirmations
    BY <1>2 DEF FinalInv, GhostInv
  <2>2. First < at[r]
    BY DEF Ghost, FinalInv, SeenInv
  <2>3. Outage + Confirmations <= Depth
    BY DEF WindowSuffices
  <2> QED BY <1>2, <2>1, <2>2, <2>3 DEF ScanFrom
<1> QED BY <1>5, <1>7, <1>8 DEF FinalInv

LEMMA GetLogsFinal ==
  ASSUME WindowSuffices, TypeInv, WatchInv, FinalInv, GetLogs, TypeInv'
  PROVE  FinalInv'
<1> USE Numbers, NumbersNext, Rows, Constants
<1>1. /\ UNCHANGED <<mined, minings, tip, final, status, row, at, faults, fresh, cursor, rewound,
                     head, line, from, chunk>>
      /\ pc = "logs" /\ pc' = "apply"
      /\ reply' = [r \in Refs |->
              IF LogOf(r) \in from..to' /\ LogOf(r) <= tip THEN LogOf(r) ELSE 0]
  BY DEF GetLogs, chainVars, stored, WindowSuffices
<1>2. ASSUME NEW r \in Refs, reply'[r] # 0
      PROVE  reply'[r] \in from..to' /\ mined[r[1]] = reply'[r]
  BY <1>1, <1>2 DEF LogOf
<1>3. SeenInv'
  <2>1. ASSUME NEW r \in Refs, reply'[r] # 0
        PROVE  First < reply'[r] /\ reply'[r] \in from..to' /\ OnlyIn(r[1], reply'[r])
               /\ mined[r[1]] = reply'[r]
    <3>1. mined[r[1]] = reply'[r] /\ mined[r[1]] # 0
      BY <1>2, <2>1
    <3>2. minings[r[1]] > 0 /\ First < mined[r[1]]
      BY <3>1 DEF FinalInv, SeenInv, WatchInv, ChainInv
    <3> QED BY <1>2, <2>1, <3>1, <3>2 DEF OnlyIn
  <2> QED BY <1>1, <2>1 DEF FinalInv, SeenInv, Live, OnlyIn, InTick
<1>4. PaidInv' /\ ChunkInv'
  BY <1>1 DEF FinalInv, PaidInv, ChunkInv, Live
<1>5. GhostInv'
  <2>1. \A r \in Refs : Ghost(r) => reply'[r] = 0
    BY <1>2 DEF Ghost
  <2> QED BY <1>1, <2>1 DEF FinalInv, GhostInv, Ghost, Live
<1> QED BY <1>3, <1>4, <1>5 DEF FinalInv

(* What a log below the line says is so for good; what one above it says   *)
(* may be gone by now, and its payment a ghost above the line.             *)
LEMMA ApplyFinal ==
  ASSUME WindowSuffices, TypeInv, ReplyInv, WatchInv, FinalInv, NEW r \in Refs, Apply(r), TypeInv'
  PROVE  FinalInv'
<1> USE Numbers, NumbersNext, Rows, Constants
<1>1. /\ UNCHANGED <<mined, minings, tip, final, faults, fresh, cursor, rewound,
                     pc, head, line, from, to, chunk, reply>>
      /\ pc = "apply" /\ r \in todo
  BY DEF Apply, IsNext, chainVars
<1>2. /\ rewound /\ line <= final /\ head <= line + Confirmations /\ fresh <= head
      /\ from \in 1..head /\ to \in from..head /\ to < from + LogRange /\ head <= tip
      /\ chunk < MaxChunks
  BY <1>1 DEF WatchInv, TickInv, InTick, TypeInv
<1>3. /\ reply[r] # 0 /\ First < reply[r] /\ reply[r] \in from..to /\ OnlyIn(r[1], reply[r])
      /\ reply[r] <= line => mined[r[1]] = reply[r]
  <2>1. reply[r] # 0
    BY <1>1 DEF ReplyInv
  <2> QED BY <1>1, <2>1 DEF FinalInv, SeenInv
<1>4. /\ status' \in [Transfers -> {"pending", "detected", "confirmed"}]
      /\ \A t \in Transfers : t # r[1] => status'[t] = status[t]
      /\ status[r[1]] = "confirmed" => status'[r[1]] = "confirmed"
      /\ status'[r[1]] # "pending"
      /\ status'[r[1]] = "confirmed" => status[r[1]] = "confirmed" \/ reply[r] <= line
      /\ \A q \in Refs : q # r => row'[q] = row[q] /\ at'[q] = at[q]
  <2>1. Live(r) => status[r[1]] # "pending"
    BY DEF FinalInv, SeenInv
  <2> QED BY <2>1 DEF Apply, Reapply, Orphan, Credit, stored, Live, TypeInv, TypeOK
<1>5. \/ row'[r] = row[r] /\ at'[r] = at[r]
      \/ /\ row'[r] = "live" /\ at'[r] = reply[r] /\ ~Live(r)
         /\ \A q \in Refs : q # r /\ q[1] = r[1] => ~Live(q)
  BY DEF Apply, Reapply, Orphan, Credit, LiveElsewhere, stored, Live, TypeInv, TypeOK
<1>6. ASSUME NEW q \in Refs, Live(q)'
      PROVE  \/ Live(q) /\ at'[q] = at[q]
             \/ q = r /\ at'[q] = reply[r]
  BY <1>4, <1>5, <1>6 DEF Live
<1>7. SeenInv'
  <2>1. ASSUME NEW q \in Refs, Live(q)'
        PROVE  /\ First < at'[q] /\ at'[q] <= tip /\ at'[q] <= head
               /\ OnlyIn(q[1], at'[q]) /\ status'[q[1]] # "pending"
    <3>1. CASE Live(q) /\ at'[q] = at[q]
      BY <1>1, <1>4, <3>1 DEF FinalInv, SeenInv, InTick
    <3>2. CASE q = r /\ at'[q] = reply[r]
      BY <1>2, <1>3, <1>4, <3>2
    <3> QED BY <1>6, <2>1, <3>1, <3>2
  <2>2. ASSUME NEW p \in Refs, NEW q \in Refs, Live(p)', Live(q)', p[1] = q[1] PROVE p = q
    BY <1>4, <1>5, <2>2 DEF FinalInv, SeenInv, Live
  <2> QED BY <1>1, <2>1, <2>2 DEF FinalInv, SeenInv, OnlyIn
<1>8. PaidInv'
  <2>1. reply[r] <= line => minings[r[1]] > 0 /\ mined[r[1]] \in 1..final
    BY <1>2, <1>3 DEF OnlyIn
  <2> QED BY <1>1, <1>4, <2>1 DEF FinalInv, PaidInv
<1>9. ChunkInv'
  <2>2. reply[r] + chunk * LogRange < from + MaxChunks * LogRange
    <3>1. (chunk + 1) * LogRange <= MaxChunks * LogRange
      BY <1>2, ChunksGrow
    <3>2. /\ (chunk + 1) * LogRange = chunk * LogRange + LogRange
          /\ chunk * LogRange \in Nat /\ MaxChunks * LogRange \in Nat
      BY OneChunkMore
    <3> QED BY <1>2, <1>3, <3>1, <3>2
  <2>3. /\ cursor # 0 => from <= cursor + 1
        /\ \/ head + chunk * LogRange < from + Depth
           \/ \A q \in Refs : Live(q)' => at'[q] + chunk * LogRange < from + MaxChunks * LogRange
    BY <1>1, <1>6, <2>2 DEF FinalInv, ChunkInv
  <2> QED BY <1>1, <2>3 DEF ChunkInv
<1>10. GhostInv'
  <2> SUFFICES ASSUME NEW q \in Refs, Ghost(q)'
               PROVE  /\ cursor < at'[q] \/ fresh < at'[q] + Confirmations
                      /\ at'[q] <= line =>
                           /\ from <= at'[q]
                           /\ at'[q] <= to => reply[q] = 0
    BY <1>1, <1>2 DEF GhostInv
  <2>1. CASE Live(q) /\ at'[q] = at[q]
    <3>1. Ghost(q)
      BY <1>1, <1>4, <2>1 DEF Ghost
    <3> QED BY <1>1, <1>2, <2>1, <3>1 DEF FinalInv, GhostInv
  <2>2. CASE q = r /\ at'[q] = reply[r]
    <3>1. mined[r[1]] = 0
      BY <1>1, <2>2 DEF Ghost
    <3>2. line < reply[r]
      BY <1>3, <3>1
    <3> QED BY <1>2, <1>3, <2>2, <3>2
  <2> QED BY <1>6, <2>1, <2>2 DEF Ghost
<1> QED BY <1>7, <1>8, <1>9, <1>10 DEF FinalInv

LEMMA RevokeFinal ==
  ASSUME TypeInv, FinalInv, NEW r \in Refs, Revoke(r), TypeInv'
  PROVE  FinalInv'
<1> USE Numbers, Rows, Constants
<1>1. /\ UNCHANGED <<mined, minings, tip, final, at, faults, fresh, cursor, rewound,
                     pc, head, line, from, to, chunk, reply>>
      /\ Live(r)
      /\ row' = [row EXCEPT ![r] = "removed"] /\ status' = [status EXCEPT ![r[1]] = "pending"]
  BY DEF Revoke, Missing, Unsettled, Live, chainVars, tickVars
<1>2. /\ \A t \in Transfers : status'[t] = IF t = r[1] THEN "pending" ELSE status[t]
      /\ \A q \in Refs : Live(q)' <=> Live(q) /\ q # r
  BY <1>1 DEF Live, TypeInv, TypeOK
<1>3. \A q \in Refs : Live(q)' => q[1] # r[1] /\ status'[q[1]] = status[q[1]]
  BY <1>1, <1>2 DEF FinalInv, SeenInv
<1>4. SeenInv'
  BY <1>1, <1>2, <1>3 DEF FinalInv, SeenInv, OnlyIn
<1>5. PaidInv'
  BY <1>1, <1>2 DEF FinalInv, PaidInv
<1>6. ChunkInv'
  BY <1>1, <1>2 DEF FinalInv, ChunkInv
<1>7. GhostInv'
  BY <1>1, <1>2, <1>3 DEF FinalInv, GhostInv, Ghost
<1> QED BY <1>4, <1>5, <1>6, <1>7 DEF FinalInv

(* No ghost is left to be settled.                                         *)
LEMMA SettleFinal ==
  ASSUME TypeInv, WatchInv, FinalInv, NEW r \in Refs, Settle(r), TypeInv'
  PROVE  FinalInv'
<1> USE Numbers, Rows, Constants
<1>1. /\ UNCHANGED <<mined, minings, tip, final, row, at, faults, fresh, cursor, rewound,
                     pc, head, line, from, to, chunk, reply>>
      /\ pc = "settle" /\ Live(r) /\ status[r[1]] = "detected" /\ at[r] <= line
      /\ status' = [status EXCEPT ![r[1]] = "confirmed"]
  BY DEF Settle, Settleable, Unsettled, Live, chainVars, tickVars
<1>2. \A t \in Transfers : status'[t] = IF t = r[1] THEN "confirmed" ELSE status[t]
  BY <1>1 DEF TypeInv, TypeOK
<1>3. minings[r[1]] > 0 /\ (minings[r[1]] = 1 => mined[r[1]] \in 1..final)
  <2>1. First < at[r] /\ OnlyIn(r[1], at[r]) /\ line <= final
    BY <1>1 DEF FinalInv, SeenInv, WatchInv, TickInv, InTick
  <2>2. ~Ghost(r)
    BY <1>1 DEF FinalInv, GhostInv
  <2> QED BY <1>1, <2>1, <2>2 DEF Ghost, OnlyIn
<1>4. SeenInv'
  BY <1>1, <1>2 DEF FinalInv, SeenInv, OnlyIn, Live
<1>5. PaidInv'
  BY <1>1, <1>2, <1>3 DEF FinalInv, PaidInv
<1>6. ChunkInv'
  BY <1>1 DEF FinalInv, ChunkInv, Live
<1>7. GhostInv'
  BY <1>1, <1>2 DEF FinalInv, GhostInv, Ghost, Live
<1> QED BY <1>4, <1>5, <1>6, <1>7 DEF FinalInv

(* A chunk leaves no ghost behind, and the last one none ahead.            *)
LEMMA SaveCursorFinal ==
  ASSUME WindowSuffices, TypeInv, WatchInv, FinalInv, SaveCursor, TypeInv'
  PROVE  FinalInv'
<1> USE Numbers, NumbersNext, Rows, Constants
<1>1. /\ UNCHANGED <<mined, minings, tip, final, status, row, at, faults, rewound, head, line, to>>
      /\ pc = "apply" /\ from' = to + 1
      /\ \A r \in Refs : ~Missing(r)
      /\ cursor' = IF cursor >= to THEN cursor ELSE to
      /\ chunk' = chunk + 1
      /\ \/ to < head /\ pc' = "logs" /\ fresh' = fresh
         \/ (to >= head \/ chunk + 1 >= MaxChunks) /\ pc' = "settle" /\ fresh' = head
  BY DEF SaveCursor, SaveTo, MoreChunks, chainVars, stored
<1>2. /\ fresh <= head /\ head <= line + Confirmations /\ rewound
      /\ from \in 1..head /\ to \in from..head /\ (cursor = 0 => First < from + Depth)
      /\ tip <= fresh + Outage /\ (cursor = 0 => fresh = First)
      /\ to < head => to + 1 = from + LogRange
      /\ chunk < MaxChunks
  BY <1>1 DEF WatchInv, ChainInv, TickInv, InTick, TypeInv
<1>3. (chunk + 1) * LogRange = chunk * LogRange + LogRange /\ chunk * LogRange \in Nat
  BY OneChunkMore
<1>4. SeenInv' /\ PaidInv'
  BY <1>1 DEF FinalInv, SeenInv, PaidInv, Live, OnlyIn, InTick
<1>5. ChunkInv'
  <2>2. cursor' # 0 => from' <= cursor' + 1
    BY <1>1, <1>2
  <2>3. to < head =>
          \/ head + chunk' * LogRange < from' + Depth
          \/ \A r \in Refs : Live(r) => at[r] + chunk' * LogRange < from' + MaxChunks * LogRange
    <3>1. MaxChunks * LogRange \in Nat
      BY OneChunkMore
    <3>2. \/ head + chunk * LogRange < from + Depth
          \/ \A r \in Refs : Live(r) => at[r] + chunk * LogRange < from + MaxChunks * LogRange
      BY <1>1 DEF FinalInv, ChunkInv
    <3> QED BY <1>1, <1>2, <1>3, <3>1, <3>2
  <2> QED BY <1>1, <1>2, <2>2, <2>3 DEF ChunkInv, Live
<1>6. ASSUME NEW r \in Refs, Ghost(r), at[r] <= line PROVE to < at[r] /\ pc' # "settle"
  <2>1. from <= at[r] /\ (at[r] <= to => reply[r] = 0)
    BY <1>1, <1>6 DEF FinalInv, GhostInv
  <2>2. Live(r) /\ status[r[1]] = "detected" /\ at[r] <= head
    BY <1>1, <1>6 DEF Ghost, FinalInv, SeenInv, InTick, TypeInv, TypeOK
  <2>3. to < at[r]
    BY <1>1, <1>2, <2>1, <2>2 DEF Missing, Unsettled, Live
  <2>4. ASSUME chunk + 1 >= MaxChunks, to < head PROVE FALSE
    <3>1. MaxChunks * LogRange = chunk * LogRange + LogRange
      <4>1. chunk + 1 = MaxChunks
        BY <1>2, <2>4
      <4> QED BY <1>3, <4>1
    <3>2. Depth <= MaxChunks * LogRange
      BY DEF WindowSuffices
    <3>3. \/ head + chunk * LogRange < from + Depth
          \/ at[r] + chunk * LogRange < from + MaxChunks * LogRange
      BY <1>1, <2>2 DEF FinalInv, ChunkInv
    <3> QED BY <1>2, <1>3, <2>3, <2>4, <3>1, <3>2, <3>3
  <2> QED BY <1>1, <2>2, <2>3, <2>4
<1>7. GhostInv'
  <2> SUFFICES ASSUME NEW r \in Refs, Ghost(r)
               PROVE  /\ cursor' < at[r] \/ fresh' < at[r] + Confirmations
                      /\ at[r] <= line => to + 1 <= at[r] /\ pc' # "settle"
    BY <1>1, <1>2 DEF GhostInv, Ghost, Live
  <2>1. cursor < at[r] \/ fresh < at[r] + Confirmations
    BY <1>2 DEF FinalInv, GhostInv
  <2>2. CASE at[r] <= line
    BY <1>1, <1>2, <1>6, <2>1, <2>2
  <2>3. CASE line < at[r]
    BY <1>1, <1>2, <2>3
  <2> QED BY <2>2, <2>3
<1> QED BY <1>4, <1>5, <1>7 DEF FinalInv

LEMMA LeaveFinal ==
  ASSUME WindowSuffices, TypeInv, WatchInv, FinalInv,
         NEW next \in {"idle", "down"}, LeaveTick(next),
         UNCHANGED <<chainVars, fresh, cursor, stored>>, TypeInv',
         \/ next = "idle" /\ pc # "down" /\ UNCHANGED rewound /\ faults' \in {faults, faults + 1}
         \/ next = "down" /\ pc # "down" /\ rewound' = FALSE /\ faults' = faults + 1
  PROVE  FinalInv'
<1> USE Numbers, NumbersNext, Rows, Constants
<1>1. /\ UNCHANGED <<mined, minings, tip, final, status, row, at, cursor, fresh>>
      /\ pc' \in {"idle", "down"}
  BY DEF LeaveTick, chainVars, stored
<1>2. SeenInv' /\ PaidInv'
  BY <1>1 DEF FinalInv, SeenInv, PaidInv, Live, OnlyIn, InTick
<1>3. ChunkInv'
  BY <1>1 DEF ChunkInv
<1>4. GhostInv'
  <2> SUFFICES ASSUME NEW r \in Refs, Ghost(r)
               PROVE  IF rewound' THEN cursor < at[r] \/ fresh < at[r] + Confirmations
                                  ELSE cursor < at[r] + Depth
    BY <1>1 DEF GhostInv, Ghost, Live
  <2>1. IF rewound THEN cursor < at[r] \/ fresh < at[r] + Confirmations
                   ELSE cursor < at[r] + Depth
    BY DEF FinalInv, GhostInv
  <2>2. tip <= fresh + Outage /\ cursor <= tip
    BY DEF WatchInv, ChainInv
  <2>3. cursor < at[r] + Depth
    BY <2>1, <2>2 DEF WindowSuffices
  <2> QED BY <2>1, <2>3
<1> QED BY <1>2, <1>3, <1>4 DEF FinalInv

LEMMA RestartFinal == ASSUME WatchInv, FinalInv, Restart PROVE FinalInv'
<1>1. /\ UNCHANGED <<mined, minings, tip, final, status, row, at, faults, cursor, rewound>>
      /\ ~rewound /\ pc' = "idle"
  BY DEF Restart, chainVars, stored, WatchInv, TickInv
<1> QED BY <1>1
        DEF FinalInv, SeenInv, PaidInv, ChunkInv, GhostInv, Ghost, Live, OnlyIn, InTick

LEMMA NextFinal ==
  WindowSuffices /\ ScanReaches /\ ReplyInv /\ WatchInv /\ FinalInv /\ [Next]_vars => FinalInv'
<1> SUFFICES ASSUME WindowSuffices, ScanReaches, ReplyInv, WatchInv, FinalInv, [Next]_vars
             PROVE  FinalInv'
  OBVIOUS
<1>1. TypeInv /\ TypeInv'
  BY NextType DEF WatchInv
<1>2. ~RewindFails /\ ~RangeTooDeep
  BY DEF RewindFails, RangeTooDeep, Fault, WindowSuffices
<1>3. WatchInv'
  BY <1>1, NextWatch
<1>4. CASE EndTick \/ \E r \in Refs : ApplyFails(r)
  <2>1. /\ LeaveTick("idle") /\ pc # "down"
        /\ UNCHANGED <<chainVars, faults, fresh, cursor, stored, rewound>>
    BY <1>4 DEF EndTick, ApplyFails
  <2> QED BY <1>1, <2>1, LeaveFinal
<1>5. CASE Abort
  <2>1. /\ LeaveTick("idle") /\ pc # "down" /\ faults' = faults + 1
        /\ UNCHANGED <<chainVars, fresh, cursor, stored, rewound>>
    BY <1>5 DEF Abort, Fault
  <2> QED BY <1>1, <2>1, LeaveFinal
<1>6. CASE Crash
  <2>1. /\ LeaveTick("down") /\ pc # "down" /\ rewound' = FALSE /\ faults' = faults + 1
        /\ UNCHANGED <<chainVars, fresh, cursor, stored>>
    BY <1>6 DEF Crash, Fault
  <2> QED BY <1>1, <2>1, LeaveFinal
<1>7. CASE UNCHANGED vars
  BY <1>7
  DEF vars, chainVars, stored, tickVars, FinalInv, SeenInv, PaidInv, ChunkInv, GhostInv, Ghost,
      Live, OnlyIn, InTick
<1> QED BY <1>1, <1>2, <1>3, <1>4, <1>5, <1>6, <1>7, ChainFinal, HeadFinal, RewindFinal, ScanFinal,
           GetLogsFinal, ApplyFinal, RevokeFinal, SettleFinal, SaveCursorFinal, RestartFinal
        DEF Next, Work

(* The cursor is never farther behind what is on record than a chunk, a    *)
(* first scan and as many rewinds as there were faults have taken it.      *)
NearInv ==
    \A r \in Refs : Live(r) /\ cursor # 0 =>
      at[r] + (IF rewound THEN 0 ELSE Depth) <= cursor + Reach + Depth * faults

LEMMA NearReaches ==
  ASSUME TickReaches, WatchInv, NearInv
  PROVE  ScanReaches
<1> USE Numbers, Rows, Constants
<1> SUFFICES ASSUME pc = "scan", cursor # 0, NEW r \in Refs, Live(r)
             PROVE  at[r] <= cursor + MaxChunks * LogRange
  BY DEF ScanReaches
<1>1. rewound /\ TypeInv
  BY DEF WatchInv, TickInv, InTick
<1>2. at[r] <= cursor + Reach + Depth * faults
  BY <1>1 DEF NearInv
<1>3. Depth * faults <= Depth * MaxFaults
  BY <1>1, Rewinds
<1>4. Depth * faults \in Nat /\ Depth * MaxFaults \in Nat
  BY <1>1, OneMore
<1>5. MaxChunks * LogRange \in Nat
  BY OneChunkMore
<1>6. Reach + Depth * MaxFaults <= MaxChunks * LogRange
  BY DEF TickReaches
<1> QED BY <1>1, <1>2, <1>3, <1>4, <1>5, <1>6, ReachNat

LEMMA NextNear ==
  WindowSuffices /\ ReplyInv /\ WatchInv /\ FinalInv /\ NearInv /\ [Next]_vars => NearInv'
<1> SUFFICES ASSUME WindowSuffices, ReplyInv, WatchInv, FinalInv, NearInv, [Next]_vars
             PROVE  NearInv'
  OBVIOUS
<1>1. TypeInv /\ TypeInv'
  BY NextType DEF WatchInv
<1> SUFFICES ASSUME TypeInv, TypeInv' PROVE NearInv'
  BY <1>1
<1> USE Numbers, NumbersNext, Rows, Constants
<1>2. /\ Depth * faults \in Nat
      /\ Depth * (faults + 1) = Depth * faults + Depth
  BY <1>1, OneMore
<1>3. ~RewindFails /\ ~RangeTooDeep
  BY DEF RewindFails, RangeTooDeep, Fault, WindowSuffices
<1>4. CASE UNCHANGED <<row, at, faults, cursor, rewound>>
  BY <1>4 DEF NearInv, Live
<1>5. CASE EndTick \/ (\E r \in Refs : ApplyFails(r) \/ Settle(r)) \/ Mine \/ Finalise \/ Reorg
           \/ ReadHead \/ FinalityLine \/ Scan \/ GetLogs \/ Restart \/ UNCHANGED vars
  <2>1. UNCHANGED <<row, at, faults, cursor, rewound>>
    BY <1>5 DEF EndTick, ApplyFails, Settle, Mine, Finalise, Reorg, Include, ReadHead, FinalityLine,
                Scan, GetLogs, Restart, LeaveTick, vars, chainVars, stored, tickVars
  <2> QED BY <1>4, <2>1
<1>6. CASE Abort \/ Crash
  <2>1. /\ UNCHANGED <<row, at, cursor>> /\ faults' = faults + 1
        /\ rewound' = rewound \/ rewound' = FALSE
    BY <1>6 DEF Abort, Crash, Fault, LeaveTick, stored
  <2>2. ASSUME NEW r \in Refs, Live(r), cursor # 0
        PROVE  at[r] + (IF rewound' THEN 0 ELSE Depth) <= cursor + Reach + Depth * faults'
    <3>1. at[r] + (IF rewound THEN 0 ELSE Depth) <= cursor + Reach + Depth * faults
      BY <2>2 DEF NearInv
    <3> QED BY <1>1, <1>2, <2>1, <3>1, ReachNat
  <2> QED BY <2>1, <2>2 DEF NearInv, Live
<1>7. CASE RewindOnce
  <2>1. /\ UNCHANGED <<row, at, faults>> /\ rewound' = TRUE
        /\ rewound => cursor' = cursor
        /\ ~rewound => cursor' = Minus(cursor, Depth)
    BY <1>7 DEF RewindOnce, stored, tickVars
  <2>2. ASSUME NEW r \in Refs, Live(r), cursor' # 0
        PROVE  at[r] <= cursor' + Reach + Depth * faults
    <3>1. CASE rewound
      BY <2>1, <2>2, <3>1 DEF NearInv
    <3>2. CASE ~rewound
      <4>1. cursor' = cursor - Depth /\ cursor # 0
        BY <1>1, <2>1, <2>2, <3>2 DEF Minus
      <4>2. at[r] + Depth <= cursor + Reach + Depth * faults
        BY <2>2, <3>2, <4>1 DEF NearInv
      <4> QED BY <1>1, <1>2, <4>1, <4>2, ReachNat
    <3> QED BY <3>1, <3>2
  <2> QED BY <2>1, <2>2 DEF NearInv, Live
<1>8. ASSUME NEW r \in Refs, Apply(r) PROVE NearInv'
  <2>1. UNCHANGED <<faults, cursor, rewound>> /\ pc = "apply" /\ r \in todo
    BY <1>8 DEF Apply, IsNext
  <2>2. rewound /\ to < from + LogRange /\ from \in Nat /\ to \in Nat
    BY <1>1, <2>1 DEF WatchInv, TickInv, InTick, TypeInv, TypeOK, Heights
  <2>3. reply[r] \in from..to /\ (cursor # 0 => from <= cursor + 1)
    BY <2>1 DEF ReplyInv, FinalInv, SeenInv, ChunkInv
  <2>4. cursor # 0 => reply[r] <= cursor + Reach + Depth * faults
    BY <1>1, <1>2, <2>2, <2>3 DEF Reach
  <2>5. \A q \in Refs : Live(q)' =>
          (Live(q) /\ at'[q] = at[q]) \/ at'[q] = reply[r]
    BY <1>1, <1>8 DEF Apply, Reapply, Orphan, Credit, stored, Live, TypeInv, TypeOK
  <2> QED BY <2>1, <2>2, <2>4, <2>5 DEF NearInv
<1>9. ASSUME NEW r \in Refs, Revoke(r) PROVE NearInv'
  <2>1. UNCHANGED <<at, faults, cursor, rewound>> /\ \A q \in Refs : Live(q)' => Live(q)
    BY <1>1, <1>9 DEF Revoke, Live, TypeInv, TypeOK
  <2> QED BY <2>1 DEF NearInv
<1>10. CASE SaveCursor
  <2>1. /\ UNCHANGED <<row, at, faults, rewound>> /\ pc = "apply"
        /\ cursor' = IF cursor >= to THEN cursor ELSE to
    BY <1>10 DEF SaveCursor, SaveTo, stored
  <2>2. /\ rewound /\ to \in Nat
        /\ cursor = 0 => First < to + Depth /\ tip <= First + Outage
    BY <1>1, <2>1 DEF WatchInv, ChainInv, TickInv, InTick, TypeInv
  <2>3. ASSUME NEW r \in Refs, Live(r) PROVE at[r] <= cursor' + Reach + Depth * faults
    <3>1. CASE cursor # 0
      <4>1. at[r] <= cursor + Reach + Depth * faults
        BY <2>2, <2>3, <3>1 DEF NearInv
      <4> QED BY <1>1, <1>2, <2>1, <2>2, <4>1, ReachNat
    <3>2. CASE cursor = 0
      <4>1. at[r] <= tip
        BY <2>3 DEF FinalInv, SeenInv
      <4> QED BY <1>1, <1>2, <2>1, <2>2, <3>2, <4>1 DEF Reach
    <3> QED BY <3>1, <3>2
  <2> QED BY <2>1, <2>2, <2>3 DEF NearInv, Live
<1> QED BY <1>3, <1>5, <1>6, <1>7, <1>8, <1>9, <1>10 DEF Next, Work

LEMMA WatchReply == ASSUME WindowSuffices PROVE Spec => [](WatchInv /\ ReplyInv)
<1>1. Spec => []WatchInv
  BY InitWatch, NextWatch, PTL DEF Spec
<1>2. Init => ReplyInv
  BY DEF Init, ReplyInv
<1>3. Lag = 0
  BY DEF WindowSuffices
<1>4. WatchInv => TypeInv
  BY DEF WatchInv
<1>5. Spec => []ReplyInv
  BY <1>1, <1>2, <1>3, <1>4, NextReply, PTL DEF Spec
<1> QED BY <1>1, <1>5, PTL

(* A transfer that was in one block only confirms an invoice when that     *)
(* block is final, across any number of reorgs, restarts and failed ticks, *)
(* in every run where no scan begins too far behind to reach what is on    *)
(* record.                                                                 *)
THEOREM PaidOnlyInReach ==
  ASSUME WindowSuffices PROVE Spec /\ []ScanReaches => []PaidIsFinal
<1>1. FinalInv => PaidIsFinal
  BY DEF FinalInv, PaidInv, PaidIsFinal
<1> QED BY <1>1, WatchReply, InitFinal, NextFinal, PTL DEF Spec

(* And where a tick covers all of MaxFaults faults in a row, none does:    *)
(* the same without a condition on the run.                                *)
THEOREM PaidOnlyWhenFinal == ASSUME TickReaches PROVE Spec => []PaidIsFinal
<1>1. WindowSuffices
  BY DEF TickReaches
<1>2. Init => NearInv
  BY DEF Init, NearInv, Live
<1>3. FinalInv => PaidIsFinal
  BY DEF FinalInv, PaidInv, PaidIsFinal
<1>4. WatchInv /\ ReplyInv /\ FinalInv /\ NearInv /\ [Next]_vars => (FinalInv /\ NearInv)'
  BY <1>1, NearReaches, NextFinal, NextNear
<1> QED BY <1>1, <1>2, <1>3, <1>4, WatchReply, InitFinal, PTL DEF Spec
=============================================================================
