------------------------- MODULE TronWatcherProofs -------------------------
(* The safety of the TRON watcher for any transfers, invoices and page     *)
(* length, any number of reorgs and failures.                              *)
EXTENDS TronWatcher, FiniteSetTheorems, TLAPS

(* A page with a record less is finite and still fits.                     *)
LEMMA PageShrinks ==
  ASSUME IsFiniteSet(page), Cardinality(page) <= PageLimit, NEW r \in page
  PROVE  IsFiniteSet(page \ {r}) /\ Cardinality(page \ {r}) <= PageLimit
<1>1. IsFiniteSet(page \ {r}) /\ Cardinality(page \ {r}) = Cardinality(page) - 1
  BY FS_RemoveElement
<1>2. Cardinality(page) \in Nat
  BY FS_CardinalityType
<1> QED BY <1>1, <1>2, TronAssumption DEF TronAssumption

(* The feed is finite.                                                     *)
LEMMA FeedFinite == ASSUME TypeOK PROVE IsFiniteSet(Feed)
<1> DEFINE U == {u \in shown : InRange(u)}
           f == [u \in U |-> <<u, mined[u]>>]
<1>1. IsFiniteSet(U)
  BY FS_Subset, TronAssumption DEF TypeOK, TronAssumption
<1>2. f \in Surjection(U, Feed)
  BY DEF Surjection, Feed
<1> QED BY <1>1, <1>2, FS_Surjection

LEMMA EmptyPage == IsFiniteSet({}) /\ Cardinality({}) <= PageLimit
  BY FS_EmptySet, TronAssumption DEF TronAssumption

(* The watcher starts with an empty database.                              *)
LEMMA InitIInv == Init => IInv
  BY EmptyPage, TronAssumption
  DEF TronAssumption, Init, IInv, TypeOK, Times, Clocks, TimesGrow, Whole, OnRecord,
      ConfirmedIsBacked, ShownInOrder, Passed, Recorded, FiledEnded, CreditedNotFiled

-----------------------------------------------------------------------------
(* The chain.                                                              *)

LEMMA MineStep == ASSUME IInv, Mine PROVE IInv'
<1>1. /\ now' = now + 1 /\ now < MaxTime
      /\ UNCHANGED <<solid, shown, reorgs, faults, cursor, stored, pc, line, newest, page>>
      /\ Whole(mined')
      /\ mined' \in [Transfers -> Times]
      /\ \A t \in Transfers : mined'[t] = mined[t] \/ (mined[t] = 0 /\ mined'[t] = now + 1)
  <2>1. now' = now + 1 /\ now' \in Times
    BY TronAssumption DEF TronAssumption, Mine, IInv, TypeOK, Times
  <2>2. PICK S \in SUBSET {t \in Transfers : mined[t] = 0} :
          mined' = [t \in Transfers |-> IF t \in S THEN now' ELSE mined[t]]
    BY DEF Mine
  <2>3. mined' \in [Transfers -> Times]
    BY <2>1, <2>2 DEF IInv, TypeOK
  <2> QED BY <2>1, <2>2, <2>3 DEF Mine
<1>2. TypeOK' /\ IsFiniteSet(page)'
  BY <1>1, TronAssumption DEF TronAssumption, IInv, TypeOK, Times, stored
<1>3. Clocks'
  BY <1>1, TronAssumption DEF TronAssumption, IInv, TypeOK, Times, Clocks, stored
<1>4. TimesGrow'
  BY <1>1, TronAssumption
  DEF TronAssumption, IInv, TypeOK, Times, Clocks, TimesGrow, OnRecord, Whole, stored
<1>5. ConfirmedIsBacked' /\ (OnePerTransaction => FiledEnded)'
  BY <1>1 DEF IInv, ConfirmedIsBacked, FiledEnded, OnePerTransaction, CreditedNotFiled, stored
<1>6. ShownInOrder'
  BY <1>1 DEF IInv, TypeOK, Times, Clocks, ShownInOrder
<1>7. Passed'
  BY <1>1 DEF IInv, TypeOK, Times, Clocks, Passed, Recorded, OnRecord, stored
<1> QED BY <1>2, <1>3, <1>4, <1>5, <1>6, <1>7 DEF IInv

LEMMA SolidifyStep == ASSUME IInv, Solidify PROVE IInv'
<1>1. /\ solid' = solid + 1 /\ solid < now
      /\ UNCHANGED <<mined, now, shown, reorgs, faults, cursor, stored, pc, line, newest, page>>
  BY DEF Solidify
<1>2. TypeOK' /\ IsFiniteSet(page)' /\ Clocks'
  BY <1>1, TronAssumption DEF TronAssumption, IInv, TypeOK, Times, Clocks, stored
<1>3. TimesGrow' /\ ShownInOrder' /\ Passed'
  BY <1>1 DEF IInv, TimesGrow, OnRecord, Whole, ShownInOrder, Passed, Recorded, stored
<1>4. ConfirmedIsBacked'
  BY <1>1 DEF IInv, TypeOK, Times, ConfirmedIsBacked, stored
<1>5. (OnePerTransaction => FiledEnded)'
  BY <1>1 DEF IInv, FiledEnded, OnePerTransaction, CreditedNotFiled, stored
<1> QED BY <1>2, <1>3, <1>4, <1>5 DEF IInv

LEMMA ReorgStep == ASSUME IInv, Reorg, ~Replaces PROVE IInv'
<1>1. /\ reorgs < MaxReorgs /\ reorgs' = reorgs + 1
      /\ UNCHANGED <<now, solid, faults, cursor, stored, pc, line, newest, page>>
      /\ Whole(mined')
      /\ mined' \in [Transfers -> Times]
      /\ \A t \in Transfers : mined'[t] = mined[t] \/ mined'[t] = 0
      /\ shown' = {t \in shown : mined'[t] = mined[t]}
  BY DEF Reorg
<1>2. TypeOK' /\ IsFiniteSet(page)'
  BY <1>1, TronAssumption DEF TronAssumption, IInv, TypeOK, Times, stored
<1>3. Clocks'
  BY <1>1 DEF IInv, TypeOK, Times, Clocks, stored
<1>4. TimesGrow'
  BY <1>1 DEF IInv, TypeOK, TimesGrow, OnRecord, Whole, stored
<1>5. ConfirmedIsBacked' /\ (OnePerTransaction => FiledEnded)'
  BY <1>1 DEF IInv, ConfirmedIsBacked, FiledEnded, OnePerTransaction, CreditedNotFiled, stored
<1>6. ShownInOrder'
  BY <1>1 DEF IInv, TypeOK, Times, ShownInOrder
<1>7. Passed'
  BY <1>1 DEF IInv, TypeOK, Times, Clocks, Passed, Recorded, OnRecord, stored
<1> QED BY <1>2, <1>3, <1>4, <1>5, <1>6, <1>7 DEF IInv

LEMMA ShowStep == ASSUME IInv, NEW t \in Transfers, Show(t), InOrder PROVE IInv'
<1>1. /\ mined[t] # 0 /\ shown' = shown \cup {t}
      /\ {u \in Transfers : mined[u] \in 1 .. mined[t] - 1} \subseteq shown
      /\ UNCHANGED <<mined, now, solid, reorgs, faults, cursor, stored, pc, line, newest, page>>
  BY DEF Show
<1>2. TypeOK' /\ IsFiniteSet(page)' /\ Clocks'
  BY <1>1 DEF IInv, TypeOK, Clocks, stored
<1>3. TimesGrow' /\ ConfirmedIsBacked' /\ Passed' /\ (OnePerTransaction => FiledEnded)'
  BY <1>1 DEF IInv, TimesGrow, OnRecord, Whole, Passed, Recorded, ConfirmedIsBacked,
              FiledEnded, OnePerTransaction, CreditedNotFiled, stored
<1>4. ShownInOrder'
  BY <1>1 DEF IInv, ShownInOrder
<1> QED BY <1>2, <1>3, <1>4 DEF IInv

-----------------------------------------------------------------------------
(* The tick.                                                               *)

LEMMA SolidifiedBlockStep == ASSUME IInv, SolidifiedBlock PROVE IInv'
<1>1. /\ line' = solid /\ pc' = "feed"
      /\ UNCHANGED <<chainVars, faults, cursor, stored, newest, page>>
  BY DEF SolidifiedBlock
<1>2. TypeOK' /\ IsFiniteSet(page)' /\ Clocks'
  BY <1>1 DEF IInv, TypeOK, Times, Clocks, chainVars, stored
<1>3. TimesGrow' /\ ShownInOrder' /\ Passed' /\ ConfirmedIsBacked'
  BY <1>1 DEF IInv, TimesGrow, OnRecord, Whole, ShownInOrder, Passed, Recorded,
              ConfirmedIsBacked, chainVars, stored
<1>4. (OnePerTransaction => FiledEnded)'
  BY <1>1 DEF IInv, FiledEnded, OnePerTransaction, CreditedNotFiled, chainVars, stored
<1> QED BY <1>2, <1>3, <1>4 DEF IInv

(* What the feed holds from the cursor on, less what a page leaves out at  *)
(* its end, leaves nothing out before any of its transfers.                *)
LEMMA FeedStep == ASSUME IInv, TRC20Transfers PROVE IInv'
<1>1. PICK S \in SUBSET Feed : FirstPage(S) /\ page' = S
  BY DEF TRC20Transfers
<1>2. /\ newest' = cursor /\ pc' = "apply"
      /\ UNCHANGED <<chainVars, faults, cursor, stored, line>>
  BY DEF TRC20Transfers
<1>3. \A r \in S : r[1] \in shown /\ r[2] = mined[r[1]] /\ r \in Transfers \X Times
  BY DEF Feed, IInv, TypeOK
<1>4. IsFiniteSet(S) /\ Cardinality(S) <= PageLimit
  BY <1>1, FeedFinite, FS_Subset DEF FirstPage, Fits, IInv
<1>5. TypeOK' /\ IsFiniteSet(page)'
  BY <1>1, <1>2, <1>3, <1>4 DEF IInv, TypeOK, chainVars, stored
<1>6. Clocks'
  <2>1. \A r \in S : r[2] \in 1..now
    BY <1>3 DEF IInv, TypeOK, Times, Clocks, ShownInOrder
  <2> QED BY <1>1, <1>2, <2>1 DEF IInv, TypeOK, Times, Clocks, chainVars, stored
<1>7. TimesGrow'
  <2>1. \A r, q \in S : Tx[r[1]] = Tx[q[1]] => r[2] = q[2]
    BY <1>3 DEF IInv, TypeOK, TimesGrow, Whole
  <2>2. \A r \in S : mined[r[1]] # 0 => r[2] <= mined[r[1]]
    BY <1>3 DEF IInv, TypeOK, Times
  <2>3. \A r \in S : OnRecord(r[1]) => at[Tx[r[1]]] <= r[2]
    BY <1>3 DEF IInv, TypeOK, TimesGrow, ShownInOrder
  <2> QED BY <1>1, <1>2, <2>1, <2>2, <2>3 DEF IInv, TimesGrow, OnRecord, Whole, chainVars, stored
<1>8. Passed'
  <2>1. ASSUME NEW r \in S, NEW t \in Transfers, mined[t] \in 1 .. r[2] - 1
        PROVE  Recorded(t) \/ <<t, mined[t]>> \in S
    <3>1. t \in shown
      BY <1>3, <2>1 DEF IInv, ShownInOrder
    <3>2. CASE mined[t] < cursor
      BY <2>1, <3>2 DEF IInv, Passed, TypeOK, Times
    <3>3. CASE mined[t] >= cursor
      <4>1. <<t, mined[t]>> \in Feed
        BY <3>1, <3>3 DEF Feed, InRange
      <4>2. <<t, mined[t]>> \notin S => r[2] <= mined[t]
        BY <1>1, <4>1 DEF FirstPage
      <4> QED BY <1>3, <2>1, <4>2 DEF Times, IInv, TypeOK
    <3> QED BY <3>2, <3>3 DEF IInv, TypeOK, Times
  <2> QED BY <1>1, <1>2, <2>1 DEF IInv, Passed, Recorded, OnRecord, chainVars, stored
<1>9. ShownInOrder' /\ ConfirmedIsBacked' /\ (OnePerTransaction => FiledEnded)'
  BY <1>2 DEF IInv, ShownInOrder, ConfirmedIsBacked, FiledEnded, OnePerTransaction,
              CreditedNotFiled, chainVars, stored
<1> QED BY <1>5, <1>6, <1>7, <1>8, <1>9 DEF IInv

(* A tick that ends drops its page and moves nothing else.                 *)
LEMMA EndStep ==
  ASSUME IInv, EndTickWith("idle"), UNCHANGED <<chainVars, cursor, stored>>,
         faults' \in 0..MaxFaults
  PROVE  IInv'
<1>1. pc' = "idle" /\ line' = 0 /\ newest' = 0 /\ page' = {}
  BY DEF EndTickWith
<1>2. TypeOK' /\ IsFiniteSet(page)' /\ Clocks'
  BY <1>1, EmptyPage, TronAssumption
  DEF TronAssumption, IInv, TypeOK, Times, Clocks, chainVars, stored
<1>3. TimesGrow' /\ ShownInOrder' /\ Passed' /\ ConfirmedIsBacked'
  BY <1>1 DEF IInv, TimesGrow, OnRecord, Whole, ShownInOrder, Passed, Recorded,
              ConfirmedIsBacked, chainVars, stored
<1>4. (OnePerTransaction => FiledEnded)'
  BY DEF IInv, FiledEnded, OnePerTransaction, CreditedNotFiled, chainVars, stored
<1> QED BY <1>2, <1>3, <1>4 DEF IInv

(* The cursor moves to a timestamp before which everything is recorded.    *)
LEMMA SaveCursorStep == ASSUME IInv, SaveCursor PROVE IInv'
<1>1. /\ cursor' = newest /\ pc' = "settle"
      /\ UNCHANGED <<chainVars, faults, stored, line, newest, page>>
  BY DEF SaveCursor
<1>2. TypeOK' /\ IsFiniteSet(page)' /\ Clocks'
  BY <1>1 DEF IInv, TypeOK, Times, Clocks, chainVars, stored
<1>3. TimesGrow' /\ ShownInOrder' /\ Passed' /\ ConfirmedIsBacked'
  BY <1>1 DEF IInv, TimesGrow, OnRecord, Whole, ShownInOrder, Passed, Recorded,
              ConfirmedIsBacked, chainVars, stored
<1>4. (OnePerTransaction => FiledEnded)'
  BY <1>1 DEF IInv, FiledEnded, OnePerTransaction, CreditedNotFiled, chainVars, stored
<1> QED BY <1>2, <1>3, <1>4 DEF IInv

LEMMA SettleStep == ASSUME IInv, NEW x \in Transactions, Settle(x) PROVE IInv'
<1>1. /\ credited[x] \in Invoices /\ at[x] <= solid
      /\ status' = [status EXCEPT ![credited[x]] = "confirmed"]
      /\ UNCHANGED <<chainVars, faults, cursor, credited, at, filed, pc, line, newest, page>>
  BY DEF Settle, Settleable, Unsettled, IInv, TypeOK, Times, Clocks
<1>2. TypeOK' /\ IsFiniteSet(page)' /\ Clocks'
  BY <1>1 DEF IInv, TypeOK, Clocks, chainVars
<1>3. TimesGrow' /\ ShownInOrder' /\ Passed'
  BY <1>1 DEF IInv, TimesGrow, OnRecord, Whole, ShownInOrder, Passed, Recorded, chainVars
<1>4. ConfirmedIsBacked'
  BY <1>1 DEF IInv, TypeOK, ConfirmedIsBacked, chainVars
<1>5. (OnePerTransaction => FiledEnded)'
  BY <1>1, TronAssumption
  DEF TronAssumption, IInv, TypeOK, FiledEnded, OnePerTransaction, CreditedNotFiled
<1> QED BY <1>2, <1>3, <1>4, <1>5 DEF IInv

-----------------------------------------------------------------------------
(* A transfer is applied.                                                  *)

(* What the three outcomes share: what is on record stays as it is, and    *)
(* the transfer itself is recorded.                                        *)
LEMMA ApplyRecords ==
  ASSUME IInv, NEW r \in page, Apply(r)
  PROVE  /\ \A x \in Transactions : credited[x] # NoInvoice =>
               credited'[x] = credited[x] /\ at'[x] = at[x]
         /\ \A t \in Transfers : Recorded(t) => Recorded(t)'
         /\ Recorded(r[1])'
<1>1. Reapply(r[1], r[2]) \/ Orphan(r[1]) \/ Credit(r[1], r[2])
  BY DEF Apply
<1>2. r[1] \in Transfers /\ Tx[r[1]] \in Transactions
  BY TronAssumption DEF TronAssumption, IInv, TypeOK
<1>3. CASE Reapply(r[1], r[2])
  BY <1>3 DEF Reapply, Recorded, OnRecord
<1>4. CASE Orphan(r[1])
  BY <1>4 DEF Orphan, Recorded, OnRecord
<1>5. CASE Credit(r[1], r[2])
  <2>1. /\ credited' = [credited EXCEPT ![Tx[r[1]]] = Pays[r[1]]]
        /\ at' = [at EXCEPT ![Tx[r[1]]] = r[2]]
        /\ filed' = filed /\ credited[Tx[r[1]]] = NoInvoice /\ Pays[r[1]] # NoInvoice
    BY <1>5 DEF Credit, OnRecord
  <2>2. \A x \in Transactions : credited[x] # NoInvoice =>
          credited'[x] = credited[x] /\ at'[x] = at[x]
    BY <2>1 DEF IInv, TypeOK
  <2>3. \A t \in Transfers : Tx[t] \in Transactions
    BY TronAssumption DEF TronAssumption
  <2>4. credited'[Tx[r[1]]] = Pays[r[1]]
    BY <1>2, <2>1 DEF IInv, TypeOK
  <2> QED BY <2>1, <2>2, <2>3, <2>4 DEF Recorded, OnRecord
<1> QED BY <1>1, <1>3, <1>4, <1>5

(* The page and the newest timestamp: whatever of the page is taken, all   *)
(* before it is recorded.                                                  *)
LEMMA ApplyPasses == ASSUME IInv, NEW r \in page, Apply(r) PROVE Passed'
<1>1. /\ page' = page \ {r} /\ newest' = IF r[2] > newest THEN r[2] ELSE newest
      /\ mined' = mined /\ cursor' = cursor /\ \A q \in page : r[2] <= q[2]
  BY DEF Apply, IsNext, chainVars
<1>2. /\ \A t \in Transfers : Recorded(t) => Recorded(t)'
      /\ Recorded(r[1])'
  BY ApplyRecords
<1>3. \A t \in Transfers : mined'[t] \in 1 .. cursor' - 1 => Recorded(t)'
  BY <1>1, <1>2 DEF IInv, Passed
<1>4. ASSUME NEW t \in Transfers, mined'[t] \in 1 .. newest' - 1 PROVE Recorded(t)'
  <2>1. CASE newest' = newest
    BY <1>1, <1>2, <1>4, <2>1 DEF IInv, Passed
  <2>2. CASE newest' = r[2]
    <3>1. Recorded(t) \/ <<t, mined[t]>> \in page
      BY <1>1, <1>4, <2>2 DEF IInv, Passed
    <3>2. <<t, mined[t]>> \notin page
      BY <1>1, <1>4, <2>2 DEF IInv, TypeOK, Times
    <3> QED BY <1>2, <3>1, <3>2
  <2> QED BY <1>1, <2>1, <2>2
<1>5. ASSUME NEW q \in page', NEW t \in Transfers, mined'[t] \in 1 .. q[2] - 1
      PROVE  Recorded(t)' \/ <<t, mined'[t]>> \in page'
  <2>1. Recorded(t) \/ <<t, mined[t]>> \in page
    BY <1>1, <1>5 DEF IInv, Passed
  <2>2. <<t, mined[t]>> = r => Recorded(t)'
    BY <1>2
  <2> QED BY <1>1, <1>2, <2>1, <2>2
<1> QED BY <1>3, <1>4, <1>5 DEF Passed

LEMMA ApplyBacked == ASSUME IInv, NEW r \in page, Apply(r) PROVE ConfirmedIsBacked'
<1>1. /\ solid' = solid /\ line <= solid /\ line \in Times /\ solid \in Times
      /\ r[1] \in Transfers /\ r[2] \in Times
      /\ Tx[r[1]] \in Transactions /\ Pays[r[1]] \in Invoices \cup {NoInvoice}
  BY TronAssumption DEF TronAssumption, Apply, chainVars, IInv, TypeOK, Clocks
<1>2. Reapply(r[1], r[2]) \/ Orphan(r[1]) \/ Credit(r[1], r[2])
  BY DEF Apply
<1>3. \A x \in Transactions : credited[x] # NoInvoice =>
        credited'[x] = credited[x] /\ at'[x] = at[x]
  BY ApplyRecords
<1>4. \A i \in Invoices : status[i] = "confirmed" =>
        \E x \in Transactions : credited'[x] = i /\ at'[x] <= solid
  BY <1>3, TronAssumption DEF TronAssumption, IInv, ConfirmedIsBacked
<1>5. CASE Reapply(r[1], r[2])
  <2> DEFINE paid == credited[Tx[r[1]]]
  <2>1. /\ paid \in Invoices /\ at[Tx[r[1]]] <= r[2] /\ at[Tx[r[1]]] \in Times
        /\ status' = [status EXCEPT ![paid] = IF r[2] <= line THEN "confirmed" ELSE @]
    BY <1>1, <1>5 DEF Reapply, OnRecord, IInv, TypeOK, TimesGrow
  <2>2. /\ r[2] <= line => at'[Tx[r[1]]] <= solid
        /\ credited'[Tx[r[1]]] = paid
    BY <1>1, <1>3, <1>5, <2>1 DEF Times, Reapply, OnRecord
  <2>3. \A i \in Invoices : status'[i] = "confirmed" =>
          status[i] = "confirmed" \/ (i = paid /\ r[2] <= line)
    BY <2>1 DEF IInv, TypeOK
  <2> QED BY <1>1, <1>4, <2>2, <2>3 DEF ConfirmedIsBacked
<1>6. CASE Orphan(r[1])
  BY <1>1, <1>4, <1>6 DEF Orphan, ConfirmedIsBacked
<1>7. CASE Credit(r[1], r[2])
  <2>1. /\ credited'[Tx[r[1]]] = Pays[r[1]] /\ at'[Tx[r[1]]] = r[2]
        /\ status' = [status EXCEPT ![Pays[r[1]]] = StatusFor(r[2])]
    BY <1>1, <1>7 DEF Credit, IInv, TypeOK
  <2>2. \A i \in Invoices : status'[i] = "confirmed" =>
          status[i] = "confirmed" \/ (i = Pays[r[1]] /\ r[2] <= line)
    BY <2>1 DEF StatusFor, IInv, TypeOK
  <2>3. r[2] <= line => r[2] <= solid
    BY <1>1 DEF Times
  <2> QED BY <1>1, <1>4, <2>1, <2>2, <2>3 DEF ConfirmedIsBacked
<1> QED BY <1>2, <1>5, <1>6, <1>7

(* A transfer is not mined before the time it was first recorded at.       *)
LEMMA ApplyGrows == ASSUME IInv, NEW r \in page, Apply(r) PROVE TimesGrow'
<1>1. /\ mined' = mined /\ page' = page \ {r}
      /\ r[1] \in Transfers /\ Tx[r[1]] \in Transactions
  BY TronAssumption DEF TronAssumption, Apply, chainVars, IInv, TypeOK
<1>2. /\ Whole(mined')
      /\ \A q, p \in page' : Tx[q[1]] = Tx[p[1]] => q[2] = p[2]
      /\ \A q \in page' : mined'[q[1]] # 0 => q[2] <= mined'[q[1]]
  BY <1>1 DEF IInv, TimesGrow, Whole
<1>3. CASE credited' = credited /\ at' = at
  BY <1>1, <1>2, <1>3 DEF IInv, TimesGrow, OnRecord
<1>4. CASE Credit(r[1], r[2])
  <2>1. /\ at' = [at EXCEPT ![Tx[r[1]]] = r[2]]
        /\ credited' = [credited EXCEPT ![Tx[r[1]]] = Pays[r[1]]]
    BY <1>4 DEF Credit
  <2>2. \A t \in Transfers : Tx[t] \in Transactions
    BY TronAssumption DEF TronAssumption
  <2>3. ASSUME NEW t \in Transfers, OnRecord(t)', mined'[t] # 0
        PROVE  at'[Tx[t]] <= mined'[t]
    <3>1. CASE Tx[t] = Tx[r[1]]
      <4>1. mined[r[1]] = mined[t] /\ at'[Tx[t]] = r[2]
        BY <1>1, <2>1, <3>1 DEF IInv, TypeOK, TimesGrow, Whole
      <4> QED BY <1>1, <2>3, <4>1 DEF IInv, TimesGrow
    <3>2. CASE Tx[t] # Tx[r[1]]
      <4>1. at'[Tx[t]] = at[Tx[t]] /\ credited'[Tx[t]] = credited[Tx[t]]
        BY <2>1, <2>2, <3>2 DEF IInv, TypeOK
      <4> QED BY <1>1, <2>3, <4>1 DEF IInv, TimesGrow, OnRecord
    <3> QED BY <3>1, <3>2
  <2>4. ASSUME NEW q \in page', OnRecord(q[1])' PROVE at'[Tx[q[1]]] <= q[2]
    <3>1. q \in page /\ q[1] \in Transfers /\ q[2] \in Times
      BY <1>1 DEF IInv, TypeOK
    <3>2. CASE Tx[q[1]] = Tx[r[1]]
      <4>1. r[2] = q[2] /\ at'[Tx[q[1]]] = r[2]
        BY <1>1, <2>1, <3>1, <3>2 DEF IInv, TypeOK, TimesGrow
      <4> QED BY <3>1, <4>1 DEF Times
    <3>3. CASE Tx[q[1]] # Tx[r[1]]
      <4>1. at'[Tx[q[1]]] = at[Tx[q[1]]] /\ credited'[Tx[q[1]]] = credited[Tx[q[1]]]
        BY <2>1, <2>2, <3>1, <3>3 DEF IInv, TypeOK
      <4> QED BY <2>4, <3>1, <4>1 DEF IInv, TimesGrow, OnRecord
    <3> QED BY <3>2, <3>3
  <2> QED BY <1>2, <2>3, <2>4 DEF TimesGrow
<1> QED BY <1>3, <1>4 DEF Apply, Reapply, Orphan

LEMMA ApplyTypes ==
  ASSUME IInv, NEW r \in page, Apply(r) PROVE TypeOK' /\ IsFiniteSet(page)' /\ Clocks'
<1>1. /\ page' = page \ {r}
      /\ newest' = IF r[2] > newest THEN r[2] ELSE newest
      /\ UNCHANGED <<chainVars, faults, cursor, pc, line>>
      /\ Reapply(r[1], r[2]) \/ Orphan(r[1]) \/ Credit(r[1], r[2])
  BY DEF Apply
<1>2. /\ r[1] \in Transfers /\ r[2] \in Times /\ r[2] \in 1..now
      /\ Tx[r[1]] \in Transactions /\ Pays[r[1]] \in Invoices \cup {NoInvoice}
  BY TronAssumption DEF TronAssumption, IInv, TypeOK, Clocks
<1>3. IsFiniteSet(page') /\ Cardinality(page') <= PageLimit
  BY <1>1, PageShrinks DEF IInv, TypeOK
<1>4. /\ status' \in [Invoices -> {"pending", "detected", "confirmed"}]
      /\ credited' \in [Transactions -> Invoices \cup {NoInvoice}]
      /\ at' \in [Transactions -> Times] /\ filed' \subseteq Transactions
      /\ \A x \in Transactions : at'[x] <= now
  <2>1. CASE Reapply(r[1], r[2])
    BY <1>2, <2>1 DEF Reapply, IInv, TypeOK, Clocks
  <2>2. CASE Orphan(r[1])
    BY <1>2, <2>2 DEF Orphan, IInv, TypeOK, Clocks
  <2>3. CASE Credit(r[1], r[2])
    BY <1>2, <2>3 DEF Credit, StatusFor, IInv, TypeOK, Clocks
  <2> QED BY <1>1, <2>1, <2>2, <2>3
<1>5. TypeOK'
  BY <1>1, <1>2, <1>3, <1>4 DEF IInv, TypeOK, chainVars
<1>6. Clocks'
  BY <1>1, <1>2, <1>4 DEF IInv, Clocks, chainVars
<1> QED BY <1>3, <1>5, <1>6

(* With one transfer per transaction, what is filed was for no invoice or  *)
(* for one that has ended, and an invoice that has ended takes no payment. *)
LEMMA ApplyFiled ==
  ASSUME IInv, NEW r \in page, Apply(r), OnePerTransaction PROVE FiledEnded'
<1>1. /\ r[1] \in Transfers
      /\ Tx \in [Transfers -> Transactions] /\ Pays \in [Transfers -> Invoices \cup {NoInvoice}]
      /\ NoInvoice \notin Invoices
  BY TronAssumption DEF TronAssumption, IInv, TypeOK
<1>2. CASE Reapply(r[1], r[2])
  BY <1>1, <1>2 DEF Reapply, OnRecord, IInv, TypeOK, FiledEnded, CreditedNotFiled
<1>3. CASE Orphan(r[1])
  BY <1>1, <1>3 DEF Orphan, OnRecord, OnePerTransaction, IInv, TypeOK, FiledEnded, CreditedNotFiled
<1>4. CASE Credit(r[1], r[2])
  <2>1. Tx[r[1]] \notin filed
    BY <1>1, <1>4 DEF Credit, IInv, FiledEnded
  <2> QED BY <1>1, <1>4, <2>1
          DEF Credit, StatusFor, IInv, TypeOK, FiledEnded, CreditedNotFiled
<1> QED BY <1>2, <1>3, <1>4 DEF Apply

LEMMA ApplyStep == ASSUME IInv, NEW r \in page, Apply(r) PROVE IInv'
<1>1. ShownInOrder'
  BY DEF Apply, chainVars, IInv, ShownInOrder
<1>2. (OnePerTransaction => FiledEnded)'
  BY ApplyFiled DEF OnePerTransaction
<1> QED BY <1>1, <1>2, ApplyTypes, ApplyGrows, ApplyBacked, ApplyPasses DEF IInv

LEMMA StutterStep == ASSUME IInv, UNCHANGED vars PROVE IInv'
<1>1. TypeOK' /\ IsFiniteSet(page)' /\ Clocks' /\ TimesGrow'
  BY DEF vars, chainVars, stored, IInv, TypeOK, Clocks, TimesGrow, OnRecord, Whole
<1>2. ConfirmedIsBacked' /\ ShownInOrder' /\ Passed'
  BY DEF vars, chainVars, stored, IInv, ConfirmedIsBacked, ShownInOrder, Passed, Recorded, OnRecord
<1>3. (OnePerTransaction => FiledEnded)'
  BY DEF vars, chainVars, stored, IInv, FiledEnded, OnePerTransaction, CreditedNotFiled
<1> QED BY <1>1, <1>2, <1>3 DEF IInv

LEMMA NextStep == ASSUME IInv, InOrder, ~Replaces, [Next]_vars PROVE IInv'
<1>1. CASE Mine
  BY <1>1, MineStep
<1>2. CASE Solidify
  BY <1>2, SolidifyStep
<1>3. CASE Reorg
  BY <1>3, ReorgStep
<1>4. ASSUME NEW t \in Transfers, Show(t) PROVE IInv'
  BY <1>4, ShowStep
<1>5. CASE Work
  <2>1. CASE SolidifiedBlock
    BY <2>1, SolidifiedBlockStep
  <2>2. CASE TRC20Transfers
    BY <2>2, FeedStep
  <2>3. CASE SaveCursor
    BY <2>3, SaveCursorStep
  <2>4. CASE EndTick
    BY <2>4, EndStep DEF EndTick, IInv, TypeOK
  <2>5. ASSUME NEW r \in page, Apply(r) PROVE IInv'
    BY <2>5, ApplyStep
  <2>6. ASSUME NEW r \in page, ApplyFails(r) PROVE IInv'
    BY <2>6, EndStep DEF ApplyFails, IInv, TypeOK
  <2>7. ASSUME NEW x \in Transactions, Settle(x) PROVE IInv'
    BY <2>7, SettleStep
  <2> QED BY <1>5, <2>1, <2>2, <2>3, <2>4, <2>5, <2>6, <2>7 DEF Work
<1>6. CASE Interrupt
  <2>1. faults' \in 0..MaxFaults
    BY <1>6, TronAssumption DEF TronAssumption, Interrupt, IInv, TypeOK
  <2> QED BY <1>6, <2>1, EndStep DEF Interrupt
<1>7. CASE UNCHANGED vars
  BY <1>7, StutterStep
<1> QED BY <1>1, <1>2, <1>3, <1>4, <1>5, <1>6, <1>7 DEF Next

-----------------------------------------------------------------------------
(* The inductive invariant, for a feed that shows earlier blocks first and *)
(* reorgs that leave what they un-mine to later blocks.                    *)
THEOREM Invariance == ASSUME InOrder, ~Replaces PROVE Spec => []IInv
<1>1. Init => IInv
  BY InitIInv
<1>2. IInv /\ [Next]_vars => IInv'
  BY NextStep
<1> QED BY <1>1, <1>2, PTL DEF Spec

(* The watcher's state keeps its types: no page exceeds the limit, no      *)
(* record is of an unknown invoice or time.                                *)
THEOREM TypeCorrect == ASSUME InOrder, ~Replaces PROVE Spec => []TypeOK
<1>1. IInv => TypeOK
  BY DEF IInv
<1> QED BY <1>1, Invariance, PTL

(* The cursor leaves nothing solid behind that is not recorded.            *)
THEOREM NothingFallsBehind == ASSUME InOrder, ~Replaces PROVE Spec => []NothingPassed
<1>1. IInv => NothingPassed
  BY DEF IInv, TypeOK, Times, Passed, NothingPassed, Solid
<1> QED BY <1>1, Invariance, PTL

(* An invoice is confirmed only for a payment whose recorded block is      *)
(* solid.                                                                  *)
THEOREM ConfirmedStaysBacked == ASSUME InOrder, ~Replaces PROVE Spec => []ConfirmedIsBacked
<1>1. IInv => ConfirmedIsBacked
  BY DEF IInv
<1> QED BY <1>1, Invariance, PTL

(* Where every transaction is one transfer, money that was credited is     *)
(* never filed as an orphan, whichever order it is read in again.          *)
THEOREM CreditedNeverFiled ==
  ASSUME InOrder, ~Replaces, OnePerTransaction PROVE Spec => []CreditedNotFiled
<1>1. IInv => CreditedNotFiled
  BY DEF IInv, FiledEnded
<1> QED BY <1>1, Invariance, PTL
=============================================================================
