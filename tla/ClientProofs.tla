---------------------------- MODULE ClientProofs ----------------------------
(***************************************************************************)
(* The proofs about the clients that go on until they have what they came  *)
(* for.  InvoiceList, pkg/cryptopay over the list endpoint: for any number *)
(* of invoices, any filter, page size, clock and interleaving, a walk      *)
(* yields no invoice twice and one that ends without an error has yielded  *)
(* all it owes. EndpointPool, pkg/evm over a list of nodes: for any number *)
(* of endpoints, a call that reports that all of them failed tells the     *)
(* truth, and while all is well none carries more than another.            *)
(* RateBudget, pkg/ratebudget: for any number of callers and any quota, a  *)
(* day is overrun by no more than one request for each caller, and a       *)
(* caller that is alone gets its own day's units back.                     *)
(***************************************************************************)
EXTENDS InvoiceList, EndpointPool, RateBudget, FiniteSetTheorems, TLAPS

-----------------------------------------------------------------------------
\* The order of the rows.

LEMMA AboveTransitive ==
  ASSUME TypeOK, NEW i \in Ids, NEW j \in Ids, NEW k \in Ids, Above(i, j), Above(j, k)
  PROVE  Above(i, k)
  BY ListAssumption DEF TypeOK, Above

LEMMA AboveTotal ==
  ASSUME TypeOK, NEW i \in Ids, NEW j \in Ids
  PROVE  /\ Above(i, j) => i # j /\ ~Above(j, i)
         /\ i = j \/ Above(i, j) \/ Above(j, i)
  BY ListAssumption DEF TypeOK, Above

LEMMA TypeFacts ==
  ASSUME TypeOK
  PROVE  /\ rows \subseteq Ids /\ begun \subseteq Ids
         /\ page \subseteq Ids /\ seen \subseteq Ids /\ owed \subseteq Ids
         /\ position # None => position \in Ids
         /\ filter \in Filters
  BY DEF TypeOK

-----------------------------------------------------------------------------
\* Every step keeps the invariant.

LEMMA InitInv == Init => IInv
<1> SUFFICES ASSUME Init PROVE IInv
  OBVIOUS
<1>1. TypeOK
  <2>1. 0 \in 0..MaxTime /\ 0 \in 0..MaxChanges
    BY ListAssumption
  <2>2. at \in [Ids -> 0..MaxTime]
    BY <2>1 DEF Init
  <2> QED
    BY <2>1, <2>2 DEF Init, TypeOK
<1> QED
  BY <1>1 DEF Init, IInv, Due

\* A row that is not visible yet may take any time.
LEMMA BeginInsertInv == ASSUME IInv, NEW i \in Ids, BeginInsert(i) PROVE IInv'
<1>1. TypeOK
  BY DEF IInv
<1>2. TypeOK'
  BY <1>1, ListAssumption DEF TypeOK, BeginInsert
<1>3. \A j \in rows : j \in Ids /\ at'[j] = at[j]
  BY <1>1 DEF TypeOK, BeginInsert
<1>4. \A j \in rows, k \in rows : Above(j, k)' = Above(j, k)
  BY <1>3 DEF Above
<1>5. position # None => position \in rows
  BY <1>1 DEF TypeOK
<1>6. \A j \in rows : Passed(j)' = Passed(j)
  BY <1>4, <1>5 DEF Passed, BeginInsert
<1>7. Due' = Due /\ Exact' = Exact /\ Due \subseteq rows /\ page \subseteq rows /\ seen \subseteq rows
  BY <1>1 DEF Due, Exact, BeginInsert, TypeOK
<1>8. owed' \subseteq Matching(filter, None)'
  BY <1>3 DEF Matching, BeginInsert, IInv
<1>9. Exact /\ walk = "answered" =>
        IF more /\ page # {} THEN \A j \in page, k \in Due : Above(j, k)' ELSE Due = {}
  BY <1>4, <1>7 DEF IInv
<1> QED
  BY <1>2, <1>6, <1>7, <1>8, <1>9 DEF IInv, BeginInsert

\* What the steps leave alone that touch neither the order nor the walk.
LEMMA FrameInv ==
  ASSUME IInv, TypeOK', at' = at, UNCHANGED <<walk, filter, position, page, more, seen, again>>,
         owed' \subseteq owed, owed' \subseteq Matching(filter, None)'
  PROVE  IInv'
<1>1. \A j, k : Above(j, k)' = Above(j, k)
  BY DEF Above
<1>2. \A j : Passed(j)' = Passed(j)
  BY <1>1 DEF Passed
<1>3. Due' \subseteq Due /\ Exact' = Exact
  BY DEF Due, Exact
<1>4. Exact /\ walk = "answered" =>
        IF more /\ page # {} THEN \A j \in page, k \in Due' : Above(j, k)' ELSE Due' = {}
  BY <1>1, <1>3 DEF IInv
<1> QED
  BY <1>2, <1>3, <1>4 DEF IInv

LEMMA CommitInv == ASSUME IInv, NEW i \in Ids, Commit(i) PROVE IInv'
<1>1. TypeOK'
  BY ListAssumption DEF IInv, TypeOK, Commit
<1>2. owed' \subseteq Matching(filter, None)'
  BY DEF IInv, Matching, Commit
<1> QED
  BY <1>1, <1>2, FrameInv DEF Commit

LEMMA ChangeInv == ASSUME IInv, NEW i \in Ids, Change(i) PROVE IInv'
<1>1. TypeOK'
  BY ListAssumption DEF IInv, TypeOK, Change
<1>2. owed' \subseteq owed /\ (filter.status = "pending" => i \notin owed')
  BY DEF Change
<1>3. filter.status \in {"any", "pending"}
  BY ListAssumption DEF IInv, TypeOK
<1>4. owed' \subseteq Matching(filter, None)'
  BY <1>2, <1>3 DEF IInv, Matching, Change
<1> QED
  BY <1>1, <1>2, <1>4, FrameInv DEF Change

LEMMA TickInv == ASSUME IInv, Tick PROVE IInv'
<1>1. TypeOK'
  BY ListAssumption DEF IInv, TypeOK, Tick
<1>2. owed' \subseteq Matching(filter, None)'
  BY DEF IInv, Matching, Tick
<1> QED
  BY <1>1, <1>2, FrameInv DEF Tick

LEMMA StartWalkInv == ASSUME IInv, StartWalk PROVE IInv'
<1>1. Matching(filter, None) \subseteq rows
  BY DEF Matching
<1>2. TypeOK'
  BY <1>1 DEF IInv, TypeOK, StartWalk, table
<1>3. owed' \subseteq Matching(filter, None)'
  BY DEF StartWalk, table, Matching
<1>4. seen = {} /\ position = None /\ page = {} /\ ~more /\ again = {}
  BY DEF IInv, StartWalk
<1>5. \A j : ~Passed(j)'
  BY <1>4 DEF Passed, StartWalk
<1> QED
  BY <1>2, <1>3, <1>4, <1>5 DEF IInv, StartWalk

-----------------------------------------------------------------------------
\* A page is answered.

\* What is owed matches the filter as it is sent, too.
LEMMA DueIsAsked ==
  ASSUME IInv, Exact, NEW j \in owed, ~Passed(j)
  PROVE  j \in Matching(Sent(filter), position)
<1>1. TypeOK /\ j \in Matching(filter, None) /\ j \in Ids
  BY TypeFacts DEF IInv
<1>2. /\ filter.from \in Nat \cup {Zero} /\ filter.to \in Nat \cup {Zero}
      /\ Second \in Nat \ {0} /\ at[j] \in Nat
  BY <1>1, ListAssumption DEF TypeOK
<1>3. Sent(filter).status = filter.status
  BY DEF Sent
<1>4. Sent(filter).from = Zero \/ at[j] >= Sent(filter).from
  <2>1. Sent(filter).from = Truncated(filter.from)
    BY DEF Sent
  <2>2. filter.from = Zero \/ at[j] >= filter.from
    BY <1>1 DEF Matching
  <2>3. CASE filter.from = Zero
    BY <2>1, <2>3 DEF Truncated
  <2>4. CASE filter.from # Zero
    <3>1. filter.from \in Nat /\ filter.from % Second \in Nat
      BY <1>2, <2>4
    <3> QED
      BY <2>1, <2>2, <2>4, <3>1, <1>2 DEF Truncated
  <2> QED
    BY <2>3, <2>4
<1>5. Sent(filter).to = Zero \/ at[j] <= Sent(filter).to
  <2>1. Sent(filter).to = filter.to
    BY <1>2 DEF Sent, Truncated, Exact
  <2> QED
    BY <2>1, <1>1 DEF Matching
<1>6. position = None \/ Below(j, position)
  BY <1>1, TypeFacts, AboveTotal DEF Passed, Below
<1> QED
  BY <1>1, <1>3, <1>4, <1>5, <1>6 DEF Matching

LEMMA LimitPositive == ASSUME TypeOK PROVE Limit(filter) \in Nat \ {0}
  BY ListAssumption DEF TypeOK, Limit

LEMMA QueryInv == ASSUME IInv, Query PROVE IInv'
<1>1. TypeOK /\ walk = "asking" /\ page = {} /\ walk' = "answered" /\ position' = position
  BY DEF IInv, Query
<1> DEFINE m == Matching(Sent(filter), position)
<1>2. PICK p \in SUBSET m :
        /\ IsFirst(p, m, PageSize(filter))
        /\ more' = (Cardinality(p) > Limit(filter))
        /\ IF more' THEN \E l \in p : IsLast(l, p) /\ page' = p \ {l} ELSE page' = p
  BY DEF Query
<1>3. m \subseteq rows /\ page' \subseteq p /\ more' \in BOOLEAN
  BY <1>2 DEF Matching
<1>4. TypeOK'
  BY <1>1, <1>3 DEF TypeOK, Query, table
<1>5. \A j : Passed(j)' = Passed(j)
  BY DEF Query, table, Passed, Above
<1>6. owed' \subseteq Matching(filter, None)'
  BY DEF IInv, Query, table, Matching
<1>7. ASSUME NEW j \in m PROVE ~Passed(j)
  <2>1. position = None \/ Above(position, j)
    BY DEF Matching, Below
  <2> QED
    BY <1>1, <1>3, <2>1, TypeFacts, AboveTotal DEF Passed
<1>8. Due' \subseteq Due \ page' /\ Exact' = Exact
  BY <1>1 DEF Due, Exact, Query
<1>9. Exact => Due \subseteq m
  BY <1>1, DueIsAsked DEF IInv, Due
<1>10. ASSUME Exact
       PROVE  IF more' /\ page' # {} THEN \A i \in page', j \in Due' : Above(i, j)' ELSE Due' = {}
  <2>1. \A i, j : Above(i, j)' = Above(i, j)
    BY DEF Query, table, Above
  <2>2. Limit(filter) \in Nat \ {0} /\ PageSize(filter) = Limit(filter) + 1
    BY <1>1, LimitPositive DEF PageSize
  <2>3. CASE ~more'
    <3>1. ~(Cardinality(p) > Limit(filter))
      BY <1>2, <2>3
    <3>2. IF Cardinality(m) <= PageSize(filter) THEN p = m ELSE Cardinality(p) = PageSize(filter)
      BY <1>2 DEF IsFirst
    <3>3. p = m
      <4> HIDE DEF m
      <4> QED
        BY <2>2, <3>1, <3>2, SMT
    <3> QED
      BY <1>2, <1>8, <1>9, <1>10, <2>3, <3>3
  <2>4. CASE more'
    <3>1. PICK l \in p : IsLast(l, p) /\ page' = p \ {l}
      BY <1>2, <2>4
    <3>2. page' # {}
      <4>1. SUFFICES ASSUME p = {l} PROVE FALSE
        BY <3>1
      <4>2. Cardinality(p) = 1
        BY <4>1, FS_Singleton
      <4>3. Cardinality(p) > Limit(filter)
        BY <1>2, <2>4
      <4> QED
        BY <2>2, <4>2, <4>3
    <3>3. ASSUME NEW i \in page', NEW j \in Due' PROVE Above(i, j)
      <4>1. j \in m /\ j \notin page' /\ i \in p /\ i # l
        BY <1>8, <1>9, <1>10, <3>1
      <4>2. CASE j = l
        BY <3>1, <4>1, <4>2 DEF IsLast
      <4>3. CASE j # l
        BY <1>2, <3>1, <4>1, <4>3 DEF IsFirst
      <4> QED
        BY <4>2, <4>3
    <3> QED
      BY <2>1, <2>4, <3>2, <3>3
  <2> QED
    BY <2>3, <2>4
<1> HIDE DEF m
<1>11. /\ \A i \in page' : ~Passed(i)'
       /\ \A i \in seen' : Passed(i)'
  BY <1>1, <1>3, <1>5, <1>7, <1>2 DEF IInv, Query
<1> QED
  BY <1>1, <1>4, <1>6, <1>8, <1>10, <1>11 DEF IInv, Query

-----------------------------------------------------------------------------
\* A page is yielded.

LEMMA ReceiveInv == ASSUME IInv, Receive PROVE IInv'
<1>1. TypeOK /\ walk = "answered" /\ page' = {} /\ ~more'
  BY DEF IInv, Receive
<1>2. /\ \A i \in seen : Passed(i)
      /\ \A i \in page : ~Passed(i)
  BY <1>1 DEF IInv
<1>3. again' = {}
  BY <1>2 DEF IInv, Receive
<1>4. Due' = Due /\ Exact' = Exact
  BY DEF Due, Exact, Receive
<1>5. owed' \subseteq Matching(filter, None)'
  BY DEF IInv, Receive, table, Matching
<1>6. \A i, j : Above(i, j)' = Above(i, j)
  BY DEF Receive, table, Above
<1>7. CASE ~(more /\ page # {})
  <2>1. walk' = "done" /\ position' = position
    BY <1>7 DEF Receive
  <2>2. TypeOK'
    BY <1>1, <1>3, <2>1 DEF TypeOK, Receive, table
  <2>3. Exact => Due = {}
    BY <1>1, <1>7 DEF IInv
  <2> QED
    BY <1>1, <1>3, <1>4, <1>5, <2>1, <2>2, <2>3 DEF IInv
<1>8. CASE more /\ page # {}
  <2>1. PICK l \in page : IsLast(l, page) /\ position' = l
    BY <1>8 DEF Receive, NextPosition
  <2>2. walk' = "asking" /\ seen' = seen \cup page
    BY <1>8 DEF Receive
  <2>3. TypeOK'
    BY <1>1, <1>3, <2>1, <2>2 DEF TypeOK, Receive, table
  <2>4. l \in Ids /\ l # None
    BY <1>1, TypeFacts, ListAssumption
  <2>5. ASSUME NEW i \in seen PROVE Above(i, l)
    <3>1. position # None /\ (i = position \/ Above(i, position)) /\ position \in Ids
      BY <1>1, <1>2, TypeFacts DEF Passed
    <3>2. l # position /\ ~Above(l, position)
      BY <1>2, <3>1 DEF Passed
    <3>3. Above(position, l)
      BY <1>1, <2>4, <3>1, <3>2, AboveTotal
    <3> QED
      BY <1>1, <2>4, <3>1, <3>3, TypeFacts, AboveTransitive
  <2>6. \A i \in seen' : Passed(i)'
    BY <1>6, <2>1, <2>2, <2>4, <2>5 DEF Passed, IsLast
  <2>7. Exact => \A j \in Due : ~Passed(j)'
    <3>1. SUFFICES ASSUME Exact, NEW j \in Due PROVE ~Passed(j)'
      OBVIOUS
    <3>2. Above(l, j) /\ j \in Ids
      BY <1>1, <1>8, <3>1, TypeFacts DEF IInv, Due
    <3> QED
      BY <1>1, <1>6, <2>1, <2>4, <3>2, AboveTotal DEF Passed
  <2> QED
    BY <1>1, <1>3, <1>4, <1>5, <2>2, <2>3, <2>6, <2>7 DEF IInv
<1> QED
  BY <1>7, <1>8

LEMMA FailInv == ASSUME IInv, Fail PROVE IInv'
<1>1. TypeOK'
  BY DEF IInv, TypeOK, Fail, table
<1>2. owed' \subseteq Matching(filter, None)'
  BY DEF IInv, Fail, table, Matching
<1> QED
  BY <1>1, <1>2 DEF IInv, Fail

-----------------------------------------------------------------------------
\* The results.

\* The walk is where its position says, in every reachable state.
THEOREM Invariance == Spec => []IInv
<1>1. ASSUME IInv, [Next]_vars PROVE IInv'
  <2>1. CASE UNCHANGED vars
    <3>1. UNCHANGED table /\ UNCHANGED <<walk, filter, position, page, more, seen, again, owed>>
      BY <2>1 DEF vars
    <3>2. UNCHANGED <<clock, begun, rows, at, pending, changes>>
      BY <3>1 DEF table
    <3>3. TypeOK'
      BY <1>1, <3>1, <3>2 DEF IInv, TypeOK
    <3>4. owed' \subseteq Matching(filter, None)'
      BY <1>1, <3>1, <3>2 DEF IInv, Matching
    <3> QED
      BY <1>1, <3>1, <3>2, <3>3, <3>4, FrameInv
  <2>2. CASE Next
    BY <1>1, <2>2, BeginInsertInv, CommitInv, ChangeInv, TickInv, StartWalkInv, QueryInv,
       ReceiveInv, FailInv DEF Next, Client, Refuse
  <2> QED
    BY <1>1, <2>1, <2>2
<1> QED
  BY <1>1, InitInv, PTL DEF Spec

\* No invoice is yielded twice, whatever is created or changed between pages
\* (cursor.go:15).
THEOREM NothingTwice == Spec => []YieldedOnce
<1>1. IInv => YieldedOnce
  BY DEF IInv, YieldedOnce
<1> QED
  BY <1>1, Invariance, PTL

\* A walk that ends without an error has yielded every invoice that matched
\* throughout, whatever commits late (cursor.go:15).
THEOREM NothingMissed == Spec => []NoneMissed
<1>1. IInv => NoneMissed
  BY DEF IInv, NoneMissed, Due, Exact
<1> QED
  BY <1>1, Invariance, PTL

-----------------------------------------------------------------------------
\* The endpoints of a pool.

LEMMA PoolFacts ==
  ASSUME PoolTypeOK
  PROVE  /\ pool.n \in Nat \ {0} /\ Endpoints \subseteq Nat /\ 0 \in Endpoints
         /\ \A e \in Endpoints : e < pool.n
  BY PoolAssumption DEF PoolTypeOK, Endpoints

\* Places on a ring: the distance from e up to c, and up to the place before c.
LEMMA RingStep ==
  ASSUME NEW n \in Nat \ {0}, NEW c \in 0..n - 1, NEW e \in 0..n - 1
  PROVE  /\ (c - e) % n \in 0..n - 1
         /\ c = e <=> (c - e) % n = 0
         /\ c # e => (c - 1 - e) % n = ((c - e) % n) - 1
         /\ (c - 1 - c) % n = n - 1
<1>1. CASE e <= c
  <2>1. (c - e) % n = c - e
    BY <1>1
  <2>2. c # e => (c - 1 - e) % n = c - 1 - e
    BY <1>1
  <2>3. (c - 1 - c) % n = n - 1
    OBVIOUS
  <2> QED
    BY <1>1, <2>1, <2>2, <2>3
<1>2. CASE e > c
  <2>1. (c - e) % n = c - e + n
    BY <1>2
  <2>2. (c - 1 - e) % n = c - 1 - e + n
    BY <1>2
  <2>3. (c - 1 - c) % n = n - 1
    OBVIOUS
  <2> QED
    BY <1>2, <2>1, <2>2, <2>3
<1> QED
  BY <1>1, <1>2

LEMMA RingBack ==
  \A n \in Nat \ {0} : \A c, e \in 0..n - 1 :
    c # e => (c - 1 - e) % n = ((c - e) % n) - 1
BY RingStep

\* Where the rotation goes on from.
LEMMA RingNext ==
  ASSUME NEW n \in Nat \ {0}, NEW c \in 0..n - 1, NEW e \in 0..n - 1
  PROVE  (c + 1) % n \in 0..n - 1 /\ (((c + 1) % n) - 1 - e) % n = (c - e) % n
<1>1. CASE c + 1 < n
  <2>1. (c + 1) % n = c + 1
    BY <1>1
  <2> QED
    BY <1>1, <2>1
<1>2. CASE c + 1 = n
  <2>1. (c + 1) % n = 0
    BY <1>2
  <2>2. (0 - 1 - e) % n = n - 1 - e
    OBVIOUS
  <2>3. (c - e) % n = n - 1 - e
    BY <1>2
  <2> QED
    BY <2>1, <2>2, <2>3
<1> QED
  BY <1>1, <1>2

-----------------------------------------------------------------------------
\* The load of a round.

\* A load of nothing is a round of none.
LEMMA FreshRound ==
  ASSUME NEW n \in Nat \ {0}, NEW c \in Int
  PROVE  \E k \in 0..n - 1 : \A e \in 0..n - 1 : 0 = IF (c - e) % n < k THEN 1 ELSE 0
<1>1. ASSUME NEW e \in 0..n - 1 PROVE 0 = IF (c - e) % n < 0 THEN 1 ELSE 0
  <2>1. (c - e) % n \in 0..n - 1
    OBVIOUS
  <2> QED
    BY <2>1
<1>2. 0 \in 0..n - 1
  OBVIOUS
<1> QED
  BY <1>1, <1>2

\* The request goes to the endpoint at the cursor, the next in the round.
LEMMA RoundGrows ==
  ASSUME PoolInv, asking, resting = {}, left = Endpoints, NEW e \in Endpoints, First(e)
  PROVE  /\ e = cursor
         /\ \E k \in 1..pool.n :
              \A f \in Endpoints :
                [load EXCEPT ![e] = @ + 1][f] = IF (cursor - f) % pool.n < k THEN 1 ELSE 0
<1> DEFINE n == pool.n
           c == cursor
<1>1. n \in Nat \ {0} /\ Endpoints = 0..n - 1 /\ c \in 0..n - 1 /\ PoolTypeOK
  BY PoolFacts DEF PoolInv, PoolTypeOK, Endpoints
<1>2. e = c
  <2>1. SUFFICES ASSUME e # c PROVE FALSE
    OBVIOUS
  <2>2. (e - c) % n < (c - c) % n
    BY <1>1, <2>1 DEF First, Before, Distance
  <2>3. (e - c) % n \in Int /\ (e - c) % n >= 0 /\ (c - c) % n = 0
    BY <1>1
  <2> QED
    BY <2>2, <2>3
<1>3. PICK k \in 0..n - 1 : \A f \in Endpoints : load[f] = IF (c - 1 - f) % n < k THEN 1 ELSE 0
  BY DEF PoolInv, Round, RoundAt
<1>4. load \in [Endpoints -> {0, 1}]
  BY DEF PoolInv, Round
<1>5. k + 1 \in 1..n
  BY <1>1
<1>6. \A f \in 0..n - 1 : c # f => (c - 1 - f) % n = ((c - f) % n) - 1
  <2> HIDE DEF n, c
  <2>1. n \in Nat \ {0} /\ c \in 0..n - 1
    BY <1>1
  <2> QED
    BY <2>1, RingBack
<1>7. ASSUME NEW f \in Endpoints
      PROVE  [load EXCEPT ![e] = @ + 1][f] = IF (c - f) % n < k + 1 THEN 1 ELSE 0
  <2>1. (c - f) % n \in 0..n - 1 /\ ((c = f) <=> (c - f) % n = 0) /\ (c - 1 - c) % n = n - 1
    BY <1>1, RingStep
  <2>2. CASE f = c
    <3>1. load[f] = 0
      BY <1>1, <1>3, <2>1, <2>2
    <3> QED
      BY <1>1, <1>2, <1>4, <2>1, <2>2, <3>1
  <2>3. CASE f # c
    <3>1. (c - 1 - f) % n = ((c - f) % n) - 1
      BY <1>1, <1>6, <2>3
    <3>2. load[f] = IF ((c - f) % n) - 1 < k THEN 1 ELSE 0
      BY <1>3, <3>1
    <3>3. [load EXCEPT ![e] = @ + 1][f] = load[f]
      BY <1>2, <1>4, <2>3
    <3> QED
      BY <1>1, <2>1, <3>2, <3>3
  <2> QED
    BY <2>2, <2>3
<1> QED
  BY <1>2, <1>5, <1>7

\* The least load of a round that is complete, and of one that is not.
LEMMA LeastOfRound ==
  ASSUME PoolTypeOK, NEW k \in 1..pool.n, NEW l \in [Endpoints -> Nat],
         \A f \in Endpoints : l[f] = IF (cursor - f) % pool.n < k THEN 1 ELSE 0
  PROVE  Least(l) = IF k = pool.n THEN 1 ELSE 0
<1> DEFINE n == pool.n
           c == cursor
<1>1. n \in Nat \ {0} /\ Endpoints = 0..n - 1 /\ c \in 0..n - 1
  BY PoolFacts DEF PoolTypeOK, Endpoints
<1>2. \A f \in Endpoints : (c - f) % n \in 0..n - 1
  BY <1>1, RingStep
<1>3. CASE k = n
  <2>1. \A f \in Endpoints : l[f] = 1
    BY <1>1, <1>2, <1>3
  <2>2. 0 \in Endpoints
    BY <1>1
  <2>3. {l[f] : f \in Endpoints} = {1}
    BY <2>1, <2>2
  <2> QED
    BY <1>3, <2>1, <2>3 DEF Least
<1>4. CASE k # n
  <2> DEFINE g == (c + 1) % n
  <2>1. g \in 0..n - 1 /\ (g - 1 - g) % n = (c - g) % n
    BY <1>1, RingNext
  <2> HIDE DEF g
  <2>2. (g - 1 - g) % n = n - 1
    BY <1>1, <2>1, RingStep
  <2>3. l[g] = 0 /\ g \in Endpoints
    BY <1>1, <1>4, <2>1, <2>2
  <2>4. \A f \in Endpoints : 0 <= l[f]
    OBVIOUS
  <2>5. ASSUME NEW x \in {l[f] : f \in Endpoints}, \A f \in Endpoints : x <= l[f]
        PROVE  x = 0
    BY <2>3, <2>5
  <2>6. \E x \in {l[f] : f \in Endpoints} : \A f \in Endpoints : x <= l[f]
    BY <2>3, <2>4
  <2> QED
    BY <1>4, <2>5, <2>6 DEF Least
<1> QED
  BY <1>3, <1>4

\* A request that meets no trouble is the next of the round, any other begins a new one.
LEMMA CountRound ==
  ASSUME PoolInv, asking, NEW e \in Endpoints, First(e), Count(e), pool' = pool, cursor' = cursor
  PROVE  /\ RoundAt(cursor)' /\ load' \in [Endpoints -> {0, 1}]
         /\ load' \in [Endpoints -> Nat]
<1> DEFINE n == pool.n
           c == cursor
<1>1. n \in Nat \ {0} /\ Endpoints = 0..n - 1 /\ c \in 0..n - 1 /\ PoolTypeOK
  BY PoolFacts DEF PoolInv, PoolTypeOK, Endpoints
<1>2. ASSUME load' = [f \in Endpoints |-> 0]
      PROVE  RoundAt(c)' /\ load' \in [Endpoints -> {0, 1}] /\ load' \in [Endpoints -> Nat]
  <2>1. \A f \in 0..n - 1 : load'[f] = 0
    BY <1>1, <1>2
  <2>2. \E k \in 0..n - 1 : \A f \in 0..n - 1 : load'[f] = IF (c - f) % n < k THEN 1 ELSE 0
    <3>0. c \in Int
      BY <1>1
    <3>1. \E k \in 0..n - 1 : \A f \in 0..n - 1 : 0 = IF (c - f) % n < k THEN 1 ELSE 0
      <4> HIDE DEF n, c
      <4> QED
        BY <1>1, <3>0, FreshRound
    <3> QED
      BY <2>1, <3>1
  <2> QED
    BY <1>2, <2>2 DEF RoundAt, Endpoints
<1>3. CASE resting # {} \/ left # Endpoints \/ cooldown'[e] > 0
  BY <1>2, <1>3 DEF Count
<1>4. CASE ~(resting # {} \/ left # Endpoints \/ cooldown'[e] > 0)
  <2> DEFINE l == [load EXCEPT ![e] = @ + 1]
  <2>1. load' = [f \in Endpoints |-> l[f] - Least(l)]
    BY <1>4 DEF Count
  <2>2. PICK k \in 1..n : \A f \in Endpoints : l[f] = IF (c - f) % n < k THEN 1 ELSE 0
    BY <1>4, RoundGrows
  <2>3. l \in [Endpoints -> Nat]
    BY DEF PoolInv, Round
  <2> HIDE DEF l
  <2>4. Least(l) = IF k = n THEN 1 ELSE 0
    BY <1>1, <2>2, <2>3, LeastOfRound
  <2>5. CASE k = n
    <3>0. \A f \in Endpoints : (c - f) % n < n
      BY <1>1, RingStep
    <3>1. \A f \in Endpoints : l[f] = 1
      BY <2>2, <2>5, <3>0
    <3>2. load' = [f \in Endpoints |-> 0]
      BY <2>1, <2>4, <2>5, <3>1
    <3> QED
      BY <1>2, <3>2
  <2>6. CASE k # n
    <3>1. k \in 0..n - 1
      BY <1>1, <2>6
    <3>2. \A f \in Endpoints : load'[f] = IF (c - f) % n < k THEN 1 ELSE 0
      BY <2>1, <2>2, <2>3, <2>4, <2>6
    <3>3. load' \in [Endpoints -> {0, 1}]
      BY <2>1, <3>2
    <3> QED
      BY <3>1, <3>2, <3>3 DEF RoundAt, Endpoints
  <2> QED
    BY <2>5, <2>6
<1> QED
  BY <1>3, <1>4

-----------------------------------------------------------------------------
\* Every step of the pool keeps the invariant.

LEMMA PoolInitInv == PoolInit => PoolInv
<1> SUFFICES ASSUME PoolInit PROVE PoolInv
  OBVIOUS
<1>1. /\ pool.n \in Nat \ {0} /\ MaxChunks \in Nat /\ FailureCooldown \in Nat
      /\ MaxFaults \in Nat /\ MaxBehind \in Nat
  BY PoolAssumption DEF PoolInit
<1>2. PoolTypeOK
  <2>1. 0 \in 0..FailureCooldown /\ 0 \in 0..MaxChunks /\ 0 \in 0..MaxFaults
    BY <1>1
  <2>2. cooldown \in [Endpoints -> 0..FailureCooldown] /\ load \in [Endpoints -> Nat]
    BY <2>1 DEF PoolInit
  <2>3. cursor \in Endpoints
    BY <1>1 DEF PoolInit, Endpoints
  <2> QED
    BY <2>1, <2>2, <2>3 DEF PoolInit, PoolTypeOK
<1>3. Honest
  BY DEF PoolInit, Honest
<1>4. Round
  <2>1. RoundAt(cursor)
    <3>1. \E k \in 0..pool.n - 1 : \A e \in 0..pool.n - 1 :
             0 = IF (0 - e) % pool.n < k THEN 1 ELSE 0
      BY <1>1, FreshRound
    <3> QED
      BY <3>1 DEF PoolInit, RoundAt, Endpoints
  <2> QED
    BY <2>1 DEF PoolInit, Round
<1>5. Going
  BY DEF PoolInit, Going
<1> QED
  BY <1>2, <1>3, <1>4, <1>5 DEF PoolInv

\* Nothing a call is about changes.
LEMMA PoolFrame ==
  ASSUME PoolInv, UNCHANGED <<pool, cursor, asking, resting, left, load>>
  PROVE  Round'
BY DEF PoolInv, Round, RoundAt, Endpoints

LEMMA StartTickInv == ASSUME PoolInv, StartTick PROVE PoolInv'
<1>1. PoolTypeOK'
  BY PoolAssumption
     DEF PoolInv, PoolTypeOK, StartTick, rotation, history, Endpoints, Methods
<1>2. Honest'
  BY DEF PoolInv, Honest, StartTick, rotation, history, Endpoints
<1>3. Going'
  BY PoolAssumption DEF Going, StartTick
<1> QED
  BY <1>1, <1>2, <1>3, PoolFrame DEF PoolInv, StartTick, rotation, history

LEMMA BeginCallInv == ASSUME PoolInv, BeginCall PROVE PoolInv'
<1> DEFINE n == pool.n
<1>1. n \in Nat \ {0} /\ Endpoints = 0..n - 1 /\ cursor \in 0..n - 1
  BY PoolFacts DEF PoolInv, PoolTypeOK, Endpoints
<1>2. cursor' = (cursor + 1) % n /\ cursor' \in 0..n - 1
  BY <1>1, RingNext DEF BeginCall, Advance
<1>3. PoolTypeOK'
  BY <1>1, <1>2 DEF PoolInv, PoolTypeOK, BeginCall, Candidates, Endpoints
<1>4. Honest'
  BY DEF PoolInv, Honest, BeginCall, Candidates, Endpoints
<1>5. RoundAt(cursor - 1)'
  <2>1. PICK k \in 0..n - 1 :
          \A e \in Endpoints : load[e] = IF (cursor - e) % n < k THEN 1 ELSE 0
    BY DEF PoolInv, Round, RoundAt, BeginCall
  <2>2. \A e \in 0..n - 1 : (cursor' - 1 - e) % n = (cursor - e) % n
    BY <1>1, <1>2, RingNext
  <2>3. \A e \in 0..n - 1 : load[e] = IF (cursor' - 1 - e) % n < k THEN 1 ELSE 0
    BY <1>1, <2>1, <2>2
  <2> QED
    BY <2>3 DEF RoundAt, Endpoints, BeginCall
<1> QED
  BY <1>3, <1>4, <1>5 DEF PoolInv, Going, Round, BeginCall, Endpoints

LEMMA MarkFailedInv == ASSUME PoolInv, NEW e \in Endpoints, MarkFailed(e) PROVE PoolInv'
<1>1. /\ asking /\ First(e) /\ Count(e) /\ e \notin up /\ left' = left \ {e}
      /\ UNCHANGED <<pool, up, cursor, resting, downs, faults>>
  BY DEF MarkFailed
<1>2. RoundAt(cursor)' /\ load' \in [Endpoints -> {0, 1}] /\ load' \in [Endpoints -> Nat]
  BY <1>1, CountRound
<1>3. PoolTypeOK'
  <2>1. /\ method' \in Methods \cup {"idle"} /\ asking' \in BOOLEAN
        /\ chunk' \in 0..MaxChunks /\ behind' \in 0..MaxBehind
        /\ outcome' \in {"none", "ok", "refused", "failed"}
    <3>1. \/ UNCHANGED <<asking, method, chunk, behind, outcome>>
          \/ /\ asking' = FALSE /\ outcome' = "failed" /\ method' \in {"idle", "logs"}
             /\ UNCHANGED <<chunk, behind>>
      BY DEF MarkFailed, GiveUp, EndTick, FallBack
    <3> QED
      BY <3>1 DEF PoolInv, PoolTypeOK, Methods
  <2>2. cooldown' \in [Endpoints -> 0..FailureCooldown]
    BY PoolAssumption DEF PoolInv, PoolTypeOK, MarkFailed
  <2> QED
    BY <1>1, <1>2, <2>1, <2>2 DEF PoolInv, PoolTypeOK, Endpoints
<1>4. Honest'
  BY <1>1 DEF PoolInv, Honest, Endpoints
<1>5. left' # Endpoints
  BY <1>1
<1>6. Going'
  BY DEF PoolInv, Going, MarkFailed, GiveUp, EndTick, FallBack
<1> QED
  BY <1>1, <1>2, <1>3, <1>4, <1>5, <1>6 DEF PoolInv, Round, Endpoints

LEMMA AnswerInv == ASSUME PoolInv, NEW e \in Endpoints, Answer(e) PROVE PoolInv'
<1>1. /\ asking /\ First(e) /\ Count(e) /\ asking' = FALSE /\ left' = {}
      /\ UNCHANGED <<pool, up, cursor, resting, cooldown, downs, faults>>
  BY DEF Answer
<1>2. RoundAt(cursor)' /\ load' \in [Endpoints -> {0, 1}] /\ load' \in [Endpoints -> Nat]
  BY <1>1, CountRound
<1>3. PoolTypeOK' /\ Going'
  <2>1. ASSUME Scanned, method = "logs"
        PROVE  /\ method' \in Methods \cup {"idle"}
               /\ chunk' \in 0..MaxChunks /\ behind' \in 0..MaxBehind
               /\ method' # "idle" => chunk' < MaxChunks
    <3>1. /\ chunk \in Nat /\ chunk < MaxChunks /\ behind \in 0..MaxBehind
          /\ MaxChunks \in Nat /\ MaxBehind \in Nat
      BY <2>1, PoolAssumption DEF PoolInv, PoolTypeOK, Going
    <3> QED
      BY <2>1, <3>1 DEF Scanned, Methods
  <2>2. /\ method' \in Methods \cup {"idle"}
        /\ chunk' \in 0..MaxChunks /\ behind' \in 0..MaxBehind
        /\ method' # "idle" => chunk' < MaxChunks
    <3>1. /\ chunk \in 0..MaxChunks /\ behind \in 0..MaxBehind
          /\ (method # "idle" => chunk < MaxChunks)
      BY DEF PoolInv, PoolTypeOK, Going
    <3>2. Proceed \/ FallBack \/ EndTick
      BY DEF Answer, GiveUp
    <3> QED
      BY <2>1, <3>1, <3>2 DEF Proceed, FallBack, EndTick, Methods
  <2>3. outcome' \in {"none", "ok", "refused", "failed"}
    BY DEF Answer
  <2>4. PoolTypeOK'
    BY <1>1, <1>2, <2>2, <2>3 DEF PoolInv, PoolTypeOK, Endpoints
  <2> QED
    BY <2>2, <2>4 DEF Going
<1>4. Honest'
  BY <1>1 DEF PoolInv, Honest, Endpoints
<1> QED
  BY <1>1, <1>2, <1>3, <1>4 DEF PoolInv, Round, Endpoints

\* Time passes: the cooldowns run down, and a round that met one starts afresh.
LEMMA ElapseInv == ASSUME PoolInv, Elapse PROVE PoolInv'
<1>1. UNCHANGED <<pool, up, method, asking, cursor, resting, left, chunk, outcome, downs, faults>>
  BY DEF Elapse, rotation
<1>2. PoolTypeOK /\ pool.n \in Nat \ {0} /\ cursor \in Int /\ Endpoints = 0..pool.n - 1
  BY PoolFacts DEF PoolInv, PoolTypeOK, Endpoints
<1>3. cooldown' \in [Endpoints -> 0..FailureCooldown]
  <2>1. \A e \in Endpoints : cooldown[e] \in 0..FailureCooldown
    BY <1>2 DEF PoolTypeOK
  <2>2. \A e \in Endpoints : Rest(cooldown[e]) \in 0..FailureCooldown
    BY <2>1, PoolAssumption DEF Rest
  <2> QED
    BY <2>2 DEF Elapse
<1>4. behind' \in 0..MaxBehind
  BY PoolAssumption, <1>2 DEF PoolTypeOK, Elapse
<1>5. Round' /\ load' \in [Endpoints -> Nat]
  <2>1. CASE load' = load
    BY <1>1, <1>2, <2>1, PoolFrame DEF PoolTypeOK
  <2>2. CASE load' = [e \in Endpoints |-> 0]
    <3>1. ASSUME NEW c \in Int PROVE \E k \in 0..pool.n - 1 :
             \A e \in Endpoints : load'[e] = IF (c - e) % pool.n < k THEN 1 ELSE 0
      <4>1. \E k \in 0..pool.n - 1 :
              \A e \in 0..pool.n - 1 : 0 = IF (c - e) % pool.n < k THEN 1 ELSE 0
        BY <1>2, FreshRound
      <4> QED
        BY <1>2, <2>2, <4>1
    <3>2. cursor - 1 \in Int
      BY <1>2
    <3> QED
      BY <1>1, <1>2, <2>2, <3>1, <3>2 DEF Round, RoundAt, Endpoints
  <2> QED
    BY <2>1, <2>2 DEF Elapse
<1>6. PoolTypeOK'
  BY <1>1, <1>2, <1>3, <1>4, <1>5 DEF PoolTypeOK, Endpoints
<1>7. Honest' /\ Going'
  BY <1>1 DEF PoolInv, Honest, Going, Endpoints
<1> QED
  BY <1>5, <1>6, <1>7 DEF PoolInv

LEMMA FaultInv ==
  ASSUME PoolInv, NEW e \in Endpoints, GoDown(e) \/ Recover(e)
  PROVE  PoolInv'
<1>1. UNCHANGED <<pool, cursor, resting, left, method, asking, cooldown, chunk, behind, outcome, load>>
  BY DEF GoDown, Recover, rotation, history
<1>2. PoolTypeOK'
  <2>1. /\ up' \subseteq Endpoints /\ downs' \subseteq Endpoints
        /\ faults' \in 0..MaxFaults /\ outcome' = outcome
    BY PoolAssumption DEF PoolInv, PoolTypeOK, GoDown, Recover, history
  <2> QED
    BY <1>1, <2>1 DEF PoolInv, PoolTypeOK, Endpoints
<1>3. Honest'
  BY <1>1 DEF PoolInv, Honest, GoDown, Recover, history, Endpoints
<1>4. Going'
  BY <1>1 DEF PoolInv, Going
<1> QED
  BY <1>1, <1>2, <1>3, <1>4, PoolFrame DEF PoolInv

LEMMA RestartInv == ASSUME PoolInv, Restart PROVE PoolInv'
<1>1. /\ UNCHANGED <<pool, up, behind>> /\ method' = "idle" /\ asking' = FALSE /\ cursor' = 0
      /\ load' = [e \in Endpoints |-> 0]
  BY DEF Restart
<1>2. /\ PoolTypeOK /\ pool.n \in Nat \ {0} /\ Endpoints = 0..pool.n - 1
      /\ 0 \in 0..FailureCooldown /\ 0 \in 0..MaxChunks
  BY PoolFacts, PoolAssumption DEF PoolInv, Endpoints
<1>3. PoolTypeOK'
  <2>1. cooldown' \in [Endpoints -> 0..FailureCooldown] /\ load' \in [Endpoints -> Nat]
    BY <1>2 DEF Restart
  <2>2. faults' \in 0..MaxFaults
    BY PoolAssumption, <1>2 DEF Restart, PoolTypeOK
  <2>3. /\ cursor' \in Endpoints /\ resting' = {} /\ left' = {} /\ chunk' \in 0..MaxChunks
        /\ outcome' = "none" /\ downs' = {}
    BY <1>2 DEF Restart
  <2> QED
    BY <1>1, <1>2, <2>1, <2>2, <2>3 DEF PoolTypeOK, Endpoints
<1>4. RoundAt(cursor)'
  <2>1. \E k \in 0..pool.n - 1 :
          \A e \in 0..pool.n - 1 : 0 = IF (0 - e) % pool.n < k THEN 1 ELSE 0
    BY <1>2, FreshRound
  <2> QED
    BY <1>1, <1>2, <2>1 DEF RoundAt, Endpoints
<1>5. Honest' /\ Going'
  BY DEF PoolInv, Honest, Going, Restart, Endpoints
<1> QED
  BY <1>1, <1>3, <1>4, <1>5 DEF PoolInv, Round, Endpoints

-----------------------------------------------------------------------------
\* The results about the pool.

\* Who was asked, who was down and who had how many requests, in every reachable state.
THEOREM PoolInvariance == PoolSpec => []PoolInv
<1>1. ASSUME PoolInv, [PoolNext]_poolVars PROVE PoolInv'
  <2>1. CASE UNCHANGED poolVars
    <3>1. UNCHANGED <<pool, up, method, asking, cursor, resting, left, cooldown, chunk, behind,
                      outcome, downs, load, faults>>
      BY <2>1 DEF poolVars, rotation, history
    <3>2. PoolTypeOK' /\ Honest' /\ Going'
      BY <1>1, <3>1 DEF PoolInv, PoolTypeOK, Honest, Going, Endpoints
    <3> QED
      BY <1>1, <3>1, <3>2, PoolFrame DEF PoolInv
  <2>2. CASE PoolNext
    BY <1>1, <2>2, StartTickInv, BeginCallInv, MarkFailedInv, AnswerInv, ElapseInv, FaultInv,
       RestartInv DEF PoolNext, Work, Ask
  <2> QED
    BY <1>1, <2>1, <2>2
<1> QED
  BY <1>1, PoolInitInv, PTL DEF PoolSpec

\* A call that reports that every endpoint failed tells the truth, whatever the
\* cooldowns said when it began (evm/client.go:371).
THEOREM TruthfulFailure == PoolSpec => FailedMeansAllDown
<1>1. ASSUME PoolInv, PoolNext, asking, ~asking', outcome' = "failed"
      PROVE  downs = Endpoints
  <2>1. \/ Restart \/ \E e \in Endpoints : MarkFailed(e) \/ Answer(e)
    BY <1>1 DEF PoolNext, Work, Ask, StartTick, BeginCall, Elapse, GoDown, Recover
  <2>2. ~Restart /\ \A e \in Endpoints : ~Answer(e)
    BY <1>1 DEF Restart, Answer
  <2>3. PICK e \in Endpoints : MarkFailed(e)
    BY <2>1, <2>2
  <2>4. left = {e} /\ e \notin up
    BY <1>1, <2>3 DEF MarkFailed
  <2> QED
    BY <1>1, <2>4 DEF PoolInv, Honest
<1>2. PoolInv /\ [PoolNext]_poolVars =>
        [asking /\ ~asking' /\ outcome' = "failed" => downs = Endpoints]_poolVars
  BY <1>1
<1> QED
  BY <1>2, PoolInvariance, PTL DEF PoolSpec, FailedMeansAllDown

\* While all is well no endpoint gets two requests more than another, for any number
\* of endpoints and of calls (evm/client.go:8).
THEOREM EvenLoad == PoolSpec => []EvenSpread
<1>1. PoolInv => EvenSpread
  <2> SUFFICES ASSUME PoolInv, NEW e \in Endpoints, NEW f \in Endpoints
               PROVE  load[e] - load[f] <= 1
    BY DEF EvenSpread
  <2>1. load[e] \in {0, 1} /\ load[f] \in {0, 1}
    BY DEF PoolInv, Round
  <2> QED
    BY <2>1
<1> QED
  BY <1>1, PoolInvariance, PTL

-----------------------------------------------------------------------------
\* The quota of a day.

Waiting == {c \in Callers : waits[c] # 0}

\* What has been spent of today's quota.
Charged == IF day = today THEN spent ELSE 0

BudgetConstants == IsFiniteSet(Callers) /\ daily \in Nat /\ Days \in Nat \ {0}

BudgetTypeOK ==
  /\ today \in 1..Days /\ day \in 1..today /\ spent \in Nat
  /\ waits \in [Callers -> 0..Days]
  /\ kept \in [1..Days -> Int] /\ sent \in [1..Days -> Nat]
  /\ starts \in [1..Days -> Nat] /\ starts[today] > 0

\* The quotas of n processes.
Quotas(n) == n * daily

\* Whoever waits may still send today what is not charged to today, beyond what the
\* processes of today that are gone could spend.
BudgetInv ==
  /\ BudgetTypeOK
  /\ daily > 0 =>
       /\ spent <= daily
       /\ \A d \in 1..today - 1 : sent[d] <= Quotas(starts[d]) + Cardinality(Callers)
       /\ sent[today] + Cardinality(Waiting)
            <= Quotas(starts[today] - 1) + Charged + Cardinality(Callers)
  /\ \A d \in today + 1..Days : sent[d] = 0

LEMMA OneQuotaMore ==
  ASSUME BudgetConstants
  PROVE  /\ \A n \in Nat : Quotas(n) \in Nat
         /\ \A n \in Nat : Quotas(n + 1) = Quotas(n) + daily
         /\ Quotas(0) = 0
BY DEF Quotas, BudgetConstants

LEMMA QuotasOfToday ==
  ASSUME BudgetConstants, BudgetTypeOK
  PROVE  /\ Quotas(starts[today] - 1) \in Nat /\ Quotas(starts[today]) \in Nat
         /\ Quotas(starts[today]) = Quotas(starts[today] - 1) + daily
<1>1. starts[today] \in Nat \ {0}
  BY DEF BudgetTypeOK, BudgetConstants
<1>2. starts[today] - 1 \in Nat /\ (starts[today] - 1) + 1 = starts[today]
  BY <1>1
<1> QED
  BY <1>2, OneQuotaMore

LEMMA WaitingSize ==
  ASSUME BudgetConstants
  PROVE  /\ Cardinality(Waiting) \in Nat /\ Cardinality(Callers) \in Nat
         /\ Cardinality(Waiting) <= Cardinality(Callers)
         /\ IsFiniteSet(Waiting)
BY FS_Subset, FS_CardinalityType DEF Waiting, BudgetConstants

LEMMA BudgetInitInv == BudgetConstants /\ BudgetInit => BudgetInv
<1> SUFFICES ASSUME BudgetConstants, BudgetInit PROVE BudgetInv
  OBVIOUS
<1>1. BudgetTypeOK /\ sent[today] = 0 /\ starts[today] - 1 = 0
  BY DEF BudgetInit, BudgetTypeOK, BudgetConstants
<1>2. Waiting = {} /\ Cardinality({}) = 0
  BY FS_EmptySet DEF BudgetInit, Waiting
<1>3. Charged = 0 /\ today = 1 /\ spent = 0 /\ \A d \in today + 1..Days : sent[d] = 0
  BY DEF BudgetInit, Charged, BudgetConstants
<1>4. daily > 0 => sent[today] + Cardinality(Waiting)
                     <= Quotas(starts[today] - 1) + Charged + Cardinality(Callers)
  BY <1>1, <1>2, <1>3, WaitingSize, OneQuotaMore
<1>5. \A d \in 1..today - 1 : FALSE
  BY <1>3
<1>6. daily > 0 => spent <= daily
  BY <1>3 DEF BudgetConstants
<1> QED
  BY <1>1, <1>3, <1>4, <1>5, <1>6 DEF BudgetInv

\* A caller takes a unit.
LEMMA ConsumeInv ==
  ASSUME BudgetConstants, BudgetInv, NEW c \in Callers, Consume(c)
  PROVE  BudgetInv'
<1>1. /\ waits[c] = 0 /\ day' = today /\ spent' = Charged + 1 /\ ~Exhausted(Charged)
      /\ waits' = [waits EXCEPT ![c] = today] /\ UNCHANGED <<today, sent, starts>>
  BY DEF Consume, Charged
<1>2. today \in Nat \ {0} /\ today \in 1..Days /\ Charged \in Nat /\ daily \in Nat
  BY DEF BudgetInv, BudgetTypeOK, Charged, BudgetConstants
<1>3. BudgetTypeOK'
  <2>1. kept' = [kept EXCEPT ![today] = @ + 1]
    BY DEF Consume
  <2>2. starts \in [1..Days -> Nat] /\ starts[today] > 0
    BY DEF BudgetInv, BudgetTypeOK
  <2>3. waits' \in [Callers -> 0..Days] /\ kept' \in [1..Days -> Int] /\ sent \in [1..Days -> Nat]
    BY <1>1, <1>2, <2>1 DEF BudgetInv, BudgetTypeOK, BudgetConstants
  <2>4. day' \in 1..today /\ spent' \in Nat
    BY <1>1, <1>2
  <2> QED
    BY <1>1, <1>2, <2>2, <2>3, <2>4 DEF BudgetTypeOK
<1>4. Waiting' = Waiting \cup {c} /\ c \notin Waiting
  BY <1>1, <1>2 DEF Waiting, BudgetInv, BudgetTypeOK
<1>5. Cardinality(Waiting') = Cardinality(Waiting) + 1
  BY <1>4, WaitingSize, FS_AddElement
<1>6. Charged' = Charged + 1
  BY <1>1 DEF Charged
<1>7. daily > 0 => spent' <= daily
  BY <1>1, <1>2 DEF Exhausted
<1>8. sent[today] \in Nat /\ Quotas(starts[today] - 1) \in Nat
  BY QuotasOfToday DEF BudgetInv, BudgetTypeOK
<1>9. daily > 0 => sent[today] + Cardinality(Waiting')
                     <= Quotas(starts[today] - 1) + Charged' + Cardinality(Callers)
  BY <1>2, <1>5, <1>6, <1>8, WaitingSize DEF BudgetInv
<1> QED
  BY <1>1, <1>3, <1>7, <1>9 DEF BudgetInv

\* A caller sends, or gives its unit back to today: it waits no longer.
LEMMA LeaveInv ==
  ASSUME BudgetConstants, BudgetInv, NEW c \in Callers, Send(c) \/ Refund(c)
  PROVE  BudgetInv'
<1>1. /\ waits[c] # 0 /\ waits' = [waits EXCEPT ![c] = 0] /\ UNCHANGED <<today, day, starts>>
  BY DEF Send, Refund
<1>2. /\ today \in 1..Days /\ spent \in Nat /\ daily \in Nat /\ sent \in [1..Days -> Nat]
      /\ day \in 1..today /\ Days \in Nat
  BY DEF BudgetInv, BudgetTypeOK, BudgetConstants
<1>3. Waiting' = Waiting \ {c} /\ c \in Waiting
  BY <1>1 DEF Waiting, BudgetInv, BudgetTypeOK
<1>4. Cardinality(Waiting') = Cardinality(Waiting) - 1
  BY <1>3, WaitingSize, FS_RemoveElement
<1>5. waits' \in [Callers -> 0..Days]
  BY <1>1 DEF BudgetInv, BudgetTypeOK, BudgetConstants
<1>6. /\ Quotas(starts[today] - 1) \in Nat
      /\ daily > 0 => sent[today] + Cardinality(Waiting)
                        <= Quotas(starts[today] - 1) + Charged + Cardinality(Callers)
  BY QuotasOfToday DEF BudgetInv
<1>7. CASE Send(c)
  <2>1. sent' = [sent EXCEPT ![today] = @ + 1] /\ UNCHANGED <<spent, kept>>
    BY <1>7 DEF Send
  <2>2. sent'[today] = sent[today] + 1 /\ \A d \in 1..Days \ {today} : sent'[d] = sent[d]
    BY <1>2, <2>1
  <2>3. BudgetTypeOK'
    <3>0. sent[today] + 1 \in Nat
      BY <1>2
    <3>1. sent' \in [1..Days -> Nat] /\ kept \in [1..Days -> Int]
      BY <1>2, <2>1, <3>0 DEF BudgetInv, BudgetTypeOK
    <3>2. starts \in [1..Days -> Nat] /\ starts[today] > 0
      BY DEF BudgetInv, BudgetTypeOK
    <3> QED
      BY <1>1, <1>2, <1>5, <2>1, <3>1, <3>2 DEF BudgetTypeOK
  <2>4. Charged' = Charged /\ Charged \in Nat
    BY <1>1, <1>2, <2>1 DEF Charged
  <2>5. daily > 0 => sent'[today] + Cardinality(Waiting')
                       <= Quotas(starts[today] - 1) + Charged' + Cardinality(Callers)
    BY <1>2, <1>4, <1>6, <2>2, <2>4, WaitingSize
  <2>6. \A d \in 1..today - 1 : d \in 1..Days \ {today}
    BY <1>2
  <2>7. \A d \in today + 1..Days : d \in 1..Days \ {today}
    BY <1>2
  <2> QED
    BY <1>1, <2>1, <2>2, <2>3, <2>5, <2>6, <2>7 DEF BudgetInv
<1>8. CASE Refund(c)
  <2>1. /\ spent' = IF today = day /\ spent > 0 THEN spent - 1 ELSE spent
        /\ kept' = [kept EXCEPT ![waits[c]] = @ - 1] /\ sent' = sent
    BY <1>8 DEF Refund
  <2>2. spent' \in Nat /\ spent' <= spent /\ Charged' >= Charged - 1 /\ Charged' \in Nat /\ Charged \in Nat
    BY <1>1, <1>2, <2>1 DEF Charged
  <2>3. BudgetTypeOK'
    <3>1. kept' \in [1..Days -> Int]
      <4>1. kept \in [1..Days -> Int] /\ waits[c] \in 1..Days
        BY <1>1 DEF BudgetInv, BudgetTypeOK, BudgetConstants
      <4>2. kept[waits[c]] - 1 \in Int
        BY <4>1
      <4> QED
        BY <2>1, <4>1, <4>2
    <3> QED
      BY <1>1, <1>2, <1>5, <2>1, <2>2, <3>1 DEF BudgetInv, BudgetTypeOK
  <2>4. daily > 0 => sent'[today] + Cardinality(Waiting')
                       <= Quotas(starts[today] - 1) + Charged' + Cardinality(Callers)
    <3>1. sent'[today] = sent[today] /\ sent[today] \in Nat
      BY <1>2, <2>1
    <3> QED
      BY <1>4, <1>6, <2>2, <3>1, WaitingSize
  <2>5. daily > 0 => spent' <= daily
    BY <1>2, <2>2 DEF BudgetInv
  <2> QED
    BY <1>1, <2>1, <2>3, <2>4, <2>5 DEF BudgetInv
<1> QED
  BY <1>7, <1>8

\* What is sent on a day is within its processes' quotas and one unit for each caller.
LEMMA WithinQuotas ==
  ASSUME BudgetConstants, BudgetInv, daily > 0
  PROVE  sent[today] + Cardinality(Waiting) <= Quotas(starts[today]) + Cardinality(Callers)
<1>1. /\ Charged <= daily /\ Charged \in Nat /\ daily \in Nat /\ sent[today] \in Nat
      /\ sent[today] + Cardinality(Waiting)
           <= Quotas(starts[today] - 1) + Charged + Cardinality(Callers)
  BY DEF BudgetInv, BudgetTypeOK, Charged, BudgetConstants
<1>2. BudgetTypeOK
  BY DEF BudgetInv
<1> QED
  BY <1>1, <1>2, QuotasOfToday, WaitingSize

\* On the new day nothing is charged yet, and all who wait have no unit of it.
LEMMA MidnightInv == ASSUME BudgetConstants, BudgetInv, Midnight PROVE BudgetInv'
<1>1. /\ today < Days /\ today' = today + 1 /\ UNCHANGED <<day, spent, waits, kept, sent>>
      /\ starts' = [starts EXCEPT ![today + 1] = 1]
  BY DEF Midnight
<1>2. /\ today \in 1..Days /\ spent \in Nat /\ daily \in Nat /\ sent \in [1..Days -> Nat]
      /\ day \in 1..today /\ Days \in Nat /\ starts \in [1..Days -> Nat]
  BY DEF BudgetInv, BudgetTypeOK, BudgetConstants
<1>3. starts'[today + 1] = 1 /\ \A d \in 1..today : starts'[d] = starts[d]
  BY <1>1, <1>2
<1>4. BudgetTypeOK'
  <2>1. starts' \in [1..Days -> Nat]
    BY <1>1, <1>2
  <2>2. waits \in [Callers -> 0..Days] /\ kept \in [1..Days -> Int]
    BY DEF BudgetInv, BudgetTypeOK
  <2>3. today' \in 1..Days /\ day \in 1..today' /\ starts'[today'] > 0
    BY <1>1, <1>2, <1>3
  <2> QED
    BY <1>1, <1>2, <2>1, <2>2, <2>3 DEF BudgetTypeOK
<1>5. Charged' = 0 /\ Waiting' = Waiting
  BY <1>1, <1>2 DEF Charged, Waiting
<1>6. sent[today + 1] = 0 /\ \A d \in today + 2..Days : sent[d] = 0
  BY <1>1, <1>2 DEF BudgetInv
<1>7. daily > 0 => \A d \in 1..today : sent[d] <= Quotas(starts'[d]) + Cardinality(Callers)
  <2> SUFFICES ASSUME daily > 0, NEW d \in 1..today
               PROVE  sent[d] <= Quotas(starts[d]) + Cardinality(Callers)
    BY <1>3
  <2>1. CASE d = today
    <3>1. BudgetTypeOK /\ sent[today] \in Nat
      BY <1>2 DEF BudgetInv
    <3> QED
      BY <2>1, <3>1, WithinQuotas, QuotasOfToday, WaitingSize
  <2>2. CASE d \in 1..today - 1
    BY <2>2 DEF BudgetInv
  <2> QED
    BY <1>2, <2>1, <2>2
<1>8. (today + 1) - 1 = today /\ (today + 1) + 1 = today + 2 /\ starts'[today + 1] - 1 = 0
  BY <1>2, <1>3
<1>9. sent[today + 1] + Cardinality(Waiting') <= Quotas(0) + Charged' + Cardinality(Callers)
  BY <1>5, <1>6, OneQuotaMore, WaitingSize
<1>10. daily > 0 => spent' <= daily
  BY <1>1 DEF BudgetInv
<1> QED
  BY <1>1, <1>4, <1>6, <1>7, <1>8, <1>9, <1>10 DEF BudgetInv

\* A new process has the whole quota; what waited is never sent.
LEMMA NewProcessInv == ASSUME BudgetConstants, BudgetInv, NewProcess PROVE BudgetInv'
<1>1. /\ starts' = [starts EXCEPT ![today] = @ + 1] /\ day' = today /\ spent' = 0
      /\ waits' = [c \in Callers |-> 0] /\ kept' = [d \in 1..Days |-> 0]
      /\ UNCHANGED <<today, sent>>
  BY DEF NewProcess
<1>2. /\ today \in 1..Days /\ daily \in Nat /\ sent \in [1..Days -> Nat]
      /\ Days \in Nat /\ starts \in [1..Days -> Nat] /\ BudgetTypeOK
  BY DEF BudgetInv, BudgetTypeOK, BudgetConstants
<1>3. /\ starts'[today] = starts[today] + 1 /\ starts'[today] - 1 = starts[today]
      /\ \A d \in 1..today - 1 : starts'[d] = starts[d]
  BY <1>1, <1>2
<1>4. BudgetTypeOK'
  <2>1. starts' \in [1..Days -> Nat] /\ starts'[today] > 0
    BY <1>1, <1>2, <1>3
  <2>2. kept' \in [1..Days -> Int] /\ waits' \in [Callers -> 0..Days]
    BY <1>1, <1>2
  <2> QED
    BY <1>1, <1>2, <2>1, <2>2 DEF BudgetTypeOK
<1>5. Charged' = 0 /\ Waiting' = {} /\ Cardinality({}) = 0
  BY <1>1, FS_EmptySet DEF Charged, Waiting
<1>6. daily > 0 => sent[today] <= Quotas(starts[today]) + Cardinality(Callers)
  BY <1>2, WithinQuotas, QuotasOfToday, WaitingSize
<1>7. daily > 0 => sent'[today] + Cardinality(Waiting')
                     <= Quotas(starts'[today] - 1) + Charged' + Cardinality(Callers)
  BY <1>1, <1>2, <1>3, <1>5, <1>6, QuotasOfToday, WaitingSize
<1> QED
  BY <1>1, <1>2, <1>3, <1>4, <1>7 DEF BudgetInv

LEMMA BudgetNextInv == BudgetConstants /\ BudgetInv /\ [BudgetNext]_budgetVars => BudgetInv'
<1> SUFFICES ASSUME BudgetConstants, BudgetInv, [BudgetNext]_budgetVars PROVE BudgetInv'
  OBVIOUS
<1>1. CASE UNCHANGED budgetVars
  BY <1>1 DEF budgetVars, BudgetInv, BudgetTypeOK, Charged, Waiting
<1> QED
  BY <1>1, ConsumeInv, LeaveInv, MidnightInv, NewProcessInv DEF BudgetNext

\* ratebudget.go:5-23: on any day the provider sees no more than the quota of each
\* process that ran on it and one request for each caller, whoever waits over midnight,
\* sends, gives up or is restarted.
THEOREM Overrun == ASSUME BudgetConstants PROVE BudgetSpec => []OverByCallers
<1>1. BudgetInv => OverByCallers
  <2> SUFFICES ASSUME BudgetInv, daily > 0, NEW d \in 1..Days
               PROVE  sent[d] <= Quotas(starts[d]) + Cardinality(Callers)
    BY DEF OverByCallers, Quotas
  <2>1. /\ today \in 1..Days /\ sent[d] \in Nat /\ starts[d] \in Nat /\ BudgetTypeOK
        /\ Quotas(starts[d]) \in Nat
    BY OneQuotaMore DEF BudgetInv, BudgetTypeOK
  <2>2. CASE d < today
    BY <2>1, <2>2 DEF BudgetInv
  <2>3. CASE d = today
    BY <2>1, <2>3, WithinQuotas, WaitingSize
  <2>4. CASE d > today
    BY <2>1, <2>4, WaitingSize DEF BudgetInv
  <2> QED
    BY <2>1, <2>2, <2>3, <2>4
<1> QED
  BY <1>1, BudgetInitInv, BudgetNextInv, PTL DEF BudgetSpec

\* One caller: nobody rolls the day while it waits, and its unit is of the counter's day.
AloneInv ==
  /\ \A c \in Callers : waits[c] # 0 => waits[c] = day /\ kept[day] >= 1
  /\ today = day => spent = kept[day]
  /\ \A d \in day + 1..Days : kept[d] = 0

LEMMA AloneNext ==
  ASSUME BudgetConstants, NEW me, Callers = {me}, BudgetInv, AloneInv, [BudgetNext]_budgetVars
  PROVE  AloneInv'
<1>1. /\ today \in 1..Days /\ day \in 1..today /\ spent \in Nat /\ Days \in Nat
      /\ waits \in [Callers -> 0..Days] /\ kept \in [1..Days -> Int] /\ me \in Callers
  BY DEF BudgetInv, BudgetTypeOK, BudgetConstants
<1>2. CASE Consume(me)
  <2>1. /\ waits[me] = 0 /\ day' = today /\ spent' = (IF day = today THEN spent ELSE 0) + 1
        /\ waits' = [waits EXCEPT ![me] = today] /\ today' = today
        /\ kept' = [kept EXCEPT ![today] = @ + 1]
    BY <1>2 DEF Consume
  <2>2. kept[today] = IF day = today THEN spent ELSE 0
    BY <1>1 DEF AloneInv
  <2>3. kept'[today] = kept[today] + 1 /\ waits'[me] = today
    BY <1>1, <2>1
  <2>4. \A d \in today + 1..Days : kept'[d] = 0
    BY <1>1, <2>1 DEF AloneInv
  <2> QED
    BY <1>1, <2>1, <2>2, <2>3, <2>4 DEF AloneInv
<1>3. CASE Send(me)
  <2>1. waits'[me] = 0 /\ UNCHANGED <<today, day, spent, kept>>
    BY <1>1, <1>3 DEF Send
  <2> QED
    BY <2>1 DEF AloneInv
<1>4. CASE Refund(me)
  <2>1. /\ waits[me] # 0 /\ waits'[me] = 0 /\ UNCHANGED <<today, day>>
        /\ spent' = IF today = day /\ spent > 0 THEN spent - 1 ELSE spent
        /\ kept' = [kept EXCEPT ![waits[me]] = @ - 1]
    BY <1>1, <1>4 DEF Refund
  <2>2. waits[me] = day /\ kept[day] >= 1 /\ day \in 1..Days
    BY <1>1, <2>1 DEF AloneInv
  <2>3. kept'[day] = kept[day] - 1 /\ \A d \in day + 1..Days : kept'[d] = kept[d]
    BY <1>1, <2>1, <2>2
  <2>4. today = day => spent' = kept'[day]
    BY <1>1, <2>1, <2>2, <2>3 DEF AloneInv
  <2> QED
    BY <2>1, <2>3, <2>4 DEF AloneInv
<1>5. CASE Midnight
  <2>1. today' = today + 1 /\ UNCHANGED <<day, spent, waits, kept>>
    BY <1>5 DEF Midnight
  <2>2. today' # day'
    BY <1>1, <2>1
  <2> QED
    BY <2>1, <2>2 DEF AloneInv
<1>6. CASE NewProcess
  BY <1>1, <1>6 DEF NewProcess, AloneInv
<1>7. CASE UNCHANGED budgetVars
  BY <1>7 DEF budgetVars, AloneInv
<1> QED
  BY <1>2, <1>3, <1>4, <1>5, <1>6, <1>7 DEF BudgetNext

\* ratebudget.go:121: no refund goes into a fresh day for a request charged to the
\* previous one, where there is one caller; of two, one may roll the day.
THEOREM RefundsStay ==
  ASSUME BudgetConstants, NEW me, Callers = {me}
  PROVE  BudgetSpec => []RefundsOwnDay
<1>1. BudgetInit => AloneInv
  BY DEF BudgetInit, AloneInv, BudgetConstants
<1>2. AloneInv => RefundsOwnDay
  BY DEF AloneInv, RefundsOwnDay
<1> QED
  BY <1>1, <1>2, AloneNext, BudgetInitInv, BudgetNextInv, PTL DEF BudgetSpec
=============================================================================
