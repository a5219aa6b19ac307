---------------------------- MODULE InvoiceList ----------------------------
(***************************************************************************)
(* A walk over the invoices, page by page, while invoices are created and  *)
(* change their status: the client library's AllInvoices, the list         *)
(* endpoint and its keyset query (pkg/cryptopay, invoice_list).            *)
(* created_at is the time a transaction began, so rows become visible in   *)
(* another order than the one they are listed in.                          *)
(***************************************************************************)
EXTENDS Integers, FiniteSets

CONSTANTS
  Ids,           \* invoice IDs: random, ordered
  Second,        \* clock units in a second
  Filters,       \* what a caller may ask for
  defaultLimit, maxLimit,
  MaxTime,       \* bound of the clock
  MaxChanges,    \* bound: changes of status
  None           \* no row

\* No bound on created_at: the zero time.
Zero == -1

ASSUME ListAssumption ==
  /\ Ids \subseteq Nat /\ IsFiniteSet(Ids) /\ None \notin Ids
  /\ Second \in Nat \ {0}
  /\ defaultLimit \in Nat \ {0} /\ maxLimit \in Nat \ {0}
  /\ MaxTime \in Nat /\ MaxChanges \in Nat
  /\ \A f \in Filters : /\ f.status \in {"any", "pending"}
                        /\ f.from \in Nat \cup {Zero} /\ f.to \in Nat \cup {Zero}
                        /\ f.limit \in Int

VARIABLES
  clock,
  begun,     \* invoices whose transaction began
  rows,      \* those that are visible
  at,        \* created_at
  pending,   \* those whose status is pending
  changes,   \* changes of status so far
  walk,      \* "idle", "asking", "answered", "done" or "failed"
  filter,    \* what the caller asked for
  position,  \* the row at which the last page ended, or none
  page,      \* the answer under way
  more,      \* it carries a cursor
  seen,      \* invoices yielded to the caller
  again,     \* history: those yielded twice
  owed       \* history: visible and matching ever since the walk began

table == <<clock, begun, rows, at, pending, changes>>
vars == <<table, walk, filter, position, page, more, seen, again, owed>>

Init ==
  /\ clock = 0 /\ begun = {} /\ rows = {} /\ at = [i \in Ids |-> 0]
  /\ pending = {} /\ changes = 0
  /\ walk = "idle" /\ filter \in Filters
  /\ position = None /\ page = {} /\ more = FALSE
  /\ seen = {} /\ again = {} /\ owed = {}

-----------------------------------------------------------------------------
\* Invoices.

BeginInsert(i) ==
  /\ i \notin begun
  /\ begun' = begun \cup {i} /\ at' = [at EXCEPT ![i] = clock]
  /\ UNCHANGED <<clock, rows, pending, changes, walk, filter, position, page, more, seen, again, owed>>

Commit(i) ==
  /\ i \in begun \ rows
  /\ rows' = rows \cup {i} /\ pending' = pending \cup {i}
  /\ UNCHANGED <<clock, begun, at, changes, walk, filter, position, page, more, seen, again, owed>>

\* A transfer is credited or revoked, or a deadline passes.
Change(i) ==
  /\ i \in rows /\ changes < MaxChanges
  /\ changes' = changes + 1
  /\ pending' = IF i \in pending THEN pending \ {i} ELSE pending \cup {i}
  /\ owed' = IF filter.status = "pending" THEN owed \ {i} ELSE owed
  /\ UNCHANGED <<clock, begun, rows, at, walk, filter, position, page, more, seen, again>>

Tick ==
  /\ clock < MaxTime /\ clock' = clock + 1
  /\ UNCHANGED <<begun, rows, at, pending, changes, walk, filter, position, page, more, seen, again, owed>>

-----------------------------------------------------------------------------
\* The service.

\* Paging is clamped rather than refused.
Limit(f) == IF f.limit <= 0 THEN defaultLimit
            ELSE IF f.limit > maxLimit THEN maxLimit ELSE f.limit

\* ORDER BY created_at DESC, id DESC
Above(i, j) == at[i] > at[j] \/ (at[i] = at[j] /\ i > j)

(* Faulty: rows of the cursor's own instant are skipped. *)
BelowByTime(i, c) == at[c] > at[i]

(* Faulty: the comparison with the cursor is not strict. *)
BelowOrAt(i, c) == i = c \/ Above(c, i)

\* (created_at, id) < cursor
Below(i, c) == Above(c, i)

Matching(f, c) == {i \in rows :
  /\ f.status = "any" \/ i \in pending
  /\ f.from = Zero \/ at[i] >= f.from
  /\ f.to = Zero \/ at[i] <= f.to
  /\ c = None \/ Below(i, c)}

\* The first n of a set of rows.
IsFirst(p, m, n) ==
  /\ p \subseteq m
  /\ IF Cardinality(m) <= n THEN p = m ELSE Cardinality(p) = n
  /\ \A i \in p, j \in m \ p : Above(i, j)

\* One more than asked for, to learn whether a next page exists.
PageSize(f) == Limit(f) + 1

IsLast(l, p) == l \in p /\ \A j \in p \ {l} : Above(j, l)

-----------------------------------------------------------------------------
\* The client library.

Truncated(t) == IF t = Zero THEN Zero ELSE t - (t % Second)

\* The filter as it is sent: RFC 3339 without fractions of a second.
Sent(f) == [f EXCEPT !.from = Truncated(f.from), !.to = Truncated(f.to)]

\* created_to before created_from is refused.
Valid(f) == f.from = Zero \/ f.to = Zero \/ f.to >= f.from

StartWalk ==
  /\ walk = "idle" /\ walk' = "asking"
  /\ owed' = Matching(filter, None)
  /\ UNCHANGED <<table, filter, position, page, more, seen, again>>

\* One query, one snapshot; the row beyond the page only tells that there is one.
Query ==
  /\ walk = "asking" /\ Valid(Sent(filter))
  /\ \E p \in SUBSET Matching(Sent(filter), position) :
       /\ IsFirst(p, Matching(Sent(filter), position), PageSize(filter))
       /\ more' = (Cardinality(p) > Limit(filter))
       /\ IF more' THEN \E l \in p : IsLast(l, p) /\ page' = p \ {l}
                   ELSE page' = p
  /\ walk' = "answered"
  /\ UNCHANGED <<table, filter, position, seen, again, owed>>

(* Faulty: the loop asks with the same cursor again. *)
PositionKept(l) == position

NextPosition(l) == l

\* The page is yielded; an empty cursor, or an empty page, ends the walk.
Receive ==
  /\ walk = "answered"
  /\ seen' = seen \cup page /\ again' = again \cup (seen \cap page)
  /\ IF more /\ page # {}
     THEN walk' = "asking" /\ \E l \in page : IsLast(l, page) /\ position' = NextPosition(l)
     ELSE walk' = "done" /\ UNCHANGED position
  /\ page' = {} /\ more' = FALSE
  /\ UNCHANGED <<table, filter, owed>>

\* A request fails or its answer is lost: the error is yielded and the walk ends.
Fail ==
  /\ walk \in {"asking", "answered"} /\ walk' = "failed"
  /\ page' = {} /\ more' = FALSE
  /\ UNCHANGED <<table, filter, position, seen, again, owed>>

Refuse == ~Valid(Sent(filter)) /\ Fail

Client == Query \/ Receive \/ Refuse

Next ==
  \/ Client \/ Fail \/ StartWalk \/ Tick
  \/ \E i \in Ids : BeginInsert(i) \/ Commit(i) \/ Change(i)

Spec == Init /\ [][Next]_vars

\* A walk that began goes on.
FairSpec == Spec /\ WF_vars(Client)

-----------------------------------------------------------------------------
TypeOK ==
  /\ clock \in 0..MaxTime
  /\ begun \subseteq Ids /\ rows \subseteq begun
  /\ at \in [Ids -> 0..MaxTime]
  /\ pending \subseteq rows
  /\ changes \in 0..MaxChanges
  /\ walk \in {"idle", "asking", "answered", "done", "failed"}
  /\ filter \in Filters
  /\ position \in rows \cup {None}
  /\ page \subseteq rows
  /\ more \in BOOLEAN
  /\ seen \subseteq rows
  /\ again \subseteq seen
  /\ owed \subseteq rows

\* No invoice is yielded twice, whatever is created or changed between pages.
YieldedOnce == again = {}

\* A walk that ends without an error has yielded every invoice that was visible
\* when it began and has matched the filter ever since (cursor.go:15: with an
\* offset "a client walking the list would see some invoices twice and miss
\* others").
NoneMissed == walk = "done" /\ (filter.to = Zero \/ filter.to % Second = 0) => owed \subseteq seen

\* A walk comes to its end while invoices go on being created.
WalkEnds == walk = "asking" ~> walk \in {"done", "failed"}

\* As NoneMissed for any created_to.  (Refuted: ListCutsSecond.cfg.)
AskedIsListed == walk = "done" => owed \subseteq seen

-----------------------------------------------------------------------------
\* The inductive invariant.

\* Whether a row is dealt with, given where the last page ended.
Passed(i) == position # None /\ (i = position \/ Above(i, position))

\* What the caller still has a right to see.
Due == owed \ (seen \cup page)

Exact == filter.to = Zero \/ filter.to % Second = 0

\* The walk is where its position says: what was yielded lies above it, what
\* is about to be and what is due below.
IInv ==
  /\ TypeOK
  /\ again = {}
  /\ walk = "idle" => seen = {} /\ owed = {} /\ position = None
  /\ walk # "answered" => page = {} /\ ~more
  /\ owed \subseteq Matching(filter, None)
  /\ walk \in {"asking", "answered"} => \A i \in seen : Passed(i)
  /\ walk = "answered" => \A i \in page : ~Passed(i)
  /\ Exact /\ walk = "asking" => \A i \in Due : ~Passed(i)
  /\ Exact /\ walk = "answered" =>
       IF more /\ page # {} THEN \A i \in page, j \in Due : Above(i, j) ELSE Due = {}
  /\ Exact /\ walk = "done" => Due = {}
=============================================================================
