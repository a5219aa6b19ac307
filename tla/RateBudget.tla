----------------------------- MODULE RateBudget -----------------------------
(***************************************************************************)
(* The daily quota of pkg/ratebudget: a caller reserves a unit, waits for  *)
(* the limiter that shapes the rate, and sends, or gives the unit back     *)
(* when its context ends first.  The day rolls over whenever somebody      *)
(* notices, and the counter is lost with the process.  How long the        *)
(* limiter holds a caller is left open.                                    *)
(***************************************************************************)
EXTENDS Naturals, FiniteSets

CONSTANTS
    Callers,
    daily,      \* the quota; zero is unlimited
    Days,       \* bound: days that are watched
    MaxStarts   \* bound: processes on one day

VARIABLES
    today,      \* the UTC day of the clock
    day, spent, \* the counter and the day it belongs to
    waits,      \* callers that reserved a unit and wait for the limiter
    kept,       \* units this process reserved on each day and did not give back
    sent,       \* requests the provider saw on each day
    starts      \* processes that ran on each day

budgetVars == <<today, day, spent, waits, kept, sent, starts>>

\* New.
BudgetInit ==
    /\ today = 1 /\ day = 1 /\ spent = 0
    /\ waits = [c \in Callers |-> 0]
    /\ kept = [d \in 1..Days |-> 0]
    /\ sent = [d \in 1..Days |-> 0]
    /\ starts = [d \in 1..Days |-> IF d = 1 THEN 1 ELSE 0]

Exhausted(n) == daily > 0 /\ n >= daily

\* consume: the day is rolled by the caller that finds it over.
Consume(c) ==
    /\ waits[c] = 0
    /\ day' = today
    /\ LET before == IF day = today THEN spent ELSE 0 IN
       /\ ~Exhausted(before)
       /\ spent' = before + 1
    /\ waits' = [waits EXCEPT ![c] = today]
    /\ kept' = [kept EXCEPT ![today] = @ + 1]
    /\ UNCHANGED <<today, sent, starts>>

\* The limiter lets the caller go, and it sends.
Send(c) ==
    /\ waits[c] # 0
    /\ sent' = [sent EXCEPT ![today] = @ + 1]
    /\ waits' = [waits EXCEPT ![c] = 0]
    /\ UNCHANGED <<today, day, spent, kept, starts>>

\* Its context ends first: refund looks at the clock and the counter's day,
\* not at the day the unit was taken from.
Refund(c) ==
    /\ waits[c] # 0
    /\ spent' = IF today = day /\ spent > 0 THEN spent - 1 ELSE spent
    /\ kept' = [kept EXCEPT ![waits[c]] = @ - 1]
    /\ waits' = [waits EXCEPT ![c] = 0]
    /\ UNCHANGED <<today, day, sent, starts>>

Midnight ==
    /\ today < Days
    /\ today' = today + 1
    /\ starts' = [starts EXCEPT ![today + 1] = 1]
    /\ UNCHANGED <<day, spent, waits, kept, sent>>

\* The process ends, with its callers and its counter, and another starts: New.
NewProcess ==
    /\ starts[today] < MaxStarts
    /\ starts' = [starts EXCEPT ![today] = @ + 1]
    /\ day' = today /\ spent' = 0
    /\ waits' = [c \in Callers |-> 0]
    /\ kept' = [d \in 1..Days |-> 0]
    /\ UNCHANGED <<today, sent>>

BudgetNext ==
    \/ Midnight \/ NewProcess
    \/ \E c \in Callers : Consume(c) \/ Send(c) \/ Refund(c)

BudgetSpec == BudgetInit /\ [][BudgetNext]_budgetVars

-----------------------------------------------------------------------------
\* ratebudget.go:121-122: no refund goes into a fresh day for a request that
\* was charged to the previous one.  True of a caller that is alone, as the
\* TRON watcher is; not of two, of which one rolls the day.
RefundsOwnDay == today = day => spent = kept[day]

\* The provider counts a request on the day it is sent, the budget on the day
\* it is reserved, by one process: whoever waits at midnight is one request too
\* many, and so is what a process sends after a restart.
QuotaPerDay ==
    daily > 0 => \A d \in 1..Days : sent[d] <= daily

\* Each process that runs on a day has the quota to itself.  Past midnight a
\* caller carries no more than one unit: sent on the new day it is one request
\* too many, given back to the new day it lets one too many through.  Only the
\* process that lives at midnight carries any, so of all a day's processes
\* together it is one for each caller, and for the TRON watcher one.
OverByCallers ==
    daily > 0 => \A d \in 1..Days : sent[d] <= starts[d] * daily + Cardinality(Callers)
=============================================================================
