# Verification of gomod-cryptopay

gomod-cryptopay is a self-hosted payment service: it issues invoices for TRC20
and BEP20 tokens, watches the chains for transfers to one address per network,
attributes each transfer to an invoice **by its amount**, and tells the merchant
over a webhook. This directory holds TLA+ models of the parts of it where money
or notices could be lost, doubled or given to the wrong invoice, the TLC runs
that check them on small instances, and TLAPS proofs for every instance.

## The system

| Component | State | Operations | Talks to |
|---|---|---|---|
| Matching engine (`internal/service/matching`) | none of its own | `Apply`, `Settle`, `Revoke`, `orphan`, `enqueue` | invoices, payments, orphans and outbox in Postgres; called by both watchers |
| Invoice store (`adapter/postgres/invoice_repo.go`, `queries/invoice.sql`, `schema.sql`) | `cp_invoices` | create, cancel, compare-and-set of the status, expire, release holds, find by amount | everybody |
| Payment store (`payment_repo.go`, `queries/payment.sql`) | `cp_payments`, `cp_orphan_transfers`, `cp_chain_cursors` | record, mark removed, list live / awaiting, save and rewind a cursor | matching, watchers |
| BSC watcher (`usecases/chain/bsc_watcher`) | the cursor, `rewound` | a tick: head, finality line, rewind, scan in chunks, revoke what is missing, settle | `pkg/evm`, matching |
| TRON watcher (`usecases/chain/tron_watcher`) | the cursor | a tick: solidified block, discover one page, settle | `pkg/tron`, matching |
| Invoice API (`usecases/invoices/*`) | none | create with idempotent replay, cancel, get, list by key | invoice store |
| Expirer (`usecases/invoices/invoice_expirer`) | none | expire overdue invoices, release lapsed holds | invoice store |
| Webhook outbox (`usecases/notify/webhook_dispatcher`, `webhook_event_repo.go`) | `cp_webhook_events` | enqueue, claim, send, mark, prune | matching (enqueue), `pkg/webhook`, the merchant |
| Asset catalogue (`usecases/assets/*`) | `cp_assets` | seed at boot, list, resolve what a request names | invoice store |
| Schema and database set-up (`pkg/dbschema`, `pkg/postgres`) | the database, its tables, an advisory lock | create the database, apply the schema | every replica at its start |
| Cron and bootstrap (`orchestrator/*`, `cmd/app.go`) | one goroutine per job | start, tick without overlap, stop within a grace period | every job |
| Chain clients (`pkg/evm`, `pkg/tron`) and `pkg/ratebudget` | endpoint cooldowns, request budget | rotate endpoints, classify errors, spend and refund budget | nodes |
| Client library (`pkg/cryptopay`), `pkg/cryptoamount`, configuration, HTTP plumbing | little or none | | merchants |

What is hard in it is concurrency through the database. A watcher tick, the
expirer, API calls and a dispatcher run at the same time, every one of them
works in short transactions under READ COMMITTED with reads outside of them, and
they meet at compare-and-sets, partial unique indexes and `ON CONFLICT DO
NOTHING`. Beneath them chains un-mine transfers, and above them a receiver is
down. What makes each part correct:

* **matching** - a transfer is credited once and to the invoice it was meant
  for; what is paid is backed by a transfer on record; a reorg makes an invoice
  payable again; the merchant hears of each change once and in order;
* **allocation** - no two invoices reserve one amount, an amount rests for
  `amount_hold` after its invoice ended, a retried request gets its own invoice
  back, and a request is refused only when no amount is left;
* **watchers** - no transfer is missed across downtime and reorgs, nothing is
  confirmed before it is final, everything final is confirmed in the end;
* **outbox** - every event reaches the receiver or runs out of attempts, none is
  sent twice at once, none is pruned that could still be delivered;
* **start-up and shutdown** - nobody serves before schema and assets are there, no
  boot switches off an asset in use, a shutdown cuts nothing short;
* **requests and listings** - the amount charged is the amount written plus the
  lowest free nonce, a walk over the invoices misses none and repeats none;
* **endpoints** - a call fails only if every endpoint does, the load is shared, and
  an endpoint that refuses logs does not keep the watcher from those that serve them.

## Plan

Done, in the order of what would cost money first:

1. `Matching`, `InvoiceLifecycle`, `MatchingProofs`: the engine with everybody
   it shares invoices with, refining the invoice lifecycle.
2. `Outbox`, `AtLeastOnce`, `OutboxProofs`: claims, leases, retries, crashes and
   pruning, refining at-least-once delivery.
3. `Allocation`, `AllocationProofs`: concurrent creation with retries and
   idempotency keys, holds in time.
4. `BscWatcher`, `BscWatcherProofs`: cursor, finality line, reorgs, lagging endpoints; liveness.
5. `TronWatcher`, `TronWatcherProofs`: discovery by inclusive timestamp in pages, the
   settle pass, transfers that share a timestamp or are indexed late; liveness.
6. `Service`, `ServiceProofs`: replicas that start, seed, serve, stop and crash over
   one database.
7. `InvoiceRequest`, `InvoiceRequestProofs`: one request from its text to its amount,
   with `lowestFreeNonce` as the walk it is.
8. `InvoiceList`: keyset pages under concurrent inserts.
9. `EndpointPool`: rotation, cooldowns and refusals.
10. `RateBudget`: the daily quota across midnight. The proofs about these three are in
    `ClientProofs`.

Left:

11. The settle batches of the watchers: 500 payments that cannot be settled hide the rest.
12. The events of one invoice at the receiver: concurrent attempts and separate retries
    may bring them out of order.

## Runs and further configurations

Twelve configurations are the regular runs, listed in `PROJECT.json`: eleven pass,
and one refutes a statement the repository makes about itself.

| Run | Module | Shows |
|---|---|---|
| `MatchingSameWindow`, `MatchingOnGrid` | `MCMatching` | money, notices, orphans; the lifecycle implemented |
| `MatchingClockVoids` | `MCMatching` | a detected invoice may expire (violation) |
| `OutboxLeased` | `MCOutbox` | single flights, delivery or exhaustion; at-least-once implemented |
| `Allocation` | `MCAllocation` | honest refusals, idempotency, holds in time, amounts that come back |
| `BscScan`, `BscLive` | `MCBscWatcher` | no final transfer lost, none confirmed early; all confirmed in the end |
| `Tron` | `MCTronWatcher` | nothing passed, nothing confirmed early, everything solid handled |
| `Service` | `MCService` | start-up, seeding and shutdown of two replicas |
| `EndpointPool` | `MCEndpointPool` | truthful failures, even load, logs served |
| `InvoiceList` | `MCInvoiceList` | nothing missed or repeated, and walks that end |
| `InvoiceRequest` | `MCInvoiceRequest` | the amount written is the amount charged and shown |

While modelling we met more disagreements between the repository's statements and
its code than the one that is a regular run. Each has a `.cfg` too, with
properties that TLC refutes under it; they are documentation, run by hand
(`tlc -config BscOutage.cfg MCBscWatcher.tla`; with `-continue` where one
configuration refutes several), and marked *by hand* below.

Every module of a regular run has a type invariant, `TypeOK` or in `EndpointPool`
`PoolTypeOK`, and the proofs add an inductive invariant to it. The regular runs
spend their time on the properties instead; the type invariants, the inductive
invariants, and `HistoryReadable` in `Service` hold as well when they are added to the
configurations, and most are proved (see *Proofs*). The definitions marked *Faulty* in the modules are
wrong forms of the one that follows them: with each in its place a property of a
run is violated, which is how we know that the property says something about the
code.

## Matching

One watcher handles one transfer at a time, and `job` is its program counter:
what it has read about which transfer. Every SQL statement outside a transaction
and every `WithTx` is one action, so that the API, the expirer and the chain
interleave exactly where the code lets them.

| Code | Model |
|---|---|
| `cp_invoices.status`, `.pay_amount`, `.amount_held` | `status`, `amount`, `held` |
| `cp_payments` row, `.invoice_id`, `.block_number` / `.block_time` | `row`, `payee`, `recorded` |
| `cp_orphan_transfers.reason` | `filed` |
| `cp_webhook_events` per invoice | `outbox` |
| the chain | `chain`, `block` |
| `Apply` | `Lookup`, `Find`, then `RecordOrphan`, or `Credit` / `CreditStands` |
| `Settle`, `Revoke` | `Settle`, `Revoke` |
| settle pass, `revokeMissing`, `removed` logs | `ListAwaiting`, `ObserveMissing`, `ObserveRemoved` |
| `ExpirePendingInvoices` | `ExpireSelect`, `ExpireUpdate` (see below), `ExpireAbort` |
| `ReleaseExpiredAmountHolds`, `CancelInvoice`, `CreateInvoice` | `Release`, `Cancel`, `Create` |

`ExpirePendingInvoices` is `UPDATE ... WHERE id IN (SELECT ...)`. Under READ
COMMITTED the sub-select works on the statement's snapshot; a row that a
concurrent transaction has changed is re-checked only against the outer
condition, which does not mention the status. Hence two actions.

Time is abstracted: an invoice may be overdue and a hold may lapse at any
moment. A block is identified by how often its transfer has been un-mined.

**Bounds.** Two transfers, up to two invoices, one or two amounts and one
reorg. Two transfers are enough for two payers in one window, two invoices for
an amount that is inherited and for an exact amount taken by a neighbour, one
reorg for a payment that is revoked, credited again and confirmed.

**Runs that pass.** `MatchingSameWindow` (two transfers, one amount, one reorg)
checks the safety of money and notices, and that a transfer whose payment stands is not
filed as an orphan as well when it is read again (`LiveNotFiled`; what may happen to one
that was revoked in between is `MatchingRemined`'s). That two invoices reserve one amount
is ruled out here by the guard of `Create`, which stands for a read, an insert and a
unique index; `Allocation` has the race between them. `MatchingOnGrid` (two amounts, a second transfer of an unknown token) checks that
an exact payment goes to its own invoice while requested amounts lie on one
grid, and the refinement of `InvoiceLifecycle`.

**Statements of the repository that are refuted**, the first by a regular run, the
others by hand. The counterexamples are short:

| Configuration | Property | The statement | What happens |
|---|---|---|---|
| `MatchingClockVoids` | `ClockNeverVoidsMoney` | "the clock must not void" a detected invoice (`invoice.sql:114`) | the expirer's UPDATE overlaps a credit |
| `MatchingOvertaken` | `NoPaymentStranded` | cancelling would strand money (`invoice.sql:84`) | a cancellation lands between the read of the invoice and the transaction; the payment stays, credited to nobody |
| `MatchingOvertaken` | `FiledStaysUncredited` | an orphan could not be credited (`matching.go:429`) | it is credited to an invoice created later |
| `MatchingRemined` | `CreditedNotFiled` | a credited transfer is not filed as an orphan (`matching.go:152`) | its row stays `removed` after it is credited again |
| `MatchingRemined` | `DetectedIsWatched` | the settle pass makes a detected payment `confirmed` (`payment.sql:25`) | the same row is invisible to that pass |
| `MatchingRemined` | `ConfirmedIsFinal` | `confirmed` means final (`README.md:214`) | finality is judged by the block of the first sighting |
| `MatchingOffGrid` | `ExactPaymentNotPoached` | `pay_amount + step` is another invoice's amount (`invoice.go:165`) | amounts that are not a multiple of the step apart have overlapping windows |

**Fairness.** None: every property here is a safety property, and `Spec` does
not assume that anything ever happens.

## Outbox

A row of `cp_webhook_events` is `stored`, `attempts`, `wait` (how far
`next_attempt_at` lies ahead) and `age`. A dispatcher's tick is `Prune`, then
`Claim`, then one `flight` per claimed event - queued for a slot, sending, taken
or refused by the receiver - and `Return` when all have their outcome recorded.
Each SQL statement is one action. `Enqueue` is the commit of the matching
engine's transaction.

Time is kept as countdowns: `Tick` moves all of them, and `MayWait` keeps it from
moving past what the HTTP timeout allows a request, or `Recording` an update. A
fault (a crash, a lost answer, an update that fails) counts against `MaxFaults`.
A receiver that refuses is not a fault. The switch that leaves webhooks off
after pruning is not modelled: a disabled sender claims nothing.

What all this promises, whatever the leases and delays, is `AtLeastOnce`: an event
is posted, given out for sending at most `Limit` times, arrives no more often than
it was given out - possibly long after it was settled - is settled only once it has
arrived, and is dropped only when it was settled or has no tries left. `Outbox`
implements it (`KeepsPromise`) with `stored` as its fate, `attempts` as the tries and
`accepted` as what arrived: a claim is `Try`, a request that the receiver takes in is
`Arrive`, `MarkDelivered` is `Settle`, and all of time, queueing, refusals, faults and
crashes are stuttering.

* `OutboxLeased` (pass): two dispatchers, two events, a fault and pruning,
  and every batch sent within one lease. An event is in one flight at a time, it
  is accepted twice only after a fault, and the refinement holds; it contains that
  attempts are counted before they are made (`AttemptsCounted`), that `delivered` is
  true (`DeliveredIsTrue`) and that an undelivered event is pruned only when its
  attempts are used up (`LostOnlyIfExhausted`). And (`Drains`, liveness) every event is
  delivered or runs out of attempts. Fairness: time passes, and cron keeps each dispatcher working
  (`Cron.run` ticks until shutdown and survives errors); faults are finitely many.
* `OutboxDies` (refuted, by hand): "a dispatcher that dies mid-delivery releases the row
  on rollback" (`webhook_event.sql:13`). The claim has committed by then.
* `OutboxOverdue` (refuted, by hand): no double sending (`webhook_event_repo.go:65`). The
  lease covers two timeouts and 30 s, a batch may queue for longer.

## Allocation

A request is `Begin`, `Read` (the held amounts, and the first free one),
`Create`, or one of the two unique violations: `Collide` on the amount, which
reads again up to `allocationAttempts` times, and `Repeat` on the external ID,
which leads to `Replay`. An invoice bears the name of its request. `Cancel`,
`Credit` and `Revoke` are what the API and the matching engine do to status and
hold; `SweepSelect`, `SweepUpdate`, `SweepRelease` and `SweepFails` are a run of
the expirer, its UPDATE split as in `Matching`.

Deadlines are countdowns again. The service reads its clock before its
statement runs and the sweeps read the database's, so a deadline may be up to
`Stall` short: `HoldOutlivesEnd` holds up to that. `NOW()` is the start of its transaction; that
`SweepUpdate` counts a hold from the update itself is within `Stall` too. The expirer's batch size is
left out: it only leaves some rows to the next run.

* `Allocation` (pass): three requests for two amounts, with two attempts, in time. One
  comes without a key, one with a key, the third without, or with the same key for the
  same amount or another (`Asks`). A request that finds its amounts held is refused
  (`Exhaust`), one that loses one between read and insert tries again, and may lose
  again, to the third, and be refused with an amount free that came back meanwhile.
  `HonestRefusal`: "exhausted" is honest. `AnswersAgree`: one key gets one invoice.
  Two bounds keep the run small: `Asks`, and `Moved`, the one invoice that is cancelled
  or credited; the others run out. What the API and the engine do to one row depends on
  no other, and two rows meet in the expirer's statements and in the amounts.
  `HoldOutlivesEnd`: the amount rests long enough. `AmountsReturn` (liveness): the
  amount of an unpaid invoice comes back. Fairness: time passes, the expirer is run again and again, and its
  statements do not fail for ever (strong fairness, as a run may end in between).
* `AllocationCancelled` (refuted, by hand): cancelling *extends* the hold
  (`invoice_cancel/usecase.go:35`). It sets a nearer one.
* `AllocationRepeated` (refuted, by hand): a repeated `external_id` returns the same
  invoice (`README.md:166`). With no amount free it is refused.

## BscWatcher

A tick is `ReadHead`, `FinalityLine`, `RewindOnce`, `Scan`, then per chunk
`GetLogs`, `Apply` for each log, `Revoke` for each missing payment and
`SaveCursor`, and then `Settle` for each payment at or below the line. Between any
two of them the chain may grow, finalise or be reorganised, a call may fail
(`Abort`) and the process may end (`Crash`, `Restart`). A transfer pays an open
invoice of its own; `status`, `row` and `at` are that invoice, the payment row by
its chain reference and `cp_payments.block_number`, and what `Apply` does to them
is the effect of `Matching`'s `Credit`, `Settle` and `RecordOrphan` without rivals.

A payment is known by `(tx_hash, log_index)`. The index of an EVM log counts the
logs of its block, so a transfer mined again may have another one: `Positions`.

Assumptions about the chain: what is final stays, and finality is never more than
`Confirmations` behind the tip, which counting confirmations relies on.
`Outage` bounds the blocks mined between two completed scans of one process,
`Lag` how far an endpoint is behind. Real values are a window of 64 blocks, a
finality lag of 1 to 3 and chunks of 2000 blocks, ten per tick; the instances use
one transfer, a window of 2 or 3, a lag of 1 and chunks of 1 or 2.
Transfers pay different invoices and do not meet in this module, those that do meet
are the subject of `Matching`. `MaxChunks * LogRange` covers
more than the window and one chunk, as it does with real values, and `First` lies above what
any number of modelled restarts can rewind, as every height of the real chain does.

* `BscScan` (pass): two reorgs, a crash, a failed call or a failed rewind, an outage as long as the
  window allows, log indexes that change. `NoLoss`: between ticks a final
  transfer is stored or still ahead of the scan. `PaidIsFinal`: what was only ever in
  one block is not confirmed before that is final. `AbsentIsGone`: none is
  revoked that was where it is stored when the logs were read.
* `BscLive` (pass, liveness): every final transfer is confirmed, across crashes,
  aborted ticks and endpoints without history, as long as log indexes stay and the
  first rewind after a restart works. Without that rewind it may never be: a transfer
  that was un-mined and mined again is on a `removed` row (see `DetectedIsWatched` above),
  the settle pass does not see it, and only reading its block again confirms it.
  Fairness: the chain finalises, ticks
  recur, a dead process is started again.
* `BscWedged` (refuted by hand, `FinalIsPaid`): with log indexes that change, the new reference of a
  transfer violates `cp_payments_live_invoice_key` while the old payment is live.
  The error ends the tick before the old one is revoked, on every tick.
  `schema.sql:149` calls `log_index` "which transfer within the transaction".
* `BscOutage` (refuted by hand, `NoLoss`): an outage longer than the window in one
  process. With `Outage = 1`, `MaxFaults = 2` and `Faults = {"crash", "rewind"}` the same
  configuration refutes it by a first rewind that fails and is not repeated.
* `BscLagging` (refuted by hand, `AbsentIsGone`): endpoints that are not equally far.
* `BscNoHistory` (refuted by hand, `PaidIsFinal`): the scan stops at an endpoint without
  history and the tick settles what it could not re-read.

## TronWatcher

A tick is `SolidifiedBlock`, `TRC20Transfers` (the cursor and one page from its
timestamp on), `Apply` for each record, oldest first, `SaveCursor`, and `Settle` for
each payment on record at or below the solidified head. `ApplyFails` is a record the
engine refuses, which ends the tick before the cursor is saved and before the
settle pass. A failed call and a crash are one action, `Interrupt`, as the process
remembers nothing from one tick to the next. Time is the block timestamp.

Transfers have a transaction (`Tx`), which is all a payment is known by on TRON
(`log_index` is 0), and an invoice (`Pays`) or none. As in `BscWatcher` the effect of
`Apply` is that of `Matching` on invoices nobody else touches. The feed is what
the indexer has `shown` of the chain; `InOrder` says that it does not show a
transfer before those of earlier blocks, which the cursor relies on, and may show
transfers of one block at different times. `Replaces = FALSE` says that what a reorg
un-mines comes back in a new block, not in a replaced one behind the cursor.

* `Tron` (pass): three transfers, two of them for one invoice, three
  timestamps and pages of two, so that a page is full, a timestamp fills one, and a
  rival is refused; one reorg, one failed tick. `NothingPassed`: what is solid is on
  record, on file or not behind the cursor. `ConfirmedIsBacked`: confirmed for a
  recorded block that is solid. `CreditedNotFiled`: a re-read files nothing that was
  credited. Unlike on BSC this holds, because no payment is ever withdrawn.
  `SolidIsHandled` (liveness): every solid transfer confirms its invoice or is
  filed, unless discovery is held up for good by a page that one timestamp fills or
  a record that is refused (`Stuck`; both really hold it up). Fairness: the chain
  solidifies, the feed catches up with it, cron keeps ticking.
* `TronUnmined` (refuted by hand, `UnminedNeverConfirms`): "a payment that never solidifies is the only trace"
  of an un-mined transfer (`tron_watcher/usecase.go:177`). Only the recorded time is
  compared, the head passes it, and the invoice is confirmed.
* `DetectedConfirms`, that the settle pass keeps invoices from staying in detected
  (`usecase.go:84`), is refuted under `Tron.cfg` without its reorg: with a refused
  record in the feed the pass is never reached. The detour by a third transfer in the
  counterexample is needed: while the first payment is still in the page its re-read
  settles it.
* `TronOneTransaction` (refuted by hand): two transfers of one transaction; the
  second is taken for a re-read of the first and pays nothing.
* `NothingPassed` needs both conditions: `InOrder = FALSE`, a feed out of order, and
  `Replaces = TRUE`, a reorg into a block behind the cursor, each refute it in
  `Tron.cfg`.

## Service

Replicas over one database. `Boot` starts a process with one of the deployed
configuration files, `pc` is where it is:

| Code | Model |
|---|---|
| `postgres.New`, `createDatabase`, `databaseExists` | `Open`, `CreateDatabase`, `DatabaseExists`, `Reopen` |
| wire's providers, `asset_seeder.LoadConfig` | `Load`, `LoadConfig` |
| `dbschema.Ensure` | `Skip`, or `Lock`, `Apply`, `Unlock` |
| `asset_seeder.Execute` | `Upsert` for each entry, `Disable` |
| `Bootstrap.Run` failing, `Fatalw` | `BootFails` |
| `Cron.Start`, `run`, `Stop` | `Start`, `JobStarts`, `JobEnds`, `JobLeaves`, `StopCron` |
| a job's statements | `JobQueries`, `JobAnswered` |
| `invoice_create`, as far as it uses an asset | `Arrive`, `Write`, `Answer`, `Refuse` |
| `waitForShutdown`, `Shutdown`, `pg.Close` | `Signal`, `Shutdown`, `ClosePool` |

Each SQL statement is an action: nothing but the schema is guarded by a lock, so two
replicas that start with different files interleave their upserts. A contract is a
pair of network and normalised address; of a row only the step and `enabled` are
kept. `mixed` is a history variable: another file was written into the table while
this replica seeded. `late` says that a phase of the shutdown ran into its deadline.

A statement of a job (`querying`) or of a request (`writing`) is under way on a
connection of the pool. `pg.Close` is pgxpool's: it hands out no connection any more and
blocks, without a deadline, until those acquired are back (`Returned`). So a job or a
request that outlived its phase delays the exit by the statement it is in, and not by
what it would do next.


* `Service` (pass): two replicas, three boots, a job, and three files - one that adds a
  token and edits a step, one with a duplicate. `AppliesAlone`: one session applies the
  schema, and nobody else holds the lock. `ServesPrepared`: whoever serves finds the
  schema and every asset that all files list, whatever fails or is deployed meanwhile.
  `CommonStaysOn`: no seeding passes through a table without such an asset (upsert first,
  disable afterwards). `SeedProjects`: an unmixed seeding leaves exactly its file.
  `OrderlyExit`: within the deadlines no request and no job is cut off. `Settles`
  (liveness): a boot ends, serving or not, even if its own deadline never passes, and a
  shutdown ends. Of its three phases the first two end at their deadlines at the latest;
  the third, the pool's `Close`, ends although it has none, as what is left of the jobs
  and requests gets no connection for another statement. Three boots are enough for a
  replica that overlaps two others one after the other; `MaxInvoices` keeps requests from
  arriving once a contract has its invoice. Fairness: a process runs on, PostgreSQL serves
  those who wait for the lock in turn (strong fairness of `Lock`) and answers each
  statement (a cancelled job's ends with its context as well). No fairness is assumed of
  jobs and requests, which may run for ever. Without the answers `Settles` is refuted: a
  statement that never comes back holds the exit up for good.
* `ServiceMixed` (refuted by hand, `TableIsAFile`): "the file is the source of truth"
  (`asset_seeder/usecase.go:4`). Two boots with different files that overlap leave a
  table that is neither.

## EndpointPool

The BSC watcher's calls through `pkg/evm`. A tick asks for the head, the finalised
head and the logs of some chunks; `BeginCall` is `rotated` (the cursor moves on for
every call, endpoints that cool down come last), `MarkFailed` a transport failure,
`Answer` a node that understood: it may serve, or refuse in one of the ways `classify`
knows, which ends the call. A call that fails ends the tick, except for the finalised
head, which is done without if the tag is not served; `isUnsupportedTag` tells by the
text of any error, "every endpoint failed" with an HTTP 404 among the reasons included,
so there the tick may go on or not (`GiveUp`). `Elapse`, `GoDown` and `Recover` are time and the
endpoints. What the head's progress means for the cursor is left to `BscWatcher`;
here `behind` counts chunks.

* `EndpointPool` (pass): two and three endpoints, one of which serves logs at any depth
  while the others refuse them, have little history or no finalized tag, or refuse the
  tag in words that may end the tick; two faults.
  `FailedMeansAllDown`: "every endpoint failed" is true of that very call, for endpoints
  in cooldown too. `EvenSpread`: while all is well no endpoint gets two requests more
  than another. `LogsServed` (liveness): logs are read again and again. Fairness: cron
  ticks, cooldowns run out, an endpoint that went down comes back.
* `EndpointStarves` (refuted by hand, `ArchiveSuffices`): a refusal of logs is final for its call,
  and the next tick makes as many calls as the last. With three calls a tick and three
  endpoints the logs are always asked of the same one. `LogsServed` therefore assumes
  that the two numbers have no common divisor, and that no refusal ends a tick earlier.

## InvoiceList

`pkg/cryptopay`'s `AllInvoices` against the list endpoint. `created_at` is `now()`, the
time the inserting transaction began, and it commits later: `BeginInsert` and `Commit`.
Status changes (`Change`) move rows in and out of a filtered listing. `Query` is one
page, one snapshot; `Receive` yields it and takes over the cursor, `Fail` a request that
fails. `Truncated` is what RFC 3339 does to the bounds of the filter.

* `InvoiceList` (pass): three invoices, two seconds of two units, six filters with pages of
  one, two and more. `YieldedOnce`; `NoneMissed`: a walk that ends without an error has
  yielded what was visible when it began and matched ever since; `WalkEnds` (liveness,
  with fairness of the client and its requests only).
* `ListCutsSecond` (refuted by hand, `AskedIsListed`): `created_to` is sent without fractions,
  so what was created within its last second is cut off. `NoneMissed` is about ends on
  a full second.

## InvoiceRequest

One request, from the text of its amount to what the customer reads. `ResolveAsset`,
`AssetNotFound` and `AmbiguousAsset` are `resolveAsset`; `Flaw` and `Units` are
`cryptoamount.Parse`, `Format` its inverse, on sequences of digits; `ListHeld` is the
range query and `SkipRow`, `TakeRow` and `Allocate` are the walk of `lowestFreeNonce`,
a row at a time. Duplicate amounts among the held ones are excluded by a unique index. A BSC contract is
put into lower case before it is compared, a TRON contract is not (`Contract`).

* `InvoiceRequest` (pass): some 130 texts of every shape `Parse` distinguishes, five
  catalogues (scales of none, one and two digits; two tokens of one symbol, one of them
  switched off; two on TRON whose contracts differ in case) and any set of amounts held from one unit below the amount to four above,
  on the grid and off. `LowestFree`: the lowest free nonce is allocated, and a refusal
  means there is none. `AskedExactly`: the base amount is exactly the number written, in
  the only asset that the request can mean. `RefusedRightly`: only what is no positive
  number of smallest units is refused. `ReadsBack`: what is shown parses to what will be
  matched. How it is written is no question of these: the comment on `Format` promises "at
  least one digit on each side of the point" (`cryptoamount.go:97`), while `Format`, as
  its own test has it, and the model write a whole number without a point, as "10".

## RateBudget

Callers reserve a unit of the day (`Consume`), wait for the limiter, and `Send` or give
the unit back (`Refund`); the day rolls over at `Midnight` and in the counter when
somebody notices. The counter lives in memory: `NewProcess` is a restart, which forgets
it along with whoever waits, while `sent` is what the provider has seen and `starts` how
many processes a day had. The program has one caller at a time, the TRON watcher: with
`Callers = {c1}`, `RefundsOwnDay` holds. `OverByCallers` holds for any number: on a day
the provider sees no more than the quota of each process that ran on it and, once, one
request for each caller, the ones that waited at midnight or were given back to the wrong
day. The bound is reached. Both are proved. `RateBudget.cfg` has two callers and refutes
`RefundsOwnDay` by hand: of two, one rolls the day and the other, whose unit was
yesterday's, takes a unit of today back (`ratebudget.go:121`). `QuotaPerDay` is refuted
with one caller, and with one process (`MaxStarts = 1`), too.

## Proofs

### Matching

`MatchingProofs` proves, for any number of transfers, invoices, amounts and
reorgs, that the engine keeps `TypeOK`, `PayableIsHeld`, `PaidIsBacked`,
`LivePaymentsMatch`, `OutboxTruthful`, `EventsCoherent` and `LiveNotFiled`, and
that it implements `InvoiceLifecycle`. The only assumption is
`MatchingAssumption`, the types of the constants.

None of these is inductive alone. `IInv` adds what an invoice that does not
exist looks like (`Unborn`), what is on record about a payment (`RowsKnown`) and,
above all, what is still true of the reads a job carries (`JobCurrent`): the
watcher is the only one to move an invoice to detected or confirmed, so between
its read and its transaction an invoice can only have ended. That is why losing
the compare-and-set may leave a payment standing without breaking
`LivePaymentsMatch`: the invoice it stands on is never pending. It also says that a
transfer about to be filed had no live payment when it was looked up, and as the watcher
is the only one to record any, has none yet: hence `LiveNotFiled`. There is one
lemma per action of `Next`, each split by the conjuncts the action can disturb.

`ExactPaymentNotPoached` is an action property. `ExactGoesHome` proves it under `OnGrid`,
that the amounts asked for are multiples of the step apart, and `MatchingOffGrid`
refutes it otherwise. What is reserved then lies on one grid too (`HeldIsPriced`), so
an invoice whose window holds an amount of the grid is reserved at just that amount, and
by `AmountsExclusive`, a part of `IInv`, it is the only one.

Model-checked only: the refutations.

### Outbox

`OutboxProofs` proves for any events, dispatchers, delays and numbers of faults
that `max_attempts` holds (in `TypeOK`), that `delivered` is true and that only
exhausted events are lost, from `OutboxAssumption`. `TakenIsAccepted` makes them
inductive: an outcome waiting to be recorded as delivered is one the receiver
has seen. `AttemptsCounted` needs an invariant of its own, over the finite sets
of flights of one event: what the receiver has seen and what is still
unanswered never exceed the attempts counted. `Implements` proves the
refinement of `AtLeastOnce` from these: initial states map to initial states, and
each of the outbox's actions to one of its steps or a stutter, with
`AttemptsCounted` the reason that a request the receiver takes in may `Arrive` and
`TakenIsAccepted` the reason that an outcome may `Settle`.

`SingleFlight` and `OnceUnlessFaulty` depend on the delays and are proved where they
cannot conflict (`Unqueued`): a batch has no more events than there are slots, and a
lease outlasts a request and the recording of its outcome. `Leased` is the reason:
what an event's lease has left and what its request has spent make up a lease.
`OutboxLeased` checks the two with a queue, within a lease; `OutboxOverdue` refutes
`SingleFlight` where the queue outlasts it. `Drains` is model-checked only.

### Allocation

`AllocationProofs` proves `HoldOutlivesEnd`, `HonestRefusal` and `AnswersAgree` for
any requests, keys, amounts and deadlines, and any `Asks` and `Moved`, from
`AllocationAssumption` (`Stall` is
no longer than either period). `IInv` adds `HoldCovers` (what a hold has left and the
time since the end make up `amount_hold`), `KeysUnique` and `RacesLost` (each lost
race is an invoice somebody else has created since the request began, and a
request about to lose one has a rival it has not lost to yet), the invariant that
makes a refusal honest. `AmountsReturn` and the two refutations are model-checked only.

### BscWatcher

`BscWatcherProofs` proves `TypeOK` from `BscAssumption` alone, and the properties of
`BscScan` for any transfers, positions, heights and number of reorgs:

* `AbsentIsGone` where endpoints are level (`Lag = 0`; `BscLagging` refutes it
  otherwise). `ReplyInv`: what was where it is stored is among the logs read.
* `NoLoss` under `WindowSuffices`: level endpoints that keep their history, a first
  rewind that does not fail (`BscNoHistory` and `BscOutage` are about the
  opposite), a window that covers an outage and the blocks not yet final
  (`BscOutage`), a tick that covers the window, and a chain longer than all
  restarts together rewind. `CoverInv` is the heart of it: what the cursor has
  passed without confirming it was not final at the last completed scan, so the
  window still holds it, or the rewind that is due brings it back. `ScanInv` says that
  what a tick has passed below its finality line is confirmed, and `CursorInv` that
  no rewind reaches zero, which would mean a first run.
* `PaidIsFinal` in every run in which no scan begins too far behind the payments on record
  for its chunks to reach them (`ScanReaches`), however often the watcher was restarted
  (`PaidOnlyInReach`). What confirms an early payment is a ghost, a live row
  whose transfer is in no block any more, at a height that has become final.
  `GhostInv` keeps every ghost ahead of the scan, in the window, or above the line
  until its chunk is read and revokes it; `ChunkInv` says that a tick that ends
  early for its `maxChunksPerTick` has no row ahead of it. The condition is needed:
  with `LogRange = 1`, a window of 2, three chunks and three crashes each of
  which rewinds once more, TLC finds a tick that settles a ghost its chunks did not
  reach. `NearInv` bounds how far behind a scan can begin: a chunk, an outage and one
  window for each fault. So the condition holds of every run where a tick reaches that
  far, `TickReaches`, and `PaidOnlyWhenFinal` is the theorem without it. With the real
  values (a window of 64 blocks, ten chunks of 2000) it takes some 280 restarts, none
  with a completed scan in between, to break it.

`FinalIsPaid` is model-checked only.

### TronWatcher

`TronWatcherProofs` proves `NothingPassed`, `ConfirmedIsBacked` and
`CreditedNotFiled` for any transfers, invoices, page length, reorgs and failures,
from `TronAssumption` and two conditions that are needed (see above): the feed shows earlier blocks first (`InOrder`) and reorgs
leave what they un-mine to new blocks (`~Replaces`). `CreditedNotFiled` also
needs `OnePerTransaction`.

`NothingPassed` speaks of solid transfers and the saved cursor. `Passed` says it
of every mined transfer, and also of the newest timestamp of the page read so
far, which becomes the cursor, and of every record still to be applied: what is
earlier is recorded or still on the page. A page establishes that because it is
a first part, by time, of a feed that shows nothing before what precedes it
(`ShownInOrder`). `ConfirmedIsBacked` needs `TimesGrow`: a re-read may confirm a
payment by the time of the read rather than the one on record, which is sound
only as a transaction is never seen earlier than before. `FiledEnded` says that what
was filed has no invoice left to be credited to.

### Service

`ServiceProofs` proves, for any files, replicas, jobs and boots, from
`ServiceAssumption`, that the schema is applied alone, nobody serves unprepared,
common assets stay on, unmixed seedings are projections, orderly exits are orderly,
and the asset of every invoice stays readable (`HistoryReadable`). `Stage` says what
holds of a replica by the place it has reached, and `Seeded` how far its seeding has
come: what it has upserted is still there unless another file was mixed in, and what
every file lists is there in any case. The lemmas are one per action, and as a step
of one replica changes what others rely on (the table, the lock), each shows both
that the moving replica reaches its stage and that the others keep theirs.

### Listing, endpoints and quota

`ClientProofs` is about three clients. Of `InvoiceList` it proves `YieldedOnce` and
`NoneMissed` for any invoices, filters and page lengths; the invariant is that the walk
is where its position says - what was yielded lies above it, what is due below.

Of `EndpointPool` it proves, for any number of endpoints, cooldowns and faults,
`FailedMeansAllDown` and `EvenSpread`. `PoolInv` has two parts. `Honest` says why a failure
is truthful: whoever the call has asked in vain, and whoever is down, has been down
during the call, and an endpoint in cooldown is still asked before the call gives up.
`Round` says why the load is even: the endpoints with one request more than the rest
lie next to each other on the ring, the last of them at the cursor. A call that meets
no trouble adds the one after it, and when all have one more a new round begins.

Of `RateBudget` it proves `OverByCallers` for any callers, quota and number of days and of
restarts, from the invariant that whoever waits may still send today what is not charged
to today, beyond the quotas of the processes that are gone (`Quotas` keeps the products
out of the other steps). It proves `RefundsOwnDay` for one caller: while it waits nobody
else rolls the day, so its unit is of the counter's day. Both invariants hold under TLC as
well, but not in a regular run.

### Request

`InvoiceRequestProofs` proves `LowestFree` for any step, range and held amounts: the nonces
below the candidate are held, the rows not read yet have all the amounts that are held
from it on. It proves `AskedExactly`, `RefusedRightly` and `ReadsBack` for any catalogue,
any scales and texts of any length. `Resolved` and `Understood` carry what the first
steps found out about the text to the last.

These rest on what `Parse` and `Format` do to digits, which are defined by recursive
functions over the numbers: `TenTo`, and `Readings`, the values of the first parts of a
text. The library's induction theorems cannot be cited here, so `Induction` is
derived from the facts about finite sets (a set that holds 0 and all successors, but not
some `k`, would have its members up to `k` mapped into themselves without 0), and from it
that such functions exist (`Recursion`). On them rest `ValueConcat`
(the value of two texts in a row), `ValueDigits` and `UnitsExact` (the digits of a number have its value, with
the point moved by the scale), `TooPrecise`, `RejectedRightly` and `RoundTrip`.

### Out of the prover's reach

Only liveness under fairness: `Drains`, `AmountsReturn`, `FinalIsPaid`,
`SolidIsHandled`, `Settles`, `LogsServed` and `WalkEnds`. Every safety and action
property of the regular runs that pass is a theorem.

## Not modelled

* The HTTP layer (`internal/middleware`, `controller`, `view`, `apierr`) is routing,
  authentication and rendering, and logging is logging.
* Of the configuration only the assets section is modelled; the other sections are
  constants, and reading YAML is not a question for a model checker.
* `pkg/cryptopay`'s webhook handler checks a signature and a timestamp of each request
  by itself; its other calls are one request each.
* Decoding the nodes' JSON and hexadecimal, and the payload and signature of a webhook,
  are data.
* The pace within a second of `pkg/ratebudget` is golang.org/x/time/rate.
* Go code generated by sqlc is modelled through the actions of the modules whose
  components call it.
