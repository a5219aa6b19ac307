------------------------------ MODULE Service ------------------------------
(***************************************************************************)
(* The life of the service's replicas over one database: creating the      *)
(* database, applying the schema, projecting the configured assets into    *)
(* their table, serving, and shutting down.  Replicas boot, crash and are  *)
(* redeployed with another configuration file at any time; only the schema *)
(* is guarded by a lock (pkg/postgres, pkg/dbschema, asset_seeder,         *)
(* orchestrator, cmd/app.go).                                              *)
(***************************************************************************)
EXTENDS Integers, Sequences, FiniteSets

CONSTANTS
  Replicas,        \* processes that share the database
  Jobs,            \* cron jobs with a positive interval
  Files,           \* the configuration files an operator deploys
  createAttempts,  \* attempts at CREATE DATABASE
  MaxBoots,        \* bound: boots in one behaviour
  MaxInvoices,     \* bound: contracts with an invoice when a request arrives
  None             \* no replica, no row, no request

Entry == UNION {{f.assets[i] : i \in DOMAIN f.assets} : f \in Files}

\* EVM addresses are compared in lower case, TRON's carry meaning in theirs.
normaliseAddress(e) == [network |-> e.network, address |-> e.address,
                        upper |-> e.network = "tron" /\ e.upper]

Contracts == {normaliseAddress(e) : e \in Entry}
Configured(f) == {normaliseAddress(f.assets[i]) : i \in DOMAIN f.assets}

\* A contract is listed once, and a step is positive.
LoadConfig(f) == LET a == f.assets IN
  /\ a # <<>>
  /\ \A i \in DOMAIN a : a[i].step > 0
  /\ \A i, j \in DOMAIN a : i # j => normaliseAddress(a[i]) # normaliseAddress(a[j])

\* Contracts that every configuration deployed lists.
Common == {c \in Contracts : \A f \in Files : LoadConfig(f) => c \in Configured(f)}

Row == [step : Int, enabled : BOOLEAN]

ASSUME ServiceAssumption ==
  /\ None \notin Replicas /\ None \notin Row
  /\ createAttempts \in Nat \ {0} /\ MaxBoots \in Nat /\ MaxInvoices \in Nat
  /\ None \notin Files
  /\ \A f \in Files : /\ f.assets \in Seq(Entry)
                      /\ f.autoCreate \in BOOLEAN /\ f.autoSchema \in BOOLEAN
  /\ \A e \in Entry : e.step \in Int

VARIABLES
  exists,   \* the database is there
  schema,   \* its tables are
  lock,     \* the session that holds schemaLockKey
  table,    \* cp_assets: a row, or None, for each contract
  issued,   \* the contracts that invoices refer to
  pc,       \* where each replica is
  file,     \* the configuration it was started with
  next,     \* the entry it upserts next
  tries,    \* its attempts at CREATE DATABASE
  job,      \* what its job goroutines do
  request,  \* the asset its request in flight has resolved, or None
  writing,  \* that request's INSERT is under way, on a connection of the pool
  late,     \* a shutdown deadline of its passed
  mixed,    \* another file was written into the table while it seeded
  boots     \* boots so far

db == <<exists, schema, lock, table, issued>>
local == <<file, next, tries, job, request, writing, late, mixed>>
vars == <<db, pc, local, boots>>

Booting == {"open", "create", "check", "reopen",
            "ensure", "apply", "unlock", "seed", "disable", "start"}
Running == {"serving", "draining", "stopping", "closing"}

Enabled(t, c) == t[c] # None /\ t[c].enabled

\* The table is the projection of a configuration.
Projects(t, f) ==
  /\ \A i \in DOMAIN f.assets :
       t[normaliseAddress(f.assets[i])] = [step |-> f.assets[i].step, enabled |-> TRUE]
  /\ \A c \in Contracts \ Configured(f) : ~Enabled(t, c)

Init ==
  /\ exists = FALSE /\ schema = FALSE /\ lock = None
  /\ table = [c \in Contracts |-> None] /\ issued = {}
  /\ pc = [r \in Replicas |-> "down"]
  /\ file = [r \in Replicas |-> None] /\ next = [r \in Replicas |-> 1]
  /\ tries = [r \in Replicas |-> 0]
  /\ job = [r \in Replicas |-> [j \in Jobs |-> "gone"]]
  /\ request = [r \in Replicas |-> None] /\ writing = [r \in Replicas |-> FALSE]
  /\ late = [r \in Replicas |-> FALSE] /\ mixed = [r \in Replicas |-> FALSE]
  /\ boots = 0

Go(r, to) == pc' = [pc EXCEPT ![r] = to]

\* The process is gone: its goroutines, its requests, its statements and its
\* session's lock.
Exit(r) ==
  /\ Go(r, "down")
  /\ lock' = IF lock = r THEN None ELSE lock
  /\ job' = [job EXCEPT ![r] = [j \in Jobs |-> "gone"]]
  /\ request' = [request EXCEPT ![r] = None] /\ writing' = [writing EXCEPT ![r] = FALSE]
  /\ file' = [file EXCEPT ![r] = None]
  /\ next' = [next EXCEPT ![r] = 1] /\ tries' = [tries EXCEPT ![r] = 0]
  /\ late' = [late EXCEPT ![r] = FALSE] /\ mixed' = [mixed EXCEPT ![r] = FALSE]
  /\ UNCHANGED <<exists, schema, table, issued, boots>>

Boot(r) ==
  /\ pc[r] = "down" /\ boots < MaxBoots
  /\ boots' = boots + 1
  /\ \E f \in Files : file' = [file EXCEPT ![r] = f]
  /\ Go(r, "open")
  /\ UNCHANGED <<db, next, tries, job, request, writing, late, mixed>>

-----------------------------------------------------------------------------
\* The database.

\* The pool is open: the other sections are read, each by its own package.
Load(r) ==
  \/ /\ LoadConfig(file[r])
     /\ Go(r, "ensure") /\ tries' = [tries EXCEPT ![r] = 0]
     /\ UNCHANGED <<db, file, next, job, request, writing, late, mixed, boots>>
  \/ ~LoadConfig(file[r]) /\ Exit(r)

\* The target is tried first; only its absence leads to the maintenance database.
Open(r) ==
  /\ pc[r] = "open"
  /\ \/ exists /\ Load(r)
     \/ ~exists /\ file[r].autoCreate /\ Go(r, "create") /\ UNCHANGED <<db, local, boots>>
     \/ ~exists /\ ~file[r].autoCreate /\ Exit(r)

\* CREATE DATABASE fails where the database is there, and may where two
\* replicas contend for the template.
CreateDatabase(r) ==
  /\ pc[r] = "create"
  /\ \/ ~exists /\ exists' = TRUE /\ Go(r, "reopen") /\ UNCHANGED tries
     \/ /\ exists \/ \E s \in Replicas \ {r} : pc[s] = "create"
        /\ tries' = [tries EXCEPT ![r] = @ + 1]
        /\ Go(r, "check") /\ UNCHANGED exists
  /\ UNCHANGED <<schema, lock, table, issued, file, next, job, request, writing, late, mixed, boots>>

MayRetry(r) == tries[r] < createAttempts

\* After a failure the question is whether the database is there now.
DatabaseExists(r) ==
  /\ pc[r] = "check"
  /\ \/ exists /\ Go(r, "reopen") /\ UNCHANGED <<db, local, boots>>
     \/ ~exists /\ MayRetry(r) /\ Go(r, "create") /\ UNCHANGED <<db, local, boots>>
     \/ ~exists /\ ~MayRetry(r) /\ Exit(r)

Reopen(r) ==
  /\ pc[r] = "reopen" /\ exists
  /\ Load(r)

-----------------------------------------------------------------------------
\* The bootstrap tasks, in order; the first failure ends the process.

(* Faulty: the advisory lock is not taken. *)
LockFreeAlways == TRUE

LockFree == lock = None

Skip(r) ==
  /\ pc[r] = "ensure" /\ ~file[r].autoSchema
  /\ Go(r, "seed") /\ UNCHANGED <<db, local, boots>>

Lock(r) ==
  /\ pc[r] = "ensure" /\ file[r].autoSchema /\ LockFree
  /\ lock' = r /\ Go(r, "apply")
  /\ UNCHANGED <<exists, schema, table, issued, local, boots>>

\* One batch, one implicit transaction.
Apply(r) ==
  /\ pc[r] = "apply"
  /\ schema' = TRUE /\ Go(r, "unlock")
  /\ UNCHANGED <<exists, lock, table, issued, local, boots>>

(* Faulty: the connection goes back to the pool with the lock. *)
ReleasedNever(r) == r

Released(r) == None

Unlock(r) ==
  /\ pc[r] = "unlock"
  /\ lock' = Released(r) /\ Go(r, "seed")
  /\ UNCHANGED <<exists, schema, table, issued, local, boots>>

\* Who is seeding another file notices that this one is written.
Mix(r, own) == mixed' = [s \in Replicas |-> IF s = r THEN own ELSE
  \/ mixed[s]
  \/ /\ file[s] # file[r]
     /\ (pc[s] = "disable" \/ (pc[s] = "seed" /\ next[s] > 1))]

(* Faulty: the conflict clause leaves enabled alone. *)
UpsertKeepsSwitch(e, old) == [step |-> e.step, enabled |-> old = None \/ old.enabled]

\* INSERT ... ON CONFLICT (network, contract_address) DO UPDATE
UpsertAsset(e, old) == [step |-> e.step, enabled |-> TRUE]

(* Faulty: the old rows are switched off before the new are upserted. *)
UpsertedAfresh(r) == LET e == file[r].assets[next[r]] IN
  [c \in Contracts |-> IF c = normaliseAddress(e) THEN UpsertAsset(e, table[c])
                       ELSE IF next[r] = 1 /\ Enabled(table, c) THEN [table[c] EXCEPT !.enabled = FALSE]
                       ELSE table[c]]

Upserted(r) == LET e == file[r].assets[next[r]]
               IN [table EXCEPT ![normaliseAddress(e)] = UpsertAsset(e, @)]

Upsert(r) ==
  /\ pc[r] = "seed"
  /\ \/ /\ schema
        /\ table' = Upserted(r)
        /\ next' = [next EXCEPT ![r] = @ + 1]
        /\ Go(r, IF next[r] = Len(file[r].assets) THEN "disable" ELSE "seed")
        /\ Mix(r, mixed[r])
        /\ UNCHANGED <<exists, schema, lock, issued, file, tries, job, request, writing, late, boots>>
     \/ ~schema /\ Exit(r)

\* The rows outside what was upserted are switched off, never deleted.
DisableAssetsNotIn(keep) ==
  [c \in Contracts |-> IF Enabled(table, c) /\ c \notin keep
                       THEN [table[c] EXCEPT !.enabled = FALSE] ELSE table[c]]

Disable(r) ==
  /\ pc[r] = "disable"
  /\ table' = DisableAssetsNotIn(Configured(file[r]))
  /\ Go(r, "start") /\ Mix(r, FALSE)
  /\ next' = [next EXCEPT ![r] = 1]
  /\ UNCHANGED <<exists, schema, lock, issued, file, tries, job, request, writing, late, boots>>

(* Faulty: a failed task is logged and the boot goes on. *)
BootFailureLogged(r) == /\ pc[r] \in {"apply", "seed", "disable"} /\ Go(r, "start")
                        /\ lock' = IF lock = r THEN None ELSE lock
                        /\ UNCHANGED <<exists, schema, table, issued, local, boots>>

\* The boot's deadline passes, or a statement of a task fails: Fatalw.
BootFails(r) == pc[r] \in {"ensure", "apply", "seed", "disable"} /\ Exit(r)

Start(r) ==
  /\ pc[r] = "start"
  /\ job' = [job EXCEPT ![r] = [j \in Jobs |-> "idle"]]
  /\ Go(r, "serving")
  /\ UNCHANGED <<db, file, next, tries, request, writing, late, mixed, boots>>

-----------------------------------------------------------------------------
\* Requests and jobs.

\* A creation resolves its asset among the enabled ones ...
Arrive(r) ==
  /\ pc[r] = "serving" /\ request[r] = None /\ Cardinality(issued) < MaxInvoices
  /\ \E c \in {d \in Contracts : Enabled(table, d)} : request' = [request EXCEPT ![r] = c]
  /\ UNCHANGED <<db, pc, file, next, tries, job, writing, late, mixed, boots>>

\* ... writes the invoice that refers to it, on a connection it acquires: a
\* pool that is closing hands out none ...
Write(r) ==
  /\ request[r] # None /\ ~writing[r] /\ pc[r] \in Running \ {"closing"}
  /\ writing' = [writing EXCEPT ![r] = TRUE]
  /\ UNCHANGED <<db, pc, file, next, tries, job, request, late, mixed, boots>>

\* ... and answers: PostgreSQL took the row or refused it ...
Answer(r) ==
  /\ writing[r]
  /\ issued' \in {issued, issued \cup {request[r]}}
  /\ writing' = [writing EXCEPT ![r] = FALSE]
  /\ request' = [request EXCEPT ![r] = None]
  /\ UNCHANGED <<exists, schema, lock, table, pc, file, next, tries, job, late, mixed, boots>>

\* ... unless the creation failed before.
Refuse(r) ==
  /\ request[r] # None /\ ~writing[r]
  /\ request' = [request EXCEPT ![r] = None]
  /\ UNCHANGED <<db, pc, file, next, tries, job, writing, late, mixed, boots>>

JobStep(r, j, from, to) ==
  /\ job[r][j] = from /\ job' = [job EXCEPT ![r][j] = to]
  /\ UNCHANGED <<db, pc, file, next, tries, request, writing, late, mixed, boots>>

\* A tick may still win the select after the context is cancelled.
JobStarts(r, j) == JobStep(r, j, "idle", "running")
JobEnds(r, j) == JobStep(r, j, "running", "idle")

\* A statement of a job, under way on a connection.
JobQueries(r, j) == pc[r] # "closing" /\ JobStep(r, j, "running", "querying")
JobAnswered(r, j) == JobStep(r, j, "querying", "running")

Cancelled(r) == pc[r] \in {"stopping", "closing"}

JobLeaves(r, j) == Cancelled(r) /\ JobStep(r, j, "idle", "gone")

-----------------------------------------------------------------------------
\* SIGTERM: requests first, then the jobs, then the pool.

Signal(r) ==
  /\ pc[r] = "serving"
  /\ Go(r, "draining") /\ UNCHANGED <<db, local, boots>>

(* Faulty: Stop cancels and does not wait. *)
LeftWithoutWaiting(r) == TRUE

Left(r) == \A j \in Jobs : job[r][j] = "gone"

\* A phase ends when what it waits for has ended, or at its deadline.
Advance(r, from, to, done) ==
  /\ pc[r] = from /\ Go(r, to)
  /\ \/ done /\ UNCHANGED late
     \/ ~done /\ late' = [late EXCEPT ![r] = TRUE]
  /\ UNCHANGED <<db, file, next, tries, job, request, writing, mixed, boots>>

Shutdown(r) == Advance(r, "draining", "stopping", request[r] = None)
StopCron(r) == Advance(r, "stopping", "closing", Left(r))

\* No statement of the process is under way.
Returned(r) == ~writing[r] /\ \A j \in Jobs : job[r][j] # "querying"

\* The pool's Close waits for every connection, and has no deadline.
ClosePool(r) == pc[r] = "closing" /\ Returned(r) /\ Exit(r)

\* A crash, a kill, or a listener that fails.
Crash(r) == pc[r] # "down" /\ Exit(r)

BootStep(r) ==
  \/ Open(r) \/ CreateDatabase(r) \/ DatabaseExists(r) \/ Reopen(r)
  \/ Skip(r) \/ Apply(r) \/ Unlock(r) \/ Upsert(r) \/ Disable(r) \/ Start(r)

StopStep(r) == Shutdown(r) \/ StopCron(r) \/ ClosePool(r)

Next == \E r \in Replicas :
  \/ Boot(r) \/ BootStep(r) \/ Lock(r) \/ BootFails(r)
  \/ Arrive(r) \/ Write(r) \/ Answer(r) \/ Refuse(r)
  \/ Signal(r) \/ StopStep(r) \/ Crash(r)
  \/ \E j \in Jobs : \/ JobStarts(r, j) \/ JobEnds(r, j) \/ JobLeaves(r, j)
                    \/ JobQueries(r, j) \/ JobAnswered(r, j)

Spec == Init /\ [][Next]_vars

\* A process runs on; PostgreSQL answers, and serves those who wait for a lock
\* in turn.  No job and no request need ever end.
FairSpec == Spec /\ \A r \in Replicas :
  /\ WF_vars(BootStep(r)) /\ SF_vars(Lock(r)) /\ WF_vars(StopStep(r))
  /\ WF_vars(Answer(r)) /\ \A j \in Jobs : WF_vars(JobAnswered(r, j))

-----------------------------------------------------------------------------
TypeOK ==
  /\ exists \in BOOLEAN
  /\ schema \in BOOLEAN
  /\ lock \in Replicas \cup {None}
  /\ table \in [Contracts -> Row \cup {None}]
  /\ issued \subseteq Contracts
  /\ pc \in [Replicas -> {"down"} \cup Booting \cup Running]
  /\ file \in [Replicas -> Files \cup {None}]
  /\ next \in [Replicas -> Nat \ {0}]
  /\ tries \in [Replicas -> 0..createAttempts]
  /\ job \in [Replicas -> [Jobs -> {"idle", "running", "querying", "gone"}]]
  /\ request \in [Replicas -> Contracts \cup {None}]
  /\ writing \in [Replicas -> BOOLEAN]
  /\ late \in [Replicas -> BOOLEAN]
  /\ mixed \in [Replicas -> BOOLEAN]
  /\ boots \in 0..MaxBoots

\* The schema is never applied by two sessions at once, and the lock is held
\* by nobody who is not applying it (dbschema.go:29: "CREATE TABLE IF NOT
\* EXISTS is not safe to run concurrently").
AppliesAlone == \A r \in Replicas : lock = r <=> pc[r] \in {"apply", "unlock"}

\* No replica serves before the schema is there and the assets that all
\* configurations list can be sold, whatever other replicas boot, fail or
\* disable meanwhile (cmd/app.go:74).
ServesPrepared == \A r \in Replicas : pc[r] \in Running =>
  /\ schema
  /\ \A c \in Common : Enabled(table, c)

\* An asset that every configuration lists stays on through every restart and
\* every failed boot: a seeding never passes through a table without it.
CommonStaysOn == [][\A c \in Common : Enabled(table, c) => Enabled(table', c)]_vars

\* A seeding that no other file was mixed into leaves the table as the
\* projection of its file, with any number of replicas seeding the same file
\* at once, after any number of aborted seedings of any file
\* (asset_seeder/usecase.go:4).
SeedProjects == [][\A r \in Replicas :
  pc[r] = "disable" /\ pc'[r] = "start" /\ ~mixed[r] => Projects(table', file[r])]_vars

\* The rows that invoices refer to stay readable when their asset is dropped.
HistoryReadable == \A c \in issued : table[c] # None

\* An orderly exit cuts no request and no job short, unless a deadline passed.
OrderlyExit == [][\A r \in Replicas :
  pc[r] = "closing" /\ pc'[r] = "down" /\ ~late[r] =>
    request[r] = None /\ \A j \in Jobs : job[r][j] = "gone"]_vars

\* A boot ends, serving or not, though no deadline of its ever passes.  A
\* shutdown ends too: its two waits at their deadlines if need be, and the
\* pool's Close, which has none, as soon as the statements under way are
\* answered, for a closing pool hands out no connection to the jobs and
\* requests that outlived their deadline.
Settles == \A r \in Replicas :
  pc[r] \in Booting \cup {"draining", "stopping", "closing"} ~> pc[r] \in {"serving", "down"}

-----------------------------------------------------------------------------
\* The inductive invariant.

\* How far a seeding has come: what it wrote stands, unless it was mixed with
\* another, and what every configuration lists stands in any case.
Seeded(r) ==
  \A i \in DOMAIN file[r].assets : pc[r] = "disable" \/ i < next[r] =>
    LET e == file[r].assets[i]  c == normaliseAddress(e) IN
    /\ c \in Common => Enabled(table, c)
    /\ ~mixed[r] => table[c] = [step |-> e.step, enabled |-> TRUE]

\* What holds of a replica by the place it has reached.
Stage(r) ==
  /\ pc[r] \in {"down", "open"} => tries[r] = 0
  /\ pc[r] = "create" => tries[r] < createAttempts
  /\ pc[r] # "down" => file[r] \in Files
  /\ pc[r] \in Running \cup {"ensure", "apply", "unlock", "seed", "disable", "start"}
       => LoadConfig(file[r])
  /\ pc[r] = "seed" => next[r] \in DOMAIN file[r].assets
  /\ pc[r] = "unlock" \/ next[r] > 1 => schema
  /\ pc[r] \notin {"seed", "disable"} => next[r] = 1
  /\ pc[r] = "disable" => next[r] > 1
  /\ pc[r] \in {"seed", "disable"} => Seeded(r)
  /\ pc[r] \in Running \cup {"start"} => schema /\ \A c \in Common : Enabled(table, c)
  /\ request[r] # None => table[request[r]] # None /\ pc[r] \in Running
  /\ writing[r] => request[r] # None
  /\ pc[r] \in {"stopping", "closing"} /\ ~late[r] => request[r] = None
  /\ pc[r] = "closing" /\ ~late[r] => \A j \in Jobs : job[r][j] = "gone"

IInv ==
  /\ TypeOK
  /\ AppliesAlone
  /\ \A r \in Replicas : Stage(r)
  /\ HistoryReadable

\* Two overlapping boots with different files leave the table at one of them.
\* (Refuted: ServiceMixed.cfg.)
TableIsAFile ==
  (\A r \in Replicas : pc[r] \in {"down", "serving"}) /\ (\E r \in Replicas : pc[r] = "serving")
    => \E r \in Replicas : pc[r] = "serving" /\ Projects(table, file[r])
=============================================================================
