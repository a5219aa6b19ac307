--------------------------- MODULE ServiceProofs ---------------------------
(***************************************************************************)
(* Proofs about Service for any replicas, jobs, files and number of boots. *)
(***************************************************************************)
EXTENDS Service, TLAPS

\* The parts of the assumption that the steps below need.
LEMMA Parameters ==
  /\ None \notin Replicas
  /\ None \notin Files /\ None \notin Row
  /\ createAttempts \in Nat \ {0}
  /\ MaxBoots \in Nat
  BY ServiceAssumption

\* The initial state has the inductive invariant.
LEMMA InitIInv == Init => IInv
  <1> SUFFICES ASSUME Init PROVE IInv
    OBVIOUS
  <1>1. TypeOK
    <2>1. (exists \in BOOLEAN) /\ (schema \in BOOLEAN) /\ (lock \in Replicas \cup {None})
      BY Parameters DEF Init
    <2>2. (table \in [Contracts -> Row \cup {None}]) /\ (issued \subseteq Contracts)
      BY Parameters DEF Init
    <2>3. (pc \in [Replicas -> {"down"} \cup Booting \cup Running])
      BY Parameters DEF Init, Booting, Running
    <2>4. (file \in [Replicas -> Files \cup {None}]) /\ (next \in [Replicas -> Nat \ {0}])
      BY Parameters DEF Init
    <2>5. (tries \in [Replicas -> 0..createAttempts])
      BY Parameters DEF Init
    <2>6. (job \in [Replicas -> [Jobs -> {"idle", "running", "querying", "gone"}]]) /\ (request \in [Replicas -> Contracts \cup {None}])
      BY Parameters DEF Init
    <2>7. (writing \in [Replicas -> BOOLEAN]) /\ (late \in [Replicas -> BOOLEAN]) /\ (mixed \in [Replicas -> BOOLEAN])
      BY Parameters DEF Init
    <2>8. (boots \in 0..MaxBoots)
      BY Parameters DEF Init
    <2> QED
      BY <2>1, <2>2, <2>3, <2>4, <2>5, <2>6, <2>7, <2>8 DEF TypeOK
  <1>2. AppliesAlone
    BY Parameters DEF AppliesAlone, Init
  <1>3. ASSUME NEW r \in Replicas PROVE Stage(r)
    BY Parameters DEF Stage, Running, Init
  <1>4. HistoryReadable
    BY DEF HistoryReadable, Init
  <1> QED
    BY <1>1, <1>2, <1>3, <1>4 DEF IInv

\* What a step leaves alone of another replica keeps its stage.
LEMMA Others ==
  ASSUME NEW q \in Replicas, Stage(q),
         pc'[q] = pc[q], file'[q] = file[q], next'[q] = next[q], tries'[q] = tries[q],
         request'[q] = request[q], writing'[q] = writing[q], late'[q] = late[q],
         job'[q] = job[q],
         schema => schema',
         \A c \in Common : Enabled(table, c) => Enabled(table', c),
         request[q] # None => table'[request[q]] # None,
         pc[q] \in {"seed", "disable"} => Seeded(q)'
  PROVE  Stage(q)'
  BY DEF Stage

\* So does a step that leaves the table alone.
LEMMA Bystander ==
  ASSUME NEW q \in Replicas, Stage(q),
         pc'[q] = pc[q], file'[q] = file[q], next'[q] = next[q], tries'[q] = tries[q],
         request'[q] = request[q], writing'[q] = writing[q], late'[q] = late[q],
         job'[q] = job[q],
         mixed'[q] = mixed[q], schema => schema', table' = table
  PROVE  Stage(q)'
  <1>1. Seeded(q) => Seeded(q)'
    BY DEF Seeded
  <1> QED
    BY <1>1, Others DEF Stage

\* A process that ends takes its lock, its requests and its progress along.
LEMMA ExitIInv ==
  ASSUME IInv, NEW r \in Replicas, Exit(r)
  PROVE  IInv'
  <1>a. TypeOK /\ AppliesAlone /\ HistoryReadable /\ \A q \in Replicas : Stage(q)
    BY DEF IInv
  <1>1. TypeOK'
    <2>1. (exists \in BOOLEAN)' /\ (schema \in BOOLEAN)' /\ (lock \in Replicas \cup {None})'
      BY <1>a, Parameters DEF TypeOK, Exit, Go
    <2>2. (table \in [Contracts -> Row \cup {None}])' /\ (issued \subseteq Contracts)'
      BY <1>a, Parameters DEF TypeOK, Exit, Go
    <2>3. (pc \in [Replicas -> {"down"} \cup Booting \cup Running])'
      BY <1>a, Parameters DEF TypeOK, Exit, Go, Booting, Running
    <2>4. (file \in [Replicas -> Files \cup {None}])' /\ (next \in [Replicas -> Nat \ {0}])'
      BY <1>a, Parameters DEF TypeOK, Exit, Go
    <2>5. (tries \in [Replicas -> 0..createAttempts])'
      BY <1>a, Parameters DEF TypeOK, Exit, Go
    <2>6. (job \in [Replicas -> [Jobs -> {"idle", "running", "querying", "gone"}]])' /\ (request \in [Replicas -> Contracts \cup {None}])'
      BY <1>a, Parameters DEF TypeOK, Exit, Go
    <2>7. (writing \in [Replicas -> BOOLEAN])' /\ (late \in [Replicas -> BOOLEAN])' /\ (mixed \in [Replicas -> BOOLEAN])'
      BY <1>a, Parameters DEF TypeOK, Exit, Go
    <2>8. (boots \in 0..MaxBoots)'
      BY <1>a, Parameters DEF TypeOK, Exit, Go
    <2> QED
      BY <2>1, <2>2, <2>3, <2>4, <2>5, <2>6, <2>7, <2>8 DEF TypeOK
  <1>2. AppliesAlone'
    BY <1>a, Parameters DEF AppliesAlone, TypeOK, Exit, Go
  <1>3. ASSUME NEW q \in Replicas PROVE Stage(q)'
    <2>1. Stage(q)
      BY <1>a
    <2>2. CASE q = r
      BY <1>a, <2>1, <2>2 DEF Stage, TypeOK, Exit, Go, Running
    <2>3. CASE q # r
      <3>1. /\ pc'[q] = pc[q] /\ file'[q] = file[q] /\ next'[q] = next[q]
            /\ tries'[q] = tries[q] /\ request'[q] = request[q] /\ late'[q] = late[q]
            /\ writing'[q] = writing[q] /\ job'[q] = job[q] /\ mixed'[q] = mixed[q]
            /\ (schema => schema') /\ table' = table
        BY <1>a, <2>3 DEF TypeOK, Exit, Go
      <3> QED
        BY <2>1, <3>1, Bystander
    <2> QED
      BY <2>2, <2>3
  <1>4. HistoryReadable'
    BY <1>a DEF HistoryReadable, TypeOK, Exit, Go
  <1> QED
    BY <1>1, <1>2, <1>3, <1>4 DEF IInv

\* A boot starts from nothing.
LEMMA BootIInv ==
  ASSUME IInv, NEW r \in Replicas, Boot(r)
  PROVE  IInv'
  <1>a. TypeOK /\ AppliesAlone /\ HistoryReadable /\ \A q \in Replicas : Stage(q)
    BY DEF IInv
  <1>1. TypeOK'
    <2>1. (exists \in BOOLEAN)' /\ (schema \in BOOLEAN)' /\ (lock \in Replicas \cup {None})'
      BY <1>a, Parameters DEF TypeOK, Boot, Go, db
    <2>2. (table \in [Contracts -> Row \cup {None}])' /\ (issued \subseteq Contracts)'
      BY <1>a, Parameters DEF TypeOK, Boot, Go, db
    <2>3. (pc \in [Replicas -> {"down"} \cup Booting \cup Running])'
      BY <1>a, Parameters DEF TypeOK, Boot, Go, db, Booting, Running
    <2>4. (file \in [Replicas -> Files \cup {None}])' /\ (next \in [Replicas -> Nat \ {0}])'
      BY <1>a, Parameters DEF TypeOK, Boot, Go, db
    <2>5. (tries \in [Replicas -> 0..createAttempts])'
      BY <1>a, Parameters DEF TypeOK, Boot, Go, db
    <2>6. (job \in [Replicas -> [Jobs -> {"idle", "running", "querying", "gone"}]])' /\ (request \in [Replicas -> Contracts \cup {None}])'
      BY <1>a, Parameters DEF TypeOK, Boot, Go, db
    <2>7. (writing \in [Replicas -> BOOLEAN])' /\ (late \in [Replicas -> BOOLEAN])' /\ (mixed \in [Replicas -> BOOLEAN])'
      BY <1>a, Parameters DEF TypeOK, Boot, Go, db
    <2>8. (boots \in 0..MaxBoots)'
      BY <1>a, Parameters DEF TypeOK, Boot, Go, db
    <2> QED
      BY <2>1, <2>2, <2>3, <2>4, <2>5, <2>6, <2>7, <2>8 DEF TypeOK
  <1>2. AppliesAlone'
    BY <1>a, Parameters DEF AppliesAlone, TypeOK, Boot, Go, db
  <1>3. ASSUME NEW q \in Replicas PROVE Stage(q)'
    <2>1. Stage(q)
      BY <1>a
    <2>2. CASE q = r
      BY <1>a, <2>1, <2>2 DEF Stage, TypeOK, Boot, Go, db, Running
    <2>3. CASE q # r
      <3>1. /\ pc'[q] = pc[q] /\ file'[q] = file[q] /\ next'[q] = next[q]
            /\ tries'[q] = tries[q] /\ request'[q] = request[q] /\ late'[q] = late[q]
            /\ writing'[q] = writing[q] /\ job'[q] = job[q] /\ mixed'[q] = mixed[q]
            /\ (schema => schema') /\ table' = table
        BY <1>a, <2>3 DEF TypeOK, Boot, Go, db
      <3> QED
        BY <2>1, <3>1, Bystander
    <2> QED
      BY <2>2, <2>3
  <1>4. HistoryReadable'
    BY <1>a DEF HistoryReadable, TypeOK, Boot, Go, db
  <1> QED
    BY <1>1, <1>2, <1>3, <1>4 DEF IInv

\* The pool is open and the configuration sound.
LEMMA LoadIInv ==
  ASSUME IInv, NEW r \in Replicas, pc[r] \in {"open", "reopen"}, LoadConfig(file[r]),
         Go(r, "ensure"), tries' = [tries EXCEPT ![r] = 0],
         UNCHANGED <<db, file, next, job, request, writing, late, mixed, boots>>
  PROVE  IInv'
  <1>a. TypeOK /\ AppliesAlone /\ HistoryReadable /\ \A q \in Replicas : Stage(q)
    BY DEF IInv
  <1>1. TypeOK'
    <2>1. (exists \in BOOLEAN)' /\ (schema \in BOOLEAN)' /\ (lock \in Replicas \cup {None})'
      BY <1>a, Parameters DEF TypeOK, Go, db
    <2>2. (table \in [Contracts -> Row \cup {None}])' /\ (issued \subseteq Contracts)'
      BY <1>a, Parameters DEF TypeOK, Go, db
    <2>3. (pc \in [Replicas -> {"down"} \cup Booting \cup Running])'
      BY <1>a, Parameters DEF TypeOK, Go, db, Booting, Running
    <2>4. (file \in [Replicas -> Files \cup {None}])' /\ (next \in [Replicas -> Nat \ {0}])'
      BY <1>a, Parameters DEF TypeOK, Go, db
    <2>5. (tries \in [Replicas -> 0..createAttempts])'
      BY <1>a, Parameters DEF TypeOK, Go, db
    <2>6. (job \in [Replicas -> [Jobs -> {"idle", "running", "querying", "gone"}]])' /\ (request \in [Replicas -> Contracts \cup {None}])'
      BY <1>a, Parameters DEF TypeOK, Go, db
    <2>7. (writing \in [Replicas -> BOOLEAN])' /\ (late \in [Replicas -> BOOLEAN])' /\ (mixed \in [Replicas -> BOOLEAN])'
      BY <1>a, Parameters DEF TypeOK, Go, db
    <2>8. (boots \in 0..MaxBoots)'
      BY <1>a, Parameters DEF TypeOK, Go, db
    <2> QED
      BY <2>1, <2>2, <2>3, <2>4, <2>5, <2>6, <2>7, <2>8 DEF TypeOK
  <1>2. AppliesAlone'
    BY <1>a, Parameters DEF AppliesAlone, TypeOK, Go, db
  <1>3. ASSUME NEW q \in Replicas PROVE Stage(q)'
    <2>1. Stage(q)
      BY <1>a
    <2>2. CASE q = r
      BY <1>a, <2>1, <2>2 DEF Stage, TypeOK, Go, db, Running
    <2>3. CASE q # r
      <3>1. /\ pc'[q] = pc[q] /\ file'[q] = file[q] /\ next'[q] = next[q]
            /\ tries'[q] = tries[q] /\ request'[q] = request[q] /\ late'[q] = late[q]
            /\ writing'[q] = writing[q] /\ job'[q] = job[q] /\ mixed'[q] = mixed[q]
            /\ (schema => schema') /\ table' = table
        BY <1>a, <2>3 DEF TypeOK, Go, db
      <3> QED
        BY <2>1, <3>1, Bystander
    <2> QED
      BY <2>2, <2>3
  <1>4. HistoryReadable'
    BY <1>a DEF HistoryReadable, TypeOK, Go, db
  <1> QED
    BY <1>1, <1>2, <1>3, <1>4 DEF IInv

\* An attempt at creating the database.
LEMMA CreateIInv ==
  ASSUME IInv, NEW r \in Replicas, CreateDatabase(r)
  PROVE  IInv'
  <1>a. TypeOK /\ AppliesAlone /\ HistoryReadable /\ \A q \in Replicas : Stage(q)
    BY DEF IInv
  <1>1. TypeOK'
    <2>1. (exists \in BOOLEAN)' /\ (schema \in BOOLEAN)' /\ (lock \in Replicas \cup {None})'
      BY <1>a, Parameters DEF TypeOK, CreateDatabase, Go, Stage
    <2>2. (table \in [Contracts -> Row \cup {None}])' /\ (issued \subseteq Contracts)'
      BY <1>a, Parameters DEF TypeOK, CreateDatabase, Go, Stage
    <2>3. (pc \in [Replicas -> {"down"} \cup Booting \cup Running])'
      BY <1>a, Parameters DEF TypeOK, CreateDatabase, Go, Stage, Booting, Running
    <2>4. (file \in [Replicas -> Files \cup {None}])' /\ (next \in [Replicas -> Nat \ {0}])'
      BY <1>a, Parameters DEF TypeOK, CreateDatabase, Go, Stage
    <2>5. (tries \in [Replicas -> 0..createAttempts])'
      BY <1>a, Parameters DEF TypeOK, CreateDatabase, Go, Stage
    <2>6. (job \in [Replicas -> [Jobs -> {"idle", "running", "querying", "gone"}]])' /\ (request \in [Replicas -> Contracts \cup {None}])'
      BY <1>a, Parameters DEF TypeOK, CreateDatabase, Go, Stage
    <2>7. (writing \in [Replicas -> BOOLEAN])' /\ (late \in [Replicas -> BOOLEAN])' /\ (mixed \in [Replicas -> BOOLEAN])'
      BY <1>a, Parameters DEF TypeOK, CreateDatabase, Go, Stage
    <2>8. (boots \in 0..MaxBoots)'
      BY <1>a, Parameters DEF TypeOK, CreateDatabase, Go, Stage
    <2> QED
      BY <2>1, <2>2, <2>3, <2>4, <2>5, <2>6, <2>7, <2>8 DEF TypeOK
  <1>2. AppliesAlone'
    BY <1>a, Parameters DEF AppliesAlone, TypeOK, CreateDatabase, Go
  <1>3. ASSUME NEW q \in Replicas PROVE Stage(q)'
    <2>1. Stage(q)
      BY <1>a
    <2>2. CASE q = r
      BY <1>a, <2>1, <2>2 DEF Stage, TypeOK, CreateDatabase, Go, Running
    <2>3. CASE q # r
      <3>1. /\ pc'[q] = pc[q] /\ file'[q] = file[q] /\ next'[q] = next[q]
            /\ tries'[q] = tries[q] /\ request'[q] = request[q] /\ late'[q] = late[q]
            /\ writing'[q] = writing[q] /\ job'[q] = job[q] /\ mixed'[q] = mixed[q]
            /\ (schema => schema') /\ table' = table
        BY <1>a, <2>3 DEF TypeOK, CreateDatabase, Go
      <3> QED
        BY <2>1, <3>1, Bystander
    <2> QED
      BY <2>2, <2>3
  <1>4. HistoryReadable'
    BY <1>a DEF HistoryReadable, TypeOK, CreateDatabase, Go
  <1> QED
    BY <1>1, <1>2, <1>3, <1>4 DEF IInv

\* A seeding begins with the first entry, and a file lists one.
LEMMA Begins ==
  ASSUME IInv, NEW r \in Replicas, pc[r] \in {"ensure", "unlock"}, pc'[r] = "seed",
         UNCHANGED <<file, next>>
  PROVE  next'[r] \in DOMAIN file'[r].assets /\ Seeded(r)'
  <1>1. file[r] \in Files /\ LoadConfig(file[r]) /\ next[r] = 1
    BY DEF IInv, Stage
  <1>2. file[r].assets \in Seq(Entry) /\ file[r].assets # <<>>
    BY <1>1, ServiceAssumption DEF LoadConfig
  <1>3. DOMAIN file[r].assets = 1..Len(file[r].assets) /\ Len(file[r].assets) \in Nat \ {0}
    BY <1>2
  <1> QED
    BY <1>1, <1>3 DEF Seeded

\* Steps that only decide where to go on.
LEMMA MoveIInv ==
  ASSUME IInv, NEW r \in Replicas, NEW to \in {"create", "reopen", "seed", "draining"}, 
         to = "create" => pc[r] = "open" \/ (pc[r] = "check" /\ MayRetry(r)),
         to = "reopen" => pc[r] = "check", to = "seed" => pc[r] = "ensure",
         to = "draining" => pc[r] = "serving",
         Go(r, to), UNCHANGED <<db, local, boots>>
  PROVE  IInv'
  <1>a. TypeOK /\ AppliesAlone /\ HistoryReadable /\ \A q \in Replicas : Stage(q)
    BY DEF IInv
  <1>1. TypeOK'
    <2>1. (exists \in BOOLEAN)' /\ (schema \in BOOLEAN)' /\ (lock \in Replicas \cup {None})'
      BY <1>a, Parameters DEF TypeOK, MayRetry, Go, db, local
    <2>2. (table \in [Contracts -> Row \cup {None}])' /\ (issued \subseteq Contracts)'
      BY <1>a, Parameters DEF TypeOK, MayRetry, Go, db, local
    <2>3. (pc \in [Replicas -> {"down"} \cup Booting \cup Running])'
      BY <1>a, Parameters DEF TypeOK, MayRetry, Go, db, local, Booting, Running
    <2>4. (file \in [Replicas -> Files \cup {None}])' /\ (next \in [Replicas -> Nat \ {0}])'
      BY <1>a, Parameters DEF TypeOK, MayRetry, Go, db, local
    <2>5. (tries \in [Replicas -> 0..createAttempts])'
      BY <1>a, Parameters DEF TypeOK, MayRetry, Go, db, local
    <2>6. (job \in [Replicas -> [Jobs -> {"idle", "running", "querying", "gone"}]])' /\ (request \in [Replicas -> Contracts \cup {None}])'
      BY <1>a, Parameters DEF TypeOK, MayRetry, Go, db, local
    <2>7. (writing \in [Replicas -> BOOLEAN])' /\ (late \in [Replicas -> BOOLEAN])' /\ (mixed \in [Replicas -> BOOLEAN])'
      BY <1>a, Parameters DEF TypeOK, MayRetry, Go, db, local
    <2>8. (boots \in 0..MaxBoots)'
      BY <1>a, Parameters DEF TypeOK, MayRetry, Go, db, local
    <2> QED
      BY <2>1, <2>2, <2>3, <2>4, <2>5, <2>6, <2>7, <2>8 DEF TypeOK
  <1>2. AppliesAlone'
    BY <1>a, Parameters DEF AppliesAlone, TypeOK, MayRetry, Go, db, local
  <1>3. ASSUME NEW q \in Replicas PROVE Stage(q)'
    <2>1. Stage(q)
      BY <1>a
    <2>2. CASE q = r
      <3>1. pc'[r] = to /\ UNCHANGED <<file, next>>
        BY <1>a, <2>2 DEF TypeOK, Go, local
      <3>2. /\ tries'[q] = tries[q] /\ request'[q] = request[q] /\ late'[q] = late[q]
            /\ mixed'[q] = mixed[q] /\ writing'[q] = writing[q] /\ job'[q] = job[q] /\ schema' = schema /\ table' = table
        BY DEF local, db
      <3>3. to = "seed" => next'[q] \in DOMAIN file'[q].assets /\ Seeded(q)'
        BY <2>2, <3>1, Begins DEF local
      <3>4. request[q] # None => pc[q] = "serving" \/ pc[q] \notin {"open", "check", "ensure"}
        BY <2>1 DEF Stage, Running
      <3>5. file'[q] = file[q] /\ next'[q] = next[q]
        BY <3>1
      <3>6. CASE to \in {"create", "reopen"}
        BY Parameters, <2>1, <2>2, <3>1, <3>2, <3>4, <3>5, <3>6 DEF Stage, MayRetry, Running
      <3>7. CASE to = "seed"
        BY <2>1, <2>2, <3>1, <3>2, <3>3, <3>4, <3>5, <3>7 DEF Stage, Running
      <3>8. CASE to = "draining"
        BY <2>1, <2>2, <3>1, <3>2, <3>5, <3>8 DEF Stage, Running
      <3> QED
        BY <3>6, <3>7, <3>8
    <2>3. CASE q # r
      <3>1. /\ pc'[q] = pc[q] /\ file'[q] = file[q] /\ next'[q] = next[q]
            /\ tries'[q] = tries[q] /\ request'[q] = request[q] /\ late'[q] = late[q]
            /\ writing'[q] = writing[q] /\ job'[q] = job[q] /\ mixed'[q] = mixed[q]
            /\ (schema => schema') /\ table' = table
        BY <1>a, <2>3 DEF TypeOK, MayRetry, Go, db, local
      <3> QED
        BY <2>1, <3>1, Bystander
    <2> QED
      BY <2>2, <2>3
  <1>4. HistoryReadable'
    BY <1>a DEF HistoryReadable, TypeOK, MayRetry, Go, db, local
  <1> QED
    BY <1>1, <1>2, <1>3, <1>4 DEF IInv

\* The advisory lock goes to one session ...
LEMMA LockIInv ==
  ASSUME IInv, NEW r \in Replicas, Lock(r)
  PROVE  IInv'
  <1>a. TypeOK /\ AppliesAlone /\ HistoryReadable /\ \A q \in Replicas : Stage(q)
    BY DEF IInv
  <1>1. TypeOK'
    <2>1. (exists \in BOOLEAN)' /\ (schema \in BOOLEAN)' /\ (lock \in Replicas \cup {None})'
      BY <1>a, Parameters DEF TypeOK, Lock, LockFree, Go, local
    <2>2. (table \in [Contracts -> Row \cup {None}])' /\ (issued \subseteq Contracts)'
      BY <1>a, Parameters DEF TypeOK, Lock, LockFree, Go, local
    <2>3. (pc \in [Replicas -> {"down"} \cup Booting \cup Running])'
      BY <1>a, Parameters DEF TypeOK, Lock, LockFree, Go, local, Booting, Running
    <2>4. (file \in [Replicas -> Files \cup {None}])' /\ (next \in [Replicas -> Nat \ {0}])'
      BY <1>a, Parameters DEF TypeOK, Lock, LockFree, Go, local
    <2>5. (tries \in [Replicas -> 0..createAttempts])'
      BY <1>a, Parameters DEF TypeOK, Lock, LockFree, Go, local
    <2>6. (job \in [Replicas -> [Jobs -> {"idle", "running", "querying", "gone"}]])' /\ (request \in [Replicas -> Contracts \cup {None}])'
      BY <1>a, Parameters DEF TypeOK, Lock, LockFree, Go, local
    <2>7. (writing \in [Replicas -> BOOLEAN])' /\ (late \in [Replicas -> BOOLEAN])' /\ (mixed \in [Replicas -> BOOLEAN])'
      BY <1>a, Parameters DEF TypeOK, Lock, LockFree, Go, local
    <2>8. (boots \in 0..MaxBoots)'
      BY <1>a, Parameters DEF TypeOK, Lock, LockFree, Go, local
    <2> QED
      BY <2>1, <2>2, <2>3, <2>4, <2>5, <2>6, <2>7, <2>8 DEF TypeOK
  <1>2. AppliesAlone'
    BY <1>a, Parameters DEF AppliesAlone, TypeOK, Lock, LockFree, Go, local
  <1>3. ASSUME NEW q \in Replicas PROVE Stage(q)'
    <2>1. Stage(q)
      BY <1>a
    <2>2. CASE q = r
      BY <1>a, <2>1, <2>2 DEF Stage, TypeOK, Lock, LockFree, Go, local, Running
    <2>3. CASE q # r
      <3>1. /\ pc'[q] = pc[q] /\ file'[q] = file[q] /\ next'[q] = next[q]
            /\ tries'[q] = tries[q] /\ request'[q] = request[q] /\ late'[q] = late[q]
            /\ writing'[q] = writing[q] /\ job'[q] = job[q] /\ mixed'[q] = mixed[q]
            /\ (schema => schema') /\ table' = table
        BY <1>a, <2>3 DEF TypeOK, Lock, LockFree, Go, local
      <3> QED
        BY <2>1, <3>1, Bystander
    <2> QED
      BY <2>2, <2>3
  <1>4. HistoryReadable'
    BY <1>a DEF HistoryReadable, TypeOK, Lock, LockFree, Go, local
  <1> QED
    BY <1>1, <1>2, <1>3, <1>4 DEF IInv

\* ... which applies the schema ...
LEMMA ApplyIInv ==
  ASSUME IInv, NEW r \in Replicas, Apply(r)
  PROVE  IInv'
  <1>a. TypeOK /\ AppliesAlone /\ HistoryReadable /\ \A q \in Replicas : Stage(q)
    BY DEF IInv
  <1>1. TypeOK'
    <2>1. (exists \in BOOLEAN)' /\ (schema \in BOOLEAN)' /\ (lock \in Replicas \cup {None})'
      BY <1>a, Parameters DEF TypeOK, Apply, Go, local
    <2>2. (table \in [Contracts -> Row \cup {None}])' /\ (issued \subseteq Contracts)'
      BY <1>a, Parameters DEF TypeOK, Apply, Go, local
    <2>3. (pc \in [Replicas -> {"down"} \cup Booting \cup Running])'
      BY <1>a, Parameters DEF TypeOK, Apply, Go, local, Booting, Running
    <2>4. (file \in [Replicas -> Files \cup {None}])' /\ (next \in [Replicas -> Nat \ {0}])'
      BY <1>a, Parameters DEF TypeOK, Apply, Go, local
    <2>5. (tries \in [Replicas -> 0..createAttempts])'
      BY <1>a, Parameters DEF TypeOK, Apply, Go, local
    <2>6. (job \in [Replicas -> [Jobs -> {"idle", "running", "querying", "gone"}]])' /\ (request \in [Replicas -> Contracts \cup {None}])'
      BY <1>a, Parameters DEF TypeOK, Apply, Go, local
    <2>7. (writing \in [Replicas -> BOOLEAN])' /\ (late \in [Replicas -> BOOLEAN])' /\ (mixed \in [Replicas -> BOOLEAN])'
      BY <1>a, Parameters DEF TypeOK, Apply, Go, local
    <2>8. (boots \in 0..MaxBoots)'
      BY <1>a, Parameters DEF TypeOK, Apply, Go, local
    <2> QED
      BY <2>1, <2>2, <2>3, <2>4, <2>5, <2>6, <2>7, <2>8 DEF TypeOK
  <1>2. AppliesAlone'
    BY <1>a, Parameters DEF AppliesAlone, TypeOK, Apply, Go, local
  <1>3. ASSUME NEW q \in Replicas PROVE Stage(q)'
    <2>1. Stage(q)
      BY <1>a
    <2>2. CASE q = r
      BY <1>a, <2>1, <2>2 DEF Stage, TypeOK, Apply, Go, local, Running
    <2>3. CASE q # r
      <3>1. /\ pc'[q] = pc[q] /\ file'[q] = file[q] /\ next'[q] = next[q]
            /\ tries'[q] = tries[q] /\ request'[q] = request[q] /\ late'[q] = late[q]
            /\ writing'[q] = writing[q] /\ job'[q] = job[q] /\ mixed'[q] = mixed[q]
            /\ (schema => schema') /\ table' = table
        BY <1>a, <2>3 DEF TypeOK, Apply, Go, local
      <3> QED
        BY <2>1, <3>1, Bystander
    <2> QED
      BY <2>2, <2>3
  <1>4. HistoryReadable'
    BY <1>a DEF HistoryReadable, TypeOK, Apply, Go, local
  <1> QED
    BY <1>1, <1>2, <1>3, <1>4 DEF IInv

\* ... and gives the lock back.
LEMMA UnlockIInv ==
  ASSUME IInv, NEW r \in Replicas, Unlock(r)
  PROVE  IInv'
  <1>a. TypeOK /\ AppliesAlone /\ HistoryReadable /\ \A q \in Replicas : Stage(q)
    BY DEF IInv
  <1>1. TypeOK'
    <2>1. (exists \in BOOLEAN)' /\ (schema \in BOOLEAN)' /\ (lock \in Replicas \cup {None})'
      BY <1>a, Parameters DEF TypeOK, Unlock, Released, Go, local
    <2>2. (table \in [Contracts -> Row \cup {None}])' /\ (issued \subseteq Contracts)'
      BY <1>a, Parameters DEF TypeOK, Unlock, Released, Go, local
    <2>3. (pc \in [Replicas -> {"down"} \cup Booting \cup Running])'
      BY <1>a, Parameters DEF TypeOK, Unlock, Released, Go, local, Booting, Running
    <2>4. (file \in [Replicas -> Files \cup {None}])' /\ (next \in [Replicas -> Nat \ {0}])'
      BY <1>a, Parameters DEF TypeOK, Unlock, Released, Go, local
    <2>5. (tries \in [Replicas -> 0..createAttempts])'
      BY <1>a, Parameters DEF TypeOK, Unlock, Released, Go, local
    <2>6. (job \in [Replicas -> [Jobs -> {"idle", "running", "querying", "gone"}]])' /\ (request \in [Replicas -> Contracts \cup {None}])'
      BY <1>a, Parameters DEF TypeOK, Unlock, Released, Go, local
    <2>7. (writing \in [Replicas -> BOOLEAN])' /\ (late \in [Replicas -> BOOLEAN])' /\ (mixed \in [Replicas -> BOOLEAN])'
      BY <1>a, Parameters DEF TypeOK, Unlock, Released, Go, local
    <2>8. (boots \in 0..MaxBoots)'
      BY <1>a, Parameters DEF TypeOK, Unlock, Released, Go, local
    <2> QED
      BY <2>1, <2>2, <2>3, <2>4, <2>5, <2>6, <2>7, <2>8 DEF TypeOK
  <1>2. AppliesAlone'
    BY <1>a, Parameters DEF AppliesAlone, TypeOK, Unlock, Released, Go, local
  <1>3. ASSUME NEW q \in Replicas PROVE Stage(q)'
    <2>1. Stage(q)
      BY <1>a
    <2>2. CASE q = r
      <3>1. pc[r] = "unlock" /\ pc'[r] = "seed" /\ UNCHANGED <<file, next>>
        BY <1>a, <2>2 DEF TypeOK, Unlock, Go, local
      <3> QED
        BY <1>a, <2>1, <2>2, <3>1, Begins DEF Stage, TypeOK, Unlock, Released, Go, local, Running
    <2>3. CASE q # r
      <3>1. /\ pc'[q] = pc[q] /\ file'[q] = file[q] /\ next'[q] = next[q]
            /\ tries'[q] = tries[q] /\ request'[q] = request[q] /\ late'[q] = late[q]
            /\ writing'[q] = writing[q] /\ job'[q] = job[q] /\ mixed'[q] = mixed[q]
            /\ (schema => schema') /\ table' = table
        BY <1>a, <2>3 DEF TypeOK, Unlock, Released, Go, local
      <3> QED
        BY <2>1, <3>1, Bystander
    <2> QED
      BY <2>2, <2>3
  <1>4. HistoryReadable'
    BY <1>a DEF HistoryReadable, TypeOK, Unlock, Released, Go, local
  <1> QED
    BY <1>1, <1>2, <1>3, <1>4 DEF IInv

\* The jobs are started.
LEMMA StartIInv ==
  ASSUME IInv, NEW r \in Replicas, Start(r)
  PROVE  IInv'
  <1>a. TypeOK /\ AppliesAlone /\ HistoryReadable /\ \A q \in Replicas : Stage(q)
    BY DEF IInv
  <1>1. TypeOK'
    <2>1. (exists \in BOOLEAN)' /\ (schema \in BOOLEAN)' /\ (lock \in Replicas \cup {None})'
      BY <1>a, Parameters DEF TypeOK, Start, Go, db
    <2>2. (table \in [Contracts -> Row \cup {None}])' /\ (issued \subseteq Contracts)'
      BY <1>a, Parameters DEF TypeOK, Start, Go, db
    <2>3. (pc \in [Replicas -> {"down"} \cup Booting \cup Running])'
      BY <1>a, Parameters DEF TypeOK, Start, Go, db, Booting, Running
    <2>4. (file \in [Replicas -> Files \cup {None}])' /\ (next \in [Replicas -> Nat \ {0}])'
      BY <1>a, Parameters DEF TypeOK, Start, Go, db
    <2>5. (tries \in [Replicas -> 0..createAttempts])'
      BY <1>a, Parameters DEF TypeOK, Start, Go, db
    <2>6. (job \in [Replicas -> [Jobs -> {"idle", "running", "querying", "gone"}]])' /\ (request \in [Replicas -> Contracts \cup {None}])'
      BY <1>a, Parameters DEF TypeOK, Start, Go, db
    <2>7. (writing \in [Replicas -> BOOLEAN])' /\ (late \in [Replicas -> BOOLEAN])' /\ (mixed \in [Replicas -> BOOLEAN])'
      BY <1>a, Parameters DEF TypeOK, Start, Go, db
    <2>8. (boots \in 0..MaxBoots)'
      BY <1>a, Parameters DEF TypeOK, Start, Go, db
    <2> QED
      BY <2>1, <2>2, <2>3, <2>4, <2>5, <2>6, <2>7, <2>8 DEF TypeOK
  <1>2. AppliesAlone'
    BY <1>a, Parameters DEF AppliesAlone, TypeOK, Start, Go, db
  <1>3. ASSUME NEW q \in Replicas PROVE Stage(q)'
    <2>1. Stage(q)
      BY <1>a
    <2>2. CASE q = r
      BY <1>a, <2>1, <2>2 DEF Stage, TypeOK, Start, Enabled, Go, db, Running
    <2>3. CASE q # r
      <3>1. /\ pc'[q] = pc[q] /\ file'[q] = file[q] /\ next'[q] = next[q]
            /\ tries'[q] = tries[q] /\ request'[q] = request[q] /\ late'[q] = late[q]
            /\ writing'[q] = writing[q] /\ job'[q] = job[q] /\ mixed'[q] = mixed[q]
            /\ (schema => schema') /\ table' = table
        BY <1>a, <2>3 DEF TypeOK, Start, Go, db
      <3> QED
        BY <2>1, <3>1, Bystander
    <2> QED
      BY <2>2, <2>3
  <1>4. HistoryReadable'
    BY <1>a DEF HistoryReadable, TypeOK, Start, Go, db
  <1> QED
    BY <1>1, <1>2, <1>3, <1>4 DEF IInv

\* A request resolves an enabled asset ...
LEMMA ArriveIInv ==
  ASSUME IInv, NEW r \in Replicas, Arrive(r)
  PROVE  IInv'
  <1>a. TypeOK /\ AppliesAlone /\ HistoryReadable /\ \A q \in Replicas : Stage(q)
    BY DEF IInv
  <1>1. TypeOK'
    <2>1. (exists \in BOOLEAN)' /\ (schema \in BOOLEAN)' /\ (lock \in Replicas \cup {None})'
      BY <1>a, Parameters DEF TypeOK, Arrive, db
    <2>2. (table \in [Contracts -> Row \cup {None}])' /\ (issued \subseteq Contracts)'
      BY <1>a, Parameters DEF TypeOK, Arrive, db
    <2>3. (pc \in [Replicas -> {"down"} \cup Booting \cup Running])'
      BY <1>a, Parameters DEF TypeOK, Arrive, db, Booting, Running
    <2>4. (file \in [Replicas -> Files \cup {None}])' /\ (next \in [Replicas -> Nat \ {0}])'
      BY <1>a, Parameters DEF TypeOK, Arrive, db
    <2>5. (tries \in [Replicas -> 0..createAttempts])'
      BY <1>a, Parameters DEF TypeOK, Arrive, db
    <2>6. (job \in [Replicas -> [Jobs -> {"idle", "running", "querying", "gone"}]])' /\ (request \in [Replicas -> Contracts \cup {None}])'
      BY <1>a, Parameters DEF TypeOK, Arrive, db
    <2>7. (writing \in [Replicas -> BOOLEAN])' /\ (late \in [Replicas -> BOOLEAN])' /\ (mixed \in [Replicas -> BOOLEAN])'
      BY <1>a, Parameters DEF TypeOK, Arrive, db
    <2>8. (boots \in 0..MaxBoots)'
      BY <1>a, Parameters DEF TypeOK, Arrive, db
    <2> QED
      BY <2>1, <2>2, <2>3, <2>4, <2>5, <2>6, <2>7, <2>8 DEF TypeOK
  <1>2. AppliesAlone'
    BY <1>a, Parameters DEF AppliesAlone, TypeOK, Arrive, db
  <1>3. ASSUME NEW q \in Replicas PROVE Stage(q)'
    <2>1. Stage(q)
      BY <1>a
    <2>2. CASE q = r
      BY <1>a, <2>1, <2>2 DEF Stage, TypeOK, Arrive, Enabled, db, Running
    <2>3. CASE q # r
      <3>1. /\ pc'[q] = pc[q] /\ file'[q] = file[q] /\ next'[q] = next[q]
            /\ tries'[q] = tries[q] /\ request'[q] = request[q] /\ late'[q] = late[q]
            /\ writing'[q] = writing[q] /\ job'[q] = job[q] /\ mixed'[q] = mixed[q]
            /\ (schema => schema') /\ table' = table
        BY <1>a, <2>3 DEF TypeOK, Arrive, db
      <3> QED
        BY <2>1, <3>1, Bystander
    <2> QED
      BY <2>2, <2>3
  <1>4. HistoryReadable'
    BY <1>a DEF HistoryReadable, TypeOK, Arrive, db
  <1> QED
    BY <1>1, <1>2, <1>3, <1>4 DEF IInv

\* ... starts to write the invoice that refers to it ...
LEMMA WriteIInv ==
  ASSUME IInv, NEW r \in Replicas, Write(r)
  PROVE  IInv'
  <1>a. TypeOK /\ AppliesAlone /\ HistoryReadable /\ \A q \in Replicas : Stage(q)
    BY DEF IInv
  <1>1. TypeOK'
    <2>1. (exists \in BOOLEAN)' /\ (schema \in BOOLEAN)' /\ (lock \in Replicas \cup {None})'
      BY <1>a, Parameters DEF TypeOK, Write, db
    <2>2. (table \in [Contracts -> Row \cup {None}])' /\ (issued \subseteq Contracts)'
      BY <1>a, Parameters DEF TypeOK, Write, db
    <2>3. (pc \in [Replicas -> {"down"} \cup Booting \cup Running])'
      BY <1>a, Parameters DEF TypeOK, Write, db, Booting, Running
    <2>4. (file \in [Replicas -> Files \cup {None}])' /\ (next \in [Replicas -> Nat \ {0}])'
      BY <1>a, Parameters DEF TypeOK, Write, db
    <2>5. (tries \in [Replicas -> 0..createAttempts])'
      BY <1>a, Parameters DEF TypeOK, Write, db
    <2>6. (job \in [Replicas -> [Jobs -> {"idle", "running", "querying", "gone"}]])' /\ (request \in [Replicas -> Contracts \cup {None}])'
      BY <1>a, Parameters DEF TypeOK, Write, db
    <2>7. (writing \in [Replicas -> BOOLEAN])' /\ (late \in [Replicas -> BOOLEAN])' /\ (mixed \in [Replicas -> BOOLEAN])'
      BY <1>a, Parameters DEF TypeOK, Write, db
    <2>8. (boots \in 0..MaxBoots)'
      BY <1>a, Parameters DEF TypeOK, Write, db
    <2> QED
      BY <2>1, <2>2, <2>3, <2>4, <2>5, <2>6, <2>7, <2>8 DEF TypeOK
  <1>2. AppliesAlone'
    BY <1>a, Parameters DEF AppliesAlone, TypeOK, Write, db
  <1>3. ASSUME NEW q \in Replicas PROVE Stage(q)'
    <2>1. Stage(q)
      BY <1>a
    <2>2. CASE q = r
      BY <1>a, <2>1, <2>2 DEF Stage, TypeOK, Write, db, Enabled, Running
    <2>3. CASE q # r
      <3>1. /\ pc'[q] = pc[q] /\ file'[q] = file[q] /\ next'[q] = next[q]
            /\ tries'[q] = tries[q] /\ request'[q] = request[q] /\ late'[q] = late[q]
            /\ writing'[q] = writing[q] /\ job'[q] = job[q] /\ mixed'[q] = mixed[q]
            /\ (schema => schema') /\ table' = table
        BY <1>a, <2>3 DEF TypeOK, Write, db
      <3> QED
        BY <2>1, <3>1, Bystander
    <2> QED
      BY <2>2, <2>3
  <1>4. HistoryReadable'
    BY <1>a DEF HistoryReadable, TypeOK, Write, db
  <1> QED
    BY <1>1, <1>2, <1>3, <1>4 DEF IInv

\* ... has written it, or failed to ...
LEMMA AnswerIInv ==
  ASSUME IInv, NEW r \in Replicas, Answer(r)
  PROVE  IInv'
  <1>a. TypeOK /\ AppliesAlone /\ HistoryReadable /\ \A q \in Replicas : Stage(q)
    BY DEF IInv
  <1>1. TypeOK'
    <2>1. (exists \in BOOLEAN)' /\ (schema \in BOOLEAN)' /\ (lock \in Replicas \cup {None})'
      BY <1>a, Parameters DEF TypeOK, Answer, Stage
    <2>2. (table \in [Contracts -> Row \cup {None}])' /\ (issued \subseteq Contracts)'
      BY <1>a, Parameters DEF TypeOK, Answer, Stage
    <2>3. (pc \in [Replicas -> {"down"} \cup Booting \cup Running])'
      BY <1>a, Parameters DEF TypeOK, Answer, Stage, Booting, Running
    <2>4. (file \in [Replicas -> Files \cup {None}])' /\ (next \in [Replicas -> Nat \ {0}])'
      BY <1>a, Parameters DEF TypeOK, Answer, Stage
    <2>5. (tries \in [Replicas -> 0..createAttempts])'
      BY <1>a, Parameters DEF TypeOK, Answer, Stage
    <2>6. (job \in [Replicas -> [Jobs -> {"idle", "running", "querying", "gone"}]])' /\ (request \in [Replicas -> Contracts \cup {None}])'
      BY <1>a, Parameters DEF TypeOK, Answer, Stage
    <2>7. (writing \in [Replicas -> BOOLEAN])' /\ (late \in [Replicas -> BOOLEAN])' /\ (mixed \in [Replicas -> BOOLEAN])'
      BY <1>a, Parameters DEF TypeOK, Answer, Stage
    <2>8. (boots \in 0..MaxBoots)'
      BY <1>a, Parameters DEF TypeOK, Answer, Stage
    <2> QED
      BY <2>1, <2>2, <2>3, <2>4, <2>5, <2>6, <2>7, <2>8 DEF TypeOK
  <1>2. AppliesAlone'
    BY <1>a, Parameters DEF AppliesAlone, TypeOK, Answer, Stage
  <1>3. ASSUME NEW q \in Replicas PROVE Stage(q)'
    <2>1. Stage(q)
      BY <1>a
    <2>2. CASE q = r
      BY <1>a, <2>1, <2>2 DEF Stage, TypeOK, Answer, Enabled, Running
    <2>3. CASE q # r
      <3>1. /\ pc'[q] = pc[q] /\ file'[q] = file[q] /\ next'[q] = next[q]
            /\ tries'[q] = tries[q] /\ request'[q] = request[q] /\ late'[q] = late[q]
            /\ writing'[q] = writing[q] /\ job'[q] = job[q] /\ mixed'[q] = mixed[q]
            /\ (schema => schema') /\ table' = table
        BY <1>a, <2>3 DEF TypeOK, Answer, Stage
      <3> QED
        BY <2>1, <3>1, Bystander
    <2> QED
      BY <2>2, <2>3
  <1>4. HistoryReadable'
    BY <1>a DEF HistoryReadable, TypeOK, Answer, Stage
  <1> QED
    BY <1>1, <1>2, <1>3, <1>4 DEF IInv

\* ... or ends before it wrote one.
LEMMA RefuseIInv ==
  ASSUME IInv, NEW r \in Replicas, Refuse(r)
  PROVE  IInv'
  <1>a. TypeOK /\ AppliesAlone /\ HistoryReadable /\ \A q \in Replicas : Stage(q)
    BY DEF IInv
  <1>1. TypeOK'
    <2>1. (exists \in BOOLEAN)' /\ (schema \in BOOLEAN)' /\ (lock \in Replicas \cup {None})'
      BY <1>a, Parameters DEF TypeOK, Refuse, db
    <2>2. (table \in [Contracts -> Row \cup {None}])' /\ (issued \subseteq Contracts)'
      BY <1>a, Parameters DEF TypeOK, Refuse, db
    <2>3. (pc \in [Replicas -> {"down"} \cup Booting \cup Running])'
      BY <1>a, Parameters DEF TypeOK, Refuse, db, Booting, Running
    <2>4. (file \in [Replicas -> Files \cup {None}])' /\ (next \in [Replicas -> Nat \ {0}])'
      BY <1>a, Parameters DEF TypeOK, Refuse, db
    <2>5. (tries \in [Replicas -> 0..createAttempts])'
      BY <1>a, Parameters DEF TypeOK, Refuse, db
    <2>6. (job \in [Replicas -> [Jobs -> {"idle", "running", "querying", "gone"}]])' /\ (request \in [Replicas -> Contracts \cup {None}])'
      BY <1>a, Parameters DEF TypeOK, Refuse, db
    <2>7. (writing \in [Replicas -> BOOLEAN])' /\ (late \in [Replicas -> BOOLEAN])' /\ (mixed \in [Replicas -> BOOLEAN])'
      BY <1>a, Parameters DEF TypeOK, Refuse, db
    <2>8. (boots \in 0..MaxBoots)'
      BY <1>a, Parameters DEF TypeOK, Refuse, db
    <2> QED
      BY <2>1, <2>2, <2>3, <2>4, <2>5, <2>6, <2>7, <2>8 DEF TypeOK
  <1>2. AppliesAlone'
    BY <1>a, Parameters DEF AppliesAlone, TypeOK, Refuse, db
  <1>3. ASSUME NEW q \in Replicas PROVE Stage(q)'
    <2>1. Stage(q)
      BY <1>a
    <2>2. CASE q = r
      BY <1>a, <2>1, <2>2 DEF Stage, TypeOK, Refuse, db, Enabled, Running
    <2>3. CASE q # r
      <3>1. /\ pc'[q] = pc[q] /\ file'[q] = file[q] /\ next'[q] = next[q]
            /\ tries'[q] = tries[q] /\ request'[q] = request[q] /\ late'[q] = late[q]
            /\ writing'[q] = writing[q] /\ job'[q] = job[q] /\ mixed'[q] = mixed[q]
            /\ (schema => schema') /\ table' = table
        BY <1>a, <2>3 DEF TypeOK, Refuse, db
      <3> QED
        BY <2>1, <3>1, Bystander
    <2> QED
      BY <2>2, <2>3
  <1>4. HistoryReadable'
    BY <1>a DEF HistoryReadable, TypeOK, Refuse, db
  <1> QED
    BY <1>1, <1>2, <1>3, <1>4 DEF IInv

\* A job that has not left runs, waits or leaves.
LEMMA JobIInv ==
  ASSUME IInv, NEW r \in Replicas, NEW j \in Jobs, NEW x \in {"idle", "running", "querying", "gone"},
         job[r][j] # "gone", job' = [job EXCEPT ![r][j] = x],
         UNCHANGED <<db, pc, file, next, tries, request, writing, late, mixed, boots>>
  PROVE  IInv'
  <1>a. TypeOK /\ AppliesAlone /\ HistoryReadable /\ \A q \in Replicas : Stage(q)
    BY DEF IInv
  <1>1. TypeOK'
    <2>1. (exists \in BOOLEAN)' /\ (schema \in BOOLEAN)' /\ (lock \in Replicas \cup {None})'
      BY <1>a, Parameters DEF TypeOK, db
    <2>2. (table \in [Contracts -> Row \cup {None}])' /\ (issued \subseteq Contracts)'
      BY <1>a, Parameters DEF TypeOK, db
    <2>3. (pc \in [Replicas -> {"down"} \cup Booting \cup Running])'
      BY <1>a, Parameters DEF TypeOK, db, Booting, Running
    <2>4. (file \in [Replicas -> Files \cup {None}])' /\ (next \in [Replicas -> Nat \ {0}])'
      BY <1>a, Parameters DEF TypeOK, db
    <2>5. (tries \in [Replicas -> 0..createAttempts])'
      BY <1>a, Parameters DEF TypeOK, db
    <2>6. (job \in [Replicas -> [Jobs -> {"idle", "running", "querying", "gone"}]])' /\ (request \in [Replicas -> Contracts \cup {None}])'
      BY <1>a, Parameters DEF TypeOK, db
    <2>7. (writing \in [Replicas -> BOOLEAN])' /\ (late \in [Replicas -> BOOLEAN])' /\ (mixed \in [Replicas -> BOOLEAN])'
      BY <1>a, Parameters DEF TypeOK, db
    <2>8. (boots \in 0..MaxBoots)'
      BY <1>a, Parameters DEF TypeOK, db
    <2> QED
      BY <2>1, <2>2, <2>3, <2>4, <2>5, <2>6, <2>7, <2>8 DEF TypeOK
  <1>2. AppliesAlone'
    BY <1>a, Parameters DEF AppliesAlone, TypeOK, db
  <1>3. ASSUME NEW q \in Replicas PROVE Stage(q)'
    <2>1. Stage(q)
      BY <1>a
    <2>2. CASE q = r
      <3>1. /\ pc'[q] = pc[q] /\ file'[q] = file[q] /\ next'[q] = next[q]
            /\ tries'[q] = tries[q] /\ request'[q] = request[q] /\ late'[q] = late[q]
            /\ mixed'[q] = mixed[q] /\ schema' = schema /\ table' = table
            /\ writing'[q] = writing[q]
        BY DEF db
      <3>2. Seeded(q) => Seeded(q)'
        BY <3>1 DEF Seeded
      <3>3. ~(pc[q] = "closing" /\ ~late[q])
        BY <2>1, <2>2 DEF Stage
      <3> QED
        BY <2>1, <3>1, <3>2, <3>3 DEF Stage
    <2>3. CASE q # r
      <3>1. /\ pc'[q] = pc[q] /\ file'[q] = file[q] /\ next'[q] = next[q]
            /\ tries'[q] = tries[q] /\ request'[q] = request[q] /\ late'[q] = late[q]
            /\ writing'[q] = writing[q] /\ job'[q] = job[q] /\ mixed'[q] = mixed[q]
            /\ (schema => schema') /\ table' = table
        BY <1>a, <2>3 DEF TypeOK, db
      <3> QED
        BY <2>1, <3>1, Bystander
    <2> QED
      BY <2>2, <2>3
  <1>4. HistoryReadable'
    BY <1>a DEF HistoryReadable, TypeOK, db
  <1> QED
    BY <1>1, <1>2, <1>3, <1>4 DEF IInv

\* The requests have drained, or the deadline passed.
LEMMA ShutdownIInv ==
  ASSUME IInv, NEW r \in Replicas, Shutdown(r)
  PROVE  IInv'
  <1>a. TypeOK /\ AppliesAlone /\ HistoryReadable /\ \A q \in Replicas : Stage(q)
    BY DEF IInv
  <1>1. TypeOK'
    <2>1. (exists \in BOOLEAN)' /\ (schema \in BOOLEAN)' /\ (lock \in Replicas \cup {None})'
      BY <1>a, Parameters DEF TypeOK, Shutdown, Advance, Go, db
    <2>2. (table \in [Contracts -> Row \cup {None}])' /\ (issued \subseteq Contracts)'
      BY <1>a, Parameters DEF TypeOK, Shutdown, Advance, Go, db
    <2>3. (pc \in [Replicas -> {"down"} \cup Booting \cup Running])'
      BY <1>a, Parameters DEF TypeOK, Shutdown, Advance, Go, db, Booting, Running
    <2>4. (file \in [Replicas -> Files \cup {None}])' /\ (next \in [Replicas -> Nat \ {0}])'
      BY <1>a, Parameters DEF TypeOK, Shutdown, Advance, Go, db
    <2>5. (tries \in [Replicas -> 0..createAttempts])'
      BY <1>a, Parameters DEF TypeOK, Shutdown, Advance, Go, db
    <2>6. (job \in [Replicas -> [Jobs -> {"idle", "running", "querying", "gone"}]])' /\ (request \in [Replicas -> Contracts \cup {None}])'
      BY <1>a, Parameters DEF TypeOK, Shutdown, Advance, Go, db
    <2>7. (writing \in [Replicas -> BOOLEAN])' /\ (late \in [Replicas -> BOOLEAN])' /\ (mixed \in [Replicas -> BOOLEAN])'
      BY <1>a, Parameters DEF TypeOK, Shutdown, Advance, Go, db
    <2>8. (boots \in 0..MaxBoots)'
      BY <1>a, Parameters DEF TypeOK, Shutdown, Advance, Go, db
    <2> QED
      BY <2>1, <2>2, <2>3, <2>4, <2>5, <2>6, <2>7, <2>8 DEF TypeOK
  <1>2. AppliesAlone'
    BY <1>a, Parameters DEF AppliesAlone, TypeOK, Shutdown, Advance, Go, db
  <1>3. ASSUME NEW q \in Replicas PROVE Stage(q)'
    <2>1. Stage(q)
      BY <1>a
    <2>2. CASE q = r
      BY <1>a, <2>1, <2>2 DEF Stage, TypeOK, Shutdown, Advance, Go, db, Running
    <2>3. CASE q # r
      <3>1. /\ pc'[q] = pc[q] /\ file'[q] = file[q] /\ next'[q] = next[q]
            /\ tries'[q] = tries[q] /\ request'[q] = request[q] /\ late'[q] = late[q]
            /\ writing'[q] = writing[q] /\ job'[q] = job[q] /\ mixed'[q] = mixed[q]
            /\ (schema => schema') /\ table' = table
        BY <1>a, <2>3 DEF TypeOK, Shutdown, Advance, Go, db
      <3> QED
        BY <2>1, <3>1, Bystander
    <2> QED
      BY <2>2, <2>3
  <1>4. HistoryReadable'
    BY <1>a DEF HistoryReadable, TypeOK, Shutdown, Advance, Go, db
  <1> QED
    BY <1>1, <1>2, <1>3, <1>4 DEF IInv

\* The jobs have left, or the deadline passed.
LEMMA StopCronIInv ==
  ASSUME IInv, NEW r \in Replicas, StopCron(r)
  PROVE  IInv'
  <1>a. TypeOK /\ AppliesAlone /\ HistoryReadable /\ \A q \in Replicas : Stage(q)
    BY DEF IInv
  <1>1. TypeOK'
    <2>1. (exists \in BOOLEAN)' /\ (schema \in BOOLEAN)' /\ (lock \in Replicas \cup {None})'
      BY <1>a, Parameters DEF TypeOK, StopCron, Advance, Go, db
    <2>2. (table \in [Contracts -> Row \cup {None}])' /\ (issued \subseteq Contracts)'
      BY <1>a, Parameters DEF TypeOK, StopCron, Advance, Go, db
    <2>3. (pc \in [Replicas -> {"down"} \cup Booting \cup Running])'
      BY <1>a, Parameters DEF TypeOK, StopCron, Advance, Go, db, Booting, Running
    <2>4. (file \in [Replicas -> Files \cup {None}])' /\ (next \in [Replicas -> Nat \ {0}])'
      BY <1>a, Parameters DEF TypeOK, StopCron, Advance, Go, db
    <2>5. (tries \in [Replicas -> 0..createAttempts])'
      BY <1>a, Parameters DEF TypeOK, StopCron, Advance, Go, db
    <2>6. (job \in [Replicas -> [Jobs -> {"idle", "running", "querying", "gone"}]])' /\ (request \in [Replicas -> Contracts \cup {None}])'
      BY <1>a, Parameters DEF TypeOK, StopCron, Advance, Go, db
    <2>7. (writing \in [Replicas -> BOOLEAN])' /\ (late \in [Replicas -> BOOLEAN])' /\ (mixed \in [Replicas -> BOOLEAN])'
      BY <1>a, Parameters DEF TypeOK, StopCron, Advance, Go, db
    <2>8. (boots \in 0..MaxBoots)'
      BY <1>a, Parameters DEF TypeOK, StopCron, Advance, Go, db
    <2> QED
      BY <2>1, <2>2, <2>3, <2>4, <2>5, <2>6, <2>7, <2>8 DEF TypeOK
  <1>2. AppliesAlone'
    BY <1>a, Parameters DEF AppliesAlone, TypeOK, StopCron, Advance, Go, db
  <1>3. ASSUME NEW q \in Replicas PROVE Stage(q)'
    <2>1. Stage(q)
      BY <1>a
    <2>2. CASE q = r
      BY <1>a, <2>1, <2>2 DEF Stage, TypeOK, StopCron, Advance, Left, Go, db, Running
    <2>3. CASE q # r
      <3>1. /\ pc'[q] = pc[q] /\ file'[q] = file[q] /\ next'[q] = next[q]
            /\ tries'[q] = tries[q] /\ request'[q] = request[q] /\ late'[q] = late[q]
            /\ writing'[q] = writing[q] /\ job'[q] = job[q] /\ mixed'[q] = mixed[q]
            /\ (schema => schema') /\ table' = table
        BY <1>a, <2>3 DEF TypeOK, StopCron, Advance, Go, db
      <3> QED
        BY <2>1, <3>1, Bystander
    <2> QED
      BY <2>2, <2>3
  <1>4. HistoryReadable'
    BY <1>a DEF HistoryReadable, TypeOK, StopCron, Advance, Go, db
  <1> QED
    BY <1>1, <1>2, <1>3, <1>4 DEF IInv

\* What a replica has written so far, in a file that lists no contract twice.
LEMMA FileFacts ==
  ASSUME IInv, NEW r \in Replicas, pc[r] \in {"seed", "disable"}
  PROVE  /\ file[r] \in Files /\ LoadConfig(file[r]) /\ Seeded(r)
         /\ \A i \in DOMAIN file[r].assets :
              /\ normaliseAddress(file[r].assets[i]) \in Contracts
              /\ file[r].assets[i].step \in Int
         /\ \A i, j \in DOMAIN file[r].assets : i # j =>
              normaliseAddress(file[r].assets[i]) # normaliseAddress(file[r].assets[j])
         /\ DOMAIN file[r].assets = 1..Len(file[r].assets) /\ Len(file[r].assets) \in Nat
         /\ Common \subseteq Configured(file[r])
  <1>1. file[r] \in Files /\ LoadConfig(file[r]) /\ Seeded(r)
    BY DEF IInv, Stage
  <1>2. file[r].assets \in Seq(Entry)
    BY <1>1, ServiceAssumption
  <1>3. DOMAIN file[r].assets = 1..Len(file[r].assets) /\ Len(file[r].assets) \in Nat
    BY <1>2
  <1>4. \A i \in DOMAIN file[r].assets : file[r].assets[i] \in Entry
    BY <1>2
  <1>5. \A e \in Entry : normaliseAddress(e) \in Contracts /\ e.step \in Int
    BY ServiceAssumption DEF Contracts
  <1>6. \A i, j \in DOMAIN file[r].assets : i # j =>
          normaliseAddress(file[r].assets[i]) # normaliseAddress(file[r].assets[j])
    BY <1>1 DEF LoadConfig
  <1>7. Common \subseteq Configured(file[r])
    BY <1>1 DEF Common
  <1> QED
    BY <1>1, <1>3, <1>4, <1>5, <1>6, <1>7

\* One entry is written: its row stands, and no other row changes.
LEMMA UpsertIInv ==
  ASSUME IInv, NEW r \in Replicas, pc[r] = "seed", schema,
         table' = Upserted(r), next' = [next EXCEPT ![r] = @ + 1],
         Go(r, IF next[r] = Len(file[r].assets) THEN "disable" ELSE "seed"),
         Mix(r, mixed[r]),
         UNCHANGED <<exists, schema, lock, issued, file, tries, job, request, writing, late, boots>>
  PROVE  IInv'
  <1> DEFINE e == file[r].assets[next[r]]
             c == normaliseAddress(e)
  <1>a. TypeOK /\ AppliesAlone /\ HistoryReadable /\ \A q \in Replicas : Stage(q)
    BY DEF IInv
  <1>b. next[r] \in DOMAIN file[r].assets /\ next[r] \in Nat \ {0}
    BY <1>a DEF Stage, TypeOK
  <1>c. c \in Contracts /\ e.step \in Int
    BY <1>b, FileFacts
  <1>d. /\ table'[c] = [step |-> e.step, enabled |-> TRUE]
        /\ \A d \in Contracts : d # c => table'[d] = table[d]
        /\ table' \in [Contracts -> Row \cup {None}]
    <2>1. table' = [table EXCEPT ![c] = [step |-> e.step, enabled |-> TRUE]]
      BY DEF Upserted, UpsertAsset
    <2>2. table \in [Contracts -> Row \cup {None}]
      BY <1>a DEF TypeOK
    <2>3. [step |-> e.step, enabled |-> TRUE] \in Row
      BY <1>c DEF Row
    <2> HIDE DEF e, c
    <2> QED
      BY <1>c, <2>1, <2>2, <2>3
  <1>e. \A d \in Contracts : table[d] # None => table'[d] # None
    <2>1. [step |-> e.step, enabled |-> TRUE] \in Row
      BY <1>c DEF Row
    <2> HIDE DEF e, c
    <2> QED
      BY <1>d, <2>1, Parameters
  <1>f. Enabled(table', c) /\ \A d \in Common : Enabled(table, d) => Enabled(table', d)
    <2>1. [step |-> e.step, enabled |-> TRUE] \in Row
      BY <1>c DEF Row
    <2>2. table'[c] # None /\ table'[c].enabled
      <3>1. [step |-> e.step, enabled |-> TRUE].enabled
        OBVIOUS
      <3> HIDE DEF e, c
      <3> QED
        BY <1>d, <2>1, <3>1, Parameters
    <2>3. ASSUME NEW d \in Common, Enabled(table, d) PROVE Enabled(table', d)
      <3>1. d \in Contracts
        BY DEF Common
      <3> HIDE DEF e, c
      <3> QED
        BY <1>d, <2>2, <2>3, <3>1 DEF Enabled
    <2> QED
      BY <2>2, <2>3 DEF Enabled
  <1>1. TypeOK'
    <2>1. (exists \in BOOLEAN)' /\ (schema \in BOOLEAN)' /\ (lock \in Replicas \cup {None})'
      BY <1>a, <1>b, <1>d, Parameters DEF TypeOK, Go
    <2>2. (table \in [Contracts -> Row \cup {None}])' /\ (issued \subseteq Contracts)'
      BY <1>a, <1>b, <1>d, Parameters DEF TypeOK, Go
    <2>3. (pc \in [Replicas -> {"down"} \cup Booting \cup Running])'
      BY <1>a, <1>b, <1>d, Parameters DEF TypeOK, Go, Booting, Running
    <2>4. (file \in [Replicas -> Files \cup {None}])' /\ (next \in [Replicas -> Nat \ {0}])'
      BY <1>a, <1>b, <1>d, Parameters DEF TypeOK, Go
    <2>5. (tries \in [Replicas -> 0..createAttempts])'
      BY <1>a, <1>b, <1>d, Parameters DEF TypeOK, Go
    <2>6. (job \in [Replicas -> [Jobs -> {"idle", "running", "querying", "gone"}]])' /\ (request \in [Replicas -> Contracts \cup {None}])'
      BY <1>a, <1>b, <1>d, Parameters DEF TypeOK, Go
    <2>7. (writing \in [Replicas -> BOOLEAN])' /\ (late \in [Replicas -> BOOLEAN])' /\ (mixed \in [Replicas -> BOOLEAN])'
      BY <1>a, <1>b, <1>d, Parameters DEF TypeOK, Go, Mix
    <2>8. (boots \in 0..MaxBoots)'
      BY <1>a, <1>b, <1>d, Parameters DEF TypeOK, Go
    <2> QED
      BY <2>1, <2>2, <2>3, <2>4, <2>5, <2>6, <2>7, <2>8 DEF TypeOK
  <1>2. AppliesAlone'
    BY <1>a, Parameters DEF AppliesAlone, TypeOK, Go
  <1>3. ASSUME NEW q \in Replicas PROVE Stage(q)'
    <2>1. Stage(q) /\ request[q] \in Contracts \cup {None}
      BY <1>a DEF TypeOK
    <2>2. CASE q = r
      <3>1. /\ file'[q] = file[r] /\ next'[q] = next[r] + 1 /\ schema' /\ request'[q] = None
            /\ mixed'[q] = mixed[r] /\ next[r] \in 1..Len(file[r].assets)
            /\ Len(file[r].assets) \in Nat /\ DOMAIN file[r].assets = 1..Len(file[r].assets)
        BY <1>a, <1>b, <2>1, <2>2, FileFacts DEF Stage, TypeOK, Mix, Running
      <3>2. \/ pc'[q] = "disable" /\ next[r] = Len(file[r].assets)
            \/ pc'[q] = "seed" /\ next[r] < Len(file[r].assets)
        BY <1>a, <2>2, <3>1 DEF TypeOK, Go
      <3>3. Seeded(q)'
        <4> SUFFICES ASSUME NEW i \in DOMAIN file[r].assets,
                            pc'[q] = "disable" \/ i < next[r] + 1
                     PROVE  LET d == normaliseAddress(file[r].assets[i]) IN
                            /\ d \in Common => Enabled(table', d)
                            /\ ~mixed[r] => table'[d] = [step |-> file[r].assets[i].step,
                                                         enabled |-> TRUE]
          BY <3>1, <2>2 DEF Seeded
        <4>1. CASE i = next[r]
          BY <4>1, <1>d, <1>f
        <4>2. CASE i < next[r]
          <5> DEFINE d == normaliseAddress(file[r].assets[i])
          <5>1. d # c /\ d \in Contracts
            BY <4>2, <1>b, FileFacts
          <5>2. /\ d \in Common => Enabled(table, d)
                /\ ~mixed[r] => table[d] = [step |-> file[r].assets[i].step, enabled |-> TRUE]
            BY <4>2, FileFacts DEF Seeded
          <5>3. table'[d] = table[d]
            BY <5>1, <1>d
          <5> QED
            BY <5>2, <5>3, <1>f
        <4> QED
          BY <4>1, <4>2, <3>1, <3>2
      <3> QED
        BY <2>1, <2>2, <3>1, <3>2, <3>3, FileFacts DEF Stage, Running
    <2>3. CASE q # r
      <3>1. /\ pc'[q] = pc[q] /\ file'[q] = file[q] /\ next'[q] = next[q]
            /\ tries'[q] = tries[q] /\ request'[q] = request[q] /\ late'[q] = late[q]
            /\ writing'[q] = writing[q] /\ job'[q] = job[q] /\ (schema => schema')
        BY <1>a, <2>3 DEF TypeOK, Go
      <3>2. ASSUME pc[q] \in {"seed", "disable"} PROVE Seeded(q)'
        <4> SUFFICES ASSUME NEW i \in DOMAIN file[q].assets, pc[q] = "disable" \/ i < next[q]
                     PROVE  LET d == normaliseAddress(file[q].assets[i]) IN
                            /\ d \in Common => Enabled(table', d)
                            /\ ~mixed'[q] => table'[d] = [step |-> file[q].assets[i].step,
                                                          enabled |-> TRUE]
          BY <3>1 DEF Seeded
        <4> DEFINE d == normaliseAddress(file[q].assets[i])
        <4>1. /\ d \in Common => Enabled(table, d)
              /\ ~mixed[q] => table[d] = [step |-> file[q].assets[i].step, enabled |-> TRUE]
          BY <3>2, FileFacts DEF Seeded
        <4>2. d \in Contracts /\ i \in Nat \ {0} /\ next[q] \in Nat
          BY <1>a, <3>2, FileFacts DEF TypeOK
        <4>3. ~mixed'[q] => ~mixed[q] /\ file[q] = file[r]
          BY <2>3, <3>2, <4>2 DEF Mix
        <4>4. CASE d # c
          BY <4>1, <4>2, <4>3, <4>4, <1>d, <1>f
        <4>5. CASE d = c
          <5>1. file[q] = file[r] => i = next[r]
            BY <4>5, <1>b, FileFacts
          <5> QED
            BY <4>1, <4>3, <4>5, <5>1, <1>d, <1>f
        <4> QED
          BY <4>4, <4>5
      <3>3. request[q] # None => table'[request[q]] # None
        BY <2>1, <1>e DEF Stage
      <3> QED
        BY <2>1, <3>1, <3>2, <3>3, <1>f, Others
    <2> QED
      BY <2>2, <2>3
  <1>4. HistoryReadable'
    BY <1>a, <1>e DEF HistoryReadable, TypeOK
  <1> QED
    BY <1>1, <1>2, <1>3, <1>4 DEF IInv

\* What switching off the other rows leaves: what is kept is as it was, the
\* rest is off, and no row is gone.
LEMMA DisableFacts ==
  ASSUME TypeOK, NEW keep \in SUBSET Contracts, table' = DisableAssetsNotIn(keep)
  PROVE  /\ table' \in [Contracts -> Row \cup {None}]
         /\ \A d \in Contracts : d \in keep => table'[d] = table[d]
         /\ \A d \in Contracts : d \notin keep => ~Enabled(table', d)
         /\ \A d \in Contracts : table[d] # None => table'[d] # None
  <1>1. table \in [Contracts -> Row \cup {None}]
    BY DEF TypeOK
  <1>2. ASSUME NEW d \in Contracts
        PROVE  /\ table'[d] \in Row \cup {None}
               /\ d \in keep => table'[d] = table[d]
               /\ d \notin keep => ~Enabled(table', d)
               /\ table[d] # None => table'[d] # None
    <2>1. table[d] \in Row \cup {None}
      BY <1>1
    <2>2. CASE Enabled(table, d) /\ d \notin keep
      <3>1. table[d] \in Row /\ table'[d] = [table[d] EXCEPT !.enabled = FALSE]
        BY <2>1, <2>2 DEF DisableAssetsNotIn, Enabled
      <3>2. table'[d] \in Row /\ ~table'[d].enabled
        BY <3>1 DEF Row
      <3> QED
        BY <2>2, <3>2, Parameters DEF Enabled
    <2>3. CASE ~(Enabled(table, d) /\ d \notin keep)
      <3>1. table'[d] = table[d]
        BY <2>3 DEF DisableAssetsNotIn
      <3> QED
        BY <2>1, <2>3, <3>1 DEF Enabled
    <2> QED
      BY <2>2, <2>3
  <1>3. table' = [d \in Contracts |-> table'[d]]
    BY DEF DisableAssetsNotIn
  <1> QED
    BY <1>2, <1>3

\* The rows outside the file are switched off; a replica that seeds the same
\* file, or an asset common to all, loses nothing by it.
LEMMA DisableIInv ==
  ASSUME IInv, NEW r \in Replicas, Disable(r)
  PROVE  IInv'
  <1> DEFINE keep == Configured(file[r])
  <1>a. TypeOK /\ AppliesAlone /\ HistoryReadable /\ \A q \in Replicas : Stage(q)
    BY DEF IInv
  <1>b. pc[r] = "disable" /\ file[r] \in Files /\ schema
    BY <1>a DEF Disable, Stage
  <1>c. keep \in SUBSET Contracts /\ Common \subseteq keep
    BY <1>b, FileFacts DEF Configured
  <1>d. /\ table' \in [Contracts -> Row \cup {None}]
        /\ \A d \in Contracts : d \in keep => table'[d] = table[d]
        /\ \A d \in Contracts : table[d] # None => table'[d] # None
    BY <1>a, <1>c, DisableFacts DEF Disable
  <1>e. \A d \in Common : Enabled(table, d) => Enabled(table', d)
    BY <1>c, <1>d DEF Enabled, Common
  <1>1. TypeOK'
    <2>1. (exists \in BOOLEAN)' /\ (schema \in BOOLEAN)' /\ (lock \in Replicas \cup {None})'
      BY <1>a, <1>d, Parameters DEF TypeOK, Go, Disable
    <2>2. (table \in [Contracts -> Row \cup {None}])' /\ (issued \subseteq Contracts)'
      BY <1>a, <1>d, Parameters DEF TypeOK, Go, Disable
    <2>3. (pc \in [Replicas -> {"down"} \cup Booting \cup Running])'
      BY <1>a, <1>d, Parameters DEF TypeOK, Go, Disable, Booting, Running
    <2>4. (file \in [Replicas -> Files \cup {None}])' /\ (next \in [Replicas -> Nat \ {0}])'
      BY <1>a, <1>d, Parameters DEF TypeOK, Go, Disable
    <2>5. (tries \in [Replicas -> 0..createAttempts])'
      BY <1>a, <1>d, Parameters DEF TypeOK, Go, Disable
    <2>6. (job \in [Replicas -> [Jobs -> {"idle", "running", "querying", "gone"}]])' /\ (request \in [Replicas -> Contracts \cup {None}])'
      BY <1>a, <1>d, Parameters DEF TypeOK, Go, Disable
    <2>7. (writing \in [Replicas -> BOOLEAN])' /\ (late \in [Replicas -> BOOLEAN])' /\ (mixed \in [Replicas -> BOOLEAN])'
      BY <1>a, <1>d, Parameters DEF TypeOK, Go, Disable, Mix
    <2>8. (boots \in 0..MaxBoots)'
      BY <1>a, <1>d, Parameters DEF TypeOK, Go, Disable
    <2> QED
      BY <2>1, <2>2, <2>3, <2>4, <2>5, <2>6, <2>7, <2>8 DEF TypeOK
  <1>2. AppliesAlone'
    BY <1>a, Parameters DEF AppliesAlone, TypeOK, Disable, Go
  <1>3. ASSUME NEW q \in Replicas PROVE Stage(q)'
    <2>1. Stage(q) /\ request[q] \in Contracts \cup {None}
      BY <1>a DEF TypeOK
    <2>2. CASE q = r
      <3>1. \A d \in Common : Enabled(table, d)
        <4> TAKE d \in Common
        <4>1. PICK i \in DOMAIN file[r].assets : d = normaliseAddress(file[r].assets[i])
          BY <1>c DEF Configured
        <4> QED
          BY <1>b, <4>1, FileFacts DEF Seeded
      <3>2. \A d \in Common : Enabled(table', d)
        BY <3>1, <1>e
      <3>3. /\ pc'[q] = "start" /\ file'[q] = file[r] /\ next'[q] = 1 /\ schema'
            /\ request'[q] = request[q] /\ late'[q] = late[q] /\ writing'[q] = writing[q] /\ job'[q] = job[q]
            /\ request[q] = None /\ ~writing[q]
        BY <1>a, <1>b, <2>1, <2>2 DEF Stage, TypeOK, Disable, Go, Running
      <3> QED
        BY <1>b, <3>2, <3>3, FileFacts DEF Stage, Running
    <2>3. CASE q # r
      <3>1. /\ pc'[q] = pc[q] /\ file'[q] = file[q] /\ next'[q] = next[q]
            /\ tries'[q] = tries[q] /\ request'[q] = request[q] /\ late'[q] = late[q]
            /\ writing'[q] = writing[q] /\ job'[q] = job[q] /\ (schema => schema')
        BY <1>a, <2>3 DEF TypeOK, Disable, Go
      <3>2. ASSUME pc[q] \in {"seed", "disable"} PROVE Seeded(q)'
        <4> SUFFICES ASSUME NEW i \in DOMAIN file[q].assets, pc[q] = "disable" \/ i < next[q]
                     PROVE  LET d == normaliseAddress(file[q].assets[i]) IN
                            /\ d \in Common => Enabled(table', d)
                            /\ ~mixed'[q] => table'[d] = [step |-> file[q].assets[i].step,
                                                          enabled |-> TRUE]
          BY <3>1 DEF Seeded
        <4> DEFINE d == normaliseAddress(file[q].assets[i])
        <4>1. /\ d \in Common => Enabled(table, d)
              /\ ~mixed[q] => table[d] = [step |-> file[q].assets[i].step, enabled |-> TRUE]
          BY <3>2, FileFacts DEF Seeded
        <4>2. d \in Contracts /\ i \in Nat \ {0} /\ next[q] \in Nat
          BY <1>a, <3>2, FileFacts DEF TypeOK
        <4>3. ~mixed'[q] => ~mixed[q] /\ file[q] = file[r]
          BY <2>3, <3>2, <4>2 DEF Mix, Disable
        <4>4. file[q] = file[r] => d \in keep
          BY DEF Configured
        <4>5. ~mixed'[q] => table'[d] = table[d]
          BY <4>2, <4>3, <4>4, <1>d
        <4> QED
          BY <4>1, <4>3, <4>5, <1>e
      <3>3. request[q] # None => table'[request[q]] # None
        BY <2>1, <1>d DEF Stage
      <3> QED
        BY <2>1, <3>1, <3>2, <3>3, <1>e, Others
    <2> QED
      BY <2>2, <2>3
  <1>4. HistoryReadable'
    BY <1>a, <1>d DEF HistoryReadable, TypeOK, Disable
  <1> QED
    BY <1>1, <1>2, <1>3, <1>4 DEF IInv

\* Every step of a replica keeps the invariant.
LEMMA StepIInv ==
  ASSUME IInv, [Next]_vars
  PROVE  IInv'
  <1>1. CASE UNCHANGED vars
    <2>1. UNCHANGED <<db, pc, local, boots>>
      BY <1>1 DEF vars
    <2> QED
      BY <2>1 DEF IInv, TypeOK, AppliesAlone, HistoryReadable, Stage, Seeded, db, local
  <1>2. ASSUME NEW r \in Replicas,
               \/ Boot(r) \/ BootStep(r) \/ Lock(r) \/ BootFails(r)
               \/ Arrive(r) \/ Write(r) \/ Answer(r) \/ Refuse(r)
               \/ Signal(r) \/ StopStep(r) \/ Crash(r)
               \/ \E j \in Jobs : \/ JobStarts(r, j) \/ JobEnds(r, j) \/ JobLeaves(r, j)
                                 \/ JobQueries(r, j) \/ JobAnswered(r, j)
        PROVE  IInv'
    <2>1. CASE Boot(r)
      BY <2>1, BootIInv
    <2>2. CASE Open(r)
      BY <2>2, LoadIInv, MoveIInv, ExitIInv DEF Open, Load
    <2>3. CASE CreateDatabase(r)
      BY <2>3, CreateIInv
    <2>4. CASE DatabaseExists(r)
      BY <2>4, MoveIInv, ExitIInv DEF DatabaseExists
    <2>5. CASE Reopen(r)
      BY <2>5, LoadIInv, ExitIInv DEF Reopen, Load
    <2>6. CASE Skip(r)
      BY <2>6, MoveIInv DEF Skip
    <2>7. CASE Lock(r)
      BY <2>7, LockIInv
    <2>8. CASE Apply(r)
      BY <2>8, ApplyIInv
    <2>9. CASE Unlock(r)
      BY <2>9, UnlockIInv
    <2>10. CASE Upsert(r)
      BY <2>10, UpsertIInv, ExitIInv DEF Upsert
    <2>11. CASE Disable(r)
      BY <2>11, DisableIInv
    <2>12. CASE BootFails(r) \/ ClosePool(r) \/ Crash(r)
      BY <2>12, ExitIInv DEF BootFails, ClosePool, Crash
    <2>13. CASE Start(r)
      BY <2>13, StartIInv
    <2>14. CASE Arrive(r)
      BY <2>14, ArriveIInv
    <2>15. CASE Answer(r)
      BY <2>15, AnswerIInv
    <2>16. CASE \E j \in Jobs : \/ JobStarts(r, j) \/ JobEnds(r, j) \/ JobLeaves(r, j)
                              \/ JobQueries(r, j) \/ JobAnswered(r, j)
      <3>1. PICK j \in Jobs : \/ JobStarts(r, j) \/ JobEnds(r, j) \/ JobLeaves(r, j)
                             \/ JobQueries(r, j) \/ JobAnswered(r, j)
        BY <2>16
      <3>2. PICK x \in {"idle", "running", "querying", "gone"} :
              /\ job[r][j] # "gone" /\ job' = [job EXCEPT ![r][j] = x]
              /\ UNCHANGED <<db, pc, file, next, tries, request, writing, late, mixed, boots>>
        BY <3>1 DEF JobStarts, JobEnds, JobLeaves, JobQueries, JobAnswered, JobStep
      <3> QED
        BY <3>2, JobIInv
    <2>20. CASE Write(r)
      BY <2>20, WriteIInv
    <2>21. CASE Refuse(r)
      BY <2>21, RefuseIInv
    <2>17. CASE Signal(r)
      BY <2>17, MoveIInv DEF Signal
    <2>18. CASE Shutdown(r)
      BY <2>18, ShutdownIInv
    <2>19. CASE StopCron(r)
      BY <2>19, StopCronIInv
    <2> QED
      BY <1>2, <2>1, <2>2, <2>3, <2>4, <2>5, <2>6, <2>7, <2>8, <2>9, <2>10, <2>11, <2>12,
         <2>13, <2>14, <2>15, <2>16, <2>17, <2>18, <2>19, <2>20, <2>21 DEF BootStep, StopStep
  <1> QED
    BY <1>1, <1>2 DEF Next

\* The inductive invariant holds of every behaviour.
THEOREM Invariance == Spec => []IInv
  <1>1. Init => IInv
    BY InitIInv
  <1>2. IInv /\ [Next]_vars => IInv'
    BY StepIInv
  <1> QED
    BY <1>1, <1>2, PTL DEF Spec

\* Every variable has its type: no replica tries CREATE DATABASE more often
\* than createAttempts allows.
THEOREM TypeCorrect == Spec => []TypeOK
  BY Invariance, PTL DEF IInv

\* The schema is applied by one session at a time.
THEOREM SchemaAlone == Spec => []AppliesAlone
  BY Invariance, PTL DEF IInv

\* Whoever serves finds the schema and every common asset.
THEOREM Prepared == Spec => []ServesPrepared
  <1>1. IInv => ServesPrepared
    BY DEF IInv, Stage, ServesPrepared
  <1> QED
    BY <1>1, Invariance, PTL

\* No invoice loses the row it refers to.
THEOREM History == Spec => []HistoryReadable
  BY Invariance, PTL DEF IInv

\* Only the two steps of a seeding write the table, and only its last leads
\* from there to the start of the jobs.
LEMMA Writers ==
  ASSUME Next
  PROVE  /\ \/ table' = table
            \/ \E r \in Replicas : Disable(r)
            \/ \E r \in Replicas : pc[r] = "seed" /\ table' = Upserted(r)
         /\ \A q \in Replicas : TypeOK /\ pc[q] = "disable" /\ pc'[q] = "start" => Disable(q)
  <1> PICK r \in Replicas :
        \/ Boot(r) \/ BootStep(r) \/ Lock(r) \/ BootFails(r)
        \/ Arrive(r) \/ Write(r) \/ Answer(r) \/ Refuse(r)
        \/ Signal(r) \/ StopStep(r) \/ Crash(r)
        \/ \E j \in Jobs : \/ JobStarts(r, j) \/ JobEnds(r, j) \/ JobLeaves(r, j)
                          \/ JobQueries(r, j) \/ JobAnswered(r, j)
    BY DEF Next
  <1>1. \/ table' = table
        \/ Disable(r)
        \/ pc[r] = "seed" /\ table' = Upserted(r)
    <2>1. Exit(r) => table' = table
      BY DEF Exit
    <2>2. Load(r) => table' = table
      BY <2>1 DEF Load, db
    <2>3. BootStep(r) => table' = table \/ Disable(r) \/ (pc[r] = "seed" /\ table' = Upserted(r))
      BY <2>1, <2>2 DEF BootStep, Open, CreateDatabase, DatabaseExists, Reopen, Skip, Apply, Unlock,
         Upsert, Start, db
    <2> QED
      BY <2>1, <2>3 DEF Boot, Lock, BootFails, Arrive, Write, Answer, Refuse, Signal, StopStep,
         Shutdown, StopCron, Advance, ClosePool, Crash, JobStarts, JobEnds, JobLeaves, JobQueries,
         JobAnswered, JobStep, db
  <1>2. ASSUME NEW q \in Replicas, TypeOK, pc[q] = "disable", pc'[q] = "start"
        PROVE  Disable(q)
    <2>a. pc \in [Replicas -> {"down"} \cup Booting \cup Running]
      BY <1>2 DEF TypeOK
    <2>b. ASSUME NEW x, Go(r, x) PROVE q = r /\ x = "start"
      BY <1>2, <2>a, <2>b DEF Go
    <2>c. pc' # pc
      BY <1>2
    <2>1. ~Exit(r)
      BY <2>b DEF Exit
    <2>2. ~Load(r)
      BY <2>1, <2>b DEF Load
    <2>c1. ~Upsert(r)
      BY <1>2, <2>1, <2>a DEF Upsert, Go
    <2>c2. ~Open(r) /\ ~CreateDatabase(r) /\ ~DatabaseExists(r) /\ ~Reopen(r)
      BY <2>1, <2>2, <2>b DEF Open, CreateDatabase, DatabaseExists, Reopen
    <2>c3. ~Skip(r) /\ ~Apply(r) /\ ~Unlock(r) /\ ~Start(r)
      BY <2>b DEF Skip, Apply, Unlock, Start
    <2>c4. Disable(r) => q = r
      BY <2>b DEF Disable
    <2>3. BootStep(r) => Disable(q)
      BY <2>c1, <2>c2, <2>c3, <2>c4 DEF BootStep
    <2>4. ~Boot(r) /\ ~Lock(r) /\ ~BootFails(r) /\ ~Signal(r) /\ ~Crash(r)
      BY <2>1, <2>b DEF Boot, Lock, BootFails, Signal, Crash
    <2>5. ~StopStep(r)
      BY <2>1, <2>b DEF StopStep, Shutdown, StopCron, Advance, ClosePool
    <2>6. /\ ~Arrive(r) /\ ~Write(r) /\ ~Answer(r) /\ ~Refuse(r)
          /\ \A j \in Jobs : /\ ~JobStarts(r, j) /\ ~JobEnds(r, j) /\ ~JobLeaves(r, j)
                             /\ ~JobQueries(r, j) /\ ~JobAnswered(r, j)
      BY <2>c DEF Arrive, Write, Answer, Refuse, JobStarts, JobEnds, JobLeaves, JobQueries,
         JobAnswered, JobStep
    <2> QED
      BY <2>3, <2>4, <2>5, <2>6
  <1> QED
    BY <1>1, <1>2

\* What every configuration lists is never switched off.
THEOREM CommonStays == Spec => CommonStaysOn
  <1>1. ASSUME IInv, [Next]_vars
        PROVE  [\A c \in Common : Enabled(table, c) => Enabled(table', c)]_vars
    <2> SUFFICES ASSUME Next, NEW c \in Common, Enabled(table, c) PROVE Enabled(table', c)
      BY <1>1
    <2>0. TypeOK /\ c \in Contracts
      BY <1>1 DEF IInv, Common
    <2>1. CASE table' = table
      BY <2>1 DEF Enabled
    <2>2. ASSUME NEW r \in Replicas, Disable(r) PROVE Enabled(table', c)
      <3>1. Common \subseteq Configured(file[r]) /\ Configured(file[r]) \in SUBSET Contracts
        BY <1>1, <2>2, FileFacts DEF Disable, Configured
      <3> QED
        BY <2>0, <2>2, <3>1, DisableFacts DEF Disable, Enabled
    <2>3. ASSUME NEW r \in Replicas, pc[r] = "seed", table' = Upserted(r) PROVE Enabled(table', c)
      <3>1. PICK e, d : /\ e.step \in Int
                        /\ table' = [table EXCEPT ![d] = [step |-> e.step, enabled |-> TRUE]]
        <4>1. next[r] \in DOMAIN file[r].assets
          BY <1>1, <2>3 DEF IInv, Stage
        <4> QED
          BY <1>1, <2>3, <4>1, FileFacts DEF Upserted, UpsertAsset
      <3>2. [step |-> e.step, enabled |-> TRUE] \in Row
        BY <3>1 DEF Row
      <3> QED
        BY <2>0, <3>1, <3>2, Parameters DEF TypeOK, Enabled
    <2> QED
      BY <2>1, <2>2, <2>3, Writers
  <1> QED
    BY <1>1, Invariance, PTL DEF Spec, CommonStaysOn

\* A seeding that no other file was mixed into projects its file.
THEOREM Projection == Spec => SeedProjects
  <1>1. ASSUME IInv, [Next]_vars
        PROVE  [\A r \in Replicas : pc[r] = "disable" /\ pc'[r] = "start" /\ ~mixed[r]
                  => Projects(table', file[r])]_vars
    <2> SUFFICES ASSUME Next, NEW r \in Replicas, pc[r] = "disable", pc'[r] = "start", ~mixed[r]
                 PROVE  Projects(table', file[r])
      BY <1>1
    <2>1. TypeOK /\ Disable(r)
      BY <1>1, Writers DEF IInv
    <2>2. Configured(file[r]) \in SUBSET Contracts
      BY <1>1, FileFacts DEF Configured
    <2>3. /\ \A d \in Configured(file[r]) : table'[d] = table[d]
          /\ \A d \in Contracts \ Configured(file[r]) : ~Enabled(table', d)
      BY <2>1, <2>2, DisableFacts DEF Disable
    <2>4. \A i \in DOMAIN file[r].assets :
            /\ table[normaliseAddress(file[r].assets[i])]
                 = [step |-> file[r].assets[i].step, enabled |-> TRUE]
            /\ normaliseAddress(file[r].assets[i]) \in Configured(file[r])
      BY <1>1, FileFacts DEF Seeded, Configured
    <2> QED
      BY <2>3, <2>4 DEF Projects
  <1> QED
    BY <1>1, Invariance, PTL DEF Spec, SeedProjects

\* An orderly exit cuts nothing short.
THEOREM Orderly == Spec => OrderlyExit
  <1>1. IInv => \A r \in Replicas : pc[r] = "closing" /\ ~late[r] =>
          request[r] = None /\ \A j \in Jobs : job[r][j] = "gone"
    BY DEF IInv, Stage
  <1>2. IInv /\ [Next]_vars => [\A r \in Replicas :
          pc[r] = "closing" /\ pc'[r] = "down" /\ ~late[r] =>
            request[r] = None /\ \A j \in Jobs : job[r][j] = "gone"]_vars
    BY <1>1
  <1> QED
    BY <1>2, Invariance, PTL DEF Spec, OrderlyExit
=============================================================================
