---------------------------- MODULE EndpointPool ----------------------------
(***************************************************************************)
(* The BSC watcher's calls over a list of RPC endpoints (pkg/evm): every   *)
(* call starts one endpoint further along, endpoints that failed lately    *)
(* come last, a transport failure moves on to the next endpoint and a      *)
(* node's refusal ends the call.  A tick asks for the head, for the        *)
(* finalised head and for the logs of a few chunks; a call that fails ends *)
(* the tick, unless it is taken for a finalised tag that is not served.    *)
(* Only one goroutine calls.                                               *)
(***************************************************************************)
EXTENDS Integers, FiniteSets

CONSTANTS
  Pools,            \* the deployments: endpoints, their answers, their history
  FailureCooldown,  \* bsc.failure_cooldown, in the units that Elapse counts
  MaxChunks,        \* maxChunksPerTick
  MaxBehind,        \* bound: chunks the watcher may be behind the head
  MaxFaults         \* bound: endpoints that go down, and restarts

Methods == {"head", "tag", "logs"}
\* classify: limit, too deep, rate limit, anything else.
Refusals == {"limit", "deep", "rate", "other"}

ASSUME PoolAssumption ==
  /\ FailureCooldown \in Nat /\ MaxBehind \in Nat /\ MaxFaults \in Nat
  /\ MaxChunks \in Nat \ {0}
  /\ \A p \in Pools :
       /\ p.n \in Nat \ {0} /\ p.tag \in BOOLEAN
       /\ p.answers \in [0..(p.n - 1) -> [Methods -> {"ok"} \cup Refusals]]
       /\ p.retained \in [0..(p.n - 1) -> Nat]

VARIABLES
  pool,      \* the deployment
  up,        \* the endpoints that answer HTTP
  cursor,    \* where the last call started
  cooldown,  \* what is left of each endpoint's cooldown
  method,    \* the call of the tick that is due, or "idle"
  asking,    \* the call is in progress
  resting,   \* the endpoints that cooled down when it began
  left,      \* the endpoints it has not asked
  chunk,     \* chunks scanned in this tick
  behind,    \* chunks between the saved cursor and the head
  outcome,   \* of the last call
  downs,     \* history: the endpoints that were down during the call
  load,      \* history: requests to each endpoint since all were well
  faults     \* faults so far

rotation == <<cursor, resting, left>>
history == <<downs, load, faults>>
poolVars == <<pool, up, method, asking, rotation, cooldown, chunk, behind, outcome, history>>

Endpoints == 0..(pool.n - 1)
IsCooling(e) == cooldown[e] > 0

PoolInit ==
  /\ pool \in Pools
  /\ up = Endpoints
  /\ cursor = 0 /\ cooldown = [e \in Endpoints |-> 0]
  /\ method = "idle" /\ asking = FALSE
  /\ resting = {} /\ left = {}
  /\ chunk = 0 /\ behind \in 0..MaxBehind
  /\ outcome = "none"
  /\ downs = {} /\ load = [e \in Endpoints |-> 0] /\ faults = 0

-----------------------------------------------------------------------------
\* The tick.

\* What is asked for next; the settling that ends a tick makes no call.
StartTick ==
  /\ method = "idle"
  /\ method' = "head" /\ chunk' = 0
  /\ UNCHANGED <<pool, up, asking, rotation, cooldown, behind, outcome, history>>

EndTick == method' = "idle" /\ UNCHANGED <<chunk, behind>>

\* A chunk is saved before the next is asked for.
Scanned ==
  /\ behind' = IF behind = 0 THEN 0 ELSE behind - 1
  /\ chunk' = chunk + 1
  /\ method' = IF behind > 1 /\ chunk + 1 < MaxChunks THEN "logs" ELSE "idle"

Proceed ==
  \/ /\ method = "head"
     /\ method' = IF pool.tag THEN "tag" ELSE "logs"
     /\ UNCHANGED <<chunk, behind>>
  \/ method = "tag" /\ method' = "logs" /\ UNCHANGED <<chunk, behind>>
  \/ method = "logs" /\ Scanned

\* Confirmations are counted where the tag is not served.
FallBack == method = "tag" /\ method' = "logs" /\ UNCHANGED <<chunk, behind>>

\* isUnsupportedTag reads the text of any error: "HTTP 404: not found" passes for a
\* tag that is not served as well.
GiveUp == EndTick \/ FallBack

-----------------------------------------------------------------------------
\* One call.

(* Faulty: the rotation moves on only where an endpoint failed. *)
AdvanceOnFailure(c) == IF \E e \in Endpoints : IsCooling(e) THEN (c + 1) % pool.n ELSE c

Advance(c) == (c + 1) % pool.n

(* Faulty: an endpoint that cools down is left out. *)
CandidatesReady == {e \in Endpoints : ~IsCooling(e)}

Candidates == Endpoints

Distance(e) == (e - cursor) % pool.n

BeginCall ==
  /\ method # "idle" /\ ~asking
  /\ asking' = TRUE
  /\ cursor' = Advance(cursor)
  /\ resting' = {e \in Endpoints : IsCooling(e)}
  /\ left' = Candidates
  /\ downs' = Endpoints \ up
  /\ UNCHANGED <<pool, up, method, cooldown, chunk, behind, outcome, load, faults>>

\* Ring order, those that were cooling down behind the others.
Before(e, f) ==
  \/ e \notin resting /\ f \in resting
  \/ (e \in resting <=> f \in resting) /\ Distance(e) < Distance(f)

First(e) == e \in left /\ \A f \in left \ {e} : Before(e, f)

Least(l) == CHOOSE x \in {l[e] : e \in Endpoints} : \A e \in Endpoints : x <= l[e]

\* Requests are counted against the endpoint that got the fewest, afresh
\* in every call that meets an endpoint that fails or cools down.
Count(e) ==
  load' = IF resting # {} \/ left # Endpoints \/ cooldown'[e] > 0
          THEN [f \in Endpoints |-> 0]
          ELSE LET l == [load EXCEPT ![e] = @ + 1]
               IN [f \in Endpoints |-> l[f] - Least(l)]

\* A transport failure, a status other than 200, or an unparsable body.
MarkFailed(e) ==
  /\ asking /\ First(e) /\ e \notin up
  /\ cooldown' = [cooldown EXCEPT ![e] = FailureCooldown]
  /\ left' = left \ {e}
  /\ \/ left # {e} /\ UNCHANGED <<asking, method, chunk, behind, outcome>>
     \/ left = {e} /\ asking' = FALSE /\ outcome' = "failed" /\ GiveUp
  /\ Count(e)
  /\ UNCHANGED <<pool, up, cursor, resting, downs, faults>>

\* Nodes keep logs for so many chunks below the head.
Reply(e) == IF method = "logs" /\ behind > pool.retained[e] THEN "deep"
            ELSE pool.answers[e][method]

Answer(e) ==
  /\ asking /\ First(e) /\ e \in up
  /\ asking' = FALSE /\ left' = {}
  /\ \/ Reply(e) = "ok" /\ outcome' = "ok" /\ Proceed
     \/ Reply(e) = "other" /\ outcome' = "refused" /\ FallBack
     \/ /\ Reply(e) # "ok" /\ ~(Reply(e) = "other" /\ method = "tag")
        /\ outcome' = "refused" /\ GiveUp
  /\ UNCHANGED <<pool, up, cursor, resting, cooldown, downs, faults>>
  /\ Count(e)

Ask == \E e \in Endpoints : MarkFailed(e) \/ Answer(e)

-----------------------------------------------------------------------------
\* Time, the endpoints and the process.

(* Faulty: a cooldown does not run out. *)
RestNever(t) == t

Rest(t) == IF t = 0 THEN 0 ELSE t - 1

\* A unit passes: cooldowns run out, and the head moves on.
Elapse ==
  /\ cooldown' = [e \in Endpoints |-> Rest(cooldown[e])]
  /\ behind' \in {behind, IF behind < MaxBehind THEN behind + 1 ELSE behind}
  /\ load' = IF \E e \in Endpoints : IsCooling(e) THEN [e \in Endpoints |-> 0] ELSE load
  /\ UNCHANGED <<pool, up, method, asking, rotation, chunk, outcome, downs, faults>>

GoDown(e) ==
  /\ e \in up /\ faults < MaxFaults
  /\ up' = up \ {e} /\ faults' = faults + 1
  /\ downs' = IF asking THEN downs \cup {e} ELSE downs
  /\ UNCHANGED <<pool, method, asking, rotation, cooldown, chunk, behind, outcome, load>>

Recover(e) ==
  /\ e \in Endpoints \ up /\ up' = up \cup {e}
  /\ UNCHANGED <<pool, method, asking, rotation, cooldown, chunk, behind, outcome, history>>

\* The rotation and the cooldowns are the process's own.
Restart ==
  /\ faults < MaxFaults /\ faults' = faults + 1
  /\ method' = "idle" /\ asking' = FALSE
  /\ cursor' = 0 /\ cooldown' = [e \in Endpoints |-> 0]
  /\ resting' = {} /\ left' = {} /\ chunk' = 0
  /\ outcome' = "none" /\ load' = [e \in Endpoints |-> 0] /\ downs' = {}
  /\ UNCHANGED <<pool, up, behind>>

Work == StartTick \/ BeginCall \/ Ask

PoolNext ==
  \/ Work \/ Elapse \/ Restart
  \/ \E e \in Endpoints : GoDown(e) \/ Recover(e)

PoolSpec == PoolInit /\ [][PoolNext]_poolVars

\* Cron ticks, time passes and an endpoint that went down comes back.
PoolFairSpec == PoolSpec /\ WF_poolVars(Work) /\ WF_poolVars(Elapse)
                 /\ WF_poolVars(\E e \in Endpoints : Recover(e))

-----------------------------------------------------------------------------
PoolTypeOK ==
  /\ pool \in Pools
  /\ up \subseteq Endpoints
  /\ cursor \in Endpoints
  /\ cooldown \in [Endpoints -> 0..FailureCooldown]
  /\ method \in Methods \cup {"idle"}
  /\ asking \in BOOLEAN
  /\ resting \subseteq Endpoints
  /\ left \subseteq Endpoints
  /\ chunk \in 0..MaxChunks
  /\ behind \in 0..MaxBehind
  /\ outcome \in {"none", "ok", "refused", "failed"}
  /\ downs \subseteq Endpoints
  /\ load \in [Endpoints -> Nat]
  /\ faults \in 0..MaxFaults

\* "evm: every endpoint failed" is true: each was down at some moment of the
\* very call that says so, those that cooled down included (evm/client.go:371:
\* "trying them anyway beats refusing to make the request at all").
FailedMeansAllDown == [][asking /\ ~asking' /\ outcome' = "failed" => downs = Endpoints]_poolVars

\* While all is well no endpoint gets two requests more than another: every
\* API key carries its share (evm/client.go:8).
EvenSpread == \A e, f \in Endpoints : load[e] - load[f] <= 1

\* What a tick calls before, and with, its first request for logs.
CallsPerTick == IF pool.tag THEN 3 ELSE 2

Coprime(a, b) == \A d \in 2..b : ~(a % d = 0 /\ b % d = 0)

Serves == method = "logs" /\ ~asking' /\ outcome' = "ok" /\ asking

\* No tick ends before it asks for logs, for want of a head or over the tag.
ReachesLogs == \A e \in Endpoints :
  pool.answers[e].head = "ok" /\ pool.answers[e].tag \in {"ok", "other"}

ArchiveThere == \E e \in Endpoints :
  pool.retained[e] >= MaxBehind /\ \A m \in Methods : pool.answers[e][m] = "ok"

\* Logs are read again and again where one endpoint serves them at any depth,
\* whatever logs the others refuse: a refused tick shifts the rotation, as long as
\* the calls of a tick and the endpoints have no common divisor.
LogsServed ==
  Coprime(CallsPerTick, pool.n) /\ ReachesLogs /\ ArchiveThere
    => []<><<Serves>>_poolVars

\* As above for any number of endpoints.  (Refuted: EndpointStarves.cfg.)
ArchiveSuffices == ReachesLogs /\ ArchiveThere => []<><<Serves>>_poolVars

-----------------------------------------------------------------------------
\* The inductive invariant.

\* The endpoints a call has asked in vain, and those that are down, were down during it.
Honest ==
  /\ up \subseteq Endpoints /\ left \subseteq Endpoints /\ downs \subseteq Endpoints
  /\ asking => (Endpoints \ left) \cup (Endpoints \ up) \subseteq downs

\* The requests of this round went to as many endpoints that lie next to each other,
\* the last of them at c.
RoundAt(c) ==
  \E k \in 0..pool.n - 1 :
    \A e \in Endpoints : load[e] = IF (c - e) % pool.n < k THEN 1 ELSE 0

\* A call that met no trouble so far goes to the endpoint after the last.
Round ==
  /\ load \in [Endpoints -> {0, 1}]
  /\ ~asking => RoundAt(cursor)
  /\ asking /\ resting = {} /\ left = Endpoints => RoundAt(cursor - 1)

\* A tick that is on has a chunk to go.
Going == method # "idle" => chunk < MaxChunks

PoolInv == PoolTypeOK /\ Going /\ Honest /\ Round
=============================================================================
