--------------------------- MODULE AbuseProcessor ---------------------------
(***************************************************************************)
(* The worker's abuse detection: jobs of the abuse-detection queue, the    *)
(* four detectors each job runs through, the Redis keys they share, the    *)
(* blocks they set and the escalation of repeated blocks.  Every Redis or  *)
(* MySQL call is a step; workers interleave; BullMQ delivers a job that    *)
(* fails again while attempts remain, and one that stalls to another       *)
(* worker, though the one that had it may go on.                           *)
(***************************************************************************)
EXTENDS Integers, FiniteSets

CONSTANTS Worker, Api, Ip, ApiKey,
          Requests,       \* what is logged: [api, ip, key, error] records
          Threshold,      \* per detector: the size that means abuse
          Window,         \* per detector: the life of its counter or set
          BlockTtl,       \* per detector: the life of the block it sets
          EscalationThreshold, EscalatedTtl,     \* longer blocks
          PermanentThreshold, PermanentWindow,   \* permanent blocks
          MaxAttempts,    \* attempts of a job, 2 in audit.processor.ts
          MaxStalls,      \* how often a job may stall: 1 in BullMQ
          Readiness,      \* whether WorkerDataSource is initialized: FALSE in
                          \* the program as it is, TRUE once DatabaseModule
                          \* is imported
          MaxTime, MaxJobs, MaxWaiting, MaxFailures      \* bounds

None == -1
Forever == -2
NoKey == "no api key"
Detector == {"spike", "error", "breadth", "key"}

ASSUME AbuseAssumption ==
    /\ {Threshold, Window, BlockTtl} \subseteq [Detector -> Nat \ {0}]
    /\ EscalationThreshold \in Nat \ {0, 1} /\ EscalatedTtl \in Nat \ {0}
    /\ PermanentThreshold \in Nat /\ PermanentThreshold > EscalationThreshold
    /\ PermanentWindow \in Nat \ {0}
    /\ MaxAttempts \in Nat \ {0} /\ MaxStalls \in Nat /\ Readiness \subseteq BOOLEAN
    /\ {MaxTime, MaxJobs, MaxWaiting, MaxFailures} \subseteq Nat
    /\ NoKey \notin ApiKey
    /\ Requests \subseteq [api : Api, ip : Ip, key : ApiKey \cup {NoKey},
                           error : BOOLEAN]

VARIABLES clock,
          ready,     \* whether WorkerDataSource is initialized
          expiry,    \* expiry[k]: None if key k is absent, Forever without TTL
          count,     \* value of the counters
          members,   \* value of the sets
          queue,     \* jobs waiting
          work,      \* work[w]: the job of worker w, its next call, its locals
          rows,      \* blocked_events rows the worker inserted
          arrived, failures,   \* history: jobs and failures so far
          seen,      \* history: which deliveries were counted lately, and when
          cut,       \* history: what workers left unfinished
          overlap    \* history: block keys that a second worker set while the
                     \* first was not done with its block

redis == <<expiry, count, members>>
faults == <<failures, cut, overlap>>
vars == <<clock, ready, redis, queue, work, rows, arrived, seen, faults>>

(***************************************************************************)
(* Keys, of one tenant.                                                    *)
(***************************************************************************)
BlockOf(ip) == <<"block:ip", ip>>
PermanentOf(ip) == <<"block:permanent", ip>>
BlocksOf(ip) == <<"block:count", ip>>
CounterKey(d, job) ==
    CASE d = "spike"   -> <<"spike", job.api, job.ip>>
      [] d = "error"   -> <<"error", job.api, job.ip>>
      [] d = "breadth" -> <<"ip:breadth", job.ip>>
      [] d = "key"     -> <<"key:ips", job.key>>
BlockKey(d, job) ==
    IF d = "key" THEN <<"block:apikey", job.key>> ELSE BlockOf(job.ip)

Key == {BlockOf(i) : i \in Ip} \cup {PermanentOf(i) : i \in Ip}
       \cup {BlocksOf(i) : i \in Ip}
       \cup {<<"spike", a, i>> : a \in Api, i \in Ip}
       \cup {<<"error", a, i>> : a \in Api, i \in Ip}
       \cup {<<"ip:breadth", i>> : i \in Ip} \cup {<<"key:ips", k>> : k \in ApiKey}
       \cup {<<"block:apikey", k>> : k \in ApiKey}

\* A delivery of a job.
Job == [id : 1..MaxJobs, api : Api, ip : Ip, key : ApiKey \cup {NoKey},
        error : BOOLEAN, attempt : 1..MaxAttempts, stalls : 0..MaxStalls]
Idle == [at |-> "idle"]

(***************************************************************************)
(* Redis commands.                                                         *)
(***************************************************************************)
Exists(k) == expiry[k] # None
Touch(k) == IF Exists(k) THEN expiry ELSE [expiry EXCEPT ![k] = Forever]

INCR(k) == /\ count' = [count EXCEPT ![k] = @ + 1]
           /\ expiry' = Touch(k) /\ UNCHANGED members
SADD(k, m) == /\ members' = [members EXCEPT ![k] = @ \cup {m}]
              /\ expiry' = Touch(k) /\ UNCHANGED count
EXPIRE(k, ttl) ==
    /\ expiry' = IF Exists(k) THEN [expiry EXCEPT ![k] = clock + ttl] ELSE expiry
    /\ UNCHANGED <<count, members>>
SET(k) == expiry' = [expiry EXCEPT ![k] = Forever] /\ UNCHANGED <<count, members>>
SETNX(k) == expiry' = Touch(k) /\ UNCHANGED <<count, members>>
-----------------------------------------------------------------------------
Init ==
    /\ clock = 0 /\ ready \in Readiness
    /\ expiry = [k \in Key |-> None]
    /\ count = [k \in Key |-> 0] /\ members = [k \in Key |-> {}]
    /\ queue = {} /\ work = [w \in Worker |-> Idle]
    /\ rows = {} /\ arrived = 0 /\ seen = {}
    /\ failures = 0 /\ cut = {} /\ overlap = {}

At(w, step) == work[w].at = step
Goto(w, step) == work' = [work EXCEPT ![w].at = step]

\* process: the detectors in order; errors need a status of 400 or more, the
\* last one an API key.
Following(d, job) ==
    CASE d = "spike"            -> IF job.error THEN "error" ELSE "breadth"
      [] d = "error"            -> "breadth"
      [] d = "breadth"          -> IF job.key # NoKey THEN "key" ELSE "end"
      [] d = "key"              -> "end"
NextDetector(w) ==
    LET d == Following(work[w].det, work[w].job)
    IN  work' = [work EXCEPT ![w] =
                   IF d = "end" THEN Idle
                   ELSE [@ EXCEPT !.at = "count", !.det = d, !.n = 0]]

\* A request was logged: audit.processor.ts adds its job.
Arrive(req) ==
    /\ arrived < MaxJobs /\ Cardinality(queue) < MaxWaiting
    /\ arrived' = arrived + 1
    /\ queue' = queue \cup {[id |-> arrived', api |-> req.api, ip |-> req.ip,
                             key |-> req.key, error |-> req.error,
                             attempt |-> 1, stalls |-> 0]}
    /\ UNCHANGED <<clock, ready, redis, work, rows, seen, faults>>

\* owned: the worker still holds the lock of its job.
Take(w, job) ==
    /\ At(w, "idle") /\ job \in queue
    /\ queue' = queue \ {job}
    /\ work' = [work EXCEPT ![w] = [at |-> "count", job |-> job, owned |-> TRUE,
                                    det |-> "spike", n |-> 0]]
    /\ UNCHANGED <<clock, ready, redis, rows, arrived, seen, faults>>

Judge(w, n) ==
    IF n >= Threshold[work[w].det]
    THEN work' = [work EXCEPT ![w].at = "setnx", ![w].n = n]
    ELSE NextDetector(w)

\* INCR of a counter, or SADD to a set.
Count(w) ==
    /\ At(w, "count")
    /\ LET d == work[w].det
           k == CounterKey(d, work[w].job)
       IN  /\ seen' = seen \cup {[job |-> work[w].job, key |-> k, at |-> clock]}
           /\ CASE d \in {"spike", "error"} ->
                     /\ INCR(k)
                     /\ IF count'[k] = 1
                        THEN work' = [work EXCEPT ![w].at = "expire", ![w].n = 1]
                        ELSE Judge(w, count'[k])
                [] d = "breadth" -> SADD(k, work[w].job.api) /\ Goto(w, "ttl")
                [] d = "key"     -> SADD(k, work[w].job.ip) /\ Goto(w, "ttl")
    /\ UNCHANGED <<clock, ready, queue, rows, arrived, faults>>

\* TTL of a set: -1 when it has none yet.
ReadTtl(w) ==
    /\ At(w, "ttl")
    /\ Goto(w, IF expiry[CounterKey(work[w].det, work[w].job)] = Forever
               THEN "expire" ELSE "card")
    /\ UNCHANGED <<clock, ready, redis, queue, rows, arrived, seen, faults>>

\* Faulty variant: the counter never gets its TTL.
ExpireCounterNever(w) ==
    /\ At(w, "expire")
    /\ IF work[w].det \in {"spike", "error"}
       THEN Judge(w, work[w].n) ELSE Goto(w, "card")
    /\ UNCHANGED <<clock, ready, redis, queue, rows, arrived, seen, faults>>

ExpireCounter(w) ==
    /\ At(w, "expire")
    /\ EXPIRE(CounterKey(work[w].det, work[w].job), Window[work[w].det])
    /\ IF work[w].det \in {"spike", "error"}
       THEN Judge(w, work[w].n) ELSE Goto(w, "card")
    /\ UNCHANGED <<clock, ready, queue, rows, arrived, seen, faults>>

\* SCARD of a set.
ReadSize(w) ==
    /\ At(w, "card")
    /\ Judge(w, Cardinality(members[CounterKey(work[w].det, work[w].job)]))
    /\ UNCHANGED <<clock, ready, redis, queue, rows, arrived, seen, faults>>

\* Worker v has set block key k and is not done with the block.
Blocking(v, k) ==
    /\ ~(work[v].at \in {"idle", "count", "ttl", "expire", "card", "setnx"})
    /\ BlockKey(work[v].det, work[v].job) = k
Overlaps(w, k) ==
    overlap' = IF \E v \in Worker \ {w} : Blocking(v, k) THEN overlap \cup {k} ELSE overlap

\* Faulty variant: SET in the place of SETNX.
SetBlockAnyway(w) ==
    /\ At(w, "setnx")
    /\ LET k == BlockKey(work[w].det, work[w].job)
       IN  SET(k) /\ Overlaps(w, k) /\ Goto(w, "expireBlock")
    /\ UNCHANGED <<clock, ready, queue, rows, arrived, seen, failures, cut>>

\* Faulty variant: the loser waits for the block to end, as for a lock.
SetBlockLocking(w) ==
    /\ At(w, "setnx")
    /\ LET k == BlockKey(work[w].det, work[w].job)
       IN  ~Exists(k) /\ SETNX(k) /\ Overlaps(w, k) /\ Goto(w, "expireBlock")
    /\ UNCHANGED <<clock, ready, queue, rows, arrived, seen, failures, cut>>

\* SETNX of the block key: only the winner goes on.
SetBlock(w) ==
    /\ At(w, "setnx")
    /\ LET k == BlockKey(work[w].det, work[w].job)
       IN  /\ SETNX(k)
           /\ IF Exists(k) THEN NextDetector(w) /\ UNCHANGED overlap
              ELSE Goto(w, "expireBlock") /\ Overlaps(w, k)
    /\ UNCHANGED <<clock, ready, queue, rows, arrived, seen, failures, cut>>

\* Faulty variant: the block key never gets its TTL.
ExpireBlockNever(w) ==
    /\ At(w, "expireBlock")
    /\ Goto(w, "insert")
    /\ UNCHANGED <<clock, ready, redis, queue, rows, arrived, seen, faults>>

ExpireBlock(w) ==
    /\ At(w, "expireBlock")
    /\ EXPIRE(BlockKey(work[w].det, work[w].job), BlockTtl[work[w].det])
    /\ Goto(w, "insert")
    /\ UNCHANGED <<clock, ready, queue, rows, arrived, seen, faults>>

\* persistBlock; the block of an API key is recorded without an IP, and only
\* blocks of an IP escalate.
Insert(w) ==
    /\ At(w, "insert") /\ ready
    /\ rows' = rows \cup {[n |-> Cardinality(rows), reason |-> work[w].det,
                           ip |-> IF work[w].det = "key" THEN "null"
                                  ELSE work[w].job.ip, at |-> clock]}
    /\ IF work[w].det = "key" THEN NextDetector(w) ELSE Goto(w, "escalate")
    /\ UNCHANGED <<clock, ready, redis, queue, arrived, seen, faults>>

(***************************************************************************)
(* handleBlockEscalation.                                                  *)
(***************************************************************************)
\* Faulty variant: the wrong threshold makes a block permanent.
JudgeBlocksEarly(w, n) ==
    IF n >= EscalationThreshold THEN Goto(w, "setnxPermanent")
    ELSE NextDetector(w)

JudgeBlocks(w, n) ==
    IF n >= PermanentThreshold THEN Goto(w, "setnxPermanent")
    ELSE IF n >= EscalationThreshold THEN Goto(w, "setEscalated")
    ELSE NextDetector(w)

CountBlock(w) ==
    /\ At(w, "escalate")
    /\ LET k == BlocksOf(work[w].job.ip)
       IN  /\ INCR(k)
           /\ IF count'[k] = 1 THEN Goto(w, "expireBlocks")
              ELSE JudgeBlocks(w, count'[k])
    /\ UNCHANGED <<clock, ready, queue, rows, arrived, seen, faults>>

ExpireBlocks(w) ==
    /\ At(w, "expireBlocks")
    /\ EXPIRE(BlocksOf(work[w].job.ip), PermanentWindow)
    /\ JudgeBlocks(w, 1)
    /\ UNCHANGED <<clock, ready, queue, rows, arrived, seen, faults>>

\* Faulty variant: the marker is not consulted.
SetPermanentMarkerBlindly(w) ==
    /\ At(w, "setnxPermanent")
    /\ SETNX(PermanentOf(work[w].job.ip))
    /\ Goto(w, "setPermanent")
    /\ UNCHANGED <<clock, ready, queue, rows, arrived, seen, faults>>

SetPermanentMarker(w) ==
    /\ At(w, "setnxPermanent")
    /\ LET k == PermanentOf(work[w].job.ip)
       IN  SETNX(k) /\ IF Exists(k) THEN NextDetector(w) ELSE Goto(w, "setPermanent")
    /\ UNCHANGED <<clock, ready, queue, rows, arrived, seen, faults>>

SetPermanent(w) ==
    /\ At(w, "setPermanent")
    /\ SET(BlockOf(work[w].job.ip))
    /\ Goto(w, "insertPermanent")
    /\ UNCHANGED <<clock, ready, queue, rows, arrived, seen, faults>>

\* The permanent block is persisted like any other, and escalates again.
InsertPermanent(w) ==
    /\ At(w, "insertPermanent") /\ ready
    /\ rows' = rows \cup {[n |-> Cardinality(rows), reason |-> "permanent",
                           ip |-> work[w].job.ip, at |-> clock]}
    /\ Goto(w, "escalate")
    /\ UNCHANGED <<clock, ready, redis, queue, arrived, seen, faults>>

SetEscalated(w) ==
    /\ At(w, "setEscalated")
    /\ SET(BlockOf(work[w].job.ip))
    /\ Goto(w, "expireEscalated")
    /\ UNCHANGED <<clock, ready, queue, rows, arrived, seen, faults>>

\* Faulty variant: the longer block never gets its TTL.
ExpireEscalatedNever(w) ==
    /\ At(w, "expireEscalated")
    /\ NextDetector(w)
    /\ UNCHANGED <<clock, ready, redis, queue, rows, arrived, seen, faults>>

ExpireEscalated(w) ==
    /\ At(w, "expireEscalated")
    /\ EXPIRE(BlockOf(work[w].job.ip), EscalatedTtl)
    /\ NextDetector(w)
    /\ UNCHANGED <<clock, ready, queue, rows, arrived, seen, faults>>

(***************************************************************************)
(* Failures and time.                                                      *)
(***************************************************************************)
\* What a worker leaves unfinished when it stops here: a key without its TTL,
\* a marked address without its block, a permanent block without its row.
Unfinished(w) ==
    CASE At(w, "expire") -> {CounterKey(work[w].det, work[w].job)}
      [] At(w, "expireBlock") -> {BlockKey(work[w].det, work[w].job)}
      [] At(w, "expireBlocks") -> {BlocksOf(work[w].job.ip)}
      [] At(w, "expireEscalated") -> {BlockOf(work[w].job.ip)}
      [] At(w, "setPermanent") -> {PermanentOf(work[w].job.ip)}
      [] At(w, "insertPermanent") -> {<<"row", work[w].job.ip>>}
      [] OTHER -> {}

\* Faulty variant: attempts are not limited.
RetryAlways(job) == {[job EXCEPT !.attempt = @ + 1]}

\* BullMQ delivers a failed job again while it has attempts left, and one
\* that stalled while it may stall.
Retry(job) ==
    IF job.attempt < MaxAttempts THEN {[job EXCEPT !.attempt = @ + 1]} ELSE {}
Recover(job) ==
    IF job.stalls < MaxStalls THEN {[job EXCEPT !.stalls = @ + 1]} ELSE {}

\* process throws; who lost the lock of the job cannot have it retried.
Throws(w) ==
    /\ queue' = queue \cup (IF work[w].owned THEN Retry(work[w].job) ELSE {})
    /\ work' = [work EXCEPT ![w] = Idle]
    /\ UNCHANGED <<clock, ready, redis, rows, arrived, seen, overlap>>

\* A call of Redis or MySQL rejects.
Fail(w) ==
    /\ ~At(w, "idle") /\ failures < MaxFailures
    /\ failures' = failures + 1 /\ cut' = cut \cup Unfinished(w)
    /\ Throws(w)

\* The repository of a data source that was never initialized throws.
InsertThrows(w) ==
    /\ At(w, "insert") \/ At(w, "insertPermanent")
    /\ ~ready
    /\ Throws(w) /\ UNCHANGED <<failures, cut>>

\* The worker loses the lock of its job, and goes on with it or dies.
Stall(w) ==
    /\ ~At(w, "idle") /\ work[w].owned /\ failures < MaxFailures
    /\ failures' = failures + 1
    /\ queue' = queue \cup Recover(work[w].job)
    /\ \/ work' = [work EXCEPT ![w].owned = FALSE] /\ UNCHANGED cut
       \/ work' = [work EXCEPT ![w] = Idle] /\ cut' = cut \cup Unfinished(w)
    /\ UNCHANGED <<clock, ready, redis, rows, arrived, seen, overlap>>

\* Redis calls take no time at this scale; an insert may.
Tick ==
    /\ clock < MaxTime
    /\ \A w \in Worker : work[w].at \in {"idle", "insert", "insertPermanent"}
    /\ clock' = clock + 1
    /\ LET gone == {k \in Key : expiry[k] >= 0 /\ expiry[k] <= clock'}
       IN  /\ expiry' = [k \in Key |-> IF k \in gone THEN None ELSE expiry[k]]
           /\ count' = [k \in Key |-> IF k \in gone THEN 0 ELSE count[k]]
           /\ members' = [k \in Key |-> IF k \in gone THEN {} ELSE members[k]]
    /\ seen' = {s \in seen : \E d \in Detector : s.at + Window[d] > clock'}
    /\ UNCHANGED <<ready, queue, work, rows, arrived, faults>>

WorkerStep(w) ==
    \/ Count(w) \/ ReadTtl(w) \/ ExpireCounter(w) \/ ReadSize(w)
    \/ SetBlock(w) \/ ExpireBlock(w) \/ Insert(w) \/ InsertThrows(w)
    \/ CountBlock(w) \/ ExpireBlocks(w)
    \/ SetPermanentMarker(w) \/ SetPermanent(w) \/ InsertPermanent(w)
    \/ SetEscalated(w) \/ ExpireEscalated(w)

Next ==
    \/ Tick
    \/ \E req \in Requests : Arrive(req)
    \/ \E w \in Worker : \/ \E job \in queue : Take(w, job)
                         \/ WorkerStep(w) \/ Fail(w) \/ Stall(w)

Spec == Init /\ [][Next]_vars

\* Running workers keep making their calls and taking jobs.
FairSpec ==
    Spec /\ \A w \in Worker :
        WF_vars(WorkerStep(w)) /\ WF_vars(\E job \in queue : Take(w, job))
-----------------------------------------------------------------------------
TypeOK ==
    /\ clock \in 0..MaxTime
    /\ expiry \in [Key -> Nat \cup {None, Forever}]
    /\ count \in [Key -> Nat]
    /\ members \in [Key -> SUBSET (Api \cup Ip)]
    /\ queue \subseteq Job
    /\ \A w \in Worker : ~At(w, "idle") => work[w].job \in Job

Quiet == \A w \in Worker : At(w, "idle")
RowsFor(ip, reasons) == {r \in rows : r.ip = ip /\ r.reason \in reasons}
Temporary == {"spike", "error", "breadth"}

(***************************************************************************)
(* However jobs fail and are delivered again: a detector that counts       *)
(* requests blocks an IP only when as many deliveries as its threshold     *)
(* were counted within its window, unless a worker was cut off before it   *)
(* gave that counter its end.                                              *)
(***************************************************************************)
BlockIsEarned ==
    [][\A w \in Worker :
        SetBlock(w) /\ work[w].det \in {"spike", "error"} =>
          LET k == CounterKey(work[w].det, work[w].job)
          IN  \/ k \in cut
              \/ Cardinality({s.job : s \in
                   {x \in seen : x.key = k /\ x.at > clock - Window[work[w].det]}})
                   >= Threshold[work[w].det]]_vars

(***************************************************************************)
(* A permanent block takes PermanentThreshold recorded blocks of the IP,   *)
(* all within the last PermanentWindow, whatever fails, unless a worker    *)
(* was cut off before it gave the count of blocks its end.                 *)
(***************************************************************************)
PermanentIsEarned ==
    [][\A w \in Worker : SetPermanent(w) =>
          \/ BlocksOf(work[w].job.ip) \in cut
          \/ Cardinality({r \in RowsFor(work[w].job.ip, Temporary) :
                            r.at > clock - PermanentWindow})
               >= PermanentThreshold]_vars

(***************************************************************************)
(* However often jobs fail and are delivered again, an IP is recorded as   *)
(* blocked permanently at most once.                                       *)
(***************************************************************************)
PermanentOnce == \A i \in Ip : Cardinality(RowsFor(i, {"permanent"})) <= 1

(***************************************************************************)
(* A recorded permanent block is never replaced by a temporary one, nor    *)
(* given a TTL, whatever fails, unless two workers were at blocks of the   *)
(* IP at once.                                                             *)
(***************************************************************************)
PermanentStays ==
    [][\A i \in Ip : RowsFor(i, {"permanent"}) # {} /\ BlockOf(i) \notin overlap =>
          expiry'[BlockOf(i)] = expiry[BlockOf(i)]]_vars

(***************************************************************************)
(* Every job that a worker takes ends, its escalation included.            *)
(***************************************************************************)
JobsEnd == \A w \in Worker : ~At(w, "idle") ~> At(w, "idle")

(***************************************************************************)
(* While no worker runs, a block without an end is a recorded permanent    *)
(* one, and that of an API key always ends; whoever is marked as blocked   *)
(* permanently is blocked.  Inserts that throw, failed jobs and other      *)
(* workers are no excuse: only a worker that was cut off right between the *)
(* two calls, and for the second part, two workers at blocks of the IP at  *)
(* once.                                                                   *)
(***************************************************************************)
BlocksEnd ==
    Quiet =>
        /\ \A i \in Ip : expiry[BlockOf(i)] = Forever =>
             RowsFor(i, {"permanent"}) # {} \/ BlockOf(i) \in cut \/ <<"row", i>> \in cut
        /\ \A k \in ApiKey : expiry[<<"block:apikey", k>>] = Forever =>
             <<"block:apikey", k>> \in cut
        /\ \A i \in Ip : Exists(PermanentOf(i)) =>
             Exists(BlockOf(i)) \/ PermanentOf(i) \in cut \/ BlockOf(i) \in overlap
=============================================================================
