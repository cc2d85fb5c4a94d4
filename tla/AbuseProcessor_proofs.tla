----------------------- MODULE AbuseProcessor_proofs -----------------------
(***************************************************************************)
(* For every number of workers, addresses, jobs, attempts and failures:    *)
(* what the worker's detectors and its escalation leave in Redis and in    *)
(* blocked_events.                                                         *)
(***************************************************************************)
EXTENDS AbuseProcessor, FiniteSetTheorems, TLAPS

(***************************************************************************)
(* Types.  Blocks of an IP escalate, and only a job with an API key gets   *)
(* to the last detector.                                                   *)
(***************************************************************************)
Steps == {"count", "ttl", "expire", "card", "setnx", "expireBlock", "insert"}
Escalation == {"escalate", "expireBlocks", "setnxPermanent", "setPermanent",
               "insertPermanent", "setEscalated", "expireEscalated"}

Task == [at : Steps \cup Escalation, job : Job, owned : BOOLEAN, det : Detector,
         n : Nat]
Proper(task) ==
    \/ task = Idle
    \/ /\ task \in Task
       /\ task.det = "key" => task.job.key \in ApiKey /\ task.at \in Steps

RedisOK ==
    /\ expiry \in [Key -> Nat \cup {None, Forever}]
    /\ count \in [Key -> Nat] /\ members \in [Key -> SUBSET (Api \cup Ip)]
    /\ \A k \in Key : IsFiniteSet(members[k])

AbuseInv ==
    /\ clock \in 0..MaxTime /\ ready \in BOOLEAN /\ arrived \in 0..MaxJobs
    /\ queue \subseteq Job /\ RedisOK
    /\ work = [w \in Worker |-> work[w]]
    /\ \A w \in Worker : /\ Proper(work[w])
                         /\ work[w].at \in Escalation => ready

\* The keys of blocks, of the marker and of the count of blocks.
Watched == {BlockOf(i) : i \in Ip} \cup {PermanentOf(i) : i \in Ip}
           \cup {BlocksOf(i) : i \in Ip} \cup {<<"block:apikey", k>> : k \in ApiKey}

(***************************************************************************)
(* Keys of different kinds, or of different addresses, are different.      *)
(***************************************************************************)
LEMMA KeysDiffer ==
  ASSUME NEW i \in Ip, NEW j \in Ip
  PROVE  /\ BlockOf(i) # PermanentOf(j) /\ BlockOf(i) # BlocksOf(j)
         /\ PermanentOf(i) # BlocksOf(j)
         /\ BlockOf(i) = BlockOf(j) => i = j
         /\ PermanentOf(i) = PermanentOf(j) => i = j
         /\ BlocksOf(i) = BlocksOf(j) => i = j
         /\ \A k \in ApiKey : <<"block:apikey", k>> \notin
                                 {BlockOf(i), PermanentOf(i), BlocksOf(i)}
         /\ {BlockOf(i), PermanentOf(i), BlocksOf(i)} \subseteq Watched
         /\ Watched \subseteq Key
  BY DEF BlockOf, PermanentOf, BlocksOf, Key, Watched


\* The keys of blocks exist, and a detector counts with other ones.
LEMMA DetectorKeys ==
  ASSUME NEW d \in Detector, NEW job \in Job, d = "key" => job.key \in ApiKey
  PROVE  /\ Watched \subseteq Key
         /\ CounterKey(d, job) \in Key \ Watched /\ BlockKey(d, job) \in Watched
         /\ d = "key" => BlockKey(d, job) = <<"block:apikey", job.key>>
         /\ d # "key" => BlockKey(d, job) = BlockOf(job.ip)
  <1>1. job.ip \in Ip /\ job.api \in Api
    BY DEF Job
  <1>2. Watched \subseteq Key
    BY DEF Watched, Key
  <1>3. CASE d = "spike"
    <2>1. CounterKey(d, job) = <<"spike", job.api, job.ip>>
      BY <1>3 DEF CounterKey
    <2> QED
      BY <1>1, <1>2, <1>3, <2>1
      DEF Key, Watched, BlockOf, PermanentOf, BlocksOf, BlockKey
  <1>4. CASE d = "error"
    <2>1. CounterKey(d, job) = <<"error", job.api, job.ip>>
      BY <1>4 DEF CounterKey
    <2> QED
      BY <1>1, <1>2, <1>4, <2>1
      DEF Key, Watched, BlockOf, PermanentOf, BlocksOf, BlockKey
  <1>5. CASE d = "breadth"
    <2>1. CounterKey(d, job) = <<"ip:breadth", job.ip>>
      BY <1>5 DEF CounterKey
    <2> QED
      BY <1>1, <1>2, <1>5, <2>1
      DEF Key, Watched, BlockOf, PermanentOf, BlocksOf, BlockKey
  <1>6. CASE d = "key"
    <2>1. CounterKey(d, job) = <<"key:ips", job.key>>
      BY <1>6 DEF CounterKey
    <2> QED
      BY <1>1, <1>2, <1>6, <2>1
      DEF Key, Watched, BlockOf, PermanentOf, BlocksOf, BlockKey
  <1> QED
    BY <1>3, <1>4, <1>5, <1>6 DEF Detector

(***************************************************************************)
(* What a step leaves alone: every key but k; every worker but w, which    *)
(* takes a job, ends its detector or its job, or goes to one of these      *)
(* steps with the same job.                                                *)
(***************************************************************************)
Same(keys) == \A x \in keys : expiry'[x] = expiry[x] /\ count'[x] = count[x]

Changes(k) ==
    /\ RedisOK'
    /\ Same(Key \ {k})

Advances(w) ==
    /\ work'[w].job = work[w].job
    /\ work'[w].det = Following(work[w].det, work[w].job)

Moves(w, steps) ==
    /\ work' = [v \in Worker |-> work'[v]]
    /\ \A v \in Worker : v # w => work'[v] = work[v]
    /\ Proper(work'[w])
    /\ \/ work'[w] = Idle
       \/ work'[w].at = "count" /\ (At(w, "idle") \/ Advances(w))
       \/ /\ work'[w].at \in steps
          /\ work'[w].job = work[w].job /\ work'[w].det = work[w].det

\* Each command changes its own key only, and this is what it does to it.
LEMMA Commands ==
  ASSUME RedisOK, clock \in Nat, NEW k \in Key, NEW m \in Api \cup Ip,
         NEW ttl \in Nat
  PROVE  /\ INCR(k) => /\ Changes(k) /\ count'[k] = count[k] + 1
                       /\ expiry'[k] = IF Exists(k) THEN expiry[k] ELSE Forever
         /\ SADD(k, m) => Changes(k)
         /\ EXPIRE(k, ttl) =>
              /\ Changes(k) /\ count' = count
              /\ expiry'[k] = IF Exists(k) THEN clock + ttl ELSE None
         /\ SET(k) => Changes(k) /\ count' = count /\ expiry'[k] = Forever
         /\ SETNX(k) => /\ Changes(k) /\ count' = count
                        /\ expiry'[k] = IF Exists(k) THEN expiry[k] ELSE Forever
         /\ UNCHANGED redis => Changes(k)
  <1>0. \A x \in Key : IsFiniteSet(members[x] \cup {m})
    BY FS_AddElement DEF RedisOK
  <1> USE DEF RedisOK, Changes, Same, Exists, Touch, None, Forever
  <1>1. INCR(k) => /\ Changes(k) /\ count'[k] = count[k] + 1
                   /\ expiry'[k] = IF Exists(k) THEN expiry[k] ELSE Forever
    BY DEF INCR
  <1>2. SADD(k, m) => Changes(k)
    BY <1>0 DEF SADD
  <1>3. EXPIRE(k, ttl) => /\ Changes(k) /\ count' = count
                          /\ expiry'[k] = IF Exists(k) THEN clock + ttl ELSE None
    BY DEF EXPIRE
  <1>4. SET(k) => Changes(k) /\ count' = count /\ expiry'[k] = Forever
    BY DEF SET
  <1>5. SETNX(k) => /\ Changes(k) /\ count' = count
                    /\ expiry'[k] = IF Exists(k) THEN expiry[k] ELSE Forever
    BY DEF SETNX
  <1>6. UNCHANGED redis => Changes(k)
    BY DEF redis
  <1> HIDE DEF RedisOK, Changes, Same, Exists, Touch, None, Forever
  <1> QED
    BY <1>1, <1>2, <1>3, <1>4, <1>5, <1>6

\* A worker that is not idle has a task.
LEMMA Busy ==
  ASSUME AbuseInv, NEW w \in Worker, work[w].at # "idle"
  PROVE  /\ work[w] \in Task /\ Proper(work[w])
         /\ work[w].job \in Job /\ work[w].det \in Detector
         /\ work[w].job.ip \in Ip /\ work[w].job.api \in Api
         /\ work[w].at \in Escalation => work[w].det # "key" /\ ready
         /\ work[w].det = "key" => work[w].job.key \in ApiKey
  <1>1. Proper(work[w]) /\ work[w] # Idle
    BY DEF AbuseInv, Idle
  <1>2. work[w] \in Task /\ (work[w].det = "key" => work[w].job.key \in ApiKey /\ work[w].at \in Steps)
    BY <1>1 DEF Proper
  <1>3. work[w].job \in Job /\ work[w].det \in Detector
    BY <1>2 DEF Task
  <1>4. work[w].job.ip \in Ip /\ work[w].job.api \in Api
    BY <1>3 DEF Job
  <1>5. work[w].at \in Escalation => work[w].det # "key" /\ ready
    BY <1>2 DEF Steps, Escalation, AbuseInv
  <1> QED
    BY <1>1, <1>2, <1>3, <1>4, <1>5

\* To the next call of the same detector.
LEMMA GotoMoves ==
  ASSUME AbuseInv, NEW w \in Worker, work[w].at # "idle",
         NEW step \in Steps \cup Escalation,
         work[w].det = "key" => step \in Steps, Goto(w, step)
  PROVE  Moves(w, {step}) /\ work'[w].at = step
  <1>1. work[w] \in Task /\ (work[w].det = "key" => work[w].job.key \in ApiKey)
    BY Busy
  <1>2. work'[w] = [work[w] EXCEPT !.at = step]
    BY DEF Goto, AbuseInv
  <1>3. work' = [v \in Worker |-> work'[v]] /\ \A v \in Worker : v # w => work'[v] = work[v]
    BY DEF Goto, AbuseInv
  <1>4. /\ work'[w] \in Task /\ work'[w].at = step /\ work'[w].job = work[w].job
        /\ work'[w].det = work[w].det
    BY <1>1, <1>2 DEF Task
  <1>5. Proper(work'[w])
    BY <1>1, <1>4 DEF Proper
  <1> QED
    BY <1>3, <1>4, <1>5 DEF Moves

\* To the next detector, or to the end of the job.
LEMMA NextDetectorMoves ==
  ASSUME AbuseInv, NEW w \in Worker, work[w].at # "idle", NextDetector(w)
  PROVE  Moves(w, {})
  <1> DEFINE d == Following(work[w].det, work[w].job)
             next == [work[w] EXCEPT !.at = "count", !.det = d, !.n = 0]
  <1>1. work[w].job \in Job /\ work[w].det \in Detector /\ work[w] \in Task
    BY Busy
  <1>2. d = "end" \/ (d \in Detector /\ (d = "key" => work[w].job.key \in ApiKey))
    BY <1>1 DEF Following, Detector, Job, NoKey
  <1>3. work' = [work EXCEPT ![w] = IF d = "end" THEN Idle ELSE next]
    BY DEF NextDetector
  <1> HIDE DEF d
  <1>4. d # "end" => next \in Task /\ Proper(next)
    BY <1>1, <1>2 DEF Proper, Task, Steps
  <1>5. work' = [v \in Worker |-> work'[v]] /\ \A v \in Worker : v # w => work'[v] = work[v]
    BY <1>3 DEF AbuseInv
  <1>6. work'[w] = IF d = "end" THEN Idle ELSE next
    BY <1>3 DEF AbuseInv
  <1>7. d # "end" => Advances(w)
    BY <1>1, <1>6 DEF Advances, Task, d
  <1> QED
    BY <1>4, <1>5, <1>6, <1>7 DEF Moves, Proper

\* To the block, when the count is large enough.
LEMMA JudgeMoves ==
  ASSUME AbuseInv, NEW w \in Worker, work[w].at # "idle", NEW n \in Nat, Judge(w, n)
  PROVE  /\ Moves(w, {"setnx"})
         /\ work'[w].at = "setnx" => n >= Threshold[work[w].det]
  <1>1. CASE n >= Threshold[work[w].det]
    <2> DEFINE next == [work[w] EXCEPT !.at = "setnx", !.n = n]
    <2>1. work' = [work EXCEPT ![w] = next]
      BY <1>1 DEF Judge, AbuseInv
    <2>2. work[w] \in Task /\ (work[w].det = "key" => work[w].job.key \in ApiKey)
      BY Busy
    <2>3. next \in Task /\ next.at = "setnx" /\ next.job = work[w].job /\ next.det = work[w].det
      BY <2>2 DEF Task, Steps
    <2> HIDE DEF next
    <2>4. Proper(next)
      BY <2>2, <2>3 DEF Proper, Steps
    <2>5. /\ work' = [v \in Worker |-> work'[v]] /\ work'[w] = next
          /\ \A v \in Worker : v # w => work'[v] = work[v]
      BY <2>1 DEF AbuseInv
    <2> QED
      BY <1>1, <2>3, <2>4, <2>5 DEF Moves
  <1>2. CASE ~(n >= Threshold[work[w].det])
    <2>1. Moves(w, {})
      BY <1>2, NextDetectorMoves DEF Judge
    <2> QED
      BY <2>1 DEF Moves, Idle
  <1> QED
    BY <1>1, <1>2

\* To a longer block, or to a permanent one.
LEMMA JudgeBlocksMoves ==
  ASSUME AbuseInv, NEW w \in Worker, work[w].at \in Escalation, NEW n \in Nat,
         JudgeBlocks(w, n)
  PROVE  /\ Moves(w, {"setnxPermanent", "setEscalated"})
         /\ work'[w].at = "setnxPermanent" => n >= PermanentThreshold
         /\ work'[w].at = "setEscalated" =>
              n >= EscalationThreshold /\ ~(n >= PermanentThreshold)
  <1>1. work[w].at # "idle" /\ work[w].det # "key"
    BY Busy DEF Escalation
  <1>2. CASE n >= PermanentThreshold
    <2>1. Moves(w, {"setnxPermanent"}) /\ work'[w].at = "setnxPermanent"
      BY <1>1, <1>2, GotoMoves DEF JudgeBlocks, Escalation
    <2> QED
      BY <1>2, <2>1 DEF Moves
  <1>3. CASE ~(n >= PermanentThreshold) /\ n >= EscalationThreshold
    <2>1. Moves(w, {"setEscalated"}) /\ work'[w].at = "setEscalated"
      BY <1>1, <1>3, GotoMoves DEF JudgeBlocks, Escalation
    <2> QED
      BY <1>3, <2>1 DEF Moves
  <1>4. CASE ~(n >= PermanentThreshold) /\ ~(n >= EscalationThreshold)
    <2>1. Moves(w, {})
      BY <1>1, <1>4, NextDetectorMoves DEF JudgeBlocks
    <2> QED
      BY <2>1 DEF Moves, Idle
  <1> QED
    BY <1>2, <1>3, <1>4

(***************************************************************************)
(* The steps of a worker.  Until it sets a block it touches none.          *)
(***************************************************************************)
Counting == {"ttl", "expire", "card", "setnx"}
Apart == UNCHANGED <<clock, ready, queue, arrived, cut>>
Elsewhere == Apart /\ UNCHANGED overlap

\* Counting, with its TTL and its size, touches no block.
LEMMA CountingSteps ==
  ASSUME AbuseInv, AbuseAssumption, NEW w \in Worker,
         Count(w) \/ ReadTtl(w) \/ ExpireCounter(w) \/ ReadSize(w)
  PROVE  Moves(w, Counting) /\ RedisOK' /\ Same(Watched) /\ Elsewhere /\ rows' = rows
  <1> DEFINE k == CounterKey(work[w].det, work[w].job)
             d == work[w].det
  <1>1. work[w].at # "idle" /\ work[w].at \in Steps
    BY DEF Count, ReadTtl, ExpireCounter, ReadSize, At, Steps
  <1>2. /\ d \in Detector /\ work[w].job \in Job /\ work[w].n \in Nat
        /\ work[w].job.ip \in Ip /\ work[w].job.api \in Api
        /\ d = "key" => work[w].job.key \in ApiKey
    BY <1>1, Busy DEF Task
  <1>3. Watched \subseteq Key /\ k \in Key /\ k \notin Watched
    BY <1>2, DetectorKeys
  <1>4. RedisOK /\ clock \in Nat
    BY AbuseAssumption DEF AbuseInv, AbuseAssumption
  <1>5. Elsewhere /\ rows' = rows
    BY DEF Count, ReadTtl, ExpireCounter, ReadSize, Elsewhere, Apart, faults
  <1> HIDE DEF k
  <1>6. \A n \in Nat : Judge(w, n) => Moves(w, Counting)
    <2> SUFFICES ASSUME NEW n \in Nat, Judge(w, n) PROVE Moves(w, Counting)
      OBVIOUS
    <2>1. Moves(w, {"setnx"})
      BY <1>1, JudgeMoves
    <2> QED
      BY <2>1 DEF Moves, Counting
  <1>7. \A step \in Counting : Goto(w, step) => Moves(w, Counting)
    <2> SUFFICES ASSUME NEW step \in Counting, Goto(w, step) PROVE Moves(w, Counting)
      OBVIOUS
    <2>1. Moves(w, {step})
      BY <1>1, GotoMoves DEF Counting, Steps
    <2> QED
      BY <2>1 DEF Moves, Counting
  <1>8. ASSUME NEW n \in Nat,
               work' = [work EXCEPT ![w].at = "expire", ![w].n = n]
        PROVE  Moves(w, Counting)
    <2> DEFINE next == [work[w] EXCEPT !.at = "expire", !.n = n]
    <2>1. work[w] \in Task
      BY <1>1, Busy
    <2>2. next \in Task /\ next.at = "expire" /\ next.job = work[w].job /\ next.det = d
      BY <2>1 DEF Task, Steps
    <2>3. work' = [work EXCEPT ![w] = next]
      BY <1>8 DEF AbuseInv
    <2> HIDE DEF next
    <2>4. Proper(next)
      BY <1>2, <2>2 DEF Proper, Steps
    <2> QED
      BY <2>2, <2>3, <2>4 DEF Moves, Counting, AbuseInv
  <1>9. Changes(k) => RedisOK' /\ Same(Watched)
    BY <1>3 DEF Changes, Same
  <1>10. CASE Count(w)
    <2>1. CASE d \in {"spike", "error"}
      <3>1. INCR(k) /\ \/ work' = [work EXCEPT ![w].at = "expire", ![w].n = 1]
                       \/ Judge(w, count'[k])
        BY <1>10, <2>1 DEF Count, k
      <3>2. Changes(k) /\ count'[k] \in Nat
        BY <1>3, <1>4, <3>1, Commands, <1>2 DEF RedisOK
      <3> QED
        BY <1>5, <1>6, <1>8, <1>9, <3>1, <3>2
    <2>2. CASE d = "breadth"
      <3>1. SADD(k, work[w].job.api) /\ Goto(w, "ttl")
        BY <1>10, <2>2 DEF Count, k
      <3>2. Changes(k)
        BY <1>2, <1>3, <1>4, <3>1, Commands
      <3> QED
        BY <1>5, <1>7, <1>9, <3>1, <3>2 DEF Counting
    <2>3. CASE d = "key"
      <3>1. SADD(k, work[w].job.ip) /\ Goto(w, "ttl")
        BY <1>10, <2>3 DEF Count, k
      <3>2. Changes(k)
        BY <1>2, <1>3, <1>4, <3>1, Commands
      <3> QED
        BY <1>5, <1>7, <1>9, <3>1, <3>2 DEF Counting
    <2> QED
      BY <1>2, <2>1, <2>2, <2>3 DEF Detector
  <1>11. CASE ReadTtl(w)
    <2>1. UNCHANGED redis /\ (Goto(w, "expire") \/ Goto(w, "card"))
      BY <1>11 DEF ReadTtl
    <2>2. Changes(k)
      BY <1>2, <1>3, <1>4, <2>1, Commands
    <2> QED
      BY <1>5, <1>7, <1>9, <2>1, <2>2 DEF Counting
  <1>12. CASE ExpireCounter(w)
    <2>1. EXPIRE(k, Window[d]) /\ (Judge(w, work[w].n) \/ Goto(w, "card"))
      BY <1>12 DEF ExpireCounter, k
    <2>2. Window[d] \in Nat
      BY <1>2, AbuseAssumption DEF AbuseAssumption
    <2>3. Changes(k)
      BY <1>2, <1>3, <1>4, <2>1, <2>2, Commands
    <2> QED
      BY <1>2, <1>5, <1>6, <1>7, <1>9, <2>1, <2>3 DEF Counting
  <1>13. CASE ReadSize(w)
    <2>1. UNCHANGED redis /\ Judge(w, Cardinality(members[k]))
      BY <1>13 DEF ReadSize, k
    <2>2. Cardinality(members[k]) \in Nat
      BY <1>3, <1>4, FS_CardinalityType DEF RedisOK
    <2>3. Changes(k)
      BY <1>2, <1>3, <1>4, <2>1, Commands
    <2> QED
      BY <1>5, <1>6, <1>9, <2>1, <2>2, <2>3
  <1> QED
    BY <1>10, <1>11, <1>12, <1>13

\* The command of a step on the key of a block, of the marker or of the count.
LEMMA WatchedCommands ==
  ASSUME AbuseInv, AbuseAssumption, NEW w \in Worker, work[w].at # "idle"
  PROVE  /\ clock \in Nat /\ RedisOK
         /\ \A d \in Detector : BlockTtl[d] \in Nat \ {0}
         /\ {BlockKey(work[w].det, work[w].job), BlockOf(work[w].job.ip),
             PermanentOf(work[w].job.ip), BlocksOf(work[w].job.ip)} \subseteq Watched
         /\ Watched \subseteq Key /\ Key # {} /\ Api \cup Ip # {}
  <1>1. work[w].job \in Job /\ work[w].det \in Detector /\ work[w].job.ip \in Ip
        /\ (work[w].det = "key" => work[w].job.key \in ApiKey)
    BY Busy
  <1>2. BlockKey(work[w].det, work[w].job) \in Watched /\ Watched \subseteq Key
    BY <1>1, DetectorKeys
  <1> QED
    BY <1>1, <1>2, AbuseAssumption DEF Watched, AbuseInv, AbuseAssumption

\* SETNX of the block: the winner goes on to its TTL, the loser leaves.
LEMMA SetBlockStep ==
  ASSUME AbuseInv, AbuseAssumption, NEW w \in Worker, SetBlock(w),
         NEW k, k = BlockKey(work[w].det, work[w].job)
  PROVE  /\ Apart /\ rows' = rows /\ Changes(k) /\ count' = count
         /\ expiry'[k] = IF Exists(k) THEN expiry[k] ELSE Forever
         /\ Exists(k) => Moves(w, {}) /\ UNCHANGED overlap
         /\ ~Exists(k) => /\ Moves(w, {"expireBlock"}) /\ work'[w].at = "expireBlock"
                          /\ Overlaps(w, k)
  <1>1. work[w].at # "idle" /\ work[w].at \in Steps /\ At(w, "setnx")
    BY DEF SetBlock, At, Steps
  <1>2. /\ SETNX(k) /\ Apart /\ rows' = rows
        /\ IF Exists(k) THEN NextDetector(w) /\ UNCHANGED overlap
           ELSE Goto(w, "expireBlock") /\ Overlaps(w, k)
    BY DEF SetBlock, Apart
  <1>3. k \in Key /\ RedisOK /\ clock \in Nat /\ Api \cup Ip # {}
    BY <1>1, WatchedCommands
  <1>4. Changes(k) /\ count' = count
        /\ expiry'[k] = IF Exists(k) THEN expiry[k] ELSE Forever
    BY <1>2, <1>3, Commands
  <1>5. Exists(k) => Moves(w, {}) /\ UNCHANGED overlap
    BY <1>1, <1>2, NextDetectorMoves
  <1>6. ~Exists(k) => /\ Moves(w, {"expireBlock"}) /\ work'[w].at = "expireBlock"
                      /\ Overlaps(w, k)
    BY <1>1, <1>2, GotoMoves DEF Steps
  <1> QED
    BY <1>2, <1>4, <1>5, <1>6

\* EXPIRE of the block.
LEMMA ExpireBlockStep ==
  ASSUME AbuseInv, AbuseAssumption, NEW w \in Worker, ExpireBlock(w),
         NEW k, k = BlockKey(work[w].det, work[w].job)
  PROVE  /\ Elsewhere /\ rows' = rows /\ Changes(k) /\ count' = count
         /\ expiry'[k] \notin {Forever}
         /\ expiry'[k] = None <=> expiry[k] = None
         /\ Moves(w, {"insert"}) /\ work'[w].at = "insert"
  <1>1. work[w].at # "idle" /\ work[w].at \in Steps
    BY DEF ExpireBlock, At, Steps
  <1>2. EXPIRE(k, BlockTtl[work[w].det]) /\ Elsewhere /\ rows' = rows /\ Goto(w, "insert")
    BY DEF ExpireBlock, Elsewhere, Apart, faults
  <1>3. k \in Key /\ RedisOK /\ clock \in Nat /\ Api \cup Ip # {}
        /\ BlockTtl[work[w].det] \in Nat
    BY <1>1, WatchedCommands, Busy
  <1>4. Changes(k) /\ count' = count
        /\ expiry'[k] = IF Exists(k) THEN clock + BlockTtl[work[w].det] ELSE None
    BY <1>2, <1>3, Commands
  <1>5. expiry'[k] \notin {Forever} /\ (expiry'[k] = None <=> expiry[k] = None)
    BY <1>3, <1>4 DEF Exists, None, Forever
  <1>6. Moves(w, {"insert"}) /\ work'[w].at = "insert"
    BY <1>1, <1>2, GotoMoves DEF Steps
  <1> QED
    BY <1>2, <1>4, <1>5, <1>6

\* The row of a block.
LEMMA InsertStep ==
  ASSUME AbuseInv, AbuseAssumption, NEW w \in Worker, Insert(w)
  PROVE  /\ Elsewhere /\ UNCHANGED redis /\ RedisOK' /\ ready
         /\ rows' = rows \cup {[n |-> Cardinality(rows), reason |-> work[w].det,
                                ip |-> IF work[w].det = "key" THEN "null"
                                       ELSE work[w].job.ip, at |-> clock]}
         /\ work[w].det = "key" => Moves(w, {})
         /\ work[w].det # "key" => Moves(w, {"escalate"}) /\ work'[w].at = "escalate"
  <1>1. work[w].at # "idle" /\ work[w].at \in Steps
    BY DEF Insert, At, Steps
  <1>2. work[w].det = "key" => Moves(w, {})
    BY <1>1, NextDetectorMoves DEF Insert
  <1>3. work[w].det # "key" => Moves(w, {"escalate"}) /\ work'[w].at = "escalate"
    BY <1>1, GotoMoves DEF Insert, Escalation
  <1>4. Elsewhere /\ UNCHANGED redis /\ ready
    BY DEF Insert, Elsewhere, Apart, faults
  <1>5. RedisOK'
    BY <1>4 DEF AbuseInv, RedisOK, redis
  <1> QED
    BY <1>2, <1>3, <1>4, <1>5 DEF Insert

\* INCR of the count of blocks.
LEMMA CountBlockStep ==
  ASSUME AbuseInv, AbuseAssumption, NEW w \in Worker, CountBlock(w),
         NEW k, k = BlocksOf(work[w].job.ip)
  PROVE  /\ Elsewhere /\ rows' = rows /\ Changes(k) /\ count'[k] = count[k] + 1
         /\ expiry'[k] = IF Exists(k) THEN expiry[k] ELSE Forever
         /\ Moves(w, {"expireBlocks", "setnxPermanent", "setEscalated"})
         /\ work'[w].at = "setnxPermanent" => count'[k] >= PermanentThreshold
         /\ work'[w].at = "setEscalated" => ~(count'[k] >= PermanentThreshold)
         /\ work'[w].at = "setEscalated" => count'[k] >= EscalationThreshold
         /\ work'[w].at = "expireBlocks" => count'[k] = 1
         /\ count'[k] = 1 => work'[w].at = "expireBlocks"
  <1>1. work[w].at # "idle" /\ work[w].at \in Escalation
    BY DEF CountBlock, At, Escalation
  <1>2. INCR(k) /\ Elsewhere /\ rows' = rows
        /\ IF count'[k] = 1 THEN Goto(w, "expireBlocks") ELSE JudgeBlocks(w, count'[k])
    BY DEF CountBlock, Elsewhere, Apart, faults
  <1>3. k \in Key /\ RedisOK /\ clock \in Nat /\ Api \cup Ip # {}
    BY <1>1, WatchedCommands
  <1>4. Changes(k) /\ count'[k] = count[k] + 1 /\ count'[k] \in Nat
        /\ expiry'[k] = IF Exists(k) THEN expiry[k] ELSE Forever
    BY <1>2, <1>3, Commands DEF RedisOK
  <1>5. CASE count'[k] = 1
    <2>1. work[w].det # "key"
      BY <1>1, Busy
    <2>2. Moves(w, {"expireBlocks"}) /\ work'[w].at = "expireBlocks"
      BY <1>1, <1>2, <1>5, <2>1, GotoMoves DEF Escalation
    <2>3. Moves(w, {"expireBlocks", "setnxPermanent", "setEscalated"})
      BY <2>2 DEF Moves
    <2> QED
      BY <1>2, <1>4, <1>5, <2>2, <2>3
  <1>6. CASE count'[k] # 1
    <2>1. /\ Moves(w, {"setnxPermanent", "setEscalated"})
          /\ work'[w].at = "setnxPermanent" => count'[k] >= PermanentThreshold
          /\ work'[w].at = "setEscalated" =>
               count'[k] >= EscalationThreshold /\ ~(count'[k] >= PermanentThreshold)
      BY <1>1, <1>2, <1>4, <1>6, JudgeBlocksMoves
    <2>2. work'[w].at # "expireBlocks"
      BY <2>1 DEF Moves, Idle
    <2>3. Moves(w, {"expireBlocks", "setnxPermanent", "setEscalated"})
      BY <2>1 DEF Moves
    <2> QED
      BY <1>2, <1>4, <1>6, <2>1, <2>2, <2>3
  <1> QED
    BY <1>5, <1>6

\* EXPIRE of the count: the first block never escalates.
LEMMA ExpireBlocksStep ==
  ASSUME AbuseInv, AbuseAssumption, NEW w \in Worker, ExpireBlocks(w),
         NEW k, k = BlocksOf(work[w].job.ip)
  PROVE  /\ Elsewhere /\ rows' = rows /\ Changes(k) /\ count' = count /\ Moves(w, {})
         /\ expiry'[k] = IF Exists(k) THEN clock + PermanentWindow ELSE None
  <1>1. work[w].at # "idle" /\ work[w].at \in Escalation
    BY DEF ExpireBlocks, At, Escalation
  <1>2. EXPIRE(k, PermanentWindow) /\ Elsewhere /\ rows' = rows /\ JudgeBlocks(w, 1)
    BY DEF ExpireBlocks, Elsewhere, Apart, faults
  <1>3. k \in Key /\ RedisOK /\ clock \in Nat /\ Api \cup Ip # {} /\ PermanentWindow \in Nat
    BY <1>1, WatchedCommands, AbuseAssumption DEF AbuseAssumption
  <1>4. Changes(k) /\ count' = count
        /\ expiry'[k] = IF Exists(k) THEN clock + PermanentWindow ELSE None
    BY <1>2, <1>3, Commands
  <1>5. ~(1 >= PermanentThreshold) /\ ~(1 >= EscalationThreshold)
    <2>1. EscalationThreshold \in Nat \ {0, 1} /\ PermanentThreshold > EscalationThreshold
          /\ PermanentThreshold \in Int
      BY AbuseAssumption DEF AbuseAssumption
    <2> QED
      BY <2>1
  <1>6. NextDetector(w)
    BY <1>2, <1>5 DEF JudgeBlocks
  <1> QED
    BY <1>1, <1>2, <1>4, <1>6, NextDetectorMoves

\* SETNX of the marker: only the winner makes the block permanent.
LEMMA SetPermanentMarkerStep ==
  ASSUME AbuseInv, AbuseAssumption, NEW w \in Worker, SetPermanentMarker(w),
         NEW k, k = PermanentOf(work[w].job.ip)
  PROVE  /\ Elsewhere /\ rows' = rows /\ Changes(k) /\ count' = count
         /\ expiry'[k] = IF Exists(k) THEN expiry[k] ELSE Forever
         /\ Exists(k) => Moves(w, {})
         /\ ~Exists(k) => Moves(w, {"setPermanent"}) /\ work'[w].at = "setPermanent"
  <1>1. work[w].at # "idle" /\ work[w].at \in Escalation
    BY DEF SetPermanentMarker, At, Escalation
  <1>2. SETNX(k) /\ Elsewhere /\ rows' = rows
        /\ IF Exists(k) THEN NextDetector(w) ELSE Goto(w, "setPermanent")
    BY DEF SetPermanentMarker, Elsewhere, Apart, faults
  <1>3. k \in Key /\ RedisOK /\ clock \in Nat /\ Api \cup Ip # {}
    BY <1>1, WatchedCommands
  <1>4. Changes(k) /\ count' = count
        /\ expiry'[k] = IF Exists(k) THEN expiry[k] ELSE Forever
    BY <1>2, <1>3, Commands
  <1>5. Exists(k) => Moves(w, {})
    BY <1>1, <1>2, NextDetectorMoves
  <1>6. ~Exists(k) => Moves(w, {"setPermanent"}) /\ work'[w].at = "setPermanent"
    <2>1. work[w].det # "key"
      BY <1>1, Busy
    <2> QED
      BY <1>1, <1>2, <2>1, GotoMoves DEF Escalation
  <1> QED
    BY <1>2, <1>4, <1>5, <1>6

\* SET of the block, without TTL: for good, or until the next step.
LEMMA SetLongerStep ==
  ASSUME AbuseInv, AbuseAssumption, NEW w \in Worker,
         SetPermanent(w) \/ SetEscalated(w), NEW k, k = BlockOf(work[w].job.ip)
  PROVE  /\ Elsewhere /\ rows' = rows /\ Changes(k) /\ count' = count
         /\ expiry'[k] = Forever
         /\ SetPermanent(w) => /\ Moves(w, {"insertPermanent"})
                               /\ work'[w].at = "insertPermanent"
         /\ SetEscalated(w) => /\ Moves(w, {"expireEscalated"})
                               /\ work'[w].at = "expireEscalated"
  <1>1. work[w].at # "idle" /\ work[w].at \in Escalation /\ work[w].det # "key"
    <2>1. work[w].at # "idle" /\ work[w].at \in Escalation
      BY DEF SetPermanent, SetEscalated, At, Escalation
    <2> QED
      BY <2>1, Busy
  <1>2. SET(k) /\ Elsewhere /\ rows' = rows
    BY DEF SetPermanent, SetEscalated, Elsewhere, Apart, faults
  <1>3. k \in Key /\ RedisOK /\ clock \in Nat /\ Api \cup Ip # {}
    BY <1>1, WatchedCommands
  <1>4. Changes(k) /\ count' = count /\ expiry'[k] = Forever
    BY <1>2, <1>3, Commands
  <1>5. SetPermanent(w) => /\ Moves(w, {"insertPermanent"})
                           /\ work'[w].at = "insertPermanent"
    BY <1>1, GotoMoves DEF SetPermanent, Escalation
  <1>6. SetEscalated(w) => /\ Moves(w, {"expireEscalated"})
                           /\ work'[w].at = "expireEscalated"
    BY <1>1, GotoMoves DEF SetEscalated, Escalation
  <1> QED
    BY <1>2, <1>4, <1>5, <1>6

\* The row of a permanent block; it escalates again.
LEMMA InsertPermanentStep ==
  ASSUME AbuseInv, AbuseAssumption, NEW w \in Worker, InsertPermanent(w)
  PROVE  /\ Elsewhere /\ UNCHANGED redis /\ RedisOK'
         /\ rows' = rows \cup {[n |-> Cardinality(rows), reason |-> "permanent",
                                ip |-> work[w].job.ip, at |-> clock]}
         /\ Moves(w, {"escalate"}) /\ work'[w].at = "escalate"
  <1>1. work[w].at # "idle" /\ work[w].at \in Escalation /\ work[w].det # "key"
    <2>1. work[w].at # "idle" /\ work[w].at \in Escalation
      BY DEF InsertPermanent, At, Escalation
    <2> QED
      BY <2>1, Busy
  <1>2. Moves(w, {"escalate"}) /\ work'[w].at = "escalate"
    BY <1>1, GotoMoves DEF InsertPermanent, Escalation
  <1>3. Elsewhere /\ UNCHANGED redis
    BY DEF InsertPermanent, Elsewhere, Apart, faults
  <1>4. RedisOK'
    BY <1>3 DEF AbuseInv, RedisOK, redis
  <1> QED
    BY <1>2, <1>3, <1>4 DEF InsertPermanent

\* EXPIRE of an escalated block.
LEMMA ExpireEscalatedStep ==
  ASSUME AbuseInv, AbuseAssumption, NEW w \in Worker, ExpireEscalated(w),
         NEW k, k = BlockOf(work[w].job.ip)
  PROVE  /\ Elsewhere /\ rows' = rows /\ Changes(k) /\ count' = count /\ Moves(w, {})
         /\ expiry'[k] \notin {Forever}
         /\ expiry'[k] = None <=> expiry[k] = None
  <1>1. work[w].at # "idle"
    BY DEF ExpireEscalated, At
  <1>2. EXPIRE(k, EscalatedTtl) /\ Elsewhere /\ rows' = rows /\ NextDetector(w)
    BY DEF ExpireEscalated, Elsewhere, Apart, faults
  <1>3. k \in Key /\ RedisOK /\ clock \in Nat /\ Api \cup Ip # {} /\ EscalatedTtl \in Nat
    BY <1>1, WatchedCommands, AbuseAssumption DEF AbuseAssumption
  <1>4. Changes(k) /\ count' = count
        /\ expiry'[k] = IF Exists(k) THEN clock + EscalatedTtl ELSE None
    BY <1>2, <1>3, Commands
  <1>5. expiry'[k] \notin {Forever} /\ (expiry'[k] = None <=> expiry[k] = None)
    BY <1>3, <1>4 DEF Exists, None, Forever
  <1> QED
    BY <1>1, <1>2, <1>4, <1>5, NextDetectorMoves

\* What a job that failed or stalled leaves in the queue is a job.
LEMMA Redelivery ==
  ASSUME AbuseAssumption, NEW job \in Job
  PROVE  Retry(job) \subseteq Job /\ Recover(job) \subseteq Job
  <1>1. MaxAttempts \in Nat /\ MaxStalls \in Nat
    BY AbuseAssumption DEF AbuseAssumption
  <1>2. job.attempt < MaxAttempts => [job EXCEPT !.attempt = @ + 1] \in Job
    BY <1>1 DEF Job
  <1>3. job.stalls < MaxStalls => [job EXCEPT !.stalls = @ + 1] \in Job
    BY <1>1 DEF Job
  <1> QED
    BY <1>2, <1>3 DEF Retry, Recover

\* Failures end a job or queue it again; no key and no row changes.
LEMMA FailStep ==
  ASSUME AbuseInv, AbuseAssumption, NEW w \in Worker, Fail(w) \/ InsertThrows(w)
  PROVE  /\ UNCHANGED <<clock, ready, arrived, overlap, rows>> /\ UNCHANGED redis
         /\ RedisOK' /\ Moves(w, {}) /\ work'[w] = Idle /\ queue' \subseteq Job
         /\ Fail(w) => cut' = cut \cup Unfinished(w)
         /\ InsertThrows(w) => cut' = cut /\ ~ready
  <1>1. work[w].at # "idle" /\ Throws(w)
    BY DEF Fail, InsertThrows, At
  <1>2. work[w].job \in Job
    BY <1>1, Busy
  <1>3. UNCHANGED <<clock, ready, arrived, overlap, rows>> /\ UNCHANGED redis
    BY <1>1 DEF Throws
  <1>4. RedisOK'
    BY <1>3 DEF AbuseInv, RedisOK, redis
  <1>5. Moves(w, {}) /\ work'[w] = Idle
    BY <1>1 DEF Throws, AbuseInv, Moves, Proper
  <1>6. queue' \subseteq Job
    BY <1>1, <1>2, Redelivery DEF Throws, AbuseInv
  <1> QED
    BY <1>3, <1>4, <1>5, <1>6 DEF Fail, InsertThrows

\* The tasks of the workers, whoever holds the lock of a job.
Unmoved ==
    \A v \in Worker : /\ work'[v].at = work[v].at /\ work'[v].job = work[v].job
                      /\ work'[v].det = work[v].det /\ work'[v].n = work[v].n

\* A worker that loses its lock goes on with its task, or dies.
LEMMA StallStep ==
  ASSUME AbuseInv, AbuseAssumption, NEW w \in Worker, Stall(w)
  PROVE  /\ UNCHANGED <<clock, ready, arrived, overlap, rows>> /\ UNCHANGED redis
         /\ RedisOK' /\ queue' \subseteq Job /\ work[w].at # "idle"
         /\ \/ /\ Unmoved /\ work' = [v \in Worker |-> work'[v]] /\ UNCHANGED cut
               /\ \A v \in Worker : Proper(work'[v])
            \/ /\ Moves(w, {}) /\ work'[w] = Idle /\ cut' = cut \cup Unfinished(w)
  <1>1. work[w].at # "idle"
    BY DEF Stall, At
  <1>2. work[w].job \in Job /\ work[w] \in Task /\ Proper(work[w])
        /\ (work[w].det = "key" => work[w].job.key \in ApiKey)
    BY <1>1, Busy
  <1>3. UNCHANGED <<clock, ready, arrived, overlap, rows>> /\ UNCHANGED redis
    BY DEF Stall
  <1>4. RedisOK'
    BY <1>3 DEF AbuseInv, RedisOK, redis
  <1>5. queue' \subseteq Job
    BY <1>2, Redelivery DEF Stall, AbuseInv
  <1>6. CASE work' = [work EXCEPT ![w].owned = FALSE] /\ UNCHANGED cut
    <2> DEFINE next == [work[w] EXCEPT !.owned = FALSE]
    <2>1. work' = [work EXCEPT ![w] = next]
      BY <1>6 DEF AbuseInv
    <2>2. /\ next \in Task /\ next.at = work[w].at /\ next.job = work[w].job
          /\ next.det = work[w].det /\ next.n = work[w].n
      BY <1>2 DEF Task
    <2> HIDE DEF next
    <2>3. Proper(next)
      BY <1>1, <1>2, <2>2 DEF Proper, Idle
    <2>4. /\ work' = [v \in Worker |-> work'[v]] /\ work'[w] = next
          /\ \A v \in Worker : v # w => work'[v] = work[v]
      BY <2>1 DEF AbuseInv
    <2>5. Unmoved
      BY <2>2, <2>4 DEF Unmoved
    <2>6. \A v \in Worker : Proper(work'[v])
      BY <2>3, <2>4 DEF AbuseInv
    <2> QED
      BY <1>1, <1>3, <1>4, <1>5, <1>6, <2>4, <2>5, <2>6
  <1>7. CASE work' = [work EXCEPT ![w] = Idle] /\ cut' = cut \cup Unfinished(w)
    <2>1. Moves(w, {}) /\ work'[w] = Idle
      BY <1>7 DEF AbuseInv, Moves, Proper
    <2> QED
      BY <1>1, <1>3, <1>4, <1>5, <1>7, <2>1
  <1> QED
    BY <1>6, <1>7 DEF Stall

\* A worker takes a job.
LEMMA TakeStep ==
  ASSUME AbuseInv, NEW w \in Worker, NEW job \in queue, Take(w, job)
  PROVE  /\ UNCHANGED <<clock, ready, arrived, rows, cut, overlap>> /\ UNCHANGED redis
         /\ RedisOK' /\ Moves(w, {}) /\ work'[w].at = "count" /\ queue' \subseteq Job
  <1> DEFINE next == [at |-> "count", job |-> job, owned |-> TRUE, det |-> "spike",
                      n |-> 0]
  <1>1. work' = [work EXCEPT ![w] = next]
    BY DEF Take
  <1>2. next \in Task /\ Proper(next)
    BY DEF AbuseInv, Task, Steps, Detector, Proper
  <1>3. UNCHANGED <<clock, ready, arrived, rows, cut, overlap>> /\ UNCHANGED redis
    BY DEF Take, faults
  <1>4. RedisOK'
    BY <1>3 DEF AbuseInv, RedisOK, redis
  <1>5. next.at = "count" /\ At(w, "idle")
    BY DEF Take
  <1> HIDE DEF next
  <1>6. /\ work' = [v \in Worker |-> work'[v]] /\ work'[w] = next
        /\ \A v \in Worker : v # w => work'[v] = work[v]
    BY <1>1 DEF AbuseInv
  <1>7. Moves(w, {}) /\ work'[w].at = "count"
    BY <1>2, <1>5, <1>6 DEF Moves
  <1> QED
    BY <1>3, <1>4, <1>7 DEF Take, AbuseInv

\* Time ends only what has a TTL, and no call but an insert takes any.
LEMMA TickStep ==
  ASSUME AbuseInv, AbuseAssumption, Tick
  PROVE  /\ UNCHANGED <<ready, queue, work, rows, arrived, cut, overlap>> /\ RedisOK'
         /\ clock' = clock + 1 /\ clock' \in 0..MaxTime
         /\ \A w \in Worker : work[w].at \in {"idle", "insert", "insertPermanent"}
         /\ \A k \in Key : \/ expiry'[k] = expiry[k] /\ count'[k] = count[k]
                           \/ expiry[k] >= 0 /\ expiry'[k] = None /\ count'[k] = 0
         /\ \A k \in Key : expiry'[k] >= 0 => clock' < expiry'[k]
  <1> DEFINE gone == {k \in Key : expiry[k] >= 0 /\ expiry[k] <= clock'}
  <1>1. /\ expiry' = [k \in Key |-> IF k \in gone THEN None ELSE expiry[k]]
        /\ count' = [k \in Key |-> IF k \in gone THEN 0 ELSE count[k]]
        /\ members' = [k \in Key |-> IF k \in gone THEN {} ELSE members[k]]
    BY DEF Tick
  <1>2. \A k \in gone : expiry[k] >= 0
    OBVIOUS
  <1> HIDE DEF gone
  <1>3. RedisOK'
    BY <1>1, FS_EmptySet DEF AbuseInv, RedisOK, None, Forever
  <1>4. \A k \in Key : \/ expiry'[k] = expiry[k] /\ count'[k] = count[k]
                       \/ expiry[k] >= 0 /\ expiry'[k] = None /\ count'[k] = 0
    BY <1>1, <1>2
  <1>5. clock' = clock + 1 /\ clock' \in 0..MaxTime
    BY AbuseAssumption DEF Tick, AbuseInv, AbuseAssumption
  <1>6. ASSUME NEW k \in Key, expiry'[k] >= 0 PROVE clock' < expiry'[k]
    <2>1. k \notin gone /\ expiry'[k] = expiry[k]
      BY <1>1, <1>6 DEF None
    <2>2. expiry[k] \in Nat \cup {None, Forever} /\ clock' \in Int
      BY <1>5 DEF AbuseInv, RedisOK
    <2> QED
      BY <1>6, <2>1, <2>2 DEF gone, None, Forever
  <1> QED
    BY <1>3, <1>4, <1>5, <1>6 DEF Tick, faults

\* A worker's move keeps the types.
LEMMA MoveKeepsTypes ==
  ASSUME AbuseInv, NEW w \in Worker, NEW steps, Moves(w, steps), RedisOK',
         clock' = clock, ready' = ready, arrived' = arrived, queue' \subseteq Job,
         steps \cap Escalation # {} => ready
  PROVE  AbuseInv'
  <1>1. work'[w].at \in Escalation => ready
    BY DEF Moves, Idle, Escalation
  <1>2. \A v \in Worker : Proper(work'[v]) /\ (work'[v].at \in Escalation => ready)
    BY <1>1 DEF Moves, AbuseInv
  <1> QED
    BY <1>2 DEF Moves, AbuseInv

\* Initially nobody works, and no key is set.
LEMMA AbuseInit ==
  ASSUME AbuseAssumption, Init
  PROVE  AbuseInv
  <1>1. RedisOK
    BY FS_EmptySet DEF Init, RedisOK
  <1>2. clock \in 0..MaxTime /\ ready \in BOOLEAN /\ arrived \in 0..MaxJobs
        /\ queue \subseteq Job
    BY AbuseAssumption DEF Init, AbuseAssumption
  <1>3. /\ work = [w \in Worker |-> work[w]]
        /\ \A w \in Worker : Proper(work[w]) /\ work[w].at \notin Escalation
    BY DEF Init, Proper, Idle, Escalation
  <1> QED
    BY <1>1, <1>2, <1>3 DEF AbuseInv

\* The types are inductive.
LEMMA AbuseInvStep ==
  ASSUME AbuseInv, AbuseAssumption, [Next]_vars
  PROVE  AbuseInv'
  <1>0. RedisOK /\ clock \in 0..MaxTime /\ queue \subseteq Job
    BY DEF AbuseInv
  <1>1. CASE Tick
    BY <1>1, TickStep DEF AbuseInv
  <1>2. ASSUME NEW req \in Requests, Arrive(req) PROVE AbuseInv'
    <2> DEFINE job == [id |-> arrived', api |-> req.api, ip |-> req.ip,
                       key |-> req.key, error |-> req.error, attempt |-> 1,
                       stalls |-> 0]
    <2>1. arrived' \in 1..MaxJobs /\ arrived' \in 0..MaxJobs
      BY <1>2, AbuseAssumption DEF Arrive, AbuseInv, AbuseAssumption
    <2>2. job \in Job
      BY <2>1, AbuseAssumption DEF Job, AbuseAssumption
    <2>3. queue' = queue \cup {job}
      BY <1>2 DEF Arrive
    <2> HIDE DEF job
    <2>4. queue' \subseteq Job
      BY <1>0, <2>2, <2>3
    <2>5. UNCHANGED <<clock, ready, redis, work, rows>>
      BY <1>2 DEF Arrive
    <2> QED
      BY <2>1, <2>4, <2>5 DEF AbuseInv, RedisOK, redis
  <1>3. ASSUME NEW w \in Worker, NEW job \in queue, Take(w, job) PROVE AbuseInv'
    BY <1>0, <1>3, TakeStep, MoveKeepsTypes
  <1>4. ASSUME NEW w \in Worker, WorkerStep(w) \/ Fail(w) \/ Stall(w) PROVE AbuseInv'
    <2> DEFINE ip == work[w].job.ip
    <2>1. CASE Count(w) \/ ReadTtl(w) \/ ExpireCounter(w) \/ ReadSize(w)
      <3>1. Moves(w, Counting) /\ RedisOK' /\ Elsewhere
        BY <2>1, CountingSteps
      <3>2. Counting \cap Escalation = {}
        BY DEF Counting, Escalation
      <3> QED
        BY <1>0, <3>1, <3>2, MoveKeepsTypes DEF Elsewhere, Apart
    <2>2. CASE SetBlock(w)
      <3>1. Apart /\ RedisOK' /\ (Moves(w, {}) \/ Moves(w, {"expireBlock"}))
        BY <2>2, SetBlockStep DEF Changes
      <3>2. {"expireBlock"} \cap Escalation = {}
        BY DEF Escalation
      <3> QED
        BY <1>0, <3>1, <3>2, MoveKeepsTypes DEF Apart
    <2>3. CASE ExpireBlock(w)
      <3>1. Elsewhere /\ RedisOK' /\ Moves(w, {"insert"})
        BY <2>3, ExpireBlockStep DEF Changes
      <3>2. {"insert"} \cap Escalation = {}
        BY DEF Escalation
      <3> QED
        BY <1>0, <3>1, <3>2, MoveKeepsTypes DEF Elsewhere, Apart
    <2>4. CASE Insert(w)
      <3>1. Elsewhere /\ RedisOK' /\ ready /\ (Moves(w, {}) \/ Moves(w, {"escalate"}))
        BY <2>4, InsertStep
      <3> QED
        BY <1>0, <3>1, MoveKeepsTypes DEF Elsewhere, Apart
    <2>5. CASE InsertThrows(w) \/ Fail(w)
      <3>1. /\ UNCHANGED <<clock, ready, arrived>> /\ RedisOK' /\ Moves(w, {})
            /\ queue' \subseteq Job
        BY <2>5, FailStep
      <3> QED
        BY <1>0, <3>1, MoveKeepsTypes
    <2>6. CASE work[w].at \in Escalation /\ WorkerStep(w)
      <3>1. work[w].at # "idle" /\ ready
        BY <2>6, Busy DEF Escalation
      <3>2. \/ CountBlock(w) \/ ExpireBlocks(w) \/ SetPermanentMarker(w)
            \/ SetPermanent(w) \/ InsertPermanent(w) \/ SetEscalated(w)
            \/ ExpireEscalated(w)
        BY <2>6, <3>1 DEF WorkerStep, Escalation, At, Count, ReadTtl, ExpireCounter,
             ReadSize, SetBlock, ExpireBlock, Insert, InsertThrows
      <3>3. Elsewhere /\ RedisOK' /\ \E steps : Moves(w, steps)
        <4>1. CASE CountBlock(w)
          BY <4>1, CountBlockStep DEF Changes
        <4>2. CASE ExpireBlocks(w)
          BY <4>2, ExpireBlocksStep DEF Changes
        <4>3. CASE SetPermanentMarker(w)
          BY <4>3, SetPermanentMarkerStep DEF Changes
        <4>4. CASE SetPermanent(w) \/ SetEscalated(w)
          BY <4>4, SetLongerStep DEF Changes
        <4>5. CASE InsertPermanent(w)
          BY <4>5, InsertPermanentStep
        <4>6. CASE ExpireEscalated(w)
          BY <4>6, ExpireEscalatedStep DEF Changes
        <4> QED
          BY <3>2, <4>1, <4>2, <4>3, <4>4, <4>5, <4>6
      <3> QED
        BY <1>0, <3>1, <3>3, MoveKeepsTypes DEF Elsewhere, Apart
    <2>7. WorkerStep(w) => \/ work[w].at \in Escalation \/ InsertThrows(w)
                           \/ Count(w) \/ ReadTtl(w) \/ ExpireCounter(w) \/ ReadSize(w)
                           \/ SetBlock(w) \/ ExpireBlock(w) \/ Insert(w)
      BY DEF WorkerStep, Escalation, At, CountBlock, ExpireBlocks, SetPermanentMarker,
           SetPermanent, InsertPermanent, SetEscalated, ExpireEscalated
    <2>8. CASE Stall(w)
      <3>1. /\ UNCHANGED <<clock, ready, arrived>> /\ RedisOK' /\ queue' \subseteq Job
            /\ \/ /\ Unmoved /\ work' = [v \in Worker |-> work'[v]]
                  /\ \A v \in Worker : Proper(work'[v])
               \/ Moves(w, {})
        BY <2>8, StallStep
      <3>2. CASE Moves(w, {})
        BY <3>1, <3>2, MoveKeepsTypes
      <3>3. CASE Unmoved /\ work' = [v \in Worker |-> work'[v]]
                 /\ \A v \in Worker : Proper(work'[v])
        BY <3>1, <3>3 DEF Unmoved, AbuseInv
      <3> QED
        BY <3>1, <3>2, <3>3
    <2> QED
      BY <1>4, <2>1, <2>2, <2>3, <2>4, <2>5, <2>6, <2>7, <2>8
  <1>5. CASE UNCHANGED vars
    BY <1>5 DEF vars, redis, AbuseInv, RedisOK
  <1> QED
    BY <1>1, <1>2, <1>3, <1>4, <1>5 DEF Next

\* In every reachable state of the specification.
LEMMA AbuseInvariant ==
  Spec => []AbuseInv
  <1>1. Init => AbuseInv
    BY AbuseInit, AbuseAssumption
  <1>2. AbuseInv /\ [Next]_vars => AbuseInv'
    BY AbuseInvStep, AbuseAssumption
  <1> QED
    BY <1>1, <1>2, PTL DEF Spec

(***************************************************************************)
(* Expiries, counts, sets, jobs and the task of every worker keep their    *)
(* types through every retry and stall: abuse.processor.ts never asks for  *)
(* a detector or a key that a job does not have.                           *)
(***************************************************************************)
THEOREM TypesHold ==
  Spec => []TypeOK
  <1>1. AbuseInv => TypeOK
    <2> SUFFICES ASSUME AbuseInv PROVE TypeOK
      OBVIOUS
    <2>1. \A w \in Worker : ~At(w, "idle") => work[w].job \in Job
      BY Busy DEF At
    <2> QED
      BY <2>1 DEF AbuseInv, RedisOK, TypeOK
  <1> QED
    BY <1>1, AbuseInvariant, PTL

(***************************************************************************)
(* Steps that touch no block: what they may do.  A worker that is cut off  *)
(* drops its job wherever it is, and leaves behind what it had begun.      *)
(***************************************************************************)
Still == /\ Unmoved /\ Same(Watched)
         /\ UNCHANGED <<clock, rows, ready, cut, overlap>>
Aside(w) ==
    /\ Moves(w, Counting) /\ Same(Watched)
    /\ UNCHANGED <<clock, rows, ready, cut, overlap>>
    /\ work[w].at \in {"idle", "count"} \cup Counting
Drops(w) ==
    /\ Moves(w, {}) /\ work'[w] = Idle /\ Same(Watched)
    /\ UNCHANGED <<clock, rows, ready, overlap>>
    /\ work[w].at # "idle" /\ cut' = cut \cup Unfinished(w)

\* Every step is one of these.
LEMMA NextCases ==
  ASSUME AbuseInv, AbuseAssumption, [Next]_vars
  PROVE  \/ Tick \/ Still
         \/ \E w \in Worker :
              \/ Aside(w) \/ Drops(w)
              \/ SetBlock(w) /\ ~Exists(BlockKey(work[w].det, work[w].job))
              \/ ExpireBlock(w) \/ Insert(w) \/ CountBlock(w) \/ ExpireBlocks(w)
              \/ SetPermanentMarker(w) \/ SetPermanent(w) \/ InsertPermanent(w)
              \/ SetEscalated(w) \/ ExpireEscalated(w)
  <1>0. UNCHANGED redis => Same(Watched)
    BY DEF redis, Same
  <1>1. UNCHANGED vars => Still
    BY <1>0 DEF vars, faults, Still, Unmoved
  <1>2. ASSUME NEW req \in Requests, Arrive(req) PROVE Still
    BY <1>0, <1>2 DEF Arrive, faults, Still, Unmoved
  <1>3. ASSUME NEW w \in Worker, NEW job \in queue, Take(w, job) PROVE Aside(w)
    <2>1. /\ UNCHANGED <<clock, ready, rows, cut, overlap>> /\ UNCHANGED redis
          /\ Moves(w, {}) /\ work[w].at = "idle"
      BY <1>3, TakeStep DEF Take, At
    <2> QED
      BY <1>0, <2>1 DEF Aside, Moves
  <1>4. ASSUME NEW w \in Worker,
               Count(w) \/ ReadTtl(w) \/ ExpireCounter(w) \/ ReadSize(w)
        PROVE  Aside(w)
    <2>1. work[w].at \in {"count"} \cup Counting
      BY <1>4 DEF Count, ReadTtl, ExpireCounter, ReadSize, At, Counting
    <2>2. Moves(w, Counting) /\ Same(Watched) /\ Elsewhere /\ rows' = rows
      BY <1>4, CountingSteps
    <2> QED
      BY <2>1, <2>2 DEF Aside, Elsewhere, Apart
  <1>5. ASSUME NEW w \in Worker, SetBlock(w), Exists(BlockKey(work[w].det, work[w].job))
        PROVE  Aside(w)
    <2> DEFINE k == BlockKey(work[w].det, work[w].job)
    <2>1. /\ Apart /\ UNCHANGED overlap /\ rows' = rows /\ Changes(k)
          /\ count' = count /\ expiry'[k] = expiry[k] /\ Moves(w, {})
      BY <1>5, SetBlockStep
    <2>2. work[w].at = "setnx"
      BY <1>5 DEF SetBlock, At
    <2>3. Watched \subseteq Key
      BY <2>2, WatchedCommands
    <2> HIDE DEF k
    <2>4. Same(Watched)
      BY <2>1, <2>3 DEF Changes, Same
    <2> QED
      BY <2>1, <2>2, <2>4 DEF Aside, Apart, Moves, Counting
  <1>6. ASSUME NEW w \in Worker, Fail(w) \/ InsertThrows(w) PROVE Drops(w)
    <2>1. work[w].at # "idle"
      BY <1>6 DEF Fail, InsertThrows, At
    <2>2. /\ UNCHANGED <<clock, ready, rows, overlap>> /\ UNCHANGED redis
          /\ Moves(w, {}) /\ work'[w] = Idle
      BY <1>6, FailStep
    <2>3. cut' = cut \cup Unfinished(w)
      <3>1. CASE Fail(w)
        BY <3>1, FailStep
      <3>2. CASE InsertThrows(w)
        <4>1. cut' = cut /\ ~ready /\ work[w].at \in {"insert", "insertPermanent"}
          BY <3>2, FailStep DEF InsertThrows, At
        <4>2. work[w].at = "insert"
          BY <4>1 DEF AbuseInv, Escalation
        <4>3. Unfinished(w) = {}
          BY <4>2 DEF Unfinished, At
        <4> QED
          BY <4>1, <4>3
      <3> QED
        BY <1>6, <3>1, <3>2
    <2> QED
      BY <1>0, <2>1, <2>2, <2>3 DEF Drops
  <1>7. ASSUME NEW w \in Worker, Stall(w) PROVE Still \/ Drops(w)
    BY <1>0, <1>7, StallStep DEF Still, Drops
  <1> QED
    BY <1>1, <1>2, <1>3, <1>4, <1>5, <1>6, <1>7 DEF Next, WorkerStep

(***************************************************************************)
(* Permanent blocks.  The marker never ends, so of all the attempts of all *)
(* jobs one worker at most is making an address's block permanent, and     *)
(* only before there is a row that says so.                                *)
(***************************************************************************)
Marking == {"setPermanent", "insertPermanent"}
Marks(w, i) == work[w].at \in Marking /\ work[w].job.ip = i
PermanentRows(i) == RowsFor(i, {"permanent"})

MarkerInv ==
    \A i \in Ip :
        /\ expiry[PermanentOf(i)] \in {None, Forever}
        /\ \A r, s \in PermanentRows(i) : r = s
        /\ \A v, w \in Worker : Marks(v, i) /\ Marks(w, i) => v = w
        /\ \A w \in Worker : Marks(w, i) => PermanentRows(i) = {}
        /\ \/ expiry[PermanentOf(i)] = Forever
           \/ PermanentRows(i) = {} /\ \A w \in Worker : ~Marks(w, i)

\* Steps that neither set a marker nor follow one do not touch it.
LEMMA MarkerUntouched ==
  ASSUME MarkerInv, \A i \in Ip : expiry'[PermanentOf(i)] = expiry[PermanentOf(i)],
         \A i \in Ip : PermanentRows(i)' = PermanentRows(i),
         NEW w \in Worker, NEW steps, Moves(w, steps),
         steps \cap Marking = {}
  PROVE  MarkerInv'
  <1>1. \A i \in Ip, v \in Worker : Marks(v, i)' => Marks(v, i)
    BY DEF Marks, Moves, Idle, Marking
  <1> QED
    BY <1>1 DEF MarkerInv

\* Rows with another reason are not permanent blocks.
LEMMA OtherRows ==
  ASSUME NEW i \in Ip, NEW row, rows' = rows \cup {row}, row.reason # "permanent"
  PROVE  PermanentRows(i)' = PermanentRows(i)
  BY DEF PermanentRows, RowsFor

\* Every step keeps the invariant of the marker.
LEMMA MarkerInvStep ==
  ASSUME AbuseInv, AbuseAssumption, MarkerInv, [Next]_vars
  PROVE  MarkerInv'
  <1>0. \A i \in Ip : PermanentOf(i) \in Watched /\ PermanentOf(i) \in Key
    BY KeysDiffer
  <1>1. rows' = rows => \A i \in Ip : PermanentRows(i)' = PermanentRows(i)
    BY DEF PermanentRows, RowsFor
  <1>2. Same(Watched) => \A i \in Ip : expiry'[PermanentOf(i)] = expiry[PermanentOf(i)]
    BY <1>0 DEF Same
  <1>3. ASSUME NEW k, Changes(k), \A i \in Ip : k # PermanentOf(i)
        PROVE  \A i \in Ip : expiry'[PermanentOf(i)] = expiry[PermanentOf(i)]
    BY <1>0, <1>3 DEF Changes, Same
  <1>4. CASE Tick
    <2>1. UNCHANGED <<work, rows>>
      BY <1>4, TickStep
    <2>2. \A i \in Ip : expiry'[PermanentOf(i)] = expiry[PermanentOf(i)]
      BY <1>0, <1>4, TickStep DEF MarkerInv, None, Forever
    <2>3. \A i \in Ip, v \in Worker : Marks(v, i)' => Marks(v, i)
      BY <2>1 DEF Marks
    <2> QED
      BY <1>1, <2>1, <2>2, <2>3 DEF MarkerInv
  <1>5. CASE Still
    <2>1. \A i \in Ip, v \in Worker : Marks(v, i)' => Marks(v, i)
      BY <1>5 DEF Marks, Still, Unmoved
    <2> QED
      BY <1>1, <1>2, <1>5, <2>1 DEF MarkerInv, Still
  <1>6. ASSUME NEW w \in Worker, Aside(w) \/ Drops(w) PROVE MarkerInv'
    <2>1. Counting \cap Marking = {}
      BY DEF Counting, Marking
    <2>2. (Moves(w, Counting) \/ Moves(w, {})) /\ Same(Watched) /\ rows' = rows
      BY <1>6 DEF Aside, Drops
    <2> QED
      BY <1>1, <1>2, <2>1, <2>2, MarkerUntouched
  <1>7. ASSUME NEW w \in Worker,
               (SetBlock(w) /\ ~Exists(BlockKey(work[w].det, work[w].job))) \/ ExpireBlock(w)
        PROVE  MarkerInv'
    <2> DEFINE k == BlockKey(work[w].det, work[w].job)
    <2>1. rows' = rows /\ Changes(k) /\ (Moves(w, {"expireBlock"}) \/ Moves(w, {"insert"}))
      BY <1>7, SetBlockStep, ExpireBlockStep
    <2>2. work[w].at # "idle"
      BY <1>7 DEF SetBlock, ExpireBlock, At
    <2>3. work[w].det \in Detector /\ work[w].job \in Job /\ work[w].job.ip \in Ip
          /\ (work[w].det = "key" => work[w].job.key \in ApiKey)
      BY <2>2, Busy
    <2>4. \A i \in Ip : k # PermanentOf(i)
      <3>1. \/ k = BlockOf(work[w].job.ip)
            \/ k = <<"block:apikey", work[w].job.key>> /\ work[w].job.key \in ApiKey
        BY <2>3, DetectorKeys
      <3> QED
        BY <2>3, <3>1, KeysDiffer
    <2>5. {"expireBlock"} \cap Marking = {} /\ {"insert"} \cap Marking = {}
      BY DEF Marking
    <2> HIDE DEF k
    <2> QED
      BY <1>1, <1>3, <2>1, <2>4, <2>5, MarkerUntouched
  <1>8. ASSUME NEW w \in Worker, Insert(w) PROVE MarkerInv'
    <2> DEFINE row == [n |-> Cardinality(rows), reason |-> work[w].det,
                       ip |-> IF work[w].det = "key" THEN "null" ELSE work[w].job.ip,
                       at |-> clock]
    <2>1. /\ UNCHANGED redis /\ (Moves(w, {}) \/ Moves(w, {"escalate"}))
          /\ rows' = rows \cup {row}
      BY <1>8, InsertStep
    <2>2. row.reason # "permanent"
      BY <1>8, Busy DEF Insert, At, Detector
    <2> HIDE DEF row
    <2>3. \A i \in Ip : PermanentRows(i)' = PermanentRows(i)
      BY <2>1, <2>2, OtherRows
    <2>4. {"escalate"} \cap Marking = {}
      BY DEF Marking
    <2>5. \A i \in Ip : expiry'[PermanentOf(i)] = expiry[PermanentOf(i)]
      BY <2>1 DEF redis
    <2> QED
      BY <2>1, <2>3, <2>4, <2>5, MarkerUntouched
  <1>9. ASSUME NEW w \in Worker,
               \/ CountBlock(w) \/ ExpireBlocks(w) \/ SetEscalated(w) \/ ExpireEscalated(w)
        PROVE  MarkerInv'
    <2> DEFINE ip == work[w].job.ip
               steps == {"expireBlocks", "setnxPermanent", "setEscalated", "expireEscalated"}
    <2>1. rows' = rows /\ (Changes(BlocksOf(ip)) \/ Changes(BlockOf(ip)))
      BY <1>9, CountBlockStep, ExpireBlocksStep, SetLongerStep, ExpireEscalatedStep
    <2>2. \/ Moves(w, {"expireBlocks", "setnxPermanent", "setEscalated"}) \/ Moves(w, {})
          \/ Moves(w, {"expireEscalated"})
      BY <1>9, CountBlockStep, ExpireBlocksStep, SetLongerStep, ExpireEscalatedStep
    <2>3. Moves(w, steps)
      BY <2>2 DEF Moves
    <2>4. ip \in Ip
      BY <1>9, Busy DEF CountBlock, ExpireBlocks, SetEscalated, ExpireEscalated, At
    <2>5. steps \cap Marking = {}
      BY DEF Marking
    <2>6. \A i \in Ip : BlocksOf(ip) # PermanentOf(i) /\ BlockOf(ip) # PermanentOf(i)
      BY <2>4, KeysDiffer
    <2> HIDE DEF ip, steps
    <2> QED
      BY <1>1, <1>3, <2>1, <2>3, <2>5, <2>6, MarkerUntouched
  <1>10. ASSUME NEW w \in Worker, SetPermanentMarker(w) PROVE MarkerInv'
    <2> DEFINE ip == work[w].job.ip
               k == PermanentOf(ip)
    <2>1. /\ rows' = rows /\ Changes(k)
          /\ expiry'[k] = IF Exists(k) THEN expiry[k] ELSE Forever
          /\ Exists(k) => Moves(w, {})
          /\ ~Exists(k) => Moves(w, {"setPermanent"}) /\ work'[w].at = "setPermanent"
      BY <1>10, SetPermanentMarkerStep
    <2>2. ip \in Ip /\ work[w].at = "setnxPermanent"
      BY <1>10, Busy DEF SetPermanentMarker, At
    <2>3. CASE Exists(k)
      <3>1. \A i \in Ip : expiry'[PermanentOf(i)] = expiry[PermanentOf(i)]
        BY <1>0, <2>1, <2>3 DEF Changes, Same
      <3> QED
        BY <1>1, <2>1, <2>3, <3>1, MarkerUntouched
    <2>4. CASE ~Exists(k)
      <3> HIDE DEF k, ip
      <3>1. \A i \in Ip : i # ip => expiry'[PermanentOf(i)] = expiry[PermanentOf(i)]
        BY <1>0, <2>1, <2>2, KeysDiffer DEF Changes, Same, k
      <3>2. expiry'[PermanentOf(ip)] = Forever
        BY <2>1, <2>4 DEF k
      <3>3. PermanentRows(ip) = {} /\ \A v \in Worker : ~Marks(v, ip)
        BY <2>2, <2>4 DEF MarkerInv, Exists, k, None, Forever
      <3>4. \A i \in Ip, v \in Worker : Marks(v, i)' => Marks(v, i) \/ (v = w /\ i = ip)
        BY <2>1, <2>4 DEF Marks, Moves, Idle, Marking, ip
      <3>5. ASSUME NEW i \in Ip
            PROVE  /\ expiry'[PermanentOf(i)] \in {None, Forever}
                   /\ \A r, s \in PermanentRows(i)' : r = s
                   /\ \A v \in Worker : Marks(v, i)' => PermanentRows(i)' = {}
                   /\ \/ expiry'[PermanentOf(i)] = Forever
                      \/ PermanentRows(i)' = {} /\ \A v \in Worker : ~Marks(v, i)'
        <4>1. PermanentRows(i)' = PermanentRows(i)
          BY <1>1, <2>1
        <4>2. CASE i = ip
          BY <3>2, <3>3, <4>1, <4>2
        <4>3. CASE i # ip
          BY <3>1, <3>4, <4>1, <4>3 DEF MarkerInv
        <4> QED
          BY <4>2, <4>3
      <3>6. ASSUME NEW i \in Ip, NEW u \in Worker, NEW v \in Worker,
                   Marks(u, i)', Marks(v, i)'
            PROVE  u = v
        BY <3>3, <3>4, <3>6 DEF MarkerInv
      <3> QED
        BY <3>5, <3>6 DEF MarkerInv
    <2> QED
      BY <2>3, <2>4
  <1>11. ASSUME NEW w \in Worker, SetPermanent(w) PROVE MarkerInv'
    <2>1. /\ rows' = rows /\ Changes(BlockOf(work[w].job.ip))
          /\ Moves(w, {"insertPermanent"})
      BY <1>11, SetLongerStep
    <2>2. work[w].job.ip \in Ip /\ work[w].at \in Marking
      BY <1>11, Busy DEF SetPermanent, At, Marking
    <2>3. \A i \in Ip, v \in Worker : Marks(v, i)' => Marks(v, i)
      BY <2>1, <2>2 DEF Marks, Moves, Idle, Marking
    <2>4. \A i \in Ip : expiry'[PermanentOf(i)] = expiry[PermanentOf(i)]
      BY <1>3, <2>1, <2>2, KeysDiffer
    <2> QED
      BY <1>1, <2>1, <2>3, <2>4 DEF MarkerInv
  <1>12. ASSUME NEW w \in Worker, InsertPermanent(w) PROVE MarkerInv'
    <2> DEFINE ip == work[w].job.ip
               row == [n |-> Cardinality(rows), reason |-> "permanent", ip |-> ip,
                       at |-> clock]
    <2>1. UNCHANGED redis /\ rows' = rows \cup {row} /\ Moves(w, {"escalate"})
      BY <1>12, InsertPermanentStep
    <2>2. ip \in Ip /\ Marks(w, ip)
      BY <1>12, Busy DEF InsertPermanent, At, Marking, Marks
    <2>3. \A i \in Ip, v \in Worker : Marks(v, i)' => Marks(v, i) /\ v # w
      BY <2>1 DEF Marks, Moves, Idle, Marking
    <2>4. row.reason = "permanent" /\ row.ip = ip
      OBVIOUS
    <2> HIDE DEF row, ip
    <2>5. \A i \in Ip : PermanentRows(i)' = IF i = ip THEN PermanentRows(i) \cup {row}
                                            ELSE PermanentRows(i)
      BY <2>1, <2>2, <2>4 DEF PermanentRows, RowsFor
    <2>6. PermanentRows(ip) = {} /\ expiry[PermanentOf(ip)] = Forever
          /\ \A v \in Worker : Marks(v, ip) => v = w
      BY <2>2 DEF MarkerInv
    <2>7. \A i \in Ip : expiry'[PermanentOf(i)] = expiry[PermanentOf(i)]
      BY <2>1 DEF redis
    <2>8. ASSUME NEW i \in Ip
          PROVE  /\ expiry'[PermanentOf(i)] \in {None, Forever}
                 /\ \A r, s \in PermanentRows(i)' : r = s
                 /\ \A v \in Worker : Marks(v, i)' => PermanentRows(i)' = {}
                 /\ \/ expiry'[PermanentOf(i)] = Forever
                    \/ PermanentRows(i)' = {} /\ \A v \in Worker : ~Marks(v, i)'
      <3>1. CASE i = ip
        BY <2>3, <2>5, <2>6, <2>7, <3>1
      <3>2. CASE i # ip
        BY <2>3, <2>5, <2>7, <3>2 DEF MarkerInv
      <3> QED
        BY <3>1, <3>2
    <2>9. ASSUME NEW i \in Ip, NEW u \in Worker, NEW v \in Worker,
                 Marks(u, i)', Marks(v, i)'
          PROVE  u = v
      BY <2>3, <2>9 DEF MarkerInv
    <2> QED
      BY <2>8, <2>9 DEF MarkerInv
  <1> QED
    BY <1>4, <1>5, <1>6, <1>7, <1>8, <1>9, <1>10, <1>11, <1>12, NextCases

\* In every reachable state of the specification.
LEMMA MarkerInvariant ==
  Spec => [](AbuseInv /\ MarkerInv)
  <1>1. Init => MarkerInv
    <2> SUFFICES ASSUME Init PROVE MarkerInv
      OBVIOUS
    <2>1. \A i \in Ip : expiry[PermanentOf(i)] = None /\ PermanentRows(i) = {}
      BY KeysDiffer DEF Init, PermanentRows, RowsFor
    <2>2. \A i \in Ip, w \in Worker : ~Marks(w, i)
      BY DEF Init, Marks, Marking, Idle
    <2> QED
      BY <2>1, <2>2 DEF MarkerInv
  <1>2. AbuseInv /\ MarkerInv /\ [Next]_vars => MarkerInv'
    BY MarkerInvStep, AbuseAssumption
  <1> QED
    BY <1>1, <1>2, AbuseInvariant, PTL DEF Spec

(***************************************************************************)
(* handleBlockEscalation records an address as blocked permanently at most *)
(* once, for any number of workers and however often jobs fail and are run *)
(* again: its SETNX of the marker, which has no TTL, lets one call pass.   *)
(***************************************************************************)
THEOREM PermanentRecordedOnce ==
  Spec => []PermanentOnce
  <1>1. MarkerInv => PermanentOnce
    <2> SUFFICES ASSUME MarkerInv, NEW i \in Ip
                 PROVE  Cardinality(RowsFor(i, {"permanent"})) <= 1
      BY DEF PermanentOnce
    <2>1. \A r, s \in RowsFor(i, {"permanent"}) : r = s
      BY DEF MarkerInv, PermanentRows
    <2>2. RowsFor(i, {"permanent"}) = {} \/ \E r : RowsFor(i, {"permanent"}) = {r}
      BY <2>1
    <2>3. Cardinality(RowsFor(i, {"permanent"})) \in {0, 1}
      BY <2>2, FS_EmptySet, FS_Singleton
    <2> QED
      BY <2>3
  <1> QED
    BY <1>1, MarkerInvariant, PTL

(***************************************************************************)
(* The ends of blocks.  A block without TTL has a permanent row, or a      *)
(* worker that is about to give it a TTL or to insert that row, or one     *)
(* that was cut off while it was about to.                                 *)
(***************************************************************************)
Holds(w, k, steps) == work[w].at \in steps /\ BlockKey(work[w].det, work[w].job) = k
BlockKeys == {BlockOf(i) : i \in Ip} \cup {<<"block:apikey", a>> : a \in ApiKey}

Finishing == {"expireBlock", "expireEscalated", "insertPermanent"}
Settled(k) ==
    \/ \E r \in rows : r.reason = "permanent" /\ k = BlockOf(r.ip)
    \/ k \in cut
    \/ \E i \in Ip : k = BlockOf(i) /\ <<"row", i>> \in cut
Ending(k) ==
    expiry[k] = Forever => Settled(k) \/ \E w \in Worker : Holds(w, k, Finishing)

\* What is settled stays so.
LEMMA SettledStays ==
  ASSUME NEW k, Settled(k), rows \subseteq rows', cut \subseteq cut'
  PROVE  Settled(k)'
  BY DEF Settled

\* A step that does not concern the end of the block k.
LEMMA EndingElsewhere ==
  ASSUME NEW k, Ending(k), NEW w \in Worker, ~Holds(w, k, Finishing),
         \A v \in Worker : v # w => work'[v] = work[v],
         expiry'[k] \in {expiry[k], None}, rows \subseteq rows', cut \subseteq cut'
  PROVE  Ending(k)'
  <1> SUFFICES ASSUME expiry'[k] = Forever
               PROVE  Settled(k)' \/ \E v \in Worker : Holds(v, k, Finishing)'
    BY DEF Ending
  <1>1. expiry[k] = Forever
    BY DEF None, Forever
  <1>2. CASE Settled(k)
    BY <1>2, SettledStays
  <1>3. CASE \E v \in Worker : Holds(v, k, Finishing)
    BY <1>3 DEF Holds
  <1> QED
    BY <1>1, <1>2, <1>3 DEF Ending

\* What the detectors and the escalation do to the block of their own job.
LEMMA EndingOwn ==
  ASSUME AbuseInv, AbuseAssumption, NEW w \in Worker, work[w].at # "idle",
         NEW k, k = BlockKey(work[w].det, work[w].job),
         \/ SetBlock(w) /\ ~Exists(k)
         \/ ExpireBlock(w) \/ SetPermanent(w) \/ InsertPermanent(w)
         \/ SetEscalated(w) \/ ExpireEscalated(w)
  PROVE  Ending(k)'
  <1> DEFINE ip == work[w].job.ip
             det == work[w].det
  <1>0. /\ det \in Detector /\ work[w].job \in Job /\ ip \in Ip
        /\ det = "key" => work[w].job.key \in ApiKey
        /\ work[w].at \in Escalation => det # "key"
    BY Busy
  <1>1. work[w].at \in Escalation => k = BlockOf(ip)
    BY <1>0, DetectorKeys
  <1>2. ASSUME work'[w].at \in Finishing, NEW steps, Moves(w, steps)
        PROVE  Holds(w, k, Finishing)'
    <2>1. work'[w].job = work[w].job /\ work'[w].det = det
      BY <1>2 DEF Moves, Idle, Finishing
    <2> QED
      BY <1>2, <2>1 DEF Holds
  <1>3. CASE SetBlock(w) /\ ~Exists(k)
    <2>1. Moves(w, {"expireBlock"}) /\ work'[w].at = "expireBlock"
      BY <1>3, SetBlockStep
    <2> QED
      BY <1>2, <2>1 DEF Ending, Finishing
  <1>4. CASE ExpireBlock(w)
    <2>1. expiry'[k] # Forever
      BY <1>4, ExpireBlockStep
    <2> QED
      BY <2>1 DEF Ending
  <1>5. CASE SetPermanent(w)
    <2>1. Moves(w, {"insertPermanent"}) /\ work'[w].at = "insertPermanent"
      BY <1>5, SetLongerStep
    <2> QED
      BY <1>2, <2>1 DEF Ending, Finishing
  <1>6. CASE SetEscalated(w)
    <2>1. Moves(w, {"expireEscalated"}) /\ work'[w].at = "expireEscalated"
      BY <1>6, SetLongerStep
    <2> QED
      BY <1>2, <2>1 DEF Ending, Finishing
  <1>7. CASE InsertPermanent(w)
    <2> DEFINE row == [n |-> Cardinality(rows), reason |-> "permanent", ip |-> ip,
                       at |-> clock]
    <2>1. work[w].at \in Escalation
      BY <1>7 DEF InsertPermanent, At, Escalation
    <2>2. rows' = rows \cup {row}
      BY <1>7, InsertPermanentStep
    <2>3. row.reason = "permanent" /\ row.ip = ip
      OBVIOUS
    <2> HIDE DEF row
    <2>4. Settled(k)'
      BY <1>1, <2>1, <2>2, <2>3 DEF Settled
    <2> QED
      BY <2>4 DEF Ending
  <1>8. CASE ExpireEscalated(w)
    <2>1. work[w].at \in Escalation
      BY <1>8 DEF ExpireEscalated, At, Escalation
    <2>2. expiry'[k] # Forever
      BY <1>1, <1>8, <2>1, ExpireEscalatedStep
    <2> QED
      BY <2>2 DEF Ending
  <1> QED
    BY <1>3, <1>4, <1>5, <1>6, <1>7, <1>8

\* A worker that is cut off while it is about to end a block.
LEMMA EndingDrops ==
  ASSUME AbuseInv, NEW k \in Watched, Ending(k), NEW w \in Worker, Drops(w)
  PROVE  Ending(k)'
  <1>1. /\ rows' = rows /\ cut' = cut \cup Unfinished(w) /\ expiry'[k] = expiry[k]
        /\ \A v \in Worker : v # w => work'[v] = work[v]
    BY DEF Drops, Same, Moves
  <1>2. CASE ~Holds(w, k, Finishing)
    BY <1>1, <1>2, EndingElsewhere
  <1>3. CASE Holds(w, k, Finishing)
    <2>1. /\ work[w].det \in Detector /\ work[w].job \in Job /\ work[w].job.ip \in Ip
          /\ work[w].det = "key" => work[w].job.key \in ApiKey
          /\ work[w].at \in Escalation => work[w].det # "key"
      BY Busy DEF Drops
    <2>2. work[w].at \in Escalation => k = BlockOf(work[w].job.ip)
      BY <1>3, <2>1, DetectorKeys DEF Holds
    <2>3. CASE work[w].at = "expireBlock"
      <3>1. k \in Unfinished(w)
        BY <1>3, <2>3 DEF Holds, Unfinished, At
      <3> QED
        BY <1>1, <3>1 DEF Ending, Settled
    <2>4. CASE work[w].at = "expireEscalated"
      <3>1. k \in Unfinished(w)
        BY <2>2, <2>4 DEF Escalation, Unfinished, At
      <3> QED
        BY <1>1, <3>1 DEF Ending, Settled
    <2>5. CASE work[w].at = "insertPermanent"
      <3>1. k = BlockOf(work[w].job.ip) /\ <<"row", work[w].job.ip>> \in Unfinished(w)
        BY <2>2, <2>5 DEF Escalation, Unfinished, At
      <3> QED
        BY <1>1, <2>1, <3>1 DEF Ending, Settled
    <2> QED
      BY <1>3, <2>3, <2>4, <2>5 DEF Holds, Finishing
  <1> QED
    BY <1>2, <1>3

EndingInv == \A k \in BlockKeys : Ending(k)

\* The steps that neither set a block nor give one a TTL.
LEMMA EndingSteps ==
  ASSUME AbuseInv, AbuseAssumption, NEW w \in Worker, NEW k \in BlockKeys,
         Insert(w) \/ CountBlock(w) \/ ExpireBlocks(w) \/ SetPermanentMarker(w)
  PROVE  /\ ~Holds(w, k, Finishing) /\ expiry'[k] = expiry[k]
         /\ \A v \in Worker : v # w => work'[v] = work[v]
         /\ rows \subseteq rows' /\ cut' = cut
  <1> DEFINE ip == work[w].job.ip
  <1>1. work[w].at # "idle" /\ ~Holds(w, k, Finishing)
    BY DEF Insert, CountBlock, ExpireBlocks, SetPermanentMarker, At, Holds, Finishing
  <1>2. ip \in Ip /\ k \in Key
    BY <1>1, Busy DEF BlockKeys, Key
  <1>3. /\ Elsewhere /\ rows \subseteq rows'
        /\ (Changes(BlocksOf(ip)) \/ Changes(PermanentOf(ip)) \/ UNCHANGED redis)
        /\ \E steps : Moves(w, steps)
    <2>1. CASE CountBlock(w)
      BY <2>1, CountBlockStep
    <2>2. CASE ExpireBlocks(w)
      BY <2>2, ExpireBlocksStep
    <2>3. CASE SetPermanentMarker(w)
      BY <2>3, SetPermanentMarkerStep
    <2>4. CASE Insert(w)
      BY <2>4, InsertStep
    <2> QED
      BY <2>1, <2>2, <2>3, <2>4
  <1>4. k # BlocksOf(ip) /\ k # PermanentOf(ip)
    BY <1>2, KeysDiffer DEF BlockKeys
  <1>5. expiry'[k] = expiry[k]
    BY <1>2, <1>3, <1>4 DEF Changes, Same, redis
  <1> QED
    BY <1>1, <1>3, <1>5 DEF Elsewhere, Apart, Moves

\* What a step that sets a block or gives one a TTL leaves alone.
LEMMA OwnBlockSteps ==
  ASSUME AbuseInv, AbuseAssumption, NEW w \in Worker,
         NEW own, own = BlockKey(work[w].det, work[w].job),
         \/ SetBlock(w) /\ ~Exists(own)
         \/ ExpireBlock(w) \/ SetPermanent(w) \/ InsertPermanent(w)
         \/ SetEscalated(w) \/ ExpireEscalated(w)
  PROVE  /\ work[w].at # "idle" /\ cut' = cut /\ rows \subseteq rows'
         /\ work[w].at \in Escalation => own = BlockOf(work[w].job.ip)
         /\ Changes(own) \/ UNCHANGED redis
         /\ \E steps : Moves(w, steps)
         /\ work[w].at # "setnx" => overlap' = overlap
  <1>1. work[w].at # "idle"
    BY DEF SetBlock, ExpireBlock, SetPermanent, InsertPermanent, SetEscalated,
         ExpireEscalated, At
  <1>2. work[w].at \in Escalation => own = BlockOf(work[w].job.ip)
    BY <1>1, Busy, DetectorKeys
  <1>3. CASE SetBlock(w) /\ ~Exists(own)
    BY <1>1, <1>2, <1>3, SetBlockStep DEF Apart, SetBlock, At
  <1>4. CASE ExpireBlock(w)
    BY <1>1, <1>2, <1>4, ExpireBlockStep DEF Elsewhere, Apart
  <1>5. CASE SetPermanent(w) \/ SetEscalated(w)
    <2>1. work[w].at \in Escalation
      BY <1>5 DEF SetPermanent, SetEscalated, At, Escalation
    <2> QED
      BY <1>1, <1>2, <1>5, <2>1, SetLongerStep DEF Elsewhere, Apart
  <1>6. CASE InsertPermanent(w)
    BY <1>1, <1>2, <1>6, InsertPermanentStep DEF Elsewhere, Apart
  <1>7. CASE ExpireEscalated(w)
    <2>1. work[w].at \in Escalation
      BY <1>7 DEF ExpireEscalated, At, Escalation
    <2> QED
      BY <1>1, <1>2, <1>7, <2>1, ExpireEscalatedStep DEF Elsewhere, Apart
  <1> QED
    BY <1>3, <1>4, <1>5, <1>6, <1>7

\* Every step keeps the invariant of the ends.
LEMMA EndingInvStep ==
  ASSUME AbuseInv, AbuseAssumption, EndingInv, [Next]_vars
  PROVE  EndingInv'
  <1> SUFFICES ASSUME NEW k \in BlockKeys PROVE Ending(k)'
    BY DEF EndingInv
  <1>0. Ending(k) /\ k \in Watched /\ k \in Key
    BY DEF EndingInv, BlockKeys, Watched, Key
  <1>1. Same(Watched) => expiry'[k] = expiry[k]
    BY <1>0 DEF Same
  <1>2. CASE Tick
    <2>1. UNCHANGED <<work, rows, cut>>
          /\ (expiry'[k] = expiry[k] \/ expiry'[k] = None)
      BY <1>0, <1>2, TickStep
    <2> QED
      BY <1>0, <2>1 DEF Ending, Settled, Holds, None, Forever
  <1>3. CASE Still
    <2>1. UNCHANGED <<rows, cut>> /\ expiry'[k] = expiry[k] /\ Unmoved
      BY <1>1, <1>3 DEF Still
    <2> QED
      BY <1>0, <2>1 DEF Ending, Settled, Holds, Unmoved
  <1>4. ASSUME NEW w \in Worker, Aside(w) PROVE Ending(k)'
    <2>1. /\ expiry'[k] = expiry[k] /\ UNCHANGED <<rows, cut>>
          /\ \A v \in Worker : v # w => work'[v] = work[v]
          /\ ~Holds(w, k, Finishing)
      BY <1>1, <1>4 DEF Aside, Moves, Holds, Counting, Finishing
    <2> QED
      BY <1>0, <2>1, EndingElsewhere
  <1>5. ASSUME NEW w \in Worker, Drops(w) PROVE Ending(k)'
    BY <1>0, <1>5, EndingDrops
  <1>6. ASSUME NEW w \in Worker,
               Insert(w) \/ CountBlock(w) \/ ExpireBlocks(w) \/ SetPermanentMarker(w)
        PROVE  Ending(k)'
    BY <1>0, <1>6, EndingSteps, EndingElsewhere
  <1>7. ASSUME NEW w \in Worker,
               \/ SetBlock(w) /\ ~Exists(BlockKey(work[w].det, work[w].job))
               \/ ExpireBlock(w) \/ SetPermanent(w) \/ InsertPermanent(w)
               \/ SetEscalated(w) \/ ExpireEscalated(w)
        PROVE  Ending(k)'
    <2> DEFINE own == BlockKey(work[w].det, work[w].job)
    <2>1. /\ work[w].at # "idle" /\ cut' = cut /\ rows \subseteq rows'
          /\ Changes(own) \/ UNCHANGED redis
          /\ \E steps : Moves(w, steps)
      BY <1>7, OwnBlockSteps
    <2>2. CASE k = own
      BY <1>7, <2>1, <2>2, EndingOwn
    <2>3. CASE k # own
      <3>1. ~Holds(w, k, Finishing) /\ expiry'[k] = expiry[k]
        BY <1>0, <2>1, <2>3 DEF Holds, Changes, Same, redis
      <3>2. \A v \in Worker : v # w => work'[v] = work[v]
        BY <2>1 DEF Moves
      <3> QED
        BY <1>0, <2>1, <3>1, <3>2, EndingElsewhere
    <2> QED
      BY <2>2, <2>3
  <1> QED
    BY <1>2, <1>3, <1>4, <1>5, <1>6, <1>7, NextCases

\* In every reachable state of the specification.
LEMMA EndingInvariant ==
  Spec => [](AbuseInv /\ EndingInv)
  <1>1. Init => EndingInv
    BY DEF Init, EndingInv, Ending, BlockKeys, Key, None, Forever
  <1>2. AbuseInv /\ EndingInv /\ [Next]_vars => EndingInv'
    BY EndingInvStep, AbuseAssumption
  <1> QED
    BY <1>1, <1>2, AbuseInvariant, PTL DEF Spec

(***************************************************************************)
(* A permanent block stays.  Once it is sealed, the block has no TTL and   *)
(* nobody is about to replace it; the worker that escalates it again       *)
(* counts from PermanentThreshold up, or from one.  When two workers were  *)
(* at blocks of the address at once this fails: the second may be about to *)
(* set a longer block.                                                     *)
(***************************************************************************)
Engaged == {"expireBlock", "insert"} \cup Escalation
Solo(i) == \A v, w \in Worker :
             Holds(v, BlockOf(i), Engaged) /\ Holds(w, BlockOf(i), Engaged) => v = w
Away(w, i) == \A v \in Worker : v # w => ~Holds(v, BlockOf(i), Engaged)

Undoing == {"expireBlock", "insert", "setEscalated", "expireEscalated"}
Promoting == {"setnxPermanent", "setPermanent", "insertPermanent"}
Deciding == Undoing \cup Promoting \cup {"escalate"}

Sealed(i) ==
    \/ PermanentRows(i) # {}
    \/ \E w \in Worker : Holds(w, BlockOf(i), {"insertPermanent"})
    \/ /\ PermanentOf(i) \notin cut /\ expiry[PermanentOf(i)] # None
       /\ \A w \in Worker : ~Holds(w, BlockOf(i), {"setPermanent"})
CountedOut(i) == count[BlocksOf(i)] = 0 \/ count[BlocksOf(i)] >= PermanentThreshold

Seal(i) ==
    /\ Sealed(i) => /\ expiry[BlockOf(i)] = Forever
                    /\ \A w \in Worker : ~Holds(w, BlockOf(i), Undoing)
    /\ \A w \in Worker : Holds(w, BlockOf(i), Promoting) => CountedOut(i)
    /\ \A w \in Worker : Sealed(i) /\ Holds(w, BlockOf(i), {"escalate"}) => CountedOut(i)

\* A step that decides nothing about the block of the address i.
LEMMA SealElsewhere ==
  ASSUME NEW i \in Ip, Seal(i), NEW w \in Worker,
         \A v \in Worker : v # w => work'[v] = work[v],
         expiry'[BlockOf(i)] = expiry[BlockOf(i)],
         expiry'[PermanentOf(i)] = expiry[PermanentOf(i)],
         count'[BlocksOf(i)] = count[BlocksOf(i)], PermanentRows(i)' = PermanentRows(i),
         ~Holds(w, BlockOf(i), Deciding)',
         \/ PermanentOf(i) \in cut'
         \/ PermanentOf(i) \notin cut /\ ~Holds(w, BlockOf(i), {"setPermanent"})
  PROVE  Seal(i)'
  <1>1. \A steps : \A v \in Worker :
          v # w => (Holds(v, BlockOf(i), steps)' <=> Holds(v, BlockOf(i), steps))
    BY DEF Holds
  <1>2. /\ ~Holds(w, BlockOf(i), Undoing)' /\ ~Holds(w, BlockOf(i), Promoting)'
        /\ ~Holds(w, BlockOf(i), {"escalate"})' /\ ~Holds(w, BlockOf(i), {"insertPermanent"})'
    BY DEF Holds, Deciding, Promoting
  <1>3. Sealed(i)' => Sealed(i)
    BY <1>1, <1>2 DEF Sealed
  <1>4. CountedOut(i)' <=> CountedOut(i)
    BY DEF CountedOut
  <1> QED
    BY <1>1, <1>2, <1>3, <1>4 DEF Seal

\* A step of the only worker at a block that is not sealed, and stays so.
LEMMA SealOpen ==
  ASSUME NEW i \in Ip, NEW w \in Worker, Away(w, i), Away(w, i)', ~Sealed(i),
         expiry'[PermanentOf(i)] = expiry[PermanentOf(i)], cut' = cut,
         PermanentRows(i)' = PermanentRows(i), ~Holds(w, BlockOf(i), {"setPermanent"}),
         ~Holds(w, BlockOf(i), Promoting)'
  PROVE  Seal(i)'
  <1>1. \A v \in Worker : ~Holds(v, BlockOf(i), Promoting)'
    BY DEF Away, Holds, Promoting, Engaged, Escalation
  <1>2. \A v \in Worker : ~Holds(v, BlockOf(i), {"insertPermanent"})'
    BY <1>1 DEF Holds, Promoting
  <1>3. \A v \in Worker : ~Holds(v, BlockOf(i), {"setPermanent"})
    BY DEF Away, Holds, Engaged, Escalation
  <1>4. /\ ~(PermanentOf(i) \notin cut /\ expiry[PermanentOf(i)] # None)
        /\ PermanentRows(i) = {}
    BY <1>3 DEF Sealed
  <1>5. ~Sealed(i)'
    BY <1>2, <1>4 DEF Sealed
  <1> QED
    BY <1>1, <1>5 DEF Seal

\* What the escalation does to the address of its own job.
LEMMA SealOwn ==
  ASSUME AbuseInv, AbuseAssumption, MarkerInv, NEW w \in Worker,
         work[w].at # "idle", work[w].det # "key",
         NEW i \in Ip, i = work[w].job.ip, Seal(i), Away(w, i), Away(w, i)',
         \/ SetBlock(w) /\ ~Exists(BlockOf(i))
         \/ ExpireBlock(w) \/ Insert(w) \/ CountBlock(w)
         \/ SetPermanentMarker(w) /\ ~Exists(PermanentOf(i))
         \/ SetPermanent(w) \/ InsertPermanent(w) \/ SetEscalated(w) \/ ExpireEscalated(w)
  PROVE  Seal(i)'
  <1>0. /\ BlockKey(work[w].det, work[w].job) = BlockOf(i)
        /\ BlockOf(i) # PermanentOf(i) /\ BlockOf(i) # BlocksOf(i)
        /\ PermanentOf(i) # BlocksOf(i)
        /\ BlockOf(i) \in Key /\ PermanentOf(i) \in Key /\ BlocksOf(i) \in Key
    BY Busy, DetectorKeys, KeysDiffer
  <1>1. rows' = rows => PermanentRows(i)' = PermanentRows(i)
    BY DEF PermanentRows, RowsFor
  <1>2. \A steps : Holds(w, BlockOf(i), steps) <=> work[w].at \in steps
    BY <1>0 DEF Holds
  <1>3. \A steps : Holds(w, BlockOf(i), steps)' => work'[w].at \in steps
    BY DEF Holds
  <1>4. ASSUME Changes(BlockOf(i))
        PROVE  expiry'[PermanentOf(i)] = expiry[PermanentOf(i)]
    BY <1>0, <1>4 DEF Changes, Same
  <1>11. ASSUME NEW v \in Worker, v # w
         PROVE  /\ ~Holds(v, BlockOf(i), Undoing) /\ ~Holds(v, BlockOf(i), Undoing)'
                /\ ~Holds(v, BlockOf(i), Promoting) /\ ~Holds(v, BlockOf(i), Promoting)'
                /\ \A step \in {"escalate", "setPermanent", "insertPermanent"} :
                     /\ ~Holds(v, BlockOf(i), {step}) /\ ~Holds(v, BlockOf(i), {step})'
    BY <1>11 DEF Away, Holds, Engaged, Escalation, Undoing, Promoting
  <1>5. CASE SetBlock(w) /\ ~Exists(BlockOf(i))
    <2>1. Apart /\ rows' = rows /\ Changes(BlockOf(i)) /\ work'[w].at = "expireBlock"
      BY <1>0, <1>5, SetBlockStep
    <2>2. ~Sealed(i)
      BY <1>5 DEF Seal, Exists, None, Forever
    <2>3. work[w].at = "setnx"
      BY <1>5 DEF SetBlock, At
    <2>4. ~Holds(w, BlockOf(i), {"setPermanent"}) /\ ~Holds(w, BlockOf(i), Promoting)'
      BY <1>2, <1>3, <2>1, <2>3 DEF Promoting
    <2> QED
      BY <1>1, <1>4, <2>1, <2>2, <2>4, SealOpen DEF Apart
  <1>6. CASE ExpireBlock(w) \/ Insert(w) \/ SetEscalated(w) \/ ExpireEscalated(w)
    <2>1. work[w].at \in Undoing
      BY <1>6 DEF ExpireBlock, Insert, SetEscalated, ExpireEscalated, At, Undoing
    <2>2. ~Sealed(i) /\ ~Holds(w, BlockOf(i), {"setPermanent"})
      BY <1>2, <2>1 DEF Seal, Undoing
    <2>3. /\ Elsewhere /\ PermanentRows(i)' = PermanentRows(i)
          /\ work'[w].at \notin Promoting
          /\ expiry'[PermanentOf(i)] = expiry[PermanentOf(i)]
      <3>1. CASE ExpireBlock(w)
        <4>1. Elsewhere /\ rows' = rows /\ Changes(BlockOf(i)) /\ work'[w].at = "insert"
          BY <1>0, <3>1, ExpireBlockStep
        <4> QED
          BY <1>1, <1>4, <4>1 DEF Promoting
      <3>2. CASE Insert(w)
        <4> DEFINE row == [n |-> Cardinality(rows), reason |-> work[w].det,
                           ip |-> IF work[w].det = "key" THEN "null" ELSE work[w].job.ip,
                           at |-> clock]
        <4>1. /\ Elsewhere /\ UNCHANGED redis /\ work'[w].at = "escalate"
              /\ rows' = rows \cup {row}
          BY <3>2, InsertStep
        <4>2. row.reason # "permanent"
          BY Busy DEF Detector
        <4> HIDE DEF row
        <4>3. PermanentRows(i)' = PermanentRows(i)
          BY <4>1, <4>2, OtherRows
        <4> QED
          BY <4>1, <4>3 DEF Promoting, redis
      <3>3. CASE SetEscalated(w)
        <4>1. Elsewhere /\ rows' = rows /\ Changes(BlockOf(i))
              /\ work'[w].at = "expireEscalated"
          BY <3>3, SetLongerStep
        <4> QED
          BY <1>1, <1>4, <4>1 DEF Promoting
      <3>4. CASE ExpireEscalated(w)
        <4>1. Elsewhere /\ rows' = rows /\ Changes(BlockOf(i)) /\ Moves(w, {})
          BY <3>4, ExpireEscalatedStep
        <4>2. work'[w].at \notin Promoting
          BY <4>1 DEF Moves, Idle, Promoting
        <4> QED
          BY <1>1, <1>4, <4>1, <4>2
      <3> QED
        BY <1>6, <3>1, <3>2, <3>3, <3>4
    <2>4. ~Holds(w, BlockOf(i), Promoting)'
      BY <1>3, <2>3
    <2> QED
      BY <2>2, <2>3, <2>4, SealOpen DEF Elsewhere, Apart
  <1>7. CASE CountBlock(w)
    <2> DEFINE n == count'[BlocksOf(i)]
    <2>1. /\ Elsewhere /\ rows' = rows /\ Changes(BlocksOf(i))
          /\ n = count[BlocksOf(i)] + 1
          /\ Moves(w, {"expireBlocks", "setnxPermanent", "setEscalated"})
          /\ work'[w].at = "setnxPermanent" => n >= PermanentThreshold
          /\ work'[w].at = "setEscalated" => ~(n >= PermanentThreshold)
          /\ work'[w].at = "setEscalated" => n >= EscalationThreshold
      BY <1>7, CountBlockStep
    <2>2. /\ expiry'[BlockOf(i)] = expiry[BlockOf(i)]
          /\ expiry'[PermanentOf(i)] = expiry[PermanentOf(i)]
          /\ PermanentRows(i)' = PermanentRows(i) /\ cut' = cut
      BY <1>0, <1>1, <2>1 DEF Changes, Same, Elsewhere, Apart
    <2>3. work[w].at = "escalate"
      BY <1>7 DEF CountBlock, At
    <2>4. work'[w].at \in {"idle", "count", "expireBlocks", "setnxPermanent", "setEscalated"}
      BY <2>1 DEF Moves, Idle
    <2>5. Sealed(i)' => Sealed(i)
      BY <1>2, <1>3, <1>11, <2>2, <2>3, <2>4 DEF Sealed
    <2>6. Holds(w, BlockOf(i), Promoting)' => CountedOut(i)'
      BY <1>3, <2>1, <2>4 DEF CountedOut, Promoting
    <2>7. Sealed(i) => work'[w].at # "setEscalated"
      <3> SUFFICES ASSUME Sealed(i) PROVE work'[w].at # "setEscalated"
        OBVIOUS
      <3>1. count[BlocksOf(i)] = 0 \/ count[BlocksOf(i)] >= PermanentThreshold
        BY <1>2, <2>3 DEF Seal, CountedOut
      <3>2. count[BlocksOf(i)] \in Nat
        BY <1>0 DEF AbuseInv, RedisOK
      <3>3. EscalationThreshold \in Nat \ {0, 1} /\ PermanentThreshold \in Nat
        BY AbuseAssumption DEF AbuseAssumption
      <3> HIDE DEF n
      <3> QED
        BY <2>1, <3>1, <3>2, <3>3
    <2>8. Sealed(i) => ~Holds(w, BlockOf(i), Undoing)'
      BY <1>3, <2>4, <2>7 DEF Undoing
    <2>9. ~Holds(w, BlockOf(i), {"escalate"})'
      BY <1>3, <2>4
    <2> QED
      BY <1>11, <2>2, <2>5, <2>6, <2>8, <2>9 DEF Seal
  <1>8. CASE SetPermanentMarker(w) /\ ~Exists(PermanentOf(i))
    <2>1. Elsewhere /\ rows' = rows /\ Changes(PermanentOf(i)) /\ count' = count
          /\ Moves(w, {"setPermanent"}) /\ work'[w].at = "setPermanent"
      BY <1>8, SetPermanentMarkerStep
    <2>2. PermanentRows(i)' = {}
      BY <1>1, <1>8, <2>1 DEF MarkerInv, Exists, None, Forever
    <2>3. Holds(w, BlockOf(i), {"setPermanent"})'
      BY <1>0, <2>1 DEF Moves, Idle, Holds
    <2>4. ~Sealed(i)'
      BY <1>3, <1>11, <2>1, <2>2, <2>3 DEF Sealed
    <2>5. CountedOut(i)'
      <3>1. work[w].at = "setnxPermanent"
        BY <1>8 DEF SetPermanentMarker, At
      <3> QED
        BY <1>2, <2>1, <3>1 DEF Seal, Promoting, CountedOut
    <2> QED
      BY <1>11, <2>4, <2>5 DEF Seal
  <1>9. CASE SetPermanent(w)
    <2>1. rows' = rows /\ Changes(BlockOf(i)) /\ count' = count
          /\ work'[w].at = "insertPermanent" /\ expiry'[BlockOf(i)] = Forever
      BY <1>9, SetLongerStep
    <2>2. work[w].at = "setPermanent"
      BY <1>9 DEF SetPermanent, At
    <2>3. CountedOut(i)'
      BY <1>2, <2>1, <2>2 DEF Seal, Promoting, CountedOut
    <2>4. ~Holds(w, BlockOf(i), Undoing)'
      BY <1>3, <2>1 DEF Undoing
    <2> QED
      BY <1>11, <2>1, <2>3, <2>4 DEF Seal
  <1>10. CASE InsertPermanent(w)
    <2>1. UNCHANGED redis /\ work'[w].at = "escalate"
      BY <1>10, InsertPermanentStep
    <2>2. work[w].at = "insertPermanent"
      BY <1>10 DEF InsertPermanent, At
    <2>3. Sealed(i) /\ CountedOut(i)
      BY <1>2, <2>2 DEF Sealed, Seal, Promoting
    <2>4. CountedOut(i)' /\ expiry'[BlockOf(i)] = Forever
      BY <2>1, <2>3 DEF CountedOut, redis, Seal
    <2>5. ~Holds(w, BlockOf(i), Undoing)'
      BY <1>3, <2>1 DEF Undoing
    <2> QED
      BY <1>11, <2>4, <2>5 DEF Seal
  <1> QED
    BY <1>5, <1>6, <1>7, <1>8, <1>9, <1>10

SealInv == \A i \in Ip : BlockOf(i) \notin overlap => Solo(i) /\ Seal(i)

\* The workers that Overlaps looks for are those at these steps.
LEMMA BlockingHolds ==
  ASSUME AbuseInv, NEW v \in Worker, NEW k
  PROVE  Blocking(v, k) <=> Holds(v, k, Engaged)
  <1>1. CASE work[v].at = "idle"
    BY <1>1 DEF Blocking, Holds, Engaged, Escalation
  <1>2. CASE work[v].at # "idle"
    <2>1. work[v].at \in Steps \cup Escalation
      BY <1>2, Busy DEF Task
    <2> QED
      BY <2>1 DEF Blocking, Holds, Engaged, Escalation, Steps
  <1> QED
    BY <1>1, <1>2

\* Two workers are at blocks of an address only when a second one won its key.
LEMMA SoloStep ==
  ASSUME AbuseInv, AbuseAssumption, NEW i \in Ip, [Next]_vars,
         BlockOf(i) \notin overlap', BlockOf(i) \notin overlap => Solo(i)
  PROVE  BlockOf(i) \notin overlap /\ Solo(i) /\ Solo(i)'
  <1>1. ASSUME overlap' = overlap, NEW w \in Worker, NEW steps, Moves(w, steps),
               steps \cap Engaged = {} \/ work[w].at \in Engaged
        PROVE  BlockOf(i) \notin overlap /\ Solo(i) /\ Solo(i)'
    <2>1. \A v \in Worker : Holds(v, BlockOf(i), Engaged)' => Holds(v, BlockOf(i), Engaged)
      BY <1>1 DEF Holds, Moves, Idle, Engaged, Escalation
    <2> QED
      BY <1>1, <2>1 DEF Solo
  <1>2. CASE Tick \/ Still
    <2>1. overlap' = overlap /\ (work' = work \/ Unmoved)
      BY <1>2, TickStep DEF Still
    <2> QED
      BY <2>1 DEF Solo, Holds, Unmoved
  <1>3. ASSUME NEW w \in Worker, Aside(w) \/ Drops(w)
        PROVE  BlockOf(i) \notin overlap /\ Solo(i) /\ Solo(i)'
    <2>1. overlap' = overlap /\ (Moves(w, Counting) \/ Moves(w, {}))
      BY <1>3 DEF Aside, Drops
    <2>2. Counting \cap Engaged = {}
      BY DEF Counting, Engaged, Escalation
    <2> QED
      BY <1>1, <2>1, <2>2
  <1>4. ASSUME NEW w \in Worker,
               SetBlock(w), ~Exists(BlockKey(work[w].det, work[w].job))
        PROVE  BlockOf(i) \notin overlap /\ Solo(i) /\ Solo(i)'
    <2> DEFINE k == BlockKey(work[w].det, work[w].job)
    <2>1. Moves(w, {"expireBlock"}) /\ work'[w].at = "expireBlock" /\ Overlaps(w, k)
      BY <1>4, SetBlockStep
    <2>2. work'[w].job = work[w].job /\ work'[w].det = work[w].det
      BY <2>1 DEF Moves, Idle
    <2>3. /\ overlap \subseteq overlap'
          /\ (\E v \in Worker \ {w} : Blocking(v, k)) => k \in overlap'
      BY <2>1 DEF Overlaps
    <2>4. BlockOf(i) \notin overlap /\ Solo(i)
      BY <2>3
    <2>5. \A v \in Worker : v # w =>
            (Holds(v, BlockOf(i), Engaged)' <=> Holds(v, BlockOf(i), Engaged))
      BY <2>1 DEF Moves, Holds
    <2>6. CASE k # BlockOf(i)
      <3>1. ~Holds(w, BlockOf(i), Engaged)'
        BY <2>2, <2>6 DEF Holds
      <3> QED
        BY <2>4, <2>5, <3>1 DEF Solo
    <2>7. CASE k = BlockOf(i)
      <3>1. \A v \in Worker : v # w => ~Holds(v, BlockOf(i), Engaged)
        BY <2>3, <2>7, BlockingHolds
      <3> QED
        BY <2>4, <2>5, <3>1 DEF Solo
    <2> QED
      BY <2>6, <2>7
  <1>5. ASSUME NEW w \in Worker,
               \/ ExpireBlock(w) \/ Insert(w) \/ CountBlock(w) \/ ExpireBlocks(w)
               \/ SetPermanentMarker(w) \/ SetPermanent(w) \/ InsertPermanent(w)
               \/ SetEscalated(w) \/ ExpireEscalated(w)
        PROVE  BlockOf(i) \notin overlap /\ Solo(i) /\ Solo(i)'
    <2>1. work[w].at \in Engaged
      BY <1>5 DEF ExpireBlock, Insert, CountBlock, ExpireBlocks, SetPermanentMarker,
           SetPermanent, InsertPermanent, SetEscalated, ExpireEscalated, At, Engaged,
           Escalation
    <2>2. overlap' = overlap /\ \E steps : Moves(w, steps)
      <3>1. CASE ExpireBlock(w) \/ Insert(w)
        BY <3>1, ExpireBlockStep, InsertStep DEF Elsewhere
      <3>2. CASE CountBlock(w) \/ ExpireBlocks(w)
        BY <3>2, CountBlockStep, ExpireBlocksStep DEF Elsewhere
      <3>3. CASE SetPermanentMarker(w)
        BY <3>3, SetPermanentMarkerStep DEF Elsewhere
      <3>4. CASE SetPermanent(w) \/ SetEscalated(w)
        BY <3>4, SetLongerStep DEF Elsewhere
      <3>5. CASE InsertPermanent(w) \/ ExpireEscalated(w)
        BY <3>5, InsertPermanentStep, ExpireEscalatedStep DEF Elsewhere
      <3> QED
        BY <1>5, <3>1, <3>2, <3>3, <3>4, <3>5
    <2> QED
      BY <1>1, <2>1, <2>2
  <1> QED
    BY <1>2, <1>3, <1>4, <1>5, NextCases

\* Every step keeps every seal.
LEMMA SealInvStep ==
  ASSUME AbuseInv, AbuseAssumption, MarkerInv, SealInv, [Next]_vars
  PROVE  SealInv'
  <1> SUFFICES ASSUME NEW i \in Ip, BlockOf(i) \notin overlap'
               PROVE  Solo(i)' /\ Seal(i)'
    BY DEF SealInv
  <1>0. /\ Seal(i) /\ {BlockOf(i), PermanentOf(i), BlocksOf(i)} \subseteq Watched
        /\ BlockOf(i) \in Key /\ PermanentOf(i) \in Key /\ BlocksOf(i) \in Key
        /\ BlockOf(i) # PermanentOf(i) /\ BlockOf(i) # BlocksOf(i)
        /\ PermanentOf(i) # BlocksOf(i) /\ Solo(i) /\ Solo(i)'
    BY KeysDiffer, SoloStep DEF SealInv
  <1> SUFFICES Seal(i)'
    BY <1>0
  <1>1. rows' = rows => PermanentRows(i)' = PermanentRows(i)
    BY DEF PermanentRows, RowsFor
  <1>2. Same(Watched) => /\ expiry'[BlockOf(i)] = expiry[BlockOf(i)]
                         /\ expiry'[PermanentOf(i)] = expiry[PermanentOf(i)]
                         /\ count'[BlocksOf(i)] = count[BlocksOf(i)]
    BY <1>0 DEF Same
  <1>3. CASE Tick
    <2>1. UNCHANGED <<work, rows, cut>>
      BY <1>3, TickStep
    <2>2. /\ expiry[BlockOf(i)] = Forever => expiry'[BlockOf(i)] = Forever
          /\ expiry'[PermanentOf(i)] = expiry[PermanentOf(i)]
          /\ count'[BlocksOf(i)] \in {0, count[BlocksOf(i)]}
      BY <1>0, <1>3, TickStep DEF MarkerInv, None, Forever
    <2>3. \A steps : \A v \in Worker :
            Holds(v, BlockOf(i), steps)' <=> Holds(v, BlockOf(i), steps)
      BY <2>1 DEF Holds
    <2>4. Sealed(i)' <=> Sealed(i)
      BY <1>1, <2>1, <2>2, <2>3 DEF Sealed
    <2>5. CountedOut(i) => CountedOut(i)'
      BY <2>2 DEF CountedOut
    <2> QED
      BY <1>0, <2>2, <2>3, <2>4, <2>5 DEF Seal
  <1>4. CASE Still
    <2>1. UNCHANGED <<rows, cut>> /\ Same(Watched) /\ Unmoved
      BY <1>4 DEF Still
    <2>2. \A steps : \A v \in Worker :
            Holds(v, BlockOf(i), steps)' <=> Holds(v, BlockOf(i), steps)
      BY <2>1 DEF Holds, Unmoved
    <2>3. (Sealed(i)' <=> Sealed(i)) /\ (CountedOut(i)' <=> CountedOut(i))
      BY <1>1, <1>2, <2>1, <2>2 DEF Sealed, CountedOut
    <2> QED
      BY <1>0, <1>2, <2>1, <2>2, <2>3 DEF Seal
  <1>5. ASSUME NEW w \in Worker, Aside(w) \/ Drops(w) PROVE Seal(i)'
    <2>1. /\ Same(Watched) /\ rows' = rows
          /\ \A v \in Worker : v # w => work'[v] = work[v]
      BY <1>5 DEF Aside, Drops, Moves
    <2>2. ~Holds(w, BlockOf(i), Deciding)'
      BY <1>5 DEF Aside, Drops, Moves, Idle, Holds, Deciding, Undoing, Promoting, Counting
    <2>3. \/ PermanentOf(i) \in cut'
          \/ PermanentOf(i) \notin cut /\ ~Holds(w, BlockOf(i), {"setPermanent"})
      <3>1. CASE Aside(w)
        BY <3>1 DEF Aside, Counting, Holds
      <3>2. CASE Drops(w) /\ Holds(w, BlockOf(i), {"setPermanent"})
        <4>1. work[w].at = "setPermanent" /\ BlockKey(work[w].det, work[w].job) = BlockOf(i)
          BY <3>2 DEF Holds
        <4>2. work[w].job.ip \in Ip /\ work[w].det # "key" /\ work[w].det \in Detector
              /\ work[w].job \in Job
          BY <4>1, Busy DEF Escalation
        <4>3. work[w].job.ip = i
          BY <4>1, <4>2, DetectorKeys, KeysDiffer
        <4>4. Unfinished(w) = {PermanentOf(i)}
          BY <4>1, <4>3 DEF Unfinished, At
        <4> QED
          BY <3>2, <4>4 DEF Drops
      <3>3. CASE Drops(w) /\ ~Holds(w, BlockOf(i), {"setPermanent"})
        BY <3>3 DEF Drops
      <3> QED
        BY <1>5, <3>1, <3>2, <3>3
    <2> QED
      BY <1>0, <1>1, <1>2, <2>1, <2>2, <2>3, SealElsewhere
  <1>6. ASSUME NEW w \in Worker,
               \/ SetBlock(w) /\ ~Exists(BlockKey(work[w].det, work[w].job))
               \/ ExpireBlock(w) \/ Insert(w) \/ CountBlock(w) \/ ExpireBlocks(w)
               \/ SetPermanentMarker(w) \/ SetPermanent(w) \/ InsertPermanent(w)
               \/ SetEscalated(w) \/ ExpireEscalated(w)
        PROVE  Seal(i)'
    <2> DEFINE own == BlockKey(work[w].det, work[w].job)
               ip == work[w].job.ip
    <2>1. work[w].at # "idle"
      BY <1>6 DEF SetBlock, ExpireBlock, Insert, CountBlock, ExpireBlocks,
           SetPermanentMarker, SetPermanent, InsertPermanent, SetEscalated,
           ExpireEscalated, At
    <2>2. /\ ip \in Ip /\ (work[w].at \in Escalation => work[w].det # "key")
          /\ work[w].det # "key" => own = BlockOf(ip)
          /\ work[w].det = "key" => \E a \in ApiKey : own = <<"block:apikey", a>>
      BY <2>1, Busy, DetectorKeys
    <2>4. CASE \/ ExpireBlocks(w)
               \/ SetPermanentMarker(w) /\ Exists(PermanentOf(ip))
      <3>1. /\ Elsewhere /\ rows' = rows /\ Moves(w, {}) /\ count' = count
            /\ (Changes(BlocksOf(ip)) \/ expiry' = expiry)
        <4>1. CASE ExpireBlocks(w)
          BY <4>1, ExpireBlocksStep
        <4>2. CASE SetPermanentMarker(w) /\ Exists(PermanentOf(ip))
          <5>1. /\ Elsewhere /\ rows' = rows /\ Moves(w, {}) /\ count' = count
                /\ Changes(PermanentOf(ip))
                /\ expiry'[PermanentOf(ip)] = expiry[PermanentOf(ip)]
            BY <4>2, SetPermanentMarkerStep
          <5>2. expiry' = expiry
            BY <5>1 DEF Changes, Same, RedisOK, AbuseInv
          <5> QED
            BY <5>1, <5>2
        <4> QED
          BY <2>4, <4>1, <4>2
      <3>2. /\ expiry'[BlockOf(i)] = expiry[BlockOf(i)]
            /\ expiry'[PermanentOf(i)] = expiry[PermanentOf(i)]
        BY <1>0, <2>2, <3>1, KeysDiffer DEF Changes, Same
      <3>3. ~Holds(w, BlockOf(i), Deciding)'
        BY <3>1 DEF Moves, Idle, Holds, Deciding, Undoing, Promoting
      <3>4. ~Holds(w, BlockOf(i), {"setPermanent"})
        BY <2>4 DEF ExpireBlocks, SetPermanentMarker, At, Holds
      <3>5. cut' = cut /\ \A v \in Worker : v # w => work'[v] = work[v]
        BY <3>1 DEF Elsewhere, Apart, Moves
      <3> QED
        BY <1>0, <1>1, <3>1, <3>2, <3>3, <3>4, <3>5, SealElsewhere
    <2>5. CASE ~ExpireBlocks(w) /\ ~(SetPermanentMarker(w) /\ Exists(PermanentOf(ip)))
               /\ own = BlockOf(i)
      <3>1. work[w].det # "key" /\ i = ip
        BY <2>2, <2>5, KeysDiffer
      <3>2. Away(w, i) /\ Away(w, i)'
        <4>1. CASE SetBlock(w) /\ ~Exists(own)
          <5>1. Moves(w, {"expireBlock"}) /\ work'[w].at = "expireBlock" /\ Overlaps(w, own)
            BY <4>1, SetBlockStep
          <5>2. \A v \in Worker : v # w => ~Blocking(v, own)
            BY <2>5, <5>1 DEF Overlaps
          <5>3. Away(w, i)
            BY <2>5, <5>2, BlockingHolds DEF Away
          <5> QED
            BY <5>1, <5>3 DEF Away, Moves, Holds
        <4>2. CASE ~(SetBlock(w) /\ ~Exists(own))
          <5>1. work[w].at \in Engaged
            BY <1>6, <4>2 DEF ExpireBlock, Insert, CountBlock, ExpireBlocks,
                 SetPermanentMarker, SetPermanent, InsertPermanent, SetEscalated,
                 ExpireEscalated, At, Engaged, Escalation
          <5>2. Away(w, i)
            BY <1>0, <2>5, <5>1 DEF Solo, Away, Holds
          <5>3. \A v \in Worker : v # w => work'[v] = work[v]
            <6>1. CASE ExpireBlock(w) \/ SetPermanent(w) \/ InsertPermanent(w)
                       \/ SetEscalated(w) \/ ExpireEscalated(w)
              BY <6>1, OwnBlockSteps DEF Moves
            <6>2. CASE Insert(w) \/ CountBlock(w) \/ SetPermanentMarker(w)
              BY <6>2, InsertStep, CountBlockStep, SetPermanentMarkerStep DEF Moves
            <6> QED
              BY <1>6, <2>5, <4>2, <6>1, <6>2
          <5> QED
            BY <5>2, <5>3 DEF Away, Holds
        <4> QED
          BY <4>1, <4>2
      <3> QED
        BY <1>0, <1>6, <2>1, <2>5, <3>1, <3>2, SealOwn
    <2>6. CASE ~ExpireBlocks(w) /\ ~(SetPermanentMarker(w) /\ Exists(PermanentOf(ip)))
               /\ own # BlockOf(i)
      <3> DEFINE keys == {own, BlocksOf(ip), PermanentOf(ip)}
      <3>1. /\ \E steps : Moves(w, steps)
            /\ cut' = cut /\ PermanentRows(i)' = PermanentRows(i)
            /\ \/ UNCHANGED redis
               \/ \E k \in keys : Changes(k) /\ (k = own \/ work[w].at \in Escalation)
        <4>1. CASE SetBlock(w) /\ ~Exists(own)
          BY <1>1, <4>1, SetBlockStep DEF Apart
        <4>2. CASE ExpireBlock(w)
          BY <1>1, <4>2, ExpireBlockStep DEF Elsewhere, Apart
        <4>3. CASE Insert(w)
          <5> DEFINE row == [n |-> Cardinality(rows), reason |-> work[w].det,
                             ip |-> IF work[w].det = "key" THEN "null" ELSE ip,
                             at |-> clock]
          <5>1. /\ Elsewhere /\ UNCHANGED redis /\ \E steps : Moves(w, steps)
                /\ rows' = rows \cup {row}
            BY <4>3, InsertStep
          <5>2. row.reason # "permanent"
            BY <2>1, Busy DEF Detector
          <5> HIDE DEF row
          <5> QED
            BY <5>1, <5>2, OtherRows DEF Elsewhere, Apart
        <4>4. CASE CountBlock(w)
          <5>1. work[w].at \in Escalation
            BY <4>4 DEF CountBlock, At, Escalation
          <5> QED
            BY <1>1, <4>4, <5>1, CountBlockStep DEF Elsewhere, Apart
        <4>5. CASE SetPermanentMarker(w)
          <5>1. work[w].at \in Escalation
            BY <4>5 DEF SetPermanentMarker, At, Escalation
          <5> QED
            BY <1>1, <4>5, <5>1, SetPermanentMarkerStep DEF Elsewhere, Apart
        <4>6. CASE SetPermanent(w) \/ SetEscalated(w)
          <5>1. work[w].at \in Escalation
            BY <4>6 DEF SetPermanent, SetEscalated, At, Escalation
          <5> QED
            BY <1>1, <2>2, <4>6, <5>1, SetLongerStep DEF Elsewhere, Apart
        <4>7. CASE InsertPermanent(w)
          <5> DEFINE row == [n |-> Cardinality(rows), reason |-> "permanent",
                             ip |-> ip, at |-> clock]
          <5>1. /\ Elsewhere /\ UNCHANGED redis /\ \E steps : Moves(w, steps)
                /\ rows' = rows \cup {row}
            BY <4>7, InsertPermanentStep
          <5>2. work[w].at \in Escalation
            BY <4>7 DEF InsertPermanent, At, Escalation
          <5>3. row.ip # i
            BY <2>2, <2>6, <5>2
          <5> HIDE DEF row
          <5>4. PermanentRows(i)' = PermanentRows(i)
            BY <5>1, <5>3 DEF PermanentRows, RowsFor
          <5> QED
            BY <5>1, <5>4 DEF Elsewhere, Apart
        <4>8. CASE ExpireEscalated(w)
          <5>1. work[w].at \in Escalation
            BY <4>8 DEF ExpireEscalated, At, Escalation
          <5> QED
            BY <1>1, <2>2, <4>8, <5>1, ExpireEscalatedStep DEF Elsewhere, Apart
        <4> QED
          BY <1>6, <2>6, <4>1, <4>2, <4>3, <4>4, <4>5, <4>6, <4>7, <4>8
      <3>2. \A k \in keys : (k = own \/ work[w].at \in Escalation) =>
              k \notin {BlockOf(i), PermanentOf(i), BlocksOf(i)}
        <4>1. work[w].at \in Escalation => i # ip
          BY <2>2, <2>6
        <4>2. own \notin {BlockOf(i), PermanentOf(i), BlocksOf(i)}
          BY <2>2, <2>6, KeysDiffer
        <4> HIDE DEF own, ip
        <4> QED
          BY <2>2, <4>1, <4>2, KeysDiffer
      <3> HIDE DEF keys
      <3>3. /\ expiry'[BlockOf(i)] = expiry[BlockOf(i)]
            /\ expiry'[PermanentOf(i)] = expiry[PermanentOf(i)]
            /\ count'[BlocksOf(i)] = count[BlocksOf(i)]
        BY <1>0, <3>1, <3>2 DEF Changes, Same, redis
      <3>4. ~Holds(w, BlockOf(i), {"setPermanent"}) /\ ~Holds(w, BlockOf(i), Deciding)'
        BY <2>6, <3>1 DEF Holds, Moves, Idle, Deciding, Undoing, Promoting
      <3>5. \A v \in Worker : v # w => work'[v] = work[v]
        BY <3>1 DEF Moves
      <3> QED
        BY <1>0, <3>1, <3>3, <3>4, <3>5, SealElsewhere
    <2> QED
      BY <2>4, <2>5, <2>6
  <1> QED
    BY <1>3, <1>4, <1>5, <1>6, NextCases

\* In every reachable state of the specification.
LEMMA SealInvariant ==
  Spec => [](AbuseInv /\ MarkerInv /\ SealInv)
  <1>1. Init => SealInv
    <2> SUFFICES ASSUME Init, NEW i \in Ip PROVE Solo(i) /\ Seal(i)
      BY DEF SealInv
    <2>1. expiry[PermanentOf(i)] = None /\ PermanentRows(i) = {}
      BY KeysDiffer DEF Init, PermanentRows, RowsFor
    <2>2. \A w \in Worker : ~Holds(w, BlockOf(i), Promoting)
                            /\ ~Holds(w, BlockOf(i), {"insertPermanent"})
                            /\ ~Holds(w, BlockOf(i), Engaged)
      BY DEF Init, Holds, Idle, Promoting, Engaged, Escalation
    <2> QED
      BY <2>1, <2>2 DEF Seal, Sealed, Solo
  <1>2. AbuseInv /\ MarkerInv /\ SealInv /\ [Next]_vars => SealInv'
    BY SealInvStep, AbuseAssumption
  <1> QED
    BY <1>1, <1>2, MarkerInvariant, PTL DEF Spec

(***************************************************************************)
(* For any number of workers, and however often jobs fail, stall or leave  *)
(* something unfinished: nothing that the detectors or the escalation do   *)
(* after a permanent block is recorded replaces its key or gives it a TTL, *)
(* as long as no two workers were at blocks of that address at once.       *)
(***************************************************************************)
THEOREM PermanentBlocksStay ==
  Spec => PermanentStays
  <1>1. SealInv /\ SealInv' /\ AbuseInv /\ [Next]_vars =>
          [\A i \in Ip : RowsFor(i, {"permanent"}) # {} /\ BlockOf(i) \notin overlap =>
             expiry'[BlockOf(i)] = expiry[BlockOf(i)]]_vars
    <2> SUFFICES ASSUME SealInv, SealInv', AbuseInv, [Next]_vars,
                        NEW i \in Ip, RowsFor(i, {"permanent"}) # {},
                        BlockOf(i) \notin overlap
                 PROVE  expiry'[BlockOf(i)] = expiry[BlockOf(i)]
      OBVIOUS
    <2>1. rows \subseteq rows'
      BY DEF Next, vars, redis, Tick, Arrive, Take, WorkerStep, Count, ReadTtl,
           ExpireCounter, ReadSize, SetBlock, ExpireBlock, Insert, InsertThrows, Fail,
           Stall, Throws, CountBlock, ExpireBlocks, SetPermanentMarker, SetPermanent,
           InsertPermanent, SetEscalated, ExpireEscalated
    <2>2. PermanentRows(i) # {} /\ PermanentRows(i)' # {}
      BY <2>1 DEF PermanentRows, RowsFor
    <2>3. Sealed(i) /\ Sealed(i)'
      BY <2>2 DEF Sealed
    <2>4. expiry[BlockOf(i)] = Forever
      BY <2>3 DEF SealInv, Seal
    <2>5. CASE BlockOf(i) \notin overlap'
      BY <2>3, <2>4, <2>5 DEF SealInv, Seal
    <2>6. CASE BlockOf(i) \in overlap'
      <3>1. \E w \in Worker : SetBlock(w) /\ BlockKey(work[w].det, work[w].job) = BlockOf(i)
                              /\ ~Exists(BlockOf(i))
        BY <2>6 DEF Next, vars, faults, Tick, Arrive, Take, WorkerStep, Count, ReadTtl,
             ExpireCounter, ReadSize, SetBlock, Overlaps, ExpireBlock, Insert,
             InsertThrows, Fail, Stall, Throws, CountBlock, ExpireBlocks,
             SetPermanentMarker, SetPermanent, InsertPermanent, SetEscalated,
             ExpireEscalated
      <3> QED
        BY <2>4, <3>1 DEF Exists, None, Forever
    <2> QED
      BY <2>5, <2>6
  <1> QED
    BY <1>1, SealInvariant, PTL DEF Spec, PermanentStays

(***************************************************************************)
(* For any number of workers, whatever fails or throws: while none runs, a *)
(* block without an end is a recorded permanent one, that of an API key    *)
(* ends, and an address whose marker is set is blocked, but for what a     *)
(* worker left unfinished and for addresses that two workers were at.      *)
(***************************************************************************)
THEOREM BlocksEndTheorem ==
  Spec => []BlocksEnd
  <1>1. EndingInv /\ SealInv => BlocksEnd
    <2> SUFFICES ASSUME EndingInv, SealInv, Quiet PROVE BlocksEnd
      BY DEF BlocksEnd
    <2>1. \A w \in Worker : \A k : /\ ~Holds(w, k, Finishing)
                                    /\ ~Holds(w, k, {"setPermanent"})
      BY DEF Quiet, At, Holds, Finishing
    <2>2. \A k \in BlockKeys : expiry[k] = Forever => Settled(k)
      BY <2>1 DEF EndingInv, Ending
    <2>3. ASSUME NEW i \in Ip, expiry[BlockOf(i)] = Forever
          PROVE  \/ RowsFor(i, {"permanent"}) # {}
                 \/ BlockOf(i) \in cut \/ <<"row", i>> \in cut
      <3>1. Settled(BlockOf(i))
        BY <2>2, <2>3 DEF BlockKeys
      <3> QED
        BY <3>1 DEF Settled, RowsFor, BlockOf
    <2>4. ASSUME NEW a \in ApiKey, expiry[<<"block:apikey", a>>] = Forever
          PROVE  <<"block:apikey", a>> \in cut
      <3>1. Settled(<<"block:apikey", a>>)
        BY <2>2, <2>4 DEF BlockKeys
      <3>2. \A x : <<"block:apikey", a>> # BlockOf(x)
        BY DEF BlockOf
      <3> QED
        BY <3>1, <3>2 DEF Settled
    <2>5. ASSUME NEW i \in Ip, Exists(PermanentOf(i)), PermanentOf(i) \notin cut,
                 BlockOf(i) \notin overlap
          PROVE  Exists(BlockOf(i))
      <3>1. Sealed(i)
        BY <2>1, <2>5 DEF Exists, Sealed
      <3> QED
        BY <2>5, <3>1 DEF SealInv, Seal, Exists, None, Forever
    <2> QED
      BY <2>3, <2>4, <2>5 DEF BlocksEnd
  <1> QED
    BY <1>1, SealInvariant, EndingInvariant, PTL

(***************************************************************************)
(* The count of an address's blocks.  Until the address is marked it never *)
(* exceeds the blocks recorded since the count began, and falls short of   *)
(* them by what workers have still to count; it begins when the first is   *)
(* counted and ends one PermanentWindow later.                             *)
(***************************************************************************)
On(w, i, steps) == work[w].at \in steps /\ work[w].job.ip = i
Escalating == {"escalate", "expireBlocks", "setnxPermanent", "setPermanent"}

CountStart(i) ==
    IF expiry[BlocksOf(i)] >= 0 THEN expiry[BlocksOf(i)] - PermanentWindow ELSE clock
Since(i) == {r \in RowsFor(i, Temporary) : r.at >= CountStart(i)}
Recent(i) == {r \in RowsFor(i, Temporary) : r.at > clock - PermanentWindow}
Uncounted(i) == {w \in Worker : On(w, i, {"escalate"})}

RowsTyped ==
    IsFiniteSet(rows) /\ \A r \in rows : r.n \in 0..(Cardinality(rows) - 1) /\ r.at \in Int

Meter(i) ==
    /\ count[BlocksOf(i)] = 0 <=> expiry[BlocksOf(i)] = None
    /\ expiry[BlocksOf(i)] >= 0 =>
         clock < expiry[BlocksOf(i)] /\ expiry[BlocksOf(i)] <= clock + PermanentWindow
    /\ expiry[BlocksOf(i)] = Forever => \E w \in Worker : On(w, i, {"expireBlocks"})
    /\ \A w \in Worker : On(w, i, {"expireBlocks"}) => expiry[BlocksOf(i)] = Forever
    /\ \A v, w \in Worker : On(v, i, {"expireBlocks"}) /\ On(w, i, {"expireBlocks"}) => v = w
    /\ IsFiniteSet(Uncounted(i))
    /\ Exists(PermanentOf(i))
         \/ count[BlocksOf(i)] + Cardinality(Uncounted(i)) <= Cardinality(Since(i))
    /\ \A w \in Worker : On(w, i, {"setnxPermanent"}) =>
         Exists(PermanentOf(i)) \/ Cardinality(Recent(i)) >= PermanentThreshold
    /\ \A w \in Worker : On(w, i, {"setPermanent"}) =>
         Cardinality(Recent(i)) >= PermanentThreshold

MeterInv == RowsTyped /\ \A i \in Ip : BlocksOf(i) \notin cut => Meter(i)

\* A new row has a number of its own.
LEMMA RowAdded ==
  ASSUME RowsTyped, NEW row, row.n = Cardinality(rows), row.at \in Int,
         rows' = rows \cup {row}
  PROVE  RowsTyped' /\ row \notin rows
  <1>1. Cardinality(rows) \in Nat /\ IsFiniteSet(rows)
    BY FS_CardinalityType DEF RowsTyped
  <1>2. row \notin rows
    BY <1>1 DEF RowsTyped
  <1>3. IsFiniteSet(rows') /\ Cardinality(rows') = Cardinality(rows) + 1
    BY <1>1, <1>2, FS_AddElement
  <1>4. \A r \in rows' : r.n \in 0..(Cardinality(rows') - 1) /\ r.at \in Int
    <2>1. row.n \in 0..(Cardinality(rows') - 1)
      BY <1>1, <1>3
    <2>2. \A n \in 0..(Cardinality(rows) - 1) : n \in 0..(Cardinality(rows') - 1)
      BY <1>1, <1>3
    <2> QED
      BY <2>1, <2>2 DEF RowsTyped
  <1> QED
    BY <1>2, <1>3, <1>4 DEF RowsTyped

\* The sets that the meter of an address compares are finite, and what was
\* recorded since the count began is recent.
LEMMA MeterSets ==
  ASSUME AbuseInv, AbuseAssumption, RowsTyped, NEW i \in Ip, Meter(i)
  PROVE  /\ clock \in Nat /\ PermanentWindow \in Nat \ {0} /\ PermanentThreshold \in Nat
         /\ BlocksOf(i) \in Key /\ count[BlocksOf(i)] \in Nat
         /\ expiry[BlocksOf(i)] \in Nat \cup {None, Forever}
         /\ CountStart(i) \in Int /\ CountStart(i) <= clock
         /\ CountStart(i) > clock - PermanentWindow
         /\ IsFiniteSet(Since(i)) /\ IsFiniteSet(Recent(i)) /\ Since(i) \subseteq Recent(i)
         /\ {Cardinality(Since(i)), Cardinality(Recent(i)), Cardinality(Uncounted(i))}
              \subseteq Nat
         /\ Cardinality(Since(i)) <= Cardinality(Recent(i))
  <1>1. clock \in Nat /\ PermanentWindow \in Nat \ {0} /\ PermanentThreshold \in Nat
    BY AbuseAssumption DEF AbuseInv, AbuseAssumption
  <1>2. BlocksOf(i) \in Key
    BY KeysDiffer
  <1>3. expiry[BlocksOf(i)] \in Nat \cup {None, Forever} /\ count[BlocksOf(i)] \in Nat
    BY <1>2 DEF AbuseInv, RedisOK
  <1>4. /\ CountStart(i) \in Int /\ CountStart(i) <= clock
        /\ CountStart(i) > clock - PermanentWindow
    BY <1>1, <1>3 DEF CountStart, Meter, None, Forever
  <1>5. Since(i) \subseteq rows /\ Recent(i) \subseteq rows
    BY DEF Since, Recent, RowsFor
  <1>6. Since(i) \subseteq Recent(i)
    <2>1. \A r \in Since(i) : r.at \in Int
      BY <1>5 DEF RowsTyped
    <2> QED
      BY <1>1, <1>4, <2>1 DEF Since, Recent
  <1>7. IsFiniteSet(Since(i)) /\ IsFiniteSet(Recent(i))
    BY <1>5, FS_Subset DEF RowsTyped
  <1>8. Cardinality(Since(i)) \in Nat /\ Cardinality(Recent(i)) \in Nat
        /\ Cardinality(Uncounted(i)) \in Nat
    BY <1>7, FS_CardinalityType DEF Meter
  <1>9. Cardinality(Since(i)) <= Cardinality(Recent(i))
    BY <1>6, <1>7, FS_Subset
  <1> QED
    BY <1>1, <1>2, <1>3, <1>4, <1>6, <1>7, <1>8, <1>9

\* A step that does not concern the count of the address i.
LEMMA MeterElsewhere ==
  ASSUME NEW i \in Ip, NEW w \in Worker, Meter(i), clock' = clock,
         count'[BlocksOf(i)] = count[BlocksOf(i)],
         expiry'[BlocksOf(i)] = expiry[BlocksOf(i)],
         Exists(PermanentOf(i)) => Exists(PermanentOf(i))',
         RowsFor(i, Temporary)' = RowsFor(i, Temporary),
         \A v \in Worker : v # w => work'[v] = work[v],
         ~On(w, i, {"escalate", "expireBlocks"}), ~On(w, i, Escalating)'
  PROVE  Meter(i)'
  <1>1. Since(i)' = Since(i) /\ Recent(i)' = Recent(i)
    BY DEF Since, Recent, CountStart
  <1>2. \A v \in Worker : /\ On(v, i, {"escalate"})' <=> On(v, i, {"escalate"})
                          /\ On(v, i, {"expireBlocks"})' <=> On(v, i, {"expireBlocks"})
                          /\ On(v, i, {"setnxPermanent"})' => On(v, i, {"setnxPermanent"})
                          /\ On(v, i, {"setPermanent"})' => On(v, i, {"setPermanent"})
    BY DEF On, Escalating
  <1>3. Uncounted(i)' = Uncounted(i)
    BY <1>2 DEF Uncounted
  <1> QED
    BY <1>1, <1>2, <1>3 DEF Meter

\* Time ends the count one PermanentWindow after it began.
LEMMA MeterTick ==
  ASSUME AbuseInv, AbuseAssumption, RowsTyped, MarkerInv, NEW i \in Ip, Meter(i), Tick
  PROVE  Meter(i)'
  <1> DEFINE k == BlocksOf(i)
  <1>1. /\ UNCHANGED <<work, rows>> /\ clock' = clock + 1
        /\ \A w \in Worker : work[w].at \in {"idle", "insert", "insertPermanent"}
        /\ \/ expiry'[k] = expiry[k] /\ count'[k] = count[k]
           \/ expiry[k] >= 0 /\ expiry'[k] = None /\ count'[k] = 0
        /\ expiry'[k] >= 0 => clock' < expiry'[k]
    BY TickStep, KeysDiffer
  <1>2. expiry'[PermanentOf(i)] = expiry[PermanentOf(i)]
    BY TickStep, KeysDiffer DEF MarkerInv, None, Forever
  <1>3. /\ clock \in Nat /\ PermanentWindow \in Nat \ {0} /\ count[k] \in Nat
        /\ expiry[k] \in Nat \cup {None, Forever} /\ IsFiniteSet(Since(i))
    BY MeterSets
  <1>4. \A w \in Worker : \A step \in Escalating :
          ~On(w, i, {step}) /\ ~On(w, i, {step})'
    BY <1>1 DEF On, Escalating
  <1>5. Uncounted(i)' = {} /\ Uncounted(i) = {}
    BY <1>4 DEF Uncounted, Escalating
  <1>6. Cardinality(Uncounted(i)) = 0 /\ Cardinality(Uncounted(i)') = 0
        /\ IsFiniteSet(Uncounted(i)')
    BY <1>5, FS_EmptySet
  <1>7. expiry[k] # Forever /\ expiry'[k] # Forever
    BY <1>1, <1>4 DEF Meter, Escalating, None, Forever
  <1>8. RowsFor(i, Temporary)' = RowsFor(i, Temporary)
    BY <1>1 DEF RowsFor
  <1>9. /\ count'[k] = 0 <=> expiry'[k] = None
    BY <1>1, <1>3 DEF Meter, None
  <1>10. expiry'[k] >= 0 =>
           clock' < expiry'[k] /\ expiry'[k] <= clock' + PermanentWindow
    <2>1. expiry[k] >= 0 => expiry[k] <= clock + PermanentWindow
      BY DEF Meter
    <2> HIDE DEF k
    <2> QED
      BY <1>1, <1>3, <2>1 DEF None, Forever
  <1>11. \/ Exists(PermanentOf(i))'
         \/ count'[k] + Cardinality(Uncounted(i)') <= Cardinality(Since(i)')
    <2>1. CASE expiry'[k] = expiry[k] /\ count'[k] = count[k] /\ expiry[k] >= 0
      <3>1. Since(i)' = Since(i)
        BY <1>8, <2>1 DEF Since, CountStart
      <3> QED
        BY <1>2, <1>6, <2>1, <3>1 DEF Meter, Exists
    <2>2. CASE count'[k] = 0
      <3>1. Since(i)' \subseteq rows
        BY <1>1 DEF Since, RowsFor
      <3>2. Cardinality(Since(i)') \in Nat
        BY <3>1, FS_Subset, FS_CardinalityType DEF RowsTyped
      <3> QED
        BY <1>6, <2>2, <3>2
    <2> QED
      BY <1>1, <1>3, <1>7, <1>9, <2>1, <2>2 DEF Forever, None
  <1> HIDE DEF k
  <1> QED
    BY <1>4, <1>6, <1>7, <1>9, <1>10, <1>11 DEF Meter, Escalating, k
\* A worker that comes to count a block, or that has counted it.
LEMMA UncountedChanges ==
  ASSUME NEW i \in Ip, NEW w \in Worker, IsFiniteSet(Uncounted(i)),
         \A v \in Worker : v # w => work'[v] = work[v]
  PROVE  /\ ~On(w, i, {"escalate"}) /\ On(w, i, {"escalate"})' =>
              /\ IsFiniteSet(Uncounted(i)')
              /\ Cardinality(Uncounted(i)') = Cardinality(Uncounted(i)) + 1
         /\ On(w, i, {"escalate"}) /\ ~On(w, i, {"escalate"})' =>
              /\ IsFiniteSet(Uncounted(i)')
              /\ Cardinality(Uncounted(i)') = Cardinality(Uncounted(i)) - 1
         /\ ~On(w, i, {"escalate"}) /\ ~On(w, i, {"escalate"})' =>
              Uncounted(i)' = Uncounted(i)
  <1>1. \A v \in Worker : v # w => (On(v, i, {"escalate"})' <=> On(v, i, {"escalate"}))
    BY DEF On
  <1>2. ASSUME ~On(w, i, {"escalate"}), On(w, i, {"escalate"})'
        PROVE  /\ IsFiniteSet(Uncounted(i)')
               /\ Cardinality(Uncounted(i)') = Cardinality(Uncounted(i)) + 1
    <2>1. Uncounted(i)' = Uncounted(i) \cup {w} /\ w \notin Uncounted(i)
      BY <1>1, <1>2 DEF Uncounted
    <2> QED
      BY <2>1, FS_AddElement
  <1>3. ASSUME On(w, i, {"escalate"}), ~On(w, i, {"escalate"})'
        PROVE  /\ IsFiniteSet(Uncounted(i)')
               /\ Cardinality(Uncounted(i)') = Cardinality(Uncounted(i)) - 1
    <2>1. Uncounted(i)' = Uncounted(i) \ {w} /\ w \in Uncounted(i)
      BY <1>1, <1>3 DEF Uncounted
    <2> QED
      BY <2>1, FS_RemoveElement
  <1>4. ASSUME ~On(w, i, {"escalate"}), ~On(w, i, {"escalate"})'
        PROVE  Uncounted(i)' = Uncounted(i)
    BY <1>1, <1>4 DEF Uncounted
  <1> QED
    BY <1>2, <1>3, <1>4

\* A recorded block, which its worker is about to count.
LEMMA MeterInsert ==
  ASSUME AbuseInv, AbuseAssumption, RowsTyped, NEW i \in Ip, Meter(i),
         NEW w \in Worker, Insert(w), work[w].det # "key", work[w].job.ip = i
  PROVE  Meter(i)'
  <1> DEFINE row == [n |-> Cardinality(rows), reason |-> work[w].det,
                     ip |-> i, at |-> clock]
  <1>1. /\ Elsewhere /\ UNCHANGED redis /\ rows' = rows \cup {row}
        /\ Moves(w, {"escalate"}) /\ work'[w].at = "escalate"
        /\ work[w].at = "insert" /\ work[w].det \in Detector
    BY InsertStep, Busy DEF Insert, At
  <1>2. /\ \A v \in Worker : v # w => work'[v] = work[v]
        /\ On(w, i, {"escalate"})' /\ ~On(w, i, {"escalate"})
    BY <1>1 DEF Moves, On, Idle
  <1>3. IsFiniteSet(Uncounted(i)')
        /\ Cardinality(Uncounted(i)') = Cardinality(Uncounted(i)) + 1
    BY <1>2, UncountedChanges DEF Meter
  <1>4. row.n = Cardinality(rows) /\ row.at = clock /\ row.ip = i /\ row.reason \in Temporary
    BY <1>1 DEF Detector, Temporary
  <1> HIDE DEF row
  <1>5. row \notin rows
    BY <1>1, <1>4, RowAdded DEF AbuseInv
  <1>6. clock' = clock /\ expiry' = expiry /\ count' = count
    BY <1>1 DEF Elsewhere, Apart, redis
  <1>7. clock \in Nat /\ CountStart(i) <= clock /\ clock > clock - PermanentWindow
        /\ IsFiniteSet(Since(i)) /\ IsFiniteSet(Recent(i))
    BY MeterSets
  <1>8. Since(i)' = Since(i) \cup {row} /\ Recent(i)' = Recent(i) \cup {row}
    BY <1>1, <1>4, <1>6, <1>7 DEF Since, Recent, CountStart, RowsFor
  <1>9. row \notin Since(i) /\ row \notin Recent(i)
    BY <1>5 DEF Since, Recent, RowsFor
  <1>10. /\ Cardinality(Since(i)') = Cardinality(Since(i)) + 1
         /\ Cardinality(Recent(i)') = Cardinality(Recent(i)) + 1
    BY <1>7, <1>8, <1>9, FS_AddElement
  <1>11. \A v \in Worker : \A step \in Escalating \ {"escalate"} :
           On(v, i, {step})' <=> On(v, i, {step})
    BY <1>1, <1>2 DEF On, Escalating
  <1>12. /\ {Cardinality(Since(i)), Cardinality(Recent(i)), Cardinality(Uncounted(i)),
             count[BlocksOf(i)], PermanentThreshold} \subseteq Nat
    BY MeterSets
  <1>13. \/ Exists(PermanentOf(i))'
         \/ count'[BlocksOf(i)] + Cardinality(Uncounted(i)') <= Cardinality(Since(i)')
    BY <1>3, <1>6, <1>10, <1>12 DEF Meter, Exists
  <1>14. Cardinality(Recent(i)) >= PermanentThreshold =>
           Cardinality(Recent(i)') >= PermanentThreshold
    BY <1>10, <1>12
  <1> QED
    BY <1>3, <1>6, <1>11, <1>13, <1>14 DEF Meter, Exists, Escalating

\* The worker counts the block: the first one starts the count, and enough of
\* them to make the block permanent were recorded since it began.
LEMMA MeterCount ==
  ASSUME AbuseInv, AbuseAssumption, RowsTyped, NEW i \in Ip, Meter(i),
         NEW w \in Worker, CountBlock(w), work[w].job.ip = i
  PROVE  Meter(i)'
  <1> DEFINE k == BlocksOf(i)
  <1>1. /\ Elsewhere /\ rows' = rows /\ Changes(k) /\ count'[k] = count[k] + 1
        /\ expiry'[k] = IF Exists(k) THEN expiry[k] ELSE Forever
        /\ Moves(w, {"expireBlocks", "setnxPermanent", "setEscalated"})
    BY CountBlockStep
  <1>2. /\ work'[w].at = "setnxPermanent" => count'[k] >= PermanentThreshold
        /\ work'[w].at = "expireBlocks" <=> count'[k] = 1
    BY CountBlockStep
  <1>3. work[w].at = "escalate" /\ clock' = clock
    BY <1>1 DEF CountBlock, At, Elsewhere, Apart
  <1>4. /\ \A v \in Worker : v # w => work'[v] = work[v]
        /\ On(w, i, {"escalate"}) /\ ~On(w, i, {"escalate", "setPermanent"})'
        /\ On(w, i, {"expireBlocks"})' <=> count'[k] = 1
        /\ ~On(w, i, {"expireBlocks", "setnxPermanent", "setPermanent"})
    BY <1>1, <1>2, <1>3 DEF Moves, On, Idle
  <1>5. IsFiniteSet(Uncounted(i)')
        /\ Cardinality(Uncounted(i)') = Cardinality(Uncounted(i)) - 1
    <2>1. ~On(w, i, {"escalate"})'
      BY <1>4 DEF On
    <2> QED
      BY <1>4, <2>1, UncountedChanges DEF Meter
  <1>6. /\ clock \in Nat /\ k \in Key /\ count[k] \in Nat /\ PermanentWindow \in Nat \ {0}
        /\ expiry[k] \in Nat \cup {None, Forever} /\ PermanentThreshold \in Nat
        /\ {Cardinality(Since(i)), Cardinality(Recent(i)), Cardinality(Uncounted(i))}
             \subseteq Nat
        /\ Cardinality(Since(i)) <= Cardinality(Recent(i))
    BY MeterSets
  <1>7. PermanentOf(i) \in Key /\ PermanentOf(i) # k
    BY KeysDiffer
  <1>8. expiry'[PermanentOf(i)] = expiry[PermanentOf(i)]
    BY <1>1, <1>7 DEF Changes, Same
  <1>9. Since(i)' = Since(i) /\ Recent(i)' = Recent(i)
    <2>1. CountStart(i)' = CountStart(i)
      BY <1>1, <1>3 DEF CountStart, Exists, None, Forever
    <2> QED
      BY <1>1, <1>3, <2>1 DEF Since, Recent, RowsFor
  <1>10. count[k] = 0 <=> expiry[k] = None
    BY DEF Meter
  <1>11. count'[k] = 0 <=> expiry'[k] = None
    BY <1>1, <1>6 DEF Exists, None, Forever
  <1>12. expiry'[k] >= 0 =>
           clock' < expiry'[k] /\ expiry'[k] <= clock' + PermanentWindow
    BY <1>1, <1>3, <1>6 DEF Meter, Exists, None, Forever
  <1>13. \A v \in Worker : v # w => \A step \in Escalating :
           On(v, i, {step})' <=> On(v, i, {step})
    BY <1>4 DEF On
  <1>14. /\ expiry'[k] = Forever => \E v \in Worker : On(v, i, {"expireBlocks"})'
         /\ \A v \in Worker : On(v, i, {"expireBlocks"})' => expiry'[k] = Forever
         /\ \A u, v \in Worker :
              On(u, i, {"expireBlocks"})' /\ On(v, i, {"expireBlocks"})' => u = v
    <2>1. CASE count'[k] = 1
      <3>1. expiry[k] = None /\ expiry'[k] = Forever
        BY <1>1, <1>6, <1>10, <2>1 DEF Exists
      <3>2. \A v \in Worker : On(v, i, {"expireBlocks"})' <=> v = w
        BY <1>4, <1>13, <2>1, <3>1 DEF Meter, Escalating, None, Forever
      <3> QED
        BY <3>1, <3>2
    <2>2. CASE count'[k] # 1
      <3>1. expiry'[k] = expiry[k]
        BY <1>1, <1>6, <1>10, <2>2 DEF Exists
      <3>2. ~On(w, i, {"expireBlocks"})' /\ ~On(w, i, {"expireBlocks"})
        BY <1>4, <2>2 DEF On
      <3>3. \A v \in Worker : On(v, i, {"expireBlocks"})' <=> On(v, i, {"expireBlocks"})
        BY <1>13, <3>2 DEF Escalating
      <3> QED
        BY <3>1, <3>3 DEF Meter
    <2> QED
      BY <2>1, <2>2
  <1>15. \/ Exists(PermanentOf(i))'
         \/ count'[k] + Cardinality(Uncounted(i)') <= Cardinality(Since(i)')
    BY <1>1, <1>5, <1>6, <1>8, <1>9 DEF Meter, Exists
  <1>16. ASSUME NEW v \in Worker, On(v, i, {"setnxPermanent"})'
         PROVE  Exists(PermanentOf(i))' \/ Cardinality(Recent(i)') >= PermanentThreshold
    <2>1. CASE v = w
      <3>1. count'[k] >= PermanentThreshold
        BY <1>2, <1>16, <2>1 DEF On
      <3>2. Cardinality(Uncounted(i)') \in Nat /\ count'[k] \in Int
        BY <1>1, <1>5, <1>6, FS_CardinalityType
      <3> QED
        BY <1>6, <1>9, <1>15, <3>1, <3>2
    <2>2. CASE v # w
      <3>1. On(v, i, {"setnxPermanent"})
        BY <1>13, <1>16, <2>2 DEF Escalating
      <3> QED
        BY <1>8, <1>9, <3>1 DEF Meter, Exists
    <2> QED
      BY <2>1, <2>2
  <1>17. ASSUME NEW v \in Worker, On(v, i, {"setPermanent"})'
         PROVE  Cardinality(Recent(i)') >= PermanentThreshold
    <2>1. v # w
      BY <1>4, <1>17 DEF On
    <2>2. On(v, i, {"setPermanent"})
      BY <1>13, <1>17, <2>1 DEF Escalating
    <2> QED
      BY <1>9, <2>2 DEF Meter
  <1> QED
    BY <1>5, <1>11, <1>12, <1>14, <1>15, <1>16, <1>17 DEF Meter

\* The worker gives the count its life.
LEMMA MeterExpire ==
  ASSUME AbuseInv, AbuseAssumption, RowsTyped, NEW i \in Ip, Meter(i),
         NEW w \in Worker, ExpireBlocks(w), work[w].job.ip = i
  PROVE  Meter(i)'
  <1> DEFINE k == BlocksOf(i)
  <1>1. /\ Elsewhere /\ rows' = rows /\ Changes(k) /\ count' = count /\ Moves(w, {})
        /\ expiry'[k] = IF Exists(k) THEN clock + PermanentWindow ELSE None
    BY ExpireBlocksStep
  <1>2. work[w].at = "expireBlocks" /\ clock' = clock
    BY <1>1 DEF ExpireBlocks, At, Elsewhere, Apart
  <1>3. /\ \A v \in Worker : v # w => work'[v] = work[v]
        /\ On(w, i, {"expireBlocks"}) /\ ~On(w, i, {"escalate"})
        /\ \A step \in Escalating : ~On(w, i, {step})'
    BY <1>1, <1>2 DEF Moves, On, Idle, Escalating
  <1>4. Uncounted(i)' = Uncounted(i)
    BY <1>3, UncountedChanges DEF Meter, Escalating
  <1>5. /\ clock \in Nat /\ k \in Key /\ count[k] \in Nat /\ PermanentWindow \in Nat \ {0}
    BY MeterSets
  <1>6. expiry[k] = Forever /\ expiry'[k] = clock + PermanentWindow
    BY <1>1, <1>3 DEF Meter, Exists, None, Forever
  <1>7. PermanentOf(i) \in Key /\ PermanentOf(i) # k
    BY KeysDiffer
  <1>8. expiry'[PermanentOf(i)] = expiry[PermanentOf(i)]
    BY <1>1, <1>7 DEF Changes, Same
  <1>9. Since(i)' = Since(i) /\ Recent(i)' = Recent(i)
    <2>1. CountStart(i)' = CountStart(i)
      BY <1>2, <1>5, <1>6 DEF CountStart, Forever
    <2> QED
      BY <1>1, <1>2, <2>1 DEF Since, Recent, RowsFor
  <1>10. \A v \in Worker : \A step \in Escalating : On(v, i, {step})' => On(v, i, {step})
    BY <1>3 DEF On
  <1>11. \A v \in Worker : ~On(v, i, {"expireBlocks"})'
    BY <1>3, <1>10 DEF Meter, Escalating
  <1>12. count[k] # 0 /\ expiry'[k] # None /\ expiry'[k] # Forever
         /\ clock' < expiry'[k] /\ expiry'[k] <= clock' + PermanentWindow
    BY <1>2, <1>5, <1>6 DEF Meter, None, Forever
  <1> QED
    BY <1>1, <1>4, <1>8, <1>9, <1>10, <1>11, <1>12 DEF Meter, Exists, Escalating

\* The worker marks the address: the one that makes its block permanent.
LEMMA MeterMark ==
  ASSUME AbuseInv, AbuseAssumption, RowsTyped, NEW i \in Ip, Meter(i),
         NEW w \in Worker, SetPermanentMarker(w), work[w].job.ip = i,
         ~Exists(PermanentOf(i))
  PROVE  Meter(i)'
  <1>1. /\ Elsewhere /\ rows' = rows /\ Changes(PermanentOf(i)) /\ count' = count
        /\ expiry'[PermanentOf(i)] = Forever
        /\ Moves(w, {"setPermanent"}) /\ work'[w].at = "setPermanent"
    BY SetPermanentMarkerStep
  <1>2. work[w].at = "setnxPermanent" /\ clock' = clock
    BY <1>1 DEF SetPermanentMarker, At, Elsewhere, Apart
  <1>3. /\ \A v \in Worker : v # w => work'[v] = work[v]
        /\ \A step \in Escalating \ {"setnxPermanent"} : ~On(w, i, {step})
        /\ \A step \in Escalating \ {"setPermanent"} : ~On(w, i, {step})'
        /\ On(w, i, {"setnxPermanent"})
    BY <1>1, <1>2 DEF Moves, On, Idle, Escalating
  <1>4. Uncounted(i)' = Uncounted(i)
    BY <1>3, UncountedChanges DEF Meter, Escalating
  <1>5. BlocksOf(i) \in Key /\ PermanentOf(i) # BlocksOf(i)
    BY KeysDiffer
  <1>6. expiry'[BlocksOf(i)] = expiry[BlocksOf(i)]
    BY <1>1, <1>5 DEF Changes, Same
  <1>7. Since(i)' = Since(i) /\ Recent(i)' = Recent(i) /\ Exists(PermanentOf(i))'
    BY <1>1, <1>2, <1>6 DEF Since, Recent, RowsFor, CountStart, Exists, None, Forever
  <1>8. \A v \in Worker : /\ On(v, i, {"expireBlocks"})' <=> On(v, i, {"expireBlocks"})
                          /\ On(v, i, {"setPermanent"})' => v = w \/ On(v, i, {"setPermanent"})
    BY <1>3 DEF On, Escalating
  <1>9. Cardinality(Recent(i)) >= PermanentThreshold
    BY <1>3 DEF Meter
  <1>10. \A v \in Worker : On(v, i, {"setPermanent"})' =>
            Cardinality(Recent(i)') >= PermanentThreshold
    BY <1>7, <1>8, <1>9 DEF Meter
  <1>11. count' = count /\ clock' = clock
    BY <1>1, <1>2
  <1>12. /\ count'[BlocksOf(i)] = 0 <=> expiry'[BlocksOf(i)] = None
         /\ expiry'[BlocksOf(i)] >= 0 =>
              /\ clock' < expiry'[BlocksOf(i)]
              /\ expiry'[BlocksOf(i)] <= clock' + PermanentWindow
    BY <1>6, <1>11 DEF Meter
  <1>13. /\ expiry'[BlocksOf(i)] = Forever => \E v \in Worker : On(v, i, {"expireBlocks"})'
         /\ \A v \in Worker : On(v, i, {"expireBlocks"})' => expiry'[BlocksOf(i)] = Forever
         /\ \A u, v \in Worker :
              On(u, i, {"expireBlocks"})' /\ On(v, i, {"expireBlocks"})' => u = v
    BY <1>6, <1>8 DEF Meter
  <1>14. IsFiniteSet(Uncounted(i)')
    BY <1>4 DEF Meter
  <1> QED
    BY <1>7, <1>10, <1>12, <1>13, <1>14 DEF Meter

\* The row of the permanent block: the address is marked by now.
LEMMA MeterInsertPermanent ==
  ASSUME AbuseInv, AbuseAssumption, RowsTyped, MarkerInv, NEW i \in Ip, Meter(i),
         NEW w \in Worker, InsertPermanent(w), work[w].job.ip = i
  PROVE  Meter(i)'
  <1> DEFINE row == [n |-> Cardinality(rows), reason |-> "permanent", ip |-> i,
                     at |-> clock]
  <1>1. /\ Elsewhere /\ UNCHANGED redis /\ rows' = rows \cup {row}
        /\ Moves(w, {"escalate"}) /\ work'[w].at = "escalate"
    BY InsertPermanentStep
  <1>2. work[w].at = "insertPermanent" /\ clock' = clock /\ expiry' = expiry /\ count' = count
    BY <1>1 DEF InsertPermanent, At, Elsewhere, Apart, redis
  <1>3. RowsFor(i, Temporary)' = RowsFor(i, Temporary)
    <2>1. row.reason \notin Temporary
      BY DEF Temporary
    <2> HIDE DEF row
    <2> QED
      BY <1>1, <2>1 DEF RowsFor
  <1>4. /\ \A v \in Worker : v # w => work'[v] = work[v]
        /\ \A step \in Escalating : ~On(w, i, {step})
        /\ On(w, i, {"escalate"})'
        /\ \A step \in Escalating \ {"escalate"} : ~On(w, i, {step})'
    BY <1>1, <1>2 DEF Moves, On, Idle, Escalating
  <1>5. IsFiniteSet(Uncounted(i)')
    BY <1>4, UncountedChanges DEF Meter, Escalating
  <1>6. Exists(PermanentOf(i)) /\ Exists(PermanentOf(i))'
    BY <1>2 DEF MarkerInv, Marks, Marking, Exists, None, Forever
  <1>7. Since(i)' = Since(i) /\ Recent(i)' = Recent(i)
    BY <1>2, <1>3 DEF Since, Recent, CountStart
  <1>8. \A v \in Worker : \A step \in Escalating \ {"escalate"} :
          On(v, i, {step})' <=> On(v, i, {step})
    BY <1>4 DEF On
  <1> QED
    BY <1>2, <1>5, <1>6, <1>7, <1>8 DEF Meter, Escalating
\* A step of a worker on another address, or one that neither counts blocks nor
\* makes them permanent.
LEMMA MeterAside ==
  ASSUME NEW i \in Ip, NEW w \in Worker, Meter(i), NEW steps, Moves(w, steps),
         clock' = clock, count'[BlocksOf(i)] = count[BlocksOf(i)],
         expiry'[BlocksOf(i)] = expiry[BlocksOf(i)],
         Exists(PermanentOf(i)) => Exists(PermanentOf(i))',
         RowsFor(i, Temporary)' = RowsFor(i, Temporary),
         \/ work[w].job.ip # i
         \/ work[w].at \notin {"escalate", "expireBlocks"} /\ steps \cap Escalating = {}
  PROVE  Meter(i)'
  <1>1. ~On(w, i, {"escalate", "expireBlocks"}) /\ ~On(w, i, Escalating)'
    BY DEF On, Moves, Idle, Escalating
  <1>2. \A v \in Worker : v # w => work'[v] = work[v]
    BY DEF Moves
  <1> QED
    BY <1>1, <1>2, MeterElsewhere

\* A worker that is cut off, but not before it gave the count its end: what it
\* had recorded may never be counted.
LEMMA MeterDrops ==
  ASSUME AbuseInv, AbuseAssumption, RowsTyped, NEW i \in Ip, Meter(i),
         NEW w \in Worker, Drops(w), BlocksOf(i) \notin cut'
  PROVE  Meter(i)'
  <1>1. /\ clock' = clock /\ rows' = rows /\ work'[w] = Idle
        /\ \A v \in Worker : v # w => work'[v] = work[v]
        /\ cut' = cut \cup Unfinished(w)
    BY DEF Drops, Moves
  <1>2. /\ count'[BlocksOf(i)] = count[BlocksOf(i)]
        /\ expiry'[BlocksOf(i)] = expiry[BlocksOf(i)]
        /\ expiry'[PermanentOf(i)] = expiry[PermanentOf(i)]
    BY KeysDiffer DEF Drops, Same
  <1>3. ~On(w, i, {"expireBlocks"})
    BY <1>1 DEF On, Unfinished, At
  <1>4. RowsFor(i, Temporary)' = RowsFor(i, Temporary)
    BY <1>1 DEF RowsFor
  <1>5. \A steps \in SUBSET Escalating : ~On(w, i, steps)'
    BY <1>1 DEF On, Idle, Escalating
  <1>6. CASE ~On(w, i, {"escalate"})
    <2>1. ~On(w, i, {"escalate", "expireBlocks"}) /\ ~On(w, i, Escalating)'
      BY <1>3, <1>5, <1>6 DEF On
    <2> QED
      BY <1>1, <1>2, <1>4, <2>1, MeterElsewhere DEF Exists
  <1>7. CASE On(w, i, {"escalate"})
    <2>1. IsFiniteSet(Uncounted(i)')
          /\ Cardinality(Uncounted(i)') = Cardinality(Uncounted(i)) - 1
      <3>1. ~On(w, i, {"escalate"})'
        BY <1>5 DEF Escalating
      <3> QED
        BY <1>1, <1>7, <3>1, UncountedChanges DEF Meter
    <2>2. Since(i)' = Since(i) /\ Recent(i)' = Recent(i)
      BY <1>1, <1>2, <1>4 DEF Since, Recent, CountStart
    <2>3. /\ {Cardinality(Since(i)), Cardinality(Uncounted(i)), count[BlocksOf(i)]}
               \subseteq Nat
      BY MeterSets
    <2>4. \/ Exists(PermanentOf(i))'
          \/ count'[BlocksOf(i)] + Cardinality(Uncounted(i)') <= Cardinality(Since(i)')
      BY <1>2, <2>1, <2>2, <2>3 DEF Meter, Exists
    <2>5. \A v \in Worker :
            /\ On(v, i, {"expireBlocks"})' <=> On(v, i, {"expireBlocks"})
            /\ On(v, i, {"setnxPermanent"})' => On(v, i, {"setnxPermanent"})
            /\ On(v, i, {"setPermanent"})' => On(v, i, {"setPermanent"})
      BY <1>1, <1>3 DEF On, Idle
    <2> QED
      BY <1>1, <1>2, <2>1, <2>2, <2>4, <2>5 DEF Meter, Exists
  <1> QED
    BY <1>6, <1>7

\* No step lets the count of an address exceed what was recorded.
LEMMA MeterStep ==
  ASSUME AbuseInv, AbuseAssumption, RowsTyped, MarkerInv, [Next]_vars,
         NEW i \in Ip, Meter(i), BlocksOf(i) \notin cut'
  PROVE  Meter(i)'
  <1>1. {BlocksOf(i), PermanentOf(i)} \subseteq Watched \cap Key
    BY KeysDiffer
  <1>2. Same(Watched) => /\ count'[BlocksOf(i)] = count[BlocksOf(i)]
                         /\ expiry'[BlocksOf(i)] = expiry[BlocksOf(i)]
                         /\ Exists(PermanentOf(i)) => Exists(PermanentOf(i))'
    BY <1>1 DEF Same, Exists
  <1>3. ASSUME NEW k, Changes(k), k # BlocksOf(i), k # PermanentOf(i)
        PROVE  /\ count'[BlocksOf(i)] = count[BlocksOf(i)]
               /\ expiry'[BlocksOf(i)] = expiry[BlocksOf(i)]
               /\ Exists(PermanentOf(i)) => Exists(PermanentOf(i))'
    BY <1>1, <1>3 DEF Changes, Same, Exists
  <1>4. rows' = rows => RowsFor(i, Temporary)' = RowsFor(i, Temporary)
    BY DEF RowsFor
  <1>5. CASE Tick
    BY <1>5, MeterTick
  <1>6. CASE Still
    <2>1. Unmoved /\ clock' = clock /\ rows' = rows
      BY <1>6 DEF Still
    <2>2. Since(i)' = Since(i) /\ Recent(i)' = Recent(i) /\ Uncounted(i)' = Uncounted(i)
      BY <1>2, <1>4, <1>6, <2>1 DEF Still, Since, Recent, CountStart, Uncounted, On,
         Unmoved
    <2>3. \A w \in Worker : \A steps : On(w, i, steps)' <=> On(w, i, steps)
      BY <2>1 DEF On, Unmoved
    <2> QED
      BY <1>2, <1>6, <2>1, <2>2, <2>3 DEF Still, Meter
  <1>15. ASSUME NEW w \in Worker, Drops(w) PROVE Meter(i)'
    BY <1>15, MeterDrops
  <1>7. ASSUME NEW w \in Worker, Aside(w) PROVE Meter(i)'
    <2>1. /\ Moves(w, Counting) /\ Same(Watched) /\ rows' = rows /\ clock' = clock
          /\ work[w].at \notin {"escalate", "expireBlocks"}
      BY <1>7 DEF Aside, Counting
    <2>2. Counting \cap Escalating = {}
      BY DEF Counting, Escalating
    <2> QED
      BY <1>2, <1>4, <2>1, <2>2, MeterAside
  <1>8. ASSUME NEW w \in Worker,
               (SetBlock(w) /\ ~Exists(BlockKey(work[w].det, work[w].job))) \/ ExpireBlock(w)
        PROVE  Meter(i)'
    <2> DEFINE k == BlockKey(work[w].det, work[w].job)
    <2>1. rows' = rows /\ Apart /\ Changes(k)
          /\ (Moves(w, {"expireBlock"}) \/ Moves(w, {"insert"}))
      BY <1>8, SetBlockStep, ExpireBlockStep DEF Elsewhere
    <2>2. work[w].at \in {"setnx", "expireBlock"}
      BY <1>8 DEF SetBlock, ExpireBlock, At
    <2>3. k # BlocksOf(i) /\ k # PermanentOf(i)
      <3>1. /\ work[w].job.ip \in Ip /\ work[w].det \in Detector /\ work[w].job \in Job
            /\ work[w].det = "key" => work[w].job.key \in ApiKey
        BY <2>2, Busy
      <3>2. \/ k = BlockOf(work[w].job.ip)
            \/ k = <<"block:apikey", work[w].job.key>> /\ work[w].job.key \in ApiKey
        BY <3>1, DetectorKeys
      <3> QED
        BY <3>1, <3>2, KeysDiffer
    <2>4. {"expireBlock"} \cap Escalating = {} /\ {"insert"} \cap Escalating = {}
      BY DEF Escalating
    <2> HIDE DEF k
    <2>5. clock' = clock
      BY <2>1 DEF Elsewhere, Apart
    <2> QED
      BY <1>3, <1>4, <2>1, <2>2, <2>3, <2>4, <2>5, MeterAside
  <1>9. ASSUME NEW w \in Worker, Insert(w) PROVE Meter(i)'
    <2> DEFINE row == [n |-> Cardinality(rows), reason |-> work[w].det,
                       ip |-> IF work[w].det = "key" THEN "null" ELSE work[w].job.ip,
                       at |-> clock]
    <2>1. /\ Elsewhere /\ UNCHANGED redis /\ rows' = rows \cup {row}
          /\ work[w].det = "key" => Moves(w, {})
          /\ work[w].det # "key" => Moves(w, {"escalate"})
      BY <1>9, InsertStep
    <2>2. work[w].at = "insert"
      BY <1>9 DEF Insert, At
    <2>3. CASE work[w].det # "key" /\ work[w].job.ip = i
      BY <1>9, <2>3, MeterInsert
    <2>4. CASE work[w].det = "key" \/ work[w].job.ip # i
      <3>1. row.reason \notin Temporary \/ row.ip # i
        BY <2>4 DEF Temporary
      <3> HIDE DEF row
      <3>2. RowsFor(i, Temporary)' = RowsFor(i, Temporary)
        BY <2>1, <3>1 DEF RowsFor
      <3>3. Same(Watched) /\ clock' = clock
        BY <2>1 DEF Same, redis, Elsewhere, Apart
      <3> QED
        BY <1>2, <2>1, <2>2, <2>4, <3>2, <3>3, MeterAside
    <2> QED
      BY <2>3, <2>4
  <1>10. ASSUME NEW w \in Worker, CountBlock(w) PROVE Meter(i)'
    <2>1. rows' = rows /\ Elsewhere /\ Changes(BlocksOf(work[w].job.ip))
          /\ Moves(w, {"expireBlocks", "setnxPermanent", "setEscalated"})
      BY <1>10, CountBlockStep
    <2>2. work[w].job.ip \in Ip
      BY <1>10, Busy DEF CountBlock, At
    <2>3. CASE work[w].job.ip # i
      <3>1. BlocksOf(work[w].job.ip) # BlocksOf(i) /\ BlocksOf(work[w].job.ip) # PermanentOf(i)
        BY <2>2, <2>3, KeysDiffer
      <3>2. clock' = clock
        BY <2>1 DEF Elsewhere, Apart
      <3> QED
        BY <1>3, <1>4, <2>1, <2>3, <3>1, <3>2, MeterAside
    <2> QED
      BY <1>10, <2>3, MeterCount
  <1>11. ASSUME NEW w \in Worker, ExpireBlocks(w) PROVE Meter(i)'
    <2>1. rows' = rows /\ Elsewhere /\ Changes(BlocksOf(work[w].job.ip)) /\ Moves(w, {})
      BY <1>11, ExpireBlocksStep
    <2>2. work[w].job.ip \in Ip
      BY <1>11, Busy DEF ExpireBlocks, At
    <2>3. CASE work[w].job.ip # i
      <3>1. BlocksOf(work[w].job.ip) # BlocksOf(i) /\ BlocksOf(work[w].job.ip) # PermanentOf(i)
        BY <2>2, <2>3, KeysDiffer
      <3>2. clock' = clock
        BY <2>1 DEF Elsewhere, Apart
      <3> QED
        BY <1>3, <1>4, <2>1, <2>3, <3>1, <3>2, MeterAside
    <2> QED
      BY <1>11, <2>3, MeterExpire
  <1>12. ASSUME NEW w \in Worker, SetPermanentMarker(w) PROVE Meter(i)'
    <2> DEFINE k == PermanentOf(work[w].job.ip)
    <2>1. /\ Elsewhere /\ rows' = rows /\ Changes(k) /\ count' = count
          /\ expiry'[k] = IF Exists(k) THEN expiry[k] ELSE Forever
          /\ Exists(k) => Moves(w, {})
          /\ ~Exists(k) => Moves(w, {"setPermanent"})
      BY <1>12, SetPermanentMarkerStep
    <2>2. work[w].job.ip \in Ip /\ work[w].at = "setnxPermanent" /\ clock' = clock
      BY <1>12, <2>1, Busy DEF SetPermanentMarker, At, Elsewhere, Apart
    <2>3. CASE work[w].job.ip = i /\ ~Exists(k)
      BY <1>12, <2>3, MeterMark
    <2>4. CASE work[w].job.ip # i \/ Exists(k)
      <3>1. /\ count'[BlocksOf(i)] = count[BlocksOf(i)]
            /\ expiry'[BlocksOf(i)] = expiry[BlocksOf(i)]
            /\ Exists(PermanentOf(i)) => Exists(PermanentOf(i))'
        <4>1. k # BlocksOf(i)
          BY <2>2, KeysDiffer
        <4>2. expiry'[BlocksOf(i)] = expiry[BlocksOf(i)]
          BY <1>1, <2>1, <4>1 DEF Changes, Same
        <4>3. CASE k = PermanentOf(i)
          BY <2>1, <4>2, <4>3 DEF Exists
        <4>4. CASE k # PermanentOf(i)
          BY <1>3, <2>1, <4>1, <4>4
        <4> HIDE DEF k
        <4> QED
          BY <2>1, <4>2, <4>3, <4>4
      <3> QED
        BY <1>4, <2>1, <2>2, <2>4, <3>1, MeterAside
    <2> QED
      BY <2>3, <2>4
  <1>13. ASSUME NEW w \in Worker, SetPermanent(w) \/ SetEscalated(w) \/ ExpireEscalated(w)
         PROVE  Meter(i)'
    <2>1. rows' = rows /\ Elsewhere /\ Changes(BlockOf(work[w].job.ip))
          /\ \E steps : Moves(w, steps) /\ steps \cap Escalating = {}
      <3>1. {"insertPermanent"} \cap Escalating = {} /\ {"expireEscalated"} \cap Escalating = {}
        BY DEF Escalating
      <3>2. CASE SetPermanent(w) \/ SetEscalated(w)
        BY <3>1, <3>2, SetLongerStep
      <3>3. CASE ExpireEscalated(w)
        <4>1. Moves(w, {}) /\ {} \cap Escalating = {}
          BY <3>3, ExpireEscalatedStep
        <4> QED
          BY <3>3, <4>1, ExpireEscalatedStep
      <3> QED
        BY <1>13, <3>2, <3>3
    <2>2. work[w].at \in {"setPermanent", "setEscalated", "expireEscalated"}
          /\ work[w].job.ip \in Ip
      BY <1>13, Busy DEF SetPermanent, SetEscalated, ExpireEscalated, At
    <2>3. BlockOf(work[w].job.ip) # BlocksOf(i) /\ BlockOf(work[w].job.ip) # PermanentOf(i)
      BY <2>2, KeysDiffer
    <2>4. clock' = clock
      BY <2>1 DEF Elsewhere, Apart
    <2> QED
      BY <1>3, <1>4, <2>1, <2>2, <2>3, <2>4, MeterAside
  <1>14. ASSUME NEW w \in Worker, InsertPermanent(w) PROVE Meter(i)'
    <2> DEFINE row == [n |-> Cardinality(rows), reason |-> "permanent",
                       ip |-> work[w].job.ip, at |-> clock]
    <2>1. /\ Elsewhere /\ UNCHANGED redis /\ rows' = rows \cup {row} /\ Moves(w, {"escalate"})
      BY <1>14, InsertPermanentStep
    <2>2. CASE work[w].job.ip # i
      <3>1. row.ip # i
        BY <2>2
      <3> HIDE DEF row
      <3>2. RowsFor(i, Temporary)' = RowsFor(i, Temporary)
        BY <2>1, <3>1 DEF RowsFor
      <3>3. Same(Watched) /\ clock' = clock
        BY <2>1 DEF Same, redis, Elsewhere, Apart
      <3> QED
        BY <1>2, <2>1, <2>2, <3>2, <3>3, MeterAside
    <2> QED
      BY <1>14, <2>2, MeterInsertPermanent
  <1> QED
    BY <1>5, <1>6, <1>7, <1>8, <1>9, <1>10, <1>11, <1>12, <1>13, <1>14, <1>15, NextCases

\* Every row gets its number when it is inserted.
LEMMA RowsTypedStep ==
  ASSUME AbuseInv, AbuseAssumption, RowsTyped, [Next]_vars
  PROVE  RowsTyped'
  <1>1. rows' = rows \/ \E row : /\ row.n = Cardinality(rows) /\ row.at = clock
                                 /\ rows' = rows \cup {row}
    <2>1. ASSUME NEW w \in Worker, Insert(w)
          PROVE  \E row : /\ row.n = Cardinality(rows) /\ row.at = clock
                          /\ rows' = rows \cup {row}
      <3> DEFINE row == [n |-> Cardinality(rows), reason |-> work[w].det,
                         ip |-> IF work[w].det = "key" THEN "null" ELSE work[w].job.ip,
                         at |-> clock]
      <3>1. rows' = rows \cup {row}
        BY <2>1 DEF Insert
      <3>2. row.n = Cardinality(rows) /\ row.at = clock
        OBVIOUS
      <3> HIDE DEF row
      <3> QED
        BY <3>1, <3>2
    <2>2. ASSUME NEW w \in Worker, InsertPermanent(w)
          PROVE  \E row : /\ row.n = Cardinality(rows) /\ row.at = clock
                          /\ rows' = rows \cup {row}
      <3> DEFINE row == [n |-> Cardinality(rows), reason |-> "permanent",
                         ip |-> work[w].job.ip, at |-> clock]
      <3>1. rows' = rows \cup {row}
        BY <2>2 DEF InsertPermanent
      <3>2. row.n = Cardinality(rows) /\ row.at = clock
        OBVIOUS
      <3> HIDE DEF row
      <3> QED
        BY <3>1, <3>2
    <2> QED
      BY <2>1, <2>2 DEF Next, vars, redis, Tick, Arrive, Take, WorkerStep, Count, ReadTtl,
         ExpireCounter, ReadSize, SetBlock, ExpireBlock, InsertThrows, Fail,
         Stall, Throws, CountBlock, ExpireBlocks, SetPermanentMarker, SetPermanent,
         SetEscalated, ExpireEscalated
  <1>2. CASE rows' = rows
    BY <1>2 DEF RowsTyped
  <1>3. ASSUME NEW row, row.n = Cardinality(rows), row.at = clock, rows' = rows \cup {row}
        PROVE  RowsTyped'
    <2>1. row.at \in Int
      BY <1>3, AbuseAssumption DEF AbuseInv, AbuseAssumption
    <2> QED
      BY <1>3, <2>1, RowAdded
  <1> QED
    BY <1>1, <1>2, <1>3

\* In every reachable state of the specification.
LEMMA MeterInvariant ==
  Spec => [](AbuseInv /\ MarkerInv /\ MeterInv)
  <1>1. Init => MeterInv
    <2> SUFFICES ASSUME Init PROVE MeterInv
      OBVIOUS
    <2>1. RowsTyped
      BY FS_EmptySet DEF Init, RowsTyped
    <2>2. ASSUME NEW i \in Ip PROVE Meter(i)
      <3>1. expiry[BlocksOf(i)] = None /\ count[BlocksOf(i)] = 0
        BY KeysDiffer DEF Init
      <3>2. \A w \in Worker : \A steps \in SUBSET Escalating : ~On(w, i, steps)
        BY DEF Init, On, Idle, Escalating
      <3>3. Uncounted(i) = {} /\ Since(i) = {}
        BY <3>2 DEF Uncounted, Escalating, Since, RowsFor, Init
      <3>4. IsFiniteSet(Uncounted(i)) /\ Cardinality(Uncounted(i)) = 0
            /\ Cardinality(Since(i)) = 0
        BY <3>3, FS_EmptySet
      <3> QED
        BY <3>1, <3>2, <3>4 DEF Meter, Escalating, None, Forever
    <2> QED
      BY <2>1, <2>2 DEF MeterInv
  <1>2. AbuseInv /\ MarkerInv /\ MeterInv /\ [Next]_vars => MeterInv'
    <2> SUFFICES ASSUME AbuseInv, MarkerInv, MeterInv, [Next]_vars PROVE MeterInv'
      OBVIOUS
    <2>1. RowsTyped'
      BY RowsTypedStep, AbuseAssumption DEF MeterInv
    <2>2. cut \subseteq cut'
      BY DEF Next, vars, faults, Tick, Arrive, Take, WorkerStep, Count, ReadTtl,
         ExpireCounter, ReadSize, SetBlock, ExpireBlock, Insert, InsertThrows, Fail,
         Stall, Throws, CountBlock, ExpireBlocks, SetPermanentMarker, SetPermanent,
         InsertPermanent, SetEscalated, ExpireEscalated
    <2> QED
      BY <2>1, <2>2, MeterStep, AbuseAssumption DEF MeterInv
  <1> QED
    BY <1>1, <1>2, MarkerInvariant, PTL DEF Spec

(***************************************************************************)
(* For any number of workers, whatever fails: handleBlockEscalation makes  *)
(* a block permanent only when PermanentThreshold blocks of the address    *)
(* were recorded within the last PermanentWindow, unless a worker was cut  *)
(* off before it gave their count its end: that fixed-window counter never *)
(* runs ahead of the rows, in whatever order the workers count what they   *)
(* recorded.                                                               *)
(***************************************************************************)
THEOREM PermanentBlocksAreEarned ==
  Spec => PermanentIsEarned
  <1>1. AbuseInv /\ MeterInv /\ [Next]_vars =>
          [\A w \in Worker : SetPermanent(w) =>
             \/ BlocksOf(work[w].job.ip) \in cut
             \/ Cardinality({r \in RowsFor(work[w].job.ip, Temporary) :
                               r.at > clock - PermanentWindow})
                  >= PermanentThreshold]_vars
    <2> SUFFICES ASSUME AbuseInv, MeterInv, NEW w \in Worker, SetPermanent(w),
                        BlocksOf(work[w].job.ip) \notin cut
                 PROVE  Cardinality(Recent(work[w].job.ip)) >= PermanentThreshold
      BY DEF Recent
    <2>1. work[w].job.ip \in Ip /\ On(w, work[w].job.ip, {"setPermanent"})
      BY Busy DEF SetPermanent, At, On
    <2> QED
      BY <2>1 DEF MeterInv, Meter
  <1> QED
    BY <1>1, MeterInvariant, PTL DEF Spec, PermanentIsEarned
=============================================================================
