---------------------------- MODULE TokenBucket ----------------------------
(***************************************************************************)
(* One token bucket of RateSentinel: the Redis hash that token-bucket.lua  *)
(* keeps for one key, and the API processes that call it.  consumeToken    *)
(* reads Date.now() first and runs the script afterwards, so the script    *)
(* may see the time stamps of concurrent requests out of order.            *)
(*                                                                         *)
(* Levels are counted in the refill of one tick of the clock: a tick adds  *)
(* one unit, a token is worth Cost units, and the script's elapsed_ms/1000 *)
(* * refill_rate is the number of ticks elapsed.                           *)
(***************************************************************************)
EXTENDS Integers

CONSTANTS Proc,       \* requests in flight at the same time
          Capacity,   \* rule.capacity, in units
          Cost,       \* one token, in units
          Second,     \* ticks in one second
          MaxLag,     \* ticks between Date.now() and the script that uses it
          MaxTime     \* bound on the clock

None == -1

(***************************************************************************)
(* limit_value and interval_seconds are positive (rate-rule.service.ts:    *)
(* 117-123), so a bucket holds at least one token.  MaxLag is a premise    *)
(* about the deployment: a request whose script runs later than a whole    *)
(* refill of the bucket after its Date.now() is outside the model.         *)
(***************************************************************************)
ASSUME BucketAssumption ==
    /\ Capacity \in Nat /\ Cost \in Nat \ {0} /\ Cost <= Capacity
    /\ Second \in Nat \ {0}
    /\ MaxLag \in Nat /\ MaxLag <= Capacity
    /\ MaxTime \in Nat

VARIABLES clock,      \* real time, also the clock of Redis
          tokens,     \* hash field "tokens"
          last,       \* hash field "last_refill_ts"
          expiry,     \* the key exists while clock <= expiry
          ts,         \* ts[p]: `now` of a request in flight, or None
          hint,       \* when the last reply told its client to retry, or None
          from,       \* history: an observer counts from this time on
          spent,      \* history: units admitted since `from`
          regress     \* history: how far last_refill_ts moved back since `from`

vars == <<clock, tokens, last, expiry, ts, hint, from, spent, regress>>

KeyExists == clock <= expiry

\* Faulty variants of RefillTo: without `if elapsed_ms > 0`, without math.min.
RefillBackwards(now) ==
    IF ~KeyExists THEN Capacity
    ELSE IF tokens + (now - last) > Capacity THEN Capacity
    ELSE tokens + (now - last)
RefillUnclamped(now) ==
    IF ~KeyExists THEN Capacity
    ELSE IF now <= last THEN tokens ELSE tokens + (now - last)

\* The level the script computes for time stamp `now`.
RefillTo(now) ==
    IF ~KeyExists THEN Capacity
    ELSE IF now <= last THEN tokens
    ELSE IF tokens + (now - last) > Capacity THEN Capacity
    ELSE tokens + (now - last)

\* Faulty variant: the key lives for one refill of the bucket only.
OneRefillTtl == Capacity

\* PEXPIRE of (capacity / refill_rate) * 1000 * 2 milliseconds.
KeyTtl == 2 * Capacity

\* Faulty variant: whole seconds rounded down.
RetryAfterFloor(level) ==
    LET missing == Cost - Cost * (level \div Cost)
    IN  (missing \div Second) * Second

\* retryAfterMs: Redis truncates the `tokens` of the reply to an integer
\* before the engine divides by the rate and rounds up to whole seconds.
RetryAfter(level) ==
    LET missing == Cost - Cost * (level \div Cost)
    IN  ((missing + Second - 1) \div Second) * Second

TypeOK ==
    /\ clock \in 0..MaxTime
    /\ tokens \in 0..Capacity
    /\ last \in 0..clock
    /\ expiry \in {None} \cup 0..(MaxTime + 2 * Capacity)
    /\ ts \in [Proc -> {None} \cup 0..clock]
    /\ hint \in {None} \cup Nat
    /\ from \in 0..MaxTime
    /\ spent \in Nat
    /\ regress \in Nat

Init ==
    /\ clock = 0 /\ tokens = Capacity /\ last = 0 /\ expiry = None
    /\ ts = [p \in Proc |-> None]
    /\ hint = None
    /\ from \in 0..MaxTime
    /\ spent = 0 /\ regress = 0

\* consumeToken builds the key and reads Date.now().
ReadClock(p) ==
    /\ ts[p] = None
    /\ ts' = [ts EXCEPT ![p] = clock]
    /\ UNCHANGED <<clock, tokens, last, expiry, hint, from, spent, regress>>

\* The script, atomic in Redis, and the reply consumeToken makes of it.
Consume(p) ==
    /\ ts[p] # None
    /\ LET level   == RefillTo(ts[p])
           allowed == level >= Cost
       IN  /\ tokens' = IF allowed THEN level - Cost ELSE level
           /\ hint' = IF allowed THEN None ELSE clock + RetryAfter(level)
           /\ spent' = IF allowed /\ clock >= from THEN spent + Cost ELSE spent
    /\ last' = ts[p]
    /\ regress' = IF ts[p] < last /\ clock >= from
                  THEN regress + (last - ts[p]) ELSE regress
    /\ expiry' = clock + KeyTtl
    /\ ts' = [ts EXCEPT ![p] = None]
    /\ UNCHANGED <<clock, from>>

Tick ==
    /\ clock < MaxTime
    /\ \A p \in Proc : ts[p] # None => clock < ts[p] + MaxLag
    /\ clock' = clock + 1
    /\ UNCHANGED <<tokens, last, expiry, ts, hint, from, spent, regress>>

Next == Tick \/ \E p \in Proc : ReadClock(p) \/ Consume(p)

Spec == Init /\ [][Next]_vars
-----------------------------------------------------------------------------
(***************************************************************************)
(* The quota: in any stretch of time that starts at `from`, the bucket     *)
(* admits at most its capacity plus the refill of that stretch, plus the   *)
(* lag of one request, plus the time that out-of-order stamps took back    *)
(* from last_refill_ts.                                                    *)
(***************************************************************************)
QuotaBounded ==
    clock >= from => spent <= Capacity + (clock - from) + MaxLag + regress

(***************************************************************************)
(* Why QuotaBounded holds: what was admitted and what the bucket still     *)
(* holds are together paid for by the time up to last_refill_ts; a pending *)
(* stamp is at most MaxLag old; and a key expires so late that the bucket  *)
(* it held is full again for every stamp still to come.                    *)
(***************************************************************************)
LevelPaidFor ==
    spent > 0 =>
        /\ clock >= from
        /\ spent + tokens <= Capacity + (last - from) + MaxLag + regress
PendingIsRecent == \A p \in Proc : ts[p] # None => clock <= ts[p] + MaxLag
ExpiredIsFull ==
    /\ expiry # None => last + 2 * Capacity <= expiry
    /\ expiry = None => tokens = Capacity /\ last = 0
QuotaInv == TypeOK /\ LevelPaidFor /\ PendingIsRecent /\ ExpiredIsFull

(***************************************************************************)
(* retryAfterMs is enough: if no other request reaches the bucket, a       *)
(* client that waits as told finds a token, although the reply carried     *)
(* only the integer part of the level.                                     *)
(***************************************************************************)
RetryHonoured == hint # None /\ clock >= hint => RefillTo(clock) >= Cost

(***************************************************************************)
(* The expiry of the key is invisible: with it and without it the bucket   *)
(* takes the same decisions.                                               *)
(***************************************************************************)
Ideal == INSTANCE IdealBucket
             WITH level <- tokens, at <- last, Stamps <- 0..MaxTime
ImplementsIdeal == Ideal!IdealSpec

(***************************************************************************)
(* src/README.md:92 says the bucket "Enforces long-term quotas": capacity  *)
(* plus refill, with one lag of slack.  Out-of-order stamps break it.      *)
(***************************************************************************)
EnforcesQuota == clock >= from => spent <= Capacity + (clock - from) + MaxLag
=============================================================================
