------------------------- MODULE TokenBucket_proofs -------------------------
(***************************************************************************)
(* For every number of processes, capacity, token cost, lag and time:      *)
(* the types, the quota, and the refinement of the ideal bucket.           *)
(***************************************************************************)
EXTENDS TokenBucket, TLAPS

(***************************************************************************)
(* A reply that refuses a request tells its client to retry only when a    *)
(* whole token has refilled (rate-limit.engine.ts:67-68).                  *)
(***************************************************************************)
LEMMA RetryAfterLong == ASSUME NEW level \in Nat, level < Cost
                        PROVE  RetryAfter(level) \in Nat /\ RetryAfter(level) >= Cost
  <1>1. level \div Cost = 0
    BY BucketAssumption
  <1>2. Cost * (level \div Cost) = 0
    BY <1>1, BucketAssumption
  <1>3. ASSUME NEW a \in Nat
        PROVE  ((a + Second - 1) \div Second) * Second >= a
    BY BucketAssumption
  <1>4. RetryAfter(level) = ((Cost + Second - 1) \div Second) * Second
    BY <1>2, BucketAssumption DEF RetryAfter
  <1>5. RetryAfter(level) >= Cost
    BY <1>3, <1>4, BucketAssumption
  <1>6. RetryAfter(level) \in Int
    BY <1>4, BucketAssumption
  <1> QED
    BY <1>5, <1>6, BucketAssumption

(***************************************************************************)
(* The script never computes a level outside 0..Capacity, whatever stamp   *)
(* it is called with (token-bucket.lua:6-21).                              *)
(***************************************************************************)
LEMMA RefillInRange == ASSUME TypeOK, NEW now \in Nat
                       PROVE  RefillTo(now) \in 0..Capacity
  BY BucketAssumption DEF TypeOK, RefillTo

(***************************************************************************)
(* The level after a refill is paid for by the time between the stamps; a  *)
(* stamp behind last_refill_ts credits nothing; an expired key credits no  *)
(* more than its bucket would have refilled by itself.                     *)
(***************************************************************************)
LEMMA RefillIsEarned ==
  ASSUME QuotaInv, NEW p \in Proc, ts[p] # None
  PROVE  /\ ts[p] >= last => \/ RefillTo(ts[p]) <= tokens + (ts[p] - last)
                             \/ expiry = None /\ tokens = Capacity
         /\ ts[p] < last => RefillTo(ts[p]) <= tokens
  <1>1. ts[p] \in Nat /\ clock <= ts[p] + MaxLag
    BY DEF QuotaInv, TypeOK, PendingIsRecent, None
  <1>2. CASE KeyExists
    BY <1>1, <1>2, BucketAssumption DEF QuotaInv, TypeOK, RefillTo, None
  <1>3. CASE ~KeyExists /\ expiry = None
    BY <1>1, <1>3, BucketAssumption
       DEF QuotaInv, TypeOK, RefillTo, ExpiredIsFull, None
  <1>4. CASE ~KeyExists /\ expiry # None
    <2>1. last + Capacity < ts[p]
      BY <1>1, <1>4, BucketAssumption
         DEF QuotaInv, TypeOK, ExpiredIsFull, KeyExists, None
    <2> QED
      BY <1>1, <1>4, <2>1, BucketAssumption DEF QuotaInv, TypeOK, RefillTo
  <1> QED
    BY <1>2, <1>3, <1>4

LEMMA InitQuotaInv == Init => QuotaInv
  BY BucketAssumption
     DEF Init, QuotaInv, TypeOK, LevelPaidFor, PendingIsRecent, ExpiredIsFull,
         None

LEMMA NextQuotaInv == QuotaInv /\ [Next]_vars => QuotaInv'
  <1> SUFFICES ASSUME QuotaInv, [Next]_vars
               PROVE  QuotaInv'
    OBVIOUS
  <1> USE BucketAssumption
  <1>1. CASE Tick
    BY <1>1 DEF Tick, QuotaInv, TypeOK, LevelPaidFor, PendingIsRecent,
                ExpiredIsFull, None
  <1>2. ASSUME NEW p \in Proc, ReadClock(p)
        PROVE  QuotaInv'
    BY <1>2 DEF ReadClock, QuotaInv, TypeOK, LevelPaidFor, PendingIsRecent,
                ExpiredIsFull, None
  <1>3. ASSUME NEW p \in Proc, Consume(p)
        PROVE  QuotaInv'
    <2> DEFINE level == RefillTo(ts[p])
    <2>0. /\ ts[p] \in Nat /\ ts[p] <= clock /\ level \in 0..Capacity
          /\ level < Cost => RetryAfter(level) \in Nat
      <3>1. ts[p] \in Nat /\ ts[p] <= clock
        BY <1>3 DEF Consume, QuotaInv, TypeOK, None
      <3> QED
        BY <3>1, RefillInRange, RetryAfterLong DEF QuotaInv
    <2>1. /\ tokens' = IF level >= Cost THEN level - Cost ELSE level
          /\ hint' = IF level >= Cost THEN None ELSE clock + RetryAfter(level)
          /\ spent' = IF level >= Cost /\ clock >= from
                      THEN spent + Cost ELSE spent
          /\ last' = ts[p]
          /\ regress' = IF ts[p] < last /\ clock >= from
                        THEN regress + (last - ts[p]) ELSE regress
          /\ expiry' = clock + 2 * Capacity
          /\ ts' = [ts EXCEPT ![p] = None]
          /\ UNCHANGED <<clock, from>>
      BY <1>3 DEF Consume, KeyTtl
    <2> HIDE DEF level
    <2>2. TypeOK'
      BY <2>0, <2>1 DEF QuotaInv, TypeOK, None
    <2>3. LevelPaidFor'
      <3> SUFFICES ASSUME spent' > 0
                   PROVE  /\ clock >= from
                          /\ spent' + tokens'
                               <= Capacity + (ts[p] - from) + MaxLag + regress'
        BY <2>1 DEF LevelPaidFor
      <3>1. CASE spent = 0
        BY <2>0, <2>1, <3>1, <1>3
           DEF QuotaInv, TypeOK, PendingIsRecent, Consume
      <3>2. CASE spent > 0
        <4>1. /\ clock >= from
              /\ spent + tokens
                   <= Capacity + (last - from) + MaxLag + regress
          BY <3>2 DEF QuotaInv, LevelPaidFor
        <4>2. spent' + tokens' <= spent + level
          BY <2>0, <2>1 DEF QuotaInv, TypeOK
        <4>3. spent + level
                <= Capacity + (ts[p] - from) + MaxLag + regress'
          <5>1. /\ ts[p] >= last => \/ level <= tokens + (ts[p] - last)
                                    \/ expiry = None /\ tokens = Capacity
                /\ ts[p] < last => level <= tokens
            BY <1>3, RefillIsEarned DEF Consume, level
          <5> QED
            BY <5>1, <4>1, <2>0, <2>1 DEF QuotaInv, TypeOK
        <4> QED
          BY <4>1, <4>2, <4>3, <2>0, <2>1, <2>2 DEF QuotaInv, TypeOK
      <3> QED
        BY <3>1, <3>2, <2>1 DEF QuotaInv, TypeOK
    <2>4. PendingIsRecent'
      BY <2>0, <2>1 DEF QuotaInv, TypeOK, PendingIsRecent, None
    <2>5. ExpiredIsFull'
      BY <2>0, <2>1 DEF QuotaInv, TypeOK, ExpiredIsFull, None
    <2> QED
      BY <2>2, <2>3, <2>4, <2>5 DEF QuotaInv
  <1>4. CASE UNCHANGED vars
    BY <1>4 DEF vars, QuotaInv, TypeOK, LevelPaidFor, PendingIsRecent,
                ExpiredIsFull
  <1> QED
    BY <1>1, <1>2, <1>3, <1>4 DEF Next

(***************************************************************************)
(* Every variable keeps its type, and what was admitted is paid for.       *)
(***************************************************************************)
THEOREM QuotaInvariant == Spec => []QuotaInv
  BY InitQuotaInv, NextQuotaInv, PTL DEF Spec

(***************************************************************************)
(* The token bucket never admits more than its quota, for every capacity,  *)
(* refill rate, lag and number of concurrent requests.                     *)
(***************************************************************************)
THEOREM QuotaTheorem == Spec => []QuotaBounded
  <1>1. QuotaInv => QuotaBounded
    BY BucketAssumption DEF QuotaInv, TypeOK, LevelPaidFor, QuotaBounded
  <1> QED
    BY <1>1, QuotaInvariant, PTL

(***************************************************************************)
(* Every step of the bucket whose key expires is a step of the bucket that *)
(* never forgets, or leaves it alone.                                      *)
(***************************************************************************)
THEOREM RefinesIdealBucket == Spec => ImplementsIdeal
  <1>1. Init => Ideal!IdealInit
    BY DEF Init, Ideal!IdealInit
  <1>2. QuotaInv /\ [Next]_vars => [Ideal!IdealNext]_(Ideal!idealVars)
    <2> SUFFICES ASSUME QuotaInv, [Next]_vars
                 PROVE  [Ideal!IdealNext]_(Ideal!idealVars)
      OBVIOUS
    <2>1. ASSUME NEW p \in Proc, Consume(p)
          PROVE  Ideal!IdealNext
      <3>1. ts[p] \in 0..MaxTime /\ clock <= ts[p] + MaxLag
        BY <2>1, BucketAssumption
           DEF Consume, QuotaInv, TypeOK, PendingIsRecent, None
      <3>2. RefillTo(ts[p]) = Ideal!LevelAt(ts[p])
        <4>1. CASE KeyExists
          BY <4>1 DEF RefillTo, Ideal!LevelAt
        <4>2. CASE ~KeyExists /\ expiry = None
          BY <4>2, <3>1, BucketAssumption
             DEF RefillTo, Ideal!LevelAt, QuotaInv, ExpiredIsFull, TypeOK
        <4>3. CASE ~KeyExists /\ expiry # None
          <5>1. last + Capacity < ts[p]
            BY <3>1, <4>3, BucketAssumption
               DEF QuotaInv, TypeOK, ExpiredIsFull, KeyExists, None
          <5> QED
            BY <5>1, <3>1, <4>3, BucketAssumption
               DEF RefillTo, Ideal!LevelAt, QuotaInv, TypeOK
        <4> QED
          BY <4>1, <4>2, <4>3
      <3>3. RefillTo(ts[p]) \in Int /\ Cost \in Int
        BY <3>1, RefillInRange, BucketAssumption DEF QuotaInv
      <3>4. /\ tokens' = IF RefillTo(ts[p]) >= Cost
                         THEN RefillTo(ts[p]) - Cost ELSE RefillTo(ts[p])
            /\ last' = ts[p]
        BY <2>1 DEF Consume
      <3>5. Ideal!Admit(ts[p]) \/ Ideal!Refuse(ts[p])
        BY <3>2, <3>3, <3>4 DEF Ideal!Admit, Ideal!Refuse
      <3> QED
        BY <3>1, <3>5 DEF Ideal!IdealNext
    <2>2. ASSUME NEW p \in Proc, ReadClock(p)
          PROVE  UNCHANGED Ideal!idealVars
      BY <2>2 DEF ReadClock, Ideal!idealVars
    <2>3. CASE Tick
      BY <2>3 DEF Tick, Ideal!idealVars
    <2>4. CASE UNCHANGED vars
      BY <2>4 DEF vars, Ideal!idealVars
    <2> QED
      BY <2>1, <2>2, <2>3, <2>4 DEF Next
  <1> QED
    BY <1>1, <1>2, QuotaInvariant, PTL
       DEF Spec, ImplementsIdeal, Ideal!IdealSpec

(***************************************************************************)
(* A client that waits for retryAfterMs, and finds that nobody else used   *)
(* the bucket meanwhile, is admitted: the retry lies a whole token's refill *)
(* behind last_refill_ts.                                                  *)
(***************************************************************************)
RetryInv == hint # None => hint >= last + Cost

THEOREM RetryTheorem == Spec => []RetryHonoured
  <1>1. Init => RetryInv
    BY DEF Init, RetryInv
  <1>2. QuotaInv /\ RetryInv /\ [Next]_vars => RetryInv'
    <2> SUFFICES ASSUME QuotaInv, RetryInv, [Next]_vars
                 PROVE  RetryInv'
      OBVIOUS
    <2>1. ASSUME NEW p \in Proc, Consume(p)
          PROVE  RetryInv'
      <3>1. ts[p] \in Nat /\ ts[p] <= clock
        BY <2>1 DEF Consume, QuotaInv, TypeOK, None
      <3>2. RefillTo(ts[p]) \in Nat
        BY <3>1, RefillInRange DEF QuotaInv
      <3>3. CASE RefillTo(ts[p]) >= Cost
        BY <2>1, <3>3 DEF Consume, RetryInv
      <3>4. CASE RefillTo(ts[p]) < Cost
        <4>1. hint' = clock + RetryAfter(RefillTo(ts[p])) /\ last' = ts[p]
          BY <2>1, <3>2, <3>4, BucketAssumption DEF Consume
        <4>2. RetryAfter(RefillTo(ts[p])) \in Nat
              /\ RetryAfter(RefillTo(ts[p])) >= Cost
          BY <3>2, <3>4, RetryAfterLong
        <4> QED
          BY <3>1, <4>1, <4>2, BucketAssumption DEF QuotaInv, TypeOK, RetryInv
      <3> QED
        BY <3>2, <3>3, <3>4, BucketAssumption
    <2>2. ASSUME NEW p \in Proc, ReadClock(p)
          PROVE  RetryInv'
      BY <2>2 DEF ReadClock, RetryInv
    <2>3. CASE Tick
      BY <2>3 DEF Tick, RetryInv
    <2>4. CASE UNCHANGED vars
      BY <2>4 DEF vars, RetryInv
    <2> QED
      BY <2>1, <2>2, <2>3, <2>4 DEF Next
  <1>3. QuotaInv /\ RetryInv => RetryHonoured
    BY BucketAssumption
       DEF QuotaInv, TypeOK, RetryInv, RetryHonoured, RefillTo, None
  <1> QED
    BY <1>1, <1>2, <1>3, QuotaInvariant, PTL DEF Spec
=============================================================================
