---------------------------- MODULE IdealBucket ----------------------------
(***************************************************************************)
(* What one token bucket promises: a level that refills with the time      *)
(* between the time stamps it is shown, never above Capacity, and from     *)
(* which a request takes Cost when the level has it.  There is no key, no  *)
(* TTL, no process: one request is one step.  TokenBucket implements it.   *)
(***************************************************************************)
EXTENDS Integers

CONSTANTS Capacity, Cost,
          Stamps      \* the time stamps a request may carry

VARIABLES level,    \* what the bucket holds at time `at`
          at        \* the time stamp of the last request

idealVars == <<level, at>>

LevelAt(t) ==
    IF t <= at THEN level
    ELSE IF level + (t - at) > Capacity THEN Capacity ELSE level + (t - at)

IdealInit == level = Capacity /\ at = 0

Admit(t) ==
    /\ LevelAt(t) >= Cost
    /\ level' = LevelAt(t) - Cost
    /\ at' = t

Refuse(t) ==
    /\ LevelAt(t) < Cost
    /\ level' = LevelAt(t)
    /\ at' = t

IdealNext == \E t \in Stamps : Admit(t) \/ Refuse(t)

IdealSpec == IdealInit /\ [][IdealNext]_idealVars
=============================================================================
