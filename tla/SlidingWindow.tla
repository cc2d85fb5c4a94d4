--------------------------- MODULE SlidingWindow ---------------------------
(***************************************************************************)
(* One sliding window of RateSentinel: the sorted set sliding-window.lua   *)
(* keeps for one key, and the API processes that call it.  As in           *)
(* TokenBucket, checkSlidingWindow reads Date.now() before the script      *)
(* runs, so stamps may reach the script out of order.  An entry is the     *)
(* member the script builds, its stamp and the number math.random() drew;  *)
(* the stamp is also its score.                                            *)
(***************************************************************************)
EXTENDS Integers, FiniteSets

CONSTANTS Proc,         \* requests in flight at the same time
          Window,       \* windowMs, in ticks
          Limit,        \* rule.slidingWindow.limit
          Draws,        \* the numbers math.random() can return in a script
          MaxLag,       \* ticks between Date.now() and the script
          MaxTime,      \* bound on the clock
          MaxRequests   \* bound on the requests

None == -1

(***************************************************************************)
(* A sliding window exists only for a truthy burst_limit, at least the     *)
(* positive limit_value (rate-rule.service.ts:38-43, 117, 125-130).        *)
(***************************************************************************)
ASSUME WindowAssumption ==
    /\ Window \in Nat \ {0} /\ Limit \in Nat \ {0}
    /\ MaxLag \in Nat /\ MaxLag < Window
    /\ MaxTime \in Nat /\ MaxRequests \in Nat

VARIABLES clock,     \* real time, also the clock of Redis
          window,    \* the sorted set
          expiry,    \* the key exists while clock <= expiry
          ts,        \* ts[p]: `now` of a request in flight, or None
          hint,      \* when the last reply told its client to retry, or None
          issued,    \* history: requests so far
          log        \* history: the admissions, with the time of the script

vars == <<clock, window, expiry, ts, hint, issued, log>>

Entry == [stamp : 0..MaxTime, draw : Draws]

TypeOK ==
    /\ clock \in 0..MaxTime
    /\ window \subseteq [stamp : 0..clock, draw : Draws]
    /\ expiry \in {None} \cup 0..(MaxTime + 2 * Window)
    /\ ts \in [Proc -> {None} \cup 0..clock]
    /\ hint \in {None} \cup Nat
    /\ issued \in 0..MaxRequests
    /\ log \subseteq [n : Nat, entry : Entry, at : 0..clock]

Init ==
    /\ clock = 0 /\ window = {} /\ expiry = None
    /\ ts = [p \in Proc |-> None]
    /\ hint = None /\ issued = 0 /\ log = {}

\* Faulty variants of InWindow: one tick too many is evicted; nothing is.
InWindowShort(now) ==
    {e \in window : clock <= expiry /\ e.stamp > now - Window + 1}
InWindowAll(now) == {e \in window : clock <= expiry}

\* What ZREMRANGEBYSCORE 0 .. now - window leaves of the key.
InWindow(now) == {e \in window : clock <= expiry /\ e.stamp > now - Window}

\* PEXPIRE of window * 2.
KeyTtl == 2 * Window

ReadClock(p) ==
    /\ ts[p] = None
    /\ issued < MaxRequests
    /\ issued' = issued + 1
    /\ ts' = [ts EXCEPT ![p] = clock]
    /\ UNCHANGED <<clock, window, expiry, hint, log>>

Admit(p) ==
    /\ ts[p] # None
    /\ Cardinality(InWindow(ts[p])) < Limit
    /\ \E d \in Draws :
         LET entry == [stamp |-> ts[p], draw |-> d]
         IN  /\ window' = InWindow(ts[p]) \cup {entry}
             /\ log' = log \cup {[n |-> Cardinality(log) + 1,
                                  entry |-> entry, at |-> clock]}
    /\ expiry' = clock + KeyTtl
    /\ hint' = None
    /\ ts' = [ts EXCEPT ![p] = None]
    /\ UNCHANGED <<clock, issued>>

Reject(p) ==
    /\ ts[p] # None
    /\ Cardinality(InWindow(ts[p])) >= Limit
    /\ window' = InWindow(ts[p])
    /\ hint' = clock + Window
    /\ ts' = [ts EXCEPT ![p] = None]
    /\ UNCHANGED <<clock, expiry, issued, log>>

Tick ==
    /\ clock < MaxTime
    /\ \A p \in Proc : ts[p] # None => clock < ts[p] + MaxLag
    /\ clock' = clock + 1
    /\ UNCHANGED <<window, expiry, ts, hint, issued, log>>

Next == Tick \/ \E p \in Proc : ReadClock(p) \/ Admit(p) \/ Reject(p)

Spec == Init /\ [][Next]_vars
-----------------------------------------------------------------------------
\* The admissions whose script ran during the last `span` ticks.
Recent(span) == {a \in log : a.at > clock - span}

(***************************************************************************)
(* The density limit, in real time: during any Window - MaxLag ticks, no   *)
(* more than Limit distinct members enter the set, however the stamps of   *)
(* concurrent requests are ordered and whenever the key expires.           *)
(***************************************************************************)
DensityBounded ==
    Cardinality({a.entry : a \in Recent(Window - MaxLag)}) <= Limit

(***************************************************************************)
(* Why DensityBounded holds: the set never outgrows the limit and still    *)
(* holds every entry made during the last Window - MaxLag ticks.           *)
(***************************************************************************)
StampedInTime == \A a \in log : a.at - a.entry.stamp \in 0..MaxLag
PendingIsRecent == \A p \in Proc : ts[p] # None => clock <= ts[p] + MaxLag
ExpiresLate == \A a \in log : a.at + 2 * Window <= expiry
RecentIsHeld ==
    \A a \in log : a.at > clock - (Window - MaxLag) =>
        a.entry \in window /\ clock <= expiry
DensityInv ==
    /\ TypeOK /\ StampedInTime /\ PendingIsRecent /\ ExpiresLate /\ RecentIsHeld
    /\ IsFiniteSet(window) /\ Cardinality(window) <= Limit /\ IsFiniteSet(log)

(***************************************************************************)
(* A request is refused only when Limit others were let in during the last *)
(* Window + MaxLag ticks: the window forgets in time.                      *)
(***************************************************************************)
RefusalJustified ==
    [][\A p \in Proc : Reject(p) =>
          Cardinality(Recent(Window + MaxLag)) >= Limit]_vars

(***************************************************************************)
(* retryAfterMs is enough: the window of a client that waits for windowMs  *)
(* while nobody else is admitted has room again.                           *)
(***************************************************************************)
RetryHonoured ==
    hint # None /\ clock >= hint => Cardinality(InWindow(clock)) < Limit

(***************************************************************************)
(* src/README.md:97 says the window "Enforces short-term request density". *)
(* Redis seeds math.random() alike for every script, so two requests of    *)
(* one millisecond build one member, and only one of them is counted.      *)
(***************************************************************************)
EnforcesRequestDensity == Cardinality(Recent(Window - MaxLag)) <= Limit
=============================================================================
