------------------------ MODULE SlidingWindow_proofs ------------------------
(***************************************************************************)
(* For every number of processes, window, limit and lag: the density the   *)
(* sliding window enforces, by way of the entries the set still holds, and *)
(* that what it refuses, and when it tells a client to come back, is       *)
(* justified.                                                              *)
(***************************************************************************)
EXTENDS SlidingWindow, FiniteSetTheorems, TLAPS

LEMMA InitDensityInv == Init => DensityInv
  BY WindowAssumption, FS_EmptySet
     DEF Init, DensityInv, TypeOK, StampedInTime, PendingIsRecent,
         RecentIsHeld, ExpiresLate, None

(***************************************************************************)
(* What a script leaves of the set is part of it and within the limit.     *)
(***************************************************************************)
LEMMA EvictionShrinks ==
  ASSUME DensityInv, NEW now
  PROVE  /\ InWindow(now) \subseteq window
         /\ IsFiniteSet(InWindow(now))
         /\ Cardinality(InWindow(now)) \in Nat
         /\ Cardinality(InWindow(now)) <= Limit
  <1>1. InWindow(now) \subseteq window
    BY DEF InWindow
  <1>2. /\ IsFiniteSet(InWindow(now))
        /\ Cardinality(InWindow(now)) <= Cardinality(window)
    BY <1>1, FS_Subset DEF DensityInv
  <1>3. Cardinality(InWindow(now)) \in Nat /\ Cardinality(window) \in Nat
    BY <1>2, FS_CardinalityType DEF DensityInv
  <1> QED
    BY <1>1, <1>2, <1>3, WindowAssumption DEF DensityInv

(***************************************************************************)
(* No script evicts an entry made during the last Window - MaxLag ticks,   *)
(* even when its own stamp lags behind (sliding-window.lua:6-11).          *)
(***************************************************************************)
LEMMA RecentIsKept ==
  ASSUME DensityInv, NEW p \in Proc, ts[p] # None, NEW a \in log,
         a.at > clock - (Window - MaxLag)
  PROVE  a.entry \in InWindow(ts[p])
  <1>1. a.entry \in window /\ clock <= expiry
    BY DEF DensityInv, RecentIsHeld
  <1>2. a.entry.stamp > ts[p] - Window
    <2>1. a.at \in Int /\ a.entry.stamp \in Int /\ a.at <= a.entry.stamp + MaxLag
      BY WindowAssumption DEF DensityInv, TypeOK, StampedInTime, Entry
    <2>2. ts[p] \in Int /\ ts[p] <= clock /\ clock \in Int
      BY DEF DensityInv, TypeOK, None
    <2> QED
      BY <2>1, <2>2, WindowAssumption
  <1> QED
    BY <1>1, <1>2 DEF InWindow

LEMMA AdmitDensityInv ==
  ASSUME DensityInv, NEW p \in Proc, Admit(p)
  PROVE  DensityInv'
  <1> DEFINE kept == InWindow(ts[p])
  <1>1. PICK d \in Draws :
          /\ window' = kept \cup {[stamp |-> ts[p], draw |-> d]}
          /\ log' = log \cup {[n |-> Cardinality(log) + 1,
                               entry |-> [stamp |-> ts[p], draw |-> d],
                               at |-> clock]}
    BY DEF Admit
  <1>2. /\ ts[p] # None /\ Cardinality(kept) < Limit
        /\ expiry' = clock + 2 * Window /\ hint' = None
        /\ ts' = [ts EXCEPT ![p] = None] /\ clock' = clock /\ issued' = issued
    BY DEF Admit, KeyTtl
  <1> DEFINE entry == [stamp |-> ts[p], draw |-> d]
             new == [n |-> Cardinality(log) + 1, entry |-> entry, at |-> clock]
  <1>3. ts[p] \in 0..clock /\ clock <= ts[p] + MaxLag /\ clock \in 0..MaxTime
    BY <1>2 DEF DensityInv, TypeOK, PendingIsRecent
  <1>4. entry \in [stamp : 0..clock, draw : Draws] /\ entry \in Entry
    BY <1>3, WindowAssumption DEF Entry
  <1>5. kept \subseteq window /\ IsFiniteSet(kept) /\ Cardinality(kept) \in Nat
    BY EvictionShrinks
  <1>6. TypeOK'
    <2>1. new \in [n : Nat, entry : Entry, at : 0..clock]
      BY <1>3, <1>4, FS_CardinalityType DEF DensityInv
    <2>2. log' \subseteq [n : Nat, entry : Entry, at : 0..clock]
      BY <1>1, <2>1 DEF DensityInv, TypeOK
    <2>3. window' \subseteq [stamp : 0..clock, draw : Draws]
      BY <1>1, <1>4, <1>5 DEF DensityInv, TypeOK
    <2> QED
      BY <1>2, <1>3, <2>2, <2>3, WindowAssumption DEF DensityInv, TypeOK, None
  <1>7. StampedInTime'
    <2>1. new.at - new.entry.stamp \in 0..MaxLag
      BY <1>3, WindowAssumption
    <2> QED
      BY <1>1, <2>1 DEF DensityInv, StampedInTime
  <1>8. PendingIsRecent'
    BY <1>2 DEF DensityInv, PendingIsRecent, TypeOK, None
  <1>9. RecentIsHeld'
    <2> SUFFICES ASSUME NEW a \in log', a.at > clock - (Window - MaxLag)
                 PROVE  a.entry \in window' /\ clock <= expiry'
      BY <1>2 DEF RecentIsHeld
    <2>1. clock <= expiry'
      BY <1>2, <1>3, WindowAssumption
    <2>2. CASE a = new
      BY <1>1, <2>1, <2>2
    <2>3. CASE a \in log
      BY <1>1, <1>2, <2>1, <2>3, RecentIsKept
    <2> QED
      BY <1>1, <2>2, <2>3
  <1>11. ExpiresLate'
    <2> SUFFICES ASSUME NEW a \in log'
                 PROVE  a.at + 2 * Window <= clock + 2 * Window
      BY <1>2 DEF ExpiresLate
    <2>1. a.at \in 0..clock
      BY <1>1, <1>3 DEF DensityInv, TypeOK
    <2> QED
      BY <2>1, <1>3, WindowAssumption
  <1>10. IsFiniteSet(window') /\ Cardinality(window') <= Limit
    <2>1. /\ IsFiniteSet(kept \cup {entry})
          /\ Cardinality(kept \cup {entry})
               = IF entry \in kept THEN Cardinality(kept)
                 ELSE Cardinality(kept) + 1
      BY <1>5, FS_AddElement
    <2> QED
      BY <1>1, <1>2, <1>5, <2>1, WindowAssumption
  <1>12. IsFiniteSet(log')
    BY <1>1, FS_AddElement DEF DensityInv
  <1> QED
    BY <1>6, <1>7, <1>8, <1>9, <1>10, <1>11, <1>12 DEF DensityInv

LEMMA NextDensityInv == DensityInv /\ [Next]_vars => DensityInv'
  <1> SUFFICES ASSUME DensityInv, [Next]_vars
               PROVE  DensityInv'
    OBVIOUS
  <1>1. CASE Tick
    <2>1. clock \in Nat /\ clock' = clock + 1 /\ clock' <= MaxTime
      BY <1>1, WindowAssumption DEF Tick, DensityInv, TypeOK
    <2>2. UNCHANGED <<window, expiry, ts, hint, issued, log>>
      BY <1>1 DEF Tick
    <2>3. TypeOK'
      BY <2>1, <2>2, WindowAssumption DEF DensityInv, TypeOK, None
    <2>4. StampedInTime'
      BY <2>2 DEF DensityInv, StampedInTime
    <2>5. PendingIsRecent'
      <3> SUFFICES ASSUME NEW p \in Proc, ts[p] # None
                   PROVE  clock' <= ts[p] + MaxLag
        BY <2>2 DEF PendingIsRecent
      <3>1. clock < ts[p] + MaxLag
        BY <1>1 DEF Tick
      <3>2. ts[p] \in Int
        BY DEF DensityInv, TypeOK, None
      <3> QED
        BY <2>1, <3>1, <3>2, WindowAssumption
    <2>6. RecentIsHeld'
      <3> SUFFICES ASSUME NEW a \in log, a.at > clock' - (Window - MaxLag)
                   PROVE  a.entry \in window /\ clock' <= expiry
        BY <2>2 DEF RecentIsHeld
      <3>1. a.entry \in window /\ a.at \in Int
        BY <2>1, WindowAssumption DEF DensityInv, TypeOK, RecentIsHeld
      <3>2. a.at + 2 * Window <= expiry
        BY DEF DensityInv, ExpiresLate
      <3> QED
        BY <2>1, <3>1, <3>2, WindowAssumption DEF DensityInv, TypeOK, None
    <2>7. ExpiresLate'
      BY <2>2 DEF DensityInv, ExpiresLate
    <2> QED
      BY <2>2, <2>3, <2>4, <2>5, <2>6, <2>7 DEF DensityInv
  <1>2. ASSUME NEW p \in Proc, ReadClock(p)
        PROVE  DensityInv'
    <2>1. ts' = [ts EXCEPT ![p] = clock] /\ issued' = issued + 1
          /\ issued < MaxRequests /\ UNCHANGED <<clock, window, expiry, hint, log>>
      BY <1>2 DEF ReadClock
    <2>2. TypeOK'
      BY <2>1, WindowAssumption DEF DensityInv, TypeOK, None
    <2>3. PendingIsRecent'
      BY <2>1, WindowAssumption DEF DensityInv, TypeOK, PendingIsRecent, None
    <2> QED
      BY <2>1, <2>2, <2>3 DEF DensityInv, StampedInTime, RecentIsHeld,
                              ExpiresLate
  <1>3. ASSUME NEW p \in Proc, Reject(p)
        PROVE  DensityInv'
    <2>1. /\ ts[p] # None /\ window' = InWindow(ts[p])
          /\ hint' = clock + Window /\ ts' = [ts EXCEPT ![p] = None]
          /\ UNCHANGED <<clock, expiry, issued, log>>
      BY <1>3 DEF Reject
    <2>2. /\ window' \subseteq window /\ IsFiniteSet(window')
          /\ Cardinality(window') <= Limit
      BY <2>1, EvictionShrinks
    <2>3. TypeOK'
      BY <2>1, <2>2, WindowAssumption DEF DensityInv, TypeOK, None
    <2>4. PendingIsRecent'
      BY <2>1 DEF DensityInv, TypeOK, PendingIsRecent, None
    <2>5. RecentIsHeld'
      <3> SUFFICES ASSUME NEW a \in log, a.at > clock - (Window - MaxLag)
                   PROVE  a.entry \in window' /\ clock <= expiry
        BY <2>1 DEF RecentIsHeld
      <3> QED
        BY <2>1, RecentIsKept DEF DensityInv, RecentIsHeld
    <2> QED
      BY <2>1, <2>2, <2>3, <2>4, <2>5 DEF DensityInv, StampedInTime, ExpiresLate
  <1>4. ASSUME NEW p \in Proc, Admit(p)
        PROVE  DensityInv'
    BY <1>4, AdmitDensityInv
  <1>5. CASE UNCHANGED vars
    BY <1>5 DEF vars, DensityInv, TypeOK, StampedInTime, PendingIsRecent,
                RecentIsHeld, ExpiresLate
  <1> QED
    BY <1>1, <1>2, <1>3, <1>4, <1>5 DEF Next

(***************************************************************************)
(* The set stays within its limit and holds what was admitted lately.      *)
(***************************************************************************)
THEOREM DensityInvariant == Spec => []DensityInv
  BY InitDensityInv, NextDensityInv, PTL DEF Spec

(***************************************************************************)
(* During any Window - MaxLag ticks at most Limit distinct members enter   *)
(* the set, for every window, limit, lag and number of requests.           *)
(***************************************************************************)
THEOREM DensityTheorem == Spec => []DensityBounded
  <1>1. DensityInv => DensityBounded
    <2> SUFFICES ASSUME DensityInv
                 PROVE  DensityBounded
      OBVIOUS
    <2> DEFINE recent == {a.entry : a \in Recent(Window - MaxLag)}
    <2>1. recent \subseteq window
      BY DEF DensityInv, RecentIsHeld, Recent
    <2>2. IsFiniteSet(recent) /\ Cardinality(recent) <= Cardinality(window)
      BY <2>1, FS_Subset DEF DensityInv
    <2>3. Cardinality(recent) \in Nat /\ Cardinality(window) \in Nat
      BY <2>2, FS_CardinalityType DEF DensityInv
    <2> QED
      BY <2>2, <2>3, WindowAssumption DEF DensityInv, DensityBounded
  <1> QED
    BY <1>1, DensityInvariant, PTL
(***************************************************************************)
(* While a client waits for the time it was told, nobody was admitted      *)
(* since: the set holds nothing stamped after the refusal.                 *)
(***************************************************************************)
HintInv == hint # None => \A e \in window : e.stamp <= hint - Window

\* Every step keeps it.
LEMMA HintStep == DensityInv /\ HintInv /\ [Next]_vars => HintInv'
  <1> SUFFICES ASSUME DensityInv, HintInv, [Next]_vars
               PROVE  HintInv'
    OBVIOUS
  <1>1. CASE Tick \/ UNCHANGED vars \/ \E p \in Proc : ReadClock(p)
    BY <1>1 DEF Tick, vars, ReadClock, HintInv
  <1>2. ASSUME NEW p \in Proc, Admit(p) PROVE HintInv'
    BY <1>2 DEF Admit, HintInv
  <1>3. ASSUME NEW p \in Proc, Reject(p) PROVE HintInv'
    <2>1. window' \subseteq window /\ hint' = clock + Window
      BY <1>3 DEF Reject, InWindow
    <2>2. \A e \in window : e.stamp \in 0..clock
      BY DEF DensityInv, TypeOK
    <2>3. clock \in Nat
      BY DEF DensityInv, TypeOK
    <2> QED
      BY <2>1, <2>2, <2>3, WindowAssumption DEF HintInv
  <1> QED
    BY <1>1, <1>2, <1>3 DEF Next

(***************************************************************************)
(* retryAfterMs is enough (sliding-window.lua:11-13): who waits for it     *)
(* while nobody else is admitted finds room, whatever the stamps of the    *)
(* requests that were refused meanwhile.                                   *)
(***************************************************************************)
THEOREM RetryTheorem == Spec => []RetryHonoured
  <1>1. Init => HintInv
    BY DEF Init, HintInv
  <1>2. DensityInv /\ HintInv => RetryHonoured
    <2> SUFFICES ASSUME DensityInv, HintInv, hint # None, clock >= hint
                 PROVE  Cardinality(InWindow(clock)) < Limit
      BY DEF RetryHonoured
    <2>1. clock \in Nat /\ hint \in Nat /\ \A e \in window : e.stamp \in 0..clock
      BY DEF DensityInv, TypeOK
    <2>2. InWindow(clock) = {}
      BY <2>1, WindowAssumption DEF HintInv, InWindow
    <2> QED
      BY <2>2, FS_EmptySet, WindowAssumption
  <1> QED
    BY <1>1, <1>2, InitDensityInv, NextDensityInv, HintStep, PTL DEF Spec

(***************************************************************************)
(* Every entry of the set was logged when it was admitted.                 *)
(***************************************************************************)
EntriesLogged == \A e \in window : \E a \in log : a.entry = e

\* Every step keeps that.
LEMMA LoggedStep == DensityInv /\ EntriesLogged /\ [Next]_vars => EntriesLogged'
  <1> SUFFICES ASSUME DensityInv, EntriesLogged, [Next]_vars
               PROVE  EntriesLogged'
    OBVIOUS
  <1>1. CASE Tick \/ UNCHANGED vars \/ \E p \in Proc : ReadClock(p)
    BY <1>1 DEF Tick, vars, ReadClock, EntriesLogged
  <1>2. ASSUME NEW p \in Proc, Admit(p) PROVE EntriesLogged'
    <2>1. PICK d \in Draws :
            LET entry == [stamp |-> ts[p], draw |-> d]
            IN  /\ window' = InWindow(ts[p]) \cup {entry}
                /\ log' = log \cup {[n |-> Cardinality(log) + 1,
                                     entry |-> entry, at |-> clock]}
      BY <1>2 DEF Admit
    <2> DEFINE entry == [stamp |-> ts[p], draw |-> d]
               new == [n |-> Cardinality(log) + 1, entry |-> entry, at |-> clock]
    <2>2. new.entry = entry /\ window' = InWindow(ts[p]) \cup {entry}
          /\ log' = log \cup {new}
      BY <2>1
    <2> HIDE DEF entry, new
    <2> QED
      BY <2>2 DEF EntriesLogged, InWindow
  <1>3. ASSUME NEW p \in Proc, Reject(p) PROVE EntriesLogged'
    BY <1>3 DEF Reject, InWindow, EntriesLogged
  <1> QED
    BY <1>1, <1>2, <1>3 DEF Next

(***************************************************************************)
(* A request is refused only when Limit others were let in during the last *)
(* Window + MaxLag ticks (sliding-window.lua:6-9): what is left of the set *)
(* then was admitted that recently, however late its script ran.           *)
(***************************************************************************)
THEOREM RefusalTheorem == Spec => RefusalJustified
  <1>1. Init => EntriesLogged
    BY DEF Init, EntriesLogged
  <1>2. ASSUME DensityInv, EntriesLogged, NEW p \in Proc, Reject(p)
        PROVE  Cardinality(Recent(Window + MaxLag)) >= Limit
    <2> DEFINE held == InWindow(ts[p])
               recent == Recent(Window + MaxLag)
    <2>1. \A e \in held : \E a \in recent : a.entry = e
      <3> SUFFICES ASSUME NEW e \in held
                   PROVE  \E a \in recent : a.entry = e
        OBVIOUS
      <3>1. e \in window /\ e.stamp > ts[p] - Window
        BY DEF InWindow
      <3>2. PICK a \in log : a.entry = e
        BY <1>2, <3>1 DEF EntriesLogged
      <3>3. a.at - a.entry.stamp \in 0..MaxLag /\ clock <= ts[p] + MaxLag
        BY <1>2 DEF Reject, DensityInv, StampedInTime, PendingIsRecent
      <3>4. /\ a.at \in Int /\ e.stamp \in Int /\ ts[p] \in Int /\ clock \in Int
        BY <1>2, <3>1 DEF DensityInv, TypeOK, Reject, None
      <3>5. a.at > clock - (Window + MaxLag)
        BY <3>1, <3>2, <3>3, <3>4, WindowAssumption
      <3> QED
        BY <3>2, <3>5 DEF Recent
    <2> DEFINE f == [e \in held |-> CHOOSE a \in recent : a.entry = e]
    <2> HIDE DEF held
    <2>2. \A e \in held : f[e] \in recent /\ f[e].entry = e
      <3> HIDE DEF recent
      <3> QED
        BY <2>1
    <2>3. f \in Injection(held, recent)
      <3> HIDE DEF recent
      <3>1. f \in [held -> recent]
        BY <2>2
      <3> HIDE DEF f
      <3> QED
        BY <2>2, <3>1 DEF Injection, IsInjective
    <2>4. IsFiniteSet(recent)
      <3>1. recent \in SUBSET log /\ IsFiniteSet(log)
        BY <1>2 DEF Recent, DensityInv
      <3> QED
        BY <3>1, FS_Subset
    <2>5. Cardinality(held) <= Cardinality(recent)
      <3> HIDE DEF recent, f
      <3> QED
        BY <2>3, <2>4, FS_Injection
    <2>6. Cardinality(held) >= Limit /\ Cardinality(held) \in Nat
      BY <1>2, EvictionShrinks DEF Reject, held
    <2>7. Cardinality(recent) \in Nat
      BY <2>4, FS_CardinalityType
    <2> QED
      BY <2>5, <2>6, <2>7, WindowAssumption
  <1>3. DensityInv /\ EntriesLogged =>
          [\A p \in Proc : Reject(p) => Cardinality(Recent(Window + MaxLag)) >= Limit]_vars
    BY <1>2
  <1> QED
    BY <1>1, <1>3, InitDensityInv, NextDensityInv, LoggedStep, PTL
       DEF Spec, RefusalJustified

=============================================================================
