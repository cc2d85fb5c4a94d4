--------------------------- MODULE IpBlock_proofs ---------------------------
(***************************************************************************)
(* For every number of requests and administrators, every limit, duration, *)
(* delay and bound: whom a block of the gateway can be traced to, that the *)
(* only event of an address is enforced, and that repeated refusals block  *)
(* only when they came together.                                           *)
(***************************************************************************)
EXTENDS IpBlock, SequenceTheorems, FiniteSetTheorems, TLAPS

(***************************************************************************)
(* Whole seconds are at most what is left, and less than one second short  *)
(* of it (blocked-events.service.ts:45).                                   *)
(***************************************************************************)
LEMMA TtlRoundsDown ==
  ASSUME NEW left \in Nat
  PROVE  Ttl(left) \in Nat /\ Ttl(left) <= left /\ Ttl(left) > left - Second
  BY BlockAssumption DEF Ttl

(***************************************************************************)
(* A step of one process moves it and leaves the others where they were.   *)
(***************************************************************************)
Others(p) == \A q \in Process : q # p => op'[q] = op[q]

LEMMA Begins ==
  ASSUME TypeOK, NEW p \in Process, NEW step \in Steps, NEW id \in Nat,
         NEW arg \in Nat \cup {Forever}, Begin(p, step, id, arg)
  PROVE  /\ op' \in [Process -> Call] /\ Others(p)
         /\ op'[p].at = step /\ op'[p].id = id /\ op'[p].arg = arg
         /\ op'[p].since = clock
  BY DEF TypeOK, Begin, Call, Others

LEMMA Moves ==
  ASSUME TypeOK, NEW p \in Process, NEW step \in Steps,
         NEW arg \in Nat \cup {Forever}, Goto(p, step, arg)
  PROVE  /\ op' \in [Process -> Call] /\ Others(p)
         /\ op'[p].at = step /\ op'[p].arg = arg
         /\ op'[p].id = op[p].id /\ op'[p].since = op[p].since
  BY DEF TypeOK, Goto, Call, Others

LEMMA Finishes ==
  ASSUME TypeOK, NEW p \in Process, Done(p)
  PROVE  op' \in [Process -> Call] /\ Others(p) /\ op'[p].at = "idle"
  BY DEF Done, TypeOK, Call, Idle, Steps, Others

(***************************************************************************)
(* A request only ever moves to a step of its own, and no administrator    *)
(* moves with it.                                                          *)
(***************************************************************************)
LEMMA RequestMoves ==
  ASSUME TypeOK, NEW r \in Request, Throttle(r) \/ RequestStep(r)
  PROVE  /\ op' \in [Process -> Call] /\ Others(r)
         /\ \A a \in Admin : op'[a] = op[a]
         /\ \/ op'[r].at = "idle"
            \/ op'[r].since = clock
            \/ ~At(r, "idle") /\ op'[r].since = op[r].since
         /\ UNCHANGED <<clock, events, raced, cut>>
  <1>0. r \in Process /\ {"idle", "expire", "set429", "del429"} \subseteq Steps
    BY DEF Process, Steps
  <1>1. op[r].arg \in Nat \cup {Forever} /\ counter + 1 \in Nat
    BY <1>0 DEF TypeOK, Call
  <1>2. CASE Throttle(r)
    <2>1. Begin(r, "expire", 0, 1) \/ Begin(r, "set429", 0, counter + 1) \/ Done(r)
      BY <1>2 DEF Throttle
    <2>2. 0 \in Nat /\ 1 \in Nat \cup {Forever} /\ counter + 1 \in Nat \cup {Forever}
      BY <1>1
    <2>3. /\ op' \in [Process -> Call] /\ Others(r)
          /\ op'[r].at = "idle" \/ op'[r].since = clock
      BY <1>0, <2>1, <2>2, Begins, Finishes
    <2>4. UNCHANGED <<clock, events, raced, cut>>
      BY <1>2 DEF Throttle
    <2> QED
      BY <2>3, <2>4, BlockAssumption DEF Others, Process
  <1>3. CASE RequestStep(r)
    <2>1. \/ Goto(r, "set429", op[r].arg) \/ Goto(r, "del429", 0) \/ Done(r)
      BY <1>3 DEF RequestStep, Expire, Set429, Del429, AfterExpire
    <2>2. ~At(r, "idle")
      BY <1>3 DEF RequestStep, Expire, Set429, Del429, At
    <2>3. /\ op' \in [Process -> Call] /\ Others(r)
          /\ op'[r].at = "idle" \/ op'[r].since = op[r].since
      BY <1>0, <1>1, <2>1, Moves, Finishes
    <2>4. UNCHANGED <<clock, events, raced, cut>>
      BY <1>3 DEF RequestStep, Expire, Set429, Del429
    <2> QED
      BY <2>2, <2>3, <2>4, BlockAssumption DEF Others, Process
  <1> QED
    BY <1>2, <1>3

(***************************************************************************)
(* The three ways a call changes the rows keep them a sequence of rows,    *)
(* lose none and leave their expiry alone.                                 *)
(***************************************************************************)
RowsKept ==
    /\ DOMAIN events \subseteq DOMAIN events'
    /\ \A i \in DOMAIN events : events'[i].expires = events[i].expires

LEMMA AppendRow ==
  ASSUME TypeOK, NEW row \in Row, events' = Append(events, row)
  PROVE  /\ events' \in Seq(Row) /\ RowsKept
         /\ Len(events') = Len(events) + 1
         /\ \A i \in DOMAIN events : events'[i] = events[i]
         /\ Len(events) + 1 \in DOMAIN events' \ DOMAIN events
         /\ events'[Len(events) + 1] = row
  BY AppendProperties, LenProperties DEF TypeOK, RowsKept

LEMMA MarkRow ==
  ASSUME TypeOK, NEW id \in DOMAIN events,
         events' = [events EXCEPT ![id].unblocked = TRUE]
  PROVE  /\ events' \in Seq(Row) /\ DOMAIN events' = DOMAIN events /\ RowsKept
         /\ Len(events') = Len(events)
         /\ events'[id].unblocked
         /\ \A i \in DOMAIN events : i # id => events'[i] = events[i]
  <1>1. events \in Seq(Row) /\ id \in 1..Len(events)
    BY LenProperties DEF TypeOK
  <1>2. events[id] \in Row
    BY <1>1, ElementOfSeq
  <1> DEFINE row == [events[id] EXCEPT !.unblocked = TRUE]
  <1>3. row \in Row /\ row.expires = events[id].expires /\ row.unblocked
    BY <1>2 DEF Row
  <1>4. events' = [events EXCEPT ![id] = row]
    OBVIOUS
  <1> HIDE DEF row
  <1>5. /\ events' \in [1..Len(events) -> Row]
        /\ \A j \in 1..Len(events) : events'[j] = IF j = id THEN row ELSE events[j]
    <2>1. events \in [1..Len(events) -> Row]
      BY <1>1, LenProperties, ElementOfSeq
    <2> QED
      BY <1>1, <1>3, <1>4, <2>1
  <1>6. Len(events) \in Nat /\ DOMAIN events = 1..Len(events)
    BY <1>1, LenProperties
  <1>7. events' \in Seq(Row) /\ Len(events') = Len(events)
    <2>0. events' \in [1..Len(events) -> Row]
      BY <1>5
    <2>1. events' \in Seq(Row) /\ DOMAIN events' = 1..Len(events)
      BY ONLY <2>0, <1>6, SeqDef
    <2>2. DOMAIN events' = 1..Len(events') /\ Len(events') \in Nat
      BY <2>1, LenProperties
    <2> QED
      BY <1>6, <2>1, <2>2
  <1> QED
    BY <1>3, <1>5, <1>6, <1>7 DEF RowsKept

LEMMA MarkAllRows ==
  ASSUME TypeOK,
         events' = [i \in DOMAIN events |-> [events[i] EXCEPT !.unblocked = TRUE]]
  PROVE  /\ events' \in Seq(Row) /\ DOMAIN events' = DOMAIN events /\ RowsKept
         /\ Len(events') = Len(events)
         /\ \A i \in DOMAIN events : events'[i].unblocked
  <1>1. events \in Seq(Row) /\ DOMAIN events = 1..Len(events) /\ Len(events) \in Nat
    BY LenProperties DEF TypeOK
  <1>2. \A i \in 1..Len(events) : events[i] \in Row
    BY <1>1, ElementOfSeq
  <1>3. \A i \in 1..Len(events) :
          /\ events'[i] \in Row /\ events'[i].expires = events[i].expires
          /\ events'[i].unblocked
    BY <1>1, <1>2 DEF Row
  <1>4. events' \in [1..Len(events) -> Row]
    BY <1>1, <1>3
  <1>5. events' \in Seq(Row) /\ Len(events') = Len(events)
    BY <1>1, <1>4, SeqDef, LenProperties
  <1>6. DOMAIN events' = DOMAIN events
    OBVIOUS
  <1> QED
    BY <1>1, <1>3, <1>5, <1>6 DEF RowsKept

(***************************************************************************)
(* What a step of administrator a does to the calls and the rows.          *)
(***************************************************************************)
AdminFrame(a) ==
    /\ op' \in [Process -> Call] /\ Others(a)
    /\ \/ op'[a].at = "idle"
       \/ op'[a].since = clock
       \/ ~At(a, "idle") /\ op'[a].since = op[a].since
    /\ events' \in Seq(Row) /\ Len(events') <= MaxEvents /\ RowsKept
    /\ UNCHANGED <<clock, counter, counterTtl, hits, tracked, cut>>

LEMMA CreateFrame ==
  ASSUME TypeOK, NEW a \in Admin, NEW expires \in Expiries, Create(a, expires)
  PROVE  /\ AdminFrame(a) /\ UNCHANGED <<blockKey, author>>
         /\ \A i \in DOMAIN events : events'[i] = events[i]
         /\ op'[a].id \in DOMAIN events' \ DOMAIN events
         /\ events'[op'[a].id].expires = expires /\ ~events'[op'[a].id].unblocked
         /\ \/ expires = Forever /\ op'[a].at = "set"
            \/ expires # Forever /\ op'[a].at = "ttl"
         /\ op'[a].arg = expires
  <1>1. a \in Process /\ {"ttl", "set"} \subseteq Steps /\ expires \in Nat \cup {Forever}
    BY BlockAssumption DEF Process, Steps
  <1> DEFINE row == [expires |-> expires, unblocked |-> FALSE]
  <1>2. /\ row \in Row /\ events' = Append(events, row)
        /\ row.expires = expires /\ ~row.unblocked
    BY <1>1 DEF Create, Row
  <1>3. Len(events) + 1 \in Nat /\ Len(events) < MaxEvents /\ Len(events) \in Nat
    BY LenProperties DEF TypeOK, Create
  <1>4. /\ op' \in [Process -> Call] /\ Others(a) /\ op'[a].since = clock
        /\ op'[a].id = Len(events) + 1 /\ op'[a].arg = expires
        /\ op'[a].at = IF expires = Forever THEN "set" ELSE "ttl"
    BY <1>1, <1>3, Begins DEF Create
  <1> HIDE DEF row
  <1>5. /\ events' \in Seq(Row) /\ RowsKept /\ Len(events') = Len(events) + 1
        /\ \A i \in DOMAIN events : events'[i] = events[i]
        /\ Len(events) + 1 \in DOMAIN events' \ DOMAIN events
        /\ events'[Len(events) + 1] = row
    BY <1>2, AppendRow
  <1>6. Len(events') <= MaxEvents
    BY <1>3, <1>5, BlockAssumption
  <1>7. UNCHANGED <<clock, counter, counterTtl, hits, tracked, cut, blockKey, author>>
    BY DEF Create
  <1> QED
    BY <1>2, <1>4, <1>5, <1>6, <1>7 DEF AdminFrame

LEMMA FindFrame ==
  ASSUME TypeOK, NEW a \in Admin, NEW id \in DOMAIN events, FindEvent(a, id)
  PROVE  /\ AdminFrame(a) /\ UNCHANGED <<blockKey, author, events>>
         /\ op'[a].at = "delById" /\ op'[a].id = id
  <1>1. a \in Process /\ "delById" \in Steps /\ id \in Nat /\ 0 \in Nat
    BY LenProperties DEF Process, Steps, TypeOK
  <1>2. /\ op' \in [Process -> Call] /\ Others(a) /\ op'[a].since = clock
        /\ op'[a].at = "delById" /\ op'[a].id = id
    BY <1>1, Begins DEF FindEvent
  <1> QED
    BY <1>2 DEF FindEvent, AdminFrame, RowsKept, TypeOK

LEMMA EntityFrame ==
  ASSUME TypeOK, NEW a \in Admin, DelKeyOfEntity(a)
  PROVE  /\ AdminFrame(a) /\ UNCHANGED <<author, events>> /\ blockKey' = None
         /\ op'[a].at = "markAll"
  <1>1. a \in Process /\ "markAll" \in Steps /\ 0 \in Nat
    BY DEF Process, Steps
  <1>2. /\ op' \in [Process -> Call] /\ Others(a) /\ op'[a].since = clock
        /\ op'[a].at = "markAll"
    BY <1>1, Begins DEF DelKeyOfEntity, EndAll
  <1> QED
    BY <1>2 DEF DelKeyOfEntity, EndAll, AdminFrame, RowsKept, TypeOK

LEMMA ReadFrame ==
  ASSUME TypeOK, NEW a \in Admin, ReadTtl(a)
  PROVE  /\ AdminFrame(a) /\ UNCHANGED <<blockKey, author, events, raced>>
         /\ \/ op'[a].at = "idle" /\ op[a].arg - clock < Second
            \/ /\ op'[a].at = "set" /\ op'[a].id = op[a].id
               /\ op'[a].since = op[a].since /\ op[a].arg - clock >= Second
               /\ op[a].arg - clock \in Nat /\ op'[a].arg = Ttl(op[a].arg - clock)
  <1>1. a \in Process /\ "set" \in Steps /\ clock \in Nat
        /\ op[a].arg \in Nat \cup {Forever}
    BY DEF Process, Steps, TypeOK, Call
  <1>2. op[a].arg - clock < Second \/ op[a].arg - clock >= Second
    BY <1>1, BlockAssumption DEF Forever
  <1>3. CASE op[a].arg - clock < Second
    <2>1. op' \in [Process -> Call] /\ Others(a) /\ op'[a].at = "idle"
      BY <1>1, <1>3, Finishes DEF ReadTtl
    <2> QED
      BY <1>3, <2>1 DEF ReadTtl, AdminFrame, RowsKept, TypeOK
  <1>4. CASE op[a].arg - clock >= Second
    <2>1. op[a].arg - clock \in Nat /\ ~(op[a].arg - clock < Second)
      BY <1>1, <1>4, BlockAssumption DEF Forever
    <2>2. Ttl(op[a].arg - clock) \in Nat
      BY <2>1, TtlRoundsDown
    <2>3. /\ op' \in [Process -> Call] /\ Others(a)
          /\ op'[a].at = "set" /\ op'[a].arg = Ttl(op[a].arg - clock)
          /\ op'[a].id = op[a].id /\ op'[a].since = op[a].since
      BY <1>1, <2>1, <2>2, Moves DEF ReadTtl
    <2> QED
      BY <1>4, <2>1, <2>3 DEF ReadTtl, AdminFrame, RowsKept, TypeOK, At
  <1> QED
    BY <1>2, <1>3, <1>4

LEMMA SetFrame ==
  ASSUME TypeOK, NEW a \in Admin, SetKey(a)
  PROVE  /\ AdminFrame(a) /\ UNCHANGED <<events, raced>>
         /\ op'[a].at = "idle" /\ author' = op[a].id
         /\ author' \in DOMAIN events /\ op[a].arg \in Nat \cup {Forever}
         /\ blockKey' = IF op[a].arg = Forever THEN Forever ELSE clock + op[a].arg
         /\ blockKey' \in Nat \cup {Forever}
  <1>1. /\ a \in Process /\ op[a].arg \in Nat \cup {Forever} /\ clock \in Nat
        /\ op[a].id \in DOMAIN events
    BY DEF Process, TypeOK, Call, SetKey, Creating
  <1>2. op' \in [Process -> Call] /\ Others(a) /\ op'[a].at = "idle"
    BY <1>1, Finishes DEF SetKey
  <1> QED
    BY <1>1, <1>2 DEF SetKey, AdminFrame, RowsKept, TypeOK

LEMMA DelFrame ==
  ASSUME TypeOK, NEW a \in Admin, DelKey(a)
  PROVE  /\ AdminFrame(a) /\ UNCHANGED <<events, raced, author>>
         /\ op'[a].at = "mark" /\ op'[a].id = op[a].id /\ blockKey' = None
  <1>1. a \in Process /\ "mark" \in Steps /\ 0 \in Nat
    BY DEF Process, Steps
  <1>2. /\ op' \in [Process -> Call] /\ Others(a)
        /\ op'[a].at = "mark" /\ op'[a].id = op[a].id /\ op'[a].since = op[a].since
    BY <1>1, Moves DEF DelKey
  <1> QED
    BY <1>2 DEF DelKey, AdminFrame, RowsKept, TypeOK, At

LEMMA MarkFrame ==
  ASSUME TypeOK, NEW a \in Admin, MarkUnblocked(a)
  PROVE  /\ AdminFrame(a) /\ UNCHANGED <<blockKey, author, raced>>
         /\ op'[a].at = "idle" /\ op[a].id \in DOMAIN events
         /\ DOMAIN events' = DOMAIN events /\ Len(events') = Len(events)
         /\ events'[op[a].id].unblocked
         /\ \A i \in DOMAIN events : i # op[a].id => events'[i] = events[i]
  <1>1. a \in Process /\ op[a].id \in DOMAIN events
    BY DEF Process, TypeOK, MarkUnblocked
  <1>2. op' \in [Process -> Call] /\ Others(a) /\ op'[a].at = "idle"
    BY <1>1, Finishes DEF MarkUnblocked
  <1>3. /\ events' \in Seq(Row) /\ DOMAIN events' = DOMAIN events /\ RowsKept
        /\ Len(events') = Len(events) /\ events'[op[a].id].unblocked
        /\ \A i \in DOMAIN events : i # op[a].id => events'[i] = events[i]
    BY <1>1, MarkRow DEF MarkUnblocked
  <1> QED
    BY <1>1, <1>2, <1>3 DEF MarkUnblocked, AdminFrame, TypeOK

LEMMA MarkAllFrame ==
  ASSUME TypeOK, NEW a \in Admin, MarkAllUnblocked(a)
  PROVE  /\ AdminFrame(a) /\ UNCHANGED <<blockKey, author, raced>>
         /\ op'[a].at = "idle"
         /\ DOMAIN events' = DOMAIN events /\ Len(events') = Len(events)
         /\ \A i \in DOMAIN events : events'[i].unblocked
  <1>1. a \in Process
    BY DEF Process
  <1>2. op' \in [Process -> Call] /\ Others(a) /\ op'[a].at = "idle"
    BY <1>1, Finishes DEF MarkAllUnblocked
  <1>3. /\ events' \in Seq(Row) /\ DOMAIN events' = DOMAIN events /\ RowsKept
        /\ Len(events') = Len(events) /\ \A i \in DOMAIN events : events'[i].unblocked
    BY MarkAllRows DEF MarkAllUnblocked
  <1> QED
    BY <1>2, <1>3 DEF MarkAllUnblocked, AdminFrame, TypeOK

LEMMA CrashFrame ==
  ASSUME TypeOK, NEW p \in Process, Crash(p)
  PROVE  /\ op' \in [Process -> Call] /\ Others(p) /\ op'[p].at = "idle"
         /\ ~At(p, "idle") /\ cut' = cut \cup {op[p].at} /\ op[p].at \in Steps
         /\ UNCHANGED <<clock, blockKey, counter, counterTtl, events, hits, tracked,
                        author, raced>>
  <1>1. op' \in [Process -> Call] /\ Others(p) /\ op'[p].at = "idle"
    BY Finishes DEF Crash
  <1> QED
    BY <1>1 DEF Crash, TypeOK, Call

(***************************************************************************)
(* Every variable keeps its type, and every call its time.                 *)
(***************************************************************************)
Timely(p) == ~At(p, "idle") => op[p].since <= clock /\ clock <= op[p].since + MaxLag
Named(a) == Creating(a) \/ At(a, "delById") \/ At(a, "mark") => op[a].id \in DOMAIN events

LEMMA OneMoves ==
  ASSUME TypeOK, NEW p \in Process, op' \in [Process -> Call], Others(p),
         UNCHANGED clock,
         \/ op'[p].at = "idle"
         \/ op'[p].since = clock
         \/ ~At(p, "idle") /\ op'[p].since = op[p].since
  PROVE  \A q \in Process : Timely(q)'
  <1> SUFFICES ASSUME NEW q \in Process PROVE Timely(q)'
    OBVIOUS
  <1>1. clock \in Nat /\ op[q].since \in Nat /\ Timely(q) /\ MaxLag \in Nat
    BY BlockAssumption DEF TypeOK, Call, Timely
  <1>2. CASE q = p
    BY <1>1, <1>2 DEF Timely, At
  <1>3. CASE q # p
    BY <1>1, <1>3 DEF Timely, At, Others
  <1> QED
    BY <1>2, <1>3

LEMMA TypeInitial == Init => TypeOK
  <1> SUFFICES ASSUME Init PROVE TypeOK
    OBVIOUS
  <1>1. events \in Seq(Row) /\ Len(events) = 0
    BY EmptySeq DEF Init
  <1>2. Idle \in Call /\ Idle.at = "idle"
    BY DEF Idle, Call, Steps
  <1>3. op \in [Process -> Call] /\ \A p \in Process : op[p].at = "idle"
    BY <1>2 DEF Init
  <1>4. hits \subseteq [n : Nat, at : 0..clock] /\ IsFiniteSet(hits)
    BY FS_EmptySet DEF Init
  <1>5. /\ \A p \in Process : At(p, "idle")
        /\ \A a \in Admin : ~Creating(a) /\ ~At(a, "delById") /\ ~At(a, "mark")
    BY <1>3 DEF At, Creating, Process
  <1>6. /\ clock \in 0..MaxTime /\ blockKey \in Nat \cup {None, Forever} /\ counter \in Nat
        /\ counterTtl \in Nat \cup {None} /\ tracked \in {None} \cup 0..clock
        /\ author \in {Tracker} \cup DOMAIN events /\ raced \in BOOLEAN
        /\ cut \subseteq Steps \ {"idle"} /\ Len(events) <= MaxEvents
    <2>1. clock = 0 /\ 0 \in 0..MaxTime
      BY BlockAssumption DEF Init
    <2>2. blockKey = None /\ counter = 0 /\ counterTtl = None /\ tracked = None
      BY DEF Init
    <2>3. author = Tracker /\ raced = FALSE /\ cut = {}
      BY DEF Init
    <2>4. Len(events) <= MaxEvents
      BY <1>1, BlockAssumption
    <2> QED
      BY <2>1, <2>2, <2>3, <2>4
  <1> QED
    BY <1>1, <1>3, <1>4, <1>5, <1>6 DEF TypeOK

LEMMA TypeInductive == TypeOK /\ [Next]_vars => TypeOK'
  <1> SUFFICES ASSUME TypeOK, [Next]_vars
               PROVE  TypeOK'
    OBVIOUS
  <1>1. CASE Tick
    <2>1. \A p \in Process : Timely(p)'
      <3> SUFFICES ASSUME NEW p \in Process, ~At(p, "idle")
                   PROVE  op[p].since <= clock + 1 /\ clock + 1 <= op[p].since + MaxLag
        BY <1>1 DEF Tick, Timely, At
      <3>1. clock < op[p].since + MaxLag /\ op[p].since <= clock
        BY <1>1 DEF Tick, TypeOK
      <3>2. op[p].since \in Nat /\ clock \in Nat
        BY DEF TypeOK, Call
      <3> QED
        BY <3>1, <3>2, BlockAssumption
    <2>2. UNCHANGED <<events, op, hits, tracked, author, raced, cut>>
      BY <1>1 DEF Tick
    <2>3. clock' = clock + 1 /\ clock' \in 0..MaxTime /\ clock \in Nat
      BY <1>1, BlockAssumption DEF Tick, TypeOK
    <2>4. /\ blockKey' \in Nat \cup {None, Forever}
          /\ counter' \in Nat /\ counterTtl' \in Nat \cup {None}
      BY <1>1 DEF Tick, TypeOK
    <2>5. /\ hits' \subseteq [n : Nat, at : 0..clock'] /\ IsFiniteSet(hits')
          /\ tracked' \in {None} \cup 0..clock'
      BY <2>2, <2>3 DEF TypeOK
    <2>6. \A a \in Admin : Named(a)'
      BY <2>2 DEF TypeOK, Named, Creating, At
    <2> QED
      BY <2>1, <2>2, <2>3, <2>4, <2>5, <2>6 DEF TypeOK, Timely, Named
  <1>2. ASSUME NEW r \in Request, Throttle(r) \/ RequestStep(r)
        PROVE  TypeOK'
    <2>1. /\ op' \in [Process -> Call] /\ \A a \in Admin : op'[a] = op[a]
          /\ UNCHANGED <<clock, events, raced, cut>>
          /\ \A q \in Process : Timely(q)'
      BY <1>2, RequestMoves, OneMoves DEF Process
    <2>2. hits' \subseteq [n : Nat, at : 0..clock] /\ IsFiniteSet(hits')
      <3>1. CASE Throttle(r)
        <4>1. IsFiniteSet(hits) /\ Cardinality(hits) + 1 \in Nat
          BY FS_CardinalityType DEF TypeOK
        <4>2. IsFiniteSet(hits')
          BY <3>1, <4>1, FS_AddElement DEF Throttle
        <4> QED
          BY <3>1, <4>1, <4>2 DEF Throttle, TypeOK
      <3>2. CASE RequestStep(r)
        BY <3>2 DEF RequestStep, Expire, Set429, Del429, TypeOK
      <3> QED
        BY <1>2, <3>1, <3>2
    <2>3. /\ blockKey' \in Nat \cup {None, Forever}
          /\ counter' \in Nat /\ counterTtl' \in Nat \cup {None}
          /\ tracked' \in {None} \cup 0..clock
          /\ author' \in {Tracker} \cup DOMAIN events
      BY <1>2, BlockAssumption DEF Throttle, RequestStep, Expire, Set429, Del429, TypeOK
    <2>4. \A a \in Admin : Named(a)'
      BY <2>1 DEF TypeOK, Named, Creating, At
    <2> QED
      BY <2>1, <2>2, <2>3, <2>4 DEF TypeOK, Timely, Named
  <1>3. ASSUME NEW a \in Admin, AdminFrame(a), Named(a)',
               blockKey' \in Nat \cup {None, Forever}, raced' \in BOOLEAN,
               author' \in {Tracker} \cup DOMAIN events
        PROVE  TypeOK'
    <2>1. \A q \in Process : Timely(q)'
      BY <1>3, OneMoves DEF AdminFrame, Process
    <2>2. \A b \in Admin : Named(b)'
      <3> SUFFICES ASSUME NEW b \in Admin, b # a PROVE Named(b)'
        BY <1>3
      <3>1. op'[b] = op[b] /\ DOMAIN events \subseteq DOMAIN events'
        BY <1>3 DEF AdminFrame, Others, Process, RowsKept
      <3> QED
        BY <3>1 DEF TypeOK, Named, Creating, At
    <2>3. DOMAIN events \subseteq DOMAIN events'
      BY <1>3 DEF AdminFrame, RowsKept
    <2> QED
      BY <1>3, <2>1, <2>2, <2>3 DEF AdminFrame, TypeOK, Timely, Named
  <1>4. ASSUME NEW a \in Admin, NEW expires \in Expiries, Create(a, expires)
        PROVE  TypeOK'
    <2>1. raced' \in BOOLEAN
      BY <1>4 DEF Create, TypeOK
    <2>2. Named(a)' /\ AdminFrame(a) /\ UNCHANGED <<blockKey, author>>
      BY <1>4, CreateFrame DEF Named
    <2> QED
      BY <1>3, <2>1, <2>2 DEF TypeOK
  <1>5. ASSUME NEW a \in Admin, NEW id \in DOMAIN events, FindEvent(a, id)
        PROVE  TypeOK'
    <2>1. raced' \in BOOLEAN
      BY <1>5 DEF FindEvent, TypeOK
    <2> QED
      BY <1>3, <1>5, <2>1, FindFrame DEF Named, TypeOK
  <1>6. ASSUME NEW a \in Admin, DelKeyOfEntity(a)
        PROVE  TypeOK'
    <2>1. raced' \in BOOLEAN
      BY <1>6 DEF DelKeyOfEntity, EndAll, TypeOK
    <2>2. Named(a)'
      BY <1>6, EntityFrame DEF Named, Creating, At
    <2> QED
      BY <1>3, <1>6, <2>1, <2>2, EntityFrame DEF TypeOK
  <1>7. ASSUME NEW a \in Admin, ReadTtl(a) PROVE TypeOK'
    <2>1. Named(a)'
      BY <1>7, ReadFrame DEF Named, Creating, At, TypeOK, ReadTtl
    <2> QED
      BY <1>3, <1>7, <2>1, ReadFrame DEF TypeOK
  <1>8. ASSUME NEW a \in Admin, SetKey(a) PROVE TypeOK'
    <2>1. Named(a)'
      BY <1>8, SetFrame DEF Named, Creating, At
    <2> QED
      BY <1>3, <1>8, <2>1, SetFrame DEF TypeOK
  <1>9. ASSUME NEW a \in Admin, DelKey(a) PROVE TypeOK'
    <2>1. Named(a)'
      BY <1>9, DelFrame DEF Named, Creating, At, TypeOK, DelKey
    <2> QED
      BY <1>3, <1>9, <2>1, DelFrame DEF TypeOK
  <1>10. ASSUME NEW a \in Admin, MarkUnblocked(a) \/ MarkAllUnblocked(a) PROVE TypeOK'
    <2>1. Named(a)'
      BY <1>10, MarkFrame, MarkAllFrame DEF Named, Creating, At
    <2> QED
      BY <1>3, <1>10, <2>1, MarkFrame, MarkAllFrame DEF TypeOK
  <1>11. ASSUME NEW p \in Process, Crash(p)
         PROVE  TypeOK'
    <2>1. /\ op' \in [Process -> Call] /\ \A q \in Process : Timely(q)'
          /\ UNCHANGED <<clock, events>>
      BY <1>11, CrashFrame, OneMoves
    <2>2. \A a \in Admin : Named(a)'
      BY <1>11, CrashFrame DEF TypeOK, Named, Creating, At, Others, Process
    <2>3. cut' \subseteq Steps \ {"idle"}
      BY <1>11, CrashFrame DEF TypeOK, At
    <2> QED
      BY <1>11, <2>1, <2>2, <2>3, CrashFrame DEF TypeOK, Timely, Named
  <1>12. CASE UNCHANGED vars
    BY <1>12 DEF vars, TypeOK, At, Creating
  <1> QED
    BY <1>1, <1>2, <1>4, <1>5, <1>6, <1>7, <1>8, <1>9, <1>10, <1>11, <1>12
       DEF Next, AdminNext, AdminStep

(***************************************************************************)
(* Requests leave the administrators' key alone, or put the tracker's own  *)
(* in its place.                                                           *)
(***************************************************************************)
LEMMA RequestsBlockJustly ==
  ASSUME TypeOK, NEW r \in Request, Throttle(r) \/ RequestStep(r)
  PROVE  \/ UNCHANGED <<blockKey, tracked, author>>
         \/ /\ author' = Tracker /\ blockKey' = tracked' + BlockSeconds
            /\ tracked' # None
  BY BlockAssumption
     DEF Throttle, RequestStep, Expire, Set429, Del429, TypeOK, None

LEMMA BlockInductive == BlockInv /\ [Next]_vars => BlockInv'
  <1> SUFFICES ASSUME BlockInv, [Next]_vars
               PROVE  BlockInv'
    OBVIOUS
  <1>0. TypeOK /\ TypeOK' /\ PendingHasEvent /\ BlockJustified
    BY TypeInductive DEF BlockInv
  <1> DEFINE Pending(a) ==
        LET expires == events[op[a].id].expires IN
        /\ At(a, "ttl") => expires # Forever /\ op[a].arg = expires
        /\ At(a, "set") /\ expires = Forever => op[a].arg = Forever
        /\ At(a, "set") /\ expires # Forever =>
             /\ op[a].arg >= 0 /\ op[a].since + op[a].arg <= expires
             /\ clock + op[a].arg > expires - Second
  <1>p. \A a \in Admin : Pending(a)
    BY <1>0 DEF PendingHasEvent
  <1>q. ASSUME \A a \in Admin : Pending(a)'
        PROVE  PendingHasEvent'
    BY <1>q DEF PendingHasEvent, At
  <1>r. \A a \in Admin : Creating(a) =>
          /\ op[a].id \in DOMAIN events
          /\ events[op[a].id].expires \in Nat \cup {Forever}
          /\ op[a].since \in Nat /\ op[a].arg \in Nat \cup {Forever}
          /\ op[a].since <= clock /\ clock <= op[a].since + MaxLag
    <2>1. \A i \in DOMAIN events : events[i].expires \in Nat \cup {Forever}
      <3>1. \A i \in DOMAIN events : events[i] \in Row
        BY <1>0, ElementOfSeq, LenProperties DEF TypeOK
      <3> QED
        BY <3>1 DEF Row
    <2>2. \A a \in Admin : Creating(a) => ~At(a, "idle") /\ a \in Process
      BY DEF Creating, At, Process
    <2> QED
      BY <1>0, <2>1, <2>2 DEF TypeOK, Call
  <1>s. clock \in Nat
    BY <1>0 DEF TypeOK
  <1>a. ASSUME RowsKept, UNCHANGED <<blockKey, tracked, author>> \/ blockKey' = None
        PROVE  BlockJustified'
    BY <1>a, <1>0 DEF RowsKept, BlockJustified, IsBlocked, TypeOK, Within
  <1>b. ASSUME RowsKept, UNCHANGED clock, NEW a \in Admin, op'[a] = op[a]
        PROVE  Pending(a)'
    BY <1>b, <1>p, <1>r DEF RowsKept, At, Creating
  <1>c. ASSUME NEW a \in Admin, AdminFrame(a), Pending(a)'
        PROVE  PendingHasEvent'
    BY <1>b, <1>c, <1>q DEF AdminFrame, Others, Process
  <1>d. ASSUME NEW a \in Admin, op'[a].at \notin {"ttl", "set"} PROVE Pending(a)'
    BY <1>d DEF At
  <1>1. CASE Tick
    <2>1. UNCHANGED <<events, op, tracked, author>> /\ clock' = clock + 1
      BY <1>1 DEF Tick
    <2>2. BlockJustified'
      BY <1>1, <1>a, <2>1 DEF Tick, RowsKept
    <2>3. \A a \in Admin : Pending(a)'
      <3> SUFFICES ASSUME NEW a \in Admin, At(a, "set"),
                          events[op[a].id].expires # Forever
                   PROVE  clock + 1 + op[a].arg > events[op[a].id].expires - Second
        BY <1>p, <2>1 DEF At
      <3> DEFINE expires == events[op[a].id].expires
      <3>1. clock + op[a].arg > expires - Second /\ op[a].arg >= 0
        BY <1>p
      <3>2. expires \in Nat /\ op[a].arg \in Nat
        BY <1>r, <3>1 DEF Creating, Forever
      <3> QED
        BY <1>s, <3>1, <3>2, BlockAssumption
    <2> QED
      BY <1>0, <1>q, <2>2, <2>3 DEF BlockInv
  <1>2. ASSUME NEW r \in Request, Throttle(r) \/ RequestStep(r)
        PROVE  BlockInv'
    <2>1. (\A a \in Admin : op'[a] = op[a]) /\ UNCHANGED <<events, clock>>
      BY <1>0, <1>2, RequestMoves
    <2>2. RowsKept
      BY <2>1 DEF RowsKept
    <2>3. PendingHasEvent'
      BY <1>b, <1>q, <2>1, <2>2
    <2>4. BlockJustified'
      BY <1>0, <1>2, <1>a, <2>2, RequestsBlockJustly DEF BlockJustified
    <2> QED
      BY <1>0, <2>3, <2>4 DEF BlockInv
  <1>3. ASSUME NEW a \in Admin, NEW expires \in Expiries, Create(a, expires)
        PROVE  BlockInv'
    <2>1. /\ AdminFrame(a) /\ UNCHANGED <<blockKey, author>>
          /\ events'[op'[a].id].expires = expires /\ op'[a].arg = expires
          /\ \/ expires = Forever /\ op'[a].at = "set"
             \/ expires # Forever /\ op'[a].at = "ttl"
      BY <1>0, <1>3, CreateFrame
    <2>2. Pending(a)'
      BY <2>1 DEF At
    <2> QED
      BY <1>0, <1>a, <1>c, <2>1, <2>2 DEF AdminFrame, BlockInv
  <1>4. ASSUME NEW a \in Admin, ReadTtl(a)
        PROVE  BlockInv'
    <2>1. /\ AdminFrame(a) /\ UNCHANGED <<blockKey, author, events, clock>>
          /\ \/ op'[a].at = "idle"
             \/ /\ op'[a].at = "set" /\ op'[a].id = op[a].id
                /\ op'[a].since = op[a].since
                /\ op[a].arg - clock \in Nat /\ op'[a].arg = Ttl(op[a].arg - clock)
      BY <1>0, <1>4, ReadFrame DEF AdminFrame
    <2>2. Pending(a)'
      <3>1. CASE op'[a].at = "idle"
        BY <1>d, <3>1
      <3>2. CASE op'[a].at = "set"
        <4> DEFINE left == op[a].arg - clock
        <4>1. /\ Ttl(left) \in Nat /\ Ttl(left) <= left /\ Ttl(left) > left - Second
              /\ op'[a].arg = Ttl(left) /\ op'[a].id = op[a].id
              /\ op'[a].since = op[a].since
          BY <2>1, <3>2, TtlRoundsDown
        <4>2. /\ op[a].arg = events[op[a].id].expires /\ op[a].arg # Forever
              /\ op[a].since \in Nat /\ op[a].since <= clock /\ op[a].arg \in Nat
          BY <1>4, <1>p, <1>r DEF ReadTtl, Creating
        <4>3. events'[op'[a].id].expires = op[a].arg
          BY <2>1, <4>1, <4>2
        <4>4. /\ op'[a].arg >= 0 /\ op'[a].since + op'[a].arg <= op[a].arg
              /\ clock' + op'[a].arg > op[a].arg - Second
          BY <1>s, <2>1, <4>1, <4>2, BlockAssumption
        <4> QED
          BY <3>2, <4>2, <4>3, <4>4 DEF At
      <3> QED
        BY <2>1, <3>1, <3>2
    <2> QED
      BY <1>0, <1>a, <1>c, <2>1, <2>2 DEF AdminFrame, BlockInv
  <1>5. ASSUME NEW a \in Admin, SetKey(a)
        PROVE  BlockInv'
    <2>1. /\ AdminFrame(a) /\ UNCHANGED events /\ op'[a].at = "idle"
          /\ author' = op[a].id /\ author' \in DOMAIN events
          /\ op[a].arg \in Nat \cup {Forever}
          /\ blockKey' = IF op[a].arg = Forever THEN Forever ELSE clock + op[a].arg
      BY <1>0, <1>5, SetFrame
    <2> DEFINE expires == events[op[a].id].expires
    <2>2. /\ expires \in Nat \cup {Forever} /\ op[a].since \in Nat
          /\ clock <= op[a].since + MaxLag
          /\ expires # Forever => op[a].arg >= 0 /\ op[a].since + op[a].arg <= expires
      BY <1>5, <1>p, <1>r DEF SetKey, Creating
    <2>3. Within(blockKey', expires)
      <3>1. CASE expires = Forever
        BY <3>1 DEF Within
      <3>2. CASE expires # Forever
        <4>1. op[a].arg \in Nat /\ expires \in Nat /\ op[a].since + op[a].arg <= expires
          BY <2>1, <2>2, <3>2 DEF Forever
        <4>2. blockKey' = clock + op[a].arg
          BY <2>1, <4>1 DEF Forever
        <4>3. clock + op[a].arg <= expires + MaxLag /\ clock + op[a].arg >= 0
          BY <1>s, <2>2, <4>1, BlockAssumption
        <4> QED
          BY <4>2, <4>3 DEF Within
      <3> QED
        BY <3>1, <3>2
    <2>4. author' # Tracker
      BY <1>0, <2>1, LenProperties DEF TypeOK, Tracker
    <2>5. BlockJustified'
      BY <2>1, <2>3, <2>4 DEF BlockJustified, Within
    <2> QED
      BY <1>0, <1>c, <1>d, <2>1, <2>5 DEF BlockInv
  <1>6. ASSUME NEW a \in Admin, AdminFrame(a), op'[a].at \notin {"ttl", "set"},
               UNCHANGED <<blockKey, author>> \/ blockKey' = None
        PROVE  BlockInv'
    BY <1>0, <1>6, <1>a, <1>c, <1>d DEF AdminFrame, BlockInv
  <1>7. ASSUME NEW a \in Admin, NEW id \in DOMAIN events, FindEvent(a, id)
        PROVE  BlockInv'
    BY <1>0, <1>6, <1>7, FindFrame
  <1>8. ASSUME NEW a \in Admin, DelKeyOfEntity(a) \/ DelKey(a)
        PROVE  BlockInv'
    BY <1>0, <1>6, <1>8, EntityFrame, DelFrame
  <1>9. ASSUME NEW a \in Admin, MarkUnblocked(a) \/ MarkAllUnblocked(a)
        PROVE  BlockInv'
    BY <1>0, <1>6, <1>9, MarkFrame, MarkAllFrame
  <1>10. ASSUME NEW p \in Process, Crash(p)
         PROVE  BlockInv'
    <2>1. /\ op'[p].at = "idle" /\ Others(p)
          /\ UNCHANGED <<events, blockKey, tracked, author, clock>>
      BY <1>0, <1>10, CrashFrame
    <2>2. RowsKept
      BY <2>1 DEF RowsKept
    <2>3. \A a \in Admin : Pending(a)'
      <3> SUFFICES ASSUME NEW a \in Admin PROVE Pending(a)'
        OBVIOUS
      <3>1. CASE a = p
        BY <1>d, <2>1, <3>1
      <3>2. CASE a # p
        BY <1>b, <2>1, <2>2, <3>2 DEF Others, Process
      <3> QED
        BY <3>1, <3>2
    <2> QED
      BY <1>0, <1>a, <1>q, <2>1, <2>2, <2>3 DEF BlockInv
  <1>11. CASE UNCHANGED vars
    <2>1. RowsKept /\ UNCHANGED <<op, clock, blockKey, tracked, author>>
      BY <1>11 DEF vars, RowsKept
    <2> QED
      BY <1>0, <1>a, <1>b, <1>q, <2>1 DEF BlockInv
  <1> QED
    BY <1>1, <1>2, <1>3, <1>4, <1>5, <1>7, <1>8, <1>9, <1>10, <1>11
       DEF Next, AdminNext, AdminStep

(***************************************************************************)
(* Every variable keeps its type, every call its time, and every block is  *)
(* justified.                                                              *)
(***************************************************************************)
THEOREM BlockInvariant == Spec => []BlockInv
  <1>1. Init => BlockInv
    BY TypeInitial
       DEF Init, BlockInv, PendingHasEvent, BlockJustified, IsBlocked, At, Idle,
           Process
  <1> QED
    BY <1>1, BlockInductive, PTL DEF Spec

(***************************************************************************)
(* The gateway never blocks an IP longer than the tracker decided, or than *)
(* the event its key was set for asks and a late SET adds, whatever        *)
(* interleaves and wherever operations are cut short.                      *)
(***************************************************************************)
THEOREM BlockJustifiedTheorem == Spec => []BlockJustified
  <1>1. BlockInv => BlockJustified
    BY DEF BlockInv
  <1> QED
    BY <1>1, BlockInvariant, PTL

(***************************************************************************)
(* As long as no event is ended while it is being created, no ghost block  *)
(* arises.                                                                 *)
(***************************************************************************)
LEMMA GhostInductive == GhostInv /\ [Next]_vars => GhostInv'
  <1> SUFFICES ASSUME GhostInv, [Next]_vars, ~raced'
               PROVE  PendingIsActive' /\ UnblockedIsFree'
    BY TypeInductive DEF GhostInv
  <1>0. TypeOK
    BY DEF GhostInv
  <1>00. raced => raced'
    BY DEF Next, vars, Tick, Throttle, RequestStep, Expire, Set429, Del429,
           AdminNext, AdminStep, Create, ReadTtl, SetKey, FindEvent, DelKey,
           MarkUnblocked, DelKeyOfEntity, EndAll, MarkAllUnblocked, Crash
  <1>01. PendingIsActive /\ UnblockedIsFree
    BY <1>00 DEF GhostInv
  <1> DEFINE Active(a) == Creating(a) =>
               /\ ~events[op[a].id].unblocked
               /\ \A b \in Admin :
                    /\ ~At(b, "markAll")
                    /\ At(b, "delById") \/ At(b, "mark") => op[b].id # op[a].id
                    /\ b # a /\ Creating(b) => op[b].id # op[a].id
             Ends(b) == /\ At(b, "markAll") /\ IsBlocked => author = Tracker
                        /\ At(b, "mark") /\ IsBlocked => author # op[b].id
  <1>02. \A a \in Admin : Active(a) /\ Ends(a)
    BY <1>01 DEF PendingIsActive
  <1>q. ASSUME \A a \in Admin : Active(a)' /\ Ends(a)'
        PROVE  PendingIsActive'
    BY <1>q DEF PendingIsActive, At, Creating, IsBlocked
  \* A step that sets no key and marks no row.
  <1>a. ASSUME UNCHANGED events, UNCHANGED <<blockKey, author>> \/ blockKey' = None
                                 \/ author' = Tracker
        PROVE  UnblockedIsFree'
    BY <1>a, <1>01 DEF UnblockedIsFree, IsBlocked
  <1>b. ASSUME UNCHANGED events, UNCHANGED <<blockKey, author>> \/ blockKey' = None
                                 \/ author' = Tracker,
               \A a \in Admin : op'[a] = op[a] \/ op'[a].at = "idle"
        PROVE  PendingIsActive'
    <2>1. \A b \in Admin : Ends(b)'
      <3> SUFFICES ASSUME NEW b \in Admin, op'[b] = op[b] PROVE Ends(b)'
        BY <1>b DEF At
      <3>1. \A i \in DOMAIN events : i # Tracker
        BY <1>0, LenProperties DEF TypeOK, Tracker
      <3>2. At(b, "mark") => op[b].id # Tracker
        BY <1>0, <3>1 DEF TypeOK
      <3> QED
        BY <1>b, <1>02, <3>2 DEF At, IsBlocked
    <2>2. \A a \in Admin : Active(a)'
      BY <1>b, <1>02 DEF At, Creating
    <2> QED
      BY <1>q, <2>1, <2>2
  <1>1. CASE Tick
    <2>1. UNCHANGED <<events, op, author>> /\ (UNCHANGED blockKey \/ blockKey' = None)
      BY <1>1 DEF Tick
    <2> QED
      BY <1>a, <1>b, <2>1
  <1>2. ASSUME NEW r \in Request, Throttle(r) \/ RequestStep(r)
        PROVE  PendingIsActive' /\ UnblockedIsFree'
    <2>1. (\A a \in Admin : op'[a] = op[a]) /\ events' = events
      BY <1>0, <1>2, RequestMoves
    <2>2. UNCHANGED <<blockKey, author>> \/ author' = Tracker
      BY <1>0, <1>2, RequestsBlockJustly
    <2> QED
      BY <1>a, <1>b, <2>1, <2>2
  <1>3. ASSUME NEW a \in Admin, NEW expires \in Expiries, Create(a, expires)
        PROVE  PendingIsActive' /\ UnblockedIsFree'
    <2>1. /\ Others(a) /\ UNCHANGED <<blockKey, author>>
          /\ \A i \in DOMAIN events : events'[i] = events[i]
          /\ op'[a].id \notin DOMAIN events
          /\ ~events'[op'[a].id].unblocked /\ op'[a].at \in {"set", "ttl"}
      BY <1>0, <1>3, CreateFrame DEF AdminFrame
    <2>2. \A b \in Admin : ~At(b, "markAll")
      BY <1>3 DEF Create
    <2>3. \A b \in Admin : b # a => op'[b] = op[b]
      BY <2>1 DEF Others, Process
    <2>4. \A b \in Admin : Creating(b) \/ At(b, "delById") \/ At(b, "mark") =>
            op[b].id \in DOMAIN events
      BY <1>0 DEF TypeOK
    <2>5. \A b \in Admin : Active(b)'
      <3> SUFFICES ASSUME NEW b \in Admin PROVE Active(b)'
        OBVIOUS
      <3>1. CASE b = a
        BY <2>1, <2>2, <2>3, <2>4, <3>1 DEF At, Creating
      <3>2. CASE b # a
        BY <1>02, <2>1, <2>2, <2>3, <2>4, <3>2 DEF At, Creating
      <3> QED
        BY <3>1, <3>2
    <2>6. \A b \in Admin : Ends(b)'
      BY <1>02, <2>1, <2>3 DEF At, IsBlocked
    <2>7. UnblockedIsFree'
      BY <1>0, <1>01, <2>1 DEF UnblockedIsFree, IsBlocked, TypeOK
    <2> QED
      BY <1>q, <2>5, <2>6, <2>7
  <1>4. ASSUME NEW a \in Admin, ReadTtl(a)
        PROVE  PendingIsActive' /\ UnblockedIsFree'
    <2>1. /\ Others(a) /\ UNCHANGED <<blockKey, author, events>> /\ At(a, "ttl")
          /\ op'[a].at = "idle" \/ (op'[a].at = "set" /\ op'[a].id = op[a].id)
      BY <1>0, <1>4, ReadFrame DEF AdminFrame, ReadTtl
    <2>2. \A b \in Admin : b # a => op'[b] = op[b]
      BY <2>1 DEF Others, Process
    <2>3. /\ \A b \in Admin : Creating(b)' => Creating(b) /\ op'[b].id = op[b].id
          /\ \A b \in Admin : At(b, "markAll")' \/ At(b, "delById")' \/ At(b, "mark")' =>
               op'[b] = op[b]
      BY <2>1, <2>2 DEF At, Creating
    <2>4. \A b \in Admin : Active(b)'
      BY <1>02, <2>1, <2>3 DEF At
    <2>5. \A b \in Admin : Ends(b)'
      BY <1>02, <2>1, <2>3 DEF At, IsBlocked
    <2> QED
      BY <1>a, <1>q, <2>1, <2>4, <2>5
  <1>5. ASSUME NEW a \in Admin, SetKey(a)
        PROVE  PendingIsActive' /\ UnblockedIsFree'
    <2>1. /\ Others(a) /\ UNCHANGED events /\ At(a, "set")
          /\ op'[a].at = "idle" /\ author' = op[a].id
      BY <1>0, <1>5, SetFrame DEF AdminFrame, SetKey
    <2>2. \A b \in Admin : b # a => op'[b] = op[b]
      BY <2>1 DEF Others, Process
    <2>3. UnblockedIsFree'
      BY <1>02, <2>1 DEF UnblockedIsFree, Creating
    <2>4. \A b \in Admin : Active(b)'
      BY <1>02, <2>1, <2>2 DEF At, Creating
    <2>5. \A b \in Admin : Ends(b)'
      BY <1>02, <2>1, <2>2 DEF At, Creating
    <2> QED
      BY <1>q, <2>3, <2>4, <2>5
  <1>6. ASSUME NEW a \in Admin, NEW id \in DOMAIN events, FindEvent(a, id)
        PROVE  PendingIsActive' /\ UnblockedIsFree'
    <2>1. /\ Others(a) /\ UNCHANGED <<blockKey, author, events>>
          /\ op'[a].at = "delById" /\ op'[a].id = id
      BY <1>0, <1>6, FindFrame DEF AdminFrame
    <2>2. \A b \in Admin : b # a => op'[b] = op[b]
      BY <2>1 DEF Others, Process
    <2>3. \A b \in Admin : Creating(b) => op[b].id # id
      BY <1>6 DEF FindEvent
    <2>4. \A b \in Admin : Active(b)'
      BY <1>02, <2>1, <2>2, <2>3 DEF At, Creating
    <2>5. \A b \in Admin : Ends(b)'
      BY <1>02, <2>1, <2>2 DEF At, IsBlocked
    <2> QED
      BY <1>a, <1>q, <2>1, <2>4, <2>5
  <1>7. ASSUME NEW a \in Admin, DelKey(a)
        PROVE  PendingIsActive' /\ UnblockedIsFree'
    <2>1. /\ Others(a) /\ UNCHANGED events /\ At(a, "delById")
          /\ op'[a].at = "mark" /\ op'[a].id = op[a].id /\ blockKey' = None
      BY <1>0, <1>7, DelFrame DEF AdminFrame, DelKey
    <2>2. \A b \in Admin : b # a => op'[b] = op[b]
      BY <2>1 DEF Others, Process
    <2>4. \A b \in Admin : Active(b)'
      BY <1>02, <2>1, <2>2 DEF At, Creating
    <2>5. \A b \in Admin : Ends(b)'
      BY <2>1 DEF IsBlocked
    <2> QED
      BY <1>a, <1>q, <2>1, <2>4, <2>5
  <1>8. ASSUME NEW a \in Admin, MarkUnblocked(a)
        PROVE  PendingIsActive' /\ UnblockedIsFree'
    <2>1. /\ Others(a) /\ UNCHANGED <<blockKey, author>> /\ At(a, "mark")
          /\ op'[a].at = "idle"
          /\ DOMAIN events' = DOMAIN events
          /\ \A i \in DOMAIN events : i # op[a].id => events'[i] = events[i]
      BY <1>0, <1>8, MarkFrame DEF AdminFrame, MarkUnblocked
    <2>2. \A b \in Admin : b # a => op'[b] = op[b]
      BY <2>1 DEF Others, Process
    <2>3. UnblockedIsFree'
      BY <1>0, <1>01, <1>02, <2>1 DEF UnblockedIsFree, IsBlocked, TypeOK
    <2>4. \A b \in Admin : Active(b)'
      <3>1. \A b \in Admin : Creating(b) => op[b].id \in DOMAIN events /\ op[b].id # op[a].id
        BY <1>0, <1>02, <2>1 DEF TypeOK
      <3> QED
        BY <1>02, <2>1, <2>2, <3>1 DEF At, Creating
    <2>5. \A b \in Admin : Ends(b)'
      BY <1>02, <2>1, <2>2 DEF At, IsBlocked
    <2> QED
      BY <1>q, <2>3, <2>4, <2>5
  <1>9. ASSUME NEW a \in Admin, DelKeyOfEntity(a)
        PROVE  PendingIsActive' /\ UnblockedIsFree'
    <2>1. /\ Others(a) /\ UNCHANGED <<author, events>>
          /\ op'[a].at = "markAll" /\ blockKey' = None
      BY <1>0, <1>9, EntityFrame DEF AdminFrame
    <2>2. \A b \in Admin : b # a => op'[b] = op[b]
      BY <2>1 DEF Others, Process
    <2>3. \A b \in Admin : ~Creating(b)
      BY <1>9 DEF DelKeyOfEntity, EndAll
    <2>4. \A b \in Admin : Active(b)'
      BY <2>1, <2>2, <2>3 DEF At, Creating
    <2>5. \A b \in Admin : Ends(b)'
      BY <2>1 DEF IsBlocked
    <2> QED
      BY <1>a, <1>q, <2>1, <2>4, <2>5
  <1>10. ASSUME NEW a \in Admin, MarkAllUnblocked(a)
         PROVE  PendingIsActive' /\ UnblockedIsFree'
    <2>1. /\ Others(a) /\ UNCHANGED <<blockKey, author>> /\ At(a, "markAll")
          /\ op'[a].at = "idle"
      BY <1>0, <1>10, MarkAllFrame DEF AdminFrame, MarkAllUnblocked
    <2>2. \A b \in Admin : b # a => op'[b] = op[b]
      BY <2>1 DEF Others, Process
    <2>3. UnblockedIsFree'
      BY <1>02, <2>1 DEF UnblockedIsFree, IsBlocked
    <2>4. \A b \in Admin : Active(b)'
      BY <1>02, <2>1, <2>2 DEF At, Creating
    <2>5. \A b \in Admin : Ends(b)'
      BY <1>02, <2>1, <2>2 DEF At, IsBlocked
    <2> QED
      BY <1>q, <2>3, <2>4, <2>5
  <1>11. ASSUME NEW p \in Process, Crash(p)
         PROVE  PendingIsActive' /\ UnblockedIsFree'
    <2>1. /\ op'[p].at = "idle" /\ Others(p) /\ UNCHANGED <<events, blockKey, author>>
      BY <1>0, <1>11, CrashFrame
    <2> QED
      BY <1>a, <1>b, <2>1 DEF Others, Process
  <1>12. CASE UNCHANGED vars
    BY <1>12, <1>a, <1>b DEF vars
  <1> QED
    BY <1>1, <1>2, <1>3, <1>4, <1>5, <1>6, <1>7, <1>8, <1>9, <1>10, <1>11, <1>12
       DEF Next, AdminNext, AdminStep

(***************************************************************************)
(* For any number of administrators, until one of them ends an event that  *)
(* another is still creating, every block that stands is the tracker's or  *)
(* belongs to an event nobody has ended.                                   *)
(***************************************************************************)
THEOREM NoGhostTheorem == Spec => []NoGhostBlock
  <1>1. Init => GhostInv
    BY TypeInitial
       DEF Init, GhostInv, PendingIsActive, UnblockedIsFree, IsBlocked, At, Idle,
           Process, Creating
  <1>2. GhostInv => NoGhostBlock
    BY DEF GhostInv, NoGhostBlock
  <1> QED
    BY <1>1, <1>2, GhostInductive, PTL DEF Spec

(***************************************************************************)
(* Why the only event is enforced: the key carries its expiry, or a call   *)
(* that will set it, or end the event, is under way.                       *)
(***************************************************************************)
Lone ==
    /\ cut \cap {"ttl", "set", "mark", "markAll"} = {} /\ tracked = None
    /\ Len(events) = 1 /\ ~events[1].unblocked
    /\ events[1].expires = Forever \/ events[1].expires >= clock + Second

Enforced ==
    IF events[1].expires = Forever THEN blockKey = Forever
    ELSE blockKey > events[1].expires - Second

Busy(a) == Creating(a) \/ At(a, "mark") \/ At(a, "markAll")

EnforcedInv == Lone => Enforced \/ \E a \in Admin : Busy(a)

\* Every step keeps the only event enforced.
LEMMA EnforcedStep == BlockInv /\ EnforcedInv /\ [Next]_vars => EnforcedInv'
  <1> SUFFICES ASSUME BlockInv, EnforcedInv, [Next]_vars, Lone'
               PROVE  Enforced' \/ \E a \in Admin : Busy(a)'
    BY DEF EnforcedInv
  <1>0. TypeOK /\ PendingHasEvent
    BY DEF BlockInv
  <1>1. Len(events) = 1 => DOMAIN events = {1} /\ events[1].expires \in Nat \cup {Forever}
    <2>1. Len(events) = 1 => DOMAIN events = 1..1 /\ events[1] \in Row
      BY <1>0, ElementOfSeq, LenProperties DEF TypeOK
    <2> QED
      BY <2>1 DEF Row
  <1>2. ASSUME UNCHANGED <<clock, events, tracked, cut>>
        PROVE  Lone
    BY <1>2 DEF Lone
  <1>3. ASSUME Lone, UNCHANGED <<blockKey, events>>,
               \A a \in Admin : Busy(a) => Busy(a)'
        PROVE  Enforced' \/ \E a \in Admin : Busy(a)'
    BY <1>3 DEF EnforcedInv, Enforced
  <1>4. CASE Tick
    <2>1. clock' = clock + 1 /\ clock \in Nat
      BY <1>0, <1>4 DEF Tick, TypeOK
    <2>2. UNCHANGED <<events, op, tracked, cut>>
      BY <1>4 DEF Tick
    <2>3. events[1].expires \in Nat \cup {Forever}
      BY <1>1, <2>2 DEF Lone
    <2>4. events[1].expires = Forever \/ events[1].expires >= clock' + Second
      BY <2>1, <2>2 DEF Lone
    <2>5. Lone
      BY <2>1, <2>2, <2>3, <2>4, BlockAssumption DEF Lone
    <2>6. CASE Enforced
      <3>1. events[1].expires = Forever => blockKey' = Forever
        BY <1>4, <2>6 DEF Enforced, Tick, Forever
      <3>2. events[1].expires # Forever => ~ (blockKey <= clock') /\ blockKey' = blockKey
        <4> SUFFICES ASSUME events[1].expires # Forever
                     PROVE  ~ (blockKey <= clock') /\ blockKey' = blockKey
          OBVIOUS
        <4>1. blockKey > events[1].expires - Second
          BY <2>6 DEF Enforced
        <4>2. events[1].expires \in Nat /\ blockKey \in Int
          BY <1>0, <2>3 DEF TypeOK, None, Forever
        <4>3. ~ (blockKey <= clock')
          BY <2>1, <2>4, <4>1, <4>2, BlockAssumption
        <4> QED
          BY <1>4, <4>3 DEF Tick
      <3> QED
        BY <2>2, <2>6, <3>1, <3>2 DEF Enforced
    <2>7. CASE \E a \in Admin : Busy(a)
      BY <2>2, <2>7 DEF Busy, Creating, At
    <2> QED
      BY <2>5, <2>6, <2>7 DEF EnforcedInv
  <1>5. ASSUME NEW r \in Request, Throttle(r) \/ RequestStep(r)
        PROVE  Enforced' \/ \E a \in Admin : Busy(a)'
    <2>1. (\A a \in Admin : op'[a] = op[a]) /\ UNCHANGED <<events, clock, cut>>
      BY <1>0, <1>5, RequestMoves
    <2>2. UNCHANGED <<blockKey, tracked>>
      BY <1>0, <1>5, RequestsBlockJustly DEF Lone
    <2>3. \A a \in Admin : Busy(a) => Busy(a)'
      BY <2>1 DEF Busy, Creating, At
    <2> QED
      BY <1>2, <1>3, <2>1, <2>2, <2>3
  <1>6. ASSUME NEW a \in Admin, NEW expires \in Expiries, Create(a, expires)
        PROVE  Busy(a)'
    BY <1>0, <1>6, CreateFrame DEF Busy, Creating, At
  <1>7. ASSUME NEW a \in Admin, ReadTtl(a)
        PROVE  Enforced' \/ \E b \in Admin : Busy(b)'
    <2>1. /\ UNCHANGED <<events, clock, tracked, cut>> /\ At(a, "ttl")
          /\ op'[a].at = "set" \/ op[a].arg - clock < Second
      BY <1>0, <1>7, ReadFrame DEF AdminFrame, ReadTtl
    <2>2. Lone
      BY <1>2, <2>1
    <2>3. op[a].id = 1
      BY <1>0, <1>1, <2>1, <2>2 DEF Lone, TypeOK, Creating
    <2>4. op[a].arg = events[1].expires /\ op[a].arg # Forever
      BY <1>0, <2>1, <2>3 DEF PendingHasEvent
    <2>5. ~(op[a].arg - clock < Second)
      <3>1. op[a].arg \in Nat /\ clock \in Nat /\ op[a].arg >= clock + Second
        BY <1>0, <1>1, <2>2, <2>4 DEF Lone, TypeOK
      <3> QED
        BY <3>1, BlockAssumption
    <2> QED
      BY <2>1, <2>5 DEF Busy, Creating, At
  <1>8. ASSUME NEW a \in Admin, SetKey(a)
        PROVE  Enforced'
    <2>1. /\ UNCHANGED <<events, clock, tracked, cut>> /\ At(a, "set")
          /\ op[a].arg \in Nat \cup {Forever}
          /\ blockKey' = IF op[a].arg = Forever THEN Forever ELSE clock + op[a].arg
      BY <1>0, <1>8, SetFrame DEF AdminFrame, SetKey
    <2>2. Lone
      BY <1>2, <2>1
    <2>3. op[a].id = 1
      BY <1>0, <1>1, <2>1, <2>2 DEF Lone, TypeOK, Creating
    <2>4. /\ events[1].expires = Forever => op[a].arg = Forever
          /\ events[1].expires # Forever =>
               op[a].arg >= 0 /\ clock + op[a].arg > events[1].expires - Second
      BY <1>0, <2>1, <2>3 DEF PendingHasEvent
    <2> QED
      BY <2>1, <2>4 DEF Enforced, Forever
  <1>9. ASSUME NEW a \in Admin, NEW id \in DOMAIN events, FindEvent(a, id)
        PROVE  Enforced' \/ \E b \in Admin : Busy(b)'
    <2>1. Others(a) /\ UNCHANGED <<blockKey, events, clock, tracked, cut>> /\ ~Busy(a)
      BY <1>0, <1>9, FindFrame DEF AdminFrame, FindEvent, Busy, Creating, At
    <2>2. \A b \in Admin : Busy(b) => Busy(b)'
      BY <2>1 DEF Others, Process, Busy, Creating, At
    <2> QED
      BY <1>2, <1>3, <2>1, <2>2
  <1>10. ASSUME NEW a \in Admin, DelKey(a) \/ DelKeyOfEntity(a)
        PROVE  Busy(a)'
    BY <1>0, <1>10, DelFrame, EntityFrame DEF Busy, At
  <1>11. ASSUME NEW a \in Admin, MarkUnblocked(a) \/ MarkAllUnblocked(a)
         PROVE  FALSE
    <2>1. /\ DOMAIN events' = DOMAIN events /\ Len(events') = Len(events)
          /\ \/ op[a].id \in DOMAIN events /\ events'[op[a].id].unblocked
             \/ \A i \in DOMAIN events : events'[i].unblocked
      BY <1>0, <1>11, MarkFrame, MarkAllFrame
    <2> QED
      BY <1>1, <2>1 DEF Lone
  <1>12. ASSUME NEW p \in Process, Crash(p)
         PROVE  Enforced' \/ \E b \in Admin : Busy(b)'
    <2>1. /\ Others(p) /\ cut' = cut \cup {op[p].at}
          /\ UNCHANGED <<clock, events, tracked, blockKey>>
      BY <1>0, <1>12, CrashFrame
    <2>2. ~Busy(p) /\ Lone
      BY <2>1 DEF Lone, Busy, Creating, At
    <2>3. \A b \in Admin : Busy(b) => Busy(b)'
      BY <2>1, <2>2 DEF Others, Process, Busy, Creating, At
    <2> QED
      BY <1>3, <2>1, <2>2, <2>3
  <1>13. CASE UNCHANGED vars
    <2>1. \A b \in Admin : Busy(b) => Busy(b)'
      BY <1>13 DEF vars, Busy, Creating, At
    <2> QED
      BY <1>2, <1>3, <1>13, <2>1 DEF vars
  <1> QED
    BY <1>4, <1>5, <1>6, <1>7, <1>8, <1>9, <1>10, <1>11, <1>12, <1>13
       DEF Next, AdminNext, AdminStep

(***************************************************************************)
(* The only event of an IP is enforced to its last second, whatever calls  *)
(* created and left it (blocked-events.service.ts:19-110), unless one that *)
(* creates or ends events was cut short or the tracker wrote the same key. *)
(***************************************************************************)
THEOREM LoneEventTheorem == Spec => []LoneEventIsEnforced
  <1>1. Init => EnforcedInv
    BY DEF Init, EnforcedInv, Lone
  <1>2. BlockInv /\ EnforcedInv => LoneEventIsEnforced
    <2> SUFFICES ASSUME BlockInv, EnforcedInv, Quiet, Lone
                 PROVE  blockKey # None
      BY DEF LoneEventIsEnforced, Lone, IsBlocked
    <2>1. Enforced
      BY DEF EnforcedInv, Quiet, Busy, Creating, At, Process
    <2>2. events[1] \in Row /\ clock \in Nat
      BY ElementOfSeq, LenProperties DEF BlockInv, TypeOK, Lone
    <2>3. CASE events[1].expires = Forever
      BY <2>1, <2>3 DEF Enforced, None, Forever
    <2>4. CASE events[1].expires # Forever
      BY <2>1, <2>2, <2>4, BlockAssumption DEF Enforced, Lone, Row, None
    <2> QED
      BY <2>3, <2>4
  <1>3. EnforcedInv /\ []BlockInv /\ [][Next]_vars => []EnforcedInv
    BY EnforcedStep, PTL
  <1> QED
    BY <1>1, <1>2, <1>3, BlockInvariant, PTL DEF Spec

(***************************************************************************)
(* Why a block needs a burst: the counter counts no reply from before a    *)
(* call that still has to EXPIRE it began, and none from before its window *)
(* and the delay of that EXPIRE; a request remembers at most as many.      *)
(***************************************************************************)
HitsSince(t) == {h \in hits : h.at >= t}
Horizon(t) == t + 1 - WindowSeconds - MaxLag

TtlInv ==
    /\ \A h \in hits : h.n <= Cardinality(hits)
    /\ counter = 0 => counterTtl = None
    /\ counterTtl # None => clock < counterTtl /\ counterTtl <= clock + WindowSeconds

CountedInv ==
    /\ counter > 0 /\ counterTtl = None => \E r \in Request : At(r, "expire")
    /\ counterTtl # None => counter <= Cardinality(HitsSince(counterTtl - WindowSeconds - MaxLag))
    /\ \A r \in Request : At(r, "expire") => counter <= Cardinality(HitsSince(op[r].since))
    /\ \A r \in Request : At(r, "expire") \/ At(r, "set429") =>
         op[r].arg \in Nat /\ op[r].arg <= Cardinality(HitsSince(Horizon(op[r].since)))
    /\ \A r \in Request : At(r, "set429") => op[r].arg >= Max429

BurstInv == TtlInv /\ ("expire" \notin cut => CountedInv)

\* Fewer hits the later one starts to count; all sets of hits are finite.
LEMMA HitsCounted ==
  ASSUME TypeOK
  PROVE  /\ IsFiniteSet(hits) /\ Cardinality(hits) \in Nat
         /\ \A t \in Int : IsFiniteSet(HitsSince(t)) /\ Cardinality(HitsSince(t)) \in Nat
         /\ \A s, t \in Int : s <= t => Cardinality(HitsSince(t)) <= Cardinality(HitsSince(s))
  <1>1. IsFiniteSet(hits) /\ \A h \in hits : h.at \in Nat
    BY DEF TypeOK
  <1>2. \A t \in Int : HitsSince(t) \subseteq hits
    BY DEF HitsSince
  <1>3. \A t \in Int : IsFiniteSet(HitsSince(t)) /\ Cardinality(HitsSince(t)) \in Nat
    BY <1>1, <1>2, FS_Subset, FS_CardinalityType
  <1>4. ASSUME NEW s \in Int, NEW t \in Int, s <= t
        PROVE  Cardinality(HitsSince(t)) <= Cardinality(HitsSince(s))
    <2>1. HitsSince(t) \subseteq HitsSince(s)
      BY <1>1, <1>4 DEF HitsSince
    <2> QED
      BY <1>3, <2>1, FS_Subset
  <1> QED
    BY <1>1, <1>3, <1>4, FS_CardinalityType

\* When a call under way began.
LEMMA BegunRecently ==
  ASSUME TypeOK, NEW r \in Request, At(r, "expire") \/ At(r, "set429")
  PROVE  /\ op[r].since \in Nat /\ clock \in Nat /\ r \in Process
         /\ op[r].since <= clock /\ clock - MaxLag <= op[r].since
         /\ Horizon(op[r].since) \in Int
  <1>1. r \in Process /\ ~At(r, "idle")
    BY DEF At, Process
  <1>2. /\ op[r].since \in Nat /\ clock \in Nat
        /\ op[r].since <= clock /\ clock <= op[r].since + MaxLag
    BY <1>1 DEF TypeOK, Call
  <1> QED
    BY <1>1, <1>2, BlockAssumption DEF Horizon

\* What the counter counts is recent.
LEMMA CounterIsRecent ==
  ASSUME TypeOK, TtlInv, CountedInv
  PROVE  counter <= Cardinality(HitsSince(Horizon(clock)))
  <1>1. clock \in Nat /\ counter \in Nat /\ counterTtl \in Nat \cup {None} /\ Horizon(clock) \in Int
    BY BlockAssumption DEF TypeOK, Horizon
  <1>2. CASE counter = 0
    BY <1>1, <1>2, HitsCounted
  <1>3. CASE counter # 0 /\ counterTtl = None
    <2>1. PICK r \in Request : At(r, "expire")
      BY <1>1, <1>3 DEF CountedInv
    <2>2. /\ op[r].since \in Nat /\ clock - MaxLag <= op[r].since
          /\ counter <= Cardinality(HitsSince(op[r].since))
      BY <2>1, BegunRecently DEF CountedInv
    <2>3. Horizon(clock) <= op[r].since
      BY <1>1, <2>2, BlockAssumption DEF Horizon
    <2>4. /\ Cardinality(HitsSince(op[r].since)) <= Cardinality(HitsSince(Horizon(clock)))
          /\ Cardinality(HitsSince(op[r].since)) \in Nat
          /\ Cardinality(HitsSince(Horizon(clock))) \in Nat
      BY <1>1, <2>2, <2>3, HitsCounted
    <2> QED
      BY <1>1, <2>2, <2>4
  <1>4. CASE counter # 0 /\ counterTtl # None
    <2> DEFINE start == counterTtl - WindowSeconds - MaxLag
    <2>1. start \in Int /\ counter <= Cardinality(HitsSince(start)) /\ Horizon(clock) <= start
      BY <1>1, <1>4, BlockAssumption DEF Horizon, CountedInv, TtlInv
    <2>2. /\ Cardinality(HitsSince(start)) <= Cardinality(HitsSince(Horizon(clock)))
          /\ Cardinality(HitsSince(start)) \in Nat
          /\ Cardinality(HitsSince(Horizon(clock))) \in Nat
      BY <1>1, <2>1, HitsCounted
    <2> QED
      BY <1>1, <2>1, <2>2
  <1> QED
    BY <1>2, <1>3, <1>4

\* A step that leaves the counter and the hits alone.
LEMMA BurstStays ==
  ASSUME TypeOK, BurstInv, UNCHANGED <<counter, counterTtl, hits>>, cut \subseteq cut',
         TtlInv',
         \A r \in Request : \/ op'[r] = op[r]
                            \/ /\ op'[r].at \notin {"expire", "set429"}
                               /\ At(r, "expire") => "expire" \in cut'
  PROVE  BurstInv'
  <1>1. SUFFICES ASSUME "expire" \notin cut' PROVE CountedInv'
    BY DEF BurstInv
  <1>2. CountedInv
    BY <1>1 DEF BurstInv
  <1>3. \A t : HitsSince(t)' = HitsSince(t)
    BY DEF HitsSince
  <1>4. \A r \in Request : /\ At(r, "expire") => op'[r] = op[r]
                           /\ At(r, "expire")' \/ At(r, "set429")' => op'[r] = op[r]
    BY <1>1 DEF At
  <1>5. counter' > 0 /\ counterTtl' = None => \E r \in Request : At(r, "expire")'
    BY <1>2, <1>4 DEF CountedInv, At
  <1>6. counterTtl' # None =>
          counter' <= Cardinality(HitsSince(counterTtl - WindowSeconds - MaxLag))
    BY <1>2 DEF CountedInv
  <1>7. \A r \in Request : At(r, "expire")' => counter' <= Cardinality(HitsSince(op'[r].since))
    BY <1>2, <1>4 DEF CountedInv, At
  <1>8. \A r \in Request : At(r, "expire")' \/ At(r, "set429")' =>
          op'[r].arg \in Nat /\ op'[r].arg <= Cardinality(HitsSince(Horizon(op'[r].since)))
    BY <1>2, <1>4 DEF CountedInv, At
  <1>9. \A r \in Request : At(r, "set429")' => op'[r].arg >= Max429
    BY <1>2, <1>4 DEF CountedInv, At
  <1>10. HitsSince(counterTtl - WindowSeconds - MaxLag) = HitsSince(counterTtl - WindowSeconds - MaxLag)'
    BY DEF HitsSince
  <1>11. \A r \in Request : /\ HitsSince(op[r].since)' = {h \in hits : h.at >= op'[r].since}
                            /\ HitsSince(Horizon(op[r].since))' = {h \in hits : h.at >= Horizon(op'[r].since)}
    BY DEF HitsSince, Horizon
  <1> QED
    BY <1>5, <1>6, <1>7, <1>8, <1>9, <1>10, <1>11 DEF CountedInv, HitsSince

\* A throttled request counts.
LEMMA ThrottleBurst ==
  ASSUME TypeOK, BurstInv, NEW r \in Request, Throttle(r)
  PROVE  BurstInv'
  <1> DEFINE new == [n |-> Cardinality(hits) + 1, at |-> clock]
  <1>1. /\ counter' = counter + 1 /\ hits' = hits \cup {new} /\ counter \in Nat
        /\ UNCHANGED <<clock, counterTtl, cut>> /\ clock \in Nat
        /\ counterTtl \in Nat \cup {None}
    BY DEF Throttle, TypeOK
  <1>2. TtlInv /\ IsFiniteSet(hits) /\ Cardinality(hits) \in Nat
    BY HitsCounted DEF BurstInv
  <1>3. r \in Process /\ {"idle", "expire", "set429"} \subseteq Steps
    BY DEF Process, Steps
  <1>4. new.at = clock /\ new.n = Cardinality(hits) + 1
    OBVIOUS
  <1> HIDE DEF new
  <1>5. new \notin hits
    BY <1>2, <1>4 DEF TtlInv, TypeOK
  <1>6. Cardinality(hits') = Cardinality(hits) + 1
    BY <1>1, <1>2, <1>5, FS_AddElement
  <1>7. /\ Others(r)
        /\ \/ /\ counter' = 1 /\ op'[r].at = "expire" /\ op'[r].arg = counter'
              /\ op'[r].since = clock
           \/ /\ counter' # 1 /\ op'[r].at = "set429" /\ op'[r].arg = counter'
              /\ counter' >= Max429 /\ op'[r].since = clock
           \/ counter' # 1 /\ op'[r].at = "idle"
    <2>1. 0 \in Nat /\ 1 \in Nat \cup {Forever} /\ counter' \in Nat \cup {Forever}
      BY <1>1
    <2>2. \/ counter' = 1 /\ Begin(r, "expire", 0, 1)
          \/ counter' # 1 /\ counter' >= Max429 /\ Begin(r, "set429", 0, counter')
          \/ counter' # 1 /\ Done(r)
      BY DEF Throttle, MustBlock
    <2> QED
      BY <1>3, <2>1, <2>2, Begins, Finishes
  <1>8. TtlInv'
    <2>1. \A h \in hits' : h.n <= Cardinality(hits')
      BY <1>1, <1>2, <1>4, <1>6 DEF TtlInv, TypeOK
    <2> QED
      BY <1>1, <1>2, <2>1 DEF TtlInv
  <1>9. \A t \in Int : /\ IsFiniteSet(HitsSince(t)) /\ Cardinality(HitsSince(t)) \in Nat
                       /\ t <= clock => Cardinality({h \in hits' : h.at >= t}) = Cardinality(HitsSince(t)) + 1
                       /\ Cardinality({h \in hits' : h.at >= t}) \in Nat
                       /\ Cardinality({h \in hits' : h.at >= t}) >= Cardinality(HitsSince(t))
    <2> SUFFICES ASSUME NEW t \in Int
                 PROVE  /\ IsFiniteSet(HitsSince(t)) /\ Cardinality(HitsSince(t)) \in Nat
                        /\ t <= clock => Cardinality({h \in hits' : h.at >= t}) = Cardinality(HitsSince(t)) + 1
                        /\ Cardinality({h \in hits' : h.at >= t}) \in Nat
                        /\ Cardinality({h \in hits' : h.at >= t}) >= Cardinality(HitsSince(t))
      OBVIOUS
    <2>1. IsFiniteSet(HitsSince(t)) /\ Cardinality(HitsSince(t)) \in Nat /\ new \notin HitsSince(t)
      BY <1>5, HitsCounted DEF HitsSince
    <2>2. CASE t <= clock
      <3>1. {h \in hits' : h.at >= t} = HitsSince(t) \cup {new}
        BY <1>1, <1>4, <2>2 DEF HitsSince
      <3>2. Cardinality(HitsSince(t) \cup {new}) = Cardinality(HitsSince(t)) + 1
        BY <2>1, FS_AddElement
      <3> QED
        BY <2>1, <3>1, <3>2
    <2>3. CASE ~(t <= clock)
      <3>1. {h \in hits' : h.at >= t} = HitsSince(t)
        BY <1>1, <1>4, <2>3 DEF HitsSince
      <3> QED
        BY <2>1, <2>3, <3>1
    <2> QED
      BY <2>1, <2>2, <2>3
  <1>10. ASSUME "expire" \notin cut' PROVE CountedInv'
    <2>1. CountedInv
      BY <1>1, <1>10 DEF BurstInv
    <2>2. \A q \in Request : At(q, "expire") \/ At(q, "set429") =>
            /\ q # r /\ op'[q] = op[q]
            /\ op[q].since \in Nat /\ op[q].since <= clock /\ Horizon(op[q].since) \in Int
      BY <1>7, BegunRecently DEF Throttle, At, Others
    <2>3. counter' > 0 /\ counterTtl' = None => \E q \in Request : At(q, "expire")'
      <3>1. CASE counter' = 1
        BY <1>7, <3>1 DEF At
      <3>2. CASE counter' # 1 /\ counterTtl = None
        <4>1. PICK q \in Request : At(q, "expire")
          BY <1>1, <2>1, <3>2 DEF CountedInv
        <4> QED
          BY <2>2, <4>1 DEF At
      <3> QED
        BY <1>1, <3>1, <3>2
    <2>4. counterTtl' # None =>
            counter' <= Cardinality({h \in hits' : h.at >= counterTtl' - WindowSeconds - MaxLag})
      <3> SUFFICES ASSUME counterTtl # None
                   PROVE  counter' <= Cardinality({h \in hits' : h.at >= counterTtl - WindowSeconds - MaxLag})
        BY <1>1
      <3> DEFINE start == counterTtl - WindowSeconds - MaxLag
      <3>1. start \in Int /\ start <= clock
        BY <1>1, <1>2, BlockAssumption DEF TtlInv
      <3>2. counter <= Cardinality(HitsSince(start))
        BY <2>1 DEF CountedInv
      <3> QED
        BY <1>1, <1>9, <3>1, <3>2
    <2>5. \A q \in Request : At(q, "expire")' =>
            counter' <= Cardinality({h \in hits' : h.at >= op'[q].since})
      <3> SUFFICES ASSUME NEW q \in Request, At(q, "expire")'
                   PROVE  counter' <= Cardinality({h \in hits' : h.at >= op'[q].since})
        OBVIOUS
      <3>1. CASE q = r
        <4>1. counter' = 1 /\ op'[r].since = clock
          BY <1>7, <3>1 DEF At
        <4>2. Cardinality({h \in hits' : h.at >= clock}) = Cardinality(HitsSince(clock)) + 1
              /\ Cardinality(HitsSince(clock)) \in Nat
          BY <1>1, <1>9
        <4> QED
          BY <3>1, <4>1, <4>2
      <3>2. CASE q # r
        <4>1. op'[q] = op[q] /\ At(q, "expire")
          BY <1>7, <3>2 DEF At, Others, Process
        <4>2. op[q].since \in Int /\ op[q].since <= clock
              /\ counter <= Cardinality(HitsSince(op[q].since))
          BY <2>1, <2>2, <4>1 DEF CountedInv
        <4> QED
          BY <1>1, <1>9, <4>1, <4>2
      <3> QED
        BY <3>1, <3>2
    <2>6. \A q \in Request : At(q, "expire")' \/ At(q, "set429")' =>
            /\ op'[q].arg \in Nat
            /\ op'[q].arg <= Cardinality({h \in hits' : h.at >= Horizon(op'[q].since)})
      <3> SUFFICES ASSUME NEW q \in Request, At(q, "expire")' \/ At(q, "set429")'
                   PROVE  /\ op'[q].arg \in Nat
                          /\ op'[q].arg <= Cardinality({h \in hits' : h.at >= Horizon(op'[q].since)})
        OBVIOUS
      <3>1. CASE q = r
        <4>1. op'[q].arg = counter + 1 /\ op'[q].since = clock
          BY <1>1, <1>7, <3>1 DEF At
        <4>2. Horizon(clock) \in Int /\ Horizon(clock) <= clock
          BY <1>1, BlockAssumption DEF Horizon
        <4>3. counter <= Cardinality(HitsSince(Horizon(clock)))
          BY <1>2, <2>1, CounterIsRecent
        <4>4. /\ Cardinality({h \in hits' : h.at >= Horizon(clock)}) = Cardinality(HitsSince(Horizon(clock))) + 1
              /\ Cardinality(HitsSince(Horizon(clock))) \in Nat
          BY <1>9, <4>2
        <4> QED
          BY <1>1, <4>1, <4>3, <4>4
      <3>2. CASE q # r
        <4>1. op'[q] = op[q] /\ (At(q, "expire") \/ At(q, "set429"))
          BY <1>7, <3>2 DEF At, Others, Process
        <4>2. /\ Horizon(op[q].since) \in Int /\ op[q].arg \in Nat
              /\ op[q].arg <= Cardinality(HitsSince(Horizon(op[q].since)))
          BY <2>1, <2>2, <4>1 DEF CountedInv
        <4>3. /\ Cardinality({h \in hits' : h.at >= Horizon(op[q].since)}) >= Cardinality(HitsSince(Horizon(op[q].since)))
              /\ Cardinality({h \in hits' : h.at >= Horizon(op[q].since)}) \in Nat
              /\ Cardinality(HitsSince(Horizon(op[q].since))) \in Nat
          BY <1>9, <4>2
        <4> QED
          BY <4>1, <4>2, <4>3
      <3> QED
        BY <3>1, <3>2
    <2>7. \A q \in Request : At(q, "set429")' => op'[q].arg >= Max429
      BY <1>7, <2>1 DEF CountedInv, At, Others, Process
    <2> QED
      BY <2>3, <2>4, <2>5, <2>6, <2>7 DEF CountedInv, HitsSince, Horizon
  <1> QED
    BY <1>8, <1>10 DEF BurstInv

\* The counter gets its TTL.
LEMMA ExpireBurst ==
  ASSUME TypeOK, BurstInv, NEW r \in Request, Expire(r)
  PROVE  BurstInv'
  <1>1. /\ UNCHANGED <<clock, counter, hits, cut>> /\ clock \in Nat /\ counter \in Nat
        /\ counterTtl' = IF counter > 0 THEN clock + WindowSeconds ELSE counterTtl
        /\ TtlInv /\ At(r, "expire")
    BY DEF Expire, TypeOK, BurstInv
  <1>2. counter > 0 \/ (counter = 0 /\ counterTtl = None /\ counterTtl' = None)
    BY <1>1 DEF TtlInv
  <1>3. /\ r \in Process /\ {"idle", "set429"} \subseteq Steps
        /\ op[r].arg \in Nat \cup {Forever}
    BY DEF Process, Steps, TypeOK, Call
  <1>4. /\ Others(r)
        /\ \/ /\ op'[r].at = "set429" /\ op'[r].arg = op[r].arg
              /\ op[r].arg >= Max429 /\ op'[r].since = op[r].since
           \/ op'[r].at = "idle"
    <2>1. \/ op[r].arg >= Max429 /\ Goto(r, "set429", op[r].arg)
          \/ Done(r)
      BY DEF Expire, AfterExpire, MustBlock
    <2> QED
      BY <1>3, <2>1, Moves, Finishes
  <1>5. TtlInv'
    <2>1. CASE counter > 0
      <3>1. clock' < counterTtl' /\ counterTtl' <= clock' + WindowSeconds /\ counter' # 0
        BY <1>1, <2>1, BlockAssumption
      <3> QED
        BY <1>1, <3>1 DEF TtlInv
    <2>2. CASE counter = 0 /\ counterTtl' = None
      BY <1>1, <2>2 DEF TtlInv
    <2> QED
      BY <1>2, <2>1, <2>2
  <1>6. ASSUME "expire" \notin cut' PROVE CountedInv'
    <2>1. CountedInv
      BY <1>1, <1>6 DEF BurstInv
    <2>2. ~(counter' > 0 /\ counterTtl' = None)
      BY <1>1, BlockAssumption DEF None
    <2>3. counterTtl' # None =>
            counter' <= Cardinality(HitsSince(counterTtl' - WindowSeconds - MaxLag))
      <3> SUFFICES ASSUME counterTtl' # None
                   PROVE  counter <= Cardinality(HitsSince(counterTtl' - WindowSeconds - MaxLag))
        BY <1>1
      <3>1. counterTtl' - WindowSeconds - MaxLag = clock - MaxLag /\ clock - MaxLag \in Int
        BY <1>1, <1>2, BlockAssumption
      <3>2. op[r].since \in Int /\ clock - MaxLag <= op[r].since
        BY <1>1, BegunRecently
      <3>3. counter <= Cardinality(HitsSince(op[r].since))
        BY <1>1, <2>1 DEF CountedInv
      <3>4. /\ Cardinality(HitsSince(op[r].since)) <= Cardinality(HitsSince(clock - MaxLag))
            /\ Cardinality(HitsSince(op[r].since)) \in Nat
            /\ Cardinality(HitsSince(clock - MaxLag)) \in Nat
        BY <3>1, <3>2, HitsCounted
      <3> QED
        BY <1>1, <3>1, <3>3, <3>4
    <2>4. \A q \in Request : q # r => op'[q] = op[q]
      BY <1>4 DEF Others, Process
    <2>5. \A q \in Request : At(q, "expire")' => op'[q] = op[q] /\ At(q, "expire")
      BY <1>4, <2>4 DEF At
    <2>6. \A q \in Request : At(q, "set429")' =>
            /\ op'[q].arg = op[q].arg /\ op'[q].since = op[q].since
            /\ At(q, "expire") \/ At(q, "set429")
            /\ op'[q].arg >= Max429
      BY <1>1, <1>4, <2>1, <2>4 DEF At, CountedInv
    <2>7. \A q \in Request : At(q, "expire")' =>
            counter' <= Cardinality({h \in hits' : h.at >= op'[q].since})
      BY <1>1, <2>1, <2>5 DEF CountedInv, HitsSince
    <2>8. \A q \in Request : At(q, "expire")' \/ At(q, "set429")' =>
            /\ op'[q].arg \in Nat
            /\ op'[q].arg <= Cardinality({h \in hits' : h.at >= Horizon(op'[q].since)})
      BY <1>1, <2>1, <2>5, <2>6 DEF CountedInv, HitsSince
    <2>9. counterTtl' # None =>
            counter' <= Cardinality({h \in hits' : h.at >= counterTtl' - WindowSeconds - MaxLag})
      BY <1>1, <2>3 DEF HitsSince
    <2> QED
      BY <2>2, <2>6, <2>7, <2>8, <2>9 DEF CountedInv, HitsSince, Horizon
  <1> QED
    BY <1>5, <1>6 DEF BurstInv

\* The counter is deleted, or its time is up.
LEMMA CounterGone ==
  ASSUME TypeOK, BurstInv, counter' = 0, counterTtl' = None, UNCHANGED <<hits, cut>>,
         \A r \in Request : op'[r] = op[r] \/ op'[r].at = "idle"
  PROVE  BurstInv'
  <1>1. TtlInv'
    BY DEF BurstInv, TtlInv
  <1>2. ASSUME "expire" \notin cut' PROVE CountedInv'
    <2>1. CountedInv
      BY <1>2 DEF BurstInv
    <2>2. \A r \in Request : At(r, "expire")' \/ At(r, "set429")' =>
            /\ op'[r] = op[r]
            /\ At(r, "expire") \/ At(r, "set429")
      BY DEF At
    <2>3. \A r \in Request : At(r, "expire")' =>
            counter' <= Cardinality({h \in hits' : h.at >= op'[r].since})
      <3> SUFFICES ASSUME NEW r \in Request, At(r, "expire")
                   PROVE  0 <= Cardinality(HitsSince(op[r].since))
        BY <2>2 DEF HitsSince, At
      <3>1. op[r].since \in Int
        BY BegunRecently
      <3> QED
        BY <3>1, HitsCounted
    <2>4. \A r \in Request : At(r, "expire")' \/ At(r, "set429")' =>
            /\ op'[r].arg \in Nat
            /\ op'[r].arg <= Cardinality({h \in hits' : h.at >= Horizon(op'[r].since)})
      BY <2>1, <2>2 DEF CountedInv, HitsSince
    <2>5. \A r \in Request : At(r, "set429")' => op'[r].arg >= Max429
      BY <2>1 DEF CountedInv, At
    <2> QED
      BY <2>3, <2>4, <2>5 DEF CountedInv, HitsSince, Horizon
  <1> QED
    BY <1>1, <1>2 DEF BurstInv

\* Every step leaves the counter to what it counts.
LEMMA BurstStep == TypeOK /\ BurstInv /\ [Next]_vars => BurstInv'
  <1> SUFFICES ASSUME TypeOK, BurstInv, [Next]_vars
               PROVE  BurstInv'
    OBVIOUS
  <1>0. TtlInv
    BY DEF BurstInv
  <1>a. ASSUME UNCHANGED <<clock, counter, counterTtl, hits>> PROVE TtlInv'
    BY <1>0, <1>a DEF TtlInv
  <1>1. ASSUME NEW r \in Request, Set429(r) PROVE BurstInv'
    <2>1. r \in Process /\ "del429" \in Steps /\ 0 \in Nat
      BY DEF Process, Steps
    <2>2. op'[r].at = "del429" /\ Others(r)
      BY <1>1, <2>1, Moves DEF Set429
    <2>3. ~At(r, "expire") /\ UNCHANGED <<clock, counter, counterTtl, hits, cut>>
      BY <1>1 DEF Set429, At
    <2> QED
      BY <1>a, <2>2, <2>3, BurstStays DEF Others, Process
  <1>2. ASSUME NEW r \in Request, Del429(r) PROVE BurstInv'
    <2>1. op'[r].at = "idle" /\ Others(r)
      BY <1>2, Finishes DEF Del429, Process
    <2> QED
      BY <1>2, <2>1, CounterGone DEF Del429, Others, Process
  <1>3. CASE Tick
    <2>1. clock' = clock + 1 /\ clock \in Nat /\ UNCHANGED <<op, hits, cut>>
      BY <1>3 DEF Tick, TypeOK
    <2>2. CASE counterTtl # None /\ counterTtl <= clock'
      BY <1>3, <2>1, <2>2, CounterGone DEF Tick
    <2>3. CASE ~(counterTtl # None /\ counterTtl <= clock')
      <3>1. UNCHANGED <<counter, counterTtl>>
        BY <1>3, <2>3 DEF Tick
      <3>2. TtlInv'
        <4>1. counterTtl \in Nat \cup {None}
          BY DEF TypeOK
        <4>2. counterTtl' # None => clock' < counterTtl' /\ counterTtl' <= clock' + WindowSeconds
          BY <1>0, <2>1, <2>3, <3>1, <4>1, BlockAssumption DEF TtlInv
        <4> QED
          BY <1>0, <2>1, <3>1, <4>2 DEF TtlInv
      <3> QED
        BY <2>1, <3>1, <3>2, BurstStays
    <2> QED
      BY <2>2, <2>3
  <1>4. ASSUME NEW a \in Admin, AdminFrame(a) PROVE BurstInv'
    <2>1. \A r \in Request : op'[r] = op[r]
      BY <1>4, BlockAssumption DEF AdminFrame, Others, Process
    <2> QED
      BY <1>a, <1>4, <2>1, BurstStays DEF AdminFrame
  <1>5. ASSUME NEW a \in Admin, AdminNext(a) PROVE AdminFrame(a)
    BY <1>5, CreateFrame, FindFrame, EntityFrame, ReadFrame, SetFrame, DelFrame,
       MarkFrame, MarkAllFrame DEF AdminNext, AdminStep
  <1>6. ASSUME NEW p \in Process, Crash(p) PROVE BurstInv'
    <2>1. /\ op'[p].at = "idle" /\ Others(p) /\ cut' = cut \cup {op[p].at}
          /\ UNCHANGED <<clock, counter, counterTtl, hits>>
      BY <1>6, CrashFrame
    <2>2. \A r \in Request : \/ op'[r] = op[r]
                             \/ /\ op'[r].at \notin {"expire", "set429"}
                                /\ At(r, "expire") => "expire" \in cut'
      BY <2>1 DEF Others, Process, At
    <2> QED
      BY <1>a, <2>1, <2>2, BurstStays
  <1>7. CASE UNCHANGED vars
    BY <1>7, <1>a, BurstStays DEF vars
  <1> QED
    BY <1>1, <1>2, <1>3, <1>4, <1>5, <1>6, <1>7, ThrottleBurst, ExpireBurst
       DEF Next, RequestStep

(***************************************************************************)
(* The tracker blocks only a client that was throttled Max429 times within *)
(* one window and the time its calls take (rate-limit.guard.ts:169-193),   *)
(* however many of its requests interleave, unless a call was cut between  *)
(* INCR and EXPIRE.                                                        *)
(***************************************************************************)
THEOREM BurstTheorem == Spec => BlockNeedsBurst
  <1>1. Init => BurstInv
    <2> SUFFICES ASSUME Init PROVE BurstInv
      OBVIOUS
    <2>1. \A r \in Request : ~At(r, "expire") /\ ~At(r, "set429")
      BY DEF Init, At, Idle, Process
    <2> QED
      BY <2>1 DEF Init, BurstInv, TtlInv, CountedInv
  <1>2. TypeOK /\ BurstInv => \A r \in Request : Set429(r) /\ "expire" \notin cut =>
          Cardinality({h \in hits : h.at > clock - WindowSeconds - 2 * MaxLag}) >= Max429
    <2> SUFFICES ASSUME TypeOK, BurstInv, NEW r \in Request, Set429(r), "expire" \notin cut
                 PROVE  Cardinality({h \in hits : h.at > clock - WindowSeconds - 2 * MaxLag}) >= Max429
      OBVIOUS
    <2> DEFINE first == clock + 1 - WindowSeconds - 2 * MaxLag
    <2>1. /\ op[r].arg \in Nat /\ op[r].arg >= Max429 /\ At(r, "set429")
          /\ op[r].arg <= Cardinality(HitsSince(Horizon(op[r].since)))
      BY DEF BurstInv, CountedInv, Set429
    <2>2. first \in Int /\ Horizon(op[r].since) \in Int /\ first <= Horizon(op[r].since)
      BY <2>1, BegunRecently, BlockAssumption DEF Horizon
    <2>3. /\ Cardinality(HitsSince(Horizon(op[r].since))) <= Cardinality(HitsSince(first))
          /\ Cardinality(HitsSince(Horizon(op[r].since))) \in Nat
          /\ Cardinality(HitsSince(first)) \in Nat
      BY <2>2, HitsCounted
    <2>4. HitsSince(first) = {h \in hits : h.at > clock - WindowSeconds - 2 * MaxLag}
      BY BlockAssumption DEF HitsSince, TypeOK
    <2> HIDE DEF first
    <2>5. Max429 <= Cardinality(HitsSince(first))
      BY <2>1, <2>3, BlockAssumption
    <2> QED
      BY <2>3, <2>4, <2>5, BlockAssumption
  <1>3. BlockInv => TypeOK
    BY DEF BlockInv
  <1>4. BurstInv /\ []TypeOK /\ [][Next]_vars => []BurstInv
    BY BurstStep, PTL
  <1> QED
    BY <1>1, <1>2, <1>3, <1>4, BlockInvariant, PTL DEF Spec, BlockNeedsBurst

=============================================================================
