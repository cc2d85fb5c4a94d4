------------------------------ MODULE IpBlock ------------------------------
(***************************************************************************)
(* The block of one (tenant, ip) pair, as the API keeps it: the Redis key  *)
(* `block:<tenant>:ip:<ip>` that the gateway reads, the blocked_events     *)
(* rows that administrators create and end, and the counter of 429 replies *)
(* that RateLimitGuard escalates to a block.  No operation is a            *)
(* transaction: every Redis or MySQL call is a step of its own, calls of   *)
(* concurrent requests interleave, and an operation whose process dies or  *)
(* whose call rejects is left half done.                                   *)
(***************************************************************************)
EXTENDS Integers, Sequences, FiniteSets

CONSTANTS Request,        \* gateway requests in flight
          Admin,          \* calls of the blocked-events API in flight
          Max429,         \* RATE_LIMIT_429_MAX_COUNT
          WindowSeconds,  \* RATE_LIMIT_429_WINDOW_SECONDS, in ticks
          BlockSeconds,   \* RATE_LIMIT_429_BLOCK_SECONDS, in ticks
          Second,         \* ticks in one second
          MaxLag,         \* the longest a call is under way, in ticks
          Expiries,       \* the expires_at an administrator may give
          MaxTime, MaxHits, MaxEvents, MaxCrashes   \* bounds

None == -1
Forever == -2

ASSUME BlockAssumption ==
    /\ Request \cap Admin = {}
    /\ Max429 \in Nat \ {0} /\ WindowSeconds \in Nat \ {0}
    /\ BlockSeconds \in Nat \ {0} /\ Second \in Nat \ {0} /\ MaxLag \in Nat
    /\ Expiries \subseteq Nat \cup {Forever}
    /\ MaxTime \in Nat /\ MaxHits \in Nat
    /\ MaxEvents \in Nat /\ MaxCrashes \in Nat

VARIABLES clock,     \* time, in ticks
          blockKey,  \* when the block key expires; Forever without TTL; None
          counter,   \* the 429 counter, 0 when the key is absent
          counterTtl,\* when the counter expires, None without TTL
          events,    \* blocked_events rows, by id - 1
          op,        \* op[p]: the next call of p, and what p remembers
          hits,      \* history: the 429 replies
          tracked,   \* history: when the tracker last set the block key
          author,    \* history: the event whose key was set last, or Tracker
          raced,     \* history: some event was ended while it was created
          cut        \* history: the steps at which an operation was cut short

vars == <<clock, blockKey, counter, counterTtl, events, op, hits, tracked,
          author, raced, cut>>

Process == Request \cup Admin
Tracker == 0
Idle == [at |-> "idle", id |-> 0, arg |-> 0, since |-> 0]
Row == [expires : Nat \cup {Forever}, unblocked : BOOLEAN]
Steps == {"idle", "expire", "set429", "del429",
          "ttl", "set", "delById", "mark", "markAll"}
Call == [at : Steps, id : Nat, arg : Nat \cup {Forever}, since : Nat]

At(p, step) == op[p].at = step
\* A call begins, goes on, ends.
Begin(p, step, id, arg) ==
    op' = [op EXCEPT ![p] =
             [at |-> step, id |-> id, arg |-> arg, since |-> clock]]
Goto(p, step, arg) == op' = [op EXCEPT ![p].at = step, ![p].arg = arg]
Done(p) == op' = [op EXCEPT ![p] = Idle]

Creating(a) == At(a, "ttl") \/ At(a, "set")

TypeOK ==
    /\ clock \in 0..MaxTime
    /\ blockKey \in Nat \cup {None, Forever}
    /\ counter \in Nat
    /\ counterTtl \in Nat \cup {None}
    /\ events \in Seq(Row)
    /\ Len(events) <= MaxEvents
    /\ op \in [Process -> Call]
    /\ \A p \in Process : ~At(p, "idle") =>
         op[p].since <= clock /\ clock <= op[p].since + MaxLag
    /\ \A a \in Admin : Creating(a) \/ At(a, "delById") \/ At(a, "mark") =>
         op[a].id \in DOMAIN events
    /\ hits \subseteq [n : Nat, at : 0..clock] /\ IsFiniteSet(hits)
    /\ tracked \in {None} \cup 0..clock
    /\ author \in {Tracker} \cup DOMAIN events
    /\ raced \in BOOLEAN
    /\ cut \subseteq Steps \ {"idle"}

Init ==
    /\ clock = 0 /\ blockKey = None /\ counter = 0 /\ counterTtl = None
    /\ events = <<>> /\ op = [p \in Process |-> Idle]
    /\ hits = {} /\ tracked = None /\ author = Tracker
    /\ raced = FALSE /\ cut = {}

(***************************************************************************)
(* RateLimitGuard.trackRepeated429.                                        *)
(***************************************************************************)
\* Faulty variant: one more 429 than configured is tolerated.
MustBlockLate(count) == count > Max429

MustBlock(count) == count >= Max429

\* A throttled request: INCR of the counter.
Throttle(r) ==
    /\ At(r, "idle") /\ Cardinality(hits) < MaxHits
    /\ counter' = counter + 1
    /\ hits' = hits \cup {[n |-> Cardinality(hits) + 1, at |-> clock]}
    /\ \/ counter' = 1 /\ Begin(r, "expire", 0, 1)
       \/ counter' # 1 /\ MustBlock(counter') /\ Begin(r, "set429", 0, counter')
       \/ counter' # 1 /\ ~MustBlock(counter') /\ Done(r)
    /\ UNCHANGED <<clock, blockKey, counterTtl, events, tracked, author, raced,
                   cut>>

\* Once the counter has its TTL.
AfterExpire(r) ==
    \/ MustBlock(op[r].arg) /\ Goto(r, "set429", op[r].arg)
    \/ ~MustBlock(op[r].arg) /\ Done(r)

\* Faulty variant: the counter never gets its TTL.
ExpireNever(r) ==
    /\ At(r, "expire")
    /\ AfterExpire(r)
    /\ UNCHANGED <<clock, blockKey, counter, counterTtl, events, hits, tracked,
                   author, raced, cut>>

\* EXPIRE of the counter, when the first INCR created it.
Expire(r) ==
    /\ At(r, "expire")
    /\ counterTtl' = IF counter > 0 THEN clock + WindowSeconds ELSE counterTtl
    /\ AfterExpire(r)
    /\ UNCHANGED <<clock, blockKey, counter, events, hits, tracked, author,
                   raced, cut>>

\* SET of the block key with BlockSeconds.
Set429(r) ==
    /\ At(r, "set429")
    /\ blockKey' = clock + BlockSeconds
    /\ tracked' = clock /\ author' = Tracker
    /\ Goto(r, "del429", 0)
    /\ UNCHANGED <<clock, counter, counterTtl, events, hits, raced, cut>>

\* DEL of the counter.
Del429(r) ==
    /\ At(r, "del429")
    /\ counter' = 0 /\ counterTtl' = None
    /\ Done(r)
    /\ UNCHANGED <<clock, blockKey, events, hits, tracked, author, raced, cut>>

(***************************************************************************)
(* BlockedEventsService.                                                   *)
(***************************************************************************)
\* create: the row is saved.
Create(a, expires) ==
    /\ At(a, "idle") /\ Len(events) < MaxEvents
    /\ events' = Append(events, [expires |-> expires, unblocked |-> FALSE])
    /\ Begin(a, IF expires = Forever THEN "set" ELSE "ttl",
             Len(events) + 1, expires)
    /\ raced' = (raced \/ \E b \in Admin : At(b, "markAll"))
    /\ UNCHANGED <<clock, blockKey, counter, counterTtl, hits, tracked, author,
                   cut>>

\* Faulty variant: seconds rounded up.
TtlRoundedUp(ticks) == ((ticks + Second - 1) \div Second) * Second

\* Faulty variant: the second that has begun is not counted, nor the last one.
TtlShort(ticks) == ((ticks - 1) \div Second) * Second

\* ttlSeconds, floored, in ticks.
Ttl(ticks) == (ticks \div Second) * Second

\* create: Date.now() is read; without a whole second left no key is set.
ReadTtl(a) ==
    /\ At(a, "ttl")
    /\ LET left == op[a].arg - clock IN
       IF left < Second THEN Done(a) ELSE Goto(a, "set", Ttl(left))
    /\ UNCHANGED <<clock, blockKey, counter, counterTtl, events, hits, tracked,
                   author, raced, cut>>

\* create: SET of the key, its seconds counted from now.
SetKey(a) ==
    /\ At(a, "set")
    /\ blockKey' = IF op[a].arg = Forever THEN Forever ELSE clock + op[a].arg
    /\ author' = op[a].id
    /\ Done(a)
    /\ UNCHANGED <<clock, counter, counterTtl, events, hits, tracked, raced, cut>>

\* unblockById: the row is read; one already unblocked is left alone.
FindEvent(a, id) ==
    /\ At(a, "idle") /\ ~events[id].unblocked
    /\ Begin(a, "delById", id, 0)
    /\ raced' = (raced \/ \E b \in Admin : Creating(b) /\ op[b].id = id)
    /\ UNCHANGED <<clock, blockKey, counter, counterTtl, events, hits, tracked,
                   author, cut>>

\* unblockById: DEL of the key.
DelKey(a) ==
    /\ At(a, "delById")
    /\ blockKey' = None
    /\ Goto(a, "mark", 0)
    /\ UNCHANGED <<clock, counter, counterTtl, events, hits, tracked, author,
                   raced, cut>>

\* unblockById: the row is updated.
MarkUnblocked(a) ==
    /\ At(a, "mark")
    /\ events' = [events EXCEPT ![op[a].id].unblocked = TRUE]
    /\ Done(a)
    /\ UNCHANGED <<clock, blockKey, counter, counterTtl, hits, tracked, author,
                   raced, cut>>

\* An administrator ends every event of the entity.
EndAll(a) ==
    /\ At(a, "idle")
    /\ Begin(a, "markAll", 0, 0)
    /\ raced' = (raced \/ \E b \in Admin : Creating(b))
    /\ UNCHANGED <<clock, counter, counterTtl, events, hits, tracked, author,
                   cut>>

\* Faulty variant: the rows of the entity are ended, its key is kept.
DelKeyOfEntityForgotten(a) == EndAll(a) /\ UNCHANGED blockKey

\* unblockByEntity: DEL of the key.
DelKeyOfEntity(a) == EndAll(a) /\ blockKey' = None

\* unblockByEntity: every row of the entity is updated.
MarkAllUnblocked(a) ==
    /\ At(a, "markAll")
    /\ events' = [i \in DOMAIN events |-> [events[i] EXCEPT !.unblocked = TRUE]]
    /\ Done(a)
    /\ UNCHANGED <<clock, blockKey, counter, counterTtl, hits, tracked, author,
                   raced, cut>>

(***************************************************************************)
(* Failures and time.                                                      *)
(***************************************************************************)
\* The process dies, or a call of Redis or MySQL rejects.
Crash(p) ==
    /\ ~At(p, "idle") /\ Cardinality(cut) < MaxCrashes
    /\ cut' = cut \cup {op[p].at}
    /\ Done(p)
    /\ UNCHANGED <<clock, blockKey, counter, counterTtl, events, hits, tracked,
                   author, raced>>

\* Time passes while calls are under way, none of which lasts longer than
\* MaxLag.  Redis drops the keys whose time has come.
Tick ==
    /\ clock < MaxTime
    /\ \A p \in Process : At(p, "idle") \/ clock < op[p].since + MaxLag
    /\ clock' = clock + 1
    /\ blockKey' = IF blockKey >= 0 /\ blockKey <= clock' THEN None ELSE blockKey
    /\ IF counterTtl # None /\ counterTtl <= clock'
       THEN counter' = 0 /\ counterTtl' = None
       ELSE UNCHANGED <<counter, counterTtl>>
    /\ UNCHANGED <<events, op, hits, tracked, author, raced, cut>>

RequestStep(r) == Expire(r) \/ Set429(r) \/ Del429(r)

AdminStep(a) ==
    \/ ReadTtl(a) \/ SetKey(a) \/ DelKey(a) \/ MarkUnblocked(a)
    \/ MarkAllUnblocked(a)

AdminNext(a) ==
    \/ \E expires \in Expiries : Create(a, expires)
    \/ \E id \in DOMAIN events : FindEvent(a, id)
    \/ DelKeyOfEntity(a)
    \/ AdminStep(a)

Next ==
    \/ Tick
    \/ \E r \in Request : Throttle(r) \/ RequestStep(r)
    \/ \E a \in Admin : AdminNext(a)
    \/ \E p \in Process : Crash(p)

Spec == Init /\ [][Next]_vars

(***************************************************************************)
(* A call that was sent is answered: Redis and MySQL are up, the process   *)
(* keeps running.  Nobody is obliged to send another request.              *)
(***************************************************************************)
FairSpec == Spec /\ \A r \in Request : WF_vars(RequestStep(r))
-----------------------------------------------------------------------------
IsBlocked == blockKey # None
Quiet == \A p \in Process : At(p, "idle")

\* A block until end lasts no longer than expires asks for, but for the time
\* that SET was under way after Date.now() had been read.
Within(end, expires) ==
    expires = Forever \/ (end >= 0 /\ end <= expires + MaxLag)

(***************************************************************************)
(* The gateway never blocks longer than someone decided: the block key     *)
(* ends BlockSeconds after the tracker's latest SET, or no later than      *)
(* expires_at of the very event it was last set for and MaxLag, whatever   *)
(* calls interleave, however late they are and wherever they are cut.      *)
(***************************************************************************)
BlockJustified ==
    IsBlocked =>
        IF author = Tracker THEN blockKey = tracked + BlockSeconds
        ELSE Within(blockKey, events[author].expires)

(***************************************************************************)
(* Why BlockJustified holds: the seconds about to be set were read since   *)
(* the call began from the expiry of its own row; and rounded down they    *)
(* lose less than a second of it.                                          *)
(***************************************************************************)
PendingHasEvent ==
    \A a \in Admin :
        LET expires == events[op[a].id].expires IN
        /\ At(a, "ttl") => expires # Forever /\ op[a].arg = expires
        /\ At(a, "set") /\ expires = Forever => op[a].arg = Forever
        /\ At(a, "set") /\ expires # Forever =>
             /\ op[a].arg >= 0 /\ op[a].since + op[a].arg <= expires
             /\ clock + op[a].arg > expires - Second
BlockInv == TypeOK /\ PendingHasEvent /\ BlockJustified

(***************************************************************************)
(* What the API means by unblocking (blocked-events.service.ts:66-110): a  *)
(* block that stands is the tracker's, or that of an event nobody ended.   *)
(***************************************************************************)
UnblockedIsFree ==
    IsBlocked => author = Tracker \/ ~events[author].unblocked

(***************************************************************************)
(* It holds for any number of administrators until one of them ends an     *)
(* event while another is still creating that very event.                  *)
(***************************************************************************)
NoGhostBlock == raced \/ UnblockedIsFree

(***************************************************************************)
(* Why NoGhostBlock holds: an event being created is active and nobody is  *)
(* about to end it, and once the key is deleted it is not set again for an *)
(* event about to be ended.                                                *)
(***************************************************************************)
PendingIsActive ==
    /\ \A a \in Admin : Creating(a) =>
         /\ ~events[op[a].id].unblocked
         /\ \A b \in Admin :
              /\ ~At(b, "markAll")
              /\ At(b, "delById") \/ At(b, "mark") => op[b].id # op[a].id
              /\ b # a /\ Creating(b) => op[b].id # op[a].id
    /\ \A b \in Admin :
         /\ At(b, "markAll") /\ IsBlocked => author = Tracker
         /\ At(b, "mark") /\ IsBlocked => author # op[b].id
GhostInv == TypeOK /\ (raced \/ (PendingIsActive /\ UnblockedIsFree))

(***************************************************************************)
(* The tracker blocks only a client that was throttled Max429 times within *)
(* one window, give or take the time its calls are under way, however its  *)
(* requests interleave.  Only a call cut between INCR and EXPIRE spoils    *)
(* that: its counter has no end.                                           *)
(***************************************************************************)
BlockNeedsBurst ==
    [][\A r \in Request : Set429(r) /\ "expire" \notin cut =>
          Cardinality({h \in hits : h.at > clock - WindowSeconds - 2 * MaxLag})
              >= Max429]_vars

(***************************************************************************)
(* A client that reaches the limit is blocked, unless the tracker's own    *)
(* calls were cut short.  (At DEL the block has been set already.)         *)
(***************************************************************************)
RepeatsAreBlocked ==
    counter >= Max429 /\ (\A r \in Request : ~At(r, "del429"))
        ~> tracked = clock \/ cut \cap {"expire", "set429", "del429"} # {}

(***************************************************************************)
(* src/README.md:101: a client that repeatedly ignores throttling is       *)
(* blocked.  The counter lives for fixed windows, so a client may be       *)
(* throttled almost twice Max429 times within the length of one, but not   *)
(* more often (beside the requests still being tracked) without a block    *)
(* being set before it could have ended, unless a call was cut short.      *)
(***************************************************************************)
Stretch ==
    IF WindowSeconds <= BlockSeconds - MaxLag THEN WindowSeconds
    ELSE BlockSeconds - MaxLag
RepeatersAreBlocked ==
    LET recent == {h \in hits : h.at > clock - Stretch}
        tracking == {r \in Request : ~At(r, "idle")}
        told == Cardinality(recent) - Cardinality(tracking)
    IN  cut = {} /\ told > 0 /\ told >= 2 * (Max429 - 1) =>
          tracked # None /\ tracked > clock - BlockSeconds

(***************************************************************************)
(* The only event of an IP is enforced for as long as it has a second to   *)
(* go and nobody ended it, if the tracker did not meddle and no call that  *)
(* creates or ends an event was cut short.  (Two events share one key:     *)
(* ending one by its id ends both.)                                        *)
(***************************************************************************)
LoneEventIsEnforced ==
    /\ Quiet /\ cut \cap {"ttl", "set", "mark", "markAll"} = {}
    /\ tracked = None
    /\ Len(events) = 1 /\ ~events[1].unblocked
    /\ events[1].expires = Forever \/ events[1].expires >= clock + Second
    => IsBlocked
=============================================================================
