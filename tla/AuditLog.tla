------------------------------ MODULE AuditLog ------------------------------
(***************************************************************************)
(* The audit log, from AuditQueue.publish to a reader's last page.  The    *)
(* gateway publishes an event and does not wait; a worker uploads the      *)
(* snapshot, inserts the row and starts the abuse job, which it does not   *)
(* wait for either; readers page through the rows by descending id while   *)
(* new ones appear.  BullMQ runs a job again when its insert rejects, and  *)
(* hands it to another worker when the one that has it dies or stalls.     *)
(***************************************************************************)
EXTENDS Integers, FiniteSets, FiniteSetsExt

CONSTANTS Worker, Reader,
          MaxAttempts,   \* attempts of a job, 3 in audit.queue.ts
          MaxStalls,     \* how often a job may stall: 1 in BullMQ
          PageSize,      \* limit of a query
          MaxEvents, MaxFailures   \* bounds

ASSUME AuditAssumption ==
    /\ MaxAttempts \in Nat \ {0} /\ MaxStalls \in Nat /\ PageSize \in Nat \ {0}
    /\ MaxEvents \in Nat /\ MaxFailures \in Nat

VARIABLES published,  \* how many events the gateway published
          adding,     \* events whose queue.add is under way
          queue,      \* jobs waiting
          work,       \* work[w]: the job of worker w and its next call
          rows,       \* requests_log: committed rows
          nextId,     \* its auto-increment counter
          objects,    \* snapshots in S3
          abuse,      \* the rows after which abuseQueue.add was called
          reads,      \* reads[q]: the query of reader q
          failures    \* history: how often each call failed for each event

auditQueue == <<published, adding, queue>>
log == <<rows, nextId, objects>>
vars == <<published, adding, queue, work, rows, nextId, objects, abuse, reads,
          failures>>

NoUrl == 0
Idle == [at |-> "idle"]
NotReading ==
    [cursor |-> 0, got |-> {}, due |-> {}, again |-> {}, missed |-> {}]
Event == 1..MaxEvents
Kind == {"add", "insert", "stall"}

At(w, step) == work[w].at = step
Goto(w, step) == work' = [work EXCEPT ![w].at = step]
Failed(kind, e) == failures' = [failures EXCEPT ![<<kind, e>>] = @ + 1]
FailuresOf(e, kinds) == MapThenSumSet(LAMBDA k : failures[k, e], kinds)
MayFail == MapThenSumSet(LAMBDA e : FailuresOf(e, Kind), Event) < MaxFailures

Init ==
    /\ published = 0 /\ adding = {} /\ queue = {}
    /\ work = [w \in Worker |-> Idle]
    /\ rows = {} /\ nextId = 1 /\ objects = {} /\ abuse = {}
    /\ reads = [q \in Reader |-> NotReading]
    /\ failures = [f \in Kind \X Event |-> 0]

(***************************************************************************)
(* AuditQueue.publish: add is called, its promise is not awaited.          *)
(***************************************************************************)
Publish ==
    /\ published < MaxEvents
    /\ published' = published + 1
    /\ adding' = adding \cup {published'}
    /\ UNCHANGED <<queue, work, log, abuse, reads, failures>>

Added(e) ==
    /\ e \in adding
    /\ adding' = adding \ {e}
    /\ queue' = queue \cup {[event |-> e, attempt |-> 1, stalls |-> 0]}
    /\ UNCHANGED <<published, work, log, abuse, reads, failures>>

\* add rejects, or the process ends before it: nobody notices.
AddLost(e) ==
    /\ e \in adding /\ MayFail
    /\ adding' = adding \ {e}
    /\ Failed("add", e)
    /\ UNCHANGED <<published, queue, work, log, abuse, reads>>

(***************************************************************************)
(* BullMQ: what happens to a job that failed, and to one that stalled.     *)
(***************************************************************************)
\* Faulty variant: a failed job is not tried again.
RetryNever(job) == {}

Retry(job) ==
    IF job.attempt < MaxAttempts THEN {[job EXCEPT !.attempt = @ + 1]} ELSE {}

Recover(job) ==
    IF job.stalls < MaxStalls THEN {[job EXCEPT !.stalls = @ + 1]} ELSE {}

(***************************************************************************)
(* AuditProcessor.process.                                                 *)
(***************************************************************************)
\* owned: the worker still holds the lock of its job.
Take(w, job) ==
    /\ At(w, "idle") /\ job \in queue
    /\ queue' = queue \ {job}
    /\ work' = [work EXCEPT ![w] = [at |-> "upload", job |-> job,
                                    owned |-> TRUE, url |-> NoUrl, id |-> 0]]
    /\ UNCHANGED <<published, adding, log, abuse, reads, failures>>

Upload(w) ==
    /\ At(w, "upload")
    /\ objects' = objects \cup {work[w].job.event}
    /\ work' = [work EXCEPT ![w].at = "insert", ![w].url = work[w].job.event]
    /\ UNCHANGED <<auditQueue, rows, nextId, abuse, reads, failures>>

\* Faulty variant: the URL is kept though the upload failed.
NoUploadKeepsUrl(w) ==
    /\ At(w, "upload")
    /\ work' = [work EXCEPT ![w].at = "insert", ![w].url = work[w].job.event]
    /\ UNCHANGED <<auditQueue, log, abuse, reads, failures>>

\* The event has no snapshot, or its upload fails and the error is caught: the
\* row will have no URL.
NoUpload(w) ==
    /\ At(w, "upload")
    /\ Goto(w, "insert")
    /\ UNCHANGED <<auditQueue, log, abuse, reads, failures>>

\* Faulty variant: the id is only read, not taken.
InsertStartsUncounted(w) ==
    /\ At(w, "insert")
    /\ work' = [work EXCEPT ![w].at = "commit", ![w].id = nextId]
    /\ UNCHANGED <<auditQueue, log, abuse, reads, failures>>

\* MySQL gives the row its id before it commits it.
InsertStarts(w) ==
    /\ At(w, "insert")
    /\ nextId' = nextId + 1
    /\ work' = [work EXCEPT ![w].at = "commit", ![w].id = nextId]
    /\ UNCHANGED <<auditQueue, rows, objects, abuse, reads, failures>>

Row(w) == [id |-> work[w].id, event |-> work[w].job.event, url |-> work[w].url]

Commit(w) ==
    /\ At(w, "commit")
    /\ rows' = rows \cup {Row(w)}
    /\ Goto(w, "inserted")
    /\ UNCHANGED <<auditQueue, nextId, objects, abuse, reads, failures>>

\* Faulty variant: add is awaited, and when it rejects the job is retried.
FinishAwaited(w) ==
    /\ At(w, "inserted")
    /\ \/ abuse' = abuse \cup {work[w].id} /\ UNCHANGED queue
       \/ queue' = queue \cup Retry(work[w].job) /\ UNCHANGED abuse
    /\ work' = [work EXCEPT ![w] = Idle]
    /\ UNCHANGED <<published, adding, log, reads, failures>>

\* abuseQueue.add is called, its promise is not awaited, and process returns:
\* whether the abuse job arrives is not this job's concern.
Finish(w) ==
    /\ At(w, "inserted")
    /\ abuse' = abuse \cup {work[w].id}
    /\ work' = [work EXCEPT ![w] = Idle]
    /\ UNCHANGED <<auditQueue, log, reads, failures>>

(***************************************************************************)
(* Failures of jobs.                                                       *)
(***************************************************************************)
\* The insert rejects: before or after the row was committed.
InsertFails(w) ==
    /\ At(w, "commit") \/ At(w, "inserted")
    /\ MayFail /\ Failed("insert", work[w].job.event)
    /\ queue' = queue \cup (IF work[w].owned THEN Retry(work[w].job) ELSE {})
    /\ work' = [work EXCEPT ![w] = Idle]
    /\ UNCHANGED <<published, adding, log, abuse, reads>>

\* The worker loses the lock of its job, and goes on with it or dies.
Stall(w) ==
    /\ ~At(w, "idle") /\ work[w].owned /\ MayFail
    /\ Failed("stall", work[w].job.event)
    /\ queue' = queue \cup Recover(work[w].job)
    /\ work' \in {[work EXCEPT ![w].owned = FALSE], [work EXCEPT ![w] = Idle]}
    /\ UNCHANGED <<published, adding, log, abuse, reads>>

(***************************************************************************)
(* RequestsLogService.queryAuditLogs.                                      *)
(***************************************************************************)
\* Faulty variant: the row of the cursor itself comes again.
BelowOrAt(cursor) == {r.id : r \in {x \in rows : cursor = 0 \/ x.id <= cursor}}

Below(cursor) == {r.id : r \in {x \in rows : cursor = 0 \/ x.id < cursor}}

\* The PageSize largest of a set of ids.
Page(ids) == {i \in ids : Cardinality({j \in ids : j > i}) < PageSize}

\* The first page, without a cursor.  What was committed by then is noted.
Query(q) ==
    /\ reads[q].cursor = 0 /\ rows # {}
    /\ LET page == Page(Below(0))
       IN  reads' = [reads EXCEPT ![q].cursor = Min(page), ![q].got = page,
                                  ![q].due = Below(0)]
    /\ UNCHANGED <<auditQueue, work, log, abuse, failures>>

\* The next page, from the cursor the last one returned; an empty one is the
\* end.  again and missed are the history of all of a reader's queries.
NextPage(q) ==
    /\ reads[q].cursor # 0
    /\ LET read == reads[q]
           page == Page(Below(read.cursor))
       IN  reads' = [reads EXCEPT ![q] =
             IF page = {}
             THEN [NotReading EXCEPT
                     !.again = read.again,
                     !.missed = read.missed \cup (read.due \ read.got)]
             ELSE [read EXCEPT !.cursor = Min(page), !.got = @ \cup page,
                               !.again = @ \cup (read.got \cap page)]]
    /\ UNCHANGED <<auditQueue, work, log, abuse, failures>>

WorkerStep(w) ==
    \/ Upload(w) \/ NoUpload(w) \/ InsertStarts(w) \/ Commit(w) \/ Finish(w)

Next ==
    \/ Publish
    \/ \E e \in adding : Added(e) \/ AddLost(e)
    \/ \E w \in Worker :
         \/ \E job \in queue : Take(w, job)
         \/ WorkerStep(w) \/ InsertFails(w) \/ Stall(w)
    \/ \E q \in Reader : Query(q) \/ NextPage(q)

Spec == Init /\ [][Next]_vars

\* Calls are answered, and workers take jobs and finish them.
FairSpec ==
    /\ Spec
    /\ WF_vars(\E e \in adding : Added(e))
    /\ \A w \in Worker :
         WF_vars(WorkerStep(w)) /\ WF_vars(\E job \in queue : Take(w, job))
-----------------------------------------------------------------------------
RowsOf(e) == {r \in rows : r.event = e}

TypeOK ==
    /\ published \in 0..MaxEvents /\ adding \subseteq 1..published
    /\ queue \subseteq [event : 1..published, attempt : 1..MaxAttempts,
                        stalls : 0..MaxStalls]
    /\ rows \subseteq [id : 1..(nextId - 1), event : 1..published, url : Nat]
    /\ \A r, x \in rows : r.id = x.id => r = x
    /\ \A w \in Worker : ~At(w, "idle") => work[w].job.event \in 1..published

(***************************************************************************)
(* An event reaches the log unless its add failed, its inserts failed in   *)
(* every attempt, or its job stalled more often than BullMQ allows.        *)
(***************************************************************************)
EventsAreLogged ==
    \A e \in Event :
        e <= published ~>
            \/ RowsOf(e) # {}
            \/ FailuresOf(e, {"add"}) > 0
            \/ FailuresOf(e, {"insert"}) >= MaxAttempts
            \/ FailuresOf(e, {"stall"}) > MaxStalls

(***************************************************************************)
(* A row too many has a failed insert or a stalled job to account for it.  *)
(***************************************************************************)
DuplicatesAreExplained ==
    \A e \in Event :
        Cardinality(RowsOf(e)) <=
            1 + failures[<<"insert", e>>] + failures[<<"stall", e>>]

(***************************************************************************)
(* A row that names a snapshot names an object that exists, and an abuse   *)
(* job follows a row that exists.                                          *)
(***************************************************************************)
ReferencesExist ==
    /\ \A r \in rows : r.url # NoUrl => r.url \in objects /\ r.url = r.event
    /\ abuse \subseteq {r.id : r \in rows}

(***************************************************************************)
(* A reader gets no row twice, and at the end every row that was committed *)
(* before its first page, however many are added while it reads.           *)
(***************************************************************************)
PagesAreExact ==
    \A q \in Reader : reads[q].again = {} /\ reads[q].missed = {}
=============================================================================
