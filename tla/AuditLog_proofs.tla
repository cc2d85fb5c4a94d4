-------------------------- MODULE AuditLog_proofs --------------------------
(***************************************************************************)
(* For every number of workers, readers, attempts, stalls, events and      *)
(* failures: what a row of the audit log refers to exists, a row too many  *)
(* is accounted for, and a reader's pages give every row once.             *)
(***************************************************************************)
EXTENDS AuditLog, FiniteSetTheorems, TLAPS

Job == [event : Nat, attempt : Nat, stalls : Nat]
Task == [at : {"upload", "insert", "commit", "inserted"}, job : Job,
         owned : BOOLEAN, url : Nat, id : Nat]

(***************************************************************************)
(* Why references hold: a worker names no snapshot, or that of its event,  *)
(* which was uploaded; and past its insert it has the id of a row.         *)
(***************************************************************************)
Sound(task, uploaded, committed) ==
    /\ task \in Task
    /\ task.url # NoUrl => task.url \in uploaded /\ task.url = task.job.event
    /\ task.at = "inserted" => \E r \in committed : r.id = task.id

Counters ==
    /\ published \in Nat /\ nextId \in Nat
    /\ adding \subseteq Nat /\ queue \subseteq Job

ReferencesInv ==
    /\ Counters /\ DOMAIN work = Worker /\ work = [w \in Worker |-> work[w]]
    /\ \A w \in Worker : work[w] = Idle \/ Sound(work[w], objects, rows)
    /\ ReferencesExist

\* The invariant holds at the beginning.
LEMMA ReferencesInit == Init => ReferencesInv
  BY DEF Init, ReferencesInv, Counters, ReferencesExist

(***************************************************************************)
(* A worker moves on, rows and objects at most being added.                *)
(***************************************************************************)
LEMMA WorkerMoves ==
  ASSUME ReferencesInv, NEW w \in Worker, NEW task,
         work' = [work EXCEPT ![w] = task], rows \subseteq rows',
         objects \subseteq objects', Counters', ReferencesExist',
         task = Idle \/ Sound(task, objects', rows')
  PROVE  ReferencesInv'
  <1>1. ASSUME NEW v \in Worker, v # w
        PROVE  work'[v] = Idle \/ Sound(work'[v], objects', rows')
    <2>1. work'[v] = work[v] /\ (work[v] = Idle \/ Sound(work[v], objects, rows))
      BY <1>1 DEF ReferencesInv
    <2> QED
      BY <2>1 DEF Sound
  <1>2. work'[w] = task
    BY DEF ReferencesInv
  <1>3. \A v \in Worker : work'[v] = Idle \/ Sound(work'[v], objects', rows')
    BY <1>1, <1>2 DEF Sound
  <1> QED
    BY <1>3 DEF ReferencesInv, Sound

\* Every step of a worker keeps the invariant.
LEMMA Steps ==
  ASSUME ReferencesInv, NEW w \in Worker,
         WorkerStep(w) \/ InsertFails(w) \/ Stall(w)
  PROVE  ReferencesInv'
  <1> DEFINE task == work[w]
  <1>1. Counters /\ ReferencesExist /\ work = [v \in Worker |-> work[v]]
    BY DEF ReferencesInv
  <1>2. task # Idle
    BY DEF WorkerStep, Upload, NoUpload, InsertStarts, Commit, Finish, InsertFails,
           Stall, At, Idle
  <1>3. Sound(task, objects, rows)
    BY <1>2 DEF ReferencesInv
  <1> HIDE DEF task
  <1>4. CASE Upload(w)
    <2> DEFINE new == [task EXCEPT !.at = "insert", !.url = task.job.event]
    <2>1. /\ work' = [work EXCEPT ![w] = new]
          /\ objects' = objects \cup {task.job.event} /\ UNCHANGED <<auditQueue, rows, nextId, abuse>>
      BY <1>1, <1>4 DEF Upload, task
    <2>2. Sound(new, objects', rows')
      BY <1>3, <2>1 DEF Sound, Task, Job
    <2> HIDE DEF new
    <2> QED
      BY <1>1, <2>1, <2>2, WorkerMoves DEF Counters, ReferencesExist, auditQueue
  <1>5. CASE NoUpload(w)
    <2> DEFINE new == [task EXCEPT !.at = "insert"]
    <2>1. work' = [work EXCEPT ![w] = new] /\ UNCHANGED <<auditQueue, log, abuse>>
      BY <1>1, <1>5 DEF NoUpload, Goto, task
    <2>2. Sound(new, objects', rows')
      BY <1>3, <2>1 DEF Sound, Task, log
    <2> HIDE DEF new
    <2> QED
      BY <1>1, <2>1, <2>2, WorkerMoves DEF Counters, ReferencesExist, auditQueue, log
  <1>6. CASE InsertStarts(w)
    <2> DEFINE new == [task EXCEPT !.at = "commit", !.id = nextId]
    <2>1. /\ work' = [work EXCEPT ![w] = new] /\ nextId' = nextId + 1
          /\ UNCHANGED <<auditQueue, rows, objects, abuse>>
      BY <1>1, <1>6 DEF InsertStarts, task
    <2>2. Sound(new, objects', rows')
      BY <1>1, <1>3, <2>1 DEF Sound, Task, Counters
    <2> HIDE DEF new
    <2> QED
      BY <1>1, <2>1, <2>2, WorkerMoves DEF Counters, ReferencesExist, auditQueue
  <1>7. CASE Commit(w)
    <2> DEFINE new == [task EXCEPT !.at = "inserted"]
               row == [id |-> task.id, event |-> task.job.event, url |-> task.url]
    <2>1. /\ work' = [work EXCEPT ![w] = new] /\ rows' = rows \cup {row}
          /\ UNCHANGED <<auditQueue, nextId, objects, abuse>>
      BY <1>1, <1>7 DEF Commit, Goto, Row, task
    <2>2. Sound(new, objects', rows')
      <3>1. new \in Task /\ new.id = task.id /\ new.url = task.url /\ new.job = task.job
        BY <1>3 DEF Sound, Task
      <3>2. row \in rows' /\ row.id = task.id
        BY <2>1
      <3> HIDE DEF new, row
      <3> QED
        BY <1>3, <2>1, <3>1, <3>2 DEF Sound
    <2>3. row.url # NoUrl => row.url \in objects /\ row.url = row.event
      BY <1>3 DEF Sound
    <2> HIDE DEF new, row
    <2>4. ReferencesExist'
      BY <1>1, <2>1, <2>3 DEF ReferencesExist
    <2> QED
      BY <1>1, <2>1, <2>2, <2>4, WorkerMoves DEF Counters, auditQueue
  <1>8. CASE Finish(w)
    <2>1. /\ work' = [work EXCEPT ![w] = Idle] /\ abuse' = abuse \cup {task.id}
          /\ task.at = "inserted" /\ UNCHANGED <<auditQueue, log>>
      BY <1>8 DEF Finish, At, task
    <2>2. ReferencesExist'
      BY <1>1, <1>3, <2>1 DEF ReferencesExist, Sound, log
    <2> QED
      BY <1>1, <2>1, <2>2, WorkerMoves DEF Counters, auditQueue, log
  <1>9. CASE InsertFails(w)
    <2>1. /\ work' = [work EXCEPT ![w] = Idle] /\ UNCHANGED <<published, adding, log, abuse>>
          /\ queue' \subseteq queue \cup Retry(task.job)
      BY <1>9 DEF InsertFails, task
    <2>2. Retry(task.job) \subseteq Job
      BY <1>3 DEF Retry, Sound, Task, Job
    <2> QED
      BY <1>1, <2>1, <2>2, WorkerMoves DEF Counters, ReferencesExist, log
  <1>10. CASE Stall(w)
    <2>1. /\ UNCHANGED <<published, adding, log, abuse>>
          /\ queue' \subseteq queue \cup Recover(task.job)
      BY <1>10 DEF Stall, task
    <2>2. Recover(task.job) \subseteq Job
      BY <1>3 DEF Recover, Sound, Task, Job
    <2>3. Counters' /\ ReferencesExist'
      BY <1>1, <2>1, <2>2 DEF Counters, ReferencesExist, log
    <2>4. CASE work' = [work EXCEPT ![w] = Idle]
      BY <2>1, <2>3, <2>4, WorkerMoves DEF log
    <2>5. CASE work' = [work EXCEPT ![w].owned = FALSE]
      <3> DEFINE new == [task EXCEPT !.owned = FALSE]
      <3>1. work' = [work EXCEPT ![w] = new]
        BY <1>1, <2>5 DEF task
      <3>2. Sound(new, objects', rows')
        BY <1>3, <2>1 DEF Sound, Task, log
      <3> HIDE DEF new
      <3> QED
        BY <2>1, <2>3, <3>1, <3>2, WorkerMoves DEF log
    <2> QED
      BY <1>10, <2>4, <2>5 DEF Stall
  <1> QED
    BY <1>4, <1>5, <1>6, <1>7, <1>8, <1>9, <1>10 DEF WorkerStep

\* Every step keeps the invariant.
LEMMA ReferencesStep == ReferencesInv /\ [Next]_vars => ReferencesInv'
  <1> SUFFICES ASSUME ReferencesInv, [Next]_vars
               PROVE  ReferencesInv'
    OBVIOUS
  <1>1. ASSUME Counters', UNCHANGED <<work, log, abuse>>
        PROVE  ReferencesInv'
    BY <1>1 DEF ReferencesInv, ReferencesExist, Sound, log
  <1>2. CASE Publish
    BY <1>1, <1>2 DEF Publish, ReferencesInv, Counters, log
  <1>3. ASSUME NEW e \in adding, Added(e) \/ AddLost(e)
        PROVE  ReferencesInv'
    <2>1. Counters
      BY DEF ReferencesInv
    <2>2. [event |-> e, attempt |-> 1, stalls |-> 0] \in Job
      BY <2>1 DEF Counters, Job
    <2>3. Counters' /\ UNCHANGED <<work, log, abuse>>
      BY <1>3, <2>1, <2>2 DEF Added, AddLost, Counters, log
    <2> QED
      BY <1>1, <2>3
  <1>4. ASSUME NEW w \in Worker, NEW job \in queue, Take(w, job)
        PROVE  ReferencesInv'
    <2> DEFINE new == [at |-> "upload", job |-> job, owned |-> TRUE, url |-> NoUrl,
                       id |-> 0]
    <2>1. /\ work' = [work EXCEPT ![w] = new] /\ queue' \subseteq queue
          /\ UNCHANGED <<published, adding, log, abuse>>
      BY <1>4 DEF Take
    <2>2. Sound(new, objects', rows')
      BY DEF Sound, Task, NoUrl, ReferencesInv, Counters
    <2> HIDE DEF new
    <2> QED
      BY <2>1, <2>2, WorkerMoves DEF ReferencesInv, Counters, ReferencesExist, log
  <1>5. ASSUME NEW q \in Reader, Query(q) \/ NextPage(q)
        PROVE  ReferencesInv'
    BY <1>1, <1>5 DEF Query, NextPage, auditQueue, ReferencesInv, Counters, log
  <1>6. CASE UNCHANGED vars
    BY <1>1, <1>6 DEF vars, auditQueue, ReferencesInv, Counters, log
  <1> QED
    BY <1>2, <1>3, <1>4, <1>5, <1>6, Steps DEF Next

(***************************************************************************)
(* A row names only a snapshot that was uploaded, its event's own, and an  *)
(* abuse job only a row that exists (audit.processor.ts:30-62), whatever   *)
(* uploads and inserts fail, workers stall or die.                         *)
(***************************************************************************)
THEOREM ReferencesTheorem == Spec => []ReferencesExist
  BY ReferencesInit, ReferencesStep, PTL DEF Spec, ReferencesInv

(***************************************************************************)
(* Types, and ids of rows: one that a worker was given is nobody else's.   *)
(***************************************************************************)
JobOf == [event : 1..published, attempt : 1..MaxAttempts, stalls : 0..MaxStalls]
TaskOf == [at : {"upload", "insert", "commit", "inserted"}, job : JobOf,
           owned : BOOLEAN, url : Nat, id : 0..(nextId - 1)]
RowOf == [id : 1..(nextId - 1), event : 1..published, url : Nat]

Typed ==
    /\ published \in 0..MaxEvents /\ nextId \in Nat \ {0}
    /\ adding \subseteq 1..published /\ queue \subseteq JobOf /\ rows \subseteq RowOf
    /\ work = [w \in Worker |-> work[w]]
    /\ \A w \in Worker : work[w] = Idle \/ work[w] \in TaskOf
    /\ \A w \in Worker : At(w, "commit") => work[w].id # 0

OwnIds ==
    /\ \A r, x \in rows : r.id = x.id => r = x
    /\ \A w \in Worker : At(w, "commit") => \A r \in rows : r.id # work[w].id
    /\ \A v, w \in Worker :
         At(v, "commit") /\ At(w, "commit") /\ work[v].id = work[w].id => v = w

\* The rest of the system grows, and workers keep their types.
LEMMA TypesGrow ==
  ASSUME Typed, published' \in published..MaxEvents, nextId' \in nextId..(nextId + 1)
  PROVE  /\ JobOf \subseteq JobOf' /\ TaskOf \subseteq TaskOf' /\ RowOf \subseteq RowOf'
         /\ published' \in 0..MaxEvents /\ nextId' \in Nat \ {0}
         /\ adding \subseteq 1..published'
  <1>1. 1..published \subseteq 1..published'
    BY AuditAssumption DEF Typed
  <1>2. JobOf \subseteq JobOf'
    BY <1>1 DEF JobOf
  <1>3. 0..(nextId - 1) \subseteq 0..(nextId' - 1) /\ 1..(nextId - 1) \subseteq 1..(nextId' - 1)
    BY DEF Typed
  <1> HIDE DEF JobOf
  <1>4. TaskOf \subseteq TaskOf'
    BY <1>2, <1>3 DEF TaskOf
  <1>5. RowOf \subseteq RowOf'
    BY <1>1, <1>3 DEF RowOf
  <1> QED
    BY <1>1, <1>2, <1>4, <1>5, AuditAssumption DEF Typed

\* A worker moves on.
LEMMA TaskTyped ==
  ASSUME Typed, NEW w \in Worker, NEW task, work' = [work EXCEPT ![w] = task],
         published' = published, nextId' \in nextId..(nextId + 1),
         adding' = adding, queue' \subseteq JobOf, rows' \subseteq RowOf',
         task = Idle \/ task \in TaskOf',
         task.at = "commit" => task.id # 0
  PROVE  Typed'
  <1>1. published' \in published..MaxEvents
    BY AuditAssumption DEF Typed
  <1>2. /\ JobOf \subseteq JobOf' /\ TaskOf \subseteq TaskOf'
        /\ published' \in 0..MaxEvents /\ nextId' \in Nat \ {0}
        /\ adding \subseteq 1..published'
    BY <1>1, TypesGrow
  <1>3. /\ work' = [v \in Worker |-> work'[v]] /\ work'[w] = task
        /\ \A v \in Worker \ {w} : work'[v] = work[v]
    BY DEF Typed
  <1>4. \A v \in Worker : work'[v] = Idle \/ work'[v] \in TaskOf'
    BY <1>2, <1>3 DEF Typed
  <1>5. \A v \in Worker : At(v, "commit")' => work'[v].id # 0
    BY <1>3 DEF Typed, At
  <1> QED
    BY <1>2, <1>3, <1>4, <1>5 DEF Typed

\* What a worker does with its job.
LEMMA WorkTyped ==
  ASSUME Typed, NEW w \in Worker, WorkerStep(w) \/ InsertFails(w) \/ Stall(w)
  PROVE  Typed'
  <1> DEFINE task == work[w]
  <1>1. task # Idle
    BY DEF WorkerStep, Upload, NoUpload, InsertStarts, Commit, Finish, InsertFails,
           Stall, At, Idle
  <1>2. task \in TaskOf
    BY <1>1 DEF Typed
  <1>3. /\ task.job \in JobOf /\ task.job.event \in 1..published /\ task.url \in Nat
        /\ task.id \in 0..(nextId - 1)
    BY <1>2 DEF TaskOf, JobOf
  <1>4. /\ published \in Nat /\ nextId \in Nat \ {0} /\ queue \subseteq JobOf
        /\ rows \subseteq RowOf /\ Idle.at # "commit"
        /\ work = [v \in Worker |-> work[v]]
    BY AuditAssumption DEF Typed, Idle
  <1>5. /\ Retry(task.job) \subseteq JobOf /\ Recover(task.job) \subseteq JobOf
    BY <1>3, AuditAssumption DEF Retry, Recover, JobOf
  <1>6. ASSUME UNCHANGED <<published, nextId>> PROVE TaskOf' = TaskOf /\ RowOf' = RowOf
    BY <1>6 DEF TaskOf, RowOf, JobOf
  <1> HIDE DEF task
  <1>7. CASE Upload(w)
    <2> DEFINE new == [task EXCEPT !.at = "insert", !.url = task.job.event]
    <2>1. work' = [work EXCEPT ![w] = new] /\ UNCHANGED <<auditQueue, rows, nextId>>
      BY <1>4, <1>7 DEF Upload, task
    <2>2. new \in TaskOf /\ new.at = "insert"
      <3>1. task.job.event \in Nat
        BY <1>3, <1>4
      <3> QED
        BY <1>2, <3>1 DEF TaskOf
    <2> HIDE DEF new
    <2> QED
      BY <1>4, <1>6, <2>1, <2>2, TaskTyped DEF auditQueue
  <1>8. CASE NoUpload(w)
    <2> DEFINE new == [task EXCEPT !.at = "insert"]
    <2>1. work' = [work EXCEPT ![w] = new] /\ UNCHANGED <<auditQueue, log>>
      BY <1>4, <1>8 DEF NoUpload, Goto, task
    <2>2. new \in TaskOf /\ new.at = "insert"
      BY <1>2 DEF TaskOf
    <2> HIDE DEF new
    <2> QED
      BY <1>4, <1>6, <2>1, <2>2, TaskTyped DEF auditQueue, log
  <1>9. CASE InsertStarts(w)
    <2> DEFINE new == [task EXCEPT !.at = "commit", !.id = nextId]
    <2>1. /\ work' = [work EXCEPT ![w] = new] /\ nextId' = nextId + 1
          /\ UNCHANGED <<auditQueue, rows>>
      BY <1>4, <1>9 DEF InsertStarts, task
    <2>2. published' \in published..MaxEvents
      BY <2>1, AuditAssumption DEF Typed, auditQueue
    <2>3. TaskOf \subseteq TaskOf' /\ RowOf \subseteq RowOf'
      BY <1>4, <2>1, <2>2, TypesGrow
    <2>4. new \in TaskOf' /\ new.id # 0
      <3>1. nextId \in 0..(nextId' - 1)
        BY <1>4, <2>1
      <3> QED
        BY <1>2, <1>4, <2>3, <3>1 DEF TaskOf
    <2> HIDE DEF new
    <2> QED
      BY <1>4, <2>1, <2>3, <2>4, TaskTyped DEF auditQueue
  <1>10. CASE Commit(w)
    <2> DEFINE new == [task EXCEPT !.at = "inserted"]
    <2>1. /\ work' = [work EXCEPT ![w] = new] /\ rows' = rows \cup {Row(w)}
          /\ UNCHANGED <<auditQueue, nextId>> /\ task.at = "commit"
      BY <1>4, <1>10 DEF Commit, Goto, task, At
    <2>2. new \in TaskOf /\ new.at = "inserted"
      BY <1>2 DEF TaskOf
    <2>3. task.id \in 1..(nextId - 1)
      BY <1>3, <1>4, <2>1 DEF Typed, At, task
    <2>4. Row(w) \in RowOf
      BY <1>3, <2>3 DEF Row, RowOf, task
    <2> HIDE DEF new
    <2> QED
      BY <1>4, <1>6, <2>1, <2>2, <2>4, TaskTyped DEF auditQueue
  <1>11. CASE Finish(w)
    BY <1>4, <1>6, <1>11, TaskTyped DEF Finish, auditQueue, log
  <1>12. CASE InsertFails(w)
    <2>1. /\ work' = [work EXCEPT ![w] = Idle] /\ UNCHANGED <<published, adding, log>>
          /\ queue' \subseteq JobOf
      BY <1>4, <1>5, <1>12 DEF InsertFails, task
    <2> QED
      BY <1>4, <1>6, <2>1, TaskTyped DEF log
  <1>13. CASE Stall(w)
    <2>1. UNCHANGED <<published, adding, log>> /\ queue' \subseteq JobOf
      BY <1>4, <1>5, <1>13 DEF Stall, task
    <2>2. CASE work' = [work EXCEPT ![w] = Idle]
      BY <1>4, <1>6, <2>1, <2>2, TaskTyped DEF log
    <2>3. CASE work' = [work EXCEPT ![w].owned = FALSE]
      <3> DEFINE new == [task EXCEPT !.owned = FALSE]
      <3>1. work' = [work EXCEPT ![w] = new]
        BY <1>4, <2>3 DEF task
      <3>2. new \in TaskOf /\ new.id = task.id /\ new.at = task.at
        BY <1>2 DEF TaskOf
      <3>3. task.at = "commit" => task.id # 0
        BY DEF Typed, At, task
      <3> HIDE DEF new
      <3> QED
        BY <1>4, <1>6, <2>1, <3>1, <3>2, <3>3, TaskTyped DEF log
    <2> QED
      BY <1>13, <2>2, <2>3 DEF Stall
  <1> QED
    BY <1>7, <1>8, <1>9, <1>10, <1>11, <1>12, <1>13 DEF WorkerStep

\* Every step keeps the types.
LEMMA TypedStep == Typed /\ [Next]_vars => Typed'
  <1> SUFFICES ASSUME Typed, [Next]_vars
               PROVE  Typed'
    OBVIOUS
  <1>1. ASSUME UNCHANGED <<published, adding, work, rows, nextId>>, queue' \subseteq JobOf
        PROVE  Typed'
    BY <1>1 DEF Typed, JobOf, TaskOf, RowOf, At
  <1>2. CASE Publish
    <2>1. /\ published' = published + 1 /\ published < MaxEvents
          /\ adding' = adding \cup {published'} /\ UNCHANGED <<queue, work, rows, nextId>>
      BY <1>2 DEF Publish, log
    <2>2. published' \in published..MaxEvents /\ nextId' \in nextId..(nextId + 1)
      BY <2>1, AuditAssumption DEF Typed
    <2>3. /\ JobOf \subseteq JobOf' /\ TaskOf \subseteq TaskOf' /\ RowOf \subseteq RowOf'
          /\ published' \in 0..MaxEvents /\ nextId' \in Nat \ {0}
          /\ adding \subseteq 1..published'
      BY <2>2, TypesGrow
    <2>4. published' \in 1..published'
      BY <2>1, AuditAssumption DEF Typed
    <2> QED
      BY <2>1, <2>3, <2>4 DEF Typed, At
  <1>3. ASSUME NEW e \in adding, Added(e) \/ AddLost(e) PROVE Typed'
    <2>1. [event |-> e, attempt |-> 1, stalls |-> 0] \in JobOf
      BY AuditAssumption DEF Typed, JobOf
    <2>2. /\ UNCHANGED <<published, work, rows, nextId>> /\ adding' \subseteq adding
          /\ queue' \subseteq JobOf
      BY <1>3, <2>1 DEF Added, AddLost, log, Typed
    <2> QED
      BY <2>2 DEF Typed, JobOf, TaskOf, RowOf, At
  <1>4. ASSUME NEW w \in Worker, NEW job \in queue, Take(w, job) PROVE Typed'
    <2> DEFINE new == [at |-> "upload", job |-> job, owned |-> TRUE, url |-> NoUrl,
                       id |-> 0]
    <2>1. /\ work' = [work EXCEPT ![w] = new] /\ queue' \subseteq queue
          /\ UNCHANGED <<published, adding, log>>
      BY <1>4 DEF Take
    <2>2. job \in JobOf /\ 0 \in 0..(nextId - 1)
      BY DEF Typed
    <2>3. new \in TaskOf /\ new.at = "upload"
      BY <2>2 DEF TaskOf, NoUrl
    <2>4. TaskOf' = TaskOf /\ RowOf' = RowOf
      BY <2>1 DEF log, TaskOf, RowOf, JobOf
    <2> HIDE DEF new
    <2> QED
      BY <2>1, <2>3, <2>4, TaskTyped DEF log, Typed
  <1>5. ASSUME NEW q \in Reader, Query(q) \/ NextPage(q) PROVE Typed'
    BY <1>1, <1>5 DEF Query, NextPage, auditQueue, log, Typed
  <1>6. CASE UNCHANGED vars
    BY <1>1, <1>6 DEF vars, auditQueue, log, Typed
  <1> QED
    BY <1>2, <1>3, <1>4, <1>5, <1>6, WorkTyped DEF Next


\* No worker commits that did not, and no row is new.
LEMMA IdsKept ==
  ASSUME OwnIds, rows' = rows,
         \A v \in Worker : At(v, "commit")' => At(v, "commit") /\ work'[v].id = work[v].id
  PROVE  OwnIds'
  <1>1. \A r, x \in rows' : r.id = x.id => r = x
    BY DEF OwnIds
  <1>2. \A v \in Worker : At(v, "commit")' => \A r \in rows' : r.id # work'[v].id
    BY DEF OwnIds
  <1>3. \A v, w \in Worker :
          At(v, "commit")' /\ At(w, "commit")' /\ work'[v].id = work'[w].id => v = w
    BY DEF OwnIds
  <1> QED
    BY <1>1, <1>2, <1>3 DEF OwnIds, At

\* What a worker does leaves ids its own.
LEMMA WorkOwnIds ==
  ASSUME Typed, OwnIds, NEW w \in Worker, WorkerStep(w) \/ InsertFails(w) \/ Stall(w)
  PROVE  OwnIds'
  <1>1. work = [v \in Worker |-> work[v]] /\ nextId \in Nat \ {0} /\ Idle.at # "commit"
    BY DEF Typed, Idle
  <1>2. /\ \A r \in rows : r.id \in 1..(nextId - 1)
        /\ \A v \in Worker : At(v, "commit") => work[v].id \in 0..(nextId - 1)
    BY <1>1 DEF Typed, RowOf, TaskOf, At
  <1>3. CASE Upload(w) \/ NoUpload(w)
    <2>1. rows' = rows /\ work'[w].at = "insert" /\ \A v \in Worker \ {w} : work'[v] = work[v]
      <3>1. work[w] # Idle
        BY <1>3 DEF Upload, NoUpload, At, Idle
      <3>2. work[w] \in TaskOf
        BY <3>1 DEF Typed
      <3> QED
        BY <1>1, <1>3, <3>2 DEF Upload, NoUpload, Goto, log, TaskOf
    <2> QED
      BY <2>1, IdsKept DEF At
  <1>4. CASE Finish(w) \/ InsertFails(w)
    BY <1>1, <1>4, IdsKept DEF Finish, InsertFails, At, log
  <1>5. CASE Stall(w)
    <2>1. rows' = rows /\ \A v \in Worker \ {w} : work'[v] = work[v]
      BY <1>1, <1>5 DEF Stall, log
    <2>2. work[w] \in TaskOf
      BY <1>5 DEF Stall, Typed, At, Idle
    <2>3. work'[w] = Idle \/ (work'[w].at = work[w].at /\ work'[w].id = work[w].id)
      BY <1>1, <1>5, <2>2 DEF Stall, TaskOf
    <2> QED
      BY <1>1, <2>1, <2>3, IdsKept DEF At
  <1>6. CASE InsertStarts(w)
    <2>1. /\ rows' = rows /\ \A v \in Worker \ {w} : work'[v] = work[v]
          /\ work'[w] = [work[w] EXCEPT !.at = "commit", !.id = nextId]
      BY <1>1, <1>6 DEF InsertStarts
    <2>2. work[w] \in TaskOf
      BY <1>6 DEF InsertStarts, Typed, At, Idle
    <2>3. work'[w].id = nextId
      BY <2>1, <2>2 DEF TaskOf
    <2>4. \A v \in Worker : At(v, "commit")' =>
            IF v = w THEN work'[v].id = nextId
            ELSE At(v, "commit") /\ work'[v].id = work[v].id
      BY <2>1, <2>3 DEF At
    <2>5. \A v \in Worker : At(v, "commit")' => \A r \in rows' : r.id # work'[v].id
      BY <1>1, <1>2, <2>1, <2>4 DEF OwnIds
    <2>6. \A v, x \in Worker :
            At(v, "commit")' /\ At(x, "commit")' /\ work'[v].id = work'[x].id => v = x
      BY <1>1, <1>2, <2>4 DEF OwnIds
    <2> QED
      BY <2>1, <2>5, <2>6 DEF OwnIds, At
  <1>7. CASE Commit(w)
    <2>1. /\ rows' = rows \cup {Row(w)} /\ \A v \in Worker \ {w} : work'[v] = work[v]
          /\ work'[w] = [work[w] EXCEPT !.at = "inserted"] /\ At(w, "commit")
      BY <1>1, <1>7 DEF Commit, Goto
    <2>2. work[w] \in TaskOf
      BY <2>1 DEF Typed, At, Idle
    <2>3. work'[w].at = "inserted"
      BY <2>1, <2>2 DEF TaskOf
    <2>4. Row(w).id = work[w].id /\ \A r \in rows : r.id # Row(w).id
      BY <2>1 DEF Row, OwnIds
    <2>5. \A r, x \in rows' : r.id = x.id => r = x
      BY <2>1, <2>4 DEF OwnIds
    <2>6. \A v \in Worker : At(v, "commit")' => v # w /\ At(v, "commit") /\ work'[v] = work[v]
      BY <2>1, <2>3 DEF At
    <2>7. \A v \in Worker : At(v, "commit")' => \A r \in rows' : r.id # work'[v].id
      BY <2>1, <2>4, <2>6 DEF OwnIds
    <2>8. \A v, x \in Worker :
            At(v, "commit")' /\ At(x, "commit")' /\ work'[v].id = work'[x].id => v = x
      BY <2>6 DEF OwnIds
    <2> QED
      BY <2>5, <2>7, <2>8 DEF OwnIds, At
  <1> QED
    BY <1>3, <1>4, <1>5, <1>6, <1>7 DEF WorkerStep

\* Every step leaves ids their rows' own.
LEMMA OwnIdsStep == Typed /\ OwnIds /\ [Next]_vars => OwnIds'
  <1> SUFFICES ASSUME Typed, OwnIds, [Next]_vars
               PROVE  OwnIds'
    OBVIOUS
  <1>1. ASSUME UNCHANGED <<work, rows>> PROVE OwnIds'
    BY <1>1, IdsKept DEF At
  <1>2. CASE Publish \/ UNCHANGED vars
    BY <1>1, <1>2 DEF Publish, log, vars
  <1>3. CASE \E e \in adding : Added(e) \/ AddLost(e)
    BY <1>1, <1>3 DEF Added, AddLost, log
  <1>4. ASSUME NEW w \in Worker, NEW job \in queue, Take(w, job) PROVE OwnIds'
    <2>1. work'[w].at = "upload" /\ rows' = rows
      BY <1>4 DEF Take, Typed, log
    <2>2. \A v \in Worker \ {w} : work'[v] = work[v]
      BY <1>4 DEF Take, Typed
    <2> QED
      BY <2>1, <2>2, IdsKept DEF At
  <1>5. CASE \E q \in Reader : Query(q) \/ NextPage(q)
    BY <1>1, <1>5 DEF Query, NextPage, log
  <1> QED
    BY <1>2, <1>3, <1>4, <1>5, WorkOwnIds DEF Next

\* Both hold always.
LEMMA TypedAlways == Spec => [](Typed /\ OwnIds)
  <1>1. Init => Typed /\ OwnIds
    BY AuditAssumption DEF Init, Typed, OwnIds, At, Idle, JobOf, RowOf
  <1>2. (Typed /\ OwnIds) /\ [Next]_vars => (Typed /\ OwnIds)'
    BY TypedStep, OwnIdsStep
  <1> QED
    BY <1>1, <1>2, PTL DEF Spec

(***************************************************************************)
(* Rows, jobs and events have their types, and an id given by the table is *)
(* one row's (requests-log.entity.ts), whoever inserts at the same time.   *)
(***************************************************************************)
THEOREM AuditTyped == Spec => []TypeOK
  <1>1. ASSUME Typed, OwnIds PROVE TypeOK
    <2>1. \A w \in Worker : ~At(w, "idle") => work[w].job.event \in 1..published
      <3> SUFFICES ASSUME NEW w \in Worker, ~At(w, "idle")
                   PROVE  work[w].job.event \in 1..published
        OBVIOUS
      <3>1. work[w] \in TaskOf
        BY <1>1 DEF Typed, At, Idle
      <3>2. work[w].job \in JobOf
        BY <3>1 DEF TaskOf
      <3> QED
        BY <3>2 DEF JobOf
    <2> QED
      BY <1>1, <2>1 DEF Typed, OwnIds, TypeOK, JobOf, RowOf
  <1> QED
    BY <1>1, TypedAlways, PTL


(***************************************************************************)
(* Why rows too many are accounted for: an event is in one place at a time *)
(* -- its add, a waiting job, a worker, a row -- and each time a job is    *)
(* taken up again there is a failure more.                                 *)
(***************************************************************************)
Tagged(committed, waiting, carrying, arriving) ==
    ({"row"} \X committed) \cup ({"job"} \X waiting) \cup ({"worker"} \X carrying)
      \cup ({"add"} \X arriving)

JobsOf(e) == {j \in queue : j.event = e}
CarriersOf(e) ==
    {w \in Worker : work[w].at \in {"upload", "insert", "commit"} /\ work[w].job.event = e}
Copies(e) == Tagged(RowsOf(e), JobsOf(e), CarriersOf(e), adding \cap {e})

Budget(e) ==
    (IF e <= published THEN 1 ELSE 0) + failures[<<"insert", e>>] + failures[<<"stall", e>>]

CountOf(e) == IsFiniteSet(Copies(e)) /\ Cardinality(Copies(e)) <= Budget(e)

CountInv ==
    /\ failures \in [Kind \X Event -> Nat]
    /\ \A e \in Event : CountOf(e)

\* One event more is added, or one job more waits.
LEMMA TaggedGrows ==
  ASSUME NEW A, NEW B, NEW C, NEW D, NEW x
  PROVE  /\ Tagged(A, B, C, D \cup {x}) \subseteq Tagged(A, B, C, D) \cup {<<"add", x>>}
         /\ Tagged(A, B \cup {x}, C, D) \subseteq Tagged(A, B, C, D) \cup {<<"job", x>>}
  BY DEF Tagged

\* An event that was added becomes a job.
LEMMA TaggedAdded ==
  ASSUME NEW A, NEW B, NEW C, NEW D, NEW x, NEW y \in D
  PROVE  /\ Tagged(A, B \cup {x}, C, D \ {y}) \subseteq
               (Tagged(A, B, C, D) \ {<<"add", y>>}) \cup {<<"job", x>>}
         /\ <<"add", y>> \in Tagged(A, B, C, D)
  BY DEF Tagged

\* A job goes to a worker.
LEMMA TaggedTaken ==
  ASSUME NEW A, NEW B, NEW C, NEW D, NEW x, NEW y \in B
  PROVE  /\ Tagged(A, B \ {y}, C \cup {x}, D) \subseteq
               (Tagged(A, B, C, D) \ {<<"job", y>>}) \cup {<<"worker", x>>}
         /\ <<"job", y>> \in Tagged(A, B, C, D)
  BY DEF Tagged

\* What a worker carried becomes a row.
LEMMA TaggedCommitted ==
  ASSUME NEW A, NEW B, NEW C, NEW D, NEW x, NEW y \in C
  PROVE  /\ Tagged(A \cup {x}, B, C \ {y}, D) \subseteq
               (Tagged(A, B, C, D) \ {<<"worker", y>>}) \cup {<<"row", x>>}
         /\ <<"worker", y>> \in Tagged(A, B, C, D)
  BY DEF Tagged

\* The places an event can be in, some taken away.
LEMMA TaggedShrinks ==
  ASSUME NEW A, NEW B, NEW C, NEW D, NEW K, NEW L, NEW M, NEW N,
         K \subseteq A, L \subseteq B, M \subseteq C, N \subseteq D
  PROVE  Tagged(K, L, M, N) \subseteq Tagged(A, B, C, D)
  BY DEF Tagged

\* What each event may count up to is a number.
LEMMA BudgetIsNat ==
  ASSUME Typed, failures \in [Kind \X Event -> Nat], NEW e \in Event
  PROVE  Budget(e) \in Nat /\ failures[<<"insert", e>>] \in Nat
         /\ failures[<<"stall", e>>] \in Nat /\ e \in Nat /\ published \in Nat
  BY AuditAssumption DEF Budget, Kind, Event, Typed

\* A set with one element taken and one given, or with one given.
LEMMA Exchange ==
  ASSUME NEW S, IsFiniteSet(S), NEW x \in S, NEW y, NEW T, T \subseteq (S \ {x}) \cup {y}
  PROVE  IsFiniteSet(T) /\ Cardinality(T) <= Cardinality(S)
  <1> DEFINE R == S \ {x}
  <1>1. Cardinality(S) \in Nat
    BY FS_CardinalityType
  <1>2. IsFiniteSet(R) /\ Cardinality(R) = Cardinality(S) - 1
    BY FS_RemoveElement
  <1> HIDE DEF R
  <1>3. IsFiniteSet(R \cup {y})
        /\ Cardinality(R \cup {y}) = IF y \in R THEN Cardinality(R) ELSE Cardinality(R) + 1
    BY <1>2, FS_AddElement
  <1>4. Cardinality(R \cup {y}) <= Cardinality(S)
    BY <1>1, <1>2, <1>3
  <1>5. T \subseteq R \cup {y}
    BY DEF R
  <1>6. IsFiniteSet(T) /\ Cardinality(T) <= Cardinality(R \cup {y})
    BY <1>3, <1>5, FS_Subset
  <1>7. Cardinality(T) \in Nat /\ Cardinality(R \cup {y}) \in Nat
    BY <1>3, <1>6, FS_CardinalityType
  <1> QED
    BY <1>1, <1>4, <1>6, <1>7

\* A set with at most one element more.
LEMMA OneMore ==
  ASSUME NEW S, IsFiniteSet(S), NEW y, NEW T, T \subseteq S \cup {y}
  PROVE  IsFiniteSet(T) /\ Cardinality(T) <= Cardinality(S) + 1
  <1>1. Cardinality(S) \in Nat
    BY FS_CardinalityType
  <1>2. IsFiniteSet(S \cup {y})
        /\ Cardinality(S \cup {y}) = IF y \in S THEN Cardinality(S) ELSE Cardinality(S) + 1
    BY FS_AddElement
  <1>3. IsFiniteSet(T) /\ Cardinality(T) <= Cardinality(S \cup {y})
    BY <1>2, FS_Subset
  <1>4. Cardinality(T) \in Nat
    BY <1>3, FS_CardinalityType
  <1> QED
    BY <1>1, <1>2, <1>3, <1>4

\* An event moves from one place to another, or leaves.
LEMMA CountMoves ==
  ASSUME Typed, failures \in [Kind \X Event -> Nat], NEW e \in Event, CountOf(e),
         NEW x \in Copies(e), NEW y, Copies(e)' \subseteq (Copies(e) \ {x}) \cup {y},
         Budget(e)' = Budget(e)
  PROVE  CountOf(e)'
  <1>1. IsFiniteSet(Copies(e)) /\ Cardinality(Copies(e)) <= Budget(e)
    BY DEF CountOf
  <1>2. IsFiniteSet(Copies(e)') /\ Cardinality(Copies(e)') <= Cardinality(Copies(e))
    BY <1>1, Exchange
  <1>3. Cardinality(Copies(e)) \in Nat /\ Cardinality(Copies(e)') \in Nat /\ Budget(e) \in Nat
    BY <1>1, <1>2, FS_CardinalityType, BudgetIsNat
  <1>4. Cardinality(Copies(e)') <= Budget(e)'
    BY <1>1, <1>2, <1>3
  <1> QED
    BY <1>2, <1>4 DEF CountOf

\* An event comes to a place more, and one more is accounted for.
LEMMA CountGrows ==
  ASSUME Typed, failures \in [Kind \X Event -> Nat], NEW e \in Event, CountOf(e),
         NEW y, Copies(e)' \subseteq Copies(e) \cup {y}, Budget(e)' = Budget(e) + 1
  PROVE  CountOf(e)'
  <1>1. IsFiniteSet(Copies(e)) /\ Cardinality(Copies(e)) <= Budget(e)
    BY DEF CountOf
  <1>2. IsFiniteSet(Copies(e)') /\ Cardinality(Copies(e)') <= Cardinality(Copies(e)) + 1
    BY <1>1, OneMore
  <1>3. Cardinality(Copies(e)) \in Nat /\ Cardinality(Copies(e)') \in Nat /\ Budget(e) \in Nat
    BY <1>1, <1>2, FS_CardinalityType, BudgetIsNat
  <1>4. Cardinality(Copies(e)') <= Budget(e)'
    BY <1>1, <1>2, <1>3
  <1> QED
    BY <1>2, <1>4 DEF CountOf

\* An event comes to no place more.
LEMMA CountStays ==
  ASSUME Typed, failures \in [Kind \X Event -> Nat], NEW e \in Event, CountOf(e),
         RowsOf(e)' \subseteq RowsOf(e), JobsOf(e)' \subseteq JobsOf(e),
         CarriersOf(e)' \subseteq CarriersOf(e), adding' \cap {e} \subseteq adding \cap {e},
         Budget(e)' = Budget(e)
  PROVE  CountOf(e)'
  <1>1. Copies(e)' \subseteq Copies(e)
    BY TaggedShrinks DEF Copies
  <1>2. IsFiniteSet(Copies(e)) /\ Cardinality(Copies(e)) <= Budget(e)
    BY DEF CountOf
  <1>3. IsFiniteSet(Copies(e)') /\ Cardinality(Copies(e)') <= Cardinality(Copies(e))
    BY <1>1, <1>2, FS_Subset
  <1>4. Cardinality(Copies(e)) \in Nat /\ Cardinality(Copies(e)') \in Nat /\ Budget(e) \in Nat
    BY <1>2, <1>3, FS_CardinalityType, BudgetIsNat
  <1>5. Cardinality(Copies(e)') <= Budget(e)'
    BY <1>2, <1>3, <1>4
  <1> QED
    BY <1>3, <1>5 DEF CountOf

\* A failed insert and a stalled job count for their event.
LEMMA BudgetFails ==
  ASSUME Typed, failures \in [Kind \X Event -> Nat], published' = published,
         NEW kind \in {"insert", "stall"}, NEW e \in Event, Failed(kind, e)
  PROVE  /\ failures' \in [Kind \X Event -> Nat]
         /\ Budget(e)' = Budget(e) + 1
         /\ \A x \in Event \ {e} : Budget(x)' = Budget(x)
  <1>1. <<kind, e>> \in Kind \X Event
    BY DEF Kind
  <1>2. /\ failures' = [failures EXCEPT ![<<kind, e>>] = failures[<<kind, e>>] + 1]
        /\ failures[<<kind, e>>] \in Nat
    BY <1>1 DEF Failed
  <1>3. failures' \in [Kind \X Event -> Nat]
    BY <1>1, <1>2
  <1>4. \A k \in Kind, x \in Event : failures'[<<k, x>>] =
          IF k = kind /\ x = e THEN failures[<<k, x>>] + 1 ELSE failures[<<k, x>>]
    BY <1>1, <1>2
  <1>5. "insert" \in Kind /\ "stall" \in Kind /\ "insert" # "stall"
    BY DEF Kind
  <1>6. \A x \in Event : /\ failures[<<"insert", x>>] \in Nat
                         /\ failures[<<"stall", x>>] \in Nat
    BY <1>5
  <1>7. Budget(e)' = Budget(e) + 1
    BY <1>4, <1>5, <1>6 DEF Budget
  <1>8. \A x \in Event \ {e} : Budget(x)' = Budget(x)
    BY <1>4, <1>5 DEF Budget
  <1> QED
    BY <1>3, <1>7, <1>8

\* A job is taken up again, for which a failure accounts.
LEMMA JobAgain ==
  ASSUME Typed, CountInv, UNCHANGED <<published, adding, rows>>,
         NEW kind \in {"insert", "stall"}, NEW e \in Event, Failed(kind, e),
         NEW j, j.event = e, queue' \subseteq queue \cup {j},
         \A x \in Event : CarriersOf(x)' \subseteq CarriersOf(x)
  PROVE  CountInv'
  <1>1. /\ failures' \in [Kind \X Event -> Nat]
        /\ Budget(e)' = Budget(e) + 1
        /\ \A x \in Event \ {e} : Budget(x)' = Budget(x)
    BY BudgetFails DEF CountInv
  <1>2. ASSUME NEW x \in Event, x # e PROVE CountOf(x)'
    <2>1. JobsOf(x)' \subseteq JobsOf(x) /\ RowsOf(x)' = RowsOf(x)
      BY <1>2 DEF JobsOf, RowsOf
    <2> QED
      BY <1>1, <1>2, <2>1, CountStays DEF CountInv
  <1>3. CountOf(e)'
    <2>1. JobsOf(e)' \subseteq JobsOf(e) \cup {j} /\ RowsOf(e)' = RowsOf(e)
      BY DEF JobsOf, RowsOf
    <2>2. Copies(e)' \subseteq
            Tagged(RowsOf(e), JobsOf(e) \cup {j}, CarriersOf(e), adding \cap {e})
      BY <2>1, TaggedShrinks DEF Copies
    <2>3. Copies(e)' \subseteq Copies(e) \cup {<<"job", j>>}
      BY <2>2, TaggedGrows DEF Copies
    <2> QED
      BY <1>1, <2>3, CountGrows DEF CountInv
  <1> QED
    BY <1>1, <1>2, <1>3 DEF CountInv

\* What a worker does leaves every event accounted for.
LEMMA WorkCounts ==
  ASSUME Typed, CountInv, NEW w \in Worker, WorkerStep(w) \/ InsertFails(w) \/ Stall(w)
  PROVE  CountInv'
  <1> DEFINE task == work[w]
             e == task.job.event
  <1>1. work[w] # Idle
    BY DEF WorkerStep, Upload, NoUpload, InsertStarts, Commit, Finish, InsertFails,
           Stall, At, Idle
  <1>2. task \in TaskOf
    BY <1>1 DEF Typed
  <1>3. task.job \in JobOf
    BY <1>2 DEF TaskOf
  <1>4. e \in 1..published /\ e \in Event
    BY <1>3, AuditAssumption DEF JobOf, Event, Typed
  <1>5. work = [v \in Worker |-> work[v]] /\ Idle.at = "idle"
    BY DEF Typed, Idle
  <1>6. ASSUME \A v \in Worker \ {w} : work'[v] = work[v],
               \/ work'[w].at \notin {"upload", "insert", "commit"}
               \/ /\ task.at \in {"upload", "insert", "commit"}
                  /\ work'[w].job = task.job
        PROVE  \A x \in Event : CarriersOf(x)' \subseteq CarriersOf(x)
    BY <1>6 DEF CarriersOf
  <1>7. ASSUME \A x \in Event : CarriersOf(x)' \subseteq CarriersOf(x),
               UNCHANGED <<published, adding, queue, rows, failures>>
        PROVE  CountInv'
    <2>1. \A x \in Event : /\ RowsOf(x)' = RowsOf(x) /\ JobsOf(x)' = JobsOf(x)
                           /\ Budget(x)' = Budget(x)
      BY <1>7 DEF RowsOf, JobsOf, Budget
    <2> QED
      BY <1>7, <2>1, CountStays DEF CountInv
  <1>8. CASE Upload(w) \/ NoUpload(w) \/ InsertStarts(w)
    <2>1. /\ task.at \in {"upload", "insert"} /\ \A v \in Worker \ {w} : work'[v] = work[v]
          /\ UNCHANGED <<published, adding, queue, rows, failures>>
      BY <1>5, <1>8 DEF Upload, NoUpload, InsertStarts, Goto, At, auditQueue, log
    <2>2. work'[w].job = task.job
      BY <1>2, <1>5, <1>8 DEF Upload, NoUpload, InsertStarts, Goto, TaskOf
    <2> QED
      BY <1>6, <1>7, <2>1, <2>2
  <1>9. CASE Commit(w)
    <2>1. /\ task.at = "commit" /\ rows' = rows \cup {Row(w)} /\ Row(w).event = e
          /\ UNCHANGED <<published, adding, queue, failures>>
          /\ work' = [work EXCEPT ![w].at = "inserted"]
      BY <1>9 DEF Commit, Goto, At, auditQueue, Row
    <2>2. \A v \in Worker \ {w} : work'[v] = work[v]
      BY <1>5, <2>1
    <2>3. work'[w].at = "inserted"
      BY <1>2, <1>5, <2>1 DEF TaskOf
    <2>4. \A x \in Event : CarriersOf(x)' \subseteq CarriersOf(x) \ {w}
      BY <2>2, <2>3 DEF CarriersOf
    <2>5. \A x \in Event : JobsOf(x)' = JobsOf(x) /\ Budget(x)' = Budget(x)
      BY <2>1 DEF JobsOf, Budget
    <2>6. w \in CarriersOf(e) /\ RowsOf(e)' \subseteq RowsOf(e) \cup {Row(w)}
          /\ \A x \in Event : x # e => RowsOf(x)' = RowsOf(x)
      BY <2>1 DEF CarriersOf, RowsOf
    <2>7. ASSUME NEW x \in Event, x = e PROVE CountOf(x)'
      <3>1. /\ RowsOf(x)' \subseteq RowsOf(x) \cup {Row(w)} /\ JobsOf(x)' \subseteq JobsOf(x)
            /\ CarriersOf(x)' \subseteq CarriersOf(x) \ {w} /\ w \in CarriersOf(x)
            /\ adding' \cap {x} \subseteq adding \cap {x}
        BY <2>1, <2>4, <2>5, <2>6, <2>7 DEF RowsOf
      <3>2. Copies(x)' \subseteq
              Tagged(RowsOf(x) \cup {Row(w)}, JobsOf(x), CarriersOf(x) \ {w}, adding \cap {x})
        BY <3>1, TaggedShrinks DEF Copies
      <3>3. /\ Copies(x)' \subseteq (Copies(x) \ {<<"worker", w>>}) \cup {<<"row", Row(w)>>}
            /\ <<"worker", w>> \in Copies(x)
        BY <3>1, <3>2, TaggedCommitted DEF Copies
      <3> QED
        BY <2>5, <3>3, CountMoves DEF CountInv
    <2>8. ASSUME NEW x \in Event, x # e PROVE CountOf(x)'
      BY <2>1, <2>4, <2>5, <2>6, <2>8, CountStays DEF CountInv
    <2> QED
      BY <2>1, <2>7, <2>8 DEF CountInv
  <1>10. CASE Finish(w)
    <2>1. /\ \A v \in Worker \ {w} : work'[v] = work[v] /\ work'[w] = Idle
          /\ UNCHANGED <<published, adding, queue, rows, failures>>
      BY <1>5, <1>10 DEF Finish, auditQueue, log
    <2>2. work'[w] = Idle
      BY <1>5, <1>10 DEF Finish
    <2> QED
      BY <1>5, <1>6, <1>7, <2>1, <2>2
  <1>11. CASE InsertFails(w)
    <2>1. /\ \A v \in Worker \ {w} : work'[v] = work[v]
          /\ work'[w] = Idle /\ UNCHANGED <<published, adding, rows>>
          /\ Failed("insert", e) /\ queue' \subseteq queue \cup Retry(task.job)
      BY <1>5, <1>11 DEF InsertFails, log
    <2>2. PICK j : j.event = e /\ Retry(task.job) \subseteq {j}
      <3>1. [task.job EXCEPT !.attempt = task.job.attempt + 1].event = e
        BY <1>3 DEF JobOf
      <3> QED
        BY <3>1 DEF Retry
    <2>3. \A x \in Event : CarriersOf(x)' \subseteq CarriersOf(x)
      BY <1>5, <1>6, <2>1
    <2> HIDE DEF e, task
    <2> QED
      BY <1>4, <2>1, <2>2, <2>3, JobAgain
  <1>12. CASE Stall(w)
    <2>1. /\ \A v \in Worker \ {w} : work'[v] = work[v]
          /\ UNCHANGED <<published, adding, rows>>
          /\ Failed("stall", e) /\ queue' \subseteq queue \cup Recover(task.job)
      BY <1>5, <1>12 DEF Stall, log
    <2>2. PICK j : j.event = e /\ Recover(task.job) \subseteq {j}
      <3>1. [task.job EXCEPT !.stalls = task.job.stalls + 1].event = e
        BY <1>3 DEF JobOf
      <3> QED
        BY <3>1 DEF Recover
    <2>3. work'[w] = Idle \/ (work'[w].at = task.at /\ work'[w].job = task.job)
      BY <1>2, <1>5, <1>12 DEF Stall, TaskOf
    <2>4. \A x \in Event : CarriersOf(x)' \subseteq CarriersOf(x)
      BY <1>5, <1>6, <2>1, <2>3
    <2> HIDE DEF e, task
    <2> QED
      BY <1>4, <2>1, <2>2, <2>4, JobAgain
  <1> QED
    BY <1>8, <1>9, <1>10, <1>11, <1>12 DEF WorkerStep

\* Every step leaves every event accounted for.
LEMMA CountStep == Typed /\ CountInv /\ [Next]_vars => CountInv'
  <1> SUFFICES ASSUME Typed, CountInv, [Next]_vars
               PROVE  CountInv'
    OBVIOUS
  <1>1. ASSUME UNCHANGED <<auditQueue, work, rows, failures>> PROVE CountInv'
    <2>1. \A x \in Event : /\ RowsOf(x)' = RowsOf(x) /\ JobsOf(x)' = JobsOf(x)
                           /\ CarriersOf(x)' = CarriersOf(x) /\ Budget(x)' = Budget(x)
      BY <1>1 DEF RowsOf, JobsOf, CarriersOf, Budget, auditQueue
    <2> QED
      BY <1>1, <2>1, CountStays DEF CountInv, auditQueue
  <1>2. CASE Publish
    <2>1. /\ published' = published + 1 /\ published \in Nat
          /\ adding' = adding \cup {published'} /\ UNCHANGED <<queue, work, rows, failures>>
      BY <1>2, AuditAssumption DEF Publish, log, Typed
    <2>2. \A x \in Event : /\ RowsOf(x)' = RowsOf(x) /\ JobsOf(x)' = JobsOf(x)
                           /\ CarriersOf(x)' = CarriersOf(x)
      BY <2>1 DEF RowsOf, JobsOf, CarriersOf
    <2>3. \A x \in Event : x \in Int /\ failures[<<"insert", x>>] \in Nat
                           /\ failures[<<"stall", x>>] \in Nat
      BY DEF CountInv, Event, Kind
    <2>4. ASSUME NEW x \in Event, x # published' PROVE CountOf(x)'
      <3>1. Budget(x)' = Budget(x)
        BY <2>1, <2>3, <2>4 DEF Budget
      <3>2. adding' \cap {x} \subseteq adding \cap {x}
        BY <2>1, <2>4
      <3> QED
        BY <2>2, <3>1, <3>2, CountStays DEF CountInv
    <2>5. ASSUME NEW x \in Event, x = published' PROVE CountOf(x)'
      <3>1. Budget(x)' = Budget(x) + 1
        BY <2>1, <2>3, <2>5 DEF Budget
      <3>2. adding' \cap {x} \subseteq (adding \cap {x}) \cup {x}
        BY <2>1
      <3>3. Copies(x)' \subseteq
              Tagged(RowsOf(x), JobsOf(x), CarriersOf(x), (adding \cap {x}) \cup {x})
        BY <2>2, <3>2, TaggedShrinks DEF Copies
      <3>4. Copies(x)' \subseteq Copies(x) \cup {<<"add", x>>}
        BY <3>3, TaggedGrows DEF Copies
      <3> QED
        BY <3>1, <3>4, CountGrows DEF CountInv
    <2> QED
      BY <2>1, <2>4, <2>5 DEF CountInv
  <1>3. ASSUME NEW e \in adding, Added(e) PROVE CountInv'
    <2> DEFINE j == [event |-> e, attempt |-> 1, stalls |-> 0]
    <2>1. /\ adding' = adding \ {e} /\ queue' = queue \cup {j} /\ j.event = e
          /\ UNCHANGED <<published, work, rows, failures>>
      BY <1>3 DEF Added, log
    <2>2. e \in Event
      BY AuditAssumption DEF Typed, Event
    <2> HIDE DEF j
    <2>3. \A x \in Event : /\ RowsOf(x)' = RowsOf(x) /\ CarriersOf(x)' = CarriersOf(x)
                           /\ Budget(x)' = Budget(x) /\ JobsOf(x)' \subseteq JobsOf(x) \cup {j}
                           /\ x # e => JobsOf(x)' = JobsOf(x)
      BY <2>1 DEF RowsOf, JobsOf, CarriersOf, Budget
    <2>4. ASSUME NEW x \in Event, x # e PROVE CountOf(x)'
      BY <2>1, <2>3, <2>4, CountStays DEF CountInv
    <2>5. Copies(e)' \subseteq
            Tagged(RowsOf(e), JobsOf(e) \cup {j}, CarriersOf(e), (adding \cap {e}) \ {e})
      BY <2>1, <2>2, <2>3, TaggedShrinks DEF Copies
    <2>6. /\ Copies(e)' \subseteq (Copies(e) \ {<<"add", e>>}) \cup {<<"job", j>>}
          /\ <<"add", e>> \in Copies(e)
      BY <2>5, TaggedAdded DEF Copies
    <2>7. CountOf(e)'
      BY <2>2, <2>3, <2>6, CountMoves DEF CountInv
    <2> QED
      BY <2>1, <2>4, <2>7 DEF CountInv
  <1>4. ASSUME NEW e \in adding, AddLost(e) PROVE CountInv'
    <2>1. /\ adding' = adding \ {e} /\ UNCHANGED <<published, queue, work, rows>>
          /\ Failed("add", e) /\ <<"add", e>> \in Kind \X Event
      BY <1>4, AuditAssumption DEF AddLost, log, Kind, Event, Typed
    <2>2. /\ failures' = [failures EXCEPT ![<<"add", e>>] = failures[<<"add", e>>] + 1]
          /\ failures[<<"add", e>>] \in Nat
      BY <2>1 DEF Failed, CountInv
    <2>3. failures' \in [Kind \X Event -> Nat]
      BY <2>1, <2>2 DEF CountInv
    <2>4. \A x \in Event : /\ failures'[<<"insert", x>>] = failures[<<"insert", x>>]
                           /\ failures'[<<"stall", x>>] = failures[<<"stall", x>>]
      BY <2>1, <2>2 DEF CountInv, Kind
    <2>5. \A x \in Event : /\ RowsOf(x)' = RowsOf(x) /\ JobsOf(x)' = JobsOf(x)
                           /\ CarriersOf(x)' = CarriersOf(x) /\ Budget(x)' = Budget(x)
      BY <2>1, <2>4 DEF RowsOf, JobsOf, CarriersOf, Budget
    <2> QED
      BY <2>1, <2>3, <2>5, CountStays DEF CountInv
  <1>5. ASSUME NEW w \in Worker, NEW job \in queue, Take(w, job) PROVE CountInv'
    <2> DEFINE e == job.event
    <2>1. /\ queue' = queue \ {job} /\ UNCHANGED <<published, adding, rows, failures>>
          /\ work'[w].at = "upload" /\ work'[w].job = job
          /\ \A v \in Worker \ {w} : work'[v] = work[v]
      BY <1>5 DEF Take, log, Typed
    <2>2. e \in Event
      BY AuditAssumption DEF Typed, Event, JobOf
    <2>3. \A x \in Event : /\ RowsOf(x)' = RowsOf(x) /\ Budget(x)' = Budget(x)
                           /\ JobsOf(x)' \subseteq JobsOf(x) \ {job}
                           /\ CarriersOf(x)' \subseteq CarriersOf(x) \cup {w}
                           /\ x # e => CarriersOf(x)' \subseteq CarriersOf(x)
      BY <2>1 DEF RowsOf, JobsOf, CarriersOf, Budget
    <2>4. job \in JobsOf(e)
      BY DEF JobsOf
    <2> HIDE DEF e
    <2>5. ASSUME NEW x \in Event, x # e PROVE CountOf(x)'
      BY <2>1, <2>3, <2>5, CountStays DEF CountInv
    <2>6. Copies(e)' \subseteq
            Tagged(RowsOf(e), JobsOf(e) \ {job}, CarriersOf(e) \cup {w}, adding \cap {e})
      BY <2>1, <2>2, <2>3, TaggedShrinks DEF Copies
    <2>7. /\ Copies(e)' \subseteq (Copies(e) \ {<<"job", job>>}) \cup {<<"worker", w>>}
          /\ <<"job", job>> \in Copies(e)
      BY <2>4, <2>6, TaggedTaken DEF Copies
    <2>8. CountOf(e)'
      BY <2>2, <2>3, <2>7, CountMoves DEF CountInv
    <2> QED
      BY <2>1, <2>5, <2>8 DEF CountInv
  <1>6. CASE \E q \in Reader : Query(q) \/ NextPage(q)
    BY <1>1, <1>6 DEF Query, NextPage, log
  <1>7. CASE UNCHANGED vars
    BY <1>1, <1>7 DEF vars, log, auditQueue
  <1> QED
    BY <1>2, <1>3, <1>4, <1>5, <1>6, <1>7, WorkCounts DEF Next

(***************************************************************************)
(* An event has one row, and one more at most for each of its inserts that *)
(* failed and each time its job stalled (audit.queue.ts: 3 attempts;       *)
(* audit.processor.ts:30-62), however many workers and retries there are.  *)
(***************************************************************************)
THEOREM DuplicatesTheorem == Spec => []DuplicatesAreExplained
  <1>1. Init => CountInv
    <2> SUFFICES ASSUME Init PROVE CountInv
      OBVIOUS
    <2>1. failures \in [Kind \X Event -> Nat]
      BY DEF Init
    <2>2. ASSUME NEW e \in Event PROVE CountOf(e)
      <3>1. RowsOf(e) = {} /\ JobsOf(e) = {} /\ CarriersOf(e) = {} /\ adding \cap {e} = {}
        BY DEF Init, RowsOf, JobsOf, CarriersOf, Idle
      <3>2. Copies(e) = {}
        BY <3>1 DEF Copies, Tagged
      <3>3. Budget(e) = 0
        BY DEF Init, Budget, Event, Kind
      <3> QED
        BY <3>2, <3>3, FS_EmptySet DEF CountOf
    <2> QED
      BY <2>1, <2>2 DEF CountInv
  <1>2. Typed /\ CountInv => DuplicatesAreExplained
    <2> SUFFICES ASSUME Typed, CountInv, NEW e \in Event
                 PROVE  Cardinality(RowsOf(e)) <=
                          1 + failures[<<"insert", e>>] + failures[<<"stall", e>>]
      BY DEF DuplicatesAreExplained
    <2> DEFINE f == [r \in RowsOf(e) |-> <<"row", r>>]
    <2>1. f \in Injection(RowsOf(e), Copies(e))
      BY DEF Injection, IsInjective, Copies, Tagged
    <2>2. IsFiniteSet(Copies(e)) /\ Cardinality(Copies(e)) <= Budget(e)
      BY DEF CountInv, CountOf
    <2>3. IsFiniteSet(RowsOf(e)) /\ Cardinality(RowsOf(e)) <= Cardinality(Copies(e))
      BY <2>1, <2>2, FS_Injection
    <2>4. /\ Cardinality(RowsOf(e)) \in Nat /\ Cardinality(Copies(e)) \in Nat
          /\ Budget(e) \in Nat
      BY <2>2, <2>3, FS_CardinalityType, BudgetIsNat DEF CountInv
    <2>5. Budget(e) <= 1 + failures[<<"insert", e>>] + failures[<<"stall", e>>]
      BY BudgetIsNat DEF Budget, CountInv
    <2>6. 1 + failures[<<"insert", e>>] + failures[<<"stall", e>>] \in Nat
      BY BudgetIsNat DEF CountInv
    <2> QED
      BY <2>2, <2>3, <2>4, <2>5, <2>6
  <1>3. CountInv /\ [](Typed /\ OwnIds) /\ [][Next]_vars => []CountInv
    BY CountStep, PTL
  <1> QED
    BY <1>1, <1>2, <1>3, TypedAlways, PTL DEF Spec


(***************************************************************************)
(* Why pages are exact: what a reader has lies at its cursor or above, and *)
(* every row it is owed it has, or the row lies below.                     *)
(***************************************************************************)
\* A set of numbers has a least one.
LEMMA LeastOne ==
  ASSUME NEW S, S \subseteq Nat, S # {}
  PROVE  \E m \in S : \A i \in S : m <= i
  <1>1. PICK m \in S : \A i \in S : ~ (<<i, m>> \in OpToRel(<, Nat))
    BY NatLessThanWellFounded, WFMin
  <1>2. \A i \in S : ~ (i < m)
    BY <1>1 DEF OpToRel
  <1> QED
    BY <1>2

\* The least of a page is its Min.
LEMMA MinIsLeast ==
  ASSUME NEW S, S \subseteq Nat, S # {}
  PROVE  Min(S) \in S /\ \A i \in S : Min(S) <= i
  BY LeastOne DEF Min

\* A page of a set has its greatest id, and with an id all greater ones.
LEMMA PageIsTop ==
  ASSUME NEW n \in Nat, NEW S, S \subseteq 1..n
  PROVE  /\ Page(S) \subseteq S
         /\ S # {} => Page(S) # {}
         /\ \A m \in Page(S), i \in S : i >= m => i \in Page(S)
  <1>1. IsFiniteSet(S)
    <2>1. IsFiniteSet(1..n)
      BY FS_Interval
    <2> QED
      BY <2>1, FS_Subset
  <1> DEFINE Above(i) == {j \in S : j > i}
  <1>2. \A i \in S : IsFiniteSet(Above(i)) /\ Cardinality(Above(i)) \in Nat
    BY <1>1, FS_Subset, FS_CardinalityType
  <1>3. ASSUME NEW m \in Page(S), NEW i \in S, i >= m PROVE i \in Page(S)
    <2>1. m \in S /\ Cardinality(Above(m)) < PageSize
      BY DEF Page
    <2>2. Above(i) \subseteq Above(m)
      <3>1. \A j \in S : j > i => j > m
        BY <1>3, <2>1
      <3> QED
        BY <3>1
    <2>3. Cardinality(Above(i)) <= Cardinality(Above(m))
      BY <1>2, <2>1, <2>2, FS_Subset
    <2>4. Cardinality(Above(i)) < PageSize
      BY <1>2, <2>1, <2>3, AuditAssumption
    <2> QED
      BY <2>4 DEF Page
  <1>4. ASSUME S # {} PROVE Page(S) # {}
    <2> DEFINE gaps == {g \in 0..n : n - g \in S}
    <2>1. gaps \subseteq Nat /\ gaps # {}
      <3>1. PICK i : i \in S
        BY <1>4
      <3>2. n - i \in gaps
        BY <3>1
      <3> QED
        BY <3>2
    <2>2. PICK g \in gaps : \A h \in gaps : g <= h
      BY <2>1, LeastOne
    <2>3. n - g \in S /\ Above(n - g) = {}
      <3>1. \A j \in S : n - j \in gaps
        OBVIOUS
      <3>2. \A j \in S : g <= n - j
        BY <2>2, <3>1
      <3>3. \A j \in S : ~ (j > n - g)
        BY <2>2, <3>2
      <3> QED
        BY <2>2, <3>3
    <2>4. Cardinality(Above(n - g)) < PageSize
      BY <2>3, FS_EmptySet, AuditAssumption
    <2> QED
      BY <2>3, <2>4 DEF Page
  <1> QED
    BY <1>3, <1>4 DEF Page

RowIds == {r.id : r \in rows}

ReadOf == [cursor : Nat, got : SUBSET Nat, due : SUBSET Nat, again : SUBSET Nat,
           missed : SUBSET Nat]

Exact(read, ids) ==
    /\ read \in ReadOf /\ read.again = {} /\ read.missed = {}
    /\ read.got \subseteq ids /\ read.due \subseteq ids
    /\ read.cursor # 0 =>
         /\ \A i \in read.got : i >= read.cursor
         /\ \A i \in read.due : i \in read.got \/ i < read.cursor

ReadInv ==
    /\ reads = [q \in Reader |-> reads[q]]
    /\ \A q \in Reader : Exact(reads[q], RowIds)

\* Ids of rows are numbers, below the table's next.
LEMMA RowIdsBound == Typed => RowIds \subseteq 1..(nextId - 1) /\ nextId - 1 \in Nat
  BY DEF Typed, RowIds, RowOf

\* More rows leave a reader exact.
LEMMA ExactGrows ==
  ASSUME NEW read, NEW ids, NEW more, Exact(read, ids), ids \subseteq more
  PROVE  Exact(read, more)
  BY DEF Exact

\* A reader is exact with its first page.
LEMMA FirstExact ==
  ASSUME NEW n \in Nat, NEW ids, ids \subseteq 1..n, ids # {}, NEW read, Exact(read, ids)
  PROVE  Exact([read EXCEPT !.cursor = Min(Page(ids)), !.got = Page(ids), !.due = ids], ids)
  <1> DEFINE page == Page(ids)
             new == [read EXCEPT !.cursor = Min(page), !.got = page, !.due = ids]
  <1>1. ids \subseteq Nat
    OBVIOUS
  <1>2. /\ page \subseteq ids /\ page # {}
        /\ \A m \in page, i \in ids : i >= m => i \in page
    BY PageIsTop
  <1> HIDE DEF page
  <1>3. /\ page \subseteq ids /\ page # {} /\ page \subseteq Nat
        /\ \A m \in page, i \in ids : i >= m => i \in page
    BY <1>1, <1>2
  <1>4. Min(page) \in page /\ \A i \in page : Min(page) <= i
    BY <1>3, MinIsLeast
  <1>5. new \in ReadOf /\ new.again = {} /\ new.missed = {} /\ new.cursor = Min(page)
        /\ new.got = page /\ new.due = ids
    <2>1. Min(page) \in Nat /\ page \in SUBSET Nat /\ ids \in SUBSET Nat
      BY <1>1, <1>3, <1>4
    <2>2. read \in ReadOf /\ read.again = {} /\ read.missed = {}
      BY DEF Exact
    <2> QED
      BY <2>1, <2>2 DEF ReadOf
  <1> HIDE DEF new
  <1>6. \A i \in new.got : i >= new.cursor
    BY <1>3, <1>4, <1>5
  <1>7. \A i \in new.due : i \in new.got \/ i < new.cursor
    <2> SUFFICES ASSUME NEW i \in ids, i \notin page
                 PROVE  i < Min(page)
      BY <1>5
    <2>1. ~ (i >= Min(page))
      BY <1>3, <1>4
    <2>2. i \in Nat /\ Min(page) \in Nat
      BY <1>1, <1>3, <1>4
    <2> QED
      BY <2>1, <2>2
  <1>8. Exact(new, ids)
    BY <1>3, <1>5, <1>6, <1>7 DEF Exact
  <1> QED
    BY <1>8 DEF new, page

\* A reader is exact with its next page, and owed nothing when there is none.
LEMMA NextExact ==
  ASSUME NEW n \in Nat, NEW ids, ids \subseteq 1..n, NEW read, Exact(read, ids),
         read.cursor # 0, NEW below, below = {i \in ids : i < read.cursor}
  PROVE  /\ Page(below) = {} => read.due \ read.got = {}
         /\ Page(below) # {} =>
              Exact([read EXCEPT !.cursor = Min(Page(below)), !.got = read.got \cup Page(below),
                                 !.again = read.again \cup (read.got \cap Page(below))], ids)
  <1> DEFINE page == Page(below)
             new == [read EXCEPT !.cursor = Min(page), !.got = read.got \cup page,
                                 !.again = read.again \cup (read.got \cap page)]
  <1>1. /\ page \subseteq below
        /\ below # {} => page # {}
        /\ \A m \in page, i \in below : i >= m => i \in page
    BY PageIsTop
  <1>2. /\ read \in ReadOf /\ read.again = {} /\ read.missed = {} /\ read.cursor \in Nat
        /\ read.got \subseteq Nat /\ read.due \subseteq Nat
        /\ read.got \subseteq ids /\ read.due \subseteq ids
        /\ \A i \in read.got : i >= read.cursor
        /\ \A i \in read.due : i \in read.got \/ i < read.cursor
    BY DEF Exact, ReadOf
  <1> HIDE DEF page
  <1>3. ASSUME page = {} PROVE read.due \ read.got = {}
    BY <1>1, <1>2, <1>3
  <1>4. ASSUME page # {} PROVE Exact(new, ids)
    <2>1. \A i \in below : i \in Nat /\ i \in ids /\ i < read.cursor
      OBVIOUS
    <2>2. page \subseteq Nat /\ page \subseteq ids /\ \A i \in page : i < read.cursor
      BY <1>1, <2>1
    <2>3. Min(page) \in page /\ \A i \in page : Min(page) <= i
      BY <1>4, <2>2, MinIsLeast
    <2>4. read.got \cap page = {}
      BY <1>2, <2>2
    <2>5. new \in ReadOf /\ new.again = {} /\ new.missed = {} /\ new.cursor = Min(page)
          /\ new.got = read.got \cup page /\ new.due = read.due
      BY <1>2, <2>2, <2>3, <2>4 DEF ReadOf
    <2> HIDE DEF new
    <2>6. \A i \in new.got : i >= new.cursor
      <3>1. Min(page) \in Nat /\ Min(page) < read.cursor
        BY <2>2, <2>3
      <3>2. \A i \in read.got : i \in Nat /\ i >= read.cursor
        BY <1>2
      <3>3. \A i \in read.got : i >= Min(page)
        BY <1>2, <3>1, <3>2
      <3>4. \A i \in page : i >= Min(page)
        BY <2>2, <2>3
      <3> QED
        BY <2>5, <3>3, <3>4
    <2>7. \A i \in new.due : i \in new.got \/ i < new.cursor
      <3> SUFFICES ASSUME NEW i \in read.due, i \notin read.got, i \notin page
                   PROVE  i < Min(page)
        BY <2>5
      <3>1. i \in below /\ i \in Nat
        BY <1>2
      <3>2. ~ (i >= Min(page))
        BY <1>1, <2>3, <3>1
      <3>3. Min(page) \in Nat
        BY <2>2, <2>3
      <3> QED
        BY <3>1, <3>2, <3>3
    <2> QED
      BY <1>2, <2>2, <2>5, <2>6, <2>7 DEF Exact
  <1> QED
    BY <1>3, <1>4 DEF page, new

\* Every step leaves readers exact.
LEMMA ReadStep == Typed /\ ReadInv /\ [Next]_vars => ReadInv'
  <1> SUFFICES ASSUME Typed, ReadInv, [Next]_vars
               PROVE  ReadInv'
    OBVIOUS
  <1>1. ASSUME reads' = reads, rows \subseteq rows' PROVE ReadInv'
    <2>1. RowIds \subseteq RowIds'
      BY <1>1 DEF RowIds
    <2> QED
      BY <1>1, <2>1, ExactGrows DEF ReadInv
  <1>2. RowIds \subseteq 1..(nextId - 1) /\ nextId - 1 \in Nat
    BY RowIdsBound
  <1>3. ASSUME NEW q \in Reader, Query(q) PROVE ReadInv'
    <2> DEFINE new == [reads[q] EXCEPT !.cursor = Min(Page(RowIds)), !.got = Page(RowIds),
                                       !.due = RowIds]
    <2>1. Below(0) = RowIds
      BY DEF Below, RowIds
    <2>2. reads' = [reads EXCEPT ![q] = new] /\ rows # {} /\ rows' = rows
      BY <1>3, <2>1 DEF Query, log, ReadInv
    <2>3. RowIds # {} /\ RowIds' = RowIds
      BY <2>2 DEF RowIds
    <2>4. Exact(new, RowIds)
      BY <1>2, <2>3, FirstExact DEF ReadInv
    <2> HIDE DEF new
    <2> QED
      BY <2>2, <2>3, <2>4 DEF ReadInv
  <1>4. ASSUME NEW q \in Reader, NextPage(q) PROVE ReadInv'
    <2> DEFINE read == reads[q]
               below == Below(read.cursor)
               page == Page(below)
               last == [NotReading EXCEPT !.again = read.again,
                                          !.missed = read.missed \cup (read.due \ read.got)]
               next == [read EXCEPT !.cursor = Min(page), !.got = read.got \cup page,
                                    !.again = read.again \cup (read.got \cap page)]
    <2>1. /\ read.cursor # 0 /\ rows' = rows
          /\ reads' = [reads EXCEPT ![q] = IF page = {} THEN last ELSE next]
      BY <1>4 DEF NextPage, log
    <2>2. below = {i \in RowIds : i < read.cursor}
      BY <2>1 DEF Below, RowIds
    <2>3. Exact(read, RowIds) /\ RowIds' = RowIds
      BY <2>1 DEF ReadInv, RowIds
    <2> HIDE DEF read, below
    <2>4. /\ page = {} => read.due \ read.got = {}
          /\ page # {} => Exact(next, RowIds)
      BY <1>2, <2>1, <2>2, <2>3, NextExact
    <2>5. page = {} => Exact(last, RowIds)
      BY <2>3, <2>4 DEF Exact, ReadOf, NotReading
    <2>6. Exact(IF page = {} THEN last ELSE next, RowIds)
      BY <2>4, <2>5
    <2> HIDE DEF page, last, next
    <2> QED
      BY <2>1, <2>3, <2>6 DEF ReadInv
  <1>5. CASE UNCHANGED vars \/ Publish \/ \E e \in adding : Added(e) \/ AddLost(e)
    BY <1>1, <1>5 DEF vars, Publish, Added, AddLost, log
  <1>6. ASSUME NEW w \in Worker,
               \/ \E job \in queue : Take(w, job)
               \/ WorkerStep(w) \/ InsertFails(w) \/ Stall(w)
        PROVE  ReadInv'
    <2>1. reads' = reads /\ rows \subseteq rows'
      BY <1>6 DEF Take, WorkerStep, Upload, NoUpload, InsertStarts, Commit, Finish,
                  InsertFails, Stall, log
    <2> QED
      BY <1>1, <2>1
  <1> QED
    BY <1>3, <1>4, <1>5, <1>6 DEF Next

(***************************************************************************)
(* Paging by a descending cursor gives no row twice and leaves out none    *)
(* that was committed before the first page (requests-log.service.ts:      *)
(* queryAuditLogs), whatever is inserted meanwhile and whatever the limit. *)
(***************************************************************************)
THEOREM PagesTheorem == Spec => []PagesAreExact
  <1>1. Init => ReadInv
    BY DEF Init, ReadInv, Exact, ReadOf, NotReading
  <1>2. ReadInv => PagesAreExact
    BY DEF ReadInv, Exact, PagesAreExact
  <1>3. ReadInv /\ [](Typed /\ OwnIds) /\ [][Next]_vars => []ReadInv
    BY ReadStep, PTL
  <1> QED
    BY <1>1, <1>2, <1>3, TypedAlways, PTL DEF Spec

=============================================================================
