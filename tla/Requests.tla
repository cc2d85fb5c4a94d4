------------------------------ MODULE Requests ------------------------------
(***************************************************************************)
(* The requests of the management API.  A request reads, decides, and      *)
(* writes what it read and assigned; the MySQL calls of other requests     *)
(* come in between.  call[a] holds the calls that a's request still has to *)
(* make, todo, and what it knows.  A request refused at its first read     *)
(* changes nothing; only those refused later are steps.                    *)
(***************************************************************************)
EXTENDS Integers, Sequences

CONSTANTS Admin,                  \* those who make requests, one at a time
          MaxCalls, MaxFailures   \* bounds

ASSUME RequestsAssumption == Admin # {} /\ MaxCalls \in Nat /\ MaxFailures \in Nat

VARIABLES call,      \* call[a]: the request of a
          calls,     \* how many requests there were
          failures,  \* how many of them failed half way
          marks      \* history: the kinds of requests that overlapped, and
                     \* "unchecked" if an API got a name nobody looked up

requestVars == <<call, calls, failures, marks>>

\* The values of f, and those of g where f has none.
Over(f, g) ==
    [x \in DOMAIN f \cup DOMAIN g |-> IF x \in DOMAIN f THEN f[x] ELSE g[x]]

Idle == [kind |-> "none", todo |-> <<>>]

\* The next MySQL call of a is the one named step.
Due(a, step) == call[a].todo # <<>> /\ Head(call[a].todo) = step

\* A request begins with its first read.
Begin(a, kind, todo, known) ==
    /\ call[a] = Idle /\ calls < MaxCalls
    /\ calls' = calls + 1
    /\ call' = [call EXCEPT ![a] = Over([kind |-> kind, todo |-> todo], known)]
    /\ marks' = marks \cup {kind : b \in {x \in Admin : call[x].kind = kind}}
    /\ UNCHANGED failures

Done(a) == call' = [call EXCEPT ![a] = Idle]

\* A MySQL call returned: on to the next one, or to the reply.
Proceed(a) ==
    IF Len(call[a].todo) = 1 THEN Done(a)
    ELSE call' = [call EXCEPT ![a].todo = Tail(@)]

\* A MySQL call rejects, or the process ends.
Fail(a) ==
    /\ call[a] # Idle /\ failures < MaxFailures
    /\ failures' = failures + 1
    /\ Done(a)
    /\ UNCHANGED <<calls, marks>>

(***************************************************************************)
(* Object.assign(entity, dto).  No ValidationPipe is installed, so a body  *)
(* may name any column, id included; what it names beyond the columns of   *)
(* the entity is ignored.                                                  *)
(***************************************************************************)
Assigned(body, row) == [c \in DOMAIN row |-> Over(body, row)[c]]

\* The row that save then writes.
Target(body, id) == IF "id" \in DOMAIN body THEN body.id ELSE id

(***************************************************************************)
(* TypeORM's save selects the row of the entity's id once more and then    *)
(* updates the columns in which the entity differs.  Other requests write  *)
(* before that SELECT or after it: the row gets every column of the entity *)
(* or only those that differ from what it was when the request began.  A   *)
(* row that the SELECT does not find is inserted, which rejects if another *)
(* request has inserted it meanwhile; then read is the entity itself.      *)
(***************************************************************************)
Saved(a, row) ==
    LET entity == Over(call[a].entity, row)
        changed == {c \in DOMAIN call[a].entity : entity[c] # call[a].read[c]}
    IN  {entity, [c \in DOMAIN row |-> IF c \in changed THEN entity[c] ELSE row[c]]}
=============================================================================
