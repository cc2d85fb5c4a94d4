# TLA+ models of RateSentinel

RateSentinel stands in front of APIs and decides for each request whether it is
forwarded, throttled or blocked. It is two NestJS programs: `src/apps/api` (the
gateway and the management API, any number of processes) and `src/apps/worker`
(consumers of two BullMQ queues). They share a Redis, a MySQL database and an S3
bucket, and nothing else: **every hard question about this code is about what other
processes do between two of its Redis or MySQL calls**. That is the grain of these
models: one `await`ed call, or one Lua script, is one step.

## The system and its parts

| part | state | operations | who else touches it |
|---|---|---|---|
| token bucket (`token-bucket.lua`, `RateLimitEngine.consumeToken`) | a Redis hash with TTL | read the clock, run the script | every API process |
| sliding window (`sliding-window.lua`, `checkSlidingWindow`) | a sorted set with TTL | read the clock, run the script | every API process |
| engine, guard, gateway handler | metrics; the request itself | up to eight checks, tracking of a 429, block check, audit event | the two above, the blocks, the audit queue |
| blocks of the API (`BlockedEventsService`, `trackRepeated429`) | the key `block:<tenant>:ip:<ip>`, the 429 counter, `blocked_events` | create, unblockById, unblockByEntity, track, isBlocked | administrators, requests, the clock |
| abuse processor (worker) | counters, sets, `block:*` keys, `blocked_events` | four detectors, persistBlock, escalation, permanent block | every worker, BullMQ's deliveries |
| audit queue, audit processor | jobs, `requests_log`, snapshots, abuse jobs | publish, upload, insert, start detection | gateway, workers, BullMQ |
| audit log queries | none | pages by descending id | the audit processor |
| API registry, API keys, rate rules | `apis`, `api_keys`, `rate_rules`, the rules cache of a process | find, decide, save; rotate; load | administrators, requests |
| tenants, users, sign-up | `tenants`, `users`, the tokens in circulation | find, assign, save; a transaction; log in | administrators, anybody who signs up |
| guards of the management API | none: the token, the tenant's row | let a request through | the clock, administrators |
| sanitizing, health, metrics, configuration | none that lasts | | |

How they interact: the gateway calls the engine, the engine the two scripts; a
refusal goes to the tracker, which sets the block key the gateway handler reads for
every admitted request; a decision is published to the `audit-log` queue, whose
worker writes the row and publishes an abuse job; the abuse worker counts and sets
keys of its own. Administrators change tenants, users, APIs, keys, rules and blocks at
any time, with a token that says what they were when they logged in.

What is hard about it, and where the models look:

* `Date.now()` is read in the API process and used by a script, or a `SET EX`, later: scripts
  see time stamps out of order (TokenBucket, SlidingWindow), a key outlasts the date it
  was computed from (IpBlock);
* keys expire, in whole seconds, while others rely on them (all Redis models);
* a row and a key are written by two calls, and two callers interleave or one stops
  between them (IpBlock, AbuseProcessor);
* jobs are delivered again, from the beginning, after partial effects, also while the
  worker that had them goes on (AbuseProcessor, AuditLog); calls that nobody waits for are
  lost (AuditLog);
* checks charge one after another before a later one refuses (Gateway);
* reads that are followed by a decision and a save of whatever columns a body names (Apis,
  ApiKeys, RateRules, Tenants); a cache that is loaded once (RateRules); a role that is read
  at the login and used for as long as the token lasts, a transaction that fails half way
  (Tenants).

## The modules

**IdealBucket** is what a token bucket promises: a level that refills with time and
from which a request takes a token if there is one. No key, no expiry, no process.

**TokenBucket** is the Lua script with its caller. `ReadClock` is the `Date.now()` of
`consumeToken`, `Consume` the script and the reply. Levels are counted in the refill
of one tick, so that the script's fractions are integers. `MaxLag` bounds the time
from `Date.now()` to the script; it is a premise about the deployment, at most the
time a whole refill takes, and part of the bound that is proved. `Tick` is the clock
of the processes and of Redis; key expiry is a comparison with it.

**SlidingWindow** is the other script. A member of the sorted set is its stamp and the
number `math.random()` drew. Redis seeds that generator alike for each script, which
`Draws` lets an instance say.

**IpBlock** has the blocks of one tenant's IP at the gateway: administrators (`create`,
`unblockById`, `unblockByEntity`) and refused requests (`trackRepeated429`: INCR, EXPIRE,
SET, DEL). `op[p]` is the next call of p and what p remembers. `create` saves the row,
reads the clock (`ReadTtl`: whole seconds left, rounded down) and sets the key (`SetKey`)
in three steps, and time passes between them. `Tick` goes on while calls are under way, as
long as none has been for `MaxLag`: a premise about the deployment, as above, and part of
what is proved. `Crash` cuts any operation short. `hits`, `tracked`, `author` (whose
decision the key carries), `raced` and `cut` are history. Two limits of the code are in the
model as they are: all events of an IP share one key, so that ending one ends the
enforcement of the others (schema.dbml:144 speaks of their lifecycles); and the tracker,
which runs before the block is looked up, replaces a longer block by its own.

**Gateway** EXTENDS IpBlock with everything else a request goes through. `Pass` and `Refuse`
are one check each: what the script decides is the subject of the two modules above, so
here it may admit or refuse, and the model follows *whom* it has charged (`charged`: the
Redis key of a limiter is that of the API, of the API key or of the IP). `Refuse` counts,
publishes and hands the request to the tracker, whose calls are IpBlock's (`Track`,
`TrackNext`); `Throw` replies 429. `Gate` is the handler with its block check and audit
event, `Forward` the reply. `events` holds what was published of a request, in order.
A request may come with an empty IP (an `X-Forwarded-For` that begins with a comma): the
IP rule and the tracker are skipped then, and the handler looks at the connection's address
instead. Rules of dimension `user` never apply, because `ApiKeyGuard` leaves no user in the
request (api-key.guard.ts:41).

**AbuseProcessor** has the abuse-detection queue and its workers. `work[w]` holds the
job, the detector it is at, and the next call; `Count`, `ReadTtl`, `ExpireCounter`,
`ReadSize`, `SetBlock`, `ExpireBlock`, `Insert` are the calls the detectors have in
common, with `BlockKey` and the constants telling the four apart;
`CountBlock` ... `ExpireEscalated` is `handleBlockEscalation`, which calls
`persistBlock` again for the permanent block. `ready` says whether
`WorkerDataSource` is initialized. In this program it never is, so `InsertThrows` is
what happens; the day somebody imports `DatabaseModule`, `Insert` is. `Readiness` holds both
values in both runs, and no property is excused by either. `Fail` is a call that rejects,
`Stall` a worker that loses its lock and dies or goes on; `Retry` and `Recover` are BullMQ's
answers, which count attempts and stalls apart. History: `seen` (which deliveries were
counted lately), `cut` (what a worker left unfinished when it stopped between two calls
that belong together) and `overlap` (IPs at whose blocks two workers were at once). Redis
calls take no time at the scale of the windows; an insert may.

**AuditLog** goes from `AuditQueue.publish` to a reader's last page. `Publish` starts
an `add` that nobody waits for, `Added`/`AddLost` end it; `Take`, `Upload` or
`NoUpload`, `InsertStarts`, `Commit`, `Finish` are `AuditProcessor.process`; an insert
takes its auto-increment id before it commits, so rows appear out of id order.
`InsertFails` and `Stall` are failures, `Retry` and `Recover` BullMQ's answers
(external). A worker that lost its lock may go on with the job another one now has.
`Query` and `NextPage` are `queryAuditLogs`; its filters only narrow the set of rows
and are left out. Whether the abuse job that is added at the end arrives is left to
AbuseProcessor, whose `Arrive` is that event.

**Requests** is what the requests of the management API have in common. `call[a].todo`
lists the MySQL calls that a's request still has to make; `Begin` is its first read,
`Proceed` a call that returned, `Fail` one that rejects or a process that ends.
`Assigned` is `Object.assign(entity, dto)`: **no `ValidationPipe` is installed, so a body
may name any column of the entity, its id and its tenant included** (`Target` is the row
that `save` then writes). TypeORM's `save` selects the row once more and then updates the
columns in which the entity differs, and other requests write before that SELECT or after
it: `Saved` has both outcomes. A request that is refused at its first read changes nothing
and is no step.

**Tenants** EXTENDS Requests with `TenantsService`, `UsersService` and `AuthService`: the
updates (find, assign, save), `createTenantWithAdmin` with its transaction (`Bootstrap`
starts it and inserts a tenant nobody else sees, `InsertAdmin` hits the unique e-mail or goes
on, `Commit` shows both rows; a failure anywhere leaves nothing), the creation of users,
sign-up, and `Login` and `Sign` with bcrypt, and time, between them. An insert of an e-mail
waits for a transaction that has inserted the same one (`Locked`). A token carries the role
and the tenant its user had at the login; `Authorized` is `JwtAuthGuard` and `RolesGuard`,
which look at the token alone, and `TenantIsOpen` is `TenantGuard`, which reads the tenant.
Users are rows by id (`UserId` bounds them: a new row takes a free id, and an insert that
finds none waits), because an update may change their e-mail. The model starts from the
tenant and the admin that seed.ts leaves, with the other users of `Admin` already created as
admins of that tenant and everybody logged in. Left out: the names of tenants (a taken name
changes nothing) and the role `developer` (it may change as little as a viewer).

**Apis** EXTENDS Tenants, **ApiKeys** and **RateRules** EXTEND Apis, because their requests
start with a look at the API: the three services of the registry. schema.sql, the schema in use
(`synchronize: false`), has no unique index on names or scopes (the entities declare one).
`POST /apis` without a name is left out: its duplicate check (TypeORM ignores an undefined
column) refuses more often, and with an id it does to that row what a body with the row's
own name does.

**Registry** composes the four behind their guards: requests on APIs, keys and rules need
an admin's token and an open tenant, requests on tenants and users only the token
(`TenantController` and `UserController` have no `TenantGuard`), log-in and bootstrap
nothing. Time passes while requests are under way, up to `MaxLag` after each began.

`TenantBody`, `UserBody` and `ApiBody` are the bodies an instance sends; the theorems hold
for any. `MC*` modules give the constants their values.

## What the runs check

| run | configuration | what it shows |
|---|---|---|
| `token_bucket` | 2 requests in flight, capacity of 2 tokens, lag up to 2, 11 ticks | `QuotaBounded` and its inductive invariant `QuotaInv` (which contains the type invariant); `RetryHonoured`: a client that waits `retryAfterMs` finds a token though Redis truncated the level it was computed from; `ImplementsIdeal`: the expiry of the key changes no decision |
| `token_bucket_quota` | same | **finding**: without the allowance for out-of-order stamps the quota is exceeded, because the script moves `last_refill_ts` back |
| `sliding_window` | 2 requests, window 3, limit 2, lag 1, 9 ticks, 6 requests | `DensityBounded` on distinct members, `DensityInv`, `RetryHonoured`, `RefusalJustified` |
| `sliding_window_density` | same | **finding**: counting requests rather than members, the limit is exceeded |
| `ip_block` | 2 administrators, 1 throttled request, 2 events of two seconds or for ever, lag 1, 1 crash, 4 ticks | `BlockJustified`: no block outlasts what somebody decided by more than the delay of its SET; `NoGhostBlock`: until an event is ended while it is still being created, no block stands for an ended one; `LoneEventIsEnforced`; `BlockInv` is inductive |
| `tracker` | 2 requests at a time, 5 throttled ones, limit 3, window 2, block 3, lag 1, an administrator, 1 crash, 5 ticks | `BlockNeedsBurst`: only a burst is blocked; `RepeatersAreBlocked`: whoever is throttled often enough within one window is; `RepeatsAreBlocked` (liveness) |
| `ip_block_ghost` | 2 administrators | **finding**: an unblock between the row and the key of a creation leaves a block without an active event |
| `gateway` | 3 requests (2 at a time) with or without IP, 2 keys, rules of three dimensions, lag 1, 1 crash, 1 failure, 3 ticks | `ChargedAsAnswered`: who is forwarded was charged once by every limiter that applies, who is throttled by some and none twice; `AuditMatchesReplies`: what was published is what was replied, once; `RepliesAreTracked`: when every 429 is out, the counter is below its limit and has an end, and the metric is exact |
| `abuse` | 2 workers, 2 APIs, an API key, 3 jobs, 4 ticks, data source ready or not | `BlocksEnd`, `PermanentIsEarned` |
| `abuse_retry` | 1 worker, 4 jobs, 1 failure or stall, 2 attempts, 3 ticks, data source ready or not | `PermanentOnce`, `PermanentStays`, `BlocksEnd`, `BlockIsEarned`, `JobsEnd` (liveness) |
| `audit_log` | 2 events, 2 workers, 1 reader, page of 1, 1 failure, 2 attempts, 1 stall | `EventsAreLogged` (liveness), `DuplicatesAreExplained`, `ReferencesExist`, `PagesAreExact` |
| `registry` | 2 users and 1 newcomer, 3 requests, 1 failure, 2 names, 2 scopes, 2 limits, 1 process, tokens of 1 tick, lag 1, 2 ticks; bodies that name a column each, or an id as well | `NamesAreUnique`, `RotationKeepsKey`, `RevocationIsFinal`, `OneRulePerScope`, `CacheReflectsRules`; `AuthorityIsRecent`: who makes an admin's request was one less than a token's life and a log-in's time ago; `BootstrapIsWhole`: no tenant of a bootstrap without its admin |

Some of these hold only up to a case in which the code does otherwise. The property then
names that case in a history variable, and nothing else is excused:

* `raced` (NoGhostBlock): an event was ended while a `create` of it was between row and key;
* `"expire" \in cut` (BlockNeedsBurst): a tracker stopped between INCR and EXPIRE;
* `cut` (BlocksEnd, PermanentIsEarned, BlockIsEarned): a worker stopped right between a key
  and its TTL, the marker and its block, or the permanent block and its row;
* `overlap` (PermanentStays, and the marker of BlocksEnd): two workers were at blocks of the IP at once;
* `marks` (NamesAreUnique, OneRulePerScope): requests of that kind overlapped, or, for names,
  `"unchecked"`: an API got a name, tenant or row that the duplicate check did not look at;
* `left` (BootstrapIsWhole): an update took a user out of its tenant; `bare`: a tenant made
  without a user by `POST` or `PATCH /tenants`;
* `revoked`, `failures` (RotationKeepsKey): revokeKey ended the keys, a request failed half way.

Bounds and why they are enough. A property about an interleaving needs two actors
on one piece of state, and the instances have two; a property about a failure needs one
failure at every place it can happen, and `MaxCrashes`/`MaxFailures` = 1 puts it
everywhere. Every counter, window and short block of an instance is made and
expires within `MaxTime`, with time left to be made again; the longest lives (the window of permanent blocks, 3 of 3 ticks in
`abuse_retry` and 4 of 4 in `abuse`) lapse once at the end. Thresholds are the smallest
that keep the shape of the code's: 2 or 3 for a limit, and for escalation 2 and 3, so that a
longer block comes before a permanent one. `MaxHits`, `MaxEvents`, `MaxJobs`,
`MaxRequests`, `MaxCalls` bound how often something is begun, `MaxWaiting` the waiting
jobs; nothing that has begun is cut off by them. In `gateway` and `tracker` an administrator
has no events to create (`MaxEvents` = 0, `unblockByEntity` remains): their creations are
the subject of `ip_block`. In `registry` three requests are enough for create, disable,
create again, for a login that overlaps the demotion of its user and the request made with
the token it got, or for two bootstraps and a sign-up of one e-mail; the clock goes beyond
the life of a token and a log-in. Symmetry is used in runs without liveness properties only,
over requests, workers or administrators.

Deadlock is checked where something can always happen. It is switched off where an
instance stops when its requests, jobs or calls are used up.

Fairness. `IpBlock!FairSpec` says that a request whose Redis call was sent gets its
answer (weak fairness of each request's next call), and nothing about new requests or
administrators. `AbuseProcessor!FairSpec` and `AuditLog!FairSpec` say that a running
worker makes its next call and takes a waiting job, and that an `add` that is under way
ends; that is what an event loop and BullMQ's blocking fetch do as long as Redis and
MySQL answer, and failures are steps of the model that may replace any answer. Weak
fairness is enough everywhere: each of these steps stays enabled until it is taken.

Each property was also tried against a plausible fault in a definition it depends on
(the definitions under "Faulty variant" in the modules); every one of them is found.

## What is proved

`*_proofs` modules hold proofs for every value of the constants that satisfies the
named assumptions of the modules (`BucketAssumption`, `WindowAssumption`,
`BlockAssumption`, ...; they say that limits, windows and thresholds are positive,
which `validate` in rate-rule.service.ts and the constants of the code guarantee, and for
the token bucket and the sliding window that the lag is shorter than a refill or a window).

* **Token bucket.** `QuotaInvariant`: `QuotaInv` is inductive. "At most capacity plus
  refill was admitted" is not inductive by itself: one must know that what the bucket
  *still holds* is paid for as well (`LevelPaidFor`), that a pending stamp is recent
  (`PendingIsRecent`: it bounds what a late script can credit) and that a bucket whose
  key has gone would be full for every stamp still to come (`ExpiredIsFull`: the code's
  TTL is twice the refill time, and this is where the factor is used). `QuotaTheorem`
  follows. `RetryTheorem` adds the invariant of a pending hint. `RefinesIdealBucket` is
  the refinement: initial states map to initial states, a script maps to `Admit` or
  `Refuse`, and everything else to a stutter.
* **Sliding window.** `DensityInvariant` and `DensityTheorem`: the set holds every entry
  made during the last Window - MaxLag ticks (`RecentIsHeld`), never more than the limit,
  and its key outlives them (`ExpiresLate`); hence no more distinct members enter in any
  such stretch. `RetryTheorem` rests on `HintInv` (while a client waits for the time it was
  told, the set has nothing younger than the refusal), `RefusalTheorem` on `EntriesLogged`
  (every entry of the set was an admission).
* **Blocks**, for any number of requests, administrators, events and crashes and any lag.
  `BlockInvariant`, `BlockJustifiedTheorem`: a block ends when the tracker decided, or at
  most MaxLag after the event it was set for. The strengthening is `PendingHasEvent`: the
  seconds about to be set were read, since the call began, from the expiry of the call's own
  row. `NoGhostTheorem` from `GhostInv`: until an event is ended during its creation, an event
  being created is active and nobody is about to end it, and once the key is deleted it is
  not set again for an event about to be ended. `LoneEventTheorem` from `EnforcedInv`: the key
  carries the expiry of the only event, or a call that sets it or ends the event is under
  way. `BurstTheorem` from `BurstInv`: the 429 counter is at most the number of hits since the
  key was made, a counter without a TTL has a request that is about to set it, and a request
  that goes on to block read a count that hits of the last window, and of the time the calls
  took, explain.
* **Gateway**, for any rules, keys and number of requests. `GateInv`: a request has been
  charged by exactly the checks before the one it stands at, all of them past the last, in
  order (`ChargedInOrder`); it was published when, and as, it was decided (`PublishedAs`); and
  only a request whose 429 is about to be thrown has a call of the tracker (`LinkInv`). From it
  `GatewayTyped`, `ChargeTheorem` (with `ChecksAre`: the checks that the loops reach are the
  limiters that apply, each once) and `AuditTheorem`. `TrackingTheorem` from `SettledInv`: a
  counter at its limit has a request that is going to delete it, a counter without an end one
  that is about to set it, and the metric counts the replies and those still to come.
* **Abuse processor**, for any number of workers, attempts, stalls and failures, inserts
  throwing or not. `AbuseInv` has the types (`TypesHold`). `PermanentRecordedOnce` from
  `MarkerInv`: SETNX lets one worker past the marker, so a row and a worker about to insert
  one exclude each other. `BlocksEndTheorem` from `EndingInv` (a block without TTL has a
  permanent row, or a worker that is about to give it a TTL or to insert that row, or one that
  was cut while it was about to) and `SealInv`. `PermanentBlocksStay` from `SealInv`: once the
  permanent block is recorded, nobody is on the way to overwrite it, and whoever escalates it
  again counts from the threshold up, or from one and stops at the marker; that holds while
  one worker at a time is at blocks of the address (`Solo`). `PermanentBlocksAreEarned` from `MeterInv`: the
  count of blocks, plus the workers that inserted a row and have yet to count it, is at most
  the rows recorded since the count began, until the address is marked.
* **Registry**, for any number of users, rows, processes, requests and failures, any lag and
  any bodies. `RegistryInv` has the types (`RegistryTyped`). `RevocationTheorem`: rows of
  `api_keys` are never removed or made active again. `RotationTheorem` needs that a request on
  a key knows the key's API (`KeyIsOf`), `CacheTheorem` that a rule about to be saved is of the
  scope it was found for (`FoundSame`); both hold whatever overlaps. The two others are about
  what overlap can break, and rest on `Single` (one request of a kind at most, unless `marks`
  remembers an overlap): `UniqueNames` on `NamesInv` (names are unique, and what a request
  found free is still free), `OneRule` on `ScopeInv` (a rule that was not found is still
  missing).
* **Tenants**, likewise. `BootstrapTheorem` from `BootstrapInv`: a committed bootstrap adds a
  tenant together with a user of it, and a user's tenant changes only in a save that `left`
  remembers. `AuthorityTheorem`: `AuthorityInv` is inductive. It ties together that
  `lastAdmin` is the present for every user who is an active admin now (`AdminInv`), that a
  login lasts MaxLag at most (`TimeInv`), and that one under way which read the role of an admin
  began no later than its user last was one, so that an admin's token ends no later than a
  token's life and a log-in's time after that (`TokenInv`); a
  demotion between the two steps of a login is where they are needed together.
* **Audit log.** `ReferencesTheorem` from `ReferencesInv`: a worker names only the snapshot
  that was uploaded for its own event, and past its insert only the id of a row; rows and
  objects are never removed. `AuditTyped` adds `OwnIds`, an id that a worker was given is
  nobody else's. `DuplicatesTheorem` from `CountInv`: the places an event can be in
  (being added, waiting, with a worker that owns it or lost it, a row) are counted
  together, and their number grows only by a failure that is charged to the event.
  `PagesTheorem` from `ReadInv`: what a reader has got lies behind its cursor, and every row
  it was due has been got or is still ahead.

Left to TLC is liveness under fairness, which needs ENABLED and is out of the prover's reach:
`RepeatsAreBlocked`, `JobsEnd` and `EventsAreLogged`; and two safety properties,
`RepeatersAreBlocked` and `BlockIsEarned`, whose proofs need a counting argument over windows
that has not been written. The properties of the three runs that expect a violation are
false. What recursive definitions compute for all inputs (induction over data) is out of
reach too; the models need none and declare no RECURSIVE operator.

## What the code does differently from what its documents say

Findings, each shown by a run: the token bucket credits time twice
(token-bucket.lua:32); equal members in the sliding window (sliding-window.lua:23);
a block without an event (blocked-events.service.ts:54).

Read in the code while modelling. Where a model represents it, no property contradicts it:

* The worker's blocks are invisible to the gateway: it sets `block:ip:<tenant>:<ip>`
  (abuse.processor.ts:72), the gateway looks for `block:<tenant>:ip:<ip>`
  (blocked-events.service.ts:16). src/README.md:33 says offenders are blocked.
* `DatabaseModule`, which would initialize `WorkerDataSource`, is imported by no module,
  so `persistBlock` always throws: no block of the worker is recorded or escalated
  (src/README.md:128 says block decisions are persisted), and each such job is delivered
  again and counts its request twice. The abuse runs cover this program and the one in which
  it is repaired.
* A worker that dies between SETNX and EXPIRE leaves a block without an end; the marker of a
  permanent block is set before the block. A longer block of one worker may overwrite the
  permanent one of another.
* INCR and EXPIRE of the 429 counter are two calls, where src/README.md:104 speaks of Lua
  scripts that guarantee atomicity; a crash in between leaves a counter without an end.
* The tracker runs in the guard, before the handler looks at blocks, so it replaces an
  administrator's longer block, or a permanent one, by its own. Two events of one IP share one
  key: `unblockById` of either ends both (schema.dbml:144). A key may outlast `expires_at` by
  the time its SET takes.
* A blocked request is not audited, against schema.dbml:122 ("every evaluated request") and
  src/README.md:128; `AuditMatchesReplies` leaves open whether it should have an event and only
  forbids one that contradicts the reply. It is counted as allowed, and `requests_blocked` is
  never incremented (src/README.md:123). A request refused by a late check has used up the
  earlier ones.
* With no `ValidationPipe`, `PATCH /users/1` with `{"tenantId": 2}` moves an admin out of a
  tenant, `{"id": 2}` rewrites another row, and `PATCH /apis/1` may bring an API to a name or
  tenant that the duplicate check did not look at. Enabling an API does not look for
  another active one of its name either.
* Overlapping updates of tenants, users and APIs undo each other: one that read the row before
  a kill switch, a demotion or a removal may write the old value back. That no column changes
  which nobody asked to change is therefore not a property of this code.
* A rotation that fails half way leaves the API without a key. A rotation that was under way
  during `rotateAll` saves its key afterwards, which `rotateAll` was to end. `disableRule`
  takes any rule's id.
* Rate rules are read when a process starts and never again. A role that was taken away, or a
  user who was disabled, acts on until the token ends.
* `KillSwitchGuard` reads `kill_switch` and `is_active`, which the entities call
  `killSwitch` and `isActive`, so it never refuses (schema.dbml:17 promises an instant
  shutdown), and `TenantGuard` is not on the gateway's path: requests of a closed tenant are
  forwarded. `BLOCK_ESCALATION_WINDOW_SECONDS` (abuse.processor.ts:32) is not used.

Ids are compared by value in the models. Whether the MySQL driver returns BIGINT as
numbers or strings, which matters to the keys of `runtimeCache`, is decided outside
this repository.

## What is not modelled

Snapshot sanitizing: a pure conversion of payloads. Metrics, health,
configuration, Redis and S3 clients: input and output, or values read once. Controllers,
DTOs, entities, modules, bootstrap and seed: declarations and delegations; where a
controller makes a call of its own (rate-rule.controller.ts), it is in the model.

## Plan

Order of the modules, the most important behaviour first: TokenBucket over IdealBucket,
SlidingWindow, IpBlock, AbuseProcessor, Gateway (composes IpBlock), AuditLog, Requests,
Tenants, Apis, ApiKeys, RateRules, Registry (composes them). They are written. What is left:

1. **Proofs** of `RepeatersAreBlocked` (hits counted per life of the 429 counter) and
   `BlockIsEarned` (a counter is at most the deliveries counted since its key was made).
2. **Composition of AuditLog and AbuseProcessor**: a duplicate row is a duplicate job;
   what a detector counts then relates to what was published.
