------------------------------ MODULE Gateway ------------------------------
(***************************************************************************)
(* A request to an API from RateLimitGuard to its reply: the checks of     *)
(* RateLimitEngine one after the other, each a script of Redis that admits *)
(* and charges or refuses; the tracking of a refused request (IpBlock);    *)
(* the block check of GatewayController; metrics and audit events.  The    *)
(* requests come from one client, with one of the API's keys each.  What a *)
(* script decides is the subject of TokenBucket and SlidingWindow: here it *)
(* may admit or refuse, and what counts is whom it has charged.            *)
(***************************************************************************)
EXTENDS IpBlock

CONSTANTS ApiKey,         \* the keys of the API
          Limit,          \* Limit[d][kind]: the rule of dimension d; 0 without
          MaxRequests, MaxFailures    \* bounds

Dimension == {"api", "api_key", "user", "ip"}
Kind == {"window", "bucket"}

ASSUME GatewayAssumption ==
    /\ Limit \in [Dimension -> [Kind -> Nat]]
    /\ MaxRequests \in Nat /\ MaxFailures \in Nat

VARIABLES req,       \* req[r]: where request r stands, which limiters have
                     \* admitted it (charged), what was published (events)
          metrics,   \* requests_allowed_total and requests_throttled_total
          replies,   \* history: how many requests were answered what
          failures   \* history: how many ended in an error

pipeline == <<req, metrics, replies, failures>>
gatewayVars == <<vars, pipeline>>

(***************************************************************************)
(* The checks of evaluateRequestLimits.  A dimension is skipped without an *)
(* identifier: ApiKeyGuard leaves no user in the request, and the IP is    *)
(* empty when X-Forwarded-For begins with a comma.  A rule has a window, a *)
(* bucket or both, and the window comes first.                             *)
(***************************************************************************)
ChecksOf(d, identified) ==
    LET Rule(kind) ==
          IF identified /\ Limit[d][kind] > 0 THEN <<[dim |-> d, kind |-> kind]>>
          ELSE <<>>
    IN  Rule("window") \o Rule("bucket")

\* Faulty variant: break in the place of continue, at the missing user.
ChecksUntilUser(ip) == ChecksOf("api", TRUE) \o ChecksOf("api_key", TRUE)

Checks(ip) ==
    ChecksOf("api", TRUE) \o ChecksOf("api_key", TRUE) \o ChecksOf("user", FALSE)
    \o ChecksOf("ip", ip)

HasRules == \E d \in Dimension, kind \in Kind : Limit[d][kind] > 0

\* The key in Redis of a check: one for each API key, one for the rest.
LimiterOf(check, key) ==
    [dim |-> check.dim, kind |-> check.kind,
     id |-> IF check.dim = "api_key" THEN key ELSE "all"]

Decision == {"allowed", "blocked", "throttled"}
Away == [at |-> "away"]
Stage(r, s) == req[r].at = s
Enter(r, s) == req' = [req EXCEPT ![r].at = s]
Answer(r, decision) ==
    /\ replies' = [replies EXCEPT ![decision] = @ + 1]
    /\ req' = [req EXCEPT ![r] = Away]

Started ==
    replies["allowed"] + replies["blocked"] + replies["throttled"] + failures
    + Cardinality({r \in Request : ~Stage(r, "away")})

GatewayInit ==
    /\ Init
    /\ req = [r \in Request |-> Away]
    /\ metrics = [allowed |-> 0, throttled |-> 0]
    /\ replies = [d \in Decision |-> 0] /\ failures = 0

\* The guard lets a request pass at once when its API has no rules, and
\* counts it as allowed when none of the rules applies.
Arrive(r, key, ip) ==
    /\ Stage(r, "away") /\ Started < MaxRequests
    /\ req' = [req EXCEPT ![r] =
                 [at |-> IF Checks(ip) = <<>> THEN "gate" ELSE "check",
                  key |-> key, ip |-> ip, next |-> 1, charged |-> <<>>, events |-> <<>>]]
    /\ metrics' = IF HasRules /\ Checks(ip) = <<>>
                  THEN [metrics EXCEPT !.allowed = @ + 1] ELSE metrics
    /\ UNCHANGED <<vars, replies, failures>>

TheLimiter(r) == LimiterOf(Checks(req[r].ip)[req[r].next], req[r].key)

\* A script admits: the token or the slot is gone, whatever comes next.
Pass(r) ==
    /\ Stage(r, "check")
    /\ LET charged == Append(req[r].charged, TheLimiter(r)) IN
       IF req[r].next = Len(Checks(req[r].ip))
       THEN /\ req' = [req EXCEPT ![r].at = "gate", ![r].charged = charged]
            /\ metrics' = [metrics EXCEPT !.allowed = @ + 1]
       ELSE /\ req' = [req EXCEPT ![r].next = @ + 1, ![r].charged = charged]
            /\ UNCHANGED metrics
    /\ UNCHANGED <<vars, replies, failures>>

\* Faulty variant: the event of a throttled request is not published.
RefuseSilently(r) ==
    /\ Stage(r, "check")
    /\ metrics' = [metrics EXCEPT !.throttled = @ + 1]
    /\ Enter(r, IF req[r].ip THEN "track" ELSE "throw")
    /\ UNCHANGED <<vars, replies, failures>>

\* Faulty variant: a request with an empty IP is tracked as well.
RefuseTracksAnyone(r) ==
    /\ Stage(r, "check")
    /\ metrics' = [metrics EXCEPT !.throttled = @ + 1]
    /\ req' = [req EXCEPT ![r].at = "track", ![r].events = Append(@, "throttled")]
    /\ UNCHANGED <<vars, replies, failures>>

\* A script refuses: no further check, a metric, an audit event; the 429 is
\* thrown when the client has been tracked, at once if its IP is empty.
Refuse(r) ==
    /\ Stage(r, "check")
    /\ metrics' = [metrics EXCEPT !.throttled = @ + 1]
    /\ req' = [req EXCEPT ![r].at = IF req[r].ip THEN "track" ELSE "throw",
                          ![r].events = Append(@, "throttled")]
    /\ UNCHANGED <<vars, replies, failures>>

\* trackRepeated429, call by call.
Track(r) ==
    /\ Stage(r, "track") /\ Throttle(r)
    /\ Enter(r, "throw")
    /\ UNCHANGED <<metrics, replies, failures>>
TrackNext(r) == RequestStep(r) /\ UNCHANGED pipeline

\* Faulty variant: the tracker is not waited for.
ThrowAtOnce(r) ==
    /\ Stage(r, "throw") \/ Stage(r, "track")
    /\ Answer(r, "throttled")
    /\ UNCHANGED <<vars, metrics, failures>>

Throw(r) ==
    /\ Stage(r, "throw") /\ At(r, "idle")
    /\ Answer(r, "throttled")
    /\ UNCHANGED <<vars, metrics, failures>>

\* The handler looks up the block of the client; without X-Forwarded-For, that
\* of the address it is connected from, which the model does not follow.
Blocked(r) == IF req[r].ip THEN {IsBlocked} ELSE BOOLEAN

\* GatewayController: who is not blocked has an event published, and is let
\* through; a blocked client is told so, without an event.
Gate(r) ==
    /\ Stage(r, "gate")
    /\ \E blocked \in Blocked(r) :
          IF blocked THEN Answer(r, "blocked")
          ELSE /\ req' = [req EXCEPT ![r].at = "forward",
                                     ![r].events = Append(@, "allowed")]
               /\ UNCHANGED replies
    /\ UNCHANGED <<vars, metrics, failures>>

\* GatewayService: publish has returned.
Forward(r) ==
    /\ Stage(r, "forward")
    /\ Answer(r, "allowed")
    /\ UNCHANGED <<vars, metrics, failures>>

\* A call of Redis rejects: the request ends in an error.
Errs(r) ==
    /\ failures < MaxFailures /\ failures' = failures + 1
    /\ req' = [req EXCEPT ![r] = Away]
    /\ UNCHANGED <<metrics, replies>>
Fails(r) ==
    /\ Stage(r, "check") \/ Stage(r, "track") \/ Stage(r, "gate")
    /\ Errs(r) /\ UNCHANGED vars
TrackingFails(r) == Crash(r) /\ Errs(r)

TimePasses == Tick /\ UNCHANGED pipeline

AdminCalls == (\E a \in Admin : AdminNext(a) \/ Crash(a)) /\ UNCHANGED pipeline

PipelineStep(r) ==
    \/ Pass(r) \/ Refuse(r) \/ Track(r) \/ TrackNext(r) \/ Throw(r)
    \/ Gate(r) \/ Forward(r)

GatewayNext ==
    \/ TimePasses \/ AdminCalls
    \/ \E r \in Request : \/ \E key \in ApiKey, ip \in BOOLEAN : Arrive(r, key, ip)
                          \/ PipelineStep(r) \/ Fails(r) \/ TrackingFails(r)

GatewaySpec == GatewayInit /\ [][GatewayNext]_gatewayVars
-----------------------------------------------------------------------------
GatewayTypeOK ==
    /\ \A r \in Request : Stage(r, "away") \/
          /\ req[r] \in [at : {"check", "track", "throw", "gate", "forward"},
                         key : ApiKey, ip : BOOLEAN, next : Nat \ {0},
                         charged : Seq([dim : Dimension, kind : Kind,
                                        id : ApiKey \cup {"all"}]),
                         events : Seq({"allowed", "throttled"})]
          /\ Stage(r, "check") => req[r].next <= Len(Checks(req[r].ip))
          /\ Stage(r, "track") => req[r].ip
    /\ metrics \in [allowed : Nat, throttled : Nat]
    /\ replies \in [Decision -> Nat]
    /\ failures \in 0..MaxFailures

\* Request r is answered.
Answered(r, decision) ==
    ~Stage(r, "away") /\ req'[r] = Away /\ replies'[decision] # replies[decision]

(***************************************************************************)
(* The limiters a request is subject to: each kind of limit that the API   *)
(* has in each dimension the request has an identifier for.                *)
(***************************************************************************)
DueOf(x) ==
    {LimiterOf(check, x.key) :
       check \in {c \in [dim : Dimension, kind : Kind] :
                    /\ Limit[c.dim][c.kind] > 0
                    /\ c.dim # "user" /\ (c.dim = "ip" => x.ip)}}

(***************************************************************************)
(* A request that is let through has been charged once by each limiter it  *)
(* is subject to, so what TokenBucket and SlidingWindow bound, per key in  *)
(* Redis, bounds what is forwarded; one that is throttled has been charged *)
(* by some of them, never twice and never by all: though dimensions are    *)
(* skipped and limiters charged before another one refuses.                *)
(***************************************************************************)
ChargedAsAnswered ==
    [][\A r \in Request, decision \in Decision : Answered(r, decision) =>
         LET charged == req[r].charged
             chargers == {charged[i] : i \in DOMAIN charged}
         IN  /\ \A i, j \in DOMAIN charged : charged[i] = charged[j] => i = j
             /\ chargers \subseteq DueOf(req[r])
             /\ (chargers = DueOf(req[r])) = (decision # "throttled")
      ]_gatewayVars

(***************************************************************************)
(* The audit queue agrees with the replies: a request that is forwarded or *)
(* throttled was published exactly once, with the decision it is told, and *)
(* no event contradicts the reply.  (Whether a blocked request should have *)
(* one is left open: the code publishes none.)                             *)
(***************************************************************************)
AuditMatchesReplies ==
    [][\A r \in Request, decision \in Decision : Answered(r, decision) =>
         /\ \A i \in DOMAIN req[r].events : req[r].events[i] = decision
         /\ decision # "blocked" => Len(req[r].events) = 1]_gatewayVars

(***************************************************************************)
(* src/README.md:101: who repeatedly ignores throttling is blocked.  When  *)
(* no request awaits its reply, the 429 counter is not left at its limit,  *)
(* nor without an end, and requests_throttled_total is the number of 429   *)
(* replies: unless some request ended in an error.                         *)
(***************************************************************************)
RepliesAreTracked ==
    (\A r \in Request : Stage(r, "away")) /\ failures = 0 =>
        /\ counter < Max429
        /\ counter > 0 => counterTtl # None
        /\ metrics.throttled = replies["throttled"]
=============================================================================
