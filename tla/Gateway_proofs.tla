--------------------------- MODULE Gateway_proofs ---------------------------
(***************************************************************************)
(* For every number of requests, every rule and failure: who was charged   *)
(* and what was published when a request is answered, and that the tracker *)
(* is done with it.                                                        *)
(***************************************************************************)
EXTENDS Gateway, IpBlock_proofs

(***************************************************************************)
(* A step of the pipeline is one of IpBlock or leaves its state alone, so  *)
(* the types of IpBlock hold here too.                                     *)
(***************************************************************************)
LEMMA StepImplements == [GatewayNext]_gatewayVars => [Next]_vars
  <1> SUFFICES ASSUME [GatewayNext]_gatewayVars
               PROVE  [Next]_vars
    OBVIOUS
  <1>1. CASE UNCHANGED gatewayVars
    BY <1>1 DEF gatewayVars
  <1>2. CASE TimePasses
    BY <1>2 DEF TimePasses, Next
  <1>3. CASE AdminCalls
    BY <1>3 DEF AdminCalls, Next, Process
  <1>4. ASSUME NEW r \in Request, NEW key \in ApiKey, NEW ip \in BOOLEAN, Arrive(r, key, ip)
        PROVE  UNCHANGED vars
    BY <1>4 DEF Arrive
  <1>5. ASSUME NEW r \in Request, PipelineStep(r)
        PROVE  [Next]_vars
    <2>1. CASE Track(r) \/ TrackNext(r)
      BY <1>5, <2>1 DEF Track, TrackNext, Next
    <2>2. CASE Pass(r) \/ Refuse(r) \/ Throw(r) \/ Gate(r) \/ Forward(r)
      BY <2>2 DEF Pass, Refuse, Throw, Gate, Forward
    <2> QED
      BY <1>5, <2>1, <2>2 DEF PipelineStep
  <1>6. ASSUME NEW r \in Request, Fails(r)
        PROVE  UNCHANGED vars
    BY <1>6 DEF Fails
  <1>7. ASSUME NEW r \in Request, TrackingFails(r)
        PROVE  Next
    BY <1>7 DEF TrackingFails, Next, Process
  <1> QED
    BY <1>1, <1>2, <1>3, <1>4, <1>5, <1>6, <1>7 DEF GatewayNext

LEMMA BlockTyped == GatewaySpec => []TypeOK
  <1>1. GatewayInit => TypeOK
    BY TypeInitial DEF GatewayInit
  <1>2. TypeOK /\ [GatewayNext]_gatewayVars => TypeOK'
    BY StepImplements, TypeInductive
  <1> QED
    BY <1>1, <1>2, PTL DEF GatewaySpec

(***************************************************************************)
(* The checks of a request: each kind of limit of each dimension it has an *)
(* identifier for, once.                                                   *)
(***************************************************************************)
CheckOf == [dim : Dimension, kind : Kind]

\* s lists the elements of S, each once.
Lists(s, S) ==
    /\ s \in Seq(CheckOf)
    /\ \A i, j \in 1..Len(s) : s[i] = s[j] => i = j
    /\ S = {s[i] : i \in 1..Len(s)}

LEMMA ListsConcat ==
  ASSUME NEW s, NEW t, NEW S, NEW T, Lists(s, S), Lists(t, T), S \cap T = {}
  PROVE  Lists(s \o t, S \cup T)
  <1>0. s \in Seq(CheckOf) /\ t \in Seq(CheckOf)
    BY DEF Lists
  <1>1. /\ s \o t \in Seq(CheckOf) /\ Len(s \o t) = Len(s) + Len(t)
        /\ Len(s) \in Nat /\ Len(t) \in Nat
        /\ \A i \in 1..Len(s) + Len(t) :
             (s \o t)[i] = IF i <= Len(s) THEN s[i] ELSE t[i - Len(s)]
    BY <1>0, ConcatProperties, LenProperties
  <1>2. \A i \in 1..Len(s) : /\ i \in 1..Len(s \o t) /\ (s \o t)[i] = s[i] /\ s[i] \in S
    BY <1>1 DEF Lists
  <1>3. \A i \in 1..Len(t) : /\ i + Len(s) \in 1..Len(s \o t)
                             /\ (s \o t)[i + Len(s)] = t[i] /\ t[i] \in T
    <2> SUFFICES ASSUME NEW i \in 1..Len(t)
                 PROVE  /\ i + Len(s) \in 1..Len(s \o t)
                        /\ (s \o t)[i + Len(s)] = t[i] /\ t[i] \in T
      OBVIOUS
    <2>1. i + Len(s) \in 1..Len(s) + Len(t) /\ ~(i + Len(s) <= Len(s)) /\ i + Len(s) - Len(s) = i
      BY <1>1
    <2> QED
      BY <1>1, <2>1 DEF Lists
  <1>4. \A i \in 1..Len(s \o t) :
          \/ i \in 1..Len(s) /\ (s \o t)[i] = s[i] /\ s[i] \in S
          \/ /\ i - Len(s) \in 1..Len(t) /\ ~(i <= Len(s))
             /\ (s \o t)[i] = t[i - Len(s)] /\ t[i - Len(s)] \in T
    <2> SUFFICES ASSUME NEW i \in 1..Len(s \o t)
                 PROVE  \/ i \in 1..Len(s) /\ (s \o t)[i] = s[i] /\ s[i] \in S
                        \/ /\ i - Len(s) \in 1..Len(t) /\ ~(i <= Len(s))
                           /\ (s \o t)[i] = t[i - Len(s)] /\ t[i - Len(s)] \in T
      OBVIOUS
    <2>1. i \in 1..Len(s) \/ (i - Len(s) \in 1..Len(t) /\ ~(i <= Len(s)))
      BY <1>1
    <2>2. (s \o t)[i] = IF i <= Len(s) THEN s[i] ELSE t[i - Len(s)]
      BY <1>1
    <2>3. CASE i \in 1..Len(s)
      BY <1>2, <2>3
    <2>4. CASE i - Len(s) \in 1..Len(t) /\ ~(i <= Len(s))
      BY <2>2, <2>4 DEF Lists
    <2> QED
      BY <2>1, <2>3, <2>4
  <1>5. S \cup T = {(s \o t)[i] : i \in 1..Len(s \o t)}
    <2>1. \A x \in S \cup T : \E i \in 1..Len(s \o t) : x = (s \o t)[i]
      <3> SUFFICES ASSUME NEW x \in S \cup T PROVE \E i \in 1..Len(s \o t) : x = (s \o t)[i]
        OBVIOUS
      <3>1. CASE x \in S
        BY <1>2, <3>1 DEF Lists
      <3>2. CASE x \in T
        <4>1. PICK i \in 1..Len(t) : x = t[i]
          BY <3>2 DEF Lists
        <4> QED
          BY <1>3, <4>1
      <3> QED
        BY <3>1, <3>2
    <2>2. \A i \in 1..Len(s \o t) : (s \o t)[i] \in S \cup T
      BY <1>4
    <2> QED
      BY <2>1, <2>2
  <1>6. ASSUME NEW i \in 1..Len(s \o t), NEW j \in 1..Len(s \o t), (s \o t)[i] = (s \o t)[j]
        PROVE  i = j
    <2>1. CASE i \in 1..Len(s)
      <3>1. j \in 1..Len(s) /\ s[i] = s[j]
        BY <1>2, <1>4, <1>6, <2>1
      <3> QED
        BY <2>1, <3>1 DEF Lists
    <2>2. CASE i - Len(s) \in 1..Len(t) /\ ~(i <= Len(s))
      <3>1. (s \o t)[i] \in T
        BY <1>4, <2>2
      <3>2. j - Len(s) \in 1..Len(t) /\ t[i - Len(s)] = t[j - Len(s)]
        BY <1>4, <1>6, <2>2, <3>1
      <3>3. i - Len(s) = j - Len(s)
        BY <2>2, <3>2 DEF Lists
      <3> QED
        BY <1>1, <3>3
    <2> QED
      BY <1>4, <2>1, <2>2
  <1> QED
    BY <1>1, <1>5, <1>6 DEF Lists

\* The checks of a request with or without an IP.
ChecksDue(ip) ==
    {c \in CheckOf : Limit[c.dim][c.kind] > 0 /\ c.dim # "user" /\ (c.dim = "ip" => ip)}

LEMMA ChecksAre ==
  ASSUME NEW ip \in BOOLEAN
  PROVE  Lists(Checks(ip), ChecksDue(ip))
  <1> DEFINE Rule(d, b, k) == IF b /\ Limit[d][k] > 0 THEN <<[dim |-> d, kind |-> k]>> ELSE <<>>
             One(d, b, k) == IF b /\ Limit[d][k] > 0 THEN {[dim |-> d, kind |-> k]} ELSE {}
             Both(d, b) == One(d, b, "window") \cup One(d, b, "bucket")
  <1>1. ASSUME NEW c \in CheckOf PROVE Lists(<<c>>, {c})
    <2>1. <<c>> \in Seq(CheckOf) /\ Len(<<c>>) = 1 /\ <<c>>[1] = c
      OBVIOUS
    <2>2. 1..Len(<<c>>) = {1}
      BY <2>1
    <2> HIDE DEF CheckOf
    <2> QED
      BY <2>1, <2>2 DEF Lists
  <1>2. Lists(<<>>, {})
    <2>1. <<>> \in Seq(CheckOf) /\ Len(<<>>) = 0 /\ 1..0 = {}
      OBVIOUS
    <2> QED
      BY <2>1 DEF Lists
  <1>3. \A d \in Dimension, k \in Kind : [dim |-> d, kind |-> k] \in CheckOf
    BY DEF CheckOf
  <1>4. \A d \in Dimension, b \in BOOLEAN, k \in Kind : Lists(Rule(d, b, k), One(d, b, k))
    BY <1>1, <1>2, <1>3
  <1>5. "window" \in Kind /\ "bucket" \in Kind
    BY DEF Kind
  <1>6. ASSUME NEW d \in Dimension, NEW b \in BOOLEAN
        PROVE  Lists(ChecksOf(d, b), Both(d, b))
    <2>1. ChecksOf(d, b) = Rule(d, b, "window") \o Rule(d, b, "bucket")
      BY DEF ChecksOf
    <2>2. One(d, b, "window") \cap One(d, b, "bucket") = {}
      OBVIOUS
    <2>3. /\ Lists(Rule(d, b, "window"), One(d, b, "window"))
          /\ Lists(Rule(d, b, "bucket"), One(d, b, "bucket"))
      BY <1>4, <1>5
    <2> HIDE DEF Rule, One
    <2> QED
      BY <2>1, <2>2, <2>3, ListsConcat
  <1>7. \A d \in Dimension, b \in BOOLEAN : \A c \in Both(d, b) : c.dim = d
    OBVIOUS
  <1>8. {"api", "api_key", "user", "ip"} = Dimension
    BY DEF Dimension
  <1>9. ChecksDue(ip) = Both("api", TRUE) \cup Both("api_key", TRUE) \cup Both("user", FALSE)
                        \cup Both("ip", ip)
    <2>1. ASSUME NEW c \in ChecksDue(ip)
          PROVE  c \in Both("api", TRUE) \cup Both("api_key", TRUE) \cup Both("ip", ip)
      <3>1. /\ c \in CheckOf /\ Limit[c.dim][c.kind] > 0 /\ c.dim # "user"
            /\ (c.dim = "ip" => ip) /\ c = [dim |-> c.dim, kind |-> c.kind]
        BY <2>1 DEF ChecksDue, CheckOf
      <3>2. c.dim \in {"api", "api_key", "ip"} /\ c.kind \in {"window", "bucket"}
        BY <3>1 DEF CheckOf, Dimension, Kind
      <3> QED
        BY <3>1, <3>2
    <2>2. ASSUME NEW d \in {"api", "api_key", "ip"}, NEW b \in BOOLEAN, b => d # "ip" \/ ip,
                 NEW c \in Both(d, b)
          PROVE  c \in ChecksDue(ip)
      <3>1. PICK k \in {"window", "bucket"} :
              b /\ Limit[d][k] > 0 /\ c = [dim |-> d, kind |-> k]
        BY <2>2
      <3> QED
        BY <2>2, <3>1, <1>3, <1>5, <1>8 DEF ChecksDue
    <2>3. Both("user", FALSE) = {}
      OBVIOUS
    <2> HIDE DEF Both
    <2> QED
      BY <2>1, <2>2, <2>3
  <1> HIDE DEF Both
  <1> DEFINE two == ChecksOf("api", TRUE) \o ChecksOf("api_key", TRUE)
             three == two \o ChecksOf("user", FALSE)
  <1>10. Lists(two, Both("api", TRUE) \cup Both("api_key", TRUE))
    <2>1. Both("api", TRUE) \cap Both("api_key", TRUE) = {}
      BY <1>7, <1>8
    <2> QED
      BY <1>6, <1>8, <2>1, ListsConcat
  <1>11. Lists(three, Both("api", TRUE) \cup Both("api_key", TRUE) \cup Both("user", FALSE))
    <2>1. (Both("api", TRUE) \cup Both("api_key", TRUE)) \cap Both("user", FALSE) = {}
      BY <1>7, <1>8
    <2> HIDE DEF two
    <2> QED
      BY <1>6, <1>8, <1>10, <2>1, ListsConcat
  <1>12. Checks(ip) = three \o ChecksOf("ip", ip)
    BY DEF Checks
  <1>13. (Both("api", TRUE) \cup Both("api_key", TRUE) \cup Both("user", FALSE))
           \cap Both("ip", ip) = {}
    BY <1>7, <1>8
  <1> HIDE DEF three, two
  <1> DEFINE before == Both("api", TRUE) \cup Both("api_key", TRUE) \cup Both("user", FALSE)
  <1>14. Lists(three, before) /\ before \cap Both("ip", ip) = {}
         /\ ChecksDue(ip) = before \cup Both("ip", ip)
    BY <1>9, <1>11, <1>13
  <1>15. Lists(ChecksOf("ip", ip), Both("ip", ip))
    BY <1>6, <1>8
  <1> HIDE DEF before
  <1>16. Lists(three \o ChecksOf("ip", ip), before \cup Both("ip", ip))
    BY <1>14, <1>15, ListsConcat
  <1> QED
    BY <1>12, <1>14, <1>16

(***************************************************************************)
(* What is recorded of a request that is not yet answered: the checks      *)
(* before the one it stands at have charged it, all of them past the last; *)
(* it was published when, and as, it was decided.                          *)
(***************************************************************************)
LimiterType == [dim : Dimension, kind : Kind, id : ApiKey \cup {"all"}]
ReqOf == [at : {"check", "track", "throw", "gate", "forward"},
          key : ApiKey, ip : BOOLEAN, next : Nat \ {0},
          charged : Seq(LimiterType), events : Seq({"allowed", "throttled"})]

ChargedInOrder(q) ==
    /\ Len(q.charged) <= Len(Checks(q.ip))
    /\ \A i \in 1..Len(q.charged) : q.charged[i] = LimiterOf(Checks(q.ip)[i], q.key)
    /\ q.at = "check" => q.next = Len(q.charged) + 1 /\ q.next <= Len(Checks(q.ip))
    /\ q.at \in {"track", "throw"} => Len(q.charged) < Len(Checks(q.ip))
    /\ q.at \in {"gate", "forward"} => Len(q.charged) = Len(Checks(q.ip))

PublishedAs(q) ==
    /\ q.at \in {"check", "gate"} => q.events = <<>>
    /\ q.at = "forward" => q.events = <<"allowed">>
    /\ q.at \in {"track", "throw"} => q.events = <<"throttled">>

Sound(q) == q \in ReqOf /\ ChargedInOrder(q) /\ PublishedAs(q) /\ (q.at = "track" => q.ip)

RecordInv ==
    /\ req = [r \in Request |-> req[r]]
    /\ \A r \in Request : req[r] = Away \/ Sound(req[r])

BooksTyped ==
    /\ metrics \in [allowed : Nat, throttled : Nat]
    /\ replies \in [Decision -> Nat] /\ failures \in 0..MaxFailures

\* Only a request whose 429 is about to be thrown has a call of the tracker.
LinkInv == \A r \in Request : Stage(r, "throw") \/ At(r, "idle")

GateInv == RecordInv /\ BooksTyped /\ LinkInv

Others429(r) == \A s \in Request \ {r} : req'[s] = req[s]

\* Request r goes on as q, or goes.
Becomes(r, q) ==
    /\ req' = [s \in Request |-> req'[s]] /\ Others429(r)
    /\ req'[r] = q

LEMMA Changes ==
  ASSUME RecordInv, NEW r \in Request, NEW q, req' = [req EXCEPT ![r] = q]
  PROVE  Becomes(r, q)
  <1>1. DOMAIN req = Request /\ req' = [s \in DOMAIN req |-> IF s = r THEN q ELSE req[s]]
    BY DEF RecordInv
  <1>2. req' = [s \in Request |-> IF s = r THEN q ELSE req[s]]
    BY <1>1
  <1> QED
    BY <1>2 DEF Becomes, Others429

LEMMA LimiterTyped ==
  ASSUME NEW c \in CheckOf, NEW key \in ApiKey
  PROVE  LimiterOf(c, key) \in LimiterType
  BY DEF LimiterOf, LimiterType, CheckOf

\* A request whose number of checks is known.
LEMMA ListTyped ==
  ASSUME NEW ip \in BOOLEAN
  PROVE  /\ Checks(ip) \in Seq(CheckOf) /\ Len(Checks(ip)) \in Nat
         /\ \A i \in 1..Len(Checks(ip)) : Checks(ip)[i] \in CheckOf
         /\ (Checks(ip) = <<>>) = (Len(Checks(ip)) = 0)
  <1>1. Checks(ip) \in Seq(CheckOf)
    BY ChecksAre DEF Lists
  <1> QED
    BY <1>1, EmptySeq, LenProperties

LEMMA ArriveDoes ==
  ASSUME GateInv, NEW r \in Request, NEW key \in ApiKey, NEW ip \in BOOLEAN, Arrive(r, key, ip)
  PROVE  /\ \E q : Becomes(r, q) /\ Sound(q) /\ q.at \in {"check", "gate"}
         /\ Stage(r, "away") /\ UNCHANGED <<vars, replies, failures>>
         /\ metrics' \in [allowed : Nat, throttled : Nat]
         /\ metrics'.throttled = metrics.throttled
  <1> DEFINE q == [at |-> IF Checks(ip) = <<>> THEN "gate" ELSE "check",
                   key |-> key, ip |-> ip, next |-> 1, charged |-> <<>>, events |-> <<>>]
  <1>1. Becomes(r, q)
    BY Changes DEF Arrive, GateInv
  <1>2. q \in ReqOf
    BY DEF ReqOf
  <1>3. /\ q.charged = <<>> /\ Len(q.charged) = 0 /\ 1..0 = {} /\ q.next = 1 /\ q.ip = ip
        /\ q.at = (IF Checks(ip) = <<>> THEN "gate" ELSE "check") /\ q.events = <<>>
    OBVIOUS
  <1> HIDE DEF q
  <1>4. ChargedInOrder(q) /\ PublishedAs(q)
    BY <1>3, ListTyped DEF ChargedInOrder, PublishedAs
  <1>5. Sound(q) /\ q.at \in {"check", "gate"}
    BY <1>2, <1>3, <1>4 DEF Sound
  <1>6. /\ metrics' \in [allowed : Nat, throttled : Nat]
        /\ metrics'.throttled = metrics.throttled
    BY DEF Arrive, GateInv, BooksTyped
  <1> QED
    BY <1>1, <1>5, <1>6 DEF Arrive

LEMMA PassDoes ==
  ASSUME GateInv, NEW r \in Request, Pass(r)
  PROVE  /\ \E q : Becomes(r, q) /\ Sound(q) /\ q.at \in {"check", "gate"}
         /\ Stage(r, "check") /\ UNCHANGED <<vars, replies, failures>>
         /\ metrics' \in [allowed : Nat, throttled : Nat]
         /\ metrics'.throttled = metrics.throttled
  <1> DEFINE p == req[r]
             list == Checks(p.ip)
             charged == Append(p.charged, TheLimiter(r))
             last == p.next = Len(list)
             q == IF last THEN [p EXCEPT !.at = "gate", !.charged = charged]
                  ELSE [p EXCEPT !.next = @ + 1, !.charged = charged]
  <1>1. Sound(p) /\ p.at = "check" /\ p \in ReqOf
    BY DEF Pass, Stage, GateInv, RecordInv, Away, Sound
  <1>2. /\ p.ip \in BOOLEAN /\ p.key \in ApiKey /\ p.charged \in Seq(LimiterType)
        /\ p.next \in Nat \ {0} /\ p.events = <<>>
        /\ p.next = Len(p.charged) + 1 /\ p.next <= Len(list)
    BY <1>1 DEF Sound, ChargedInOrder, PublishedAs, ReqOf
  <1>3. Len(list) \in Nat /\ p.next \in 1..Len(list) /\ list[p.next] \in CheckOf
    BY <1>2, ListTyped
  <1>4. TheLimiter(r) \in LimiterType /\ TheLimiter(r) = LimiterOf(list[p.next], p.key)
    BY <1>2, <1>3, LimiterTyped DEF TheLimiter
  <1>5. /\ charged \in Seq(LimiterType) /\ Len(charged) = p.next /\ Len(p.charged) \in Nat
        /\ charged[p.next] = TheLimiter(r)
        /\ \A i \in 1..Len(p.charged) : charged[i] = p.charged[i]
    <2>1. /\ Append(p.charged, TheLimiter(r)) \in Seq(LimiterType)
          /\ Len(Append(p.charged, TheLimiter(r))) = Len(p.charged) + 1
          /\ \A i \in 1..Len(p.charged) : Append(p.charged, TheLimiter(r))[i] = p.charged[i]
          /\ Append(p.charged, TheLimiter(r))[Len(p.charged) + 1] = TheLimiter(r)
      BY <1>2, <1>4, AppendProperties
    <2> QED
      BY <1>2, <2>1, LenProperties
  <1>6. Becomes(r, q)
    <2>1. req' = [req EXCEPT ![r] = q]
      BY DEF Pass
    <2> QED
      BY <2>1, Changes DEF GateInv
  <1>7. /\ q \in ReqOf /\ q.at = (IF last THEN "gate" ELSE "check")
        /\ q.charged = charged /\ q.ip = p.ip /\ q.key = p.key /\ q.events = <<>>
        /\ q.next = (IF last THEN p.next ELSE p.next + 1)
    <2>0. p \in ReqOf /\ charged \in Seq(LimiterType) /\ p.next + 1 \in Nat \ {0} /\ p.events = <<>>
          /\ p.at = "check"
      BY <1>1, <1>2, <1>5
    <2> HIDE DEF charged, p, list
    <2>1. CASE last
      <3>1. q = [p EXCEPT !.at = "gate", !.charged = charged]
        BY <2>1
      <3> HIDE DEF q, last
      <3> QED
        BY <2>0, <2>1, <3>1 DEF ReqOf
    <2>2. CASE ~last
      <3>1. q = [p EXCEPT !.next = @ + 1, !.charged = charged]
        BY <2>2
      <3> HIDE DEF q, last
      <3> QED
        BY <2>0, <2>2, <3>1 DEF ReqOf
    <2> HIDE DEF q
    <2> QED
      BY <2>1, <2>2
  <1> HIDE DEF q, charged, p
  <1>8. \A i \in 1..Len(q.charged) : q.charged[i] = LimiterOf(Checks(q.ip)[i], q.key)
    <2> SUFFICES ASSUME NEW i \in 1..Len(q.charged)
                 PROVE  charged[i] = LimiterOf(list[i], p.key)
      BY <1>7
    <2>1. i \in 1..Len(p.charged) \/ i = p.next
      BY <1>2, <1>5, <1>7
    <2>2. \A j \in 1..Len(p.charged) : p.charged[j] = LimiterOf(list[j], p.key)
      BY <1>1 DEF Sound, ChargedInOrder
    <2> QED
      BY <1>4, <1>5, <2>1, <2>2
  <1>9. ChargedInOrder(q)
    BY <1>2, <1>3, <1>5, <1>7, <1>8 DEF ChargedInOrder
  <1>10. Sound(q) /\ q.at \in {"check", "gate"}
    BY <1>7, <1>9 DEF Sound, PublishedAs
  <1>11. /\ metrics' \in [allowed : Nat, throttled : Nat]
         /\ metrics'.throttled = metrics.throttled
    BY DEF Pass, GateInv, BooksTyped
  <1> QED
    BY <1>6, <1>10, <1>11 DEF Pass

\* The first event of a request.
LEMMA FirstEvent ==
  ASSUME NEW e \in {"allowed", "throttled"}
  PROVE  /\ Append(<<>>, e) = <<e>>
         /\ <<e>> \in Seq({"allowed", "throttled"})
  OBVIOUS

LEMMA RefuseDoes ==
  ASSUME GateInv, NEW r \in Request, Refuse(r)
  PROVE  /\ \E q : Becomes(r, q) /\ Sound(q) /\ q.at \in {"track", "throw"}
         /\ Stage(r, "check") /\ UNCHANGED <<vars, replies, failures>>
         /\ metrics' \in [allowed : Nat, throttled : Nat]
         /\ metrics'.throttled = metrics.throttled + 1
  <1> DEFINE p == req[r]
             q == [p EXCEPT !.at = IF p.ip THEN "track" ELSE "throw",
                            !.events = Append(@, "throttled")]
  <1>1. Sound(p) /\ p.at = "check" /\ p \in ReqOf
    BY DEF Refuse, Stage, GateInv, RecordInv, Away, Sound
  <1>2. Becomes(r, q)
    <2>1. req' = [req EXCEPT ![r] = q]
      BY DEF Refuse
    <2> QED
      BY <2>1, Changes DEF GateInv
  <1> HIDE DEF p
  <1>3. p.events = <<>> /\ Append(p.events, "throttled") = <<"throttled">>
    BY <1>1, FirstEvent DEF Sound, PublishedAs
  <1>4. /\ q \in ReqOf /\ q.at = (IF p.ip THEN "track" ELSE "throw")
        /\ q.charged = p.charged /\ q.ip = p.ip /\ q.key = p.key /\ q.events = <<"throttled">>
    <2>1. <<"throttled">> \in Seq({"allowed", "throttled"})
      BY FirstEvent
    <2>2. q = [p EXCEPT !.at = IF p.ip THEN "track" ELSE "throw", !.events = <<"throttled">>]
      BY <1>3
    <2> HIDE DEF q
    <2> QED
      BY <1>1, <2>1, <2>2 DEF ReqOf
  <1>5. Len(p.charged) < Len(Checks(p.ip))
    <2>1. p.next = Len(p.charged) + 1 /\ p.next <= Len(Checks(p.ip)) /\ p.charged \in Seq(LimiterType)
          /\ p.ip \in BOOLEAN
      BY <1>1 DEF Sound, ChargedInOrder, ReqOf
    <2>2. Len(p.charged) \in Nat /\ Len(Checks(p.ip)) \in Nat
      BY <2>1, LenProperties, ListTyped
    <2> QED
      BY <2>1, <2>2
  <1> HIDE DEF q
  <1>6. q.at \in {"track", "throw"} /\ (q.at = "track" => q.ip)
    BY <1>4
  <1>7. ChargedInOrder(q) /\ PublishedAs(q)
    BY <1>1, <1>4, <1>5, <1>6 DEF ChargedInOrder, PublishedAs, Sound
  <1>8. /\ metrics' \in [allowed : Nat, throttled : Nat]
        /\ metrics'.throttled = metrics.throttled + 1
    BY DEF Refuse, GateInv, BooksTyped
  <1> QED
    BY <1>2, <1>4, <1>6, <1>7, <1>8 DEF Refuse, Sound

LEMMA TrackDoes ==
  ASSUME GateInv, NEW r \in Request, Track(r)
  PROVE  /\ \E q : Becomes(r, q) /\ Sound(q) /\ q.at = "throw"
         /\ Stage(r, "track") /\ Throttle(r) /\ UNCHANGED <<metrics, replies, failures>>
  <1> DEFINE p == req[r]
             q == [p EXCEPT !.at = "throw"]
  <1>1. Sound(p) /\ p.at = "track" /\ p \in ReqOf
    BY DEF Track, Stage, GateInv, RecordInv, Away, Sound
  <1>2. Becomes(r, q)
    <2>1. req' = [req EXCEPT ![r] = q]
      BY DEF Track, Enter
    <2> QED
      BY <2>1, Changes DEF GateInv
  <1> HIDE DEF p
  <1>3. /\ q \in ReqOf /\ q.at = "throw"
        /\ q.charged = p.charged /\ q.ip = p.ip /\ q.key = p.key /\ q.events = p.events
    BY <1>1 DEF ReqOf
  <1> HIDE DEF q
  <1>4. Sound(q)
    BY <1>1, <1>3 DEF Sound, ChargedInOrder, PublishedAs
  <1> QED
    BY <1>2, <1>3, <1>4 DEF Track

LEMMA AnswerDoes ==
  ASSUME GateInv, NEW r \in Request, NEW decision \in Decision, Answer(r, decision)
  PROVE  /\ Becomes(r, Away) /\ replies' \in [Decision -> Nat]
         /\ replies'[decision] = replies[decision] + 1
         /\ \A d \in Decision \ {decision} : replies'[d] = replies[d]
  <1>1. Becomes(r, Away)
    BY Changes DEF Answer, GateInv
  <1>2. replies \in [Decision -> Nat] /\ replies' = [replies EXCEPT ![decision] = @ + 1]
    BY DEF Answer, GateInv, BooksTyped
  <1> QED
    BY <1>1, <1>2

LEMMA GateDoes ==
  ASSUME GateInv, NEW r \in Request, Gate(r)
  PROVE  /\ Stage(r, "gate") /\ UNCHANGED <<vars, metrics, failures>>
         /\ \/ Answer(r, "blocked")
            \/ /\ \E q : Becomes(r, q) /\ Sound(q) /\ q.at = "forward"
               /\ UNCHANGED replies
  <1> DEFINE p == req[r]
             q == [p EXCEPT !.at = "forward", !.events = Append(@, "allowed")]
  <1>1. Sound(p) /\ p.at = "gate" /\ p \in ReqOf
    BY DEF Gate, Stage, GateInv, RecordInv, Away, Sound
  <1>2. CASE Answer(r, "blocked")
    BY <1>2 DEF Gate
  <1>3. CASE req' = [req EXCEPT ![r] = q] /\ UNCHANGED replies
    <2>1. Becomes(r, q)
      BY <1>3, Changes DEF GateInv
    <2> HIDE DEF p
    <2>2. p.events = <<>> /\ Append(p.events, "allowed") = <<"allowed">>
      BY <1>1, FirstEvent DEF Sound, PublishedAs
    <2>3. /\ q \in ReqOf /\ q.at = "forward"
          /\ q.charged = p.charged /\ q.ip = p.ip /\ q.key = p.key /\ q.events = <<"allowed">>
      <3>1. <<"allowed">> \in Seq({"allowed", "throttled"})
        BY FirstEvent
      <3>2. q = [p EXCEPT !.at = "forward", !.events = <<"allowed">>]
        BY <2>2
      <3> HIDE DEF q
      <3> QED
        BY <1>1, <3>1, <3>2 DEF ReqOf
    <2> HIDE DEF q
    <2>4. Sound(q)
      BY <1>1, <2>3 DEF Sound, ChargedInOrder, PublishedAs
    <2> QED
      BY <1>3, <2>1, <2>3, <2>4 DEF Gate
  <1> QED
    BY <1>2, <1>3 DEF Gate

LEMMA ErrsDoes ==
  ASSUME GateInv, NEW r \in Request, Errs(r)
  PROVE  /\ Becomes(r, Away) /\ UNCHANGED <<metrics, replies>>
         /\ failures' = failures + 1 /\ failures' \in 0..MaxFailures
  <1>1. Becomes(r, Away)
    BY Changes DEF Errs, GateInv
  <1>2. failures \in 0..MaxFailures /\ MaxFailures \in Nat /\ failures < MaxFailures
        /\ failures' = failures + 1 /\ UNCHANGED <<metrics, replies>>
    BY GatewayAssumption DEF Errs, GateInv, BooksTyped
  <1> QED
    BY <1>1, <1>2

(***************************************************************************)
(* A step moves one request at most, as follows.                           *)
(***************************************************************************)
Goes(r, from, to) ==
    /\ Stage(r, from)
    /\ \E q : Becomes(r, q) /\ Sound(q) /\ q.at \in to
    /\ UNCHANGED failures

Stays == UNCHANGED pipeline

Starts(r) ==
    /\ Goes(r, "away", {"check", "gate"}) \/ Goes(r, "check", {"check", "gate"})
       \/ Goes(r, "gate", {"forward"})
    /\ metrics' \in [allowed : Nat, throttled : Nat]
    /\ metrics'.throttled = metrics.throttled /\ UNCHANGED <<vars, replies>>
Throttled(r) ==
    /\ Goes(r, "check", {"track", "throw"})
    /\ metrics' \in [allowed : Nat, throttled : Nat]
    /\ metrics'.throttled = metrics.throttled + 1 /\ UNCHANGED <<vars, replies>>
Tracked(r) == Goes(r, "track", {"throw"}) /\ Throttle(r) /\ UNCHANGED <<metrics, replies>>
LetGo(r) ==
    /\ \/ Stage(r, "gate") /\ Answer(r, "blocked")
       \/ Stage(r, "forward") /\ Answer(r, "allowed")
    /\ UNCHANGED <<vars, metrics, failures>>
Thrown(r) ==
    /\ Stage(r, "throw") /\ At(r, "idle") /\ Answer(r, "throttled")
    /\ UNCHANGED <<vars, metrics, failures>>
Failed(r) ==
    /\ Errs(r)
    /\ \/ UNCHANGED vars /\ ~Stage(r, "throw")
       \/ Crash(r)

LEMMA StepKinds ==
  ASSUME GateInv, [GatewayNext]_gatewayVars
  PROVE  \/ UNCHANGED gatewayVars
         \/ TimePasses \/ AdminCalls
         \/ \E r \in Request : \/ Starts(r) \/ Throttled(r) \/ Tracked(r) \/ TrackNext(r)
                               \/ LetGo(r) \/ Thrown(r) \/ Failed(r)
  <1>1. ASSUME NEW r \in Request, NEW key \in ApiKey, NEW ip \in BOOLEAN, Arrive(r, key, ip)
        PROVE  Starts(r)
    BY <1>1, ArriveDoes DEF Starts, Goes
  <1>2. ASSUME NEW r \in Request, Pass(r) PROVE Starts(r)
    BY <1>2, PassDoes DEF Starts, Goes
  <1>3. ASSUME NEW r \in Request, Refuse(r) PROVE Throttled(r)
    BY <1>3, RefuseDoes DEF Throttled, Goes
  <1>4. ASSUME NEW r \in Request, Track(r) PROVE Tracked(r)
    BY <1>4, TrackDoes DEF Tracked, Goes
  <1>5. ASSUME NEW r \in Request, Throw(r) PROVE Thrown(r)
    BY <1>5 DEF Throw, Thrown
  <1>6. ASSUME NEW r \in Request, Gate(r) PROVE Starts(r) \/ LetGo(r)
    <2>1. metrics \in [allowed : Nat, throttled : Nat]
      BY DEF GateInv, BooksTyped
    <2>2. Stage(r, "gate") /\ UNCHANGED <<vars, metrics, failures>>
      BY <1>6, GateDoes
    <2>3. CASE Answer(r, "blocked")
      BY <2>2, <2>3 DEF LetGo
    <2>4. CASE (\E q : Becomes(r, q) /\ Sound(q) /\ q.at = "forward") /\ UNCHANGED replies
      BY <2>1, <2>2, <2>4 DEF Starts, Goes
    <2> QED
      BY <1>6, <2>3, <2>4, GateDoes
  <1>7. ASSUME NEW r \in Request, Forward(r) PROVE LetGo(r)
    BY <1>7 DEF Forward, LetGo
  <1>8. ASSUME NEW r \in Request, Fails(r) \/ TrackingFails(r) PROVE Failed(r)
    BY <1>8 DEF Fails, TrackingFails, Failed, Stage
  <1> QED
    BY <1>1, <1>2, <1>3, <1>4, <1>5, <1>6, <1>7, <1>8 DEF GatewayNext, PipelineStep

(***************************************************************************)
(* The records stay sound, and calls of the tracker stay with requests     *)
(* whose 429 is about to be thrown.                                        *)
(***************************************************************************)
LEMMA RecordsStay ==
  ASSUME RecordInv, NEW r \in Request, NEW q, Becomes(r, q), q = Away \/ Sound(q)
  PROVE  RecordInv'
  <1>1. \A s \in Request : req'[s] = req[s] \/ req'[s] = q
    BY DEF Becomes, Others429
  <1>2. \A s \in Request : req'[s] = Away \/ Sound(req'[s])
    BY <1>1 DEF RecordInv
  <1>3. Sound(q)' = Sound(q) /\ Away' = Away /\ \A s \in Request : Sound(req[s])' = Sound(req'[s])
    BY DEF Sound, Away
  <1> QED
    BY <1>2, <1>3 DEF RecordInv, Becomes

LEMMA LinkStays ==
  ASSUME LinkInv, NEW r \in Request, NEW q, Becomes(r, q), UNCHANGED op,
         At(r, "idle") \/ q.at = "throw"
  PROVE  LinkInv'
  BY DEF LinkInv, Becomes, Others429, Stage, At

LEMMA GateStep == TypeOK /\ GateInv /\ [GatewayNext]_gatewayVars => GateInv'
  <1> SUFFICES ASSUME TypeOK, GateInv, [GatewayNext]_gatewayVars
               PROVE  GateInv'
    OBVIOUS
  <1>0. RecordInv /\ BooksTyped /\ LinkInv
    BY DEF GateInv
  <1>a. ASSUME UNCHANGED pipeline PROVE RecordInv' /\ BooksTyped'
    BY <1>0, <1>a DEF pipeline, RecordInv, BooksTyped
  <1>b. ASSUME NEW r \in Request, NEW from, NEW to, Goes(r, from, to) PROVE RecordInv'
    BY <1>0, <1>b, RecordsStay DEF Goes
  <1>c. ASSUME NEW r \in Request, Stage(r, "away") \/ Stage(r, "check") \/ Stage(r, "gate")
                                  \/ Stage(r, "track") \/ Stage(r, "forward")
        PROVE  At(r, "idle")
    BY <1>0, <1>c DEF LinkInv, Stage
  <1>1. CASE UNCHANGED gatewayVars
    BY <1>0, <1>1, <1>a DEF gatewayVars, pipeline, vars, GateInv, LinkInv, Stage, At
  <1>2. CASE TimePasses
    BY <1>0, <1>2, <1>a DEF TimePasses, Tick, pipeline, GateInv, LinkInv, Stage, At
  <1>3. CASE AdminCalls
    <2>1. PICK a \in Admin : AdminNext(a) \/ Crash(a)
      BY <1>3 DEF AdminCalls
    <2>2. Others(a)
      BY <2>1, CreateFrame, FindFrame, EntityFrame, ReadFrame, SetFrame, DelFrame,
         MarkFrame, MarkAllFrame, CrashFrame DEF AdminNext, AdminStep, AdminFrame, Process
    <2>3. \A r \in Request : op'[r] = op[r]
      BY <2>2, BlockAssumption DEF Others, Process
    <2> QED
      BY <1>0, <1>3, <1>a, <2>3 DEF AdminCalls, pipeline, GateInv, LinkInv, Stage, At
  <1>4. ASSUME NEW r \in Request, Starts(r) \/ Throttled(r) PROVE GateInv'
    <2>1. RecordInv'
      BY <1>4, <1>b DEF Starts, Throttled
    <2>2. BooksTyped'
      BY <1>0, <1>4 DEF Starts, Throttled, Goes, BooksTyped
    <2>3. At(r, "idle") /\ UNCHANGED op
      BY <1>4, <1>c DEF Starts, Throttled, Goes, vars
    <2>4. \E q : Becomes(r, q)
      BY <1>4 DEF Starts, Throttled, Goes
    <2> QED
      BY <1>0, <2>1, <2>2, <2>3, <2>4, LinkStays DEF GateInv
  <1>5. ASSUME NEW r \in Request, Tracked(r) PROVE GateInv'
    <2>1. RecordInv' /\ BooksTyped'
      BY <1>0, <1>5, <1>b DEF Tracked, Goes, BooksTyped
    <2>2. PICK q : Becomes(r, q) /\ q.at \in {"throw"}
      BY <1>5 DEF Tracked, Goes
    <2>3. \A s \in Request : s # r => op'[s] = op[s]
      BY <1>5, RequestMoves DEF Tracked, Others, Process
    <2>4. LinkInv'
      BY <1>0, <2>2, <2>3 DEF LinkInv, Becomes, Others429, Stage, At
    <2> QED
      BY <2>1, <2>4 DEF GateInv
  <1>6. ASSUME NEW r \in Request, TrackNext(r) PROVE GateInv'
    <2>1. \A s \in Request : s # r => op'[s] = op[s]
      BY <1>6, RequestMoves DEF TrackNext, Others, Process
    <2>2. ~At(r, "idle")
      BY <1>6 DEF TrackNext, RequestStep, Expire, Set429, Del429, At
    <2>3. LinkInv'
      BY <1>0, <1>6, <2>1, <2>2 DEF TrackNext, pipeline, LinkInv, Stage, At
    <2> QED
      BY <1>6, <1>a, <2>3 DEF TrackNext, GateInv
  <1>7. ASSUME NEW r \in Request, LetGo(r) \/ Thrown(r) PROVE GateInv'
    <2>1. PICK d \in Decision : Answer(r, d)
      BY <1>7 DEF LetGo, Thrown, Decision
    <2>2. Becomes(r, Away) /\ replies' \in [Decision -> Nat]
      BY <2>1, AnswerDoes
    <2>3. At(r, "idle") /\ UNCHANGED <<vars, metrics, failures>>
      BY <1>7, <1>c DEF LetGo, Thrown
    <2>4. RecordInv'
      BY <1>0, <2>2, RecordsStay
    <2>5. BooksTyped'
      BY <1>0, <2>2, <2>3 DEF BooksTyped
    <2>6. LinkInv'
      BY <1>0, <2>2, <2>3, LinkStays DEF vars
    <2> QED
      BY <2>4, <2>5, <2>6 DEF GateInv
  <1>8. ASSUME NEW r \in Request, Failed(r) PROVE GateInv'
    <2>1. Becomes(r, Away) /\ BooksTyped'
      BY <1>0, <1>8, ErrsDoes DEF Failed, BooksTyped
    <2>2. RecordInv'
      BY <1>0, <2>1, RecordsStay
    <2>3. CASE UNCHANGED vars /\ ~Stage(r, "throw")
      <3>1. At(r, "idle")
        BY <1>0, <2>3 DEF LinkInv
      <3> QED
        BY <1>0, <2>1, <2>2, <2>3, <3>1, LinkStays DEF GateInv, vars
    <2>4. CASE Crash(r)
      <3>1. op'[r].at = "idle" /\ Others(r)
        BY <2>4, CrashFrame DEF Process
      <3>2. LinkInv'
        BY <1>0, <2>1, <3>1 DEF LinkInv, Becomes, Others429, Stage, At, Others, Process
      <3> QED
        BY <2>1, <2>2, <3>2 DEF GateInv
    <2> QED
      BY <1>8, <2>3, <2>4 DEF Failed
  <1> QED
    BY <1>1, <1>2, <1>3, <1>4, <1>5, <1>6, <1>7, <1>8, StepKinds

LEMMA GateInitial == GatewayInit => GateInv
  <1> SUFFICES ASSUME GatewayInit PROVE GateInv
    OBVIOUS
  <1>1. \A r \in Request : req[r] = Away /\ At(r, "idle")
    BY DEF GatewayInit, Init, At, Idle, Process
  <1>2. req = [r \in Request |-> req[r]]
    BY DEF GatewayInit
  <1>3. BooksTyped
    BY GatewayAssumption DEF GatewayInit, BooksTyped
  <1> QED
    BY <1>1, <1>2, <1>3 DEF GateInv, RecordInv, LinkInv

LEMMA GateHolds == GatewaySpec => [](TypeOK /\ GateInv)
  <1>1. GatewayInit => TypeOK /\ GateInv
    BY GateInitial, TypeInitial DEF GatewayInit
  <1>2. TypeOK /\ GateInv /\ [GatewayNext]_gatewayVars => (TypeOK /\ GateInv)'
    BY GateStep, StepImplements, TypeInductive
  <1> QED
    BY <1>1, <1>2, PTL DEF GatewaySpec

(***************************************************************************)
(* A request in progress stands at a check that exists, at the gate or     *)
(* before its 429, and is tracked only with an IP                          *)
(* (rate-limit.guard.ts:114).                                              *)
(***************************************************************************)
THEOREM GatewayTyped == GatewaySpec => []GatewayTypeOK
  <1>1. GateInv => GatewayTypeOK
    <2> SUFFICES ASSUME GateInv PROVE GatewayTypeOK
      OBVIOUS
    <2>1. ASSUME NEW r \in Request, ~Stage(r, "away")
          PROVE  /\ req[r] \in ReqOf
                 /\ Stage(r, "check") => req[r].next <= Len(Checks(req[r].ip))
                 /\ Stage(r, "track") => req[r].ip
      BY <2>1 DEF GateInv, RecordInv, Sound, ChargedInOrder, Stage, Away
    <2> QED
      BY <2>1 DEF GateInv, BooksTyped, GatewayTypeOK, ReqOf, LimiterType
  <1> QED
    BY <1>1, GateHolds, PTL

(***************************************************************************)
(* Where a request stands when it is answered.                             *)
(***************************************************************************)
LEMMA AnsweredIs ==
  ASSUME GateInv, [GatewayNext]_gatewayVars,
         NEW r \in Request, NEW decision \in Decision, Answered(r, decision)
  PROVE  \/ Stage(r, "gate") /\ decision = "blocked"
         \/ Stage(r, "forward") /\ decision = "allowed"
         \/ Stage(r, "throw") /\ decision = "throttled"
  <1>1. \E s \in Request : LetGo(s) \/ Thrown(s)
    <2>1. replies' # replies
      BY DEF Answered
    <2>2. ~UNCHANGED gatewayVars /\ ~TimePasses /\ ~AdminCalls
      BY <2>1 DEF gatewayVars, pipeline, TimePasses, AdminCalls
    <2>3. \A s \in Request : ~Starts(s) /\ ~Throttled(s) /\ ~Tracked(s) /\ ~TrackNext(s)
      BY <2>1 DEF Starts, Throttled, Tracked, TrackNext, pipeline
    <2>4. \A s \in Request : ~Failed(s)
      BY <2>1, ErrsDoes DEF Failed
    <2> QED
      BY <2>2, <2>3, <2>4, StepKinds
  <1>2. PICK s \in Request : LetGo(s) \/ Thrown(s)
    BY <1>1
  <1>3. PICK d \in Decision : /\ Answer(s, d)
                              /\ \/ Stage(s, "gate") /\ d = "blocked"
                                 \/ Stage(s, "forward") /\ d = "allowed"
                                 \/ Stage(s, "throw") /\ d = "throttled"
    BY <1>2 DEF LetGo, Thrown, Decision
  <1>4. Becomes(s, Away) /\ \A e \in Decision \ {d} : replies'[e] = replies[e]
    BY <1>3, AnswerDoes
  <1>5. d = decision
    BY <1>4 DEF Answered
  <1>6. s = r
    BY <1>4 DEF Answered, Becomes, Others429, Stage, Away
  <1> QED
    BY <1>3, <1>5, <1>6

LEMMA LimitersDiffer ==
  ASSUME NEW c \in CheckOf, NEW d \in CheckOf, NEW key \in ApiKey,
         LimiterOf(c, key) = LimiterOf(d, key)
  PROVE  c = d
  <1>1. c.dim = d.dim /\ c.kind = d.kind
    BY DEF LimiterOf
  <1>2. c = [dim |-> c.dim, kind |-> c.kind] /\ d = [dim |-> d.dim, kind |-> d.kind]
    BY DEF CheckOf
  <1> QED
    BY <1>1, <1>2

\* Who has charged a request that is charged in order.
LEMMA ChargersAre ==
  ASSUME NEW q \in ReqOf, ChargedInOrder(q)
  PROVE  LET chargers == {q.charged[i] : i \in DOMAIN q.charged} IN
         /\ \A i, j \in DOMAIN q.charged : q.charged[i] = q.charged[j] => i = j
         /\ chargers \subseteq DueOf(q)
         /\ (chargers = DueOf(q)) = (Len(q.charged) = Len(Checks(q.ip)))
  <1> DEFINE list == Checks(q.ip)
             chargers == {q.charged[i] : i \in DOMAIN q.charged}
  <1>1. q.ip \in BOOLEAN /\ q.key \in ApiKey /\ q.charged \in Seq(LimiterType)
    BY DEF ReqOf
  <1>2. /\ Len(q.charged) \in Nat /\ DOMAIN q.charged = 1..Len(q.charged)
        /\ Len(list) \in Nat /\ \A i \in 1..Len(list) : list[i] \in CheckOf
    BY <1>1, LenProperties, ListTyped
  <1>3. /\ \A i, j \in 1..Len(list) : list[i] = list[j] => i = j
        /\ ChecksDue(q.ip) = {list[i] : i \in 1..Len(list)}
    BY <1>1, ChecksAre DEF Lists
  <1>4. /\ Len(q.charged) <= Len(list)
        /\ \A i \in 1..Len(q.charged) : /\ i \in 1..Len(list)
                                        /\ q.charged[i] = LimiterOf(list[i], q.key)
    BY <1>2 DEF ChargedInOrder
  <1>5. DueOf(q) = {LimiterOf(c, q.key) : c \in ChecksDue(q.ip)}
    BY DEF DueOf, ChecksDue, CheckOf
  <1> HIDE DEF list
  <1>6. \A i, j \in 1..Len(list) : LimiterOf(list[i], q.key) = LimiterOf(list[j], q.key) => i = j
    BY <1>1, <1>2, <1>3, LimitersDiffer
  <1>7. \A i, j \in DOMAIN q.charged : q.charged[i] = q.charged[j] => i = j
    BY <1>2, <1>4, <1>6
  <1>8. chargers \subseteq DueOf(q)
    BY <1>2, <1>3, <1>4, <1>5
  <1>9. ASSUME Len(q.charged) = Len(list) PROVE DueOf(q) \subseteq chargers
    BY <1>2, <1>3, <1>4, <1>5, <1>9
  <1>10. ASSUME Len(q.charged) # Len(list) PROVE DueOf(q) # chargers
    <2> DEFINE last == LimiterOf(list[Len(list)], q.key)
    <2>1. Len(list) \in 1..Len(list) /\ ~(Len(list) \in 1..Len(q.charged))
      BY <1>2, <1>4, <1>10
    <2>2. last \in DueOf(q)
      BY <1>3, <1>5, <2>1
    <2>3. last \notin chargers
      BY <1>2, <1>4, <1>6, <2>1
    <2> QED
      BY <2>2, <2>3
  <1> HIDE DEF chargers
  <1>11. (chargers = DueOf(q)) = (Len(q.charged) = Len(list))
    BY <1>8, <1>9, <1>10
  <1> QED
    BY <1>7, <1>8, <1>11 DEF chargers, list

(***************************************************************************)
(* Who is let through was charged once by every limiter it is subject to,  *)
(* a throttled request by some of them (rate-limit.engine.ts:133-168).     *)
(***************************************************************************)
THEOREM ChargeTheorem == GatewaySpec => ChargedAsAnswered
  <1> DEFINE Fair(r, decision) ==
        LET charged == req[r].charged
            chargers == {charged[i] : i \in DOMAIN charged}
        IN  /\ \A i, j \in DOMAIN charged : charged[i] = charged[j] => i = j
            /\ chargers \subseteq DueOf(req[r])
            /\ (chargers = DueOf(req[r])) = (decision # "throttled")
  <1>1. ASSUME GateInv, [GatewayNext]_gatewayVars,
               NEW r \in Request, NEW decision \in Decision, Answered(r, decision)
        PROVE  Fair(r, decision)
    <2>1. req[r] \in ReqOf /\ ChargedInOrder(req[r])
      BY <1>1 DEF GateInv, RecordInv, Answered, Stage, Away, Sound
    <2>2. (Len(req[r].charged) = Len(Checks(req[r].ip))) = (decision # "throttled")
      <3>1. Len(req[r].charged) \in Nat /\ Len(Checks(req[r].ip)) \in Nat
        BY <2>1, LenProperties, ListTyped DEF ReqOf
      <3> QED
        BY <1>1, <2>1, <3>1, AnsweredIs DEF ChargedInOrder, Stage
    <2> QED
      BY <2>1, <2>2, ChargersAre
  <1>2. GateInv /\ [GatewayNext]_gatewayVars =>
          [\A r \in Request, decision \in Decision : Answered(r, decision) =>
             LET charged == req[r].charged
                 chargers == {charged[i] : i \in DOMAIN charged}
             IN  /\ \A i, j \in DOMAIN charged : charged[i] = charged[j] => i = j
                 /\ chargers \subseteq DueOf(req[r])
                 /\ (chargers = DueOf(req[r])) = (decision # "throttled")]_gatewayVars
    BY <1>1
  <1> QED
    BY <1>2, GateHolds, PTL DEF GatewaySpec, ChargedAsAnswered

(***************************************************************************)
(* What is published of a request agrees with its reply                    *)
(* (rate-limit.guard.ts:100, gateway.service.ts:29).                       *)
(***************************************************************************)
THEOREM AuditTheorem == GatewaySpec => AuditMatchesReplies
  <1> DEFINE Fits(r, decision) ==
        /\ \A i \in DOMAIN req[r].events : req[r].events[i] = decision
        /\ decision # "blocked" => Len(req[r].events) = 1
  <1>1. ASSUME GateInv, [GatewayNext]_gatewayVars,
               NEW r \in Request, NEW decision \in Decision, Answered(r, decision)
        PROVE  Fits(r, decision)
    <2>1. PublishedAs(req[r])
      BY <1>1 DEF GateInv, RecordInv, Answered, Stage, Away, Sound
    <2>2. IF decision = "blocked" THEN req[r].events = <<>> ELSE req[r].events = <<decision>>
      BY <1>1, <2>1, AnsweredIs DEF PublishedAs, Stage
    <2>3. /\ DOMAIN <<>> = {}
          /\ Len(<<decision>>) = 1 /\ DOMAIN <<decision>> = {1} /\ <<decision>>[1] = decision
      <3>1. Len(<<decision>>) = 1 /\ DOMAIN <<decision>> = 1..1 /\ <<decision>>[1] = decision
        OBVIOUS
      <3> QED
        BY <3>1
    <2>4. CASE decision = "blocked"
      BY <2>2, <2>3, <2>4
    <2>5. CASE decision # "blocked"
      <3>1. req[r].events = <<decision>>
        BY <2>2, <2>5
      <3>2. DOMAIN req[r].events = {1} /\ req[r].events[1] = decision /\ Len(req[r].events) = 1
        BY <2>3, <3>1
      <3> QED
        BY <3>2
    <2> QED
      BY <2>4, <2>5
  <1>2. GateInv /\ [GatewayNext]_gatewayVars =>
          [\A r \in Request, decision \in Decision : Answered(r, decision) =>
             /\ \A i \in DOMAIN req[r].events : req[r].events[i] = decision
             /\ decision # "blocked" => Len(req[r].events) = 1]_gatewayVars
    BY <1>1
  <1> QED
    BY <1>2, GateHolds, PTL DEF GatewaySpec, AuditMatchesReplies

(***************************************************************************)
(* While no request has ended in an error: the counter that reached its    *)
(* limit has a request about to block and delete it, one without an end    *)
(* has a request about to give it one, and the 429 replies that are due    *)
(* are those counted and not yet sent.                                     *)
(***************************************************************************)
Waiting == {r \in Request : Stage(r, "track") \/ Stage(r, "throw")}

Escalates(r) ==
    \/ At(r, "set429") \/ At(r, "del429")
    \/ At(r, "expire") /\ MustBlock(op[r].arg)

CounterSettled ==
    /\ counter >= Max429 => \E r \in Request : Escalates(r)
    /\ counter > 0 /\ counterTtl = None => \E r \in Request : At(r, "expire")

RepliesDue ==
    /\ IsFiniteSet(Waiting)
    /\ metrics.throttled = replies["throttled"] + Cardinality(Waiting)

SettledInv == failures = 0 => CounterSettled /\ RepliesDue

\* Steps of others than the requests.
LEMMA CounterKept ==
  ASSUME CounterSettled, UNCHANGED <<counter, counterTtl>>,
         \A r \in Request : op'[r] = op[r]
  PROVE  CounterSettled'
  BY DEF CounterSettled, Escalates, At, MustBlock

LEMMA CounterThrottled ==
  ASSUME TypeOK, CounterSettled, NEW r \in Request, Throttle(r)
  PROVE  CounterSettled'
  <1>1. counter \in Nat /\ Max429 \in Nat \ {0} /\ op \in [Process -> Call] /\ r \in Process
    BY BlockAssumption DEF TypeOK, Process
  <1>2. counter' = counter + 1 /\ counterTtl' = counterTtl /\ At(r, "idle")
    BY DEF Throttle
  <1>3. \A s \in Request : s # r => op'[s] = op[s]
    BY RequestMoves DEF Others, Process
  <1>4. \A s \in Request : Escalates(s) => Escalates(s)'
    BY <1>2, <1>3 DEF Escalates, At, MustBlock
  <1>5. \A s \in Request : At(s, "expire") => At(s, "expire")'
    BY <1>2, <1>3 DEF At
  <1>6. CASE counter' = 1
    <2>1. op'[r].at = "expire" /\ op'[r].arg = 1
      BY <1>1, <1>6 DEF Throttle, Begin
    <2> QED
      BY <1>1, <1>6, <2>1 DEF CounterSettled, Escalates, At, MustBlock
  <1>7. CASE counter' # 1 /\ MustBlock(counter')
    <2>1. op'[r].at = "set429"
      BY <1>1, <1>7 DEF Throttle, Begin
    <2>2. Escalates(r)' /\ counter > 0
      BY <1>1, <1>2, <1>7, <2>1 DEF Escalates, At
    <2> QED
      BY <1>2, <1>5, <2>2 DEF CounterSettled
  <1>8. CASE counter' # 1 /\ ~MustBlock(counter')
    <2>1. ~(counter' >= Max429) /\ counter > 0
      BY <1>1, <1>2, <1>8 DEF MustBlock
    <2> QED
      BY <1>2, <1>5, <2>1 DEF CounterSettled
  <1> QED
    BY <1>6, <1>7, <1>8

LEMMA CounterNext ==
  ASSUME TypeOK, CounterSettled, NEW r \in Request, RequestStep(r)
  PROVE  CounterSettled'
  <1>1. /\ counter \in Nat /\ clock \in Nat /\ op \in [Process -> Call] /\ r \in Process
        /\ Max429 \in Nat \ {0} /\ WindowSeconds \in Nat \ {0}
    BY BlockAssumption DEF TypeOK, Process
  <1>2. \A s \in Request : s # r => op'[s] = op[s]
    BY RequestMoves DEF Others, Process
  <1>3. CASE Expire(r)
    <2>1. counter' = counter /\ (counter > 0 => counterTtl' # None)
      BY <1>1, <1>3 DEF Expire, None
    <2>2. ASSUME Escalates(r) PROVE op'[r].at = "set429"
      <3>1. At(r, "expire") /\ AfterExpire(r)
        BY <1>3 DEF Expire
      <3>2. MustBlock(op[r].arg)
        BY <2>2, <3>1 DEF Escalates, At
      <3> QED
        BY <1>1, <3>1, <3>2 DEF AfterExpire, Goto, Call
    <2>3. \A s \in Request : Escalates(s) => Escalates(s)'
      BY <1>2, <2>2 DEF Escalates, At, MustBlock
    <2> QED
      BY <2>1, <2>3 DEF CounterSettled
  <1>4. CASE Set429(r)
    <2>1. counter' = counter /\ counterTtl' = counterTtl /\ At(r, "set429")
      BY <1>4 DEF Set429
    <2>2. op'[r].at = "del429"
      BY <1>1, <1>4 DEF Set429, Goto, Call
    <2>3. \A s \in Request : /\ Escalates(s) => Escalates(s)'
                             /\ At(s, "expire") => At(s, "expire")'
      BY <1>2, <2>1, <2>2 DEF Escalates, At, MustBlock
    <2> QED
      BY <2>1, <2>3 DEF CounterSettled
  <1>5. CASE Del429(r)
    <2>1. counter' = 0
      BY <1>5 DEF Del429
    <2> QED
      BY <1>1, <2>1 DEF CounterSettled
  <1> QED
    BY <1>3, <1>4, <1>5 DEF RequestStep

\* A request that neither begins nor ends to wait for its 429.
LEMMA WaitingKept ==
  ASSUME RepliesDue, UNCHANGED <<metrics.throttled, replies["throttled"]>>,
         \A s \in Request : (s \in Waiting)' = (s \in Waiting)
  PROVE  RepliesDue'
  <1>1. Waiting' = Waiting
    BY DEF Waiting
  <1> QED
    BY <1>1 DEF RepliesDue

LEMMA RepliesStep ==
  ASSUME GateInv, [GatewayNext]_gatewayVars, RepliesDue, UNCHANGED failures
  PROVE  RepliesDue'
  <1>0. /\ metrics \in [allowed : Nat, throttled : Nat] /\ replies \in [Decision -> Nat]
        /\ failures \in Nat /\ "throttled" \in Decision
    BY GatewayAssumption DEF GateInv, BooksTyped, Decision
  <1>1. CASE UNCHANGED pipeline
    BY <1>1, WaitingKept DEF pipeline, Waiting, Stage
  <1>2. ASSUME NEW r \in Request, Starts(r) PROVE RepliesDue'
    <2>1. PICK q : Becomes(r, q) /\ q.at \in {"check", "gate", "forward"}
      BY <1>2 DEF Starts, Goes
    <2>2. ~(Stage(r, "track") \/ Stage(r, "throw"))
      BY <1>2 DEF Starts, Goes, Stage
    <2>3. \A s \in Request : (s \in Waiting)' = (s \in Waiting)
      BY <2>1, <2>2 DEF Waiting, Stage, Becomes, Others429
    <2> QED
      BY <1>2, <2>3, WaitingKept DEF Starts
  <1>3. ASSUME NEW r \in Request, Tracked(r) PROVE RepliesDue'
    <2>1. PICK q : Becomes(r, q) /\ q.at \in {"throw"}
      BY <1>3 DEF Tracked, Goes
    <2>2. \A s \in Request : (s \in Waiting)' = (s \in Waiting)
      BY <1>3, <2>1 DEF Waiting, Stage, Becomes, Others429, Tracked, Goes
    <2> QED
      BY <1>3, <2>2, WaitingKept DEF Tracked
  <1>4. ASSUME NEW r \in Request, Throttled(r) PROVE RepliesDue'
    <2>1. PICK q : Becomes(r, q) /\ q.at \in {"track", "throw"}
      BY <1>4 DEF Throttled, Goes
    <2>2. r \notin Waiting
      BY <1>4 DEF Throttled, Goes, Stage, Waiting
    <2>3. Waiting' = Waiting \cup {r}
      BY <2>1 DEF Waiting, Stage, Becomes, Others429
    <2>4. IsFiniteSet(Waiting') /\ Cardinality(Waiting') = Cardinality(Waiting) + 1
      BY <2>2, <2>3, FS_AddElement DEF RepliesDue
    <2>5. Cardinality(Waiting) \in Nat
      BY FS_CardinalityType DEF RepliesDue
    <2>6. metrics'.throttled = metrics.throttled + 1 /\ replies' = replies
      BY <1>4 DEF Throttled
    <2> QED
      BY <1>0, <2>4, <2>5, <2>6 DEF RepliesDue
  <1>5. ASSUME NEW r \in Request, LetGo(r) PROVE RepliesDue'
    <2>1. PICK d \in Decision : Answer(r, d) /\ d # "throttled"
      BY <1>5 DEF LetGo, Decision
    <2>2. Becomes(r, Away) /\ replies'["throttled"] = replies["throttled"]
      BY <1>0, <2>1, AnswerDoes
    <2>3. ~(Stage(r, "track") \/ Stage(r, "throw"))
      BY <1>5 DEF LetGo, Stage
    <2>4. \A s \in Request : (s \in Waiting)' = (s \in Waiting)
      BY <2>2, <2>3 DEF Waiting, Stage, Becomes, Others429, Away
    <2> QED
      BY <1>5, <2>2, <2>4, WaitingKept DEF LetGo
  <1>6. ASSUME NEW r \in Request, Thrown(r) PROVE RepliesDue'
    <2>1. Becomes(r, Away) /\ replies'["throttled"] = replies["throttled"] + 1
      BY <1>0, <1>6, AnswerDoes DEF Thrown
    <2>2. r \in Waiting
      BY <1>6 DEF Thrown, Waiting
    <2>3. Waiting' = Waiting \ {r}
      BY <2>1 DEF Waiting, Stage, Becomes, Others429, Away
    <2>4. IsFiniteSet(Waiting') /\ Cardinality(Waiting') = Cardinality(Waiting) - 1
      BY <2>2, <2>3, FS_RemoveElement DEF RepliesDue
    <2>5. Cardinality(Waiting) \in Nat
      BY FS_CardinalityType DEF RepliesDue
    <2>6. metrics' = metrics
      BY <1>6 DEF Thrown
    <2> QED
      BY <1>0, <2>1, <2>4, <2>5, <2>6 DEF RepliesDue
  <1>7. \A r \in Request : ~Failed(r)
    BY <1>0, ErrsDoes DEF Failed
  <1>8. UNCHANGED gatewayVars \/ TimePasses \/ AdminCalls \/ (\E r \in Request : TrackNext(r))
          => UNCHANGED pipeline
    BY DEF gatewayVars, TimePasses, AdminCalls, TrackNext
  <1> QED
    BY <1>1, <1>2, <1>3, <1>4, <1>5, <1>6, <1>7, <1>8, StepKinds

LEMMA CounterStep ==
  ASSUME TypeOK, GateInv, [GatewayNext]_gatewayVars, CounterSettled, UNCHANGED failures
  PROVE  CounterSettled'
  <1>0. failures \in Nat
    BY GatewayAssumption DEF GateInv, BooksTyped
  <1>1. CASE UNCHANGED vars
    BY <1>1, CounterKept DEF vars
  <1>2. CASE TimePasses
    <2>1. op' = op /\ ((counter' = counter /\ counterTtl' = counterTtl) \/ counter' = 0)
      BY <1>2 DEF TimePasses, Tick
    <2>2. CASE counter' = 0
      BY <2>2, BlockAssumption DEF CounterSettled
    <2> QED
      BY <2>1, <2>2, CounterKept
  <1>3. CASE AdminCalls
    <2>1. PICK a \in Admin : AdminNext(a) \/ Crash(a)
      BY <1>3 DEF AdminCalls
    <2>2. Others(a) /\ UNCHANGED <<counter, counterTtl>>
      <3>1. CASE AdminNext(a)
        BY <3>1, CreateFrame, FindFrame, EntityFrame, ReadFrame, SetFrame, DelFrame,
           MarkFrame, MarkAllFrame DEF AdminNext, AdminStep, AdminFrame
      <3>2. CASE Crash(a)
        BY <3>2, CrashFrame DEF Process, Crash
      <3> QED
        BY <2>1, <3>1, <3>2
    <2>3. \A r \in Request : op'[r] = op[r]
      BY <2>2, BlockAssumption DEF Others, Process
    <2> QED
      BY <2>2, <2>3, CounterKept
  <1>4. ASSUME NEW r \in Request, Tracked(r) PROVE CounterSettled'
    BY <1>4, CounterThrottled DEF Tracked
  <1>5. ASSUME NEW r \in Request, TrackNext(r) PROVE CounterSettled'
    BY <1>5, CounterNext DEF TrackNext
  <1>6. ASSUME NEW r \in Request, Starts(r) \/ Throttled(r) \/ LetGo(r) \/ Thrown(r)
        PROVE  UNCHANGED vars
    BY <1>6 DEF Starts, Throttled, LetGo, Thrown
  <1>7. \A r \in Request : ~Failed(r)
    BY <1>0, ErrsDoes DEF Failed
  <1> QED
    BY <1>1, <1>2, <1>3, <1>4, <1>5, <1>6, <1>7, StepKinds DEF gatewayVars

LEMMA SettledStep ==
  TypeOK /\ GateInv /\ SettledInv /\ [GatewayNext]_gatewayVars => SettledInv'
  <1> SUFFICES ASSUME TypeOK, GateInv, SettledInv, [GatewayNext]_gatewayVars, failures' = 0
               PROVE  CounterSettled' /\ RepliesDue'
    BY DEF SettledInv
  <1>1. failures \in Nat
    BY GatewayAssumption DEF GateInv, BooksTyped
  <1>2. \A r \in Request : ~Failed(r)
    BY <1>1, ErrsDoes DEF Failed
  <1>3. failures' = failures
    <2>1. UNCHANGED gatewayVars \/ TimePasses \/ AdminCalls => UNCHANGED failures
      BY DEF gatewayVars, pipeline, TimePasses, AdminCalls
    <2>2. \A r \in Request : Starts(r) \/ Throttled(r) \/ Tracked(r) \/ TrackNext(r)
                              \/ LetGo(r) \/ Thrown(r) => UNCHANGED failures
      BY DEF Starts, Throttled, Tracked, TrackNext, LetGo, Thrown, Goes, pipeline
    <2> QED
      BY <1>2, <2>1, <2>2, StepKinds
  <1>4. CounterSettled /\ RepliesDue
    BY <1>3 DEF SettledInv
  <1> QED
    BY <1>3, <1>4, CounterStep, RepliesStep

LEMMA SettledInitial == GatewayInit => SettledInv
  <1> SUFFICES ASSUME GatewayInit PROVE CounterSettled /\ RepliesDue
    BY DEF SettledInv
  <1>1. counter = 0 /\ \A r \in Request : req[r] = Away
    BY DEF GatewayInit, Init
  <1>2. Waiting = {}
    BY <1>1 DEF Waiting, Stage, Away
  <1>3. metrics.throttled = 0 /\ replies["throttled"] = 0
    BY DEF GatewayInit, Decision
  <1> QED
    BY <1>1, <1>2, <1>3, FS_EmptySet, BlockAssumption DEF CounterSettled, RepliesDue

(***************************************************************************)
(* When every request has its reply and none ended in an error, the 429    *)
(* counter is below its limit and ends, and each counted 429 was sent      *)
(* (rate-limit.guard.ts:95-124, 174-193).                                  *)
(***************************************************************************)
THEOREM TrackingTheorem == GatewaySpec => []RepliesAreTracked
  <1>1. TypeOK /\ GateInv /\ SettledInv => RepliesAreTracked
    <2> SUFFICES ASSUME TypeOK, GateInv, SettledInv, failures = 0,
                        \A r \in Request : Stage(r, "away")
                 PROVE  /\ counter < Max429
                        /\ counter > 0 => counterTtl # None
                        /\ metrics.throttled = replies["throttled"]
      BY DEF RepliesAreTracked
    <2>1. \A r \in Request : At(r, "idle")
      BY DEF GateInv, LinkInv, Stage
    <2>2. \A r \in Request : ~Escalates(r) /\ ~At(r, "expire")
      BY <2>1 DEF Escalates, At
    <2>3. Waiting = {}
      BY DEF Waiting, Stage
    <2>4. counter \in Nat /\ Max429 \in Nat /\ replies["throttled"] \in Nat
      BY BlockAssumption DEF TypeOK, GateInv, BooksTyped, Decision
    <2> QED
      BY <2>2, <2>3, <2>4, FS_EmptySet DEF SettledInv, CounterSettled, RepliesDue
  <1>2. GatewayInit => SettledInv
    BY SettledInitial
  <1>3. GatewaySpec => []SettledInv
    BY <1>2, SettledStep, GateHolds, PTL DEF GatewaySpec
  <1> QED
    BY <1>1, <1>3, GateHolds, PTL
=============================================================================
