--------------------------- MODULE Tenants_proofs ---------------------------
(***************************************************************************)
(* For every number of administrators, requests, users, bodies and         *)
(* failures, and every life of a token: the transaction of                 *)
(* createTenantWithAdmin leaves a tenant with its admin, or nothing, and a *)
(* role that was taken away ends with the token.                           *)
(***************************************************************************)
EXTENDS Registry, SequenceTheorems, TLAPS

Rows == \E S : tenants \in Seq(S)

BootstrapInv == Rows /\ BootstrapIsWhole

(***************************************************************************)
(* How the rows of tenants change.                                         *)
(***************************************************************************)
LEMMA RowAdded ==
  ASSUME Rows, NEW row, tenants' = Append(tenants, row)
  PROVE  Rows' /\ DOMAIN tenants' = DOMAIN tenants \cup {Len(tenants) + 1}
  <1>1. PICK S : tenants \in Seq(S)
    BY DEF Rows
  <1> DEFINE R == S \cup {row}
  <1>2. tenants \in Seq(R) /\ row \in R
    BY <1>1, SeqMonotonic
  <1> HIDE DEF R
  <1>3. tenants' \in Seq(R) /\ Len(tenants') = Len(tenants) + 1
    BY <1>2, AppendProperties
  <1>4. /\ DOMAIN tenants = 1..Len(tenants) /\ DOMAIN tenants' = 1..Len(tenants')
        /\ Len(tenants) \in Nat
    BY <1>2, <1>3
  <1> QED
    BY <1>3, <1>4 DEF Rows

\* A tenant that is saved stays where it is.
LEMMA RowSaved ==
  ASSUME Rows, NEW t, NEW row, tenants' = [tenants EXCEPT ![t] = row]
  PROVE  Rows' /\ DOMAIN tenants' = DOMAIN tenants
  <1>1. PICK S : tenants \in Seq(S)
    BY DEF Rows
  <1>2. PICK n \in Nat : tenants \in [1..n -> S]
    BY <1>1, SeqDef
  <1> DEFINE R == S \cup {row}  ids == 1..n
  <1>3. tenants \in [ids -> S] /\ S \subseteq R /\ row \in R
    BY <1>2
  <1> HIDE DEF R, ids
  <1>4. DOMAIN tenants = ids /\ tenants' \in [ids -> R]
    BY <1>3
  <1>5. tenants' \in Seq(R)
    BY <1>4, SeqDef DEF ids
  <1> QED
    BY <1>4, <1>5 DEF Rows

(***************************************************************************)
(* The steps that write tenants or users.                                  *)
(***************************************************************************)
LEMMA StillWhole ==
  ASSUME BootstrapInv, UNCHANGED <<tenants, users, bare, left>>
  PROVE  BootstrapInv'
  BY DEF BootstrapInv, Rows, BootstrapIsWhole

\* A tenant that POST or PATCH /tenants adds is counted as bare.
LEMMA TenantRowsKeep ==
  ASSUME BootstrapInv, NEW a \in Admin, InsertTenant(a) \/ SaveTenant(a)
  PROVE  BootstrapInv'
  <1>1. UNCHANGED <<users, left>>
    BY DEF InsertTenant, SaveTenant
  <1>2. CASE \E row : tenants' = Append(tenants, row) /\ bare' = bare \cup {Len(tenants) + 1}
    <2>1. Rows' /\ DOMAIN tenants' = DOMAIN tenants \cup {Len(tenants) + 1}
      BY <1>2, RowAdded DEF BootstrapInv
    <2> QED
      BY <1>1, <1>2, <2>1 DEF BootstrapInv, BootstrapIsWhole
  <1>3. CASE \E t, row : tenants' = [tenants EXCEPT ![t] = row] /\ bare' = bare
    <2>1. Rows' /\ DOMAIN tenants' = DOMAIN tenants
      BY <1>3, RowSaved DEF BootstrapInv
    <2> QED
      BY <1>1, <1>3, <2>1 DEF BootstrapInv, BootstrapIsWhole
  <1>4. CASE InsertTenant(a)
    BY <1>2, <1>4 DEF InsertTenant
  <1>5. CASE SaveTenant(a)
    BY <1>2, <1>3, <1>5 DEF SaveTenant
  <1> QED
    BY <1>4, <1>5

\* AddUser takes no user away and changes none.
LEMMA UserAdded ==
  ASSUME NEW e, NEW t, NEW role, AddUser(e, t, role)
  PROVE  /\ \A u \in DOMAIN users : u \in DOMAIN users' /\ users'[u] = users[u]
         /\ \E u \in DOMAIN users' : users'[u].tenant = t
  <1> DEFINE row == [tenant |-> t, email |-> e, role |-> role, status |-> "active"]
  <1>1. PICK id \in UserId \ DOMAIN users :
               users' = Over(users, [new \in {id} |-> row])
    BY DEF AddUser
  <1>2. row.tenant = t
    OBVIOUS
  <1> HIDE DEF row
  <1>3. DOMAIN users' = DOMAIN users \cup {id} /\ users'[id] = row
        /\ \A u \in DOMAIN users : users'[u] = users[u]
    BY <1>1 DEF Over
  <1> QED
    BY <1>2, <1>3

\* The new tenant gets its admin in the same step.
LEMMA CommitKeeps ==
  ASSUME BootstrapInv, NEW a \in Admin, Commit(a)
  PROVE  BootstrapInv'
  <1>1. Rows' /\ DOMAIN tenants' = DOMAIN tenants \cup {Len(tenants) + 1}
    BY RowAdded DEF Commit, BootstrapInv
  <1>2. /\ \A u \in DOMAIN users : u \in DOMAIN users' /\ users'[u] = users[u]
        /\ \E u \in DOMAIN users' : users'[u].tenant = Len(tenants) + 1
    BY UserAdded DEF Commit
  <1>3. UNCHANGED <<bare, left>>
    BY DEF Commit
  <1> QED
    BY <1>1, <1>2, <1>3 DEF BootstrapInv, BootstrapIsWhole

\* Whom a save takes away from a tenant is counted as having left it.
LEMMA UserRowsKeep ==
  ASSUME BootstrapInv, NEW a \in Admin, InsertUser(a) \/ SaveUser(a)
  PROVE  BootstrapInv'
  <1>1. UNCHANGED <<tenants, bare>>
    BY DEF InsertUser, SaveUser
  <1>2. CASE UNCHANGED <<users, left>>
    BY <1>1, <1>2, StillWhole
  <1>3. CASE InsertUser(a) /\ AddUser(call[a].email, call[a].tenant, call[a].role)
    <2>1. \A u \in DOMAIN users : u \in DOMAIN users' /\ users'[u] = users[u]
      BY <1>3, UserAdded
    <2>2. left' = left
      BY <1>3 DEF InsertUser
    <2> QED
      BY <1>1, <2>1, <2>2 DEF BootstrapInv, Rows, BootstrapIsWhole
  <1>4. ASSUME NEW row, users' = Over([x \in {call[a].id} |-> row], users),
               left' = left \cup {users[x].tenant :
                         x \in {x \in DOMAIN users : users'[x].tenant # users[x].tenant}}
        PROVE  BootstrapInv'
    <2>1. DOMAIN users \subseteq DOMAIN users'
      BY <1>4 DEF Over
    <2>2. ASSUME NEW t \in DOMAIN tenants', t \notin bare' \cup left'
          PROVE  \E u \in DOMAIN users' : users'[u].tenant = t
      <3>1. PICK u \in DOMAIN users : users[u].tenant = t
        BY <1>1, <1>4, <2>2 DEF BootstrapInv, BootstrapIsWhole
      <3>2. users'[u].tenant = t
        BY <1>4, <2>2, <3>1
      <3> QED
        BY <2>1, <3>1, <3>2
    <2> QED
      BY <1>1, <2>2 DEF BootstrapInv, Rows, BootstrapIsWhole
  <1>5. CASE InsertUser(a)
    BY <1>2, <1>3, <1>5 DEF InsertUser
  <1>6. CASE SaveUser(a)
    <2>1. \/ UNCHANGED <<users, left>>
          \/ \E row : /\ users' = Over([x \in {call[a].id} |-> row], users)
                      /\ left' = left \cup {users[x].tenant :
                           x \in {x \in DOMAIN users : users'[x].tenant # users[x].tenant}}
      BY <1>6, Zenon DEF SaveUser
    <2> QED
      BY <1>2, <1>4, <2>1
  <1> QED
    BY <1>5, <1>6

(***************************************************************************)
(* The invariant holds at the beginning, and every step keeps it.          *)
(***************************************************************************)
LEMMA BootstrapInit ==
  Init => BootstrapInv
  <1> SUFFICES ASSUME Init
               PROVE  BootstrapInv
    OBVIOUS
  <1>1. Rows /\ DOMAIN tenants = {1}
    <2>1. tenants \in Seq({NewTenant}) /\ Len(tenants) = 1
      BY DEF Init, TenantsInit
    <2>2. DOMAIN tenants = 1..1
      BY <2>1
    <2> QED
      BY <2>1, <2>2 DEF Rows
  <1>2. PICK a : a \in Admin
    BY RequestsAssumption
  <1>3. DOMAIN users = Admin /\ \A u \in DOMAIN users : users[u].tenant = 1
    BY DEF Init, TenantsInit
  <1> QED
    BY <1>1, <1>2, <1>3 DEF BootstrapInv, BootstrapIsWhole

\* Every step keeps the invariant.
LEMMA BootstrapStep ==
  BootstrapInv /\ [Next]_vars => BootstrapInv'
  <1> SUFFICES ASSUME BootstrapInv, [Next]_vars
               PROVE  BootstrapInv'
    OBVIOUS
  <1> USE DEF tenantVars
  <1>1. CASE UNCHANGED vars
    BY <1>1, StillWhole DEF vars
  <1>2. ASSUME NEW a \in Admin, AdminRequest(a) \/ ConfigStep(a)
        PROVE  BootstrapInv'
    <2>1. CASE ConfigStep(a)
      BY <2>1, StillWhole DEF ConfigStep
    <2>2. CASE \E t : ConfigRequest(a, t)
      BY <2>2, StillWhole DEF ConfigRequest
    <2>3. CASE \E t : PeopleRequest(a, t)
      BY <2>3, StillWhole DEF PeopleRequest, CreateTenant, UpdateTenant, CreateUser, SignUp,
                              UpdateUser
    <2> QED
      BY <1>2, <2>1, <2>2, <2>3 DEF AdminRequest
  <1>3. ASSUME NEW a \in Admin, PublicRequest(a)
        PROVE  BootstrapInv'
    BY <1>3, StillWhole DEF PublicRequest, Login, Bootstrap
  <1>4. ASSUME NEW a \in Admin, PeopleStep(a)
        PROVE  BootstrapInv'
    <2>1. CASE Sign(a) \/ InsertAdmin(a)
      BY <2>1, StillWhole DEF Sign, InsertAdmin
    <2> QED
      BY <1>4, <2>1, TenantRowsKeep, CommitKeeps, UserRowsKeep DEF PeopleStep
  <1>5. CASE UNCHANGED tenantVars
    BY <1>5, StillWhole
  <1>6. CASE TimePasses
    BY <1>6, StillWhole DEF TimePasses, Tick
  <1> QED
    BY <1>1, <1>2, <1>3, <1>4, <1>5, <1>6 DEF Next

(***************************************************************************)
(* A tenant that createTenantWithAdmin creates has its admin, for every    *)
(* number of requests, users, bodies and failures: a rolled-back or        *)
(* interrupted transaction leaves no tenant, and only an update of a user  *)
(* takes the tenant's last user away.                                      *)
(***************************************************************************)
THEOREM BootstrapTheorem == Spec => []BootstrapIsWhole
  <1>1. BootstrapInv => BootstrapIsWhole
    BY DEF BootstrapInv
  <1> QED
    BY <1>1, BootstrapInit, BootstrapStep, PTL DEF Spec

(***************************************************************************)
(* A request keeps its kind, and what it read of its user, until it ends.  *)
(* Only a login signs a token: the others make these calls.                *)
(***************************************************************************)
First == {"findDuplicate", "saveKey", "updateKeys", "findRule", "insertAdmin"}
Last == {"insertApi", "saveApi", "insertKey", "saveKey", "updateRule", "saveRule",
         "insertTenant", "saveTenant", "commit", "insertUser", "saveUser"}

Todo == {<<>>} \cup {<<step>> : step \in Last} \cup {<<f, l>> : f \in First, l \in Last}

CallInv ==
    /\ DOMAIN call = Admin /\ call = [a \in Admin |-> call[a]]
    /\ \A a \in Admin :
         /\ call[a] = [f \in DOMAIN call[a] |-> call[a][f]]
         /\ {"kind", "todo"} \subseteq DOMAIN call[a]
         /\ IF call[a].kind = "login" THEN "role" \in DOMAIN call[a]
            ELSE call[a].todo \in Todo

Goes(b) ==
    \/ call'[b].kind = "none"
    \/ /\ call'[b].kind = call[b].kind
       /\ call[b].kind = "login" => call'[b].role = call[b].role

\* Requests go on or end.
GoOn == CallInv' /\ \A b \in Admin : Goes(b)

\* A request of a begins, of one of these kinds.
Starts(a, kinds) ==
    /\ CallInv' /\ \A b \in Admin \ {a} : Goes(b)
    /\ call[a] = Idle /\ call'[a].kind \in kinds

\* When requests began: a conjunct of Next.
Clocked ==
    begun' = [a \in Admin |-> IF call'[a] = Idle THEN 0
                              ELSE IF call[a] = Idle THEN clock ELSE begun[a]]

\* A request ends: its requester is free again.
LEMMA Ends ==
  ASSUME CallInv, NEW a \in Admin, Done(a)
  PROVE  GoOn
  <1>1. Idle.kind = "none" /\ Idle.todo \in Todo /\ {"kind", "todo"} \subseteq DOMAIN Idle
        /\ Idle = [f \in DOMAIN Idle |-> Idle[f]]
    BY DEF Idle, Todo
  <1> QED
    BY <1>1 DEF CallInv, Done, GoOn, Goes

\* What is left of the calls of a request are calls of requests.
LEMMA TodoTails ==
  ASSUME NEW todo \in Todo, todo # <<>>
  PROVE  /\ Head(todo) \in First \cup Last
         /\ Len(todo) # 1 \/ Head(todo) = "findRule" => Tail(todo) \in Todo
  <1>1. CASE \E step \in Last : todo = <<step>>
    BY <1>1 DEF Last
  <1>2. CASE \E f \in First, l \in Last : todo = <<f, l>>
    <2>1. PICK f \in First, l \in Last : todo = <<f, l>>
      BY <1>2
    <2>2. Head(todo) = f /\ Tail(todo) = <<l>>
      BY <2>1
    <2> QED
      BY <2>2 DEF Todo
  <1> QED
    BY <1>1, <1>2 DEF Todo

\* A MySQL call returns: the request keeps its kind, or ends.
LEMMA Returns ==
  ASSUME CallInv, NEW a \in Admin, Proceed(a), NEW step, Due(a, step)
  PROVE  GoOn
  <1>1. CASE Len(call[a].todo) = 1
    BY <1>1, Ends DEF Proceed
  <1>2. CASE Len(call[a].todo) # 1 /\ call' = [call EXCEPT ![a].todo = Tail(@)]
    <2>1. call[a].kind # "login" => Tail(call[a].todo) \in Todo
      BY <1>2, TodoTails DEF CallInv, Due
    <2> QED
      BY <1>2, <2>1 DEF CallInv, GoOn, Goes
  <1> QED
    BY <1>1, <1>2 DEF Proceed

\* A request begins; a login knows the role of its user.
LEMMA Begins ==
  ASSUME CallInv, NEW a \in Admin, NEW kind, NEW todo, NEW known,
         Begin(a, kind, todo, known),
         IF kind = "login" THEN "role" \in DOMAIN known ELSE todo \in Todo
  PROVE  Starts(a, {kind})
  <1> DEFINE request == Over([kind |-> kind, todo |-> todo], known)
  <1>1. /\ "kind" \in DOMAIN request /\ request.kind = kind
        /\ "todo" \in DOMAIN request /\ request.todo = todo
        /\ DOMAIN known \subseteq DOMAIN request
        /\ request = [f \in DOMAIN request |-> request[f]]
    BY DEF Over
  <1>2. call' = [call EXCEPT ![a] = request] /\ call[a] = Idle
    BY DEF Begin
  <1> HIDE DEF request
  <1> QED
    BY <1>1, <1>2 DEF CallInv, Starts, Goes

\* The calls with which requests begin.
LEMMA TodoKinds ==
  /\ <<"insertApi">> \in Todo /\ <<"saveApi">> \in Todo /\ <<"findDuplicate", "saveApi">> \in Todo
  /\ <<"insertKey">> \in Todo /\ <<"saveKey">> \in Todo /\ <<"saveKey", "insertKey">> \in Todo
  /\ <<"updateKeys", "insertKey">> \in Todo /\ <<"updateRule">> \in Todo
  /\ <<"findRule", "saveRule">> \in Todo /\ <<"insertTenant">> \in Todo
  /\ <<"saveTenant">> \in Todo /\ <<"insertAdmin", "commit">> \in Todo
  /\ <<"insertUser">> \in Todo /\ <<"saveUser">> \in Todo
  BY DEF Todo, First, Last

(***************************************************************************)
(* The requests that need an admin begin as such; the others have other    *)
(* kinds.                                                                  *)
(***************************************************************************)
LEMMA ConfigRequests ==
  ASSUME CallInv, NEW a \in Admin, NEW t, ConfigRequest(a, t)
  PROVE  Starts(a, {"api", "key", "rule"}) /\ UNCHANGED tenantVars
  <1>1. CASE ApiRequest(a, t)
    <2>1. \E todo \in Todo : \E known : Begin(a, "api", todo, known)
      <3>1. CASE \E body \in ApiBody : Create(a, t, body)
        BY <3>1, TodoKinds DEF Create
      <3>2. CASE \E i \in DOMAIN apis, body \in ApiBody : Update(a, t, i, body)
        BY <3>2, TodoKinds DEF Update
      <3>3. CASE \E i : Switch(a, i, TRUE) \/ Switch(a, i, FALSE)
        BY <3>3, TodoKinds DEF Switch
      <3> QED
        BY <1>1, <3>1, <3>2, <3>3 DEF ApiRequest, SetApiActiveStatus, Remove
    <2>2. Starts(a, {"api"})
      BY <2>1, Begins
    <2> QED
      BY <2>2 DEF ConfigRequest, Starts
  <1>2. CASE KeyRequest(a, t)
    <2>1. \E todo \in Todo : \E known : Begin(a, "key", todo, known)
      BY <1>2, TodoKinds DEF KeyRequest, GenerateKey, RotateAll, RevokeKey, Rotate
    <2>2. Starts(a, {"key"})
      BY <2>1, Begins
    <2> QED
      BY <2>2 DEF ConfigRequest, Starts
  <1>3. CASE RuleRequest(a, t)
    <2>1. \E todo \in Todo : \E known : Begin(a, "rule", todo, known)
      BY <1>3, TodoKinds DEF RuleRequest, CreateOrUpdateRule, DisableRule
    <2>2. Starts(a, {"rule"})
      BY <2>1, Begins
    <2> QED
      BY <2>2 DEF ConfigRequest, Starts
  <1> QED
    BY <1>1, <1>2, <1>3 DEF ConfigRequest

\* Of requests on tenants and users.
LEMMA PeopleRequests ==
  ASSUME CallInv, NEW a \in Admin, NEW t, PeopleRequest(a, t)
  PROVE  Starts(a, {"tenant", "user"}) /\ UNCHANGED tenantVars
  <1>1. UNCHANGED tenantVars
    BY DEF PeopleRequest, CreateTenant, UpdateTenant, CreateUser, SignUp, UpdateUser
  <1>2. \E kind \in {"tenant", "user"}, todo \in Todo : \E known : Begin(a, kind, todo, known)
    <2>1. CASE \E body \in TenantBody : CreateTenant(a, body)
      BY <2>1, TodoKinds DEF CreateTenant
    <2>2. CASE \E body \in TenantBody, i \in DOMAIN tenants : UpdateTenant(a, i, body)
      BY <2>2, TodoKinds DEF UpdateTenant
    <2>3. CASE \E e \in Email, role \in Role : CreateUser(a, t, e, role)
      BY <2>3, TodoKinds DEF CreateUser
    <2>4. CASE \E u \in DOMAIN users, body \in UserBody : UpdateUser(a, t, u, body)
      BY <2>4, TodoKinds DEF UpdateUser
    <2> QED
      BY <2>1, <2>2, <2>3, <2>4 DEF PeopleRequest, SignUp
  <1>3. ASSUME NEW kind \in {"tenant", "user"}, NEW todo \in Todo, NEW known,
               Begin(a, kind, todo, known)
        PROVE  Starts(a, {kind})
    BY <1>3, Begins
  <1> QED
    BY <1>1, <1>2, <1>3 DEF Starts

\* Requests on APIs, keys and rules go on.
LEMMA ConfigSteps ==
  ASSUME CallInv, NEW a \in Admin, ConfigStep(a)
  PROVE  GoOn /\ UNCHANGED tenantVars
  <1>1. CASE FindRule(a)
    <2>1. PICK r : call' = [call EXCEPT ![a].todo = Tail(@), ![a].id = r]
      BY <1>1 DEF FindRule
    <2>2. call[a].kind # "login" => Tail(call[a].todo) \in Todo
      BY <1>1, TodoTails DEF CallInv, FindRule, Due
    <2>3. GoOn
      BY <2>1, <2>2 DEF CallInv, GoOn, Goes
    <2> QED
      BY <2>3 DEF ConfigStep
  <1>2. CASE (Proceed(a) /\ \E step : Due(a, step)) \/ Done(a)
    BY <1>2, Returns, Ends DEF ConfigStep
  <1> QED
    BY <1>1, <1>2 DEF ConfigStep, ApiStep, KeyStep, RuleStep, InsertApi, FindDuplicate, SaveApi,
                      SaveKey, UpdateKeys, InsertKey, SaveRule, UpdateRule

\* Requests on tenants and users, logins and bootstraps go on.
LEMMA PeopleSteps ==
  ASSUME CallInv, NEW a \in Admin, PeopleStep(a)
  PROVE  GoOn
  <1>1. (Proceed(a) /\ \E step : Due(a, step)) \/ Done(a)
    BY DEF PeopleStep, Sign, InsertTenant, SaveTenant, InsertAdmin, Commit, InsertUser, SaveUser
  <1> QED
    BY <1>1, Returns, Ends

(***************************************************************************)
(* Why authority ends: lastAdmin is the present of every active admin, and *)
(* no earlier than the beginning of a login that read the role of one; a   *)
(* login takes MaxLag at most, and its token lasts TokenLife.              *)
(***************************************************************************)
TimeInv ==
    /\ clock \in Nat
    /\ begun \in [Admin -> Nat]
    /\ \A a \in Admin : call[a] # Idle => begun[a] <= clock /\ clock <= begun[a] + MaxLag

AdminInv ==
    /\ lastAdmin \in [Admin -> Nat] /\ \A a \in Admin : lastAdmin[a] <= clock
    /\ Admin \subseteq DOMAIN users
    /\ \A a \in Admin : ActiveAdmin(a) => lastAdmin[a] = clock

TokenInv ==
    /\ \A token \in tokens :
         /\ token.sub \in Admin /\ token.exp \in Nat
         /\ token.role = "admin" => token.exp <= lastAdmin[token.sub] + TokenLife + MaxLag
    /\ \A a \in Admin :
         call[a].kind = "login" /\ call[a].role = "admin" => begun[a] <= lastAdmin[a]

AuthorityInv == CallInv /\ TimeInv /\ AdminInv /\ TokenInv /\ AuthorityIsRecent

Later == \A a \in Admin : lastAdmin'[a] \in Nat /\ lastAdmin[a] <= lastAdmin'[a]

\* A token that the guards accept stems from a recent admin.
LEMMA AuthorizedIsRecent ==
  ASSUME AuthorityInv, NEW a \in Admin, NEW token \in tokens, Authorized(a, token)
  PROVE  clock - lastAdmin[a] < TokenLife + MaxLag
  BY TenantsAssumption, RegistryAssumption
     DEF Authorized, Unexpired, AuthorityInv, TimeInv, AdminInv, TokenInv

\* Requests begin in the present.
LEMMA TimeKept ==
  ASSUME AuthorityInv, Clocked, CallInv', clock' = clock
  PROVE  TimeInv'
  BY RegistryAssumption DEF Clocked, AuthorityInv, TimeInv

\* A request that goes on has begun when it began.
LEMMA BegunKept ==
  ASSUME AuthorityInv, Clocked, NEW b \in Admin, Goes(b), call'[b].kind # "none"
  PROVE  begun'[b] = begun[b]
  BY DEF Clocked, AuthorityInv, CallInv, Goes, Idle

(***************************************************************************)
(* The steps.  What goes on keeps what was known, since lastAdmin grows.   *)
(***************************************************************************)
LEMMA GoingOn ==
  ASSUME AuthorityInv, Clocked, NEW b \in Admin, Goes(b), Later
  PROVE  /\ call'[b].kind \notin {"none", "login", "bootstrap"} =>
              begun'[b] - lastAdmin'[b] < TokenLife + MaxLag
         /\ call'[b].kind = "login" /\ call'[b].role = "admin" => begun'[b] <= lastAdmin'[b]
  <1>0. begun[b] \in Nat /\ lastAdmin[b] \in Nat /\ lastAdmin'[b] \in Nat
        /\ lastAdmin[b] <= lastAdmin'[b] /\ TokenLife \in Nat /\ MaxLag \in Nat
    BY TenantsAssumption, RegistryAssumption DEF AuthorityInv, TimeInv, AdminInv, Later
  <1>1. CASE call'[b].kind = "none"
    BY <1>1
  <1>2. CASE call'[b].kind # "none" /\ call'[b].kind = call[b].kind
    <2>1. begun'[b] = begun[b]
      BY <1>2, BegunKept
    <2>2. call[b].kind \notin {"none", "login", "bootstrap"} =>
            begun[b] - lastAdmin[b] < TokenLife + MaxLag
      BY DEF AuthorityInv, AuthorityIsRecent
    <2>3. call[b].kind = "login" /\ call[b].role = "admin" => begun[b] <= lastAdmin[b]
      BY DEF AuthorityInv, TokenInv
    <2>4. call[b].kind = "login" => call'[b].role = call[b].role
      BY <1>2 DEF Goes
    <2> QED
      BY <1>0, <1>2, <2>1, <2>2, <2>3, <2>4
  <1> QED
    BY <1>1, <1>2 DEF Goes

\* A step in which requests go on, and admins and tokens keep their ways.
LEMMA GoOnKeeps ==
  ASSUME AuthorityInv, Clocked, GoOn, TimeInv', AdminInv', Later,
         \A token \in tokens' \ tokens :
           /\ token.sub \in Admin /\ token.exp \in Nat
           /\ token.role = "admin" => token.exp <= lastAdmin[token.sub] + TokenLife + MaxLag
  PROVE  AuthorityInv'
  <1>1. \A b \in Admin :
          /\ call'[b].kind \notin {"none", "login", "bootstrap"} =>
               begun'[b] - lastAdmin'[b] < TokenLife + MaxLag
          /\ call'[b].kind = "login" /\ call'[b].role = "admin" => begun'[b] <= lastAdmin'[b]
    BY GoingOn DEF GoOn
  <1>2. ASSUME NEW token \in tokens'
        PROVE  /\ token.sub \in Admin /\ token.exp \in Nat
               /\ token.role = "admin" => token.exp <= lastAdmin'[token.sub] + TokenLife + MaxLag
    <2>1. /\ token.sub \in Admin /\ token.exp \in Nat
          /\ token.role = "admin" => token.exp <= lastAdmin[token.sub] + TokenLife + MaxLag
      BY <1>2 DEF AuthorityInv, TokenInv
    <2>2. lastAdmin[token.sub] \in Nat /\ lastAdmin'[token.sub] \in Nat
          /\ lastAdmin[token.sub] <= lastAdmin'[token.sub]
      BY <2>1 DEF AuthorityInv, AdminInv, Later
    <2> QED
      BY <2>1, <2>2, TenantsAssumption, RegistryAssumption
  <1>3. TokenInv'
    BY <1>1, <1>2 DEF TokenInv
  <1>4. AuthorityIsRecent'
    BY <1>1 DEF AuthorityIsRecent
  <1> QED
    BY <1>3, <1>4 DEF AuthorityInv, GoOn

\* A request that needs an admin begins with a token of a recent one.
LEMMA RequestKeeps ==
  ASSUME AuthorityInv, Clocked, NEW a \in Admin, NEW kinds, Starts(a, kinds),
         UNCHANGED tenantVars, "login" \notin kinds,
         kinds \subseteq {"bootstrap"} \/ \E token \in tokens : Authorized(a, token)
  PROVE  AuthorityInv'
  <1>1. TimeInv' /\ AdminInv' /\ Later
    BY TimeKept DEF Starts, AuthorityInv, AdminInv, ActiveAdmin, tenantVars, Later
  <1>2. \A b \in Admin \ {a} :
          /\ call'[b].kind \notin {"none", "login", "bootstrap"} =>
               begun'[b] - lastAdmin'[b] < TokenLife + MaxLag
          /\ call'[b].kind = "login" /\ call'[b].role = "admin" => begun'[b] <= lastAdmin'[b]
    BY <1>1, GoingOn DEF Starts
  <1>3. call'[a].kind \notin {"none", "login", "bootstrap"} =>
          begun'[a] - lastAdmin'[a] < TokenLife + MaxLag
    <2>1. call'[a].kind # "none" => begun'[a] = clock
      BY DEF Starts, Clocked, Idle
    <2> QED
      BY <2>1, AuthorizedIsRecent DEF Starts, tenantVars
  <1>4. TokenInv'
    BY <1>2 DEF AuthorityInv, TokenInv, Starts, tenantVars
  <1>5. AuthorityIsRecent'
    BY <1>2, <1>3 DEF AuthorityIsRecent
  <1> QED
    BY <1>1, <1>4, <1>5 DEF AuthorityInv, Starts

\* A login that begins knows the role of a user who is active.
LEMMA LoginKeeps ==
  ASSUME AuthorityInv, Clocked, NEW a \in Admin, Login(a)
  PROVE  AuthorityInv'
  <1> DEFINE known == [role |-> users[a].role, tenant |-> users[a].tenant]
             request == Over([kind |-> "login", todo |-> <<"sign">>], known)
  <1>1. "role" \in DOMAIN known /\ request.kind = "login" /\ request.role = users[a].role
    BY DEF Over
  <1>2. /\ Begin(a, "login", <<"sign">>, known) /\ call'[a] = request
        /\ UNCHANGED tenantVars /\ users[a].status = "active"
    BY DEF Login, Begin, AuthorityInv, CallInv
  <1> HIDE DEF known, request
  <1>3. Starts(a, {"login"})
    BY <1>1, <1>2, Begins DEF AuthorityInv
  <1>4. TimeInv' /\ AdminInv' /\ Later
    BY <1>2, <1>3, TimeKept DEF Starts, AuthorityInv, AdminInv, ActiveAdmin, tenantVars, Later
  <1>5. \A b \in Admin \ {a} :
          /\ call'[b].kind \notin {"none", "login", "bootstrap"} =>
               begun'[b] - lastAdmin'[b] < TokenLife + MaxLag
          /\ call'[b].kind = "login" /\ call'[b].role = "admin" => begun'[b] <= lastAdmin'[b]
    BY <1>3, <1>4, GoingOn DEF Starts
  <1>6. call'[a].role = "admin" => begun'[a] <= lastAdmin'[a]
    <2>1. begun'[a] = clock
      BY <1>3 DEF Starts, Clocked, Idle
    <2>2. call'[a].role = "admin" => lastAdmin[a] = clock
      BY <1>1, <1>2 DEF AuthorityInv, AdminInv, ActiveAdmin
    <2> QED
      BY <1>2, <2>1, <2>2 DEF tenantVars, AuthorityInv, TimeInv
  <1>7. TokenInv'
    BY <1>2, <1>5, <1>6 DEF AuthorityInv, TokenInv, tenantVars
  <1>8. AuthorityIsRecent'
    BY <1>3, <1>5 DEF AuthorityIsRecent, Starts
  <1> QED
    BY <1>3, <1>4, <1>7, <1>8 DEF AuthorityInv, Starts

\* The token it signs names an admin who was one when the login began.
LEMMA SignKeeps ==
  ASSUME AuthorityInv, Clocked, NEW a \in Admin, Sign(a)
  PROVE  AuthorityInv'
  <1>1. GoOn /\ UNCHANGED <<clock, users, lastAdmin>>
    BY PeopleSteps DEF PeopleStep, Sign, AuthorityInv
  <1>2. TimeInv' /\ AdminInv' /\ Later
    BY <1>1, TimeKept DEF GoOn, AuthorityInv, AdminInv, ActiveAdmin, Later
  <1> DEFINE token == [sub |-> a, role |-> call[a].role, tenant |-> call[a].tenant,
                       exp |-> clock + TokenLife]
  <1>3. tokens' = tokens \cup {token}
    BY DEF Sign
  <1>4. token.sub = a /\ token.exp = clock + TokenLife /\ token.role = call[a].role
    OBVIOUS
  <1> HIDE DEF token
  <1>5. call[a].kind = "login" /\ call[a] # Idle
    <2>1. call[a].kind = "login"
      BY TodoTails DEF Sign, Due, AuthorityInv, CallInv, First, Last
    <2> QED
      BY <2>1 DEF Idle
  <1>6. /\ token.sub \in Admin /\ token.exp \in Nat
        /\ token.role = "admin" => token.exp <= lastAdmin[token.sub] + TokenLife + MaxLag
    BY <1>4, <1>5, TenantsAssumption, RegistryAssumption
       DEF AuthorityInv, TokenInv, TimeInv, AdminInv
  <1> QED
    BY <1>1, <1>2, <1>3, <1>6, GoOnKeeps

\* Saving a user never makes lastAdmin earlier.
LEMMA SaveUserKeeps ==
  ASSUME AuthorityInv, Clocked, NEW a \in Admin, SaveUser(a)
  PROVE  AuthorityInv'
  <1>1. GoOn /\ UNCHANGED <<clock, tokens>>
    BY PeopleSteps DEF PeopleStep, SaveUser, AuthorityInv
  <1>2. DOMAIN users \subseteq DOMAIN users'
    <2>1. UNCHANGED users \/ \E row, id : users' = Over([x \in {id} |-> row], users)
      BY Zenon DEF SaveUser
    <2> QED
      BY <2>1 DEF Over
  <1>3. lastAdmin' = [u \in Admin |-> IF ActiveAdmin(u)' THEN clock ELSE lastAdmin[u]]
    BY DEF SaveUser
  <1>4. AdminInv' /\ Later
    BY <1>1, <1>2, <1>3 DEF AuthorityInv, AdminInv, TimeInv, Later
  <1> QED
    BY <1>1, <1>4, TimeKept, GoOnKeeps DEF GoOn

\* Time passes: tokens come closer to their end.
LEMMA TimeKeeps ==
  ASSUME AuthorityInv, Clocked, TimePasses
  PROVE  AuthorityInv'
  <1>1. clock' = clock + 1 /\ UNCHANGED <<call, users, tokens>>
    BY DEF TimePasses, Tick, requestVars
  <1>2. lastAdmin' = [u \in Admin |-> IF ActiveAdmin(u) THEN clock' ELSE lastAdmin[u]]
    BY DEF TimePasses, Tick
  <1>3. AdminInv' /\ Later
    BY <1>1, <1>2 DEF AuthorityInv, AdminInv, TimeInv, Later, ActiveAdmin
  <1>4. GoOn
    BY <1>1 DEF AuthorityInv, CallInv, GoOn, Goes
  <1>5. TimeInv'
    BY <1>1, RegistryAssumption DEF Clocked, TimePasses, AuthorityInv, TimeInv
  <1> QED
    BY <1>1, <1>3, <1>4, <1>5, GoOnKeeps

\* Rows of tenants and new users: nobody's role changes.
LEMMA RowsKeep ==
  ASSUME AuthorityInv, Clocked, NEW a \in Admin,
         InsertTenant(a) \/ SaveTenant(a) \/ InsertAdmin(a) \/ Commit(a) \/ InsertUser(a)
  PROVE  AuthorityInv'
  <1>1. GoOn
    BY PeopleSteps DEF PeopleStep, AuthorityInv
  <1>2. UNCHANGED <<clock, tokens, lastAdmin>>
    BY DEF InsertTenant, SaveTenant, InsertAdmin, Commit, InsertUser, tenantVars
  <1>3. Admin \subseteq DOMAIN users' /\ \A b \in Admin : users'[b] = users[b]
    <2>1. CASE UNCHANGED users
      BY <2>1 DEF AuthorityInv, AdminInv
    <2>2. CASE \E e, t, role : AddUser(e, t, role)
      BY <2>2, UserAdded DEF AuthorityInv, AdminInv
    <2>3. UNCHANGED users \/ \E e, t, role : AddUser(e, t, role)
      <3>1. CASE InsertTenant(a) \/ SaveTenant(a) \/ InsertAdmin(a)
        BY <3>1 DEF InsertTenant, SaveTenant, InsertAdmin, tenantVars
      <3>2. CASE Commit(a) \/ InsertUser(a)
        BY <3>2 DEF Commit, InsertUser
      <3> QED
        BY <3>1, <3>2
    <2> QED
      BY <2>1, <2>2, <2>3
  <1>4. AdminInv' /\ Later
    BY <1>2, <1>3 DEF AuthorityInv, AdminInv, ActiveAdmin, Later
  <1> QED
    BY <1>1, <1>2, <1>4, TimeKept, GoOnKeeps DEF GoOn

\* Every step keeps the invariant.
LEMMA AuthorityStep == AuthorityInv /\ [Next]_vars => AuthorityInv'
  <1> SUFFICES ASSUME AuthorityInv, [Next]_vars
               PROVE  AuthorityInv'
    OBVIOUS
  <1>1. CASE UNCHANGED vars
    BY <1>1 DEF vars, requestVars, tenantVars, AuthorityInv, CallInv, TimeInv, AdminInv,
                TokenInv, AuthorityIsRecent, ActiveAdmin
  <1>2. CASE Next
    <2>0. Clocked
      BY <1>2 DEF Next, Clocked
    <2>1. ASSUME NEW a \in Admin, AdminRequest(a)
          PROVE  AuthorityInv'
      <3>1. PICK token \in tokens : /\ Authorized(a, token)
                                    /\ \/ ConfigRequest(a, token.tenant)
                                       \/ PeopleRequest(a, token.tenant)
        BY <2>1 DEF AdminRequest
      <3>2. \E kinds \in {{"api", "key", "rule"}, {"tenant", "user"}} :
              Starts(a, kinds) /\ UNCHANGED tenantVars
        BY <3>1, ConfigRequests, PeopleRequests DEF AuthorityInv
      <3> QED
        BY <2>0, <3>1, <3>2, RequestKeeps
    <2>2. ASSUME NEW a \in Admin, NEW e \in Email, Bootstrap(a, e)
          PROVE  AuthorityInv'
      <3>1. Starts(a, {"bootstrap"}) /\ UNCHANGED tenantVars
        BY <2>2, Begins, TodoKinds DEF Bootstrap, AuthorityInv
      <3> QED
        BY <2>0, <3>1, RequestKeeps
    <2>3. ASSUME GoOn, UNCHANGED tenantVars
          PROVE  AuthorityInv'
      <3>1. AdminInv' /\ TimeInv' /\ Later /\ tokens' = tokens
        BY <2>0, <2>3, TimeKept
           DEF GoOn, tenantVars, AuthorityInv, AdminInv, ActiveAdmin, Later
      <3> QED
        BY <2>0, <2>3, <3>1, GoOnKeeps
    <2>4. ASSUME NEW a \in Admin, ConfigStep(a) \/ (Fail(a) /\ UNCHANGED tenantVars)
          PROVE  AuthorityInv'
      BY <2>3, <2>4, ConfigSteps, Ends DEF Fail, AuthorityInv
    <2>5. ASSUME NEW a \in Admin, PeopleStep(a)
          PROVE  AuthorityInv'
      BY <2>0, <2>5, SignKeeps, SaveUserKeeps, RowsKeep DEF PeopleStep
    <2>6. ASSUME NEW p \in Process, LoadRuntimeRules(p), UNCHANGED tenantVars
          PROVE  AuthorityInv'
      <3>1. UNCHANGED call
        BY <2>6 DEF LoadRuntimeRules, requestVars
      <3>2. GoOn
        BY <3>1 DEF AuthorityInv, CallInv, GoOn, Goes
      <3> QED
        BY <2>3, <2>6, <3>2
    <2>7. ASSUME NEW a \in Admin, PublicRequest(a)
          PROVE  AuthorityInv'
      BY <2>0, <2>2, <2>7, LoginKeeps DEF PublicRequest
    <2>8. TimePasses => AuthorityInv'
      BY <2>0, TimeKeeps
    <2> QED
      BY <1>2, <2>1, <2>4, <2>5, <2>6, <2>7, <2>8 DEF Next
  <1> QED
    BY <1>1, <1>2

(***************************************************************************)
(* Whoever changes something through the management API was an active      *)
(* admin less than a token's life and a request's duration ago             *)
(* (auth.service.ts:20-40, jwt.strategy.ts): however logins, changes of    *)
(* users, failures and requests interleave, and while time passes.         *)
(***************************************************************************)
THEOREM AuthorityTheorem == Spec => []AuthorityIsRecent
  <1>1. Init => AuthorityInv
    <2> SUFFICES ASSUME Init
                 PROVE  AuthorityInv
      OBVIOUS
    <2>1. CallInv /\ \A a \in Admin : call[a] = Idle /\ call[a].kind = "none"
      <3>1. Idle.kind = "none" /\ Idle.todo \in Todo /\ {"kind", "todo"} \subseteq DOMAIN Idle
            /\ Idle = [f \in DOMAIN Idle |-> Idle[f]]
        BY DEF Idle, Todo
      <3> QED
        BY <3>1 DEF Init, CallInv
    <2>2. TimeInv
      BY <2>1 DEF Init, TenantsInit, TimeInv
    <2>3. AdminInv
      BY DEF Init, TenantsInit, AdminInv, ActiveAdmin
    <2>4. TokenInv
      <3>1. \A token \in tokens : token.sub \in Admin /\ token.exp = TokenLife
        BY DEF Init, TenantsInit
      <3> QED
        BY <2>1, <3>1, TenantsAssumption, RegistryAssumption DEF Init, TenantsInit, TokenInv
    <2> QED
      BY <2>1, <2>2, <2>3, <2>4 DEF AuthorityInv, AuthorityIsRecent
  <1> QED
    BY <1>1, AuthorityStep, PTL DEF Spec, AuthorityInv
=============================================================================
