------------------------------ MODULE Tenants ------------------------------
(***************************************************************************)
(* Tenants, their users, and the tokens the users log in with.  A token    *)
(* carries the role and the tenant its user had at the login, and the      *)
(* guards look at the token alone, so that who loses a role keeps it until *)
(* the token expires.  A name of a tenant is unique in MySQL, and a        *)
(* request with a name that is taken changes nothing: names are left out.  *)
(* t is the tenant of the token with which a request is made.              *)
(***************************************************************************)
EXTENDS Requests

CONSTANTS Newcomer,     \* ids and e-mail addresses that are free at first
          TenantBody,   \* bodies of POST /tenants and PATCH /tenants/:id
          UserBody,     \* bodies of PATCH /users/:id
          TokenLife,    \* expiresIn, in ticks
          MaxTime       \* bound

UserId == Admin \cup Newcomer
Email == UserId               \* a user's first e-mail is named like its id
Role == {"admin", "viewer"}   \* a developer may change as little as a viewer
Status == {"active", "disabled"}

ASSUME TenantsAssumption == TokenLife \in Nat \ {0} /\ MaxTime \in Nat

VARIABLES clock,     \* time, in ticks
          tenants,   \* rows of tenants, by id
          users,     \* rows of users, by id
          tokens,    \* the tokens that were issued
          bare,      \* history: tenants that were created without an admin
          left,      \* history: tenants that a user was taken away from
          lastAdmin  \* history: when a user was last an active admin

tenantVars == <<clock, tenants, users, tokens, bare, left, lastAdmin>>

TenantRow == [status : {"active", "suspended"}, killSwitch : BOOLEAN]
UserRow == [tenant : DOMAIN tenants, email : Email, role : Role, status : Status]

ActiveAdmin(u) == users[u].role = "admin" /\ users[u].status = "active"

(***************************************************************************)
(* What the guards let through.                                            *)
(***************************************************************************)
\* Faulty variant: tokens are accepted for ever.
NeverExpired(token) == TRUE

\* JwtAuthGuard: exp lies ahead.
Unexpired(token) == clock < token.exp

\* JwtAuthGuard and RolesGuard with @Roles('admin').
Authorized(a, token) == token.sub = a /\ token.role = "admin" /\ Unexpired(token)

\* TenantGuard.
TenantIsOpen(t) == tenants[t].status = "active" /\ ~tenants[t].killSwitch

(***************************************************************************)
(* AuthService.login: the user is read, the password compared, the token   *)
(* signed.                                                                 *)
(***************************************************************************)
Login(a) ==
    /\ users[a].status = "active"
    /\ Begin(a, "login", <<"sign">>, [role |-> users[a].role, tenant |-> users[a].tenant])
    /\ UNCHANGED tenantVars

Sign(a) ==
    /\ Due(a, "sign")
    /\ tokens' = tokens \cup {[sub |-> a, role |-> call[a].role, tenant |-> call[a].tenant,
                               exp |-> clock + TokenLife]}
    /\ Proceed(a)
    /\ UNCHANGED <<calls, failures, marks, clock, tenants, users, bare, left, lastAdmin>>

(***************************************************************************)
(* TenantsService: create, the updates, createTenantWithAdmin.  What a     *)
(* body does not name is left to the row, or to the defaults of a new one. *)
(***************************************************************************)
NewTenant == [status |-> "active", killSwitch |-> FALSE]

TenantAt(id, entity) ==
    IF id \in DOMAIN tenants THEN tenants[id] ELSE Over(entity, NewTenant)

\* The columns a body names.
Columns(body) == [c \in DOMAIN body \cap DOMAIN NewTenant |-> body[c]]

\* create and save; with an id, of the row of that id.
CreateTenant(a, body) ==
    LET id == Target(body, Len(tenants) + 1)
        entity == Columns(body)
    IN  /\ id \in 1..Len(tenants) + 1 /\ Over(entity, NewTenant) \in TenantRow
        /\ IF "id" \in DOMAIN body
           THEN Begin(a, "tenant", <<"saveTenant">>,
                      [id |-> id, read |-> TenantAt(id, entity), entity |-> entity])
           ELSE Begin(a, "tenant", <<"insertTenant">>, [entity |-> entity])
        /\ UNCHANGED tenantVars

InsertTenant(a) ==
    /\ Due(a, "insertTenant")
    /\ tenants' = Append(tenants, Over(call[a].entity, NewTenant))
    /\ bare' = bare \cup {Len(tenants) + 1}
    /\ Proceed(a)
    /\ UNCHANGED <<calls, failures, marks, clock, users, tokens, left, lastAdmin>>

\* update assigns the body; updateStatus and updateKillSwitch one column.
UpdateTenant(a, i, body) ==
    LET id == Target(body, i)
        entity == Assigned(body, tenants[i])
    IN  /\ id \in 1..Len(tenants) + 1 /\ entity \in TenantRow
        /\ Begin(a, "tenant", <<"saveTenant">>,
                 [id |-> id, read |-> TenantAt(id, entity), entity |-> entity])
        /\ UNCHANGED tenantVars

SaveTenant(a) ==
    /\ Due(a, "saveTenant")
    /\ LET i == call[a].id
       IN  IF i \in DOMAIN tenants
           THEN /\ \E row \in Saved(a, tenants[i]) : tenants' = [tenants EXCEPT ![i] = row]
                /\ UNCHANGED bare
           ELSE /\ tenants' = Append(tenants, Over(call[a].entity, NewTenant))
                /\ bare' = bare \cup {Len(tenants) + 1}
    /\ Proceed(a)
    /\ UNCHANGED <<calls, failures, marks, clock, users, tokens, left, lastAdmin>>

\* Faulty variant: the tenant is saved by tenantRepo, outside the transaction.
BootstrapInTwo(a, e) ==
    /\ Begin(a, "bootstrap", <<"insertAdmin", "commit">>, [email |-> e])
    /\ tenants' = Append(tenants, NewTenant)
    /\ UNCHANGED <<clock, users, tokens, bare, left, lastAdmin>>

\* The transaction starts and inserts a tenant that nobody else sees yet.
Bootstrap(a, e) ==
    /\ Begin(a, "bootstrap", <<"insertAdmin", "commit">>, [email |-> e])
    /\ UNCHANGED tenantVars

(***************************************************************************)
(* An e-mail is unique: a write rejects when another user has it, and      *)
(* waits for a transaction that inserted it.                               *)
(***************************************************************************)
Taken(e, id) == \E u \in DOMAIN users \ {id} : users[u].email = e
Locked(a, e) == \E b \in Admin \ {a} : Due(b, "commit") /\ call[b].email = e

\* A row for a new user, active, gets a free id.
AddUser(e, t, role) ==
    \E id \in UserId \ DOMAIN users :
      users' = Over(users, [new \in {id} |->
                 [tenant |-> t, email |-> e, role |-> role, status |-> "active"]])

\* Rejecting, it rolls the transaction back.
InsertAdmin(a) ==
    /\ Due(a, "insertAdmin") /\ ~Locked(a, call[a].email)
    /\ IF \E u \in DOMAIN users : users[u].email = call[a].email THEN Done(a) ELSE Proceed(a)
    /\ UNCHANGED <<calls, failures, marks, tenantVars>>

Commit(a) ==
    /\ Due(a, "commit")
    /\ tenants' = Append(tenants, NewTenant)
    /\ AddUser(call[a].email, Len(tenants) + 1, "admin")
    /\ Proceed(a)
    /\ UNCHANGED <<calls, failures, marks, clock, tokens, bare, left, lastAdmin>>

(***************************************************************************)
(* UsersService.create, alone or behind the look-up of AuthService.signup. *)
(***************************************************************************)
CreateUser(a, t, e, role) ==
    /\ Begin(a, "user", <<"insertUser">>, [email |-> e, role |-> role, tenant |-> t])
    /\ UNCHANGED tenantVars

SignUp(a, t, e, role) ==
    ~(\E u \in DOMAIN users : users[u].email = e) /\ CreateUser(a, t, e, role)

InsertUser(a) ==
    /\ Due(a, "insertUser") /\ ~Locked(a, call[a].email)
    /\ IF \E u \in DOMAIN users : users[u].email = call[a].email
       THEN UNCHANGED users
       ELSE AddUser(call[a].email, call[a].tenant, call[a].role)
    /\ Proceed(a)
    /\ UNCHANGED <<calls, failures, marks, clock, tenants, tokens, bare, left, lastAdmin>>

(***************************************************************************)
(* The updates of a user of the caller's tenant.                           *)
(***************************************************************************)
UpdateUser(a, t, u, body) ==
    LET id == Target(body, u)
        entity == Assigned(body, users[u])
    IN  /\ users[u].tenant = t
        /\ id \in UserId /\ entity \in UserRow
        /\ Begin(a, "user", <<"saveUser">>,
                 [id |-> id, entity |-> entity,
                  read |-> IF id \in DOMAIN users THEN users[id] ELSE entity])
        /\ UNCHANGED tenantVars

SaveUser(a) ==
    /\ Due(a, "saveUser")
    /\ LET id == call[a].id
       IN  \E row \in IF id \in DOMAIN users THEN Saved(a, users[id]) ELSE {call[a].entity} :
             /\ ~Locked(a, row.email)
             /\ IF Taken(row.email, id) THEN UNCHANGED <<users, left>>
                ELSE /\ users' = Over([x \in {id} |-> row], users)
                     /\ left' = left \cup {users[x].tenant :
                                  x \in {x \in DOMAIN users : users'[x].tenant # users[x].tenant}}
    /\ lastAdmin' = [u \in Admin |->
                       IF ActiveAdmin(u)' THEN clock ELSE lastAdmin[u]]
    /\ Proceed(a)
    /\ UNCHANGED <<calls, failures, marks, clock, tenants, tokens, bare>>

Tick ==
    /\ clock < MaxTime
    /\ clock' = clock + 1
    /\ lastAdmin' = [u \in Admin |->
                       IF ActiveAdmin(u) THEN clock' ELSE lastAdmin[u]]
    /\ UNCHANGED <<requestVars, tenants, users, tokens, bare, left>>

TenantsInit ==
    /\ clock = 0
    /\ tenants = <<NewTenant>>
    /\ users = [a \in Admin |-> [tenant |-> 1, email |-> a, role |-> "admin",
                                 status |-> "active"]]
    /\ tokens = [sub : Admin, role : {"admin"}, tenant : {1}, exp : {TokenLife}]
    /\ bare = {} /\ left = {} /\ lastAdmin = [a \in Admin |-> 0]

\* What needs no token, and what needs one of an admin.
PublicRequest(a) ==
    \/ Login(a)
    \/ \E e \in Email : Bootstrap(a, e)

PeopleRequest(a, t) ==
    \/ \E body \in TenantBody :
         CreateTenant(a, body) \/ \E i \in DOMAIN tenants : UpdateTenant(a, i, body)
    \/ \E e \in Email, role \in Role : CreateUser(a, t, e, role) \/ SignUp(a, t, e, role)
    \/ \E u \in DOMAIN users, body \in UserBody : UpdateUser(a, t, u, body)

PeopleStep(a) ==
    \/ Sign(a) \/ InsertTenant(a) \/ SaveTenant(a) \/ InsertAdmin(a) \/ Commit(a)
    \/ InsertUser(a) \/ SaveUser(a)

(***************************************************************************)
(* A tenant that bootstrap creates has a user, whatever call fails,        *)
(* whoever else takes the e-mail: only POST and PATCH /tenants make one    *)
(* without, and only an update of a user takes one away.                   *)
(***************************************************************************)
BootstrapIsWhole ==
    \A t \in DOMAIN tenants \ (bare \cup left) :
        \E u \in DOMAIN users : users[u].tenant = t
=============================================================================
