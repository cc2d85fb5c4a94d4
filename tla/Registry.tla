------------------------------ MODULE Registry ------------------------------
(***************************************************************************)
(* The management API: tenants, users, APIs, keys and rules together, the  *)
(* requests on all of them interleaving behind their guards, processes     *)
(* that start, and MySQL calls that fail.  The guards read the token and   *)
(* the tenant when the request begins.                                     *)
(***************************************************************************)
EXTENDS ApiKeys, RateRules

CONSTANTS FirstName,   \* the name of the API that there is at the beginning
          MaxLag       \* how long a request takes at most, in ticks

ASSUME RegistryAssumption == FirstName \in Name /\ MaxLag \in Nat

VARIABLE begun   \* history: when the request of a began

configVars == <<apis, keyVars, ruleVars>>
vars == <<requestVars, tenantVars, configVars, begun>>

\* One API with one key, as generateKey left it.
Init ==
    /\ TenantsInit
    /\ apis = <<[tenant |-> 1, name |-> FirstName, isActive |-> TRUE]>>
    /\ call = [a \in Admin |-> Idle]
    /\ calls = 0 /\ failures = 0 /\ marks = {}
    /\ keys = <<[api |-> 1, active |-> TRUE]>> /\ revoked = {}
    /\ rules = <<>>
    /\ cache = [p \in Process |-> {}] /\ changed = [p \in Process |-> {}]
    /\ begun = [a \in Admin |-> 0]

\* Controllers of APIs, keys and rules: JwtAuthGuard, RolesGuard, TenantGuard.
ConfigRequest(a, t) ==
    /\ TenantIsOpen(t)
    /\ \/ ApiRequest(a, t) /\ UNCHANGED <<keyVars, ruleVars>>
       \/ KeyRequest(a, t) /\ UNCHANGED ruleVars
       \/ RuleRequest(a, t) /\ UNCHANGED keyVars
    /\ UNCHANGED tenantVars

\* A request that needs an admin.
AdminRequest(a) ==
    \E token \in tokens :
      /\ Authorized(a, token)
      /\ \/ ConfigRequest(a, token.tenant)
         \/ PeopleRequest(a, token.tenant) /\ UNCHANGED configVars

ConfigStep(a) ==
    /\ \/ ApiStep(a) /\ UNCHANGED <<keyVars, ruleVars>>
       \/ KeyStep(a) /\ UNCHANGED ruleVars
       \/ RuleStep(a) /\ UNCHANGED keyVars
    /\ UNCHANGED tenantVars

\* Time passes while requests are under way.
TimePasses ==
    /\ \A a \in Admin : call[a] # Idle => clock < begun[a] + MaxLag
    /\ Tick

Next ==
    /\ \/ \E a \in Admin :
            \/ AdminRequest(a) \/ ConfigStep(a)
            \/ (PublicRequest(a) \/ PeopleStep(a)) /\ UNCHANGED configVars
            \/ Fail(a) /\ UNCHANGED <<tenantVars, configVars>>
       \/ \E p \in Process : LoadRuntimeRules(p) /\ UNCHANGED <<keyVars, tenantVars>>
       \/ TimePasses /\ UNCHANGED configVars
    /\ begun' = [a \in Admin |-> IF call'[a] = Idle THEN 0
                                 ELSE IF call[a] = Idle THEN clock ELSE begun[a]]

Spec == Init /\ [][Next]_vars

(***************************************************************************)
(* Types, and that users and APIs belong to tenants, and keys and rules to *)
(* APIs, that exist.                                                       *)
(***************************************************************************)
TypeOK ==
    /\ \A i \in DOMAIN tenants : tenants[i] \in TenantRow
    /\ \A u \in DOMAIN users : users[u] \in UserRow
    /\ \A i \in DOMAIN apis : apis[i] \in ApiRow
    /\ \A k \in DOMAIN keys : keys[k].api \in DOMAIN apis
    /\ \A r \in DOMAIN rules :
         rules[r] \in [api : DOMAIN apis, scope : Scope, limit : Limit,
                       active : BOOLEAN]
    /\ tokens \subseteq [sub : Admin, role : Role, tenant : DOMAIN tenants, exp : Nat]
    /\ marks \subseteq {"api", "key", "rule", "tenant", "user", "login", "bootstrap",
                  "unchecked"}
    /\ calls \in 0..MaxCalls /\ failures \in 0..MaxFailures

(***************************************************************************)
(* Authority ends: a request for which an admin is needed is made by one   *)
(* who was an active admin less than TokenLife ago, and the time a log-in  *)
(* may take, however a log-in interleaves with the change of its user.     *)
(***************************************************************************)
AuthorityIsRecent ==
    \A a \in Admin : call[a].kind \notin {"none", "login", "bootstrap"} =>
        begun[a] - lastAdmin[a] < TokenLife + MaxLag
=============================================================================
