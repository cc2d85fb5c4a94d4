-------------------------- MODULE Registry_proofs --------------------------
(***************************************************************************)
(* For every number of administrators, requests, failures, processes and   *)
(* rows, and all bodies: rows keep their types, a key that was revoked is  *)
(* never accepted again, rotations leave a key, names and scopes are       *)
(* unique, and what a process enforces reflects the rules.                 *)
(***************************************************************************)
EXTENDS Registry, SequenceTheorems, TLAPS

(***************************************************************************)
(* The rows of api_keys only ever grow in number, and none is reactivated. *)
(***************************************************************************)
KeyRow(ids) == [api : ids, active : BOOLEAN]
KeysInv == \E ids : keys \in Seq(KeyRow(ids))

StaysRevoked == \A k \in DOMAIN keys : ~keys[k].active =>
                    k \in DOMAIN keys' /\ ~keys'[k].active

\* Every step keeps the rows of keys, and what is revoked revoked.
LEMMA KeyRowsStay ==
  ASSUME KeysInv, [Next]_vars
  PROVE  KeysInv' /\ StaysRevoked
  <1> PICK ids : keys \in Seq(KeyRow(ids))
    BY DEF KeysInv
  <1>0. PICK n \in Nat : keys \in [1..n -> KeyRow(ids)]
    BY SeqDef
  <1>1. CASE UNCHANGED keys
    BY <1>1 DEF KeysInv, StaysRevoked
  <1>2. ASSUME NEW a \in Admin, SaveKey(a) \/ UpdateKeys(a)
        PROVE  keys' \in Seq(KeyRow(ids)) /\ StaysRevoked
    <2> DEFINE rows == 1..n
    <2>1. keys \in [rows -> KeyRow(ids)]
      BY <1>0
    <2>2. keys' \in [rows -> KeyRow(ids)] => keys' \in Seq(KeyRow(ids))
      BY SeqDef
    <2> HIDE DEF rows
    <2>3. CASE SaveKey(a)
      <3>1. keys' = [keys EXCEPT ![call[a].key].active = FALSE]
        BY <2>3 DEF SaveKey
      <3>2. keys' \in [rows -> KeyRow(ids)] /\ StaysRevoked
        BY <2>1, <3>1 DEF KeyRow, StaysRevoked
      <3> QED
        BY <2>2, <3>2
    <2>4. CASE UpdateKeys(a)
      <3> DEFINE active(k) == keys[k].active /\ k \notin Live(call[a].api)
      <3>1. keys' = [k \in DOMAIN keys |-> [keys[k] EXCEPT !.active = active(k)]]
        BY <2>4 DEF UpdateKeys
      <3>2. \A k : active(k) \in BOOLEAN
        OBVIOUS
      <3>3. \A k : active(k) => keys[k].active
        OBVIOUS
      <3> HIDE DEF active
      <3>4. keys' \in [rows -> KeyRow(ids)] /\ StaysRevoked
        BY <2>1, <3>1, <3>2, <3>3 DEF KeyRow, StaysRevoked
      <3> QED
        BY <2>2, <3>4
    <2> QED
      BY <1>2, <2>3, <2>4
  <1>3. ASSUME NEW a \in Admin, InsertKey(a)
        PROVE  keys' \in Seq(KeyRow(ids \cup {call[a].api})) /\ StaysRevoked
    <2> DEFINE R == KeyRow(ids \cup {call[a].api})
               new == [api |-> call[a].api, active |-> TRUE]
    <2>1. KeyRow(ids) \subseteq R /\ new \in R
      BY DEF KeyRow
    <2>2. keys' = Append(keys, new)
      BY <1>3 DEF InsertKey
    <2> HIDE DEF R, new
    <2>3. keys \in Seq(R)
      BY <2>1, SeqMonotonic
    <2>4. keys' \in Seq(R) /\ Len(keys') = Len(keys) + 1
          /\ \A k \in 1..Len(keys) : keys'[k] = keys[k]
      BY <2>1, <2>2, <2>3, AppendProperties
    <2>5. DOMAIN keys = 1..Len(keys) /\ DOMAIN keys' = 1..Len(keys') /\ Len(keys) \in Nat
      BY <2>3, <2>4
    <2> QED
      BY <2>4, <2>5 DEF StaysRevoked, R
  <1>4. UNCHANGED keys \/ \E a \in Admin : SaveKey(a) \/ UpdateKeys(a) \/ InsertKey(a)
    <2>1. ASSUME NEW a \in Admin, NEW t, KeyRequest(a, t)
          PROVE  UNCHANGED keys
      BY <2>1 DEF KeyRequest, GenerateKey, RevokeKey, Rotate, RotateAll, keyVars
    <2>2. ASSUME NEW a \in Admin, AdminRequest(a)
          PROVE  UNCHANGED keys
      BY <2>1, <2>2 DEF AdminRequest, ConfigRequest, configVars, keyVars
    <2>3. ASSUME NEW a \in Admin, ConfigStep(a)
          PROVE  UNCHANGED keys \/ SaveKey(a) \/ UpdateKeys(a) \/ InsertKey(a)
      BY <2>3 DEF ConfigStep, KeyStep, keyVars
    <2> QED
      BY <2>2, <2>3 DEF Next, configVars, keyVars, vars
  <1>5. ASSUME NEW T, keys' \in Seq(KeyRow(T))
        PROVE  KeysInv'
    BY <1>5 DEF KeysInv
  <1> QED
    BY <1>1, <1>2, <1>3, <1>4, <1>5

(***************************************************************************)
(* A revoked key is never accepted again (api-key.service.ts:43-184),      *)
(* whatever rotations, revocations and failures interleave.                *)
(***************************************************************************)
THEOREM RevocationTheorem == Spec => RevocationIsFinal
  <1>1. Init => KeysInv
    <2> SUFFICES ASSUME Init
                 PROVE  keys \in Seq(KeyRow({1}))
      BY DEF KeysInv
    <2> QED
      BY DEF Init, KeyRow
  <1>2. KeysInv /\ [Next]_vars => KeysInv'
    BY KeyRowsStay
  <1>3. KeysInv /\ [Next]_vars =>
          [\A k \in DOMAIN keys : ~keys[k].active => ~Accepted(k)']_keys
    BY KeyRowsStay DEF Accepted, StaysRevoked
  <1> QED
    BY <1>1, <1>2, <1>3, PTL DEF Spec, RevocationIsFinal

(***************************************************************************)
(* What a request knows, by the MySQL calls it still has to make.  T are   *)
(* tenants, A APIs, K keys and R rules that exist.                         *)
(***************************************************************************)
ApiRows(T) == [tenant : T, name : Name, isActive : BOOLEAN]
UserRows(T) == [tenant : T, email : Email, role : Role, status : Status]
RuleRow(A) == [api : A, scope : Scope, limit : Limit, active : BOOLEAN]
NewRule(A) == [api : A, scope : Scope, limit : Limit, active : {TRUE}]

\* What a body may leave of a tenant.
SomeColumns ==
    UNION {[C -> {"active", "suspended"} \cup BOOLEAN] : C \in SUBSET {"status", "killSwitch"}}
SomeTenant == {e \in SomeColumns : Over(e, NewTenant) \in TenantRow}

InsertApiCall(T) == [kind : {"api"}, todo : {<<"insertApi">>}, row : ApiRows(T)]
FindDuplicateCall(T) ==
    [kind : {"api"}, todo : {<<"findDuplicate", "saveApi">>}, id : Nat, read : ApiRows(T),
     entity : ApiRows(T), api : Nat, tenant : T, free : SUBSET (T \X Name)]
SaveApiCall(T) ==
    [kind : {"api"}, todo : {<<"saveApi">>}, id : Nat, read : ApiRows(T),
     entity : ApiRows(T), free : SUBSET (T \X Name)]
    \cup [kind : {"api"}, todo : {<<"saveApi">>}, id : Nat, read : ApiRows(T),
          entity : ApiRows(T), api : Nat, tenant : T, free : SUBSET (T \X Name)]
ApiCalls(T) == InsertApiCall(T) \cup FindDuplicateCall(T) \cup SaveApiCall(T)

InsertKeyCall(A, K) ==
    [kind : {"key"}, todo : {<<"insertKey">>}, op : {"generate", "rotateAll"}, api : A]
    \cup [kind : {"key"}, todo : {<<"insertKey">>}, op : {"rotate"}, api : A, key : K]
SaveKeyCall(A, K) ==
    [kind : {"key"}, todo : {<<"saveKey">>}, op : {"revoke"}, api : A, key : K]
    \cup [kind : {"key"}, todo : {<<"saveKey", "insertKey">>}, op : {"rotate"}, api : A,
          key : K]
UpdateKeysCall(A) == [kind : {"key"}, todo : {<<"updateKeys", "insertKey">>},
                      op : {"rotateAll"}, api : A]
KeyCalls(A, K) == InsertKeyCall(A, K) \cup SaveKeyCall(A, K) \cup UpdateKeysCall(A)

FindRuleCall(A) == [kind : {"rule"}, todo : {<<"findRule", "saveRule">>}, id : {0},
                    row : NewRule(A)]
SaveRuleCall(A, R) == [kind : {"rule"}, todo : {<<"saveRule">>}, id : {0} \cup R,
                       row : NewRule(A)]
UpdateRuleCall(R) == [kind : {"rule"}, todo : {<<"updateRule">>}, id : R]
RuleCalls(A, R) == FindRuleCall(A) \cup SaveRuleCall(A, R) \cup UpdateRuleCall(R)

SignCall(T) == [kind : {"login"}, todo : {<<"sign">>}, role : Role, tenant : T]
InsertTenantCall == [kind : {"tenant"}, todo : {<<"insertTenant">>}, entity : SomeTenant]
SaveTenantCall == [kind : {"tenant"}, todo : {<<"saveTenant">>}, id : Nat,
                   read : TenantRow, entity : SomeTenant]
InsertUserCall(T) == [kind : {"user"}, todo : {<<"insertUser">>}, email : Email, role : Role,
                      tenant : T]
SaveUserCall(T) == [kind : {"user"}, todo : {<<"saveUser">>}, id : UserId,
                    read : UserRows(T), entity : UserRows(T)]
InsertAdminCall == [kind : {"bootstrap"}, todo : {<<"insertAdmin", "commit">>},
                    email : Email]
CommitCall == [kind : {"bootstrap"}, todo : {<<"commit">>}, email : Email]
PeopleCalls(T) ==
    SignCall(T) \cup InsertTenantCall \cup SaveTenantCall \cup InsertUserCall(T)
    \cup SaveUserCall(T) \cup InsertAdminCall \cup CommitCall

Calls == {Idle} \cup ApiCalls(DOMAIN tenants) \cup KeyCalls(DOMAIN apis, DOMAIN keys)
         \cup RuleCalls(DOMAIN apis, DOMAIN rules) \cup PeopleCalls(DOMAIN tenants)

(***************************************************************************)
(* Types of rows and requests.                                             *)
(***************************************************************************)
Kinds == {"api", "key", "rule", "tenant", "user", "login", "bootstrap"}

Token(T) == [sub : Admin, role : Role, tenant : T, exp : Nat]

RowsTyped ==
    /\ apis \in Seq(ApiRows(DOMAIN tenants)) /\ keys \in Seq(KeyRow(DOMAIN apis))
    /\ rules \in Seq(RuleRow(DOMAIN apis)) /\ tenants \in Seq(TenantRow)
    /\ users \in [DOMAIN users -> UserRows(DOMAIN tenants)] /\ Admin \subseteq DOMAIN users
    /\ clock \in Nat /\ tokens \subseteq Token(DOMAIN tenants)

RegistryInv ==
    /\ call \in [Admin -> Calls] /\ RowsTyped
    /\ marks \subseteq Kinds \cup {"unchecked"}
    /\ calls \in 0..MaxCalls /\ failures \in 0..MaxFailures

\* Requests know what they knew when there are more rows.
LEMMA CallsGrow ==
  ASSUME DOMAIN apis \subseteq DOMAIN apis', DOMAIN keys \subseteq DOMAIN keys',
         DOMAIN rules \subseteq DOMAIN rules', DOMAIN tenants \subseteq DOMAIN tenants'
  PROVE  Calls \subseteq Calls'
  <1>1. ApiCalls(DOMAIN tenants) \subseteq ApiCalls(DOMAIN tenants')
    <2> DEFINE T == DOMAIN tenants  U == DOMAIN tenants'
    <2>1. ApiRows(T) \subseteq ApiRows(U) /\ SUBSET (T \X Name) \subseteq SUBSET (U \X Name)
          /\ T \subseteq U
      BY DEF ApiRows
    <2> HIDE DEF T, U
    <2>2. InsertApiCall(T) \subseteq InsertApiCall(U)
      BY <2>1 DEF InsertApiCall
    <2>3. FindDuplicateCall(T) \subseteq FindDuplicateCall(U)
      BY <2>1 DEF FindDuplicateCall
    <2>4. SaveApiCall(T) \subseteq SaveApiCall(U)
      BY <2>1 DEF SaveApiCall
    <2> QED
      BY <2>2, <2>3, <2>4 DEF ApiCalls, T, U
  <1>2. KeyCalls(DOMAIN apis, DOMAIN keys) \subseteq KeyCalls(DOMAIN apis', DOMAIN keys')
    BY DEF KeyCalls, InsertKeyCall, SaveKeyCall, UpdateKeysCall
  <1>3. RuleCalls(DOMAIN apis, DOMAIN rules) \subseteq RuleCalls(DOMAIN apis', DOMAIN rules')
    BY DEF RuleCalls, FindRuleCall, SaveRuleCall, UpdateRuleCall, NewRule
  <1>4. PeopleCalls(DOMAIN tenants) \subseteq PeopleCalls(DOMAIN tenants')
    <2>1. UserRows(DOMAIN tenants) \subseteq UserRows(DOMAIN tenants')
      BY DEF UserRows
    <2>2. SaveUserCall(DOMAIN tenants) \subseteq SaveUserCall(DOMAIN tenants')
      BY <2>1 DEF SaveUserCall
    <2>3. /\ SignCall(DOMAIN tenants) \subseteq SignCall(DOMAIN tenants')
          /\ InsertUserCall(DOMAIN tenants) \subseteq InsertUserCall(DOMAIN tenants')
      BY DEF SignCall, InsertUserCall
    <2> QED
      BY <2>2, <2>3 DEF PeopleCalls
  <1> QED
    BY <1>1, <1>2, <1>3, <1>4 DEF Calls

\* The next call of a request tells what the request knows.
LEMMA DueTells ==
  ASSUME RegistryInv, NEW a \in Admin
  PROVE  /\ Due(a, "insertApi") => call[a] \in InsertApiCall(DOMAIN tenants)
         /\ Due(a, "findDuplicate") => call[a] \in FindDuplicateCall(DOMAIN tenants)
         /\ Due(a, "saveApi") => call[a] \in SaveApiCall(DOMAIN tenants)
         /\ Due(a, "insertKey") => call[a] \in InsertKeyCall(DOMAIN apis, DOMAIN keys)
         /\ Due(a, "saveKey") => call[a] \in SaveKeyCall(DOMAIN apis, DOMAIN keys)
         /\ Due(a, "updateKeys") => call[a] \in UpdateKeysCall(DOMAIN apis)
         /\ Due(a, "findRule") => call[a] \in FindRuleCall(DOMAIN apis)
         /\ Due(a, "saveRule") => call[a] \in SaveRuleCall(DOMAIN apis, DOMAIN rules)
         /\ Due(a, "updateRule") => call[a] \in UpdateRuleCall(DOMAIN rules)
         /\ Due(a, "sign") => call[a] \in SignCall(DOMAIN tenants)
         /\ Due(a, "insertTenant") => call[a] \in InsertTenantCall
         /\ Due(a, "insertUser") => call[a] \in InsertUserCall(DOMAIN tenants)
         /\ Due(a, "insertAdmin") => call[a] \in InsertAdminCall
         /\ Due(a, "commit") => call[a] \in CommitCall
         /\ Due(a, "saveTenant") => call[a] \in SaveTenantCall
         /\ Due(a, "saveUser") => call[a] \in SaveUserCall(DOMAIN tenants)
  <1>1. call[a] \in Calls
    BY DEF RegistryInv
  <1>2. \A step : Due(a, step) => call[a].todo # <<>> /\ Head(call[a].todo) = step
    BY DEF Due
  <1>3. /\ call[a] = Idle => call[a].todo = <<>>
        /\ call[a] \in InsertApiCall(DOMAIN tenants) => Head(call[a].todo) = "insertApi"
        /\ call[a] \in FindDuplicateCall(DOMAIN tenants) =>
             Head(call[a].todo) = "findDuplicate"
    BY DEF Idle, InsertApiCall, FindDuplicateCall
  <1>4. call[a] \in SaveApiCall(DOMAIN tenants) => Head(call[a].todo) = "saveApi"
    BY DEF SaveApiCall
  <1>5. /\ call[a] \in InsertKeyCall(DOMAIN apis, DOMAIN keys) =>
             Head(call[a].todo) = "insertKey"
        /\ call[a] \in SaveKeyCall(DOMAIN apis, DOMAIN keys) => Head(call[a].todo) = "saveKey"
        /\ call[a] \in UpdateKeysCall(DOMAIN apis) => Head(call[a].todo) = "updateKeys"
    BY DEF InsertKeyCall, SaveKeyCall, UpdateKeysCall
  <1>6. /\ call[a] \in FindRuleCall(DOMAIN apis) => Head(call[a].todo) = "findRule"
        /\ call[a] \in UpdateRuleCall(DOMAIN rules) => Head(call[a].todo) = "updateRule"
    BY DEF FindRuleCall, UpdateRuleCall
  <1>7. call[a] \in SaveRuleCall(DOMAIN apis, DOMAIN rules) =>
             Head(call[a].todo) = "saveRule"
    BY DEF SaveRuleCall
  <1>8. /\ call[a] \in SignCall(DOMAIN tenants) => Head(call[a].todo) = "sign"
        /\ call[a] \in InsertTenantCall => Head(call[a].todo) = "insertTenant"
        /\ call[a] \in SaveTenantCall => Head(call[a].todo) = "saveTenant"
        /\ call[a] \in InsertUserCall(DOMAIN tenants) => Head(call[a].todo) = "insertUser"
        /\ call[a] \in InsertAdminCall => Head(call[a].todo) = "insertAdmin"
        /\ call[a] \in CommitCall => Head(call[a].todo) = "commit"
        /\ call[a] \in SaveUserCall(DOMAIN tenants) => Head(call[a].todo) = "saveUser"
    BY DEF SignCall, InsertTenantCall, InsertUserCall, InsertAdminCall, CommitCall,
         SaveTenantCall, SaveUserCall
  <1> QED
    BY <1>1, <1>2, <1>3, <1>4, <1>5, <1>6, <1>7, <1>8
    DEF Calls, ApiCalls, KeyCalls, RuleCalls, PeopleCalls

\* The last call of a request ends it; another one leaves the last one.
LEMMA Proceeding ==
  ASSUME call \in [Admin -> Calls], NEW a \in Admin, Proceed(a)
  PROVE  /\ (\E s : call[a].todo = <<s>>) => call' = [call EXCEPT ![a] = Idle]
         /\ \A s, t : call[a].todo = <<s, t>> => call' = [call EXCEPT ![a].todo = <<t>>]
  <1>1. ASSUME NEW s, call[a].todo = <<s>> PROVE call' = [call EXCEPT ![a] = Idle]
    BY <1>1 DEF Proceed, Done
  <1>2. ASSUME NEW s, NEW t, call[a].todo = <<s, t>>
        PROVE  call' = [call EXCEPT ![a].todo = <<t>>]
    <2>1. Len(<<s, t>>) = 2 /\ Tail(<<s, t>>) = <<t>>
      OBVIOUS
    <2>2. call' = [call EXCEPT ![a].todo = Tail(@)]
      BY <1>2, <2>1 DEF Proceed
    <2> QED
      BY <1>2, <2>1, <2>2
  <1> QED
    BY <1>1, <1>2


(***************************************************************************)
(* A request begins: what it has found at that moment.                     *)
(***************************************************************************)
allRows == <<apis, keyVars, ruleVars, tenantVars>>

Starts(a) ==
    /\ call[a] = Idle /\ call'[a] \in Calls /\ call'[a].kind # "none"
    /\ call' = [call EXCEPT ![a] = call'[a]]
    /\ UNCHANGED <<allRows, failures>> /\ calls' \in 0..MaxCalls
    /\ marks \subseteq marks' /\ marks' \subseteq marks \cup {call'[a].kind}
    /\ \A b \in Admin : call[b].kind = call'[a].kind => call'[a].kind \in marks'

Knows(a) ==
    /\ call'[a].todo = <<"insertApi">> =>
         Named(call'[a].row.tenant, call'[a].row.name) = {}
    /\ call'[a].todo = <<"findDuplicate", "saveApi">> =>
         \A pair \in call'[a].free : /\ pair = <<call'[a].tenant, call'[a].entity.name>>
                                     /\ call'[a].api = call'[a].id
    /\ call'[a].todo = <<"saveApi">> =>
         \A t, n : <<t, n>> \in call'[a].free => Named(t, n) = {}
    /\ call'[a].kind = "key" /\ "key" \in DOMAIN call'[a] =>
         keys[call'[a].key].api = call'[a].api
    /\ call'[a].todo # <<"saveRule">>
    /\ call'[a].kind = "key" /\ call'[a].op # "generate" =>
         call'[a].todo # <<"insertKey">>
    /\ call'[a].todo # <<"commit">>

\* Of any kind.
LEMMA Starting ==
  ASSUME RegistryInv, NEW a \in Admin, NEW kind \in Kinds, NEW todo, NEW known,
         Begin(a, kind, todo, known), UNCHANGED allRows,
         NEW request \in Calls, request = Over([kind |-> kind, todo |-> todo], known),
         request.kind = kind
  PROVE  Starts(a) /\ call'[a] = request
  <1>1. /\ call[a] = Idle /\ calls < MaxCalls /\ calls' = calls + 1
        /\ call' = [call EXCEPT ![a] = request] /\ failures' = failures
        /\ marks' = marks \cup {kind : b \in {x \in Admin : call[x].kind = kind}}
    BY DEF Begin
  <1>2. call'[a] = request /\ call' = [call EXCEPT ![a] = call'[a]]
    BY <1>1 DEF RegistryInv
  <1>3. calls' \in 0..MaxCalls
    BY <1>1, RequestsAssumption DEF RegistryInv
  <1>4. kind # "none"
    BY DEF Kinds
  <1> QED
    BY <1>1, <1>2, <1>3, <1>4 DEF Starts

\* The model's rows are rows of the tenants that exist.
LEMMA RowSets == ApiRow = ApiRows(DOMAIN tenants) /\ UserRow = UserRows(DOMAIN tenants)
  BY DEF ApiRow, ApiRows, UserRow, UserRows

\* Requests on APIs.
LEMMA ApiStarts ==
  ASSUME RegistryInv, NEW a \in Admin, NEW t \in DOMAIN tenants, ApiRequest(a, t),
         UNCHANGED <<keyVars, ruleVars, tenantVars>>
  PROVE  Starts(a) /\ Knows(a)
  <1>0. "api" \in Kinds /\ apis \in Seq(ApiRow) /\ DOMAIN apis = 1..Len(apis)
        /\ Len(apis) \in Nat /\ \A i \in DOMAIN apis : apis[i] \in ApiRow
    <2>1. apis \in Seq(ApiRow)
      BY RowSets DEF RegistryInv, RowsTyped
    <2> QED
      BY <2>1, ElementOfSeq DEF Kinds
  <1>1. ASSUME NEW row \in ApiRow, Begin(a, "api", <<"insertApi">>, [row |-> row]),
               UNCHANGED apis, Named(row.tenant, row.name) = {}
        PROVE  Starts(a) /\ Knows(a)
    <2> DEFINE request == [kind |-> "api", todo |-> <<"insertApi">>, row |-> row]
    <2>1. request = Over([kind |-> "api", todo |-> <<"insertApi">>], [row |-> row])
      BY DEF Over
    <2>2. request \in Calls
      BY RowSets DEF Calls, ApiCalls, InsertApiCall
    <2>3. Starts(a) /\ call'[a] = request
      BY <1>0, <1>1, <2>1, <2>2, Starting DEF allRows
    <2> QED
      BY <1>1, <2>3 DEF Knows
  <1>2. ASSUME NEW id \in 1..Len(apis) + 1, NEW read \in ApiRow, NEW entity \in ApiRow,
               NEW free \in SUBSET ((DOMAIN tenants) \X Name),
               \A u, n : <<u, n>> \in free => Named(u, n) = {},
               Begin(a, "api", <<"saveApi">>,
                     [id |-> id, read |-> read, entity |-> entity, free |-> free]),
               UNCHANGED apis
        PROVE  Starts(a) /\ Knows(a)
    <2> DEFINE request == [kind |-> "api", todo |-> <<"saveApi">>, id |-> id,
                           read |-> read, entity |-> entity, free |-> free]
    <2>1. request = Over([kind |-> "api", todo |-> <<"saveApi">>],
                         [id |-> id, read |-> read, entity |-> entity, free |-> free])
      BY DEF Over
    <2>2. request \in SaveApiCall(DOMAIN tenants)
      <3>1. id \in Nat
        BY <1>0
      <3> QED
        BY <3>1, RowSets DEF SaveApiCall
    <2>3. request \in Calls
      BY <2>2 DEF Calls, ApiCalls
    <2>4. Starts(a) /\ call'[a] = request
      BY <1>0, <1>2, <2>1, <2>3, Starting DEF allRows
    <2> QED
      BY <1>2, <2>4 DEF Knows
  <1>3. ASSUME NEW body \in ApiBody, Create(a, t, body)
        PROVE  Starts(a) /\ Knows(a)
    <2> DEFINE row == [tenant |-> t, name |-> body.name, isActive |-> TRUE]
    <2>1. /\ row \in ApiRow /\ Named(t, row.name) = {} /\ UNCHANGED apis
          /\ IF "id" \in DOMAIN body
             THEN /\ body.id \in 1..Len(apis) + 1
                  /\ Begin(a, "api", <<"saveApi">>,
                           [id |-> body.id, read |-> ApiAt(body.id, row), entity |-> row,
                            free |-> {<<t, row.name>>}])
             ELSE Begin(a, "api", <<"insertApi">>, [row |-> row])
      BY <1>3 DEF Create
    <2>2. row.tenant = t /\ row.name \in Name
      BY <2>1 DEF ApiRow
    <2> HIDE DEF row
    <2>3. {<<t, row.name>>} \in SUBSET ((DOMAIN tenants) \X Name)
          /\ \A u, n : <<u, n>> \in {<<t, row.name>>} => Named(u, n) = {}
      <3>1. \A u, n : <<u, n>> \in {<<t, row.name>>} => u = t /\ n = row.name
        OBVIOUS
      <3> QED
        BY <2>1, <2>2, <3>1
    <2>4. ApiAt(body.id, row) \in ApiRow
      BY <1>0, <2>1 DEF ApiAt
    <2> QED
      BY <1>1, <1>2, <2>1, <2>2, <2>3, <2>4
  <1>4. ASSUME NEW i \in DOMAIN apis, NEW body \in ApiBody, Update(a, t, i, body)
        PROVE  Starts(a) /\ Knows(a)
    <2> DEFINE id == Target(body, i)
               entity == Assigned(body, apis[i])
               read == ApiAt(id, entity)
               free == {<<t, entity.name>> : x \in {i} \cap {id}}
               known == [id |-> id, read |-> read, entity |-> entity, api |-> i,
                         tenant |-> t, free |-> free]
               request == [kind |-> "api", todo |-> <<"findDuplicate", "saveApi">>,
                           id |-> id, read |-> read, entity |-> entity, api |-> i,
                           tenant |-> t, free |-> free]
    <2>1. /\ id \in 1..Len(apis) + 1 /\ entity \in ApiRow
          /\ Begin(a, "api", <<"findDuplicate", "saveApi">>, known) /\ UNCHANGED apis
      BY <1>4 DEF Update
    <2>2. read \in ApiRow
      BY <1>0, <2>1 DEF ApiAt
    <2>3. entity.name \in Name
      BY <2>1 DEF ApiRow
    <2>4. free \in SUBSET ((DOMAIN tenants) \X Name)
          /\ \A pair \in free : pair = <<t, entity.name>> /\ i = id
      BY <2>3
    <2>5. id \in Nat /\ i \in Nat
      BY <1>0, <2>1
    <2> HIDE DEF id, entity, read, free
    <2>6. request = Over([kind |-> "api", todo |-> <<"findDuplicate", "saveApi">>], known)
      BY DEF Over
    <2>7. request \in FindDuplicateCall(DOMAIN tenants)
      BY <2>1, <2>2, <2>4, <2>5, RowSets DEF FindDuplicateCall
    <2>8. request \in Calls
      BY <2>7 DEF Calls, ApiCalls
    <2>9. /\ request.kind = "api" /\ request.todo = <<"findDuplicate", "saveApi">>
          /\ request.free = free /\ request.tenant = t /\ request.entity = entity
          /\ request.api = i /\ request.id = id
      OBVIOUS
    <2>10. UNCHANGED allRows
      BY <2>1 DEF allRows
    <2> HIDE DEF request, known
    <2>11. Starts(a) /\ call'[a] = request
      BY <1>0, <2>1, <2>6, <2>8, <2>9, <2>10, Starting
    <2> QED
      BY <2>4, <2>9, <2>11 DEF Knows
  <1>5. ASSUME NEW i \in DOMAIN apis, NEW b \in BOOLEAN, Switch(a, i, b)
        PROVE  Starts(a) /\ Knows(a)
    <2> DEFINE entity == [apis[i] EXCEPT !.isActive = b]
    <2>1. apis[i] \in ApiRow /\ entity \in ApiRow /\ i \in 1..Len(apis) + 1
      BY <1>0 DEF ApiRow
    <2>2. Begin(a, "api", <<"saveApi">>, [id |-> i, read |-> apis[i], free |-> {},
                                          entity |-> entity])
          /\ UNCHANGED apis
      BY <1>5 DEF Switch
    <2> HIDE DEF entity
    <2>3. [id |-> i, read |-> apis[i], free |-> {}, entity |-> entity]
          = [id |-> i, read |-> apis[i], entity |-> entity, free |-> {}]
      OBVIOUS
    <2>4. {} \in SUBSET ((DOMAIN tenants) \X Name)
      OBVIOUS
    <2> QED
      BY <1>2, <2>1, <2>2, <2>3, <2>4
  <1> QED
    BY <1>3, <1>4, <1>5 DEF ApiRequest, SetApiActiveStatus, Remove

\* Requests on keys.
LEMMA KeyStarts ==
  ASSUME RegistryInv, NEW a \in Admin, NEW t, UNCHANGED <<ruleVars, tenantVars>>,
         KeyRequest(a, t)
  PROVE  Starts(a) /\ Knows(a)
  <1> "key" \in Kinds
    BY DEF Kinds
  <1>0. \A k \in DOMAIN keys : keys[k].api \in DOMAIN apis
    <2>1. \A k \in DOMAIN keys : keys[k] \in KeyRow(DOMAIN apis)
      BY ElementOfSeq DEF RegistryInv, RowsTyped
    <2> QED
      BY <2>1 DEF KeyRow
  <1>1. ASSUME NEW todo, NEW op, NEW i \in DOMAIN apis,
               \/ todo = <<"insertKey">> /\ op = "generate"
               \/ todo = <<"updateKeys", "insertKey">> /\ op = "rotateAll",
               Begin(a, "key", todo, [op |-> op, api |-> i]),
               UNCHANGED <<apis, keyVars>>
        PROVE  Starts(a) /\ Knows(a)
    <2> DEFINE request == [kind |-> "key", todo |-> todo, op |-> op, api |-> i]
    <2>1. request \in InsertKeyCall(DOMAIN apis, DOMAIN keys)
          \/ request \in UpdateKeysCall(DOMAIN apis)
      BY <1>1 DEF InsertKeyCall, UpdateKeysCall
    <2>2. request = Over([kind |-> "key", todo |-> todo], [op |-> op, api |-> i])
      BY DEF Over
    <2>3. request \in Calls
      BY <2>1 DEF Calls, KeyCalls
    <2>4. Starts(a) /\ call'[a] = request
      BY <1>0, <1>1, <2>2, <2>3, Starting DEF allRows
    <2>5. op # "generate" => todo # <<"insertKey">>
      BY <1>1
    <2> QED
      BY <1>1, <2>4, <2>5 DEF Knows
  <1>2. ASSUME NEW todo, NEW op, NEW k \in DOMAIN keys,
               \/ todo = <<"saveKey">> /\ op = "revoke"
               \/ todo = <<"saveKey", "insertKey">> /\ op = "rotate",
               Begin(a, "key", todo, [op |-> op, api |-> keys[k].api, key |-> k]),
               UNCHANGED <<apis, keyVars>>
        PROVE  Starts(a) /\ Knows(a)
    <2> DEFINE request == [kind |-> "key", todo |-> todo, op |-> op, api |-> keys[k].api,
                           key |-> k]
    <2>1. request \in SaveKeyCall(DOMAIN apis, DOMAIN keys)
      BY <1>0, <1>2 DEF SaveKeyCall
    <2>2. request = Over([kind |-> "key", todo |-> todo],
                         [op |-> op, api |-> keys[k].api, key |-> k])
      BY DEF Over
    <2>3. request \in Calls
      BY <2>1 DEF Calls, KeyCalls
    <2>4. Starts(a) /\ call'[a] = request
      BY <1>0, <1>2, <2>2, <2>3, Starting DEF allRows
    <2>5. todo # <<"insertKey">>
      BY <1>2
    <2> QED
      BY <1>2, <2>4, <2>5 DEF Knows
  <1>3. ASSUME NEW i \in DOMAIN apis, GenerateKey(a, t, i) PROVE Starts(a) /\ Knows(a)
    BY <1>1, <1>3 DEF GenerateKey
  <1>4. ASSUME NEW i \in DOMAIN apis, RotateAll(a, t, i) PROVE Starts(a) /\ Knows(a)
    BY <1>1, <1>4 DEF RotateAll
  <1>5. ASSUME NEW k \in DOMAIN keys, RevokeKey(a, t, k) PROVE Starts(a) /\ Knows(a)
    BY <1>2, <1>5 DEF RevokeKey
  <1>6. ASSUME NEW k \in DOMAIN keys, Rotate(a, t, k) PROVE Starts(a) /\ Knows(a)
    BY <1>2, <1>6 DEF Rotate
  <1> QED
    BY <1>3, <1>4, <1>5, <1>6 DEF KeyRequest

\* Requests on rules.
LEMMA RuleStarts ==
  ASSUME RegistryInv, NEW a \in Admin, NEW t, UNCHANGED <<keyVars, tenantVars>>,
         RuleRequest(a, t)
  PROVE  Starts(a) /\ Knows(a)
  <1>0. "rule" \in Kinds
    BY DEF Kinds
  <1>1. ASSUME NEW i \in DOMAIN apis, NEW s \in Scope, NEW limit \in Limit,
               CreateOrUpdateRule(a, t, i, s, limit)
        PROVE  Starts(a) /\ Knows(a)
    <2> DEFINE new == [api |-> i, scope |-> s, limit |-> limit, active |-> TRUE]
               request == [kind |-> "rule", todo |-> <<"findRule", "saveRule">>,
                           id |-> 0, row |-> new]
    <2>1. new \in NewRule(DOMAIN apis)
      BY DEF NewRule
    <2>2. Begin(a, "rule", <<"findRule", "saveRule">>, [id |-> 0, row |-> new])
          /\ UNCHANGED <<apis, ruleVars>>
      BY <1>1 DEF CreateOrUpdateRule
    <2> HIDE DEF new
    <2>3. request = Over([kind |-> "rule", todo |-> <<"findRule", "saveRule">>],
                         [id |-> 0, row |-> new])
      BY DEF Over
    <2>4. request \in Calls
      BY <2>1 DEF Calls, RuleCalls, FindRuleCall
    <2>5. Starts(a) /\ call'[a] = request
      BY <1>0, <2>2, <2>3, <2>4, Starting DEF allRows
    <2> QED
      BY <2>5 DEF Knows
  <1>2. ASSUME NEW i \in DOMAIN apis, NEW r \in DOMAIN rules, DisableRule(a, t, i, r)
        PROVE  Starts(a) /\ Knows(a)
    <2> DEFINE request == [kind |-> "rule", todo |-> <<"updateRule">>, id |-> r]
    <2>1. Begin(a, "rule", <<"updateRule">>, [id |-> r]) /\ UNCHANGED <<apis, ruleVars>>
      BY <1>2 DEF DisableRule
    <2>2. request = Over([kind |-> "rule", todo |-> <<"updateRule">>], [id |-> r])
      BY DEF Over
    <2>3. request \in Calls
      BY DEF Calls, RuleCalls, UpdateRuleCall
    <2>4. Starts(a) /\ call'[a] = request
      BY <1>0, <2>1, <2>2, <2>3, Starting DEF allRows
    <2> QED
      BY <2>4 DEF Knows
  <1> QED
    BY <1>1, <1>2 DEF RuleRequest

\* Requests on tenants and users, logins and sign-ups.
LEMMA PeopleStarts ==
  ASSUME RegistryInv, NEW a \in Admin, NEW t \in DOMAIN tenants, UNCHANGED configVars,
         PeopleRequest(a, t) \/ PublicRequest(a)
  PROVE  Starts(a) /\ Knows(a)
  <1>0. /\ {"login", "bootstrap", "tenant", "user"} \subseteq Kinds
        /\ \A u \in DOMAIN users : users[u] \in UserRows(DOMAIN tenants)
        /\ \A i \in DOMAIN tenants : tenants[i] \in TenantRow
        /\ Admin \subseteq DOMAIN users
        /\ DOMAIN tenants = 1..Len(tenants) /\ Len(tenants) \in Nat
    BY ElementOfSeq DEF Kinds, RegistryInv, RowsTyped
  <1>1. CASE Login(a)
    <2> DEFINE request == [kind |-> "login", todo |-> <<"sign">>, role |-> users[a].role,
                           tenant |-> users[a].tenant]
    <2>1. request \in SignCall(DOMAIN tenants)
      BY <1>0 DEF SignCall, UserRows
    <2>2. request = Over([kind |-> "login", todo |-> <<"sign">>],
                         [role |-> users[a].role, tenant |-> users[a].tenant])
      BY DEF Over
    <2>3. request \in Calls
      BY <2>1 DEF Calls, PeopleCalls
    <2>4. Starts(a) /\ call'[a] = request
      BY <1>0, <1>1, <2>2, <2>3, Starting DEF allRows, Login, configVars
    <2> QED
      BY <2>4 DEF Knows
  <1>2. ASSUME NEW e \in Email, Bootstrap(a, e)
        PROVE  Starts(a) /\ Knows(a)
    <2> DEFINE request == [kind |-> "bootstrap", todo |-> <<"insertAdmin", "commit">>,
                           email |-> e]
    <2>1. request \in InsertAdminCall
      BY DEF InsertAdminCall
    <2>2. request = Over([kind |-> "bootstrap", todo |-> <<"insertAdmin", "commit">>],
                         [email |-> e])
      BY DEF Over
    <2>3. request \in Calls
      BY <2>1 DEF Calls, PeopleCalls
    <2>4. Starts(a) /\ call'[a] = request
      BY <1>0, <1>2, <2>2, <2>3, Starting DEF allRows, Bootstrap, configVars
    <2> QED
      BY <2>4 DEF Knows
  <1>3. ASSUME NEW entity \in SomeTenant, Begin(a, "tenant", <<"insertTenant">>,
                                                [entity |-> entity]),
               UNCHANGED tenantVars
        PROVE  Starts(a) /\ Knows(a)
    <2> DEFINE request == [kind |-> "tenant", todo |-> <<"insertTenant">>, entity |-> entity]
    <2>1. request \in InsertTenantCall
      BY DEF InsertTenantCall
    <2>2. request = Over([kind |-> "tenant", todo |-> <<"insertTenant">>],
                         [entity |-> entity])
      BY DEF Over
    <2>3. request \in Calls
      BY <2>1 DEF Calls, PeopleCalls
    <2>4. Starts(a) /\ call'[a] = request
      BY <1>0, <1>3, <2>2, <2>3, Starting DEF allRows, configVars
    <2> QED
      BY <2>4 DEF Knows
  <1>4. ASSUME NEW id \in 1..Len(tenants) + 1, NEW read \in TenantRow,
               NEW entity \in SomeTenant,
               Begin(a, "tenant", <<"saveTenant">>,
                     [id |-> id, read |-> read, entity |-> entity]),
               UNCHANGED tenantVars
        PROVE  Starts(a) /\ Knows(a)
    <2> DEFINE request == [kind |-> "tenant", todo |-> <<"saveTenant">>, id |-> id,
                           read |-> read, entity |-> entity]
    <2>1. request \in SaveTenantCall
      <3>1. id \in Nat
        BY <1>0
      <3> QED
        BY <3>1 DEF SaveTenantCall
    <2>2. request = Over([kind |-> "tenant", todo |-> <<"saveTenant">>],
                         [id |-> id, read |-> read, entity |-> entity])
      BY DEF Over
    <2>3. request \in Calls
      BY <2>1 DEF Calls, PeopleCalls
    <2>4. Starts(a) /\ call'[a] = request
      BY <1>0, <1>4, <2>2, <2>3, Starting DEF allRows, configVars
    <2> QED
      BY <2>4 DEF Knows
  <1>5. ASSUME NEW entity, Over(entity, NewTenant) \in TenantRow,
               DOMAIN entity \subseteq {"status", "killSwitch"},
               entity = [c \in DOMAIN entity |-> entity[c]]
        PROVE  entity \in SomeTenant
    <2> DEFINE new == Over(entity, NewTenant)
    <2>1. new.status \in {"active", "suspended"} /\ new.killSwitch \in BOOLEAN
      BY <1>5 DEF TenantRow
    <2>2. \A c \in DOMAIN entity : entity[c] = new[c]
      BY DEF Over
    <2> HIDE DEF new
    <2>3. \A c \in DOMAIN entity : entity[c] \in {"active", "suspended"} \cup BOOLEAN
      BY <1>5, <2>1, <2>2
    <2>4. entity \in [DOMAIN entity -> {"active", "suspended"} \cup BOOLEAN]
      BY <1>5, <2>3
    <2> QED
      BY <1>5, <2>4 DEF SomeTenant, SomeColumns
  <1>6. ASSUME NEW entity \in TenantRow
        PROVE  entity \in SomeTenant
    <2>1. Over(entity, NewTenant) = entity /\ DOMAIN entity = {"status", "killSwitch"}
          /\ entity = [c \in DOMAIN entity |-> entity[c]]
      BY DEF Over, NewTenant, TenantRow
    <2> QED
      BY <1>5, <2>1
  <1>7. ASSUME NEW id, NEW entity, Over(entity, NewTenant) \in TenantRow
        PROVE  TenantAt(id, entity) \in TenantRow
    BY <1>0, <1>7 DEF TenantAt
  <1>8. ASSUME NEW body \in TenantBody, CreateTenant(a, body)
        PROVE  Starts(a) /\ Knows(a)
    <2> DEFINE id == Target(body, Len(tenants) + 1)
               entity == Columns(body)
    <2>1. DOMAIN entity \subseteq {"status", "killSwitch"}
          /\ entity = [c \in DOMAIN entity |-> entity[c]]
      BY DEF Columns, NewTenant
    <2>2. /\ id \in 1..Len(tenants) + 1 /\ Over(entity, NewTenant) \in TenantRow
          /\ \/ Begin(a, "tenant", <<"saveTenant">>,
                      [id |-> id, read |-> TenantAt(id, entity), entity |-> entity])
             \/ Begin(a, "tenant", <<"insertTenant">>, [entity |-> entity])
          /\ UNCHANGED tenantVars
      BY <1>8 DEF CreateTenant
    <2> HIDE DEF id, entity
    <2>3. entity \in SomeTenant /\ TenantAt(id, entity) \in TenantRow
      BY <1>5, <1>7, <2>1, <2>2
    <2> QED
      BY <1>3, <1>4, <2>2, <2>3
  <1>9. ASSUME NEW i \in DOMAIN tenants, NEW body \in TenantBody, UpdateTenant(a, i, body)
        PROVE  Starts(a) /\ Knows(a)
    <2> DEFINE id == Target(body, i)
               entity == Assigned(body, tenants[i])
    <2>1. /\ id \in 1..Len(tenants) + 1 /\ entity \in TenantRow
          /\ Begin(a, "tenant", <<"saveTenant">>,
                   [id |-> id, read |-> TenantAt(id, entity), entity |-> entity])
          /\ UNCHANGED tenantVars
      BY <1>9 DEF UpdateTenant
    <2> HIDE DEF id, entity
    <2>2. entity \in SomeTenant /\ Over(entity, NewTenant) \in TenantRow
      BY <1>6, <2>1 DEF SomeTenant
    <2>3. TenantAt(id, entity) \in TenantRow
      BY <1>7, <2>2
    <2> QED
      BY <1>4, <2>1, <2>2, <2>3
  <1>10. ASSUME NEW e \in Email, NEW role \in Role, CreateUser(a, t, e, role)
         PROVE  Starts(a) /\ Knows(a)
    <2> DEFINE request == [kind |-> "user", todo |-> <<"insertUser">>, email |-> e,
                           role |-> role, tenant |-> t]
    <2>1. request \in InsertUserCall(DOMAIN tenants)
      BY DEF InsertUserCall
    <2>2. request = Over([kind |-> "user", todo |-> <<"insertUser">>],
                         [email |-> e, role |-> role, tenant |-> t])
      BY DEF Over
    <2>3. request \in Calls
      BY <2>1 DEF Calls, PeopleCalls
    <2>4. Starts(a) /\ call'[a] = request
      BY <1>0, <1>10, <2>2, <2>3, Starting DEF allRows, CreateUser, configVars
    <2> QED
      BY <2>4 DEF Knows
  <1>11. ASSUME NEW u \in DOMAIN users, NEW body \in UserBody, UpdateUser(a, t, u, body)
         PROVE  Starts(a) /\ Knows(a)
    <2> DEFINE id == Target(body, u)
               entity == Assigned(body, users[u])
               read == IF id \in DOMAIN users THEN users[id] ELSE entity
               request == [kind |-> "user", todo |-> <<"saveUser">>, id |-> id,
                           read |-> read, entity |-> entity]
    <2>1. /\ id \in UserId /\ entity \in UserRows(DOMAIN tenants)
          /\ Begin(a, "user", <<"saveUser">>,
                   [id |-> id, entity |-> entity, read |-> read])
          /\ UNCHANGED tenantVars
      BY <1>11, RowSets DEF UpdateUser
    <2>2. read \in UserRows(DOMAIN tenants)
      BY <1>0, <2>1
    <2> HIDE DEF id, entity, read
    <2>3. request \in SaveUserCall(DOMAIN tenants)
      BY <2>1, <2>2 DEF SaveUserCall
    <2>4. request = Over([kind |-> "user", todo |-> <<"saveUser">>],
                         [id |-> id, entity |-> entity, read |-> read])
      BY DEF Over
    <2>5. request \in Calls
      BY <2>3 DEF Calls, PeopleCalls
    <2>6. Starts(a) /\ call'[a] = request
      BY <1>0, <2>1, <2>4, <2>5, Starting DEF allRows, configVars
    <2> QED
      BY <2>6 DEF Knows
  <1> QED
    BY <1>1, <1>2, <1>8, <1>9, <1>10, <1>11 DEF PeopleRequest, PublicRequest, SignUp

(***************************************************************************)
(* A MySQL call returns: the request ends, or goes on to its last call.    *)
(***************************************************************************)
LastStep(a) ==
    \/ InsertApi(a) \/ SaveApi(a) \/ InsertKey(a) \/ SaveRule(a) \/ UpdateRule(a)
    \/ Sign(a) \/ InsertTenant(a) \/ SaveTenant(a) \/ Commit(a) \/ InsertUser(a)
    \/ SaveUser(a)

GoesOnTo(a, step) == call' = [call EXCEPT ![a].todo = <<step>>]

\* The last call of a request ends it.
LEMMA Last ==
  ASSUME RegistryInv, NEW a \in Admin, LastStep(a)
  PROVE  Done(a)
  <1>1. /\ call[a] \in InsertApiCall(DOMAIN tenants) => call[a].todo = <<"insertApi">>
        /\ call[a] \in SaveApiCall(DOMAIN tenants) => call[a].todo = <<"saveApi">>
        /\ call[a] \in InsertKeyCall(DOMAIN apis, DOMAIN keys) =>
             call[a].todo = <<"insertKey">>
    BY DEF InsertApiCall, SaveApiCall, InsertKeyCall
  <1>2. /\ call[a] \in SaveRuleCall(DOMAIN apis, DOMAIN rules) =>
             call[a].todo = <<"saveRule">>
        /\ call[a] \in UpdateRuleCall(DOMAIN rules) => call[a].todo = <<"updateRule">>
        /\ call[a] \in SignCall(DOMAIN tenants) => call[a].todo = <<"sign">>
    BY DEF SaveRuleCall, UpdateRuleCall, SignCall
  <1>3. /\ call[a] \in InsertTenantCall => call[a].todo = <<"insertTenant">>
        /\ call[a] \in InsertUserCall(DOMAIN tenants) => call[a].todo = <<"insertUser">>
        /\ call[a] \in CommitCall => call[a].todo = <<"commit">>
    BY DEF InsertTenantCall, InsertUserCall, CommitCall
  <1>4. /\ call[a] \in SaveTenantCall => call[a].todo = <<"saveTenant">>
        /\ call[a] \in SaveUserCall(DOMAIN tenants) => call[a].todo = <<"saveUser">>
    BY DEF SaveTenantCall, SaveUserCall
  <1>5. Proceed(a)
    BY DEF LastStep, InsertApi, SaveApi, InsertKey, SaveRule, UpdateRule, Sign,
           InsertTenant, SaveTenant, Commit, InsertUser, SaveUser
  <1>6. \E s : call[a].todo = <<s>>
    BY <1>1, <1>2, <1>3, <1>4, DueTells DEF LastStep, InsertApi, SaveApi, InsertKey, SaveRule,
           UpdateRule, Sign, InsertTenant, SaveTenant, Commit, InsertUser, SaveUser
  <1> QED
    BY <1>5, <1>6, Proceeding DEF RegistryInv, Done

\* The first of two calls leaves the second one.
LEMMA First ==
  ASSUME RegistryInv, NEW a \in Admin
  PROVE  /\ FindDuplicate(a) =>
              \/ Done(a)
              \/ /\ GoesOnTo(a, "saveApi") /\ call'[a] \in SaveApiCall(DOMAIN tenants)
                 /\ call[a] \in FindDuplicateCall(DOMAIN tenants)
                 /\ \/ Named(call[a].tenant, call[a].entity.name) \subseteq {call[a].api}
                    \/ call[a].api \in Named(call[a].tenant, call[a].entity.name)
         /\ SaveKey(a) =>
              \/ Done(a) /\ call[a].op = "revoke"
              \/ /\ GoesOnTo(a, "insertKey") /\ call[a].op = "rotate"
                 /\ call'[a] \in InsertKeyCall(DOMAIN apis, DOMAIN keys)
         /\ UpdateKeys(a) => /\ GoesOnTo(a, "insertKey")
                             /\ call'[a] \in InsertKeyCall(DOMAIN apis, DOMAIN keys)
         /\ InsertAdmin(a) => \/ Done(a)
                              \/ GoesOnTo(a, "commit") /\ call'[a] \in CommitCall
  <1>0. call \in [Admin -> Calls]
    BY DEF RegistryInv
  <1>1. ASSUME FindDuplicate(a), ~Done(a)
        PROVE  /\ GoesOnTo(a, "saveApi") /\ call'[a] \in SaveApiCall(DOMAIN tenants)
               /\ call[a] \in FindDuplicateCall(DOMAIN tenants)
               /\ \/ Named(call[a].tenant, call[a].entity.name) \subseteq {call[a].api}
                  \/ call[a].api \in Named(call[a].tenant, call[a].entity.name)
    <2>1. call[a] \in FindDuplicateCall(DOMAIN tenants)
      BY <1>1, DueTells DEF FindDuplicate
    <2>2. Proceed(a) /\ \/ Named(call[a].tenant, call[a].entity.name) \subseteq {call[a].api}
                        \/ call[a].api \in Named(call[a].tenant, call[a].entity.name)
      BY <1>1 DEF FindDuplicate
    <2>3. call[a].todo = <<"findDuplicate", "saveApi">>
      BY <2>1 DEF FindDuplicateCall
    <2>4. GoesOnTo(a, "saveApi")
      BY <1>0, <2>2, <2>3, Proceeding DEF GoesOnTo
    <2>5. call'[a] \in SaveApiCall(DOMAIN tenants)
      BY <1>0, <2>1, <2>4 DEF GoesOnTo, FindDuplicateCall, SaveApiCall
    <2> QED
      BY <2>1, <2>2, <2>4, <2>5
  <1>2. ASSUME SaveKey(a)
        PROVE  \/ Done(a) /\ call[a].op = "revoke"
               \/ /\ GoesOnTo(a, "insertKey") /\ call[a].op = "rotate"
                  /\ call'[a] \in InsertKeyCall(DOMAIN apis, DOMAIN keys)
    <2>1. call[a] \in SaveKeyCall(DOMAIN apis, DOMAIN keys) /\ Proceed(a)
      BY <1>2, DueTells DEF SaveKey
    <2>2. CASE call[a].todo = <<"saveKey">> /\ call[a].op = "revoke"
      BY <1>0, <2>1, <2>2, Proceeding DEF Done
    <2>3. CASE call[a] \in [kind : {"key"}, todo : {<<"saveKey", "insertKey">>},
                            op : {"rotate"}, api : DOMAIN apis, key : DOMAIN keys]
      <3>1. call[a].todo = <<"saveKey", "insertKey">> /\ call[a].op = "rotate"
        BY <2>3
      <3>2. GoesOnTo(a, "insertKey")
        BY <1>0, <2>1, <3>1, Proceeding DEF GoesOnTo
      <3>3. call'[a] \in InsertKeyCall(DOMAIN apis, DOMAIN keys)
        BY <1>0, <2>3, <3>2 DEF GoesOnTo, InsertKeyCall
      <3> QED
        BY <3>1, <3>2, <3>3
    <2> QED
      BY <2>1, <2>2, <2>3 DEF SaveKeyCall
  <1>3. ASSUME UpdateKeys(a)
        PROVE  /\ GoesOnTo(a, "insertKey")
               /\ call'[a] \in InsertKeyCall(DOMAIN apis, DOMAIN keys)
    <2>1. call[a] \in UpdateKeysCall(DOMAIN apis) /\ Proceed(a)
      BY <1>3, DueTells DEF UpdateKeys
    <2>2. call[a].todo = <<"updateKeys", "insertKey">>
      BY <2>1 DEF UpdateKeysCall
    <2>3. GoesOnTo(a, "insertKey")
      BY <1>0, <2>1, <2>2, Proceeding DEF GoesOnTo
    <2> QED
      BY <1>0, <2>1, <2>3 DEF GoesOnTo, UpdateKeysCall, InsertKeyCall
  <1>4. ASSUME InsertAdmin(a), ~Done(a)
        PROVE  GoesOnTo(a, "commit") /\ call'[a] \in CommitCall
    <2>1. call[a] \in InsertAdminCall /\ Proceed(a)
      BY <1>4, DueTells DEF InsertAdmin
    <2>2. call[a].todo = <<"insertAdmin", "commit">>
      BY <2>1 DEF InsertAdminCall
    <2>3. GoesOnTo(a, "commit")
      BY <1>0, <2>1, <2>2, Proceeding DEF GoesOnTo
    <2> QED
      BY <1>0, <2>1, <2>3 DEF GoesOnTo, InsertAdminCall, CommitCall
  <1> QED
    BY <1>1, <1>2, <1>3, <1>4

\* A request on a rule has found it, or not.
LEMMA Finding ==
  ASSUME RegistryInv, NEW a \in Admin, FindRule(a)
  PROVE  \E r \in {0} \cup DOMAIN rules :
           /\ call' = [call EXCEPT ![a].todo = <<"saveRule">>, ![a].id = r]
           /\ call'[a] \in SaveRuleCall(DOMAIN apis, DOMAIN rules)
           /\ call'[a].row = call[a].row /\ call'[a].id = r
           /\ r # 0 => Same(rules[r], call[a].row)
           /\ r = 0 => \A q \in DOMAIN rules : ~Same(rules[q], call[a].row)
  <1>1. call[a] \in FindRuleCall(DOMAIN apis) /\ call \in [Admin -> Calls]
    BY DueTells DEF FindRule, RegistryInv
  <1>2. call[a].todo = <<"findRule", "saveRule">>
    BY <1>1 DEF FindRuleCall
  <1> DEFINE same == {q \in DOMAIN rules : Same(rules[q], call[a].row)}
  <1>3. PICK r \in (IF same = {} THEN {0} ELSE same) :
          call' = [call EXCEPT ![a].todo = Tail(@), ![a].id = r]
    BY DEF FindRule
  <1>4. call' = [call EXCEPT ![a].todo = <<"saveRule">>, ![a].id = r]
    BY <1>2, <1>3
  <1>5. r \in {0} \cup DOMAIN rules
    OBVIOUS
  <1>6. call'[a] = [call[a] EXCEPT !.todo = <<"saveRule">>, !.id = r]
    BY <1>1, <1>4
  <1>7. call'[a] \in SaveRuleCall(DOMAIN apis, DOMAIN rules) /\ call'[a].row = call[a].row
        /\ call'[a].id = r
    BY <1>1, <1>5, <1>6 DEF FindRuleCall, SaveRuleCall
  <1>8. DOMAIN rules = 1..Len(rules) /\ Len(rules) \in Nat
    BY DEF RegistryInv, RowsTyped
  <1>9. r # 0 => Same(rules[r], call[a].row)
    OBVIOUS
  <1>10. r = 0 => \A q \in DOMAIN rules : ~Same(rules[q], call[a].row)
    BY <1>8
  <1> QED
    BY <1>4, <1>5, <1>7, <1>9, <1>10

(***************************************************************************)
(* What save writes is a row.                                              *)
(***************************************************************************)
\* Of an API.
LEMMA SavedApi ==
  ASSUME NEW a, NEW T, call[a].entity \in ApiRows(T), NEW row \in ApiRows(T),
         NEW saved \in Saved(a, row)
  PROVE  saved \in ApiRows(T)
  <1> DEFINE entity == Over(call[a].entity, row)
             differs == {c \in DOMAIN call[a].entity : entity[c] # call[a].read[c]}
             kept == [c \in DOMAIN row |-> IF c \in differs THEN entity[c] ELSE row[c]]
  <1>1. entity \in ApiRows(T)
    BY DEF Over, ApiRows
  <1>2. saved = entity \/ saved = kept
    BY DEF Saved
  <1> HIDE DEF entity, differs
  <1>3. kept \in ApiRows(T)
    BY <1>1 DEF ApiRows
  <1> QED
    BY <1>1, <1>2, <1>3

\* Of a tenant.
LEMMA SavedTenant ==
  ASSUME NEW a, call[a].entity \in SomeTenant, NEW row \in TenantRow,
         NEW saved \in Saved(a, row)
  PROVE  saved \in TenantRow
  <1> DEFINE entity == Over(call[a].entity, row)
             differs == {c \in DOMAIN call[a].entity : entity[c] # call[a].read[c]}
             kept == [c \in DOMAIN row |-> IF c \in differs THEN entity[c] ELSE row[c]]
  <1>1. entity \in TenantRow
    <2> DEFINE e == call[a].entity
               new == Over(e, NewTenant)
    <2>1. DOMAIN e \subseteq {"status", "killSwitch"} /\ new \in TenantRow
      BY DEF SomeTenant, SomeColumns
    <2>2. \A c \in DOMAIN e : new[c] = e[c]
      BY DEF Over
    <2>3. new.status \in {"active", "suspended"} /\ new.killSwitch \in BOOLEAN
      BY <2>1 DEF TenantRow
    <2> HIDE DEF new
    <2>4. /\ "status" \in DOMAIN e => e["status"] \in {"active", "suspended"}
          /\ "killSwitch" \in DOMAIN e => e["killSwitch"] \in BOOLEAN
      BY <2>2, <2>3
    <2>5. DOMAIN row = {"status", "killSwitch"} /\ row.status \in {"active", "suspended"}
          /\ row.killSwitch \in BOOLEAN
      BY DEF TenantRow
    <2>6. entity = [c \in DOMAIN e \cup DOMAIN row |-> IF c \in DOMAIN e THEN e[c] ELSE row[c]]
      BY DEF Over
    <2> HIDE DEF e, entity
    <2>7. DOMAIN e \cup DOMAIN row = {"status", "killSwitch"}
      BY <2>1, <2>5
    <2>8. entity = [c \in {"status", "killSwitch"} |-> IF c \in DOMAIN e THEN e[c] ELSE row[c]]
      BY <2>6, <2>7
    <2>9. entity = [status |-> entity["status"], killSwitch |-> entity["killSwitch"]]
      BY <2>8
    <2>10. entity["status"] \in {"active", "suspended"} /\ entity["killSwitch"] \in BOOLEAN
      BY <2>4, <2>5, <2>8
    <2> QED
      BY <2>9, <2>10 DEF TenantRow
  <1>2. saved = entity \/ saved = kept
    BY DEF Saved
  <1> HIDE DEF entity, differs
  <1>3. kept \in TenantRow
    BY <1>1 DEF TenantRow
  <1> QED
    BY <1>1, <1>2, <1>3

\* Of a user.
LEMMA SavedUser ==
  ASSUME NEW a, NEW T, call[a].entity \in UserRows(T), NEW row \in UserRows(T),
         NEW saved \in Saved(a, row)
  PROVE  saved \in UserRows(T)
  <1> DEFINE entity == Over(call[a].entity, row)
             differs == {c \in DOMAIN call[a].entity : entity[c] # call[a].read[c]}
             kept == [c \in DOMAIN row |-> IF c \in differs THEN entity[c] ELSE row[c]]
  <1>1. entity \in UserRows(T)
    BY DEF Over, UserRows
  <1>2. saved = entity \/ saved = kept
    BY DEF Saved
  <1> HIDE DEF entity, differs
  <1>3. kept \in UserRows(T)
    BY <1>1 DEF UserRows
  <1> QED
    BY <1>1, <1>2, <1>3

(***************************************************************************)
(* Types stay.                                                             *)
(***************************************************************************)
Grow ==
    /\ DOMAIN apis \subseteq DOMAIN apis' /\ DOMAIN keys \subseteq DOMAIN keys'
    /\ DOMAIN rules \subseteq DOMAIN rules' /\ DOMAIN tenants \subseteq DOMAIN tenants'
    /\ DOMAIN users \subseteq DOMAIN users'

\* A row is appended.
LEMMA Appending ==
  ASSUME NEW S, NEW s \in Seq(S), NEW x \in S
  PROVE  /\ Append(s, x) \in Seq(S) /\ DOMAIN s \subseteq DOMAIN Append(s, x)
         /\ DOMAIN s = 1..Len(s) /\ Len(s) \in Nat
         /\ DOMAIN Append(s, x) = DOMAIN s \cup {Len(s) + 1}
         /\ Append(s, x)[Len(s) + 1] = x
         /\ \A i \in DOMAIN s : Append(s, x)[i] = s[i]
  BY AppendProperties

\* A row is replaced.
LEMMA Replacing ==
  ASSUME NEW S, NEW s \in Seq(S), NEW i \in DOMAIN s, NEW x \in S
  PROVE  /\ [s EXCEPT ![i] = x] \in Seq(S) /\ DOMAIN [s EXCEPT ![i] = x] = DOMAIN s
         /\ \A j \in DOMAIN s : [s EXCEPT ![i] = x][j] = IF j = i THEN x ELSE s[j]
  BY ExceptSeq

\* Rows that refer to APIs and tenants still do when there are more.
LEMMA References ==
  ASSUME RowsTyped, Grow
  PROVE  /\ keys \in Seq(KeyRow(DOMAIN apis')) /\ rules \in Seq(RuleRow(DOMAIN apis'))
         /\ apis \in Seq(ApiRows(DOMAIN tenants'))
         /\ users \in [DOMAIN users -> UserRows(DOMAIN tenants')]
         /\ tokens \subseteq Token(DOMAIN tenants')
  <1>1. /\ KeyRow(DOMAIN apis) \subseteq KeyRow(DOMAIN apis')
        /\ RuleRow(DOMAIN apis) \subseteq RuleRow(DOMAIN apis')
        /\ ApiRows(DOMAIN tenants) \subseteq ApiRows(DOMAIN tenants')
        /\ UserRows(DOMAIN tenants) \subseteq UserRows(DOMAIN tenants')
        /\ Token(DOMAIN tenants) \subseteq Token(DOMAIN tenants')
    BY DEF Grow, KeyRow, RuleRow, ApiRows, UserRows, Token
  <1> QED
    BY <1>1, SeqMonotonic DEF RowsTyped

\* One request goes on, begins or ends.
LEMMA Stays ==
  ASSUME RegistryInv, NEW a \in Admin, RowsTyped', Grow,
         call' = [call EXCEPT ![a] = call'[a]], call'[a] \in Calls',
         marks' \subseteq Kinds \cup {"unchecked"},
         calls' \in 0..MaxCalls, failures' \in 0..MaxFailures
  PROVE  RegistryInv'
  <1>1. Calls \subseteq Calls'
    BY CallsGrow DEF Grow
  <1> QED
    BY <1>1 DEF RegistryInv

\* A request ends, rows change.
LEMMA EndTyped ==
  ASSUME RegistryInv, NEW a \in Admin, RowsTyped', Grow, Done(a),
         marks' \subseteq marks \cup {"unchecked"}, calls' = calls,
         failures' \in 0..MaxFailures
  PROVE  RegistryInv'
  <1>1. call'[a] = Idle /\ call' = [call EXCEPT ![a] = call'[a]]
    BY DEF RegistryInv, Done
  <1>2. Idle \in Calls'
    BY DEF Calls
  <1>3. marks' \subseteq Kinds \cup {"unchecked"} /\ calls' \in 0..MaxCalls
    BY DEF RegistryInv
  <1> QED
    BY <1>1, <1>2, <1>3, Stays

\* A request goes on.
LEMMA GoesOnTyped ==
  ASSUME RegistryInv, NEW a \in Admin, RowsTyped', Grow, NEW step, GoesOnTo(a, step),
         call'[a] \in Calls', UNCHANGED <<marks, calls, failures>>
  PROVE  RegistryInv'
  <1>1. call' = [call EXCEPT ![a] = call'[a]]
    BY DEF RegistryInv, GoesOnTo
  <1> QED
    BY <1>1, Stays DEF RegistryInv

\* A request begins.
LEMMA StartTyped ==
  ASSUME RegistryInv, NEW a \in Admin, Starts(a)
  PROVE  RegistryInv'
  <1>1. UNCHANGED <<apis, keys, rules, tenants, users, clock, tokens>>
    BY DEF Starts, allRows, keyVars, ruleVars, tenantVars
  <1>2. RowsTyped' /\ Grow
    BY <1>1 DEF RegistryInv, RowsTyped, Grow
  <1>3. Calls' = Calls
    BY <1>1 DEF Calls
  <1>4. call'[a].kind \in Kinds
    <2>1. call'[a] \in ApiCalls(DOMAIN tenants) => call'[a].kind \in Kinds
      BY DEF Kinds, ApiCalls, InsertApiCall, FindDuplicateCall, SaveApiCall
    <2>2. call'[a] \in KeyCalls(DOMAIN apis, DOMAIN keys) => call'[a].kind \in Kinds
      BY DEF Kinds, KeyCalls, InsertKeyCall, SaveKeyCall, UpdateKeysCall
    <2>3. call'[a] \in RuleCalls(DOMAIN apis, DOMAIN rules) => call'[a].kind \in Kinds
      BY DEF Kinds, RuleCalls, FindRuleCall, SaveRuleCall, UpdateRuleCall
    <2>4. call'[a] \in PeopleCalls(DOMAIN tenants) => call'[a].kind \in Kinds
      BY DEF Kinds, PeopleCalls, SignCall, InsertTenantCall, InsertUserCall,
             InsertAdminCall, CommitCall, SaveTenantCall, SaveUserCall
    <2>5. call'[a] \in Calls /\ call'[a] # Idle
      BY DEF Starts, Idle
    <2> QED
      BY <2>1, <2>2, <2>3, <2>4, <2>5 DEF Calls
  <1>5. marks' \subseteq Kinds \cup {"unchecked"}
    BY <1>4 DEF Starts, RegistryInv
  <1> QED
    BY <1>2, <1>3, <1>5, Stays DEF Starts, RegistryInv

\* Requests on APIs.
LEMMA ApisTyped ==
  ASSUME RegistryInv, NEW a \in Admin, ApiStep(a), UNCHANGED <<keyVars, ruleVars, tenantVars>>
  PROVE  RegistryInv'
  <1>0. /\ UNCHANGED <<keys, rules, tenants, users, clock, tokens>> /\ RowsTyped
        /\ calls' = calls /\ failures' = failures /\ failures \in 0..MaxFailures
    BY DEF keyVars, ruleVars, tenantVars, ApiStep, InsertApi, FindDuplicate, SaveApi,
           RegistryInv
  <1> DEFINE R == ApiRows(DOMAIN tenants)
  <1>r. apis \in Seq(R)
    BY <1>0 DEF RowsTyped
  <1>1. ASSUME apis' \in Seq(R), DOMAIN apis \subseteq DOMAIN apis'
        PROVE  RowsTyped' /\ Grow
    <2>1. Grow
      BY <1>0, <1>1 DEF Grow
    <2> QED
      BY <1>0, <1>1, <2>1, References DEF RowsTyped
  <1>2. CASE InsertApi(a)
    <2>1. call[a].row \in R /\ apis' = Append(apis, call[a].row)
      BY <1>2, DueTells DEF InsertApi, InsertApiCall
    <2> HIDE DEF R
    <2>2. apis' \in Seq(R) /\ DOMAIN apis \subseteq DOMAIN apis'
      BY <1>r, <2>1, Appending
    <2>3. Done(a) /\ marks' = marks
      BY <1>2, Last DEF LastStep, InsertApi
    <2> QED
      BY <1>0, <1>1, <2>2, <2>3, EndTyped
  <1>3. CASE FindDuplicate(a)
    <2>1. UNCHANGED <<apis, marks>>
      BY <1>3 DEF FindDuplicate
    <2>2. RowsTyped' /\ Grow /\ Calls' = Calls
      BY <1>0, <1>1, <2>1 DEF RowsTyped, Calls
    <2>3. \/ Done(a)
          \/ GoesOnTo(a, "saveApi") /\ call'[a] \in SaveApiCall(DOMAIN tenants)
      BY <1>3, First
    <2>4. SaveApiCall(DOMAIN tenants) \subseteq Calls
      BY DEF Calls, ApiCalls
    <2> QED
      BY <1>0, <2>1, <2>2, <2>3, <2>4, EndTyped, GoesOnTyped
  <1>4. CASE SaveApi(a)
    <2>1. call[a] \in SaveApiCall(DOMAIN tenants)
      BY <1>4, DueTells DEF SaveApi
    <2>2. call[a].entity \in R
      BY <2>1 DEF SaveApiCall
    <2> DEFINE i == call[a].id
    <2>3. PICK row \in (IF i \in DOMAIN apis THEN Saved(a, apis[i]) ELSE {call[a].entity}) :
            apis' = IF i \in DOMAIN apis THEN [apis EXCEPT ![i] = row] ELSE Append(apis, row)
      BY <1>4 DEF SaveApi
    <2>4. row \in R
      <3>1. CASE i \in DOMAIN apis
        <4>1. apis[i] \in R
          BY <1>r, <3>1, ElementOfSeq
        <4> QED
          BY <2>2, <2>3, <3>1, <4>1, SavedApi
      <3>2. CASE i \notin DOMAIN apis
        BY <2>2, <2>3, <3>2
      <3> QED
        BY <3>1, <3>2
    <2> HIDE DEF R, i
    <2>5. apis' \in Seq(R) /\ DOMAIN apis \subseteq DOMAIN apis'
      BY <1>r, <2>3, <2>4, Replacing, Appending
    <2>6. Done(a) /\ marks' \subseteq marks \cup {"unchecked"}
      <3>1. Done(a)
        BY <1>4, Last DEF LastStep
      <3> QED
        BY <1>4, <3>1 DEF SaveApi
    <2> QED
      BY <1>0, <1>1, <2>5, <2>6, EndTyped
  <1> QED
    BY <1>2, <1>3, <1>4 DEF ApiStep

\* Requests on keys.
LEMMA KeysTyped ==
  ASSUME RegistryInv, NEW a \in Admin, KeyStep(a), UNCHANGED <<ruleVars, tenantVars>>
  PROVE  RegistryInv'
  <1>0. /\ UNCHANGED <<apis, rules, tenants, users, clock, tokens, marks, calls, failures>>
        /\ RowsTyped /\ failures \in 0..MaxFailures
    BY DEF ruleVars, tenantVars, KeyStep, SaveKey, UpdateKeys, InsertKey, RegistryInv
  <1> DEFINE R == KeyRow(DOMAIN apis)
  <1>1. ASSUME keys' \in Seq(R), DOMAIN keys \subseteq DOMAIN keys'
        PROVE  RowsTyped' /\ Grow
    BY <1>0, <1>1 DEF RowsTyped, Grow
  <1>2. InsertKeyCall(DOMAIN apis, DOMAIN keys) \subseteq Calls /\ keys \in Seq(R)
    BY <1>0 DEF Calls, KeyCalls, RowsTyped
  <1>3. CASE SaveKey(a)
    <2>1. call[a] \in SaveKeyCall(DOMAIN apis, DOMAIN keys)
      BY <1>3, DueTells DEF SaveKey
    <2>2. call[a].key \in DOMAIN keys
      BY <2>1 DEF SaveKeyCall
    <2> DEFINE row == [keys[call[a].key] EXCEPT !.active = FALSE]
    <2>3. keys' = [keys EXCEPT ![call[a].key] = row]
      BY <1>3 DEF SaveKey
    <2>4. row \in R
      <3>1. keys[call[a].key] \in R
        BY <1>2, <2>2, ElementOfSeq
      <3> QED
        BY <3>1 DEF KeyRow
    <2> HIDE DEF row, R
    <2>5. keys' \in Seq(R) /\ DOMAIN keys' = DOMAIN keys
      BY <1>2, <2>2, <2>3, <2>4, Replacing
    <2>6. RowsTyped' /\ Grow /\ Calls' = Calls
      BY <1>0, <1>1, <2>5 DEF Calls
    <2>7. \/ Done(a)
          \/ /\ GoesOnTo(a, "insertKey")
             /\ call'[a] \in InsertKeyCall(DOMAIN apis, DOMAIN keys)
      BY <1>3, First
    <2> QED
      BY <1>0, <1>2, <2>6, <2>7, EndTyped, GoesOnTyped
  <1>4. CASE UpdateKeys(a)
    <2> DEFINE active(k) == keys[k].active /\ k \notin Live(call[a].api)
               row(k) == [keys[k] EXCEPT !.active = active(k)]
    <2>1. keys' = [k \in DOMAIN keys |-> row(k)]
      BY <1>4 DEF UpdateKeys
    <2>2. \A k : active(k) \in BOOLEAN
      OBVIOUS
    <2> HIDE DEF active
    <2>3. \A k \in DOMAIN keys : keys[k] \in R
      BY <1>2, ElementOfSeq
    <2>4. \A k \in DOMAIN keys : row(k) \in R
      BY <2>2, <2>3 DEF KeyRow
    <2>5. DOMAIN keys = 1..Len(keys) /\ Len(keys) \in Nat
      BY <1>2
    <2> HIDE DEF row, R
    <2>6. keys' \in [1..Len(keys) -> R] /\ DOMAIN keys' = DOMAIN keys
      BY <2>1, <2>4, <2>5
    <2>7. keys' \in Seq(R)
      BY <2>5, <2>6
    <2>8. RowsTyped' /\ Grow /\ Calls' = Calls
      BY <1>0, <1>1, <2>6, <2>7 DEF Calls
    <2>9. GoesOnTo(a, "insertKey")
          /\ call'[a] \in InsertKeyCall(DOMAIN apis, DOMAIN keys)
      BY <1>4, First
    <2> QED
      BY <1>0, <1>2, <2>8, <2>9, GoesOnTyped
  <1>5. CASE InsertKey(a)
    <2> DEFINE new == [api |-> call[a].api, active |-> TRUE]
    <2>1. call[a].api \in DOMAIN apis /\ keys' = Append(keys, new)
      BY <1>5, DueTells DEF InsertKey, InsertKeyCall
    <2>2. new \in R
      BY <2>1 DEF KeyRow
    <2> HIDE DEF new, R
    <2>3. keys' \in Seq(R) /\ DOMAIN keys \subseteq DOMAIN keys'
      BY <1>2, <2>1, <2>2, Appending
    <2>4. Done(a)
      BY <1>5, Last DEF LastStep
    <2> QED
      BY <1>0, <1>1, <2>3, <2>4, EndTyped
  <1> QED
    BY <1>3, <1>4, <1>5 DEF KeyStep

\* Requests on rules.
LEMMA RulesTyped ==
  ASSUME RegistryInv, NEW a \in Admin, RuleStep(a), UNCHANGED <<keyVars, tenantVars>>
  PROVE  RegistryInv'
  <1>0. /\ UNCHANGED <<apis, keys, tenants, users, clock, tokens, marks, calls, failures>>
        /\ RowsTyped /\ failures \in 0..MaxFailures
    BY DEF keyVars, tenantVars, RuleStep, FindRule, SaveRule, UpdateRule, RegistryInv
  <1> DEFINE R == RuleRow(DOMAIN apis)
  <1>1. ASSUME rules' \in Seq(R), DOMAIN rules \subseteq DOMAIN rules'
        PROVE  RowsTyped' /\ Grow
    BY <1>0, <1>1 DEF RowsTyped, Grow
  <1>2. rules \in Seq(R) /\ DOMAIN rules = 1..Len(rules) /\ Len(rules) \in Nat
    BY <1>0 DEF RowsTyped
  <1>3. CASE FindRule(a)
    <2>1. rules' = rules
      BY <1>3 DEF FindRule, ruleVars
    <2>2. RowsTyped' /\ Grow /\ Calls' = Calls
      BY <1>0, <1>1, <1>2, <2>1 DEF Calls
    <2>3. /\ call' = [call EXCEPT ![a] = call'[a]]
          /\ call'[a] \in SaveRuleCall(DOMAIN apis, DOMAIN rules)
      BY <1>3, Finding DEF RegistryInv
    <2>4. call'[a] \in Calls
      BY <2>3 DEF Calls, RuleCalls
    <2> QED
      BY <1>0, <2>2, <2>3, <2>4, Stays DEF RegistryInv
  <1>4. CASE SaveRule(a)
    <2>1. call[a] \in SaveRuleCall(DOMAIN apis, DOMAIN rules)
      BY <1>4, DueTells DEF SaveRule
    <2>2. call[a].id \in {0} \cup DOMAIN rules /\ call[a].row \in NewRule(DOMAIN apis)
      BY <2>1 DEF SaveRuleCall
    <2>3. call[a].row \in R
      BY <2>2 DEF NewRule, RuleRow
    <2>4. rules' = IF call[a].id = 0 THEN Append(rules, call[a].row)
                   ELSE [rules EXCEPT ![call[a].id] = call[a].row]
      <3> DEFINE r == IF call[a].id = 0 THEN Len(rules) + 1 ELSE call[a].id
      <3>1. rules' = IF r > Len(rules) THEN Append(rules, call[a].row)
                     ELSE [rules EXCEPT ![r] = call[a].row]
        BY <1>4 DEF SaveRule
      <3>2. call[a].id = 0 => r > Len(rules)
        BY <1>2
      <3>3. call[a].id # 0 => r = call[a].id /\ ~(r > Len(rules))
        BY <1>2, <2>2
      <3> HIDE DEF r
      <3> QED
        BY <3>1, <3>2, <3>3
    <2> HIDE DEF R
    <2>5. rules' \in Seq(R) /\ DOMAIN rules \subseteq DOMAIN rules'
      BY <1>2, <2>2, <2>3, <2>4, Appending, Replacing
    <2>6. Done(a)
      BY <1>4, Last DEF LastStep
    <2> QED
      BY <1>0, <1>1, <2>5, <2>6, EndTyped
  <1>5. CASE UpdateRule(a)
    <2>1. call[a].id \in DOMAIN rules
      BY <1>5, DueTells DEF UpdateRule, UpdateRuleCall
    <2> DEFINE row == [rules[call[a].id] EXCEPT !.active = FALSE]
    <2>2. rules' = [rules EXCEPT ![call[a].id] = row]
      BY <1>5 DEF UpdateRule
    <2>3. row \in R
      <3>1. rules[call[a].id] \in R
        BY <1>2, <2>1, ElementOfSeq
      <3> QED
        BY <3>1 DEF RuleRow
    <2> HIDE DEF row, R
    <2>4. rules' \in Seq(R) /\ DOMAIN rules \subseteq DOMAIN rules'
      BY <1>2, <2>1, <2>2, <2>3, Replacing
    <2>5. Done(a)
      BY <1>5, Last DEF LastStep
    <2> QED
      BY <1>0, <1>1, <2>4, <2>5, EndTyped
  <1> QED
    BY <1>3, <1>4, <1>5 DEF RuleStep

\* A user is added, or replaced.
LEMMA Adding ==
  ASSUME NEW T, users \in [DOMAIN users -> UserRows(T)], NEW added,
         added \in [DOMAIN added -> UserRows(T)],
         users' = Over(users, added) \/ users' = Over(added, users)
  PROVE  users' \in [DOMAIN users' -> UserRows(T)] /\ DOMAIN users \subseteq DOMAIN users'
  <1>1. /\ \A x \in DOMAIN added : added[x] \in UserRows(T)
        /\ \A x \in DOMAIN users : users[x] \in UserRows(T)
    OBVIOUS
  <1>2. CASE users' = Over(users, added)
    BY <1>1, <1>2 DEF Over
  <1>3. CASE users' = Over(added, users)
    BY <1>1, <1>3 DEF Over
  <1> QED
    BY <1>2, <1>3

\* AddUser adds one.
LEMMA NewUser ==
  ASSUME NEW T, users \in [DOMAIN users -> UserRows(T)], NEW e \in Email, NEW t \in T,
         NEW role \in Role, AddUser(e, t, role)
  PROVE  users' \in [DOMAIN users' -> UserRows(T)] /\ DOMAIN users \subseteq DOMAIN users'
  <1> DEFINE row == [tenant |-> t, email |-> e, role |-> role, status |-> "active"]
  <1>1. row \in UserRows(T)
    BY DEF UserRows, Status
  <1>2. PICK id : users' = Over(users, [new \in {id} |-> row])
    BY DEF AddUser
  <1> HIDE DEF row
  <1>3. [new \in {id} |-> row] \in [DOMAIN [new \in {id} |-> row] -> UserRows(T)]
    BY <1>1
  <1> QED
    BY <1>2, <1>3, Adding

\* Requests on tenants and users, logins and sign-ups.
LEMMA PeopleTyped ==
  ASSUME RegistryInv, NEW a \in Admin, PeopleStep(a), UNCHANGED configVars
  PROVE  RegistryInv'
  <1>0. UNCHANGED <<apis, keys, rules>> /\ RowsTyped /\ failures \in 0..MaxFailures
    BY DEF configVars, keyVars, ruleVars, RegistryInv
  <1>1. UNCHANGED <<marks, calls, failures, clock>>
    BY DEF PeopleStep, Sign, InsertTenant, SaveTenant, InsertAdmin, Commit, InsertUser,
           SaveUser, tenantVars
  <1> DEFINE T == DOMAIN tenants
  <1>2. ASSUME tenants' \in Seq(TenantRow), T \subseteq DOMAIN tenants',
               users' \in [DOMAIN users' -> UserRows(DOMAIN tenants')],
               DOMAIN users \subseteq DOMAIN users',
               tokens' \subseteq Token(DOMAIN tenants')
        PROVE  RowsTyped' /\ Grow
    <2>1. Grow
      BY <1>0, <1>2 DEF Grow
    <2> QED
      BY <1>0, <1>1, <1>2, <2>1, References DEF RowsTyped
  <1>3. /\ tenants \in Seq(TenantRow) /\ users \in [DOMAIN users -> UserRows(T)]
        /\ tokens \subseteq Token(T)
    BY <1>0 DEF RowsTyped
  <1>4. ASSUME LastStep(a), RowsTyped', Grow PROVE RegistryInv'
    BY <1>0, <1>1, <1>4, Last, EndTyped
  <1>5. CASE Sign(a)
    <2>1. call[a].role \in Role /\ call[a].tenant \in T
      BY <1>5, DueTells DEF Sign, SignCall
    <2>2. clock + TokenLife \in Nat
      BY <1>0, TenantsAssumption DEF RowsTyped
    <2>3. tokens' \subseteq Token(T)
      BY <1>3, <1>5, <2>1, <2>2 DEF Sign, Token
    <2>4. tenants' = tenants /\ users' = users
      BY <1>5 DEF Sign
    <2> QED
      BY <1>2, <1>3, <1>4, <1>5, <2>3, <2>4 DEF LastStep
  <1>6. ASSUME NEW row \in TenantRow, tenants' = Append(tenants, row),
               UNCHANGED <<users, tokens>>
        PROVE  RowsTyped' /\ Grow
    <2>1. tenants' \in Seq(TenantRow) /\ DOMAIN tenants \subseteq DOMAIN tenants'
      BY <1>3, <1>6, Appending
    <2>2. UserRows(DOMAIN tenants) \subseteq UserRows(DOMAIN tenants')
          /\ Token(DOMAIN tenants) \subseteq Token(DOMAIN tenants')
      BY <2>1 DEF UserRows, Token
    <2> QED
      BY <1>2, <1>3, <1>6, <2>1, <2>2
  <1>7. CASE InsertTenant(a)
    <2>1. call[a].entity \in SomeTenant
      BY <1>7, DueTells DEF InsertTenant, InsertTenantCall
    <2>2. Over(call[a].entity, NewTenant) \in TenantRow
      BY <2>1 DEF SomeTenant
    <2>3. tenants' = Append(tenants, Over(call[a].entity, NewTenant))
          /\ UNCHANGED <<users, tokens>>
      BY <1>7 DEF InsertTenant
    <2>4. RowsTyped' /\ Grow
      BY <1>6, <2>2, <2>3
    <2> QED
      BY <1>4, <1>7, <2>4 DEF LastStep
  <1>8. CASE SaveTenant(a)
    <2>1. call[a].entity \in SomeTenant /\ UNCHANGED <<users, tokens>>
      BY <1>8, DueTells DEF SaveTenant, SaveTenantCall
    <2>2. RowsTyped' /\ Grow
      <3>1. CASE call[a].id \in DOMAIN tenants
        <4>1. tenants[call[a].id] \in TenantRow
          BY <1>3, <3>1, ElementOfSeq
        <4>2. PICK row \in Saved(a, tenants[call[a].id]) :
                tenants' = [tenants EXCEPT ![call[a].id] = row]
          BY <1>8, <3>1 DEF SaveTenant
        <4>3. row \in TenantRow
          BY <2>1, <4>1, SavedTenant
        <4>4. tenants' \in Seq(TenantRow) /\ DOMAIN tenants' = DOMAIN tenants
          BY <1>3, <3>1, <4>2, <4>3, Replacing
        <4> QED
          BY <1>2, <1>3, <2>1, <4>4
      <3>2. CASE call[a].id \notin DOMAIN tenants
        <4>1. tenants' = Append(tenants, Over(call[a].entity, NewTenant))
          BY <1>8, <3>2 DEF SaveTenant
        <4>2. Over(call[a].entity, NewTenant) \in TenantRow
          BY <2>1 DEF SomeTenant
        <4> QED
          BY <1>6, <2>1, <4>1, <4>2
      <3> QED
        BY <3>1, <3>2
    <2> QED
      BY <1>4, <1>8, <2>2 DEF LastStep
  <1>9. CASE InsertAdmin(a)
    <2>1. UNCHANGED <<tenants, users, tokens>>
      BY <1>9 DEF InsertAdmin, tenantVars
    <2>2. RowsTyped' /\ Grow /\ Calls' = Calls
      BY <1>0, <1>2, <1>3, <2>1 DEF Calls
    <2>3. Done(a) \/ (GoesOnTo(a, "commit") /\ call'[a] \in CommitCall)
      BY <1>9, First
    <2>4. CommitCall \subseteq Calls
      BY DEF Calls, PeopleCalls
    <2> QED
      BY <1>0, <1>1, <2>2, <2>3, <2>4, EndTyped, GoesOnTyped
  <1>10. CASE Commit(a)
    <2>1. NewTenant \in TenantRow /\ tenants' = Append(tenants, NewTenant)
      BY <1>10 DEF NewTenant, TenantRow, Commit
    <2>2. /\ tenants' \in Seq(TenantRow) /\ DOMAIN tenants \subseteq DOMAIN tenants'
          /\ Len(tenants) + 1 \in DOMAIN tenants'
      BY <1>3, <2>1, Appending
    <2>3. UserRows(DOMAIN tenants) \subseteq UserRows(DOMAIN tenants')
          /\ Token(DOMAIN tenants) \subseteq Token(DOMAIN tenants')
      BY <2>2 DEF UserRows, Token
    <2>4. call[a].email \in Email /\ "admin" \in Role
      BY <1>10, DueTells DEF Commit, CommitCall, Role
    <2>5. AddUser(call[a].email, Len(tenants) + 1, "admin") /\ tokens' = tokens
      BY <1>10 DEF Commit
    <2>6. /\ users' \in [DOMAIN users' -> UserRows(DOMAIN tenants')]
          /\ DOMAIN users \subseteq DOMAIN users'
      BY <1>3, <2>2, <2>3, <2>4, <2>5, NewUser
    <2> QED
      BY <1>2, <1>3, <1>4, <1>10, <2>2, <2>3, <2>5, <2>6 DEF LastStep
  <1>11. CASE InsertUser(a)
    <2>1. call[a].email \in Email /\ call[a].role \in Role /\ call[a].tenant \in T
      BY <1>11, DueTells DEF InsertUser, InsertUserCall
    <2>2. /\ \/ AddUser(call[a].email, call[a].tenant, call[a].role)
             \/ UNCHANGED users
          /\ UNCHANGED <<tenants, tokens>>
      BY <1>11 DEF InsertUser
    <2>3. users' \in [DOMAIN users' -> UserRows(T)] /\ DOMAIN users \subseteq DOMAIN users'
      BY <1>3, <2>1, <2>2, NewUser
    <2> QED
      BY <1>2, <1>3, <1>4, <1>11, <2>2, <2>3 DEF LastStep
  <1>12. CASE SaveUser(a)
    <2> DEFINE id == call[a].id
    <2>1. call[a].entity \in UserRows(T)
      BY <1>12, DueTells DEF SaveUser, SaveUserCall
    <2>2. /\ \E row \in (IF id \in DOMAIN users THEN Saved(a, users[id]) ELSE {call[a].entity}) :
               users' = users \/ users' = Over([x \in {id} |-> row], users)
          /\ UNCHANGED <<tenants, tokens>>
      BY <1>12 DEF SaveUser
    <2>3. PICK row \in (IF id \in DOMAIN users THEN Saved(a, users[id]) ELSE {call[a].entity}) :
            users' = users \/ users' = Over([x \in {id} |-> row], users)
      BY <2>2
    <2>4. row \in UserRows(T)
      <3>1. id \in DOMAIN users => users[id] \in UserRows(T)
        BY <1>3
      <3> QED
        BY <2>1, <2>3, <3>1, SavedUser
    <2> HIDE DEF T, id
    <2>5. [x \in {id} |-> row] \in [DOMAIN [x \in {id} |-> row] -> UserRows(T)]
      BY <2>4
    <2>6. users' \in [DOMAIN users' -> UserRows(T)] /\ DOMAIN users \subseteq DOMAIN users'
      BY <1>3, <2>3, <2>5, Adding
    <2> QED
      BY <1>2, <1>3, <1>4, <1>12, <2>2, <2>6 DEF LastStep, T
  <1> QED
    BY <1>5, <1>7, <1>8, <1>9, <1>10, <1>11, <1>12 DEF PeopleStep

(***************************************************************************)
(* The steps of the registry, by what they may change.                     *)
(***************************************************************************)
ApiCallStep(a) == ApiStep(a) /\ UNCHANGED <<keyVars, ruleVars, tenantVars>>
KeyCallStep(a) == KeyStep(a) /\ UNCHANGED <<ruleVars, tenantVars>>
RuleCallStep(a) == RuleStep(a) /\ UNCHANGED <<keyVars, tenantVars>>

\* Every step is one of them, of one request, or of none.
LEMMA Steps ==
  ASSUME RegistryInv, [Next]_vars
  PROVE  \/ \E a \in Admin : \/ Starts(a) /\ Knows(a)
                             \/ ApiCallStep(a) \/ KeyCallStep(a) \/ RuleCallStep(a)
                             \/ PeopleStep(a) /\ UNCHANGED configVars
                             \/ Fail(a) /\ UNCHANGED allRows
         \/ \E p \in Process : LoadRuntimeRules(p) /\ UNCHANGED <<keyVars, tenantVars>>
         \/ TimePasses /\ UNCHANGED configVars
         \/ UNCHANGED <<requestVars, allRows>>
  <1>1. ASSUME NEW a \in Admin, NEW t \in DOMAIN tenants, ConfigRequest(a, t)
        PROVE  Starts(a) /\ Knows(a)
    BY <1>1, ApiStarts, KeyStarts, RuleStarts DEF ConfigRequest
  <1>2. ASSUME NEW a \in Admin, AdminRequest(a)
        PROVE  Starts(a) /\ Knows(a)
    <2>1. PICK token \in tokens :
            \/ ConfigRequest(a, token.tenant)
            \/ PeopleRequest(a, token.tenant) /\ UNCHANGED configVars
      BY <1>2 DEF AdminRequest
    <2>2. token.tenant \in DOMAIN tenants
      BY DEF RegistryInv, RowsTyped, Token
    <2> QED
      BY <1>1, <2>1, <2>2, PeopleStarts
  <1>3. ASSUME NEW a \in Admin, ConfigStep(a)
        PROVE  ApiCallStep(a) \/ KeyCallStep(a) \/ RuleCallStep(a)
    BY <1>3 DEF ConfigStep, ApiCallStep, KeyCallStep, RuleCallStep
  <1>4. ASSUME NEW a \in Admin, PublicRequest(a), UNCHANGED configVars
        PROVE  Starts(a) /\ Knows(a)
    <2>1. users[a].tenant \in DOMAIN tenants
      BY DEF RegistryInv, RowsTyped, UserRows
    <2> QED
      BY <1>4, <2>1, PeopleStarts
  <1>5. ASSUME NEW a \in Admin, Fail(a), UNCHANGED <<tenantVars, configVars>>
        PROVE  UNCHANGED allRows
    BY <1>5 DEF allRows, configVars
  <1>6. UNCHANGED vars => UNCHANGED <<requestVars, allRows>>
    BY DEF vars, allRows, configVars
  <1> QED
    BY <1>2, <1>3, <1>4, <1>5, <1>6 DEF Next

\* Every step keeps the types.
LEMMA RegistryStep == RegistryInv /\ [Next]_vars => RegistryInv'
  <1> SUFFICES ASSUME RegistryInv, [Next]_vars
               PROVE  RegistryInv'
    OBVIOUS
  <1>1. ASSUME NEW a \in Admin, Fail(a), UNCHANGED allRows
        PROVE  RegistryInv'
    <2>1. UNCHANGED <<apis, keys, rules, tenants, users, clock, tokens>>
      BY <1>1 DEF allRows, keyVars, ruleVars, tenantVars
    <2>2. RowsTyped' /\ Grow
      BY <2>1 DEF RegistryInv, RowsTyped, Grow
    <2>3. failures' \in 0..MaxFailures /\ calls' = calls /\ marks' = marks /\ Done(a)
      BY <1>1, RequestsAssumption DEF Fail, RegistryInv
    <2> QED
      BY <2>2, <2>3, EndTyped
  <1>2. ASSUME UNCHANGED <<apis, keys, rules, tenants, users, tokens, requestVars>>,
               clock' \in Nat
        PROVE  RegistryInv'
    <2>1. RowsTyped' /\ Calls' = Calls
      BY <1>2 DEF RegistryInv, RowsTyped, Calls
    <2> QED
      BY <1>2, <2>1 DEF RegistryInv, requestVars
  <1>3. clock \in Nat /\ clock + 1 \in Nat
    BY DEF RegistryInv, RowsTyped
  <1>4. ASSUME NEW p \in Process, LoadRuntimeRules(p), UNCHANGED <<keyVars, tenantVars>>
        PROVE  RegistryInv'
    BY <1>2, <1>3, <1>4 DEF LoadRuntimeRules, keyVars, tenantVars
  <1>5. CASE TimePasses /\ UNCHANGED configVars
    BY <1>2, <1>3, <1>5 DEF TimePasses, Tick, configVars, keyVars, ruleVars
  <1>6. CASE UNCHANGED <<requestVars, allRows>>
    BY <1>2, <1>3, <1>6 DEF allRows, keyVars, ruleVars, tenantVars
  <1> QED
    BY <1>1, <1>4, <1>5, <1>6, Steps, StartTyped, ApisTyped, KeysTyped, RulesTyped,
       PeopleTyped DEF ApiCallStep, KeyCallStep, RuleCallStep

\* It starts well-typed.
LEMMA RegistryStarts == Init => RegistryInv
  <1> SUFFICES ASSUME Init
               PROVE  RegistryInv
    OBVIOUS
  <1>1. tenants \in Seq(TenantRow) /\ DOMAIN tenants = {1}
    BY DEF Init, TenantsInit, NewTenant, TenantRow
  <1>2. apis \in Seq(ApiRows(DOMAIN tenants)) /\ DOMAIN apis = {1}
    BY <1>1, RegistryAssumption DEF Init, ApiRows
  <1>3. keys \in Seq(KeyRow(DOMAIN apis)) /\ rules \in Seq(RuleRow(DOMAIN apis))
    BY <1>2 DEF Init, KeyRow
  <1>4. users \in [DOMAIN users -> UserRows(DOMAIN tenants)] /\ Admin \subseteq DOMAIN users
    BY <1>1 DEF Init, TenantsInit, UserRows, Role, Status, Email, UserId
  <1>5. clock \in Nat /\ tokens \subseteq Token(DOMAIN tenants)
    BY <1>1, TenantsAssumption DEF Init, TenantsInit, Role, Token
  <1>6. call \in [Admin -> Calls]
    BY DEF Init, Calls
  <1> QED
    BY <1>1, <1>2, <1>3, <1>4, <1>5, <1>6, RequestsAssumption DEF Init, RegistryInv, RowsTyped

(***************************************************************************)
(* Keys and rules belong to APIs that exist, APIs and users to tenants     *)
(* that exist, and rows have their types, whatever columns the bodies of   *)
(* requests name and however the requests interleave and fail              *)
(* (api.service.ts, api-key.service.ts, rate-rule.service.ts,              *)
(* tenants.service.ts, users.service.ts).                                  *)
(***************************************************************************)
THEOREM RegistryTyped == Spec => []TypeOK
  <1>1. RegistryInv => TypeOK
    <2> SUFFICES ASSUME RegistryInv
                 PROVE  TypeOK
      OBVIOUS
    <2>1. \A i \in DOMAIN apis : apis[i] \in ApiRow
      BY RowSets, ElementOfSeq DEF RegistryInv, RowsTyped
    <2>2. \A k \in DOMAIN keys : keys[k] \in KeyRow(DOMAIN apis)
      BY ElementOfSeq DEF RegistryInv, RowsTyped
    <2>3. \A k \in DOMAIN keys : keys[k].api \in DOMAIN apis
      BY <2>2 DEF KeyRow
    <2>4. \A r \in DOMAIN rules : rules[r] \in RuleRow(DOMAIN apis)
      BY ElementOfSeq DEF RegistryInv, RowsTyped
    <2>5. \A u \in DOMAIN users : users[u] \in UserRow
      BY RowSets DEF RegistryInv, RowsTyped
    <2>6. \A i \in DOMAIN tenants : tenants[i] \in TenantRow
      BY ElementOfSeq DEF RegistryInv, RowsTyped
    <2> QED
      BY <2>1, <2>3, <2>4, <2>5, <2>6
      DEF RegistryInv, RowsTyped, TypeOK, RuleRow, Kinds, Token
  <1> QED
    BY <1>1, RegistryStarts, RegistryStep, PTL DEF Spec

(***************************************************************************)
(* A step concerns one request, which keeps its kind or ends.              *)
(***************************************************************************)
Follows(a) ==
    /\ call' = [call EXCEPT ![a] = call'[a]] /\ marks \subseteq marks'
    /\ call'[a].kind \in {"none", call[a].kind}

\* And goes on to what it knew would come.
LEMMA Following ==
  ASSUME RegistryInv, NEW a \in Admin
  PROVE  /\ ApiCallStep(a) =>
              /\ Follows(a) /\ call[a].kind = "api"
              /\ call'[a] = Idle \/ call'[a] \in SaveApiCall(DOMAIN tenants)
         /\ KeyCallStep(a) =>
              /\ Follows(a) /\ call[a].kind = "key"
              /\ \/ call'[a] = Idle
                 \/ call'[a] \in InsertKeyCall(DOMAIN apis, DOMAIN keys)
         /\ RuleCallStep(a) =>
              /\ Follows(a) /\ call[a].kind = "rule"
              /\ \/ call'[a] = Idle
                 \/ call'[a] \in SaveRuleCall(DOMAIN apis, DOMAIN rules)
         /\ PeopleStep(a) =>
              /\ Follows(a) /\ call[a].kind \notin {"api", "key", "rule"}
              /\ call'[a] = Idle \/ call'[a] \in CommitCall
         /\ Fail(a) => Follows(a) /\ call'[a] = Idle
  <1>1. Done(a) => call' = [call EXCEPT ![a] = call'[a]] /\ call'[a] = Idle
    BY DEF RegistryInv, Done
  <1>2. \A step : GoesOnTo(a, step) => call' = [call EXCEPT ![a] = call'[a]]
    BY DEF RegistryInv, GoesOnTo
  <1>3. Idle.kind = "none"
    BY DEF Idle
  <1>4. ASSUME ApiCallStep(a)
        PROVE  /\ Follows(a) /\ call[a].kind = "api"
               /\ call'[a] = Idle \/ call'[a] \in SaveApiCall(DOMAIN tenants)
    <2>1. call[a].kind = "api"
      BY <1>4, DueTells DEF ApiCallStep, ApiStep, InsertApi, FindDuplicate, SaveApi, InsertApiCall,
         FindDuplicateCall, SaveApiCall
    <2>2. \/ Done(a)
          \/ GoesOnTo(a, "saveApi") /\ call'[a] \in SaveApiCall(DOMAIN tenants)
      BY <1>4, First, Last DEF ApiCallStep, ApiStep, LastStep
    <2>3. call'[a] \in SaveApiCall(DOMAIN tenants) => call'[a].kind = "api"
      BY DEF SaveApiCall
    <2>4. marks \subseteq marks'
      BY <1>4 DEF ApiCallStep, ApiStep, InsertApi, FindDuplicate, SaveApi
    <2> QED
      BY <1>1, <1>2, <1>3, <2>1, <2>2, <2>3, <2>4 DEF Follows
  <1>5. ASSUME KeyCallStep(a)
        PROVE  /\ Follows(a) /\ call[a].kind = "key"
               /\ \/ call'[a] = Idle
                  \/ call'[a] \in InsertKeyCall(DOMAIN apis, DOMAIN keys)
    <2>1. call[a].kind = "key"
      BY <1>5, DueTells DEF KeyCallStep, KeyStep, SaveKey, UpdateKeys, InsertKey, InsertKeyCall,
         SaveKeyCall, UpdateKeysCall
    <2>2. \/ Done(a)
          \/ /\ GoesOnTo(a, "insertKey")
             /\ call'[a] \in InsertKeyCall(DOMAIN apis, DOMAIN keys)
      BY <1>5, First, Last DEF KeyCallStep, KeyStep, LastStep
    <2>3. call'[a] \in InsertKeyCall(DOMAIN apis, DOMAIN keys) => call'[a].kind = "key"
      BY DEF InsertKeyCall
    <2>4. marks' = marks
      BY <1>5 DEF KeyCallStep, KeyStep, SaveKey, UpdateKeys, InsertKey
    <2> QED
      BY <1>1, <1>2, <1>3, <2>1, <2>2, <2>3, <2>4 DEF Follows
  <1>6. ASSUME RuleCallStep(a)
        PROVE  /\ Follows(a) /\ call[a].kind = "rule"
               /\ \/ call'[a] = Idle
                  \/ call'[a] \in SaveRuleCall(DOMAIN apis, DOMAIN rules)
    <2>1. call[a].kind = "rule"
      BY <1>6, DueTells DEF RuleCallStep, RuleStep, FindRule, SaveRule, UpdateRule, FindRuleCall,
         SaveRuleCall, UpdateRuleCall
    <2>2. \/ Done(a)
          \/ /\ call' = [call EXCEPT ![a] = call'[a]]
             /\ call'[a] \in SaveRuleCall(DOMAIN apis, DOMAIN rules)
      BY <1>6, Finding, Last DEF RuleCallStep, RuleStep, LastStep, RegistryInv
    <2>3. call'[a] \in SaveRuleCall(DOMAIN apis, DOMAIN rules) => call'[a].kind = "rule"
      BY DEF SaveRuleCall
    <2>4. marks' = marks
      BY <1>6 DEF RuleCallStep, RuleStep, FindRule, SaveRule, UpdateRule
    <2> QED
      BY <1>1, <1>3, <2>1, <2>2, <2>3, <2>4 DEF Follows
  <1>7. ASSUME PeopleStep(a)
        PROVE  /\ Follows(a) /\ call[a].kind \notin {"api", "key", "rule"}
               /\ call'[a] = Idle \/ call'[a] \in CommitCall
    <2>1. call[a].kind \notin {"api", "key", "rule"}
      BY <1>7, DueTells DEF PeopleStep, Sign, InsertTenant, SaveTenant, InsertAdmin, Commit,
         InsertUser, SaveUser, InsertTenantCall, SaveTenantCall, InsertAdminCall,
         CommitCall, InsertUserCall, SaveUserCall, SignCall
    <2>2. Done(a) \/ (InsertAdmin(a) /\ GoesOnTo(a, "commit") /\ call'[a] \in CommitCall)
      BY <1>7, First, Last DEF PeopleStep, LastStep
    <2>3. call'[a] \in CommitCall => call'[a].kind = "bootstrap"
      BY DEF CommitCall
    <2>4. InsertAdmin(a) => call[a].kind = "bootstrap"
      BY DueTells DEF InsertAdmin, InsertAdminCall
    <2>5. marks' = marks
      BY <1>7 DEF PeopleStep, Sign, InsertTenant, SaveTenant, InsertAdmin, Commit,
         InsertUser, SaveUser
    <2> QED
      BY <1>1, <1>2, <1>3, <2>1, <2>2, <2>3, <2>4, <2>5 DEF Follows
  <1>8. ASSUME Fail(a)
        PROVE  Follows(a) /\ call'[a] = Idle
    BY <1>1, <1>3, <1>8 DEF Fail, Follows
  <1> QED
    BY <1>4, <1>5, <1>6, <1>7, <1>8

(***************************************************************************)
(* As long as requests of a kind did not overlap, there is one at most.    *)
(***************************************************************************)
Single ==
    \A a, b \in Admin : call[a].kind = call[b].kind /\ call[a].kind # "none" =>
        a = b \/ call[a].kind \in marks

\* Every step keeps that.
LEMMA SingleStep ==
  ASSUME RegistryInv, Single, [Next]_vars
  PROVE  Single'
  <1>1. ASSUME NEW a \in Admin, Follows(a) PROVE Single'
    BY <1>1 DEF Follows, Single, RegistryInv
  <1>2. ASSUME NEW a \in Admin, Starts(a) PROVE Single'
    BY <1>2 DEF Starts, Single, RegistryInv
  <1>3. ASSUME UNCHANGED requestVars PROVE Single'
    BY <1>3 DEF Single, requestVars
  <1> QED
    BY <1>1, <1>2, <1>3, Steps, Following DEF LoadRuntimeRules, TimePasses, Tick


(***************************************************************************)
(* The names of active APIs of a tenant differ, and what a request found   *)
(* free is free, or the name of the API that it writes.                    *)
(***************************************************************************)
Unique ==
    \A i, j \in DOMAIN apis :
      /\ IsActive(i) /\ IsActive(j)
      /\ apis[i].tenant = apis[j].tenant /\ apis[i].name = apis[j].name
      => i = j

FreeKept(a) ==
    /\ call[a].kind = "api" /\ call[a].todo = <<"insertApi">> =>
         Named(call[a].row.tenant, call[a].row.name) = {}
    /\ call[a].kind = "api" /\ call[a].todo = <<"findDuplicate", "saveApi">> =>
         \A pair \in call[a].free : /\ pair = <<call[a].tenant, call[a].entity.name>>
                                    /\ call[a].api = call[a].id
    /\ call[a].kind = "api" /\ call[a].todo = <<"saveApi">> =>
         \A t, n : <<t, n>> \in call[a].free => Named(t, n) \subseteq {call[a].id}

NamesFree == Unique /\ \A a \in Admin : FreeKept(a)

NamesInv == NamesFree \/ "api" \in marks \/ "unchecked" \in marks

\* No other request writes a name.
LEMMA NamesWait ==
  ASSUME RegistryInv, NamesFree, NEW a \in Admin, UNCHANGED apis,
         call' = [call EXCEPT ![a] = call'[a]], FreeKept(a)'
  PROVE  NamesFree'
  <1>1. \A t, n : Named(t, n)' = Named(t, n)
    BY DEF Named, Owned, IsActive
  <1>2. Unique'
    BY DEF NamesFree, Unique, IsActive
  <1>3. ASSUME NEW b \in Admin \ {a} PROVE FreeKept(b)'
    <2>1. call'[b] = call[b] /\ FreeKept(b)
      BY DEF RegistryInv, NamesFree
    <2> QED
      BY <1>1, <2>1 DEF FreeKept
  <1> QED
    BY <1>2, <1>3 DEF NamesFree

\* An API whose name, in its tenant, is that of no other active one.
LEMMA NamesWritten ==
  ASSUME Unique, apis \in Seq(ApiRows(DOMAIN tenants)), NEW id,
         NEW row \in ApiRows(DOMAIN tenants),
         \/ id \in DOMAIN apis /\ apis' = [apis EXCEPT ![id] = row]
         \/ id = Len(apis) + 1 /\ apis' = Append(apis, row),
         row.isActive => \A j \in DOMAIN apis :
           IsActive(j) /\ apis[j].tenant = row.tenant /\ apis[j].name = row.name => j = id
  PROVE  Unique'
  <1>1. /\ DOMAIN apis' = DOMAIN apis \cup {id} /\ apis'[id] = row
        /\ \A i \in DOMAIN apis \ {id} : apis'[i] = apis[i]
    <2>1. CASE id \in DOMAIN apis /\ apis' = [apis EXCEPT ![id] = row]
      BY <2>1
    <2>2. CASE id = Len(apis) + 1 /\ apis' = Append(apis, row)
      BY <2>2, Appending
    <2> QED
      BY <2>1, <2>2
  <1> SUFFICES ASSUME NEW i \in DOMAIN apis', NEW j \in DOMAIN apis', IsActive(i)',
                      IsActive(j)', apis'[i].tenant = apis'[j].tenant,
                      apis'[i].name = apis'[j].name
               PROVE  i = j
    BY DEF Unique
  <1>2. CASE i = id
    BY <1>1, <1>2 DEF IsActive
  <1>3. CASE j = id
    BY <1>1, <1>3 DEF IsActive
  <1>4. CASE i # id /\ j # id
    BY <1>1, <1>4 DEF IsActive, Unique
  <1> QED
    BY <1>2, <1>3, <1>4

\* A request on an API keeps it.
LEMMA NamesApi ==
  ASSUME RegistryInv, Single, NamesFree, NEW a \in Admin, ApiCallStep(a),
         "api" \notin marks', "unchecked" \notin marks'
  PROVE  NamesFree'
  <1>0. apis \in Seq(ApiRows(DOMAIN tenants)) /\ call \in [Admin -> Calls] /\ Unique
        /\ FreeKept(a)
    BY DEF RegistryInv, RowsTyped, NamesFree
  <1>1. /\ call' = [call EXCEPT ![a] = call'[a]] /\ call[a].kind = "api"
        /\ "api" \notin marks
        /\ \A b \in Admin \ {a} : call'[b] = call[b]
    BY <1>0, Following DEF Follows
  <1>2. \A b \in Admin \ {a} : call'[b].kind # "api"
    BY <1>1 DEF Single
  <1>3. ASSUME call'[a] = Idle, Unique' PROVE NamesFree'
    <2>1. \A b \in Admin : call'[b].kind # "api"
      BY <1>2, <1>3 DEF Idle
    <2> QED
      BY <1>3, <2>1 DEF NamesFree, FreeKept
  <1>4. ApiStep(a)
    BY DEF ApiCallStep
  <1>5. CASE InsertApi(a)
    <2>1. call[a] \in InsertApiCall(DOMAIN tenants) /\ apis' = Append(apis, call[a].row)
      BY <1>5, DueTells DEF InsertApi
    <2>2. call[a].row \in ApiRows(DOMAIN tenants) /\ call[a].todo = <<"insertApi">>
      BY <2>1 DEF InsertApiCall
    <2>3. Named(call[a].row.tenant, call[a].row.name) = {}
      BY <1>0, <1>1, <2>2 DEF FreeKept
    <2>4. \A j \in DOMAIN apis :
            ~(IsActive(j) /\ apis[j].tenant = call[a].row.tenant /\ apis[j].name = call[a].row.name)
      BY <2>3 DEF Named, Owned
    <2>5. Unique'
      BY <1>0, <2>1, <2>2, <2>4, NamesWritten
    <2>6. call'[a] = Idle
      BY <1>0, <1>5, Last DEF LastStep, Done
    <2> QED
      BY <1>3, <2>5, <2>6
  <1>6. CASE FindDuplicate(a)
    <2>1. apis' = apis
      BY <1>6 DEF FindDuplicate
    <2>2. CASE call'[a] = Idle
      <3>1. Unique'
        BY <1>0, <2>1 DEF Unique, IsActive
      <3> QED
        BY <1>3, <2>2, <3>1
    <2>3. CASE call'[a] # Idle
      <3>1. /\ GoesOnTo(a, "saveApi") /\ call[a] \in FindDuplicateCall(DOMAIN tenants)
            /\ \/ Named(call[a].tenant, call[a].entity.name) \subseteq {call[a].api}
               \/ call[a].api \in Named(call[a].tenant, call[a].entity.name)
        BY <1>0, <1>6, <2>3, First DEF Done
      <3>2. Named(call[a].tenant, call[a].entity.name) \subseteq {call[a].api}
        BY <1>0, <3>1 DEF Unique, Named, Owned
      <3>3. call'[a] = [call[a] EXCEPT !.todo = <<"saveApi">>]
        BY <1>0, <3>1 DEF GoesOnTo
      <3>4. /\ call'[a].free = call[a].free /\ call'[a].id = call[a].id
            /\ call'[a].todo = <<"saveApi">>
            /\ call[a].todo = <<"findDuplicate", "saveApi">>
        BY <3>1, <3>3 DEF FindDuplicateCall
      <3>5. \A pair \in call[a].free : /\ pair = <<call[a].tenant, call[a].entity.name>>
                                       /\ call[a].api = call[a].id
        BY <1>0, <1>1, <3>4 DEF FreeKept
      <3>6. ASSUME NEW t, NEW n, <<t, n>> \in call[a].free
            PROVE  Named(t, n) \subseteq {call[a].id}
        <4>1. <<t, n>> = <<call[a].tenant, call[a].entity.name>> /\ call[a].api = call[a].id
          BY <3>5, <3>6
        <4>2. t = call[a].tenant /\ n = call[a].entity.name
          BY <4>1
        <4> QED
          BY <3>2, <4>1, <4>2
      <3>7. \A t, n : Named(t, n)' = Named(t, n)
        BY <2>1 DEF Named, Owned, IsActive
      <3>8. FreeKept(a)'
        BY <3>4, <3>6, <3>7 DEF FreeKept
      <3> QED
        BY <1>1, <2>1, <3>8, NamesWait
    <2> QED
      BY <2>2, <2>3
  <1>7. CASE SaveApi(a)
    <2> DEFINE id == call[a].id  T == DOMAIN tenants
    <2>1. call[a] \in SaveApiCall(T)
      BY <1>7, DueTells DEF SaveApi
    <2>2. call[a].entity \in ApiRows(T) /\ call[a].todo = <<"saveApi">>
      BY <2>1 DEF SaveApiCall
    <2>3. PICK row \in (IF id \in DOMAIN apis THEN Saved(a, apis[id]) ELSE {call[a].entity}) :
            /\ apis' = IF id \in DOMAIN apis THEN [apis EXCEPT ![id] = row]
                       ELSE Append(apis, row)
            /\ marks' = IF Unchecked(a, row) THEN marks \cup {"unchecked"} ELSE marks
      BY <1>7 DEF SaveApi
    <2>4. row \in ApiRows(T)
      <3>1. id \in DOMAIN apis => apis[id] \in ApiRows(T)
        BY <1>0, ElementOfSeq
      <3> QED
        BY <2>2, <2>3, <3>1, SavedApi
    <2>5. ~Unchecked(a, row)
      BY <2>3
    <2>6. ASSUME row.isActive, NEW j \in DOMAIN apis, IsActive(j),
                 apis[j].tenant = row.tenant, apis[j].name = row.name
          PROVE  j = id
      <3>1. CASE <<row.tenant, row.name>> \in call[a].free
        <4>1. Named(row.tenant, row.name) \subseteq {id}
          BY <1>0, <1>1, <2>2, <3>1 DEF FreeKept
        <4> QED
          BY <2>6, <4>1 DEF Named, Owned
      <3>2. CASE /\ IsActive(id)
                 /\ apis[id].tenant = row.tenant /\ apis[id].name = row.name
        BY <1>0, <2>6, <3>2 DEF Unique, IsActive
      <3> QED
        BY <2>5, <2>6, <3>1, <3>2 DEF Unchecked
    <2>7. Unique'
      <3>1. CASE id \in DOMAIN apis
        BY <1>0, <2>3, <2>4, <2>6, <3>1, NamesWritten
      <3>2. CASE id \notin DOMAIN apis
        <4>1. \A j \in DOMAIN apis : row.isActive =>
                ~(IsActive(j) /\ apis[j].tenant = row.tenant /\ apis[j].name = row.name)
          BY <2>6, <3>2
        <4> QED
          BY <1>0, <2>3, <2>4, <3>2, <4>1, NamesWritten
      <3> QED
        BY <3>1, <3>2
    <2>8. call'[a] = Idle
      BY <1>0, <1>7, Last DEF LastStep, Done
    <2> QED
      BY <1>3, <2>7, <2>8
  <1> QED
    BY <1>4, <1>5, <1>6, <1>7 DEF ApiStep

\* Every step keeps it.
LEMMA NamesStep ==
  ASSUME RegistryInv, Single, NamesInv, [Next]_vars
  PROVE  NamesInv'
  <1> SUFFICES ASSUME "api" \notin marks', "unchecked" \notin marks'
               PROVE  NamesFree'
    BY DEF NamesInv
  <1>1. ASSUME NEW a \in Admin, ApiCallStep(a) PROVE NamesFree'
    <2>1. marks \subseteq marks'
      BY <1>1, Following DEF Follows
    <2> QED
      BY <1>1, <2>1, NamesApi DEF NamesInv
  <1>2. ASSUME NEW a \in Admin, Starts(a), Knows(a) PROVE NamesFree'
    <2>1. apis' = apis /\ marks \subseteq marks' /\ call' = [call EXCEPT ![a] = call'[a]]
      BY <1>2 DEF Starts, allRows
    <2>2. NamesFree
      BY <2>1 DEF NamesInv
    <2>3. \A t, n : Named(t, n)' = Named(t, n)
      BY <2>1 DEF Named, Owned, IsActive
    <2>4. FreeKept(a)'
      BY <1>2, <2>3 DEF Knows, FreeKept
    <2> QED
      BY <2>1, <2>2, <2>4, NamesWait
  <1>3. ASSUME NEW a \in Admin, Follows(a), call'[a].kind # "api", UNCHANGED apis
        PROVE  NamesFree'
    <2>1. FreeKept(a)'
      BY <1>3 DEF FreeKept
    <2> QED
      BY <1>3, <2>1, NamesWait DEF NamesInv, Follows
  <1>4. ASSUME NEW a \in Admin,
               \/ KeyCallStep(a) \/ RuleCallStep(a)
               \/ Fail(a) /\ UNCHANGED allRows
               \/ PeopleStep(a) /\ UNCHANGED configVars
        PROVE  Follows(a) /\ call'[a].kind # "api" /\ UNCHANGED apis
    <2>1. CASE PeopleStep(a) /\ UNCHANGED configVars
      BY <2>1, Following DEF Follows, configVars
    <2>2. CASE Fail(a) /\ UNCHANGED allRows
      BY <2>2, Following DEF allRows, Idle
    <2>3. CASE KeyCallStep(a)
      BY <2>3, Following DEF Follows, KeyCallStep, KeyStep, SaveKey, UpdateKeys, InsertKey
    <2>4. CASE RuleCallStep(a)
      BY <2>4, Following DEF Follows, RuleCallStep, RuleStep, FindRule, SaveRule, UpdateRule
    <2> QED
      BY <1>4, <2>1, <2>2, <2>3, <2>4
  <1>5. ASSUME UNCHANGED <<requestVars, apis>> PROVE NamesFree'
    <2>1. call' = call /\ marks' = marks /\ apis' = apis
      BY <1>5 DEF requestVars
    <2>2. NamesFree /\ \A t, n : Named(t, n)' = Named(t, n)
      BY <2>1 DEF NamesInv, Named, Owned, IsActive
    <2>3. Unique'
      BY <2>1, <2>2 DEF NamesFree, Unique, IsActive
    <2>4. \A a \in Admin : FreeKept(a)'
      BY <2>1, <2>2 DEF NamesFree, FreeKept
    <2> QED
      BY <2>3, <2>4 DEF NamesFree
  <1>6. ASSUME NEW p \in Process, LoadRuntimeRules(p)
        PROVE  UNCHANGED <<requestVars, apis>>
    BY <1>6 DEF LoadRuntimeRules
  <1>7. ASSUME (TimePasses /\ UNCHANGED configVars) \/ UNCHANGED <<requestVars, allRows>>
        PROVE  UNCHANGED <<requestVars, apis>>
    BY <1>7 DEF TimePasses, Tick, configVars, requestVars, allRows
  <1> QED
    BY <1>1, <1>2, <1>3, <1>4, <1>5, <1>6, <1>7, Steps

(***************************************************************************)
(* Two active APIs of a tenant have one name and environment only if       *)
(* requests on APIs overlapped, or a request made an API active, or gave   *)
(* it its name or tenant, without a look for others of that name: whatever *)
(* columns the bodies of PATCH /apis name (api.service.ts:22-131).         *)
(***************************************************************************)
THEOREM UniqueNames == Spec => []NamesAreUnique
  <1> DEFINE Inv == RegistryInv /\ Single /\ NamesInv
  <1>1. Init => Inv
    <2>1. ASSUME Init PROVE NamesFree
      <3>1. DOMAIN apis = {1} /\ \A a \in Admin : call[a] = Idle
        BY <2>1 DEF Init
      <3>2. Idle.kind # "api"
        BY DEF Idle
      <3> QED
        BY <3>1, <3>2 DEF NamesFree, Unique, FreeKept
    <2>2. Init => Single
      BY DEF Init, Single, Idle
    <2> QED
      BY <2>1, <2>2, RegistryStarts DEF NamesInv
  <1>2. Inv /\ [Next]_vars => Inv'
    BY RegistryStep, SingleStep, NamesStep
  <1>3. Inv => NamesAreUnique
    BY DEF NamesInv, NamesFree, Unique, NamesAreUnique
  <1> QED
    BY <1>1, <1>2, <1>3, PTL DEF Spec

(***************************************************************************)
(* A request on a key knows the API the key belongs to; a request that     *)
(* goes on to insert is a rotation that has revoked, or generateKey.       *)
(***************************************************************************)
KeyIsOf ==
    \A a \in Admin : call[a].kind = "key" /\ "key" \in DOMAIN call[a] =>
        keys[call[a].key].api = call[a].api

Inserting(a, i) ==
    call[a].kind = "key" /\ call[a].api = i /\ call[a].todo = <<"insertKey">>

\* What a step does to the keys of the API of its request.
LEMMA KeyEffects ==
  ASSUME RegistryInv, KeyIsOf, NEW a \in Admin, KeyCallStep(a)
  PROVE  /\ \A k \in DOMAIN keys : /\ k \in DOMAIN keys' /\ keys'[k].api = keys[k].api
                                   /\ keys[k].api # call[a].api => keys'[k] = keys[k]
         /\ \A k \in DOMAIN keys' \ DOMAIN keys :
              keys'[k] = [api |-> call[a].api, active |-> TRUE]
         /\ \/ Inserting(a, call[a].api)'
            \/ call[a].api \in revoked'
            \/ \E k \in DOMAIN keys' : keys'[k].api = call[a].api /\ keys'[k].active
         /\ revoked \subseteq revoked'
         /\ call'[a] = Idle \/ call'[a].api = call[a].api
         /\ "key" \in DOMAIN call'[a] =>
              "key" \in DOMAIN call[a] /\ call'[a].key = call[a].key
  <1>0. /\ keys \in Seq(KeyRow(DOMAIN apis)) /\ call \in [Admin -> Calls]
        /\ \A k \in DOMAIN keys : keys[k] \in KeyRow(DOMAIN apis)
    BY ElementOfSeq DEF RegistryInv, RowsTyped
  <1>1. Idle = [kind |-> "none", todo |-> <<>>] /\ "key" \notin DOMAIN Idle
    BY DEF Idle
  <1>2. CASE SaveKey(a)
    <2>1. call[a] \in SaveKeyCall(DOMAIN apis, DOMAIN keys)
      BY <1>2, DueTells DEF SaveKey
    <2>2. call[a].kind = "key" /\ call[a].key \in DOMAIN keys /\ "key" \in DOMAIN call[a]
      BY <2>1 DEF SaveKeyCall
    <2>3. keys[call[a].key].api = call[a].api
      BY <2>2 DEF KeyIsOf
    <2>4. /\ keys' = [keys EXCEPT ![call[a].key].active = FALSE]
          /\ revoked' = IF call[a].op = "revoke" THEN revoked \cup {call[a].api} ELSE revoked
      BY <1>2 DEF SaveKey
    <2>5. \A k \in DOMAIN keys : /\ k \in DOMAIN keys' /\ keys'[k].api = keys[k].api
                                 /\ keys[k].api # call[a].api => keys'[k] = keys[k]
      BY <1>0, <2>2, <2>3, <2>4 DEF KeyRow
    <2>6. DOMAIN keys' = DOMAIN keys
      BY <2>4
    <2>7. \/ call'[a] = Idle /\ call[a].op = "revoke"
          \/ GoesOnTo(a, "insertKey")
      BY <1>0, <1>2, First DEF Done
    <2>8. ASSUME GoesOnTo(a, "insertKey")
          PROVE  /\ call'[a].api = call[a].api /\ call'[a].kind = "key"
                 /\ call'[a].todo = <<"insertKey">> /\ call'[a].key = call[a].key
      <3>1. call'[a] = [call[a] EXCEPT !.todo = <<"insertKey">>]
        BY <1>0, <2>8 DEF GoesOnTo
      <3> QED
        BY <2>1, <3>1 DEF SaveKeyCall
    <2> QED
      BY <1>1, <2>2, <2>4, <2>5, <2>6, <2>7, <2>8 DEF Inserting
  <1>3. CASE UpdateKeys(a)
    <2>1. call[a] \in UpdateKeysCall(DOMAIN apis)
      BY <1>3, DueTells DEF UpdateKeys
    <2> DEFINE active(k) == keys[k].active /\ k \notin Live(call[a].api)
    <2>2. keys' = [k \in DOMAIN keys |-> [keys[k] EXCEPT !.active = active(k)]]
      BY <1>3 DEF UpdateKeys
    <2>3. \A k \in DOMAIN keys : keys[k].api # call[a].api => active(k) = keys[k].active
      BY <1>0 DEF Live, KeyRow
    <2> HIDE DEF active
    <2>4. \A k \in DOMAIN keys : k \in DOMAIN keys' /\ keys'[k].api = keys[k].api
      BY <1>0, <2>2 DEF KeyRow
    <2>5. \A k \in DOMAIN keys : keys[k].api # call[a].api => keys'[k] = keys[k]
      BY <1>0, <2>2, <2>3 DEF KeyRow
    <2>6. DOMAIN keys' = DOMAIN keys /\ revoked' = revoked
      BY <1>3, <2>2 DEF UpdateKeys
    <2>7. call'[a] = [call[a] EXCEPT !.todo = <<"insertKey">>]
      BY <1>0, <1>3, First DEF GoesOnTo
    <2>8. /\ call'[a].api = call[a].api /\ call'[a].kind = "key"
          /\ call'[a].todo = <<"insertKey">> /\ "key" \notin DOMAIN call'[a]
      BY <2>1, <2>7 DEF UpdateKeysCall
    <2> QED
      BY <2>4, <2>5, <2>6, <2>8 DEF Inserting
  <1>4. CASE InsertKey(a)
    <2> DEFINE new == [api |-> call[a].api, active |-> TRUE]
    <2>1. call[a].api \in DOMAIN apis
      BY <1>4, DueTells DEF InsertKey, InsertKeyCall
    <2>2. new \in KeyRow(DOMAIN apis) /\ new.api = call[a].api /\ new.active
      BY <2>1 DEF KeyRow
    <2>3. keys' = Append(keys, new) /\ revoked' = revoked
      BY <1>4 DEF InsertKey
    <2> HIDE DEF new
    <2>4. /\ DOMAIN keys' = DOMAIN keys \cup {Len(keys) + 1}
          /\ keys'[Len(keys) + 1] = new
          /\ \A k \in DOMAIN keys : keys'[k] = keys[k]
      BY <1>0, <2>2, <2>3, Appending
    <2>5. call'[a] = Idle
      BY <1>0, <1>4, Last DEF LastStep, Done
    <2>6. \A k \in DOMAIN keys' \ DOMAIN keys : keys'[k] = new
      BY <2>4
    <2>7. \E k \in DOMAIN keys' : keys'[k].api = call[a].api /\ keys'[k].active
      BY <2>2, <2>4
    <2> QED
      BY <1>1, <2>3, <2>4, <2>5, <2>6, <2>7 DEF new
  <1> QED
    BY <1>2, <1>3, <1>4 DEF KeyCallStep, KeyStep

\* Every step keeps both.
LEMMA RotationStep ==
  ASSUME RegistryInv, KeyIsOf, RotationKeepsKey, [Next]_vars
  PROVE  KeyIsOf' /\ RotationKeepsKey'
  <1>0. call \in [Admin -> Calls] /\ failures \in Nat
    BY RequestsAssumption DEF RegistryInv
  <1>1. ASSUME NEW a \in Admin, KeyCallStep(a) PROVE KeyIsOf' /\ RotationKeepsKey'
    <2>1. Follows(a) /\ call[a].kind = "key" /\ failures' = failures
      BY <1>1, Following DEF KeyCallStep, KeyStep, SaveKey, UpdateKeys, InsertKey
    <2>2. \A b \in Admin \ {a} : call'[b] = call[b]
      BY <1>0, <2>1 DEF Follows
    <2>3. KeyIsOf'
      <3>1. \A b \in Admin : call[b].kind = "key" /\ "key" \in DOMAIN call[b] =>
              call[b].key \in DOMAIN keys
        <4>1. ASSUME NEW b \in Admin, call[b].kind = "key", "key" \in DOMAIN call[b]
              PROVE  call[b] \in KeyCalls(DOMAIN apis, DOMAIN keys)
          <5>1. call[b] \in ApiCalls(DOMAIN tenants) => call[b].kind = "api"
            BY DEF ApiCalls, InsertApiCall, FindDuplicateCall, SaveApiCall
          <5>2. call[b] \in RuleCalls(DOMAIN apis, DOMAIN rules) => call[b].kind = "rule"
            BY DEF RuleCalls, FindRuleCall, SaveRuleCall, UpdateRuleCall
          <5>3. call[b] \in PeopleCalls(DOMAIN tenants) => call[b].kind # "key"
            BY DEF PeopleCalls, SignCall, InsertTenantCall, InsertUserCall,
               InsertAdminCall, CommitCall, SaveTenantCall, SaveUserCall
          <5> QED
            BY <1>0, <4>1, <5>1, <5>2, <5>3 DEF Calls, Idle
        <4> QED
          BY <4>1 DEF KeyCalls, InsertKeyCall, SaveKeyCall, UpdateKeysCall
      <3> QED
        BY <1>1, <2>1, <2>2, <3>1, KeyEffects DEF KeyIsOf, Idle
    <2>4. ASSUME NEW i, i \in {keys[k].api : k \in DOMAIN keys}', i # call[a].api
          PROVE  \/ Live(i)' # {}
                 \/ i \in revoked' \/ failures' > 0
                 \/ \E b \in Admin : Inserting(b, i)'
      <3>1. i \in {keys[k].api : k \in DOMAIN keys}
        BY <1>1, <2>4, KeyEffects
      <3>2. \/ Live(i) # {}
            \/ i \in revoked \/ failures > 0
            \/ \E b \in Admin : Inserting(b, i)
        BY <3>1 DEF RotationKeepsKey, Inserting
      <3>3. Live(i) \subseteq Live(i)'
        BY <1>1, <2>4, KeyEffects DEF Live
      <3>4. \A b \in Admin : Inserting(b, i) => Inserting(b, i)'
        BY <2>2, <2>4 DEF Inserting
      <3> QED
        BY <1>1, <2>1, <3>2, <3>3, <3>4, KeyEffects
    <2>5. ASSUME NEW i, i = call[a].api
          PROVE  \/ Live(i)' # {}
                 \/ i \in revoked'
                 \/ \E b \in Admin : Inserting(b, i)'
      <3>1. CASE Inserting(a, call[a].api)'
        <4>1. call'[a] # Idle
          BY <3>1 DEF Inserting, Idle
        <4>2. call'[a].api = call[a].api
          BY <1>1, <4>1, KeyEffects
        <4> QED
          BY <2>5, <3>1, <4>2 DEF Inserting
      <3>2. CASE \E k \in DOMAIN keys' : keys'[k].api = call[a].api /\ keys'[k].active
        BY <2>5, <3>2 DEF Live
      <3> QED
        BY <1>1, <2>5, <3>1, <3>2, KeyEffects
    <2>6. RotationKeepsKey'
      BY <2>4, <2>5 DEF RotationKeepsKey, Inserting
    <2> QED
      BY <2>3, <2>6
  <1>2. ASSUME NEW a \in Admin, UNCHANGED <<keyVars, failures>>,
               call' = [call EXCEPT ![a] = call'[a]], call[a].kind # "key",
               call'[a].kind = "key" /\ "key" \in DOMAIN call'[a] =>
                 keys[call'[a].key].api = call'[a].api
        PROVE  KeyIsOf' /\ RotationKeepsKey'
    <2>1. \A b \in Admin \ {a} : call'[b] = call[b]
      BY <1>0, <1>2
    <2>2. UNCHANGED <<keys, revoked, failures>>
      BY <1>2 DEF keyVars
    <2>3. KeyIsOf'
      BY <1>2, <2>1, <2>2 DEF KeyIsOf
    <2>4. \A i : \A b \in Admin : Inserting(b, i) => Inserting(b, i)'
      BY <1>2, <2>1 DEF Inserting
    <2>5. \A i : Live(i)' = Live(i)
      BY <2>2 DEF Live
    <2>6. ASSUME NEW i, i \in {keys[k].api : k \in DOMAIN keys}
          PROVE  \/ Live(i)' # {}
                 \/ i \in revoked' \/ failures' > 0
                 \/ \E b \in Admin : Inserting(b, i)'
      BY <2>2, <2>4, <2>5, <2>6 DEF RotationKeepsKey, Inserting
    <2>7. {keys[k].api : k \in DOMAIN keys}' = {keys[k].api : k \in DOMAIN keys}
      BY <2>2
    <2>8. RotationKeepsKey'
      BY <2>6, <2>7 DEF RotationKeepsKey, Inserting
    <2> QED
      BY <2>3, <2>8
  <1>3. ASSUME NEW a \in Admin, Starts(a), Knows(a) PROVE KeyIsOf' /\ RotationKeepsKey'
    <2>1. UNCHANGED <<keyVars, failures>> /\ call[a].kind # "key"
          /\ call' = [call EXCEPT ![a] = call'[a]]
      BY <1>3 DEF Starts, allRows, Idle
    <2> QED
      BY <1>2, <1>3, <2>1 DEF Knows
  <1>4. ASSUME NEW a \in Admin, ApiCallStep(a) \/ RuleCallStep(a)
                                \/ (PeopleStep(a) /\ UNCHANGED configVars)
        PROVE  KeyIsOf' /\ RotationKeepsKey'
    <2>1. Follows(a) /\ call[a].kind # "key"
      BY <1>4, Following
    <2>2. UNCHANGED keyVars
      BY <1>4 DEF ApiCallStep, ApiStep, RuleCallStep, RuleStep, configVars
    <2>3. failures' = failures
      BY <1>4 DEF ApiCallStep, ApiStep, RuleCallStep, RuleStep, InsertApi, FindDuplicate, SaveApi, FindRule, SaveRule,
         UpdateRule, PeopleStep, Sign, InsertTenant, SaveTenant, InsertAdmin, Commit,
         InsertUser, SaveUser
    <2> QED
      BY <1>2, <2>1, <2>2, <2>3 DEF Follows
  <1>5. ASSUME NEW a \in Admin, Fail(a), UNCHANGED allRows
        PROVE  KeyIsOf' /\ RotationKeepsKey'
    <2>1. failures' > 0
      BY <1>0, <1>5 DEF Fail
    <2>2. Follows(a) /\ call'[a].kind = "none" /\ keys' = keys
      BY <1>5, Following DEF Idle, allRows, keyVars
    <2>3. \A b \in Admin \ {a} : call'[b] = call[b]
      BY <1>0, <2>2 DEF Follows
    <2> QED
      BY <2>1, <2>2, <2>3 DEF KeyIsOf, RotationKeepsKey
  <1>6. ASSUME UNCHANGED <<requestVars, keyVars>> PROVE KeyIsOf' /\ RotationKeepsKey'
    BY <1>6 DEF KeyIsOf, RotationKeepsKey, Live, requestVars, keyVars
  <1>7. ASSUME NEW p \in Process, LoadRuntimeRules(p), UNCHANGED <<keyVars, tenantVars>>
        PROVE  UNCHANGED <<requestVars, keyVars>>
    BY <1>7 DEF LoadRuntimeRules
  <1>8. ASSUME (TimePasses /\ UNCHANGED configVars) \/ UNCHANGED <<requestVars, allRows>>
        PROVE  UNCHANGED <<requestVars, keyVars>>
    BY <1>8 DEF TimePasses, Tick, configVars, requestVars, allRows
  <1> QED
    BY <1>1, <1>3, <1>4, <1>5, <1>6, <1>7, <1>8, Steps

(***************************************************************************)
(* However rotations of one key and of all keys overlap                    *)
(* (api-key.service.ts:104-184), an API that had a key keeps one, or one   *)
(* of them is about to insert the new one, unless revokeKey took the keys  *)
(* away or a request failed half way.                                      *)
(***************************************************************************)
THEOREM RotationTheorem == Spec => []RotationKeepsKey
  <1> DEFINE Inv == RegistryInv /\ KeyIsOf /\ RotationKeepsKey
  <1>1. Init => Inv
    <2>1. ASSUME Init PROVE KeyIsOf /\ RotationKeepsKey
      <3>1. keys = <<[api |-> 1, active |-> TRUE]>> /\ \A a \in Admin : call[a] = Idle
        BY <2>1 DEF Init
      <3>2. KeyIsOf
        BY <3>1 DEF KeyIsOf, Idle
      <3>3. DOMAIN keys = {1} /\ keys[1].api = 1 /\ keys[1].active
        BY <3>1
      <3>4. Live(1) # {}
        BY <3>3 DEF Live
      <3> QED
        BY <3>2, <3>3, <3>4 DEF RotationKeepsKey
    <2> QED
      BY <2>1, RegistryStarts
  <1>2. Inv /\ [Next]_vars => Inv'
    BY RegistryStep, RotationStep
  <1> QED
    BY <1>1, <1>2, PTL DEF Spec

(***************************************************************************)
(* A rule that is about to be saved is of the scope it was found for, and  *)
(* one that was not found is still missing, unless requests overlapped.    *)
(***************************************************************************)
FoundSame ==
    \A a \in Admin : call[a].todo = <<"saveRule">> /\ call[a].id # 0 =>
        Same(rules[call[a].id], call[a].row)

OnePerScope == \A r, q \in DOMAIN rules : Same(rules[r], rules[q]) => r = q

StillMissing ==
    \A a \in Admin : call[a].todo = <<"saveRule">> /\ call[a].id = 0 =>
        \A q \in DOMAIN rules : ~Same(rules[q], call[a].row)

ScopeInv == (OnePerScope /\ StillMissing) \/ "rule" \in marks

\* Who is about to save a rule makes a request on rules.
LEMMA Saving ==
  ASSUME RegistryInv, NEW a \in Admin, call[a].todo = <<"saveRule">>
  PROVE  call[a].kind = "rule" /\ call[a].id \in {0} \cup DOMAIN rules
  <1>1. Due(a, "saveRule")
    BY DEF Due
  <1> QED
    BY <1>1, DueTells DEF SaveRuleCall

\* What a step does to the rules.
LEMMA RuleEffects ==
  ASSUME RegistryInv, FoundSame, NEW a \in Admin, RuleCallStep(a)
  PROVE  /\ \A p \in Process : changed[p] \subseteq changed'[p]
         /\ (DOMAIN changed = Process => DOMAIN changed' = Process) /\ cache' = cache
         /\ \A r \in DOMAIN rules :
              /\ r \in DOMAIN rules' /\ Same(rules'[r], rules[r])
              /\ rules'[r] = rules[r] \/ \A p \in Process : r \in changed'[p]
         /\ \/ DOMAIN rules' = DOMAIN rules
            \/ \E new : /\ DOMAIN rules' = DOMAIN rules \cup {new}
                        /\ \A p \in Process : new \in changed'[p]
                        /\ call[a].todo = <<"saveRule">> /\ call[a].id = 0
                        /\ rules'[new] = call[a].row
         /\ call'[a] = Idle \/ (FindRule(a) /\ rules' = rules)
  <1>0. /\ rules \in Seq(RuleRow(DOMAIN apis)) /\ 0 \notin DOMAIN rules
        /\ \A r \in DOMAIN rules : rules[r] \in RuleRow(DOMAIN apis)
        /\ call \in [Admin -> Calls]
    BY ElementOfSeq DEF RegistryInv, RowsTyped
  <1>1. \A r \in DOMAIN rules : Same(rules[r], rules[r])
    BY DEF Same
  <1>2. CASE FindRule(a)
    BY <1>1, <1>2 DEF FindRule, ruleVars
  <1>3. CASE UpdateRule(a)
    <2>1. call[a].id \in DOMAIN rules
      BY <1>3, DueTells DEF UpdateRule, UpdateRuleCall
    <2>2. /\ rules' = [rules EXCEPT ![call[a].id].active = FALSE]
          /\ changed' = [q \in Process |-> changed[q] \cup {call[a].id}]
          /\ cache' = cache
      BY <1>3 DEF UpdateRule, Changed
    <2>3. \A r \in DOMAIN rules : Same(rules'[r], rules[r])
      BY <1>0, <2>1, <2>2 DEF RuleRow, Same
    <2>4. call'[a] = Idle
      BY <1>0, <1>3, Last DEF LastStep, Done
    <2> QED
      BY <2>2, <2>3, <2>4
  <1>4. CASE SaveRule(a)
    <2>1. call[a] \in SaveRuleCall(DOMAIN apis, DOMAIN rules)
      BY <1>4, DueTells DEF SaveRule
    <2>2. /\ call[a].todo = <<"saveRule">> /\ call[a].id \in {0} \cup DOMAIN rules
          /\ call[a].row \in NewRule(DOMAIN apis)
      BY <2>1 DEF SaveRuleCall
    <2>3. call[a].row \in RuleRow(DOMAIN apis)
      BY <2>2 DEF NewRule, RuleRow
    <2>4. call'[a] = Idle
      BY <1>0, <1>4, Last DEF LastStep, Done
    <2>5. CASE call[a].id = 0
      <3>1. /\ rules' = Append(rules, call[a].row) /\ cache' = cache
            /\ changed' = [q \in Process |-> changed[q] \cup {Len(rules) + 1}]
        BY <1>0, <1>4, <2>5 DEF SaveRule, Changed
      <3>2. /\ DOMAIN rules' = DOMAIN rules \cup {Len(rules) + 1}
            /\ rules'[Len(rules) + 1] = call[a].row
            /\ \A r \in DOMAIN rules : rules'[r] = rules[r]
        BY <1>0, <2>3, <3>1, Appending
      <3> QED
        BY <1>1, <2>2, <2>4, <2>5, <3>1, <3>2
    <2>6. CASE call[a].id # 0
      <3>1. call[a].id \in DOMAIN rules /\ ~(call[a].id > Len(rules))
        BY <1>0, <2>2, <2>6
      <3>2. /\ rules' = [rules EXCEPT ![call[a].id] = call[a].row] /\ cache' = cache
            /\ changed' = [q \in Process |-> changed[q] \cup {call[a].id}]
        BY <1>4, <2>6, <3>1 DEF SaveRule, Changed
      <3>3. Same(rules[call[a].id], call[a].row)
        BY <2>2, <2>6 DEF FoundSame
      <3>4. \A r \in DOMAIN rules : Same(rules'[r], rules[r])
        BY <1>1, <3>1, <3>2, <3>3 DEF Same
      <3> QED
        BY <2>4, <3>2, <3>4
    <2> QED
      BY <2>5, <2>6
  <1> QED
    BY <1>2, <1>3, <1>4 DEF RuleCallStep, RuleStep

\* Steps of others leave rules and what is about to be saved.
LEMMA RulesWait ==
  ASSUME RegistryInv, NEW a \in Admin, UNCHANGED ruleVars, marks \subseteq marks',
         call' = [call EXCEPT ![a] = call'[a]], call'[a].todo # <<"saveRule">>
  PROVE  (FoundSame => FoundSame') /\ (ScopeInv => ScopeInv')
  <1>1. \A b \in Admin \ {a} : call'[b] = call[b]
    BY DEF RegistryInv
  <1>2. rules' = rules
    BY DEF ruleVars
  <1> QED
    BY <1>1, <1>2 DEF FoundSame, ScopeInv, OnePerScope, StillMissing

\* A request on rules keeps them.
LEMMA RulesKeep ==
  ASSUME RegistryInv, Single, FoundSame, NEW a \in Admin, RuleCallStep(a)
  PROVE  FoundSame' /\ (ScopeInv => ScopeInv')
  <1>0. /\ call \in [Admin -> Calls] /\ Follows(a) /\ call[a].kind = "rule" /\ marks' = marks
        /\ Idle.todo # <<"saveRule">>
    BY Following DEF RegistryInv, RuleCallStep, RuleStep, FindRule, SaveRule, UpdateRule, Idle
  <1>1. \A b \in Admin \ {a} : call'[b] = call[b]
    BY <1>0 DEF Follows
  <1>2. \A r \in DOMAIN rules : r \in DOMAIN rules' /\ Same(rules'[r], rules[r])
    BY RuleEffects
  <1>3. FindRule(a) => \E r \in {0} \cup DOMAIN rules :
           /\ call'[a].row = call[a].row /\ call'[a].id = r
           /\ r # 0 => Same(rules[r], call[a].row)
           /\ r = 0 => \A q \in DOMAIN rules : ~Same(rules[q], call[a].row)
    BY Finding
  <1>4. call'[a] = Idle \/ (FindRule(a) /\ rules' = rules)
    BY RuleEffects
  <1>5. FoundSame'
    <2> SUFFICES ASSUME NEW b \in Admin, call'[b].todo = <<"saveRule">>, call'[b].id # 0
                 PROVE  Same(rules'[call'[b].id], call'[b].row)
      BY DEF FoundSame
    <2>1. CASE b = a
      BY <1>0, <1>3, <1>4, <2>1
    <2>2. CASE b # a
      <3>1. call'[b] = call[b] /\ call[b].id \in DOMAIN rules
        BY <1>1, <2>2, Saving
      <3> QED
        BY <1>2, <3>1 DEF FoundSame, Same
    <2> QED
      BY <2>1, <2>2
  <1>6. ASSUME OnePerScope, StillMissing, "rule" \notin marks
        PROVE  OnePerScope' /\ StillMissing'
    <2>1. \A b \in Admin \ {a} : call[b].todo # <<"saveRule">>
      BY <1>0, <1>6, Saving DEF Single
    <2>2. StillMissing'
      BY <1>0, <1>1, <1>3, <1>4, <2>1 DEF StillMissing
    <2>3. CASE DOMAIN rules' = DOMAIN rules
      BY <1>2, <1>6, <2>2, <2>3 DEF OnePerScope, Same
    <2>4. ASSUME NEW new, DOMAIN rules' = DOMAIN rules \cup {new},
                 call[a].todo = <<"saveRule">>, call[a].id = 0, rules'[new] = call[a].row
          PROVE  OnePerScope'
      <3>1. \A q \in DOMAIN rules : ~Same(rules[q], rules'[new])
        BY <1>6, <2>4 DEF StillMissing
      <3>2. \A q \in DOMAIN rules : ~Same(rules'[q], rules'[new]) /\ ~Same(rules'[new], rules'[q])
        BY <1>2, <3>1 DEF Same
      <3>3. \A r, q \in DOMAIN rules : Same(rules'[r], rules'[q]) => r = q
        BY <1>2, <1>6 DEF OnePerScope, Same
      <3> QED
        BY <2>4, <3>2, <3>3 DEF OnePerScope
    <2> QED
      BY <2>2, <2>3, <2>4, RuleEffects
  <1> QED
    BY <1>0, <1>5, <1>6 DEF ScopeInv

\* Every step keeps both.
LEMMA ScopeStep ==
  ASSUME RegistryInv, Single, FoundSame, [Next]_vars
  PROVE  FoundSame' /\ (ScopeInv => ScopeInv')
  <1>1. ASSUME NEW a \in Admin, Starts(a), Knows(a)
        PROVE  FoundSame' /\ (ScopeInv => ScopeInv')
    BY <1>1, RulesWait DEF Starts, Knows, allRows
  <1>2. ASSUME NEW a \in Admin, ApiCallStep(a) \/ KeyCallStep(a) \/ (Fail(a) /\ UNCHANGED allRows)
                                \/ (PeopleStep(a) /\ UNCHANGED configVars)
        PROVE  FoundSame' /\ (ScopeInv => ScopeInv')
    <2>1. UNCHANGED ruleVars
      BY <1>2 DEF ApiCallStep, ApiStep, KeyCallStep, allRows, configVars
    <2>2. /\ Follows(a)
          /\ \/ call'[a] = Idle \/ call'[a] \in SaveApiCall(DOMAIN tenants)
             \/ call'[a] \in InsertKeyCall(DOMAIN apis, DOMAIN keys)
             \/ call'[a] \in CommitCall
      BY <1>2, Following
    <2>3. call'[a].todo # <<"saveRule">>
      BY <2>2 DEF Idle, SaveApiCall, InsertKeyCall, CommitCall
    <2> QED
      BY <2>1, <2>2, <2>3, RulesWait DEF Follows
  <1>3. ASSUME UNCHANGED <<requestVars, rules>>
        PROVE  FoundSame' /\ (ScopeInv => ScopeInv')
    BY <1>3 DEF requestVars, FoundSame, ScopeInv, OnePerScope, StillMissing
  <1>4. ASSUME NEW p \in Process, LoadRuntimeRules(p)
        PROVE  UNCHANGED <<requestVars, rules>>
    BY <1>4 DEF LoadRuntimeRules
  <1>5. ASSUME (TimePasses /\ UNCHANGED configVars) \/ UNCHANGED <<requestVars, allRows>>
        PROVE  UNCHANGED <<requestVars, rules>>
    BY <1>5 DEF TimePasses, Tick, configVars, requestVars, allRows, ruleVars
  <1> QED
    BY <1>1, <1>2, <1>3, <1>4, <1>5, RulesKeep, Steps

\* It starts so.
LEMMA RulesStart == Init => Single /\ FoundSame /\ ScopeInv
  <1>1. Idle.todo # <<"saveRule">> /\ Idle.kind = "none"
    BY DEF Idle
  <1>2. Init => DOMAIN rules = {} /\ \A a \in Admin : call[a] = Idle
    BY DEF Init
  <1> QED
    BY <1>1, <1>2 DEF Single, FoundSame, ScopeInv, OnePerScope, StillMissing

(***************************************************************************)
(* A scope of an API has one rule, however often createOrUpdateRule and    *)
(* disableRule set, disable and set it again (rate-rule.service.ts,        *)
(* rate-rule.controller.ts), unless requests on rules overlapped.          *)
(***************************************************************************)
THEOREM OneRule == Spec => []OneRulePerScope
  <1> DEFINE Inv == RegistryInv /\ Single /\ FoundSame /\ ScopeInv
  <1>1. Init => Inv
    BY RulesStart, RegistryStarts
  <1>2. Inv /\ [Next]_vars => Inv'
    BY RegistryStep, SingleStep, ScopeStep
  <1>3. Inv => OneRulePerScope
    BY DEF ScopeInv, OnePerScope, OneRulePerScope
  <1> QED
    BY <1>1, <1>2, <1>3, PTL DEF Spec

(***************************************************************************)
(* What a process loaded is what it enforces until it starts again.        *)
(***************************************************************************)
CacheInv == DOMAIN cache = Process /\ DOMAIN changed = Process /\ CacheReflectsRules

Reflects(p) ==
    /\ \A e \in cache[p] : \E r \in DOMAIN rules :
         /\ Same(rules[r], e)
         /\ \/ r \in changed[p]
            \/ rules[r].active /\ rules[r].limit = e.limit
    /\ \A r \in DOMAIN rules \ changed[p] : rules[r].active =>
         \E e \in cache[p] : Same(rules[r], e)

\* A process that starts loads one rule of every scope that has one.
LEMMA Loading ==
  ASSUME RegistryInv, CacheInv, NEW p \in Process, LoadRuntimeRules(p)
  PROVE  CacheInv'
  <1>1. PICK chosen \in SUBSET {r \in DOMAIN rules : rules[r].active} :
          /\ \A r \in DOMAIN rules : rules[r].active =>
               \E c \in chosen : Same(rules[r], rules[c])
          /\ cache' = [cache EXCEPT ![p] = {Entry(rules[r]) : r \in chosen}]
    BY DEF LoadRuntimeRules
  <1>2. changed' = [changed EXCEPT ![p] = {}] /\ rules' = rules
    BY DEF LoadRuntimeRules
  <1>3. \A c \in DOMAIN rules : /\ Same(rules[c], Entry(rules[c]))
                                /\ Entry(rules[c]).limit = rules[c].limit
    BY DEF Same, Entry
  <1>4. \A r, c \in DOMAIN rules : Same(rules[r], rules[c]) => Same(rules[r], Entry(rules[c]))
    BY DEF Same, Entry
  <1>5. cache'[p] = {Entry(rules[r]) : r \in chosen} /\ changed'[p] = {}
    BY <1>1, <1>2 DEF CacheInv
  <1>6. Reflects(p)'
    BY <1>1, <1>2, <1>3, <1>4, <1>5 DEF Reflects
  <1>7. ASSUME NEW q \in Process, q # p PROVE Reflects(q)'
    <2>1. cache'[q] = cache[q] /\ changed'[q] = changed[q]
      BY <1>1, <1>2, <1>7 DEF CacheInv
    <2>2. Reflects(q)
      BY DEF CacheInv, CacheReflectsRules, Reflects
    <2> QED
      BY <1>2, <2>1, <2>2 DEF Reflects
  <1>8. DOMAIN cache' = Process /\ DOMAIN changed' = Process
    BY <1>1, <1>2 DEF CacheInv
  <1> QED
    BY <1>6, <1>7, <1>8 DEF CacheInv, CacheReflectsRules, Reflects

\* Every step keeps it.
LEMMA CacheStep ==
  ASSUME RegistryInv, FoundSame, CacheInv, [Next]_vars
  PROVE  CacheInv'
  <1>1. ASSUME UNCHANGED ruleVars PROVE CacheInv'
    BY <1>1 DEF CacheInv, CacheReflectsRules, ruleVars
  <1>2. ASSUME NEW a \in Admin, RuleCallStep(a) PROVE CacheInv'
    <2>1. /\ \A p \in Process : changed[p] \subseteq changed'[p]
          /\ cache' = cache /\ DOMAIN cache' = Process /\ DOMAIN changed' = Process
          /\ \A r \in DOMAIN rules :
               /\ r \in DOMAIN rules' /\ Same(rules'[r], rules[r])
               /\ rules'[r] = rules[r] \/ \A p \in Process : r \in changed'[p]
          /\ \A r \in DOMAIN rules' \ DOMAIN rules : \A p \in Process : r \in changed'[p]
      BY <1>2, RuleEffects DEF CacheInv
    <2>2. ASSUME NEW p \in Process PROVE Reflects(p)'
      <3>1. Reflects(p)
        BY DEF CacheInv, CacheReflectsRules, Reflects
      <3>2. ASSUME NEW e \in cache[p]
            PROVE  \E r \in DOMAIN rules' :
                     /\ Same(rules'[r], e)
                     /\ \/ r \in changed'[p]
                        \/ rules'[r].active /\ rules'[r].limit = e.limit
        <4>1. PICK r \in DOMAIN rules :
                /\ Same(rules[r], e)
                /\ \/ r \in changed[p]
                   \/ rules[r].active /\ rules[r].limit = e.limit
          BY <3>1 DEF Reflects
        <4>2. r \in DOMAIN rules' /\ Same(rules'[r], e)
          BY <2>1, <4>1 DEF Same
        <4>3. r \in changed'[p] \/ (rules'[r].active /\ rules'[r].limit = e.limit)
          BY <2>1, <4>1
        <4> QED
          BY <4>2, <4>3
      <3>3. ASSUME NEW r \in DOMAIN rules' \ changed'[p], rules'[r].active
            PROVE  \E e \in cache[p] : Same(rules'[r], e)
        <4>1. r \in DOMAIN rules /\ rules'[r] = rules[r] /\ r \notin changed[p]
          BY <2>1
        <4> QED
          BY <3>1, <3>3, <4>1 DEF Reflects
      <3> QED
        BY <2>1, <3>2, <3>3 DEF Reflects
    <2> QED
      BY <2>1, <2>2 DEF CacheInv, CacheReflectsRules, Reflects
  <1>3. ASSUME NEW a \in Admin, Starts(a) \/ ApiCallStep(a) \/ KeyCallStep(a)
                                \/ (Fail(a) /\ UNCHANGED allRows)
                                \/ (PeopleStep(a) /\ UNCHANGED configVars)
        PROVE  UNCHANGED ruleVars
    BY <1>3 DEF Starts, ApiCallStep, ApiStep, KeyCallStep, allRows, configVars
  <1>4. ASSUME (TimePasses /\ UNCHANGED configVars) \/ UNCHANGED <<requestVars, allRows>>
        PROVE  UNCHANGED ruleVars
    BY <1>4 DEF configVars, allRows
  <1> QED
    BY <1>1, <1>2, <1>3, <1>4, Loading, Steps

(***************************************************************************)
(* What a process enforces (rate-rule.service.ts, loadRuntimeRules) is an  *)
(* active rule or one saved since the process started, and every active    *)
(* rule not saved since is enforced: also when requests on rules overlap   *)
(* and fail, and processes start in between.                               *)
(***************************************************************************)
THEOREM CacheTheorem == Spec => []CacheReflectsRules
  <1> DEFINE Inv == RegistryInv /\ Single /\ FoundSame /\ CacheInv
  <1>1. Init => Inv
    <2>1. Init => CacheInv
      BY DEF Init, CacheInv, CacheReflectsRules
    <2> QED
      BY <2>1, RulesStart, RegistryStarts
  <1>2. Inv /\ [Next]_vars => Inv'
    BY RegistryStep, SingleStep, ScopeStep, CacheStep
  <1>3. Inv => CacheReflectsRules
    BY DEF CacheInv
  <1> QED
    BY <1>1, <1>2, <1>3, PTL DEF Spec
=============================================================================
