----------------------------- MODULE RateRules -----------------------------
(***************************************************************************)
(* The rate rules, and the copy each process of the API makes of them when *)
(* it starts and then enforces.  The administrators' requests change rows; *)
(* no process reads them again.                                            *)
(***************************************************************************)
EXTENDS Apis

CONSTANTS Scope, Limit, Process

VARIABLES rules,    \* rows of rate_rules, by id
          cache,    \* cache[p]: runtimeCache of process p, a set of entries
          changed   \* history: changed[p]: rules saved since p loaded them

ruleVars == <<rules, cache, changed>>

Same(rule, other) == rule.api = other.api /\ rule.scope = other.scope
Changed(r) == changed' = [p \in Process |-> changed[p] \cup {r}]

(***************************************************************************)
(* RateRuleController.createOrUpdateRule and disableRule: both first look  *)
(* for the API.                                                            *)
(***************************************************************************)
CreateOrUpdateRule(a, t, i, s, limit) ==
    /\ Owned(i, t)
    /\ Begin(a, "rule", <<"findRule", "saveRule">>,
             [id |-> 0, row |-> [api |-> i, scope |-> s, limit |-> limit,
                                 active |-> TRUE]])
    /\ UNCHANGED <<apis, ruleVars>>

\* Faulty variant: a disabled rule is not found.
FindActiveRule(a) ==
    /\ Due(a, "findRule")
    /\ LET row == call[a].row
           same == {r \in DOMAIN rules : Same(rules[r], row) /\ rules[r].active}
       IN  \E r \in (IF same = {} THEN {0} ELSE same) :
             call' = [call EXCEPT ![a].todo = Tail(@), ![a].id = r]
    /\ UNCHANGED <<apis, calls, failures, marks, ruleVars>>

\* findOne returns any rule of the scope, active or not.
FindRule(a) ==
    /\ Due(a, "findRule")
    /\ LET row == call[a].row
           same == {r \in DOMAIN rules : Same(rules[r], row)}
       IN  \E r \in (IF same = {} THEN {0} ELSE same) :
             call' = [call EXCEPT ![a].todo = Tail(@), ![a].id = r]
    /\ UNCHANGED <<apis, calls, failures, marks, ruleVars>>

SaveRule(a) ==
    /\ Due(a, "saveRule")
    /\ LET r == IF call[a].id = 0 THEN Len(rules) + 1 ELSE call[a].id
       IN  /\ rules' = IF r > Len(rules) THEN Append(rules, call[a].row)
                       ELSE [rules EXCEPT ![r] = call[a].row]
           /\ Changed(r)
    /\ Proceed(a)
    /\ UNCHANGED <<apis, calls, failures, marks, cache>>

\* The rule need not be one of the API.
DisableRule(a, t, i, r) ==
    /\ Owned(i, t)
    /\ Begin(a, "rule", <<"updateRule">>, [id |-> r])
    /\ UNCHANGED <<apis, ruleVars>>

UpdateRule(a) ==
    /\ Due(a, "updateRule")
    /\ rules' = [rules EXCEPT ![call[a].id].active = FALSE]
    /\ Changed(call[a].id)
    /\ Proceed(a)
    /\ UNCHANGED <<apis, calls, failures, marks, cache>>

(***************************************************************************)
(* loadRuntimeRules, when a process starts.  Of several rules of one scope *)
(* the one that comes last in the result stays.                            *)
(***************************************************************************)
Entry(rule) == [api |-> rule.api, scope |-> rule.scope, limit |-> rule.limit]

\* Faulty variant: disabled rules are loaded as well.
LoadAllRules(p) ==
    /\ \E chosen \in SUBSET DOMAIN rules :
         /\ \A r \in DOMAIN rules :
              \E c \in chosen : Same(rules[r], rules[c])
         /\ \A r, c \in chosen : Same(rules[r], rules[c]) => r = c
         /\ cache' = [cache EXCEPT ![p] = {Entry(rules[r]) : r \in chosen}]
    /\ changed' = [changed EXCEPT ![p] = {}]
    /\ UNCHANGED <<requestVars, apis, rules>>

LoadRuntimeRules(p) ==
    /\ \E chosen \in SUBSET {r \in DOMAIN rules : rules[r].active} :
         /\ \A r \in DOMAIN rules : rules[r].active =>
              \E c \in chosen : Same(rules[r], rules[c])
         /\ \A r, c \in chosen : Same(rules[r], rules[c]) => r = c
         /\ cache' = [cache EXCEPT ![p] = {Entry(rules[r]) : r \in chosen}]
    /\ changed' = [changed EXCEPT ![p] = {}]
    /\ UNCHANGED <<requestVars, apis, rules>>

RuleRequest(a, t) ==
    \E i \in DOMAIN apis :
      \/ \E s \in Scope, limit \in Limit : CreateOrUpdateRule(a, t, i, s, limit)
      \/ \E r \in DOMAIN rules : DisableRule(a, t, i, r)

RuleStep(a) == FindRule(a) \/ SaveRule(a) \/ UpdateRule(a)

(***************************************************************************)
(* A scope of an API has one rule, however often it is set, disabled and   *)
(* set again, unless requests on rules overlapped.                         *)
(***************************************************************************)
OneRulePerScope ==
    \/ \A r, q \in DOMAIN rules : Same(rules[r], rules[q]) => r = q
    \/ "rule" \in marks

(***************************************************************************)
(* What a process enforces is an active rule, or one that was saved since  *)
(* the process started; and it enforces a limit wherever there is an       *)
(* active rule that was there when it started.                             *)
(***************************************************************************)
CacheReflectsRules ==
    \A p \in Process :
        /\ \A e \in cache[p] : \E r \in DOMAIN rules :
             /\ Same(rules[r], e)
             /\ \/ r \in changed[p]
                \/ rules[r].active /\ rules[r].limit = e.limit
        /\ \A r \in DOMAIN rules \ changed[p] : rules[r].active =>
             \E e \in cache[p] : Same(rules[r], e)
=============================================================================
