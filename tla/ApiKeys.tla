------------------------------ MODULE ApiKeys ------------------------------
(***************************************************************************)
(* The API keys: generateKey, revokeKey, rotate, rotateAll and what the    *)
(* guard of the gateway accepts.  The hash of a key is unique, so that a   *)
(* key is its row.                                                         *)
(***************************************************************************)
EXTENDS Apis

VARIABLES keys,     \* rows of api_keys, by id
          revoked   \* history: APIs one of whose keys was revoked by revokeKey

keyVars == <<keys, revoked>>

Live(i) == {k \in DOMAIN keys : keys[k].api = i /\ keys[k].active}

\* findByPlaintextKey: what ApiKeyGuard lets through.
Accepted(k) == keys[k].active /\ IsActive(keys[k].api)

GenerateKey(a, t, i) ==
    /\ Owned(i, t)
    /\ Begin(a, "key", <<"insertKey">>, [op |-> "generate", api |-> i])
    /\ UNCHANGED <<apis, keyVars>>

RevokeKey(a, t, k) ==
    /\ keys[k].active /\ apis[keys[k].api].tenant = t
    /\ Begin(a, "key", <<"saveKey">>,
             [op |-> "revoke", api |-> keys[k].api, key |-> k])
    /\ UNCHANGED <<apis, keyVars>>

\* The API of the key need not be active.
Rotate(a, t, k) ==
    /\ keys[k].active /\ apis[keys[k].api].tenant = t
    /\ Begin(a, "key", <<"saveKey", "insertKey">>,
             [op |-> "rotate", api |-> keys[k].api, key |-> k])
    /\ UNCHANGED <<apis, keyVars>>

\* Faulty variant: the new key is saved before the old ones are revoked.
RotateAllInsertsFirst(a, t, i) ==
    /\ Owned(i, t)
    /\ Begin(a, "key", <<"insertKey", "updateKeys">>,
             [op |-> "rotateAll", api |-> i])
    /\ UNCHANGED <<apis, keyVars>>

RotateAll(a, t, i) ==
    /\ Owned(i, t)
    /\ Begin(a, "key", <<"updateKeys", "insertKey">>,
             [op |-> "rotateAll", api |-> i])
    /\ UNCHANGED <<apis, keyVars>>

SaveKey(a) ==
    /\ Due(a, "saveKey")
    /\ keys' = [keys EXCEPT ![call[a].key].active = FALSE]
    /\ revoked' = IF call[a].op = "revoke" THEN revoked \cup {call[a].api}
                  ELSE revoked
    /\ Proceed(a)
    /\ UNCHANGED <<apis, calls, failures, marks>>

UpdateKeys(a) ==
    /\ Due(a, "updateKeys")
    /\ keys' = [k \in DOMAIN keys |->
                  [keys[k] EXCEPT !.active = @ /\ k \notin Live(call[a].api)]]
    /\ Proceed(a)
    /\ UNCHANGED <<apis, calls, failures, marks, revoked>>

\* Faulty variant: the rotated key itself is saved, with a new hash.
InsertKeyOverOld(a) ==
    /\ Due(a, "insertKey")
    /\ keys' = IF call[a].op = "rotate"
               THEN [keys EXCEPT ![call[a].key].active = TRUE]
               ELSE Append(keys, [api |-> call[a].api, active |-> TRUE])
    /\ Proceed(a)
    /\ UNCHANGED <<apis, calls, failures, marks, revoked>>

InsertKey(a) ==
    /\ Due(a, "insertKey")
    /\ keys' = Append(keys, [api |-> call[a].api, active |-> TRUE])
    /\ Proceed(a)
    /\ UNCHANGED <<apis, calls, failures, marks, revoked>>

KeyRequest(a, t) ==
    \/ \E i \in DOMAIN apis : GenerateKey(a, t, i) \/ RotateAll(a, t, i)
    \/ \E k \in DOMAIN keys : RevokeKey(a, t, k) \/ Rotate(a, t, k)

KeyStep(a) == SaveKey(a) \/ UpdateKeys(a) \/ InsertKey(a)

(***************************************************************************)
(* An API that had a key has one, unless revokeKey took its keys away, a   *)
(* request failed half way, or a rotation is about to save the new key:    *)
(* rotations that overlap never leave it without one.                      *)
(***************************************************************************)
RotationKeepsKey ==
    \A i \in {keys[k].api : k \in DOMAIN keys} :
        \/ Live(i) # {}
        \/ i \in revoked \/ failures > 0
        \/ \E a \in Admin : /\ call[a].kind = "key" /\ call[a].api = i
                            /\ call[a].todo = <<"insertKey">>

(***************************************************************************)
(* A key that was revoked is never accepted again, whatever happens to it  *)
(* and to its API, in requests that overlap or fail.                       *)
(***************************************************************************)
RevocationIsFinal ==
    [][\A k \in DOMAIN keys : ~keys[k].active => ~Accepted(k)']_keys
=============================================================================
