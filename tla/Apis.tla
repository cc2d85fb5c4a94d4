-------------------------------- MODULE Apis --------------------------------
(***************************************************************************)
(* The APIs of the tenants and the requests on them.  A name stands for    *)
(* the name and the environment of an API; t is the tenant of the token    *)
(* with which the request is made.                                         *)
(***************************************************************************)
EXTENDS Tenants

CONSTANTS Name,
          ApiBody   \* bodies of POST /apis and PATCH /apis/:id

VARIABLE apis   \* rows of apis, by id

ApiRow == [tenant : DOMAIN tenants, name : Name, isActive : BOOLEAN]

IsActive(i) == i \in DOMAIN apis /\ apis[i].isActive

\* findOne.
Owned(i, t) == IsActive(i) /\ apis[i].tenant = t

\* What the duplicate checks look for.
Named(t, n) == {i \in DOMAIN apis : Owned(i, t) /\ apis[i].name = n}

\* The row as it is when a request begins to write it.
ApiAt(id, entity) == IF id \in DOMAIN apis THEN apis[id] ELSE entity

(***************************************************************************)
(* create.  A body with an id makes save write that row.  One without a    *)
(* name is left out: it is refused more often, and does to the row of its  *)
(* id what one with the name of that row does.                             *)
(***************************************************************************)
Create(a, t, body) ==
    LET row == [tenant |-> t, name |-> body.name, isActive |-> TRUE]
    IN  /\ "name" \in DOMAIN body /\ row \in ApiRow
        /\ Named(t, row.name) = {}
        /\ IF "id" \in DOMAIN body
           THEN /\ body.id \in 1..Len(apis) + 1
                /\ Begin(a, "api", <<"saveApi">>,
                         [id |-> body.id, read |-> ApiAt(body.id, row), entity |-> row,
                          free |-> {<<t, row.name>>}])
           ELSE Begin(a, "api", <<"insertApi">>, [row |-> row])
        /\ UNCHANGED apis

InsertApi(a) ==
    /\ Due(a, "insertApi")
    /\ apis' = Append(apis, call[a].row)
    /\ Proceed(a)
    /\ UNCHANGED <<calls, failures, marks>>

(***************************************************************************)
(* update: find the API, look for another one of its new name in the       *)
(* tenant, save.  What was found free is free for this API only, and in    *)
(* this tenant.  Values that no row can have make save reject.             *)
(***************************************************************************)
Update(a, t, i, body) ==
    LET id == Target(body, i)
        entity == Assigned(body, apis[i])
    IN  /\ Owned(i, t)
        /\ id \in 1..Len(apis) + 1 /\ entity \in ApiRow
        /\ Begin(a, "api", <<"findDuplicate", "saveApi">>,
                 [id |-> id, read |-> ApiAt(id, entity), entity |-> entity,
                  api |-> i, tenant |-> t,
                  free |-> {<<t, entity.name>> : x \in {i} \cap {id}}])
        /\ UNCHANGED apis

\* Faulty variant: the duplicate check is forgotten.
FindDuplicateNever(a) ==
    /\ Due(a, "findDuplicate")
    /\ Proceed(a)
    /\ UNCHANGED <<apis, calls, failures, marks>>

FindDuplicate(a) ==
    /\ Due(a, "findDuplicate")
    /\ LET same == Named(call[a].tenant, call[a].entity.name)
       IN  IF same \subseteq {call[a].api} THEN Proceed(a)
           ELSE \E duplicate \in same :   \* findOne: any of them
                  IF duplicate = call[a].api THEN Proceed(a) ELSE Done(a)
    /\ UNCHANGED <<apis, calls, failures, marks>>

(***************************************************************************)
(* setApiActiveStatus and remove.                                          *)
(***************************************************************************)
Switch(a, i, isActive) ==
    /\ Begin(a, "api", <<"saveApi">>,
             [id |-> i, read |-> apis[i], free |-> {},
              entity |-> [apis[i] EXCEPT !.isActive = isActive]])
    /\ UNCHANGED apis

SetApiActiveStatus(a, t, i, isActive) == apis[i].tenant = t /\ Switch(a, i, isActive)

Remove(a, t, i) == Owned(i, t) /\ Switch(a, i, FALSE)

\* Faulty variant: an API that is no longer active is deleted.
SaveApiDeletes(a) ==
    /\ Due(a, "saveApi")
    /\ LET i == call[a].id
       IN  apis' = IF call[a].entity.isActive
                   THEN [apis EXCEPT ![i] = call[a].entity]
                   ELSE [j \in DOMAIN apis \ {i} |-> apis[j]]
    /\ Proceed(a)
    /\ UNCHANGED <<calls, failures, marks>>

\* The row is active under a name, in a tenant, that this request did not
\* find free.
Unchecked(a, row) ==
    /\ row.isActive /\ <<row.tenant, row.name>> \notin call[a].free
    /\ ~ /\ IsActive(call[a].id)
         /\ apis[call[a].id].tenant = row.tenant /\ apis[call[a].id].name = row.name

SaveApi(a) ==
    /\ Due(a, "saveApi")
    /\ LET i == call[a].id
       IN  \E row \in IF i \in DOMAIN apis THEN Saved(a, apis[i]) ELSE {call[a].entity} :
             /\ apis' = IF i \in DOMAIN apis THEN [apis EXCEPT ![i] = row]
                        ELSE Append(apis, row)
             /\ marks' = IF Unchecked(a, row) THEN marks \cup {"unchecked"} ELSE marks
    /\ Proceed(a)
    /\ UNCHANGED <<calls, failures>>

ApiRequest(a, t) ==
    \/ \E body \in ApiBody : Create(a, t, body)
    \/ \E i \in DOMAIN apis :
         \/ \E body \in ApiBody : Update(a, t, i, body)
         \/ \E b \in BOOLEAN : SetApiActiveStatus(a, t, i, b)
         \/ Remove(a, t, i)

ApiStep(a) == InsertApi(a) \/ FindDuplicate(a) \/ SaveApi(a)

(***************************************************************************)
(* Two active APIs of a tenant have the same name only if requests on APIs *)
(* overlapped, or a request made one active, or brought it to its tenant   *)
(* or name, without finding the name free: setApiActiveStatus looks for no *)
(* duplicates, and an update looks for the body's name but not in the      *)
(* body's tenant and not for the row of the body's id.                     *)
(***************************************************************************)
NamesAreUnique ==
    \/ \A i, j \in DOMAIN apis :
         /\ IsActive(i) /\ IsActive(j)
         /\ apis[i].tenant = apis[j].tenant /\ apis[i].name = apis[j].name
         => i = j
    \/ "api" \in marks \/ "unchecked" \in marks
=============================================================================
