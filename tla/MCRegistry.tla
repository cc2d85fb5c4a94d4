---------------------------- MODULE MCRegistry ----------------------------
(* Registry on small instances.  Bodies name a column each, or an id and   *)
(* what the row of that id needs besides.                                  *)
EXTENDS Registry, TLC

CONSTANTS a1, a2, p1, n1, n2, e1

TwoAdmins == {a1, a2}
OneNewcomer == {e1}
OneProcess == {p1}
TwoNames == {n1, n2}

TenantBodies ==
    {<<>>} \cup [killSwitch : BOOLEAN] \cup [id : {1, 2}, status : {"suspended"}]
UserBodies ==
    [role : Role] \cup [status : {"disabled"}] \cup [tenant : {2}]
      \cup [id : {a1, a2, e1}, email : {e1}]
ApiBodies ==
    [name : TwoNames] \cup [tenant : {2}] \cup [isActive : BOOLEAN]
      \cup [id : {1, 2}, name : TwoNames]

Symmetry == Permutations(TwoAdmins)
=============================================================================
