----------------------------- MODULE MCIpBlock -----------------------------
(* IpBlock on small instances.                                             *)
EXTENDS IpBlock, TLC

CONSTANTS r1, r2, r3, a1, a2

Symmetry == Permutations(Request) \cup Permutations(Admin)

OneRequest == {r1}
TwoRequests == {r1, r2}
ThreeRequests == {r1, r2, r3}
NoAdmin == {}
OneAdmin == {a1}
TwoAdmins == {a1, a2}

\* A permanent block and one of two seconds.
ForeverOr4 == {Forever, 4}
OnlyForever == {Forever}
=============================================================================
