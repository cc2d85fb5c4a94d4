----------------------------- MODULE MCGateway -----------------------------
(* Gateway on small instances.                                             *)
EXTENDS Gateway, TLC

CONSTANTS r1, r2, a1, key1, key2

TwoRequests == {r1, r2}
OneAdmin == {a1}
OneKey == {key1}
TwoKeys == {key1, key2}
Symmetry == Permutations(Request) \cup Permutations(ApiKey)
OnlyForever == {Forever}

\* A rule with a burst limit for each key, and one for the IP; the user's.
KeyAndIpRules ==
    [d \in Dimension |->
       CASE d = "api"     -> [window |-> 0, bucket |-> 0]
         [] d = "api_key" -> [window |-> 1, bucket |-> 1]
         [] d = "user"    -> [window |-> 1, bucket |-> 1]
         [] d = "ip"      -> [window |-> 0, bucket |-> 1]]
=============================================================================
