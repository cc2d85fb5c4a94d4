-------------------------- MODULE MCAbuseProcessor --------------------------
(* AbuseProcessor on small instances: low thresholds, short windows.       *)
EXTENDS AbuseProcessor, TLC

CONSTANTS w1, w2, api1, api2, ip1, key1

OneWorker == {w1}
TwoWorkers == {w1, w2}
OneApi == {api1}
TwoApis == {api1, api2}
OneIp == {ip1}
OneKey == {key1}
NoKeys == {}

Symmetry == Permutations(Worker)

\* Requests that failed, without an API key.
Failing == [api : Api, ip : Ip, key : {NoKey}, error : {TRUE}]
\* The same, and a request to the other API that carries a key.
FailingOrKeyed ==
    {[api |-> api1, ip |-> ip1, key |-> NoKey, error |-> TRUE],
     [api |-> api2, ip |-> ip1, key |-> key1, error |-> FALSE]}

Detectors(spike, error, breadth, key) ==
    [d \in Detector |-> CASE d = "spike" -> spike [] d = "error" -> error
                          [] d = "breadth" -> breadth [] d = "key" -> key]

FirstErrorBlocks == Detectors(2, 1, 2, 1)
ShortWindows == Detectors(1, 2, 2, 2)
ShortBlocks == Detectors(1, 1, 2, 1)
BothReadiness == {TRUE, FALSE}
=============================================================================
