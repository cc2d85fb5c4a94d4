----------------------------- MODULE MCAuditLog -----------------------------
(* AuditLog on small instances.                                            *)
EXTENDS AuditLog

CONSTANTS w1, w2, q1

TwoWorkers == {w1, w2}
OneReader == {q1}
=============================================================================
