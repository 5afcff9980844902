------------------------------- MODULE MCKMS -------------------------------
(* Three concurrent invocations against one account, three key ids.       *)
EXTENDS KMS

CONSTANTS r1, r2, r3, k1, k2, k3

MCRuns == {r1, r2, r3}
MCKeys == {k1, k2, k3}
====
