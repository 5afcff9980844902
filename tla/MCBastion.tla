------------------------------ MODULE MCBastion ------------------------------
(* Two concurrent requests, and three attempts: enough for a failure       *)
(* before a success, and for a run of failures that exhausts the bound.    *)
EXTENDS Bastion

CONSTANTS c1, c2

MCCalls == {c1, c2}
MCRetries == 3
=============================================================================
