---------------------------- MODULE MCInitToken ----------------------------
(* Three operations of vault-helper and two changes by others: enough    *)
(* for Ensure, Delete and a dry run, with a revocation or an edit between. *)
EXTENDS InitToken

MCMaxOps == 3
MCMaxEnv == 2
====
