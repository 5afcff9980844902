---------------------------- MODULE MCTerraform ----------------------------
(* Model-checking instance of Terraform: two public calls per behaviour   *)
(* (a plan then an apply, a reset between calls, a failed call followed   *)
(* by one that prepares again) and two socket files, so that a reset     *)
(* creates a second one.                                                  *)
EXTENDS Terraform

MCMaxOps == 2
MCMaxSockets == 2
=============================================================================
