------------------------------ MODULE MCTunnel ------------------------------
(* Tunnel for TLC.  Two dial failures stand for the ten of the code: the   *)
(* give-up test and the missing reset need two.  Two successful dials give *)
(* a pair that runs while a second one is set up, and two Stop calls show  *)
(* that Stop is idempotent and races the reaper's own cleanup.             *)
EXTENDS Tunnel

MCMaxDialErrors == 2
MCMaxDials == 2
MCMaxStops == 2
=============================================================================
