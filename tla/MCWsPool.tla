------------------------------ MODULE MCWsPool ------------------------------
(* The instance of WsPool that TLC checks.  Clients and task slots are     *)
(* interchangeable, but the run checks liveness, where symmetry is unsound.*)
EXTENDS WsPool

=============================================================================
