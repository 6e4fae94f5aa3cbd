----------------------------- MODULE MCHostRun ------------------------------
(* HostRun for TLC. *)
EXTENDS HostRun
=============================================================================
