-------------------------- MODULE MCConnectivity --------------------------
(* Connectivity for TLC: two checks, so that one that timed out can overlap   *)
(* the next.                                                                  *)
EXTENDS Connectivity

CONSTANTS c1, c2
============================================================================
