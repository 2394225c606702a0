--------------------------- MODULE MCBackendPool ---------------------------
(***************************************************************************)
(* BackendPool on a small instance: two callers, two ports, three servers  *)
(* in all, so that one port is started again after a stop.                 *)
(***************************************************************************)
EXTENDS BackendPool

CONSTANTS c1, c2, p1, p2

=============================================================================
