-------------------------- MODULE MCXDSController --------------------------
(***************************************************************************)
(* XDSController on a small instance: two workers whose calls overlap,    *)
(* each with a port of its own, and two configurations.                    *)
(***************************************************************************)
EXTENDS XDSController

CONSTANTS w1, w2, p1, p2

\* An isolated scenario's argument list and the benchmark's with an option.
MCConfigCalls ==
  {[timeoutMs |-> 5, healthChecks |-> FALSE, opts |-> {}],
   [timeoutMs |-> 0, healthChecks |-> TRUE, opts |-> {"ignoreHealthOnRemoval"}]}

\* Every other worker has a port of its own.
MCOwned == [w \in Workers |-> IF w = w1 THEN {p1} ELSE {p2}]

=============================================================================
