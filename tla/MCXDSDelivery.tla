--------------------------- MODULE MCXDSDelivery ---------------------------
(***************************************************************************)
(* XDSDelivery on a small instance: two workers that own one port each,    *)
(* one cluster configuration, one broken stream.                           *)
(***************************************************************************)
EXTENDS XDSDelivery

CONSTANTS w1, w2, p1, p2

MCConfigCalls ==
  {[timeoutMs |-> 3, healthChecks |-> TRUE, opts |-> {"ignoreHealthOnRemoval"}]}

MCOwned == [w \in Workers |-> IF w = w1 THEN {p1} ELSE {p2}]

=============================================================================
