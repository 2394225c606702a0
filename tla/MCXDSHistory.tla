---------------------------- MODULE MCXDSHistory ----------------------------
(***************************************************************************)
(* XDSHistory on a small instance: the benchmark's and the scenarios'      *)
(* argument lists of SetClusterConfig, with distinct timeouts.             *)
(***************************************************************************)
EXTENDS XDSHistory, TLC

CONSTANTS w1, w2, p1, p2

\* A scenario configuration without options and a benchmark one with one.
MCConfigCalls ==
  {[timeoutMs |-> 5, healthChecks |-> FALSE, opts |-> {}],
   [timeoutMs |-> 0, healthChecks |-> TRUE, opts |-> {"ignoreHealthOnRemoval"}],
   [timeoutMs |-> 3, healthChecks |-> TRUE, opts |-> {"ignoreNewHostsUntilHC"}]}

MCOwned    == (w1 :> {p1}) @@ (w2 :> {p2})

=============================================================================
