------------------------------ MODULE MCBench ------------------------------
(***************************************************************************)
(* Bench on a small instance.  A load generator with two workers has a     *)
(* channel of four, so five ticks can find it full.  The warm-up is        *)
(* shorter than the test, as long, or longer; the healthy new backends are *)
(* fewer than the new ports, all of them, or more.                         *)
(***************************************************************************)
EXTENDS Bench

CONSTANTS w1, w2

Line(scenarios, warmup, healthy) ==
  [Scenarios |-> scenarios, WarmupDuration |-> warmup, HealthyCount |-> healthy]

MCConfigs == {
  Line(<<"ignore-hc-true", "timeout-3000ms">>, 1, 1),
  Line(<<"ignore-hc-false">>, 3, 2),
  Line(<<"ignore-hc-false">>, 2, 2),
  Line(<<"ignore-hc-true">>, 1, 3),
  Line(<<"ignore-hc-true", "timeout-0ms">>, 1, 1)}

=============================================================================
