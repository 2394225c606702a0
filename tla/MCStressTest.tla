---------------------------- MODULE MCStressTest ----------------------------
(***************************************************************************)
(* StressTest on small instances: two or three ports, two to four jobs and *)
(* a part of the scenario mix.                                             *)
(***************************************************************************)
EXTENDS StressTest, TLC

CONSTANTS p1, p2, j1, j2, j3

\* Ports and goroutines are interchangeable.
Symmetry == Permutations(Ports) \cup Permutations(Jobs)

=============================================================================
