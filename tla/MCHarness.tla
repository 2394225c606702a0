----------------------------- MODULE MCHarness -----------------------------
(***************************************************************************)
(* Harness on small instances: three hosts, where the widest scenario has  *)
(* eight, and every fault at most once.                                    *)
(***************************************************************************)
EXTENDS Harness

=============================================================================
