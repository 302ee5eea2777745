----------------------------- MODULE MCHarness -----------------------------
(* Model checking of Harness and of the service it implements: three        *)
(* interchangeable jobs for safety.                                          *)
EXTENDS HarnessRefinement, TLC

JobSymmetry == Permutations(Jobs)

=============================================================================
