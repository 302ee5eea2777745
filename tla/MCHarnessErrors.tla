-------------------------- MODULE MCHarnessErrors --------------------------
(* Model checking of HarnessErrors: three sizes, so that a message may be    *)
(* longer than the one before it and shorter than the one behind it.         *)
EXTENDS HarnessErrors

ThreeSizes == {1, 2, 4}

=============================================================================
