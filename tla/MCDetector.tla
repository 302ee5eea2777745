----------------------------- MODULE MCDetector -----------------------------
(* Model checking of Detector: every picture of up to seven text pixels, two   *)
(* regions that both become boxes among them.                                *)
EXTENDS Detector

AllBitmaps == {b \in SUBSET Pixels : Cardinality(b) <= 7}

=============================================================================
