------------------------------ MODULE MCMemory ------------------------------
(* Model checking of Memory: the OCR model with its projector is the larger. *)
EXTENDS Memory

ModelSizes == [m \in Models |-> IF m = "ocr" THEN 3 ELSE 2]

NoOthers      == {0}
SomeOthers    == {0, 1, 3}
AlwaysReports == {TRUE}
MayNotReport  == BOOLEAN

=============================================================================
