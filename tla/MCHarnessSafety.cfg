\* Safety only, so the jobs are symmetric.  The system may stop: once the
\* model is freed and the handles are released nothing is left to do.
SPECIFICATION Spec
CONSTANTS
  Jobs = {j1, j2, j3}
  NoJob = NoJob
  LoadError = LoadError
  NoError = NoError
  MaxSteps = 1
SYMMETRY JobSymmetry
INVARIANTS
  TypeOK
  InFlightBounded
  FinishedInOrder
  OutputMatchesState
  DeletedModelQuiescent
  CancelledHasCause
CHECK_DEADLOCK FALSE
