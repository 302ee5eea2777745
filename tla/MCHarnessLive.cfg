\* Without symmetry: the properties are temporal.  The system may stop: once
\* the model is freed and the handles are released nothing is left to do.
SPECIFICATION FairSpec
CONSTANTS
  Jobs = {j1, j2}
  NoJob = NoJob
  LoadError = LoadError
  NoError = NoError
  MaxSteps = 1
PROPERTIES
  CancelledWhileWaitingNeverRuns
  CancelledBeforeVerdictNeverCompletes
  ImplementsService
  ImplementsFairService
CHECK_DEADLOCK FALSE
