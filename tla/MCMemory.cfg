\* Either model fits the ceiling, both together do not; other programs come and
\* go, and the backend may fail to report.
SPECIFICATION Spec
CONSTANTS
  Size <- ModelSizes
  Total = 8
  Maximum = 4
  OtherUse <- SomeOthers
  Readings <- MayNotReport
INVARIANTS
  CeilingEnforced
  PeakCoversLoaded
