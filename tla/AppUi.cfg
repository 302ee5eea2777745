\* Without symmetry: there are temporal properties.  The system may stop: the
\* window is gone.
SPECIFICATION FairSpec
CONSTANTS
  Images = {i1, i2}
  Typed = Typed
  Nothing = Nothing
INVARIANTS
  WorkerFindsEngine
  ResultMeansFinished
  CancelledWasClicked
  NothingOfAnotherImage
PROPERTIES
  ControlsComeBack
  CloseEnds
CHECK_DEADLOCK FALSE
