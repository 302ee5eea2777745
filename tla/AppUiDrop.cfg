\* A drop while an operation is active.  The system may stop: the
\* window is gone.
SPECIFICATION Spec
CONSTANTS
  Images = {i1, i2}
  Typed = Typed
  Nothing = Nothing
INVARIANT
  OverlayOfShownImage
CHECK_DEADLOCK FALSE
