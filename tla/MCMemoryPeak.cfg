\* Nothing but the engine uses the device, and every reading is reliable.
SPECIFICATION Spec
CONSTANTS
  Size <- ModelSizes
  Total = 8
  Maximum = 4
  OtherUse <- NoOthers
  Readings <- AlwaysReports
INVARIANT
  RefusedOnlyOverBudget
