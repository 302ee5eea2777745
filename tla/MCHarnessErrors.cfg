\* Two models whose jobs fail at about the same time.  The system may stop: the
\* failures are bounded, and a job that fails after the last of them waits for
\* ever.
SPECIFICATION FairSpec
CONSTANTS
  Models = {m1, m2}
  Sizes <- ThreeSizes
  MaxErrors = 5
INVARIANTS
  MessageIsWholeAndNew
PROPERTIES
  HostGetsMessage
CHECK_DEADLOCK FALSE
