\* Every picture of up to seven text pixels; up to two boxes, with every order of
\* theirs.  The system stops when the extraction is done.
SPECIFICATION Spec
CONSTANTS
  Width = 4
  Height = 3
  Bitmaps <- AllBitmaps
  Ordinates = {1, 2}
  MaxCandidates = 2
INVARIANTS
  BlobsWhole
  EveryBlobJudged
  ReadingOrder
CHECK_DEADLOCK FALSE
