\* Texts of up to five pieces outside the harness, of up to three letters
\* through it, and requests of two members; paragraphs of more than two symbols
\* are over-long.  The system stops when the text is with translate.
SPECIFICATION Spec
CONSTANTS
  MaxSegment = 2
  Pieces <- LayoutPieces
  MaxPieces = 5
  Letters <- OcrLetters
  MaxLetters = 3
  Values <- HostValues
  MaxMembers = 2
  Defaults <- ModelDefaults
  Asked <- AskedBytes
  Smallest = 16
  Largest = 30
  Fallback = 24
  MaxUint32 = 50
INVARIANTS
  NothingLost
  BlocksSeparate
  OutputReadsBack
  MembersArrive
CHECK_DEADLOCK FALSE
