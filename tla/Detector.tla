------------------------------ MODULE Detector ------------------------------
(***************************************************************************)
(* extract_detection_boxes: how the furigana backend makes text regions of *)
(* the detector's probability map (src/src/engine/furigana_ocr.cpp).       *)
(*                                                                         *)
(* The pixels above the threshold are split into blobs by a flood fill     *)
(* with a stack of its own; a blob that is large enough becomes a box, and *)
(* the boxes are put into reading order.  Another thread may cancel at any *)
(* moment.  The stack is a set here: pixels may be taken from it in any    *)
(* order.  The geometry of a box - hull, rotated rectangle, score,         *)
(* unclipping - is whatever it may come to: the blob is refused, or has    *)
(* any centre line and left edge.                                          *)
(***************************************************************************)
EXTENDS Integers, FiniteSets, Sequences

CONSTANTS Width, Height,   \* of the map
          Bitmaps,         \* which pixels may be above the threshold
          Ordinates,       \* the centre lines and left edges boxes may have
          MaxCandidates    \* max_candidates

ASSUME SizeAssumption   == Width \in Nat \ {0} /\ Height \in Nat \ {0}

Pixels == 0..(Width * Height - 1)

ASSUME BitmapAssumption == Bitmaps \subseteq SUBSET Pixels
ASSUME BoundsAssumption == Ordinates \subseteq Nat /\ MaxCandidates \in Nat \ {0}

VARIABLES
  bitmap,     \* the pixels above the threshold
  row,        \* how many rows the thresholding has done
  active,     \* those it has found and no blob has taken
  start,      \* how far the scan for blobs is
  stack,      \* pixels of the present blob yet to be looked at
  component,  \* and those that have been
  pc,         \* "rows", "seek", "flood", "judge", "sort", "done"
  boxes,      \* the boxes found so far, each with its blob
  cancelRequested,
  judged,     \* history: the blobs so far
  cut         \* history: a check has seen the flag

scanVars    == <<active, start, stack, component>>
historyVars == <<judged, cut>>
vars == <<bitmap, row, scanVars, pc, boxes, cancelRequested, historyVars>>

Init ==
  /\ bitmap \in Bitmaps
  /\ row = 0 /\ active = {} /\ start = 0
  /\ stack = {} /\ component = {}
  /\ pc = "rows" /\ boxes = <<>>
  /\ cancelRequested \in BOOLEAN
  /\ judged = {} /\ cut = FALSE

X(p) == p % Width
Y(p) == p \div Width

-----------------------------------------------------------------------------
(* Plausible bugs.                                                         *)

\* neighbours by distance in memory only: rows run into each other
NeighborsInMemory(p) ==
  {q \in Pixels \ {p} : \E d \in {1, Width - 1, Width, Width + 1} :
                           q = p + d \/ p = q + d}
\* a pixel is taken off the bitmap when it is looked at, not when it is found
ClaimedLate(p, found) == active \ {p}
\* boxes of one line are left in the order of their blobs
BeforeByCentre(a, b) == a.centre < b.centre

-----------------------------------------------------------------------------

\* The eight pixels around p that are in the map.
Neighbors(p) ==
  {q \in Pixels \ {p} : /\ X(p) <= X(q) + 1 /\ X(q) <= X(p) + 1
                        /\ Y(p) <= Y(q) + 1 /\ Y(q) <= Y(p) + 1}

\* What a cancelled extraction returns.
GivenUp == <<>>

GiveUp == /\ cancelRequested
          /\ boxes' = GivenUp /\ cut' = TRUE
          /\ pc' = "done"

RowsLeft == row < Height

\* One row of the map, after a check.
ThresholdRow ==
  /\ pc = "rows" /\ RowsLeft /\ ~cancelRequested
  /\ active' = active \cup {p \in bitmap : Y(p) = row}
  /\ row' = row + 1
  /\ UNCHANGED <<bitmap, start, stack, component, pc, boxes, cancelRequested,
                 historyVars>>

ThresholdCancelled ==
  /\ pc = "rows" /\ RowsLeft
  /\ GiveUp
  /\ UNCHANGED <<bitmap, row, scanVars, cancelRequested, judged>>

Thresholded ==
  /\ pc = "rows" /\ row = Height
  /\ pc' = "seek"
  /\ UNCHANGED <<bitmap, row, scanVars, boxes, cancelRequested, historyVars>>

\* The scan goes on to the next pixel that is still active ...
Seek ==
  /\ pc = "seek"
  /\ \E p \in active :
       /\ p >= start /\ \A q \in active : q >= start => p <= q
       /\ start' = p + 1
       /\ active' = active \ {p}
       /\ stack' = {p} /\ component' = {}
  /\ pc' = "flood"
  /\ UNCHANGED <<bitmap, row, boxes, cancelRequested, historyVars>>

\* ... or to the end.
SeekEnd ==
  /\ pc = "seek" /\ \A q \in active : q < start
  /\ pc' = "sort"
  /\ UNCHANGED <<bitmap, row, scanVars, boxes, cancelRequested, historyVars>>

\* A pixel found around another is claimed at once.
Claimed(p, found) == active \ found

Flood ==
  /\ pc = "flood"
  /\ \E p \in stack :
       LET found == active \cap Neighbors(p)
       IN  /\ stack' = (stack \ {p}) \cup found
           /\ component' = component \cup {p}
           /\ active' = Claimed(p, found)
  /\ UNCHANGED <<bitmap, row, start, pc, boxes, cancelRequested, historyVars>>

Flooded ==
  /\ pc = "flood" /\ stack = {}
  /\ pc' = "judge"
  /\ UNCHANGED <<bitmap, row, scanVars, boxes, cancelRequested, historyVars>>

\* The check after each blob.
JudgeCancelled ==
  /\ pc = "judge"
  /\ GiveUp
  /\ UNCHANGED <<bitmap, row, scanVars, cancelRequested, judged>>

\* Fewer than three pixels, or a geometry or score that does not do.
Refused ==
  /\ pc = "judge" /\ ~cancelRequested
  /\ judged' = judged \cup {component}
  /\ pc' = "seek"
  /\ UNCHANGED <<bitmap, row, scanVars, boxes, cancelRequested, cut>>

Accepted ==
  /\ pc = "judge" /\ ~cancelRequested
  /\ Cardinality(component) >= 3
  /\ \E centre \in Ordinates, left \in Ordinates :
       boxes' = Append(boxes, [blob |-> component, centre |-> centre, left |-> left])
  /\ judged' = judged \cup {component}
  /\ pc' = IF Len(boxes') >= MaxCandidates THEN "sort" ELSE "seek"
  /\ UNCHANGED <<bitmap, row, scanVars, cancelRequested, cut>>

\* By centre line, then by left edge.
Before(a, b) == a.centre < b.centre \/ (a.centre = b.centre /\ a.left < b.left)

\* What sorting may make of some boxes.
Permuted(bs) == {[i \in DOMAIN bs |-> bs[f[i]]] :
                   f \in {g \in [DOMAIN bs -> DOMAIN bs] :
                            \A i, j \in DOMAIN bs : g[i] = g[j] => i = j}}
Sorted(bs) == {t \in Permuted(bs) :
                 \A i \in DOMAIN t : \A j \in 1..(i - 1) : ~Before(t[i], t[j])}

Sort ==
  /\ pc = "sort"
  /\ boxes' \in Sorted(boxes)
  /\ pc' = "done"
  /\ UNCHANGED <<bitmap, row, scanVars, cancelRequested, historyVars>>

Cancel ==
  /\ ~cancelRequested
  /\ cancelRequested' = TRUE
  /\ UNCHANGED <<bitmap, row, scanVars, pc, boxes, historyVars>>

Extract == \/ ThresholdRow \/ ThresholdCancelled \/ Thresholded
           \/ Seek \/ SeekEnd \/ Flood \/ Flooded
           \/ JudgeCancelled \/ Refused \/ Accepted \/ Sort

Next == Extract \/ Cancel

Spec == Init /\ [][Next]_vars

-----------------------------------------------------------------------------
(* Properties.                                                             *)

\* No pixel is in two places: it is yet to be claimed, waits on the stack, is in
\* the present blob, or in one that is done.  So the stack never holds more than
\* the map, and no blob has a pixel twice.
NoPixelTwice ==
  /\ active \cap (stack \cup component) = {}
  /\ stack \cap component = {}
  /\ \A b \in judged : b \cap (active \cup stack) = {}
  /\ \A b, c \in judged : b = c \/ b \cap c = {}

\* Two pixels that share an edge or a corner.
Touch(p, q) == /\ p # q
               /\ X(p) - X(q) \in -1..1
               /\ Y(p) - Y(q) \in -1..1

\* Pixels that have every text pixel that touches one of theirs.
Closed(b) == \A p \in b, q \in bitmap : Touch(p, q) => q \in b

\* A blob that is done is closed: no text pixel that touches one of its own was
\* left to another blob or to nobody, at the ends of rows and at the rims either.
BlobsClosed == \A b \in judged : Closed(b)

\* The blobs are whole: none shares a pixel with another, and none is cut.
BlobsWhole == NoPixelTwice /\ BlobsClosed

\* The blob of p in the picture: what is in every closed set with p.
Reached(p) ==
  {q \in bitmap : \A b \in SUBSET bitmap : p \in b /\ Closed(b) => q \in b}

\* An extraction that was not cut short, by a cancel or by the bound on the
\* boxes, has looked at every blob of the map, at each as a whole.
EveryBlobJudged ==
  pc = "done" /\ ~cut /\ Len(boxes) < MaxCandidates =>
    judged = {Reached(p) : p \in bitmap}

\* The boxes are in reading order whatever order their blobs were found in, each
\* of another blob, never more than the bound; a cancelled extraction has none.
ReadingOrder ==
  pc = "done" =>
    /\ Len(boxes) <= MaxCandidates
    /\ cut => boxes = <<>>
    /\ \A i, j \in DOMAIN boxes : i < j =>
         /\ boxes[i].blob # boxes[j].blob
         /\ boxes[i].centre < boxes[j].centre
              \/ (boxes[i].centre = boxes[j].centre /\ boxes[i].left <= boxes[j].left)

=============================================================================
