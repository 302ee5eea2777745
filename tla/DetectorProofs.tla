--------------------------- MODULE DetectorProofs ---------------------------
(***************************************************************************)
(* Proofs about Detector, for maps of any size with any pixels: the flood  *)
(* fill has every pixel in one place at a time, and the blobs it makes are *)
(* closed, with pixels taken from the stack in any order and a cancel at   *)
(* any moment.                                                             *)
(***************************************************************************)
EXTENDS Detector, SequenceTheorems, TLAPS

-----------------------------------------------------------------------------
(* The inductive invariant.                                                *)

TypeInv == /\ bitmap \subseteq Pixels
           /\ active \subseteq bitmap /\ stack \subseteq bitmap
           /\ component \subseteq bitmap
           /\ judged \subseteq SUBSET bitmap

\* Nothing has been claimed while rows are still added, and nothing is claimed
\* twice afterwards.
PlacesInv ==
  /\ row \in 0..Height
  /\ pc = "rows" => stack = {} /\ component = {} /\ judged = {}
                    /\ active = {p \in bitmap : Y(p) < row}
  /\ pc = "flood" \/ stack = {}
  /\ pc \in {"flood", "judge"} => \A b \in judged : b \cap component = {}
  /\ pc = "seek" => component = {} \/ component \in judged

\* What touches a pixel that has been looked at is in its blob, or waits on the
\* stack to be.
FloodInv ==
  pc \in {"flood", "judge"} =>
    \A p \in component, q \in bitmap : Touch(p, q) => q \in component \cup stack

\* Nothing is lost: every text pixel is active, waits, or is in a blob.
CoverInv ==
  pc \in {"seek", "flood", "judge"} =>
    \A p \in bitmap : \/ p \in active \cup stack \cup component
                      \/ \E b \in judged : p \in b

IInv == TypeInv /\ PlacesInv /\ FloodInv /\ CoverInv /\ NoPixelTwice /\ BlobsClosed

-----------------------------------------------------------------------------
(* Neighbours.                                                             *)

\* A place in the map has a column and a row.
LEMMA Places == \A p \in Pixels : X(p) \in Int /\ Y(p) \in Int
BY SizeAssumption DEF Pixels, X, Y

\* The pixels the code visits around p are the ones that touch it.
LEMMA NeighborsTouch ==
  \A p \in Pixels, q \in Pixels : q \in Neighbors(p) <=> Touch(p, q)
BY Places DEF Neighbors, Touch

\* Touching is mutual.
LEMMA TouchSymmetric ==
  \A p \in Pixels, q \in Pixels : Touch(p, q) <=> Touch(q, p)
BY Places DEF Touch

-----------------------------------------------------------------------------
(* The steps.                                                              *)

\* Before the first row there is nothing.
LEMMA InitInv == Init => IInv
<1> SUFFICES ASSUME Init PROVE IInv
  OBVIOUS
<1>1. bitmap \subseteq Pixels
  BY BitmapAssumption DEF Init
<1>2. \A p \in bitmap : ~(Y(p) < 0)
  BY <1>1, SizeAssumption DEF Pixels, Y
<1>3. 0 \in 0..Height
  BY SizeAssumption
<1>4. active = {p \in bitmap : Y(p) < row}
  BY <1>2 DEF Init
<1>5. PlacesInv
  BY <1>3, <1>4 DEF Init, PlacesInv
<1>6. FloodInv /\ CoverInv
  BY DEF Init, FloodInv, CoverInv
<1>7. TypeInv /\ NoPixelTwice /\ BlobsClosed
  BY <1>1 DEF Init, TypeInv, NoPixelTwice, BlobsClosed, Closed
<1> QED BY <1>5, <1>6, <1>7 DEF IInv

\* The thresholding has found every pixel when it has done every row.
LEMMA AllRowsFound ==
  ASSUME TypeInv, active = {p \in bitmap : Y(p) < Height}
  PROVE  active = bitmap
<1> SUFFICES ASSUME NEW p \in bitmap, ~(Y(p) < Height) PROVE FALSE
  BY DEF TypeInv
<1>1. p \in Nat /\ p < Width * Height /\ Width \in Nat \ {0} /\ Height \in Nat
  BY SizeAssumption DEF TypeInv, Pixels
<1>2. Y(p) \in Int /\ Y(p) * Width <= p
  BY <1>1 DEF Y
<1>3. Width * Height <= Y(p) * Width
  BY <1>1, <1>2
<1> QED BY <1>1, <1>2, <1>3

\* The flood: what touches the pixel that is looked at is found, or was before;
\* it cannot be in a blob that is done, for that one would have this pixel too.
LEMMA FloodStep ==
  ASSUME IInv, Flood
  PROVE  IInv'
<1> USE DEF IInv
<1>1. PICK p \in stack : LET found == active \cap Neighbors(p)
                         IN  /\ stack' = (stack \ {p}) \cup found
                             /\ component' = component \cup {p}
                             /\ active' = active \ found
  BY DEF Flood, Claimed
<1>2. /\ pc = "flood" /\ pc' = "flood"
      /\ UNCHANGED <<bitmap, row, judged>>
  BY DEF Flood, historyVars
<1>3. p \in bitmap /\ p \in Pixels /\ active \subseteq Pixels
  BY DEF TypeInv
<1>4. TypeInv'
  BY <1>1, <1>2, <1>3 DEF TypeInv
<1>5. NoPixelTwice'
  BY <1>1, <1>2 DEF NoPixelTwice
<1>6. PlacesInv'
  BY <1>1, <1>2 DEF PlacesInv, NoPixelTwice
<1>7. CoverInv'
  BY <1>1, <1>2 DEF CoverInv
<1>8. BlobsClosed'
  BY <1>2 DEF BlobsClosed, Closed, Touch, X, Y
<1>9. FloodInv'
  <2> SUFFICES ASSUME NEW q \in bitmap, Touch(p, q)
               PROVE  q \in component \cup {p} \cup stack'
    BY <1>1, <1>2 DEF FloodInv, Touch, X, Y
  <2>1. q \in Pixels
    BY DEF TypeInv
  <2>2. ~\E b \in judged : q \in b
    BY <1>3, <2>1, TouchSymmetric DEF BlobsClosed, Closed, NoPixelTwice
  <2>3. q \in active => q \in Neighbors(p)
    BY <1>3, <2>1, NeighborsTouch
  <2> QED BY <1>1, <1>2, <2>2, <2>3 DEF CoverInv
<1> QED BY <1>4, <1>5, <1>6, <1>7, <1>8, <1>9

\* A blob that has been judged is closed, for nothing of it waits any more.
LEMMA JudgeStep ==
  ASSUME IInv, pc = "judge", judged' = judged \cup {component},
         pc' \in {"seek", "sort"}, UNCHANGED <<bitmap, row, scanVars>>
  PROVE  IInv'
<1> USE DEF IInv, scanVars
<1>1. TypeInv' /\ PlacesInv' /\ FloodInv' /\ CoverInv' /\ NoPixelTwice'
  BY DEF TypeInv, PlacesInv, FloodInv, CoverInv, NoPixelTwice
<1>2. \A p \in component, q \in bitmap : Touch(p, q) => q \in component
  BY DEF FloodInv, PlacesInv
<1>3. BlobsClosed'
  BY <1>2 DEF BlobsClosed, Closed, Touch, X, Y
<1> QED BY <1>1, <1>3

\* A step that only gives up, sorts or notes a cancel.
LEMMA EndStep ==
  ASSUME IInv, UNCHANGED <<bitmap, row, scanVars, judged>>,
         pc' = pc \/ (pc # "flood" /\ pc' \in {"sort", "done"})
  PROVE  IInv'
BY DEF IInv, TypeInv, PlacesInv, FloodInv, CoverInv, NoPixelTwice, BlobsClosed, Closed,
       scanVars, Touch, X, Y

\* Every step keeps the invariant.
LEMMA NextInv == IInv /\ [Next]_vars => IInv'
<1> SUFFICES ASSUME IInv, [Next]_vars PROVE IInv'
  OBVIOUS
<1>1. CASE ThresholdRow
  <2>1. \A p \in bitmap : Y(p) < row + 1 <=> Y(p) < row \/ Y(p) = row
    BY Places DEF IInv, TypeInv, PlacesInv
  <2>2. /\ UNCHANGED <<bitmap, start, stack, component, pc, judged>>
        /\ active' = active \cup {p \in bitmap : Y(p) = row}
        /\ row' = row + 1 /\ row < Height /\ pc = "rows"
    BY <1>1 DEF ThresholdRow, RowsLeft, historyVars
  <2>3. active' = {p \in bitmap : Y(p) < row'}
    BY <2>1, <2>2 DEF IInv, PlacesInv
  <2>4. row' \in 0..Height
    BY <2>2, SizeAssumption DEF IInv, PlacesInv
  <2> QED BY <2>2, <2>3, <2>4
          DEF IInv, TypeInv, PlacesInv, FloodInv, CoverInv, NoPixelTwice,
              BlobsClosed, Closed, Touch, X, Y
<1>2. CASE ThresholdCancelled
  BY <1>2, EndStep DEF ThresholdCancelled, GiveUp
<1>3. CASE Thresholded
  <2>1. active = bitmap
    BY <1>3, AllRowsFound DEF Thresholded, IInv, PlacesInv
  <2> QED BY <1>3, <2>1
          DEF Thresholded, IInv, TypeInv, PlacesInv, FloodInv, CoverInv,
              NoPixelTwice, BlobsClosed, Closed, scanVars, historyVars, Touch, X, Y
<1>4. CASE Seek
  <2>1. PICK p \in active : /\ active' = active \ {p}
                            /\ stack' = {p} /\ component' = {}
    BY <1>4 DEF Seek
  <2>2. /\ UNCHANGED <<bitmap, row, judged>>
        /\ pc = "seek" /\ pc' = "flood"
    BY <1>4 DEF Seek, historyVars
  <2>3. TypeInv' /\ PlacesInv' /\ FloodInv'
    BY <2>1, <2>2 DEF IInv, TypeInv, PlacesInv, FloodInv
  <2>4. CoverInv'
    <3> SUFFICES ASSUME NEW q \in bitmap, q \in component
                 PROVE  \E b \in judged : q \in b
      BY <2>1, <2>2 DEF IInv, CoverInv, PlacesInv
    <3>1. component \in judged
      BY <2>2 DEF IInv, PlacesInv
    <3> QED BY <3>1
  <2>5. NoPixelTwice'
    BY <2>1, <2>2 DEF IInv, NoPixelTwice
  <2>6. BlobsClosed'
    BY <2>2 DEF IInv, BlobsClosed, Closed, Touch, X, Y
  <2> QED BY <2>3, <2>4, <2>5, <2>6 DEF IInv
<1>5. CASE SeekEnd
  BY <1>5, EndStep DEF SeekEnd, historyVars
<1>6. CASE Flood
  BY <1>6, FloodStep
<1>7. CASE Flooded
  BY <1>7 DEF Flooded, IInv, TypeInv, PlacesInv, FloodInv, CoverInv, NoPixelTwice,
              BlobsClosed, Closed, scanVars, historyVars, Touch, X, Y
<1>8. CASE JudgeCancelled
  BY <1>8, EndStep DEF JudgeCancelled, GiveUp
<1>9. CASE Refused
  BY <1>9, JudgeStep DEF Refused
<1>10. CASE Accepted
  BY <1>10, JudgeStep DEF Accepted
<1>11. CASE Sort
  BY <1>11, EndStep DEF Sort, historyVars
<1>12. CASE Cancel
  BY <1>12, EndStep DEF Cancel, historyVars
<1>13. CASE UNCHANGED vars
  BY <1>13, EndStep DEF vars, historyVars
<1> QED
  BY <1>1, <1>2, <1>3, <1>4, <1>5, <1>6, <1>7, <1>8, <1>9, <1>10, <1>11, <1>12,
     <1>13 DEF Next, Extract

-----------------------------------------------------------------------------
(* The theorems.                                                           *)

\* The inductive invariant: where every text pixel is at every point.
THEOREM InvariantHolds == Spec => []IInv
BY InitInv, NextInv, PTL DEF Spec

\* No pixel is claimed twice, by the stack or by two blobs, and no text region
\* is cut in two: a blob has every text pixel that touches it.
THEOREM BlobsAreWhole == Spec => []BlobsWhole
<1>1. IInv => BlobsWhole
  BY DEF IInv, BlobsWhole
<1> QED BY <1>1, InvariantHolds, PTL

-----------------------------------------------------------------------------
(* The order of the boxes.                                                 *)

Box == [blob : SUBSET Pixels, centre : Nat, left : Nat]

\* Each box has a blob of its own, which has been judged, and there are fewer
\* than the bound as long as more may come.
BoxInv ==
  /\ boxes \in Seq(Box) /\ Len(boxes) <= MaxCandidates
  /\ pc \in {"rows", "seek", "flood", "judge"} => Len(boxes) < MaxCandidates
  /\ pc = "flood" => stack \cup component # {}
  /\ pc = "judge" => component # {}
  /\ pc # "done" => ~cut /\ \A i \in DOMAIN boxes : boxes[i].blob \in judged
  /\ \A i, j \in DOMAIN boxes : i # j => boxes[i].blob # boxes[j].blob
  /\ ReadingOrder

\* Sorting keeps the boxes, and none comes before the one in front of it.
LEMMA SortedBoxes ==
  ASSUME NEW bs \in Seq(Box), NEW t \in Sorted(bs),
         \A i, j \in DOMAIN bs : i # j => bs[i].blob # bs[j].blob
  PROVE  /\ t \in Seq(Box) /\ Len(t) = Len(bs)
         /\ \A i, j \in DOMAIN t : i # j => t[i].blob # t[j].blob
         /\ \A i, j \in DOMAIN t : i < j =>
              \/ t[i].centre < t[j].centre
              \/ t[i].centre = t[j].centre /\ t[i].left <= t[j].left
<1>1. PICK f \in [DOMAIN bs -> DOMAIN bs] :
        /\ \A i, j \in DOMAIN bs : f[i] = f[j] => i = j
        /\ t = [i \in DOMAIN bs |-> bs[f[i]]]
  BY DEF Sorted, Permuted
<1>2. /\ DOMAIN bs = 1..Len(bs) /\ Len(bs) \in Nat
      /\ \A i \in DOMAIN bs : bs[i] \in Box
  BY LenProperties
<1>3. t \in [1..Len(bs) -> Box]
  BY <1>1, <1>2
<1>4. t \in Seq(Box)
  BY <1>2, <1>3, SeqDef
<1>5. DOMAIN t = 1..Len(t) /\ DOMAIN t = 1..Len(bs) /\ Len(t) \in Nat
  BY <1>3, <1>4, LenProperties
<1>6. Len(t) = Len(bs)
  <2> DEFINE n == Len(t)  m == Len(bs)
  <2>1. n \in Nat /\ m \in Nat /\ 1..n = 1..m
    BY <1>2, <1>5
  <2> HIDE DEF n, m
  <2>2. n > 0 => n \in 1..m
    BY <2>1
  <2>3. m > 0 => m \in 1..n
    BY <2>1
  <2>4. n = m
    BY <2>1, <2>2, <2>3
  <2> QED BY <2>4 DEF n, m
<1>7. \A i, j \in DOMAIN t : i # j => t[i].blob # t[j].blob
  BY <1>1, <1>2, <1>5
<1>8. ASSUME NEW i \in DOMAIN t, NEW j \in DOMAIN t, i < j
      PROVE  \/ t[i].centre < t[j].centre
             \/ t[i].centre = t[j].centre /\ t[i].left <= t[j].left
  <2>1. i \in 1..(j - 1)
    BY <1>2, <1>5, <1>8
  <2>2. ~Before(t[j], t[i])
    BY <2>1 DEF Sorted
  <2>3. /\ t[i].centre \in Nat /\ t[j].centre \in Nat
        /\ t[i].left \in Nat /\ t[j].left \in Nat
    BY <1>3, <1>5 DEF Box
  <2> QED BY <2>2, <2>3 DEF Before
<1> QED BY <1>4, <1>6, <1>7, <1>8

LEMMA BoxStep == IInv /\ BoxInv /\ [Next]_vars => BoxInv'
<1> SUFFICES ASSUME IInv, BoxInv, [Next]_vars PROVE BoxInv'
  OBVIOUS
<1>1. CASE ThresholdRow \/ Thresholded \/ SeekEnd \/ Cancel \/ UNCHANGED vars
  BY <1>1 DEF ThresholdRow, Thresholded, SeekEnd, Cancel, vars, scanVars, historyVars,
              BoxInv, ReadingOrder
<1>2. CASE ThresholdCancelled \/ JudgeCancelled
  <2>1. boxes' = <<>> /\ pc' = "done"
    BY <1>2 DEF ThresholdCancelled, JudgeCancelled, GiveUp, GivenUp
  <2>2. boxes' \in Seq(Box) /\ Len(boxes') = 0 /\ DOMAIN boxes' = {}
    BY <2>1
  <2> QED BY <2>1, <2>2, BoundsAssumption DEF BoxInv, ReadingOrder
<1>3. CASE Seek
  BY <1>3 DEF Seek, historyVars, BoxInv, ReadingOrder
<1>4. CASE Flood
  BY <1>4 DEF Flood, historyVars, BoxInv, ReadingOrder
<1>5. CASE Flooded
  BY <1>5 DEF Flooded, scanVars, historyVars, BoxInv, ReadingOrder
<1>6. CASE Refused
  BY <1>6 DEF Refused, scanVars, BoxInv, ReadingOrder
<1>7. CASE Accepted
  <2>1. PICK centre \in Ordinates, left \in Ordinates :
          boxes' = Append(boxes, [blob |-> component, centre |-> centre, left |-> left])
    BY <1>7 DEF Accepted
  <2> DEFINE b == [blob |-> component, centre |-> centre, left |-> left]
  <2>2. b \in Box /\ b.blob = component
    BY BoundsAssumption, BitmapAssumption DEF Box, IInv, TypeInv
  <2> HIDE DEF b
  <2>3. boxes \in Seq(Box) /\ Len(boxes) \in Nat /\ DOMAIN boxes = 1..Len(boxes)
    BY LenProperties DEF BoxInv
  <2>4. /\ boxes' \in Seq(Box) /\ Len(boxes') = Len(boxes) + 1
        /\ DOMAIN boxes' = 1..(Len(boxes) + 1)
        /\ boxes'[Len(boxes) + 1] = b
        /\ \A i \in 1..Len(boxes) : boxes'[i] = boxes[i]
    BY <2>1, <2>2, <2>3 DEF b
  <2>5. component \notin judged
    BY <1>7 DEF Accepted, BoxInv, IInv, PlacesInv
  <2>6. \A i \in DOMAIN boxes : boxes[i].blob \in judged
    BY <1>7 DEF Accepted, BoxInv
  <2>7. \A i, j \in DOMAIN boxes' : i # j => boxes'[i].blob # boxes'[j].blob
    <3> SUFFICES ASSUME NEW i \in DOMAIN boxes', NEW j \in DOMAIN boxes', i # j
                 PROVE  boxes'[i].blob # boxes'[j].blob
      OBVIOUS
    <3>1. CASE i = Len(boxes) + 1
      BY <2>2, <2>3, <2>4, <2>5, <2>6, <3>1
    <3>2. CASE j = Len(boxes) + 1
      BY <2>2, <2>3, <2>4, <2>5, <2>6, <3>2
    <3>3. CASE i # Len(boxes) + 1 /\ j # Len(boxes) + 1
      BY <2>3, <2>4, <3>3 DEF BoxInv
    <3> QED BY <3>1, <3>2, <3>3
  <2>8. \A i \in DOMAIN boxes' : boxes'[i].blob \in judged'
    BY <1>7, <2>2, <2>3, <2>4, <2>6 DEF Accepted
  <2>9. /\ Len(boxes') <= MaxCandidates
        /\ pc' = IF Len(boxes') >= MaxCandidates THEN "sort" ELSE "seek"
        /\ ~cut'
    BY <1>7, <2>3, <2>4, BoundsAssumption DEF Accepted, BoxInv
  <2>10. pc' = "seek" => Len(boxes') < MaxCandidates
    BY <2>3, <2>4, <2>9, BoundsAssumption
  <2> QED BY <2>4, <2>7, <2>8, <2>9, <2>10 DEF BoxInv, ReadingOrder
<1>8. CASE Sort
  <2>1. /\ boxes' \in Seq(Box) /\ Len(boxes') = Len(boxes)
        /\ \A i, j \in DOMAIN boxes' : i # j => boxes'[i].blob # boxes'[j].blob
        /\ \A i, j \in DOMAIN boxes' : i < j =>
             \/ boxes'[i].centre < boxes'[j].centre
             \/ boxes'[i].centre = boxes'[j].centre /\ boxes'[i].left <= boxes'[j].left
    BY <1>8, SortedBoxes DEF Sort, BoxInv
  <2>2. pc' = "done" /\ ~cut' /\ Len(boxes') <= MaxCandidates
    BY <1>8, <2>1 DEF Sort, BoxInv, historyVars
  <2>3. \A i, j \in DOMAIN boxes' : i < j => i # j
    BY <2>1, LenProperties
  <2>4. ReadingOrder'
    BY <2>1, <2>2, <2>3 DEF ReadingOrder
  <2> QED BY <2>1, <2>2, <2>4 DEF BoxInv
<1> QED BY <1>1, <1>2, <1>3, <1>4, <1>5, <1>6, <1>7, <1>8 DEF Next, Extract

\* The boxes come out in reading order, whatever order their blobs were found in,
\* each of a blob of its own and never more than the bound; none after a cancel.
THEOREM BoxesAreInOrder == Spec => []ReadingOrder
<1>1. Init => BoxInv
  BY BoundsAssumption DEF Init, BoxInv, ReadingOrder
<1>2. BoxInv => ReadingOrder
  BY DEF BoxInv
<1> QED BY <1>1, <1>2, BoxStep, InvariantHolds, PTL DEF Spec

-----------------------------------------------------------------------------
(* Every blob is judged.                                                   *)

\* Pixels of one blob: a closed set has all of them or none.
Linked(b) == \A s \in SUBSET bitmap : Closed(s) /\ s \cap b # {} => b \subseteq s

\* The scan leaves nothing behind it, the pixels claimed so far hang together,
\* and an extraction that reached the end of the map has every text pixel.
SeenInv ==
  /\ start \in Nat /\ \A p \in active : start <= p
  /\ pc = "rows" => start = 0
  /\ \A b \in judged : b # {} /\ Linked(b)
  /\ pc \in {"flood", "judge"} => Linked(component \cup stack)
  /\ pc \in {"sort", "done"} /\ ~cut /\ Len(boxes) < MaxCandidates =>
       \A p \in bitmap : \E b \in judged : p \in b

\* The pixels found around one of the stack belong to its blob.
LEMMA FloodLinked ==
  ASSUME IInv, SeenInv, Flood
  PROVE  Linked(component' \cup stack')
<1>1. PICK p \in stack : LET found == active \cap Neighbors(p)
                         IN  /\ stack' = (stack \ {p}) \cup found
                             /\ component' = component \cup {p}
  BY DEF Flood
<1> DEFINE found == active \cap Neighbors(p)
<1>2. component' \cup stack' = (component \cup stack) \cup found
  BY <1>1
<1>3. p \in bitmap /\ bitmap \subseteq Pixels /\ found \subseteq bitmap
  BY DEF IInv, TypeInv
<1>4. \A q \in found : Touch(p, q) /\ Touch(q, p)
  BY <1>3, NeighborsTouch, TouchSymmetric
<1>5. Linked(component \cup stack)
  BY DEF SeenInv, Flood
<1> HIDE DEF found
<1> SUFFICES ASSUME NEW s \in SUBSET bitmap, Closed(s), s \cap (component' \cup stack') # {}
             PROVE  component' \cup stack' \subseteq s
  BY DEF Linked
<1>6. p \in s
  <2>1. CASE s \cap found # {}
    BY <1>3, <1>4, <2>1 DEF Closed
  <2>2. CASE s \cap (component \cup stack) # {}
    BY <1>5, <2>2 DEF Linked
  <2> QED BY <1>2, <2>1, <2>2
<1>7. found \subseteq s
  BY <1>3, <1>4, <1>6 DEF Closed
<1>8. component \cup stack \subseteq s
  BY <1>5, <1>6 DEF Linked
<1> QED BY <1>2, <1>7, <1>8

\* Which sets are closed depends on the picture alone.
LEMMA SameClosed ==
  ASSUME UNCHANGED bitmap
  PROVE  \A b : Closed(b)' <=> Closed(b)
BY DEF Closed, Touch, X, Y

LEMMA SeenStep == IInv /\ BoxInv /\ SeenInv /\ [Next]_vars => SeenInv'
<1> SUFFICES ASSUME IInv, BoxInv, SeenInv, [Next]_vars PROVE SeenInv'
  OBVIOUS
<1>0. UNCHANGED bitmap
  BY DEF Next, Extract, ThresholdRow, ThresholdCancelled, Thresholded, Seek, SeekEnd,
         Flood, Flooded, JudgeCancelled, Refused, Accepted, Sort, Cancel, vars
<1>a. /\ \A b : Closed(b)' <=> Closed(b)
      /\ \A b : Linked(b)' <=> Linked(b)
  BY <1>0, SameClosed DEF Linked
<1>b. bitmap \subseteq Pixels /\ active \subseteq bitmap /\ Pixels \subseteq Nat
  BY SizeAssumption DEF IInv, TypeInv, Pixels
<1>1. CASE ThresholdRow
  <2>1. /\ pc = "rows" /\ UNCHANGED <<start, pc, judged>>
        /\ active' \subseteq active \cup bitmap
    BY <1>1 DEF ThresholdRow, historyVars
  <2>2. \A p \in active' : start' <= p
    BY <1>b, <2>1 DEF SeenInv
  <2> QED BY <1>a, <2>1, <2>2 DEF SeenInv
<1>2. CASE ThresholdCancelled \/ JudgeCancelled
  BY <1>2, <1>a DEF ThresholdCancelled, JudgeCancelled, GiveUp, scanVars, SeenInv
<1>3. CASE Thresholded
  BY <1>3, <1>a DEF Thresholded, scanVars, historyVars, SeenInv
<1>4. CASE Seek
  <2>1. PICK p \in active : /\ p >= start /\ \A q \in active : q >= start => p <= q
                            /\ start' = p + 1 /\ active' = active \ {p}
                            /\ stack' = {p} /\ component' = {}
    BY <1>4 DEF Seek
  <2>2. p \in Nat /\ \A q \in active' : q \in Nat /\ start <= q /\ q # p
    BY <1>b, <2>1 DEF SeenInv
  <2>3. start' \in Nat /\ \A q \in active' : start' <= q
    BY <2>1, <2>2 DEF SeenInv
  <2>4. component' \cup stack' = {p}
    BY <2>1
  <2>5. Linked({p})'
    BY DEF Linked
  <2>6. pc' = "flood" /\ judged' = judged
    BY <1>4 DEF Seek, historyVars
  <2> QED BY <1>a, <2>3, <2>4, <2>5, <2>6 DEF SeenInv
<1>5. CASE SeekEnd
  <2>1. active = {} /\ stack = {}
    BY <1>5, <1>b DEF SeekEnd, SeenInv, IInv, PlacesInv
  <2>2. component = {} \/ component \in judged
    BY <1>5 DEF SeekEnd, IInv, PlacesInv
  <2>3. \A p \in bitmap : \E b \in judged : p \in b
    BY <1>5, <2>1, <2>2 DEF SeekEnd, IInv, CoverInv
  <2> QED BY <1>5, <1>0, <1>a, <2>3 DEF SeekEnd, scanVars, historyVars, SeenInv
<1>6. CASE Flood
  <2>1. Linked(component' \cup stack')
    BY <1>6, FloodLinked
  <2>2. active' \subseteq active /\ UNCHANGED <<start, pc, judged>> /\ pc = "flood"
    BY <1>6 DEF Flood, Claimed, historyVars
  <2> QED BY <1>a, <2>1, <2>2 DEF SeenInv
<1>7. CASE Flooded
  BY <1>7, <1>a DEF Flooded, scanVars, historyVars, SeenInv
<1>8. CASE Refused \/ Accepted
  <2>1. /\ judged' = judged \cup {component} /\ UNCHANGED scanVars
        /\ pc = "judge" /\ pc' \in {"seek", "sort"}
    BY <1>8 DEF Refused, Accepted
  <2>2. component # {} /\ Linked(component)
    <3>1. component \cup stack = component
      BY <2>1 DEF IInv, PlacesInv
    <3> QED BY <2>1, <3>1 DEF BoxInv, SeenInv
  <2>3. pc' = "sort" => ~(Len(boxes') < MaxCandidates)
    <3>1. CASE Refused
      BY <3>1 DEF Refused
    <3>2. CASE Accepted
      <4>1. PICK centre \in Ordinates, left \in Ordinates :
              boxes' = Append(boxes, [blob |-> component, centre |-> centre, left |-> left])
        BY <3>2 DEF Accepted
      <4>2. Len(boxes') \in Nat
        BY <4>1, LenProperties DEF BoxInv
      <4> QED BY <3>2, <4>2, BoundsAssumption DEF Accepted
    <3> QED BY <1>8, <3>1, <3>2
  <2> QED BY <1>a, <2>1, <2>2, <2>3 DEF SeenInv, scanVars
<1>9. CASE Sort
  <2>1. Len(boxes') = Len(boxes)
    BY <1>9, SortedBoxes DEF Sort, BoxInv
  <2> QED BY <1>9, <1>0, <1>a, <2>1 DEF Sort, scanVars, historyVars, SeenInv
<1>10. CASE Cancel \/ UNCHANGED vars
  BY <1>10, <1>0, <1>a DEF Cancel, vars, scanVars, historyVars, SeenInv
<1> QED BY <1>1, <1>2, <1>3, <1>4, <1>5, <1>6, <1>7, <1>8, <1>9, <1>10
        DEF Next, Extract

\* A closed blob that hangs together is what can be reached from each of its
\* pixels.
LEMMA BlobIsReached ==
  ASSUME NEW b \in SUBSET bitmap, Closed(b), Linked(b), NEW p \in b
  PROVE  Reached(p) = b
<1>1. Reached(p) \subseteq b
  BY DEF Reached
<1>2. b \subseteq Reached(p)
  BY DEF Reached, Linked
<1> QED BY <1>1, <1>2

\* An extraction that neither a cancel nor the bound on the boxes cut short has
\* judged every blob of the map, each as a whole and nothing else.
THEOREM EveryBlobIsJudged == Spec => []EveryBlobJudged
<1>1. Init => BoxInv
  BY BoundsAssumption DEF Init, BoxInv, ReadingOrder
<1>2. Init => SeenInv
  BY DEF Init, SeenInv
<1>3. IInv /\ SeenInv => EveryBlobJudged
  <2> SUFFICES ASSUME IInv, SeenInv, pc = "done", ~cut, Len(boxes) < MaxCandidates
               PROVE  judged = {Reached(p) : p \in bitmap}
    BY DEF EveryBlobJudged
  <2>1. \A b \in judged : \A p \in b : p \in bitmap /\ Reached(p) = b
    BY BlobIsReached DEF IInv, TypeInv, BlobsClosed, SeenInv
  <2>2. \A b \in judged : \E p \in bitmap : b = Reached(p)
    BY <2>1 DEF SeenInv
  <2>3. \A p \in bitmap : Reached(p) \in judged
    BY <2>1 DEF SeenInv
  <2> QED BY <2>2, <2>3
<1> QED BY <1>1, <1>2, <1>3, BoxStep, SeenStep, InvariantHolds, PTL DEF Spec

=============================================================================
