---------------------------- MODULE TextSegments ----------------------------
(***************************************************************************)
(* The text between the models: what OCR makes of the text its model       *)
(* generates, and how a translation cuts a text into segments              *)
(* (src/src/engine/local_ai_engine.cpp).                                   *)
(*                                                                         *)
(* A text is a sequence of symbols, one for each thing the algorithms tell *)
(* apart: visible characters, a blank, the two line ends, a bar (which     *)
(* makes a table of the line it begins), the block marker, and the two     *)
(* ends of an image tag.                                                   *)
(***************************************************************************)
EXTENDS Naturals, Sequences, SequencesExt

CONSTANT MaxSegment       \* kMaxSegmentChars

Char == "a"
Bar == "|"
Space == " "
NL == "\n"
CR == "\r"
Marker == "M"             \* kOcrBlockMarker
TagOpen == "<"            \* <img src="images/bbox_
TagClose == ">"           \*  />

Layout == {Char, Bar, Space, NL, CR, Marker, TagOpen, TagClose}

ASSUME SegmentAssumption == MaxSegment \in Nat \ {0}

-----------------------------------------------------------------------------
(* std::string's find, and trim_ascii_whitespace.                          *)

Blank == {Space, NL, CR}

\* The places from i on at which `what' stands in t, and the first of them, or
\* one past the end of t.
Places(t, what, i) == {k \in i..(Len(t) - Len(what) + 1) :
                         SubSeq(t, k, k + Len(what) - 1) = what}
Find(t, what, i) == Min(Places(t, what, i) \cup {Len(t) + 1})
Has(t, what)     == Places(t, what, 1) # {}

Trimmed(t) ==
  LET ink == {i \in DOMAIN t : t[i] \notin Blank}
  IN  IF ink = {} THEN <<>> ELSE SubSeq(t, Min(ink), Max(ink))

\* The texts between the line ends.
Lines(t) ==
  LET Add(ls, c) == IF c = NL THEN Append(ls, <<>>)
                    ELSE [ls EXCEPT ![Len(ls)] = Append(@, c)]
  IN  FoldLeft(Add, <<<<>>>>, t)

Joined(ts, by) ==
  FlattenSeq([i \in DOMAIN ts |-> IF i = 1 THEN ts[i] ELSE by \o ts[i]])

-----------------------------------------------------------------------------
(* Plausible bugs.                                                         *)

\* blocks are joined like paragraphs
BlockBoundarySoft == <<NL, NL>>
\* the search goes on three places after any boundary
BehindThree(at, mark) == at + 3

-----------------------------------------------------------------------------
(* remove_visual_image_tags and normalize_ocr_blocks.                      *)

TagMarker == <<NL, Marker, NL>>

\* From each tag's start to its end; a tag that does not end takes the rest.
WithoutTags(t) ==
  LET Add(r, c) == IF r.inside
                   THEN IF c = TagClose
                        THEN [inside |-> FALSE, text |-> r.text \o TagMarker]
                        ELSE r
                   ELSE IF c = TagOpen THEN [r EXCEPT !.inside = TRUE]
                        ELSE [r EXCEPT !.text = Append(@, c)]
  IN  FoldLeft(Add, [inside |-> FALSE, text |-> <<>>], t).text

\* CR and CR NL become NL.
OneLineEnd(t) ==
  LET Add(r, c) == IF c = CR THEN [cr |-> TRUE, text |-> Append(r.text, NL)]
                   ELSE IF c = NL /\ r.cr THEN [r EXCEPT !.cr = FALSE]
                   ELSE [cr |-> FALSE, text |-> Append(r.text, c)]
  IN  FoldLeft(Add, [cr |-> FALSE, text |-> <<>>], t).text

\* No more than three line ends in a row.
Compact(t) ==
  LET Add(r, c) == IF c # NL THEN Append(r, c)
                   ELSE IF Len(r) >= 3 /\ SubSeq(r, Len(r) - 2, Len(r)) = <<NL, NL, NL>>
                        THEN r ELSE Append(r, c)
  IN  FoldLeft(Add, <<>>, t)

\* What is put between two blocks.
BlockBoundary == <<NL, NL, NL>>

\* The blocks after the present one ended, if there is anything in it.
Ended(bs) == IF Trimmed(bs.current) = <<>> THEN bs.done
             ELSE Append(bs.done, Trimmed(bs.current))

\* A marker on a line of its own ends a block.
Blocks(t) ==
  LET Add(bs, l) ==
        IF Trimmed(l) = <<Marker>>
        THEN [done |-> Ended(bs), current |-> <<>>, seen |-> TRUE]
        ELSE [bs EXCEPT !.current = IF @ = <<>> THEN l ELSE @ \o <<NL>> \o l]
  IN  FoldLeft(Add, [done |-> <<>>, current |-> <<>>, seen |-> FALSE], Lines(t))

Normalized(t) ==
  LET compact == Compact(OneLineEnd(t))
      blocks  == Blocks(compact)
  IN  IF blocks.seen THEN Joined(Ended(blocks), BlockBoundary)
      ELSE Trimmed(compact)

\* What the OCR calls deliver, if the layout is not recovered.
OcrText(t) == Normalized(WithoutTags(t))

-----------------------------------------------------------------------------
(* split_translation_segments and translate.                               *)

\* A paragraph that is sent as it is: short enough, or a table.  (The
\* third sign of a table, the tag '<table' in it, is folded into the Bar.)
Fits(p) == \/ Len(p) <= MaxSegment
           \/ Has(p, <<NL, Bar>>) \/ p[1] = Bar

\* Any other is cut at its line ends.  An empty line is a part as well, and a
\* line end after a part is skipped.
Parts(p) ==
  LET from[i \in 1..(Len(p) + 1)] ==
        IF i > Len(p) THEN <<>>
        ELSE LET end  == Find(p, <<NL>>, i)
                 stop == IF end = i THEN end + 1 ELSE end
                 next == IF stop <= Len(p) /\ p[stop] = NL THEN stop + 1 ELSE stop
             IN  <<SubSeq(p, i, stop - 1)>> \o from[next]
  IN  from[1]

\* What is looked for between them.
HardBoundary == <<NL, NL, NL>>

\* Where a search for paragraphs goes on after the boundary at `at'.
Behind(at, mark) == at + Len(mark)

\* Paragraphs end at three line ends if there are any in the text, at two
\* otherwise; blanks before them are skipped.
Segments(t) ==
  LET n    == Normalized(t)
      mark == IF Has(n, HardBoundary) THEN HardBoundary ELSE <<NL, NL>>
      Start(i) == Min({k \in i..Len(n) : n[k] \notin {NL, Space}} \cup {Len(n) + 1})
      from[i \in 1..(Len(n) + 4)] ==
        LET start == Start(i)
            end   == Find(n, mark, start)
            p     == Trimmed(SubSeq(n, start, end - 1))
        IN  IF start > Len(n) THEN <<>>
            ELSE (IF Fits(p) THEN <<p>> ELSE Parts(p))
                 \o (IF end > Len(n) THEN <<>> ELSE from[Behind(end, mark)])
  IN  IF from[1] = <<>> THEN <<n>> ELSE from[1]

\* What a reader sees of a text: not its blanks, and not its block markers.
Ink(t) ==
  FlattenSeq([i \in DOMAIN t |-> IF t[i] \in Blank \cup {Marker} THEN <<>> ELSE <<t[i]>>])

=============================================================================
