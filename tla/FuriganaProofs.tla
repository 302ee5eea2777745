--------------------------- MODULE FuriganaProofs ---------------------------
(***************************************************************************)
(* Proofs about Furigana, for any dictionaries, lines of any length and    *)
(* any number of boxes: the decoded characters are those CTC means, each   *)
(* reading stands over its word and is lost only behind a space, and the   *)
(* text, the regions and the tokens a caller gets agree.                   *)
(***************************************************************************)
EXTENDS Furigana, FiniteSetTheorems, SequenceTheorems, WellFoundedInduction, TLAPS

-----------------------------------------------------------------------------
(* The inductive invariant.                                                *)

AnyReading == Readings \cup {NoReading} \cup {Lexicon[i].reading : i \in DOMAIN Lexicon}

Glyph  == [character : Characters, start : Nat, end : Nat]
Word   == [surface : Seq(Nat), at : Nat, reading : AnyReading]
Region == [box : Nat, text : Seq(Nat)]
Ruby   == [box : Nat, surface : Seq(Nat), reading : AnyReading, start : Nat, end : Nat]

BetweenLines == {"idle", "load", "detect", "extract", "resolve", "line", "recognize"}

TypeOK ==
  /\ pc \in BetweenLines \cup {"decode", "split", "place"}
  /\ loaded \in BOOLEAN /\ cancel \in BOOLEAN /\ tagger \in BOOLEAN
  /\ boxes \in Nat /\ box \in Nat
  /\ class \in Seq(Classes) /\ previous \in Classes \cup {NoClass}
  /\ aligned \in Seq(Glyph)
  /\ toks \in Seq(Word) /\ split \in Nat /\ next \in Nat \ {0} /\ cursor \in Nat
  /\ text \in Seq(Nat) /\ regions \in Seq(Region) /\ tokens \in Seq(Ruby)
  /\ status \in Statuses \cup {"none"}

\* Nothing of a line is left when the next one begins.
FreshInv ==
  /\ pc \in BetweenLines => class = <<>> /\ previous = NoClass /\ aligned = <<>>
  /\ pc \in BetweenLines \cup {"decode"} => toks = <<>> /\ split = 0
  /\ pc # "place" => next = 1 /\ cursor = 0

\* What previous_class remembers is the class of the last step, and the last
\* character still grows.
PreviousInv ==
  IF class = <<>> \/ class[Len(class)] \notin Characters
  THEN previous = NoClass
  ELSE /\ previous = class[Len(class)]
       /\ aligned # <<>> /\ aligned[Len(aligned)].end = Len(class)

DecodeInv == PreviousInv /\ CtcGreedy

\* What a line adds to the output is the line's: what was there before is of
\* earlier boxes.
OutputInv ==
  /\ TextMatchesRegions
  /\ text = <<>> <=> regions = <<>>
  /\ \A n \in DOMAIN regions : regions[n].box <= box
  /\ pc \in {"recognize", "decode"} => \A n \in DOMAIN regions : regions[n].box < box
  /\ pc \in {"split", "place"} => \E n \in DOMAIN regions : regions[n].box = box
  /\ \A n \in DOMAIN tokens : tokens[n].box <= box
  /\ pc \in {"recognize", "decode", "split"} =>
       \A n \in DOMAIN tokens : tokens[n].box < box

End(t) == t.at + Len(t.surface)

\* The words are pieces of the line, from left to right; what they leave out is
\* what MeCab skips, and MeCab's words have none of that.
SplitInv ==
  /\ split <= Len(Line)
  /\ pc = "place" => split = Len(Line)
  /\ \A k \in DOMAIN toks :
       /\ toks[k].surface # <<>> /\ End(toks[k]) <= split
       /\ toks[k].surface = Slice(Line, toks[k].at, Len(toks[k].surface))
       /\ tagger => \A i \in DOMAIN toks[k].surface : toks[k].surface[i] \notin Spaces
  /\ \A j, k \in DOMAIN toks : j < k => End(toks[j]) <= toks[k].at
  /\ \A i \in 1..split :
       \/ \E k \in DOMAIN toks : toks[k].at < i /\ i <= End(toks[k])
       \/ tagger /\ Line[i] \in Spaces

\* The cursor is behind the last word looked at, or stands before a space for
\* the rest of the line.
CursorInv ==
  pc = "place" =>
    /\ next <= Len(toks) + 1
    /\ \A k \in next..Len(toks) : cursor <= toks[k].at
    /\ \/ \A k \in 1..(next - 1) : End(toks[k]) <= cursor
       \/ /\ cursor < Len(Line) /\ tagger /\ Line[cursor + 1] \in Spaces
          /\ \A k \in next..Len(toks) : cursor < toks[k].at

PlaceInv == CursorInv /\ ReadingsOverTheirWords /\ ReadingLostOnlyBehindSpace

IInv == /\ TypeOK /\ FreshInv /\ DecodeInv /\ OutputInv /\ SplitInv /\ PlaceInv
        /\ StatusHonest

-----------------------------------------------------------------------------
(* Lines and pieces of them.                                               *)

\* The characters of some glyphs.
LEMMA LineOf ==
  ASSUME NEW a \in Seq(Glyph), NEW l, l = [i \in 1..Len(a) |-> a[i].character]
  PROVE  /\ l \in Seq(Characters) /\ l \in Seq(Nat)
         /\ Len(l) = Len(a) /\ Len(l) \in Nat
<1>1. Len(a) \in Nat /\ \A i \in 1..Len(a) : a[i] \in Glyph
  BY LenProperties, ElementOfSeq
<1>2. \A i \in 1..Len(a) : a[i].character \in Characters
  BY <1>1 DEF Glyph
<1>3. Characters \subseteq Nat
  BY DictionaryAssumption DEF Characters
<1>4. l \in [1..Len(a) -> Characters] /\ l \in [1..Len(a) -> Nat]
  BY <1>2, <1>3
<1>5. l \in Seq(Characters) /\ l \in Seq(Nat)
  BY <1>1, <1>4, SeqDef
<1>6. Len(l) = Len(a)
  BY <1>1, <1>4, <1>5, LenProperties
<1> QED BY <1>1, <1>5, <1>6

\* The line has a character for each glyph.
LEMMA LineIs ==
  ASSUME aligned \in Seq(Glyph)
  PROVE  /\ Line \in Seq(Characters) /\ Line \in Seq(Nat)
         /\ Len(Line) = Len(aligned) /\ Len(Line) \in Nat
         /\ \A i \in 1..Len(aligned) : Line[i] = aligned[i].character
BY LineOf DEF Line

\* What a piece of a line has.
LEMMA SliceIs ==
  ASSUME NEW S, NEW s \in Seq(S), NEW n \in Nat, NEW m \in Nat, n + m <= Len(s)
  PROVE  /\ Slice(s, n, m) \in Seq(S) /\ Len(Slice(s, n, m)) = m
         /\ \A i \in 1..m : Slice(s, n, m)[i] = s[n + i]
<1>1. n + 1 \in 1..(Len(s) + 1) /\ n + m \in n..Len(s)
  BY LenProperties
<1> DEFINE t == SubSeq(s, n + 1, n + m)
<1>2. /\ t \in Seq(S) /\ Len(t) = m
      /\ \A i \in 1..m : t[i] = s[n + i]
  BY <1>1, SubSeqProperties, LenProperties
<1> QED BY <1>2 DEF Slice

\* A sequence with one more element.
LEMMA Appended ==
  ASSUME NEW S, NEW s \in Seq(S), NEW e \in S
  PROVE  /\ Append(s, e) \in Seq(S) /\ Append(s, e) # <<>>
         /\ Len(s) \in Nat /\ Len(Append(s, e)) = Len(s) + 1
         /\ DOMAIN s = 1..Len(s) /\ DOMAIN Append(s, e) = 1..(Len(s) + 1)
         /\ Append(s, e)[Len(s) + 1] = e
         /\ \A i \in 1..Len(s) : Append(s, e)[i] = s[i]
BY AppendProperties, LenProperties

\* A word is a piece of the line.
LEMMA TokenIs ==
  ASSUME TypeOK, NEW from \in Nat, NEW n \in Nat, from + n <= Len(Line),
         NEW r \in AnyReading
  PROVE  /\ Token(from, n, r) \in Word
         /\ Token(from, n, r).at = from
         /\ Token(from, n, r).surface = Slice(Line, from, n)
         /\ Len(Token(from, n, r).surface) = n
         /\ \A i \in 1..n : Token(from, n, r).surface[i] = Line[from + i]
<1>1. /\ Slice(Line, from, n) \in Seq(Nat) /\ Len(Slice(Line, from, n)) = n
      /\ \A i \in 1..n : Slice(Line, from, n)[i] = Line[from + i]
  <2>1. Line \in Seq(Nat)
    BY LineIs DEF TypeOK
  <2> QED BY <2>1, SliceIs
<1> QED BY <1>1 DEF Token, Word

\* Each step of tokenize passes a space, or takes a word from the line.
LEMMA SplitTakes ==
  ASSUME TypeOK,
         SplitFallback \/ \E n \in 1..Steps, r \in Readings \cup {NoReading} : SplitMeCab(n, r)
  PROVE  \/ /\ split < Len(Line) /\ tagger /\ Line[split + 1] \in Spaces
            /\ toks' = toks /\ split' = split + 1
         \/ \E n \in Nat \ {0}, r \in AnyReading :
              /\ split + n <= Len(Line)
              /\ tagger => \A i \in 1..n : Line[split + i] \notin Spaces
              /\ toks' = Append(toks, Token(split, n, r)) /\ split' = split + n
<1>0. split \in Nat /\ Len(Line) \in Nat
  BY LineIs DEF TypeOK
<1>1. CASE SplitFallback
  <2>1. CASE /\ toks' = Append(toks, Token(split, 1, NoReading))
             /\ split' = split + 1
    <3>1. NoReading \in AnyReading /\ 1 \in Nat \ {0} /\ ~tagger /\ split + 1 <= Len(Line)
      BY <1>0, <1>1 DEF SplitFallback, AnyReading
    <3> QED BY <2>1, <3>1
  <2>2. ASSUME NEW i \in DOMAIN Lexicon, Best(i, split),
               toks' = Append(toks, Token(split, Len(Lexicon[i].surface), Lexicon[i].reading)),
               split' = split + Len(Lexicon[i].surface)
        PROVE  \E n \in Nat \ {0}, r \in AnyReading :
                 /\ split + n <= Len(Line)
                 /\ tagger => \A k \in 1..n : Line[split + k] \notin Spaces
                 /\ toks' = Append(toks, Token(split, n, r)) /\ split' = split + n
    <3>1. Lexicon[i].surface \in Seq(Nat) /\ Lexicon[i].surface # <<>>
      BY <2>2, LexiconAssumption DEF Best, Matches
    <3>2. Len(Lexicon[i].surface) \in Nat \ {0}
      BY <3>1, EmptySeq, LenProperties
    <3>3. split + Len(Lexicon[i].surface) <= Len(Line) /\ ~tagger
      BY <1>1, <2>2 DEF Best, Matches, SplitFallback
    <3>4. Lexicon[i].reading \in AnyReading
      BY DEF AnyReading
    <3> QED BY <2>2, <3>2, <3>3, <3>4
  <2> QED BY <1>1, <2>1, <2>2 DEF SplitFallback
<1>2. ASSUME NEW n \in 1..Steps, NEW r \in Readings \cup {NoReading}, SplitMeCab(n, r)
      PROVE  \/ /\ split < Len(Line) /\ tagger /\ Line[split + 1] \in Spaces
                /\ toks' = toks /\ split' = split + 1
             \/ /\ split + n <= Len(Line)
                /\ tagger => \A i \in 1..n : Line[split + i] \notin Spaces
                /\ toks' = Append(toks, Token(split, n, r)) /\ split' = split + n
  BY <1>2 DEF SplitMeCab
<1>3. 1..Steps \subseteq Nat \ {0} /\ Readings \cup {NoReading} \subseteq AnyReading
  BY SizeAssumption DEF AnyReading
<1> QED BY <1>1, <1>2, <1>3

-----------------------------------------------------------------------------
(* Types, and what is left between lines.                                  *)

\* How the actions of the application's side and of the models act on a line.
LEMMA ReturnClears ==
  ASSUME IInv, NEW s \in Statuses, Return(s), UNCHANGED <<loaded, tagger, output>>,
         cancel' \in BOOLEAN
  PROVE  TypeOK' /\ FreshInv'
BY EmptySeq DEF IInv, TypeOK, FreshInv, Return, ClearLine, BetweenLines, output

LEMMA TypeStep == IInv /\ [Next]_vars => TypeOK' /\ FreshInv'
<1> SUFFICES ASSUME IInv, [Next]_vars PROVE TypeOK' /\ FreshInv'
  OBVIOUS
<1> USE DEF decoding, placing, output, BetweenLines
<1>1. CASE Prepare
  <2>1. CASE Call
    BY <2>1, EmptySeq DEF Call, IInv, TypeOK, FreshInv
  <2>2. CASE BadImage \/ LoadFails \/ DetectFails \/ ExtractNone \/ ResolveFails
    <3>1. \E s \in Statuses : Return(s) /\ UNCHANGED <<loaded, cancel, tagger, output>>
      BY <2>2 DEF BadImage, LoadFails, DetectFails, ExtractNone, ResolveFails, Statuses
    <3> QED BY <3>1, ReturnClears DEF IInv, TypeOK
  <2>3. CASE Load \/ Detect \/ Resolve
    BY <2>3 DEF Load, Detect, Resolve, IInv, TypeOK, FreshInv
  <2>4. ASSUME NEW n \in Detections, Extract(n)
        PROVE  TypeOK' /\ FreshInv'
    <3>1. n \in Nat
      BY SizeAssumption DEF Detections
    <3> QED BY <2>4, <3>1 DEF Extract, IInv, TypeOK, FreshInv
  <2> QED BY <1>1, <2>1, <2>2, <2>3, <2>4 DEF Prepare
<1>2. CASE RecognizeLine
  <2>1. CASE NextLine \/ Recognize
    BY <2>1 DEF NextLine, Recognize, IInv, TypeOK, FreshInv
  <2>2. CASE RecognizeFails
    <3>1. \E s \in Statuses : Return(s) /\ UNCHANGED <<loaded, cancel, tagger, output>>
      BY <2>2 DEF RecognizeFails, Statuses
    <3> QED BY <3>1, ReturnClears DEF IInv, TypeOK
  <2>3. ASSUME NEW c \in Classes, Decode(c)
        PROVE  TypeOK' /\ FreshInv'
    <3>1. /\ class' = Append(class, c) /\ pc' = "decode"
          /\ UNCHANGED <<loaded, cancel, tagger, boxes, box, placing, output, status>>
      BY <2>3 DEF Decode, IInv, TypeOK, FreshInv
    <3>2. class' \in Seq(Classes) /\ Len(class) \in Nat
      BY <3>1, AppendProperties, LenProperties DEF IInv, TypeOK
    <3>3. c \in Nat /\ (IsBlank(c) \/ c \in Characters)
      BY DictionaryAssumption DEF Classes, Characters, IsBlank
    <3>4. aligned' \in Seq(Glyph) /\ previous' \in Classes \cup {NoClass}
      <4>1. CASE DecodeBlank(c)
        BY <4>1 DEF DecodeBlank, IInv, TypeOK
      <4>2. CASE DecodeRepeat(c)
        <5>1. aligned # <<>> /\ Len(aligned) \in 1..Len(aligned)
          BY <4>2, LenProperties, EmptySeq DEF DecodeRepeat, Repeats, IInv, TypeOK
        <5>2. aligned[Len(aligned)] \in Glyph
          BY <5>1, ElementOfSeq DEF IInv, TypeOK
        <5>3. [aligned[Len(aligned)] EXCEPT !.end = Len(class) + 1] \in Glyph
          BY <5>2, <3>2 DEF Glyph
        <5>4. aligned' \in Seq(Glyph)
          BY <4>2, <5>1, <5>3, ExceptSeq DEF DecodeRepeat, IInv, TypeOK
        <5> QED BY <4>2, <5>4 DEF DecodeRepeat, IInv, TypeOK
      <4>3. CASE DecodeCharacter(c)
        <5>1. [character |-> c, start |-> Len(class), end |-> Len(class) + 1] \in Glyph
          BY <3>2, <3>3, <4>3 DEF DecodeCharacter, Glyph
        <5> QED BY <4>3, <5>1, AppendProperties DEF DecodeCharacter, IInv, TypeOK
      <4> QED BY <2>3, <4>1, <4>2, <4>3 DEF Decode
    <3> QED BY <2>3, <3>1, <3>2, <3>4 DEF IInv, TypeOK, FreshInv, Decode
  <2>4. CASE EmptyLine
    BY <2>4, EmptySeq DEF EmptyLine, ClearLine, IInv, TypeOK, FreshInv
  <2>5. CASE KeepLine
    <3>1. Line \in Seq(Nat) /\ [box |-> box, text |-> Line] \in Region
      BY LineIs DEF IInv, TypeOK, Region
    <3>2. regions' \in Seq(Region)
      BY <2>5, <3>1, AppendProperties DEF KeepLine, IInv, TypeOK
    <3>3. Joined(text, Line) \in Seq(Nat)
      <4>1. <<Newline>> \in Seq(Nat)
        BY DEF Newline
      <4> QED BY <3>1, <4>1, ConcatProperties DEF Joined, IInv, TypeOK
    <3> QED BY <2>5, <3>2, <3>3 DEF KeepLine, IInv, TypeOK, FreshInv
  <2> QED BY <1>2, <2>1, <2>2, <2>3, <2>4, <2>5 DEF RecognizeLine
<1>3. CASE PlaceReadings
  <2>1. CASE SplitFallback \/ \E n \in 1..Steps, r \in Readings \cup {NoReading} : SplitMeCab(n, r)
    <3>1. /\ pc = "split" /\ pc' = "split"
          /\ UNCHANGED <<loaded, cancel, tagger, boxes, box, decoding, next, cursor,
                         output, status>>
      BY <2>1 DEF SplitFallback, SplitMeCab
    <3>2. toks' \in Seq(Word) /\ split' \in Nat
      <4>1. \A n \in Nat, r \in AnyReading : split + n <= Len(Line) =>
              Append(toks, Token(split, n, r)) \in Seq(Word)
        BY TokenIs, AppendProperties DEF IInv, TypeOK
      <4>2. TypeOK /\ toks \in Seq(Word) /\ split \in Nat
        BY DEF IInv, TypeOK
      <4>3. CASE toks' = toks /\ split' = split + 1
        BY <4>2, <4>3
      <4>4. ASSUME NEW n \in Nat \ {0}, NEW r \in AnyReading, split + n <= Len(Line),
                   toks' = Append(toks, Token(split, n, r)), split' = split + n
            PROVE  toks' \in Seq(Word) /\ split' \in Nat
        BY <4>1, <4>2, <4>4
      <4> QED BY <2>1, <4>2, <4>3, <4>4, SplitTakes
    <3> QED BY <3>1, <3>2 DEF IInv, TypeOK, FreshInv
  <2>2. CASE SplitDone \/ Skip
    BY <2>2, SMTT(20) DEF SplitDone, Skip, IInv, TypeOK, FreshInv
  <2>3. CASE Place
    <3>1. /\ pc = "place" /\ pc' = "place" /\ next \in 1..Len(toks) /\ next' = next + 1
          /\ AtCursor(toks[next]) /\ cursor' = cursor + Len(toks[next].surface)
          /\ tokens' \in {tokens, Append(tokens, Placed(toks[next], cursor))}
          /\ UNCHANGED <<loaded, cancel, tagger, boxes, box, decoding, toks, split,
                         text, regions, status>>
      BY <2>3 DEF Place, Advanced, IInv, TypeOK
    <3>2. /\ toks[next].surface \in Seq(Nat) /\ toks[next].surface # <<>>
          /\ toks[next].reading \in AnyReading
      <4>1. toks \in Seq(Word) /\ next \in DOMAIN toks
        BY <3>1, LenProperties DEF IInv, TypeOK
      <4>2. toks[next] \in Word
        BY <3>1, <4>1, ElementOfSeq
      <4> QED BY <4>1, <4>2 DEF IInv, Word, SplitInv
    <3>3. Len(toks[next].surface) \in Nat \ {0}
      BY <3>2, EmptySeq, LenProperties
    <3>4. cursor + 1 \in 1..Len(aligned) /\ cursor + Len(toks[next].surface) \in 1..Len(aligned)
      BY <3>1, <3>3, LineIs, SMTT(20) DEF AtCursor, IInv, TypeOK
    <3>5. Placed(toks[next], cursor) \in Ruby
      <4>1. /\ aligned[cursor + 1] \in Glyph
            /\ aligned[cursor + Len(toks[next].surface)] \in Glyph
        BY <3>4, ElementOfSeq DEF IInv, TypeOK
      <4>2. box \in Nat
        BY DEF IInv, TypeOK
      <4> QED BY <3>2, <4>1, <4>2 DEF Placed, Ruby, Glyph
    <3>6. tokens' \in Seq(Ruby)
      <4>1. tokens \in Seq(Ruby)
        BY DEF IInv, TypeOK
      <4> QED BY <3>1, <3>5, <4>1, AppendProperties
    <3> QED BY <3>1, <3>3, <3>6 DEF IInv, TypeOK, FreshInv
  <2>4. CASE LineDone
    BY <2>4, EmptySeq DEF LineDone, ClearLine, IInv, TypeOK, FreshInv
  <2> QED BY <1>3, <2>1, <2>2, <2>3, <2>4 DEF PlaceReadings
<1>4. CASE Finish
  BY <1>4 DEF Finish, IInv, TypeOK, FreshInv, Statuses
<1>5. CASE Cancel
  BY <1>5 DEF Cancel, IInv, TypeOK, FreshInv
<1>6. CASE Cancelled
  <2>1. Return("CANCELLED") /\ UNCHANGED <<loaded, cancel, tagger, output>>
    BY <1>6 DEF Cancelled
  <2> QED BY <2>1, ReturnClears DEF IInv, TypeOK, Statuses
<1>7. CASE UNCHANGED vars
  BY <1>7 DEF vars, IInv, TypeOK, FreshInv
<1> QED BY <1>1, <1>2, <1>3, <1>4, <1>5, <1>6, <1>7 DEF Next

-----------------------------------------------------------------------------
(* Greedy decoding.                                                        *)

\* The starts of runs up to a step are finitely many.
LEMMA RunsAreFinite ==
  ASSUME TypeOK
  PROVE  /\ IsFiniteSet(RunStarts) /\ Cardinality(RunStarts) \in Nat
         /\ \A i : IsFiniteSet({k \in RunStarts : k <= i})
<1>1. Len(class) \in Nat
  BY LenProperties DEF TypeOK
<1>2. IsFiniteSet(1..Len(class))
  BY <1>1, FS_Interval
<1>3. RunStarts \subseteq 1..Len(class) /\ \A i : {k \in RunStarts : k <= i} \subseteq 1..Len(class)
  BY DEF RunStarts
<1> QED BY <1>2, <1>3, FS_Subset, FS_CardinalityType

\* Only the last character's run reaches the last step.
LEMMA LastRun ==
  ASSUME TypeOK, NEW i \in RunStarts, IsRun(i, Len(class))
  PROVE  Cardinality({k \in RunStarts : k <= i}) = Cardinality(RunStarts)
<1>1. Len(class) \in Nat /\ i \in 1..Len(class)
  BY LenProperties DEF TypeOK, RunStarts
<1>2. \A k \in RunStarts : k <= i
  <2> SUFFICES ASSUME NEW k \in RunStarts, i < k PROVE FALSE
    BY <1>1 DEF RunStarts
  <2>1. k \in 1..Len(class) /\ k - 1 \in i..Len(class) /\ k \in i..Len(class) /\ k # 1
    BY <1>1 DEF RunStarts
  <2>2. class[k] = class[i] /\ class[k - 1] = class[i]
    BY <2>1 DEF IsRun
  <2> QED BY <2>1, <2>2 DEF RunStarts
<1>3. {k \in RunStarts : k <= i} = RunStarts
  BY <1>2
<1> QED BY <1>3

\* A run that ended stays as it is, and one that reaches the last step does if
\* the next class is another.
LEMMA RunStays ==
  ASSUME TypeOK, NEW c \in Classes, class' = Append(class, c),
         NEW i \in 1..Len(class), NEW j \in i..Len(class), IsRun(i, j),
         j = Len(class) => c # class[i]
  PROVE  IsRun(i, j)'
<1>1. /\ Len(class) \in Nat /\ Len(class') = Len(class) + 1
      /\ class'[Len(class) + 1] = c
      /\ \A k \in 1..Len(class) : class'[k] = class[k]
  BY Appended DEF TypeOK
<1>2. \A k \in i..j : class'[k] = class'[i]
  BY <1>1 DEF IsRun
<1>3. class'[j + 1] # class'[i]
  <2>1. CASE j = Len(class)
    BY <1>1, <2>1
  <2>2. CASE j < Len(class)
    <3>1. j + 1 \in 1..Len(class) /\ class[j + 1] # class[i]
      BY <1>1, <2>2 DEF IsRun
    <3> QED BY <1>1, <3>1
  <2> QED BY <1>1, <2>1, <2>2
<1> QED BY <1>2, <1>3 DEF IsRun

\* One time step.
LEMMA DecodeKeepsCtc ==
  ASSUME IInv, NEW c \in Classes, Decode(c)
  PROVE  DecodeInv'
<1>0. PICK L \in Nat : L = Len(class)
  BY LenProperties DEF IInv, TypeOK
<1>1. /\ class \in Seq(Classes) /\ aligned \in Seq(Glyph) /\ TypeOK
      /\ PreviousInv /\ CtcGreedy
  BY DEF IInv, TypeOK, DecodeInv
<1>2. class' = Append(class, c) /\ (DecodeBlank(c) \/ DecodeRepeat(c) \/ DecodeCharacter(c))
  BY DEF Decode
<1>3. /\ L \in Nat /\ Len(class') = L + 1 /\ class'[L + 1] = c /\ class' # <<>>
      /\ \A k \in 1..L : class'[k] = class[k]
  BY <1>0, <1>1, <1>2, Appended
<1>4. /\ L = 0 <=> class = <<>>
      /\ Len(aligned) \in Nat /\ (Len(aligned) = 0 <=> aligned = <<>>)
  BY <1>0, <1>1, EmptySeq, LenProperties
<1>5. \A k \in 1..L : k \in RunStarts' <=> k \in RunStarts
  <2> SUFFICES ASSUME NEW k \in 1..L PROVE k \in RunStarts' <=> k \in RunStarts
    OBVIOUS
  <2>1. k \in 1..Len(class') /\ (k # 1 => k - 1 \in 1..L)
    BY <1>3
  <2> QED BY <1>0, <1>3, <2>1 DEF RunStarts
<1>6. /\ RunStarts \subseteq 1..L /\ RunStarts' \subseteq 1..(L + 1)
      /\ L + 1 \notin RunStarts
      /\ \A k \in RunStarts' : k \in 1..L \/ k = L + 1
  BY <1>0, <1>3 DEF RunStarts
<1>7. \A i \in RunStarts : class[i] \in Characters
  BY DEF RunStarts
<1>8. /\ NoClass \notin Classes /\ NoClass \notin Characters
      /\ c \in Nat /\ (IsBlank(c) <=> c \notin Characters)
  BY DictionaryAssumption DEF NoClass, Classes, Characters, IsBlank
<1>9. Len(aligned) = Cardinality(RunStarts)
  BY <1>1 DEF CtcGreedy
<1>10. CASE DecodeBlank(c)
  <2>1. previous' = NoClass /\ aligned' = aligned /\ c \notin Characters
    BY <1>8, <1>10 DEF DecodeBlank
  <2>2. RunStarts' = RunStarts
    <3>1. L + 1 \notin RunStarts'
      BY <1>3, <2>1 DEF RunStarts
    <3> QED BY <1>5, <1>6, <3>1
  <2>3. ASSUME NEW n \in 1..Len(aligned')
        PROVE  \E i \in RunStarts', j \in 1..Len(class') :
                  /\ i <= j /\ IsRun(i, j)'
                  /\ Cardinality({k \in RunStarts' : k <= i}) = n
                  /\ aligned'[n] = [character |-> class'[i], start |-> i - 1, end |-> j]
    <3>1. PICK i \in RunStarts, j \in 1..Len(class) :
            /\ i <= j /\ IsRun(i, j)
            /\ Cardinality({k \in RunStarts : k <= i}) = n
            /\ aligned[n] = [character |-> class[i], start |-> i - 1, end |-> j]
      BY <1>1, <2>1, <2>3 DEF CtcGreedy
    <3>2. i \in 1..Len(class) /\ j \in i..Len(class) /\ c # class[i]
      BY <1>0, <1>3, <1>6, <1>7, <2>1, <3>1
    <3>3. IsRun(i, j)'
      BY <1>1, <1>2, <3>1, <3>2, RunStays
    <3>4. j \in 1..Len(class') /\ class'[i] = class[i]
      BY <1>0, <1>3, <3>2
    <3> QED BY <2>1, <2>2, <3>1, <3>3, <3>4
  <2>4. CtcGreedy'
    BY <1>9, <2>1, <2>2, <2>3 DEF CtcGreedy
  <2>5. PreviousInv'
    BY <1>3, <2>1 DEF PreviousInv
  <2> QED BY <2>4, <2>5 DEF DecodeInv
<1>11. CASE DecodeRepeat(c)
  <2> DEFINE N == Len(aligned)
  <2>1. /\ c \in Characters /\ c = previous /\ previous' = previous /\ aligned # <<>>
        /\ aligned' = [aligned EXCEPT ![N].end = Len(class) + 1]
    BY <1>8, <1>11 DEF DecodeRepeat, Repeats
  <2>2. class # <<>> /\ class[L] = c /\ aligned[N].end = L /\ L \in 1..L /\ N \in 1..N
    BY <1>0, <1>3, <1>4, <1>1, <1>8, <2>1 DEF PreviousInv
  <2>3. RunStarts' = RunStarts
    <3>1. L + 1 \notin RunStarts'
      BY <1>3, <2>2 DEF RunStarts
    <3> QED BY <1>5, <1>6, <3>1
  <2>4. /\ Len(aligned') = N /\ DOMAIN aligned = 1..N
        /\ \A n \in 1..N : n # N => aligned'[n] = aligned[n]
        /\ aligned'[N] = [aligned[N] EXCEPT !.end = Len(class) + 1]
    <3>1. DOMAIN aligned = 1..N
      BY <1>1, LenProperties
    <3>2. DOMAIN aligned' = 1..N
      BY <2>1, <3>1
    <3>3. aligned' \in Seq(Glyph)
      BY TypeStep DEF IInv, TypeOK, Next, RecognizeLine
    <3>4. Len(aligned') = N
      <4>1. Len(aligned') \in Nat /\ 1..Len(aligned') = 1..N /\ N \in Nat
        BY <1>4, <3>2, <3>3, LenProperties
      <4>2. Len(aligned') > 0 => Len(aligned') \in 1..N
        BY <4>1
      <4>3. N > 0 => N \in 1..Len(aligned')
        BY <4>1
      <4> QED BY <4>1, <4>2, <4>3
    <3> QED BY <2>1, <2>2, <3>1, <3>4
  <2> HIDE DEF N
  <2>5. ASSUME NEW n \in 1..N
        PROVE  \E i \in RunStarts', j \in 1..Len(class') :
                  /\ i <= j /\ IsRun(i, j)'
                  /\ Cardinality({k \in RunStarts' : k <= i}) = n
                  /\ aligned'[n] = [character |-> class'[i], start |-> i - 1, end |-> j]
    <3>1. PICK i \in RunStarts, j \in 1..Len(class) :
            /\ i <= j /\ IsRun(i, j)
            /\ Cardinality({k \in RunStarts : k <= i}) = n
            /\ aligned[n] = [character |-> class[i], start |-> i - 1, end |-> j]
      BY <1>1, <2>5 DEF CtcGreedy, N
    <3>2. i \in 1..Len(class) /\ j \in i..Len(class)
      BY <1>0, <1>3, <1>6, <3>1
    <3>3. CASE n = N
      <4>1. j = L
        BY <2>2, <3>1, <3>3
      <4>2. class[i] = c
        BY <1>0, <1>3, <2>2, <3>1, <3>2, <4>1 DEF IsRun
      <4>3. \A k \in i..(L + 1) : class'[k] = class'[i]
        <5>1. \A k \in i..L : k \in 1..L /\ class[k] = class[i]
          BY <1>0, <1>3, <3>1, <3>2, <4>1 DEF IsRun
        <5>2. i \in i..L
          BY <1>0, <1>3, <3>2
        <5> QED BY <1>3, <4>2, <5>1, <5>2
      <4>4. IsRun(i, L + 1)'
        BY <1>3, <4>3 DEF IsRun
      <4>5. aligned'[N] = [character |-> class'[i], start |-> i - 1, end |-> L + 1]
        BY <1>0, <1>3, <2>4, <3>1, <3>2, <3>3, <4>1
      <4>6. L + 1 \in 1..Len(class') /\ i <= L + 1
        BY <1>0, <1>3, <3>2
      <4> QED BY <2>3, <3>1, <3>3, <4>4, <4>5, <4>6
    <3>4. CASE n # N
      <4>1. j # L
        BY <1>0, <1>1, <1>9, <3>1, <3>4, LastRun DEF N
      <4>2. IsRun(i, j)'
        BY <1>0, <1>1, <1>2, <3>1, <3>2, <4>1, RunStays
      <4>3. j \in 1..Len(class') /\ class'[i] = class[i]
        BY <1>0, <1>3, <3>2
      <4> QED BY <2>3, <2>4, <3>1, <3>4, <4>2, <4>3
    <3> QED BY <3>3, <3>4
  <2>6. CtcGreedy'
    BY <1>9, <2>3, <2>4, <2>5 DEF CtcGreedy, N
  <2>7. PreviousInv'
    <3>1. aligned'[N].end = L + 1
      BY <1>0, <1>1, <2>2, <2>4, ElementOfSeq DEF Glyph, N
    <3>2. aligned' # <<>>
      BY <1>4, <2>1, <2>4, EmptySeq DEF N
    <3> QED BY <1>3, <2>1, <2>4, <3>1, <3>2 DEF PreviousInv
  <2> QED BY <2>6, <2>7 DEF DecodeInv
<1>12. CASE DecodeCharacter(c)
  <2> DEFINE N == Len(aligned)
             g == [character |-> c, start |-> Len(class), end |-> Len(class) + 1]
  <2>1. /\ c \in Characters /\ previous' = c /\ aligned' = Append(aligned, g)
        /\ c # previous \/ aligned = <<>>
    BY <1>8, <1>12 DEF DecodeCharacter, Repeats
  <2>2. L # 0 => class[L] # c
    BY <1>0, <1>1, <1>4, <1>8, <2>1 DEF PreviousInv
  <2>3. g \in Glyph
    BY <1>0, <1>3, <2>1 DEF Glyph
  <2>4. /\ Len(aligned') = N + 1 /\ N \in Nat /\ aligned'[N + 1] = g /\ aligned' # <<>>
        /\ \A n \in 1..N : aligned'[n] = aligned[n]
    BY <1>1, <2>1, <2>3, Appended
  <2>5. g = [character |-> c, start |-> L, end |-> L + 1]
    BY <1>0 DEF g
  <2> HIDE DEF N, g
  <2>6. RunStarts' = RunStarts \cup {L + 1}
    <3>1. L + 1 \in RunStarts'
      BY <1>3, <2>1, <2>2 DEF RunStarts
    <3> QED BY <1>5, <1>6, <3>1
  <2>7. Cardinality(RunStarts') = N + 1
    <3>1. L + 1 \notin RunStarts
      BY <1>3, <1>6
    <3> QED BY <1>1, <1>9, <2>6, <3>1, RunsAreFinite, FS_AddElement DEF N
  <2>8. ASSUME NEW n \in 1..(N + 1)
        PROVE  \E i \in RunStarts', j \in 1..Len(class') :
                  /\ i <= j /\ IsRun(i, j)'
                  /\ Cardinality({k \in RunStarts' : k <= i}) = n
                  /\ aligned'[n] = [character |-> class'[i], start |-> i - 1, end |-> j]
    <3>1. CASE n = N + 1
      <4>1. {k \in RunStarts' : k <= L + 1} = RunStarts'
        <5>1. \A k \in RunStarts' : k <= L + 1
          BY <1>0, <1>6
        <5> QED BY <5>1
      <4>2. IsRun(L + 1, L + 1)'
        BY <1>3 DEF IsRun
      <4>3. L + 1 \in RunStarts' /\ L + 1 \in 1..Len(class') /\ L + 1 <= L + 1
        BY <1>3, <2>6
      <4>4. aligned'[n] = [character |-> class'[L + 1], start |-> (L + 1) - 1, end |-> L + 1]
        BY <1>3, <2>4, <2>5, <3>1
      <4> QED BY <2>7, <3>1, <4>1, <4>2, <4>3, <4>4
    <3>2. CASE n # N + 1
      <4>0. n \in 1..N
        BY <2>4, <3>2
      <4>1. PICK i \in RunStarts, j \in 1..Len(class) :
              /\ i <= j /\ IsRun(i, j)
              /\ Cardinality({k \in RunStarts : k <= i}) = n
              /\ aligned[n] = [character |-> class[i], start |-> i - 1, end |-> j]
        BY <1>1, <4>0 DEF CtcGreedy, N
      <4>2. i \in 1..Len(class) /\ j \in i..Len(class)
        BY <1>0, <1>3, <1>6, <4>1
      <4>3. j = Len(class) => c # class[i]
        <5>1. j \in i..j
          BY <4>2
        <5> QED BY <1>0, <1>3, <2>2, <4>1, <4>2, <5>1 DEF IsRun
      <4>4. IsRun(i, j)'
        BY <1>1, <1>2, <4>1, <4>2, <4>3, RunStays
      <4>5. j \in 1..Len(class') /\ class'[i] = class[i]
        BY <1>0, <1>3, <4>2
      <4>6. {k \in RunStarts' : k <= i} = {k \in RunStarts : k <= i}
        BY <1>0, <1>3, <2>6, <4>2
      <4> QED BY <2>4, <2>6, <4>0, <4>1, <4>4, <4>5, <4>6
    <3> QED BY <3>1, <3>2
  <2>9. CtcGreedy'
    BY <2>4, <2>7, <2>8 DEF CtcGreedy
  <2>10. PreviousInv'
    BY <1>3, <2>1, <2>4, <2>5 DEF PreviousInv
  <2> QED BY <2>9, <2>10 DEF DecodeInv
<1> QED BY <1>2, <1>10, <1>11, <1>12

\* Every other step leaves the decoding alone or starts it afresh.
LEMMA DecodeStep == IInv /\ [Next]_vars => DecodeInv'
<1> SUFFICES ASSUME IInv, [Next]_vars PROVE DecodeInv'
  OBVIOUS
<1>1. UNCHANGED decoding \/ ClearLine \/ \E c \in Classes : Decode(c)
  BY DEF Next, Prepare, RecognizeLine, PlaceReadings, Call, BadImage, Load, LoadFails,
         Detect, DetectFails, Extract, ExtractNone, Resolve, ResolveFails, NextLine,
         Recognize, RecognizeFails, EmptyLine, KeepLine, SplitFallback, SplitMeCab,
         SplitDone, Skip, Place, LineDone, Finish, Cancel, Cancelled, Return, vars
<1>2. CASE UNCHANGED decoding
  <2>1. class' = class /\ previous' = previous /\ aligned' = aligned
    BY <1>2 DEF decoding
  <2>2. RunStarts' = RunStarts /\ \A i, j : IsRun(i, j)' <=> IsRun(i, j)
    BY <2>1 DEF RunStarts, IsRun
  <2>3. PreviousInv'
    BY <2>1 DEF IInv, DecodeInv, PreviousInv
  <2>4. CtcGreedy'
    <3>1. CtcGreedy
      BY DEF IInv, DecodeInv
    <3> QED BY <2>1, <2>2, <3>1, Zenon DEF CtcGreedy
  <2> QED BY <2>3, <2>4 DEF DecodeInv
<1>3. CASE ClearLine
  <2>1. class' = <<>> /\ previous' = NoClass /\ aligned' = <<>>
    BY <1>3 DEF ClearLine
  <2>2. RunStarts' = {} /\ Len(aligned') = 0
    BY <2>1 DEF RunStarts
  <2>3. Cardinality(RunStarts') = 0
    BY <2>2, FS_EmptySet
  <2> QED BY <2>1, <2>2, <2>3 DEF DecodeInv, PreviousInv, CtcGreedy
<1> QED BY <1>1, <1>2, <1>3, DecodeKeepsCtc

-----------------------------------------------------------------------------
(* The text of the regions: induction, and what TextOf is.                 *)

\* Every set of natural numbers that is not empty has a least one.
LEMMA LeastNumber ==
  ASSUME NEW T, T \subseteq Nat, T # {}
  PROVE  \E x \in T : \A y \in T : x <= y
<1> DEFINE R == {p \in Nat \X Nat : p[1] < p[2]}
<1>1. IsWellFoundedOn(R, Nat)
  BY NatLessThanWellFounded DEF OpToRel
<1>2. \A x, y \in T : y < x => <<y, x>> \in R
  <2>1. \A x, y \in T : <<y, x>> \in Nat \X Nat
    OBVIOUS
  <2> QED BY <2>1
<1> HIDE DEF R
<1>3. PICK x \in T : \A y \in T : ~ (<<y, x>> \in R)
  BY <1>1, WFMin
<1>4. \A y \in T : ~(y < x)
  BY <1>2, <1>3
<1>5. \A y \in T : x <= y
  BY <1>4
<1> QED BY <1>5

\* A set with zero and every successor has every number.
LEMMA Induction ==
  ASSUME NEW S, 0 \in S, \A n \in Nat : n \in S => n + 1 \in S
  PROVE  Nat \subseteq S
<1> SUFFICES ASSUME Nat \ S # {} PROVE FALSE
  OBVIOUS
<1>1. PICK x \in Nat \ S : \A y \in Nat \ S : x <= y
  BY LeastNumber
<1>2. x # 0 /\ x - 1 \in Nat /\ x - 1 \in S
  BY <1>1
<1> QED BY <1>1, <1>2

\* The recursion of TextOf defines a function, whatever the regions are.
LEMMA TextOfRecursion ==
  ASSUME NEW rs
  PROVE  \E f : f = [n \in Nat |-> IF n = 0 THEN <<>>
                                   ELSE IF n = 1 THEN rs[1].text
                                   ELSE f[n - 1] \o <<Newline>> \o rs[n].text]
<1> DEFINE From(h, n) == IF n = 0 THEN <<>>
                         ELSE IF n = 1 THEN rs[1].text
                         ELSE h[n - 1] \o <<Newline>> \o rs[n].text
           Upto(h, n) == h = [m \in 0..n |-> From(h, m)]
<1>1. \A g, h : \A n \in Nat : (n > 0 => g[n - 1] = h[n - 1]) => From(g, n) = From(h, n)
  OBVIOUS
<1>2. \A h : \A n \in Nat, m \in Nat : Upto(h, n) /\ m <= n => h[m] = From(h, m)
  <2> SUFFICES ASSUME NEW h, NEW n \in Nat, NEW m \in Nat, Upto(h, n), m <= n
               PROVE  h[m] = From(h, m)
    OBVIOUS
  <2> HIDE DEF From
  <2>1. m \in 0..n
    OBVIOUS
  <2> QED BY <2>1
<1>3. ASSUME NEW h, NEW n \in Nat, Upto(h, n)
      PROVE  \E k : Upto(k, n + 1)
  <2> DEFINE k == [m \in 0..(n + 1) |-> IF m = n + 1 THEN From(h, m) ELSE h[m]]
  <2> HIDE DEF From
  <2>1. \A m \in 0..n : k[m] = h[m]
    OBVIOUS
  <2>2. \A m \in 0..(n + 1) : k[m] = From(h, m)
    <3>1. \A m \in 0..n : h[m] = From(h, m)
      <4>1. \A m \in 0..n : m \in Nat /\ m <= n
        OBVIOUS
      <4> QED BY <1>2, <1>3, <4>1
    <3>2. \A m \in 0..(n + 1) : m = n + 1 \/ m \in 0..n
      OBVIOUS
    <3> QED BY <3>1, <3>2
  <2>3. \A m \in 0..(n + 1) : m > 0 => k[m - 1] = h[m - 1]
    BY <2>1
  <2>4. \A m \in 0..(n + 1) : From(k, m) = From(h, m)
    BY <1>1, <2>3
  <2>5. k = [m \in 0..(n + 1) |-> From(k, m)]
    BY <2>2, <2>4
  <2> QED BY <2>5
<1>4. \A n \in Nat : \E h : Upto(h, n)
  <2> DEFINE S == {n \in Nat : \E h : Upto(h, n)}
  <2>1. 0 \in S
    <3> DEFINE h == [m \in 0..0 |-> <<>>]
    <3>1. \A m \in 0..0 : From(h, m) = <<>>
      OBVIOUS
    <3> HIDE DEF From
    <3>2. h = [m \in 0..0 |-> From(h, m)]
      BY <3>1
    <3> QED BY <3>2
  <2>2. ASSUME NEW n \in Nat, n \in S
        PROVE  n + 1 \in S
    <3> HIDE DEF Upto
    <3>1. PICK h : Upto(h, n)
      BY <2>2
    <3>2. \E k : Upto(k, n + 1)
      BY <1>3, <3>1
    <3> QED BY <3>2
  <2> HIDE DEF S
  <2>3. Nat \subseteq S
    BY <2>1, <2>2, Induction
  <2> QED BY <2>3 DEF S
<1> HIDE DEF From, Upto
<1>5. \A m \in Nat : \A a, b \in Nat : \A g, h :
         Upto(g, a) /\ Upto(h, b) /\ m <= a /\ m <= b => g[m] = h[m]
  <2> DEFINE S == {m \in Nat : \A a, b \in Nat : \A g, h :
                      Upto(g, a) /\ Upto(h, b) /\ m <= a /\ m <= b => g[m] = h[m]}
  <2>1. 0 \in S
    <3>1. \A g, h : From(g, 0) = From(h, 0)
      BY <1>1
    <3> QED BY <1>2, <3>1
  <2>2. ASSUME NEW m \in Nat, m \in S
        PROVE  m + 1 \in S
    <3> SUFFICES ASSUME NEW a \in Nat, NEW b \in Nat, NEW g, NEW h,
                        Upto(g, a), Upto(h, b), m + 1 <= a, m + 1 <= b
                 PROVE  g[m + 1] = h[m + 1]
      OBVIOUS
    <3>1. g[m] = h[m]
      BY <2>2
    <3>2. g[m + 1] = From(g, m + 1) /\ h[m + 1] = From(h, m + 1)
      BY <1>2
    <3>3. From(g, m + 1) = From(h, m + 1)
      <4>1. (m + 1) - 1 = m /\ m + 1 \in Nat
        OBVIOUS
      <4> QED BY <1>1, <3>1, <4>1
    <3> QED BY <3>2, <3>3
  <2> HIDE DEF S
  <2>3. Nat \subseteq S
    BY <2>1, <2>2, Induction
  <2> QED BY <2>3 DEF S
<1> DEFINE H(n) == CHOOSE h : Upto(h, n)
           f == [n \in Nat |-> H(n)[n]]
<1>6. \A n \in Nat : Upto(H(n), n)
  BY <1>4
<1> HIDE DEF H
<1>7. \A n \in Nat : f[n] = From(f, n)
  <2> SUFFICES ASSUME NEW n \in Nat PROVE H(n)[n] = From(f, n)
    OBVIOUS
  <2>1. H(n)[n] = From(H(n), n)
    BY <1>2, <1>6
  <2>2. n > 0 => f[n - 1] = H(n)[n - 1]
    <3> SUFFICES ASSUME n > 0 PROVE H(n - 1)[n - 1] = H(n)[n - 1]
      OBVIOUS
    <3>1. n - 1 \in Nat /\ n - 1 <= n /\ n - 1 <= n - 1
      OBVIOUS
    <3>2. Upto(H(n), n) /\ Upto(H(n - 1), n - 1)
      BY <1>6, <3>1
    <3> QED BY <1>5, <3>1, <3>2
  <2> QED BY <1>1, <2>1, <2>2
<1>8. f = [n \in Nat |-> From(f, n)]
  BY <1>7
<1> QED BY <1>8 DEF From

\* What TextOf is.
LEMMA TextOfIs ==
  ASSUME NEW rs, NEW T,
         T = CHOOSE f : f = [n \in Nat |-> IF n = 0 THEN <<>>
                                           ELSE IF n = 1 THEN rs[1].text
                                           ELSE f[n - 1] \o <<Newline>> \o rs[n].text]
  PROVE  T = [n \in Nat |-> IF n = 0 THEN <<>>
                            ELSE IF n = 1 THEN rs[1].text
                            ELSE T[n - 1] \o <<Newline>> \o rs[n].text]
BY TextOfRecursion, Zenon

\* One more region adds its text, and leaves what was there before.
LEMMA TextOfGrows ==
  ASSUME regions \in Seq(Region), NEW r \in Region, regions' = Append(regions, r)
  PROVE  LET N == Len(regions)
         IN  TextOf'[N + 1] = IF N = 0 THEN r.text
                              ELSE TextOf[N] \o <<Newline>> \o r.text
<1> DEFINE N == Len(regions)
           Text(rs, T) == [n \in Nat |-> IF n = 0 THEN <<>>
                                         ELSE IF n = 1 THEN rs[1].text
                                         ELSE T[n - 1] \o <<Newline>> \o rs[n].text]
<1>1. TextOf = Text(regions, TextOf)
  BY TextOfIs, ZenonT(40) DEF TextOf
<1>2. TextOf' = Text(regions', TextOf')
  <2>1. TextOf' = CHOOSE f : f = Text(regions', f)
    BY DEF TextOf
  <2>2. ASSUME NEW rs, NEW T, T = CHOOSE f : f = Text(rs, f)
        PROVE  T = Text(rs, T)
    BY <2>2, TextOfIs, ZenonT(40)
  <2> HIDE DEF Text
  <2> QED BY <2>1, <2>2, Zenon
<1>3. /\ N \in Nat /\ regions'[N + 1] = r
      /\ \A n \in 1..N : regions'[n] = regions[n]
  BY Appended
<1> DEFINE S == {n \in Nat : n <= N => TextOf'[n] = TextOf[n]}
<1>4. 0 \in S
  BY <1>1, <1>2
<1> HIDE DEF N
<1>5. ASSUME NEW n \in Nat, n \in S
      PROVE  n + 1 \in S
  <2> SUFFICES ASSUME n + 1 <= N PROVE TextOf'[n + 1] = TextOf[n + 1]
    OBVIOUS
  <2>1. n + 1 \in 1..N /\ n <= N /\ (n + 1) - 1 = n
    BY <1>3
  <2>2. regions'[n + 1] = regions[n + 1] /\ TextOf'[n] = TextOf[n]
    BY <1>3, <1>5, <2>1
  <2>3. /\ TextOf[n + 1] = Text(regions, TextOf)[n + 1]
        /\ TextOf'[n + 1] = Text(regions', TextOf')[n + 1]
    BY <1>1, <1>2
  <2>4. n + 1 \in Nat /\ n + 1 # 0 /\ (n + 1 = 1 <=> n = 0)
    OBVIOUS
  <2>5. CASE n = 0
    BY <2>2, <2>3, <2>4, <2>5
  <2>6. CASE n # 0
    BY <2>1, <2>2, <2>3, <2>4, <2>6
  <2> QED BY <2>5, <2>6
<1> HIDE DEF S
<1>6. N \in S
  BY <1>3, <1>4, <1>5, Induction
<1>7. TextOf'[N] = TextOf[N]
  BY <1>3, <1>6 DEF S
<1>8. TextOf'[N + 1] = IF N = 0 THEN r.text
                       ELSE TextOf'[N] \o <<Newline>> \o r.text
  <2>1. TextOf'[N + 1] = Text(regions', TextOf')[N + 1]
    BY <1>2
  <2>2. N + 1 \in Nat /\ N + 1 # 0 /\ (N + 1 = 1 <=> N = 0) /\ (N + 1) - 1 = N
    BY <1>3
  <2> QED BY <1>3, <2>1, <2>2
<1> QED BY <1>7, <1>8 DEF N

-----------------------------------------------------------------------------
(* The output.                                                             *)

\* Regions and tokens lie on boxes.
LEMMA BoxesAreNumbers ==
  ASSUME TypeOK
  PROVE  /\ \A n \in DOMAIN regions : regions[n].box \in Nat
         /\ \A n \in DOMAIN tokens : tokens[n].box \in Nat
<1>1. \A n \in DOMAIN regions : regions[n] \in Region
  <2>1. regions \in Seq(Region) /\ DOMAIN regions = 1..Len(regions)
    BY LenProperties DEF TypeOK
  <2> QED BY <2>1, ElementOfSeq
<1>2. \A n \in DOMAIN tokens : tokens[n] \in Ruby
  <2>1. tokens \in Seq(Ruby) /\ DOMAIN tokens = 1..Len(tokens)
    BY LenProperties DEF TypeOK
  <2> QED BY <2>1, ElementOfSeq
<1> QED BY <1>1, <1>2 DEF Region, Ruby

\* A line's text joined to the text so far is the text of all regions.
LEMMA KeepLineMatches ==
  ASSUME IInv, KeepLine
  PROVE  OutputInv' /\ text' # <<>> /\ regions' # <<>>
<1> DEFINE N == Len(regions)
           r == [box |-> box, text |-> Line]
<1>1. /\ regions \in Seq(Region) /\ tokens \in Seq(Ruby) /\ aligned \in Seq(Glyph)
      /\ box \in Nat /\ text \in Seq(Nat) /\ OutputInv
  BY DEF IInv, TypeOK
<1>2. /\ regions' = Append(regions, r) /\ text' = Joined(text, Line)
      /\ UNCHANGED <<box, tokens>> /\ pc = "decode" /\ pc' = "split" /\ aligned # <<>>
  BY DEF KeepLine
<1>3. Line \in Seq(Nat) /\ Line # <<>>
  BY <1>1, <1>2, LineIs, EmptySeq, LenProperties
<1>4. r \in Region /\ r.box = box /\ r.text = Line
  BY <1>1, <1>3 DEF Region
<1> HIDE DEF r
<1>5. /\ N \in Nat /\ Len(regions') = N + 1 /\ regions' # <<>>
      /\ DOMAIN regions = 1..N /\ DOMAIN regions' = 1..(N + 1)
      /\ regions'[N + 1] = r /\ \A i \in 1..N : regions'[i] = regions[i]
      /\ N = 0 <=> regions = <<>>
  <2>1. N = 0 <=> regions = <<>>
    BY <1>1, EmptySeq, LenProperties
  <2> QED BY <1>1, <1>2, <1>4, <2>1, Appended
<1>6. TextOf'[N + 1] = IF N = 0 THEN r.text
                       ELSE TextOf[N] \o <<Newline>> \o r.text
  BY <1>1, <1>2, <1>4, TextOfGrows
<1>7. text = TextOf[N] /\ (text = <<>> <=> N = 0)
  BY <1>1, <1>5 DEF OutputInv, TextMatchesRegions
<1> HIDE DEF N
<1>8. text' = TextOf'[Len(regions')]
  BY <1>2, <1>4, <1>5, <1>6, <1>7 DEF Joined
<1>9. text' # <<>>
  <2>1. CASE N = 0
    BY <1>2, <1>3, <1>7, <2>1 DEF Joined
  <2>2. CASE N # 0
    <3>1. <<Newline>> \in Seq(Nat) /\ <<Newline>> # <<>>
      BY DEF Newline
    <3>2. text \o <<Newline>> \in Seq(Nat) /\ text \o <<Newline>> # <<>>
      BY <1>1, <3>1, ConcatProperties, ConcatEqualIffEmpty
    <3>3. (text \o <<Newline>>) \o Line # <<>>
      BY <1>3, <3>2, ConcatEqualIffEmpty
    <3> QED BY <1>2, <1>7, <2>2, <3>3 DEF Joined
  <2> QED BY <2>1, <2>2
<1>10. \A n \in 1..N : regions[n].box \in Nat /\ regions[n].box < box
  BY <1>1, <1>2, <1>5, BoxesAreNumbers DEF OutputInv, IInv
<1>11. \A m, n \in DOMAIN regions' : m < n => regions'[m].box < regions'[n].box
  <2> SUFFICES ASSUME NEW m \in 1..(N + 1), NEW n \in 1..(N + 1), m < n
               PROVE  regions'[m].box < regions'[n].box
    BY <1>5
  <2>1. m \in 1..N /\ (n \in 1..N \/ n = N + 1)
    BY <1>5
  <2>2. CASE n \in 1..N
    <3>1. regions[m].box < regions[n].box
      BY <1>1, <1>5, <2>1, <2>2 DEF OutputInv, TextMatchesRegions
    <3> QED BY <1>5, <2>1, <2>2, <3>1
  <2>3. CASE n = N + 1
    BY <1>4, <1>5, <1>10, <2>1, <2>3
  <2> QED BY <2>1, <2>2, <2>3
<1>12. \A n \in DOMAIN regions' : regions'[n].box <= box
  BY <1>1, <1>4, <1>5, <1>10
<1>13. \E n \in DOMAIN regions' : regions'[n].box = box
  <2>1. N + 1 \in DOMAIN regions'
    BY <1>5
  <2> QED BY <1>4, <1>5, <2>1
<1>14. \A n \in DOMAIN tokens : /\ tokens[n].box < box /\ tokens[n].box \in Nat
                                /\ \E m \in DOMAIN regions' : regions'[m].box = tokens[n].box
  <2>1. \A n \in DOMAIN tokens : tokens[n].box \in Nat
    BY BoxesAreNumbers DEF IInv
  <2>2. \A n \in DOMAIN tokens : \E m \in 1..N : regions[m].box = tokens[n].box
    BY <1>1, <1>5 DEF OutputInv, TextMatchesRegions
  <2>3. \A m \in 1..N : m \in DOMAIN regions' /\ regions'[m] = regions[m]
    BY <1>5
  <2> QED BY <1>1, <1>2, <2>1, <2>2, <2>3 DEF OutputInv
<1> QED BY <1>1, <1>2, <1>5, <1>8, <1>9, <1>11, <1>12, <1>13, <1>14
        DEF OutputInv, TextMatchesRegions

\* A placed word is on the region of its line.
LEMMA PlaceMatches ==
  ASSUME IInv, Place
  PROVE  OutputInv'
<1>1. /\ regions \in Seq(Region) /\ tokens \in Seq(Ruby) /\ tokens' \in Seq(Ruby)
      /\ box \in Nat /\ OutputInv
  BY TypeStep DEF IInv, TypeOK, Next, PlaceReadings
<1>2. /\ UNCHANGED <<box, regions, text>> /\ pc = "place" /\ pc' = "place"
      /\ tokens' \in {tokens, Append(tokens, Placed(toks[next], cursor))}
  BY DEF Place
<1>3. TextOf' = TextOf
  BY <1>2 DEF TextOf
<1>4. PICK m \in DOMAIN regions : regions[m].box = box
  BY <1>1, <1>2 DEF OutputInv
<1>5. \A n \in DOMAIN tokens' : tokens'[n].box = box \/ (n \in DOMAIN tokens /\ tokens'[n] = tokens[n])
  <2>1. CASE tokens' = Append(tokens, Placed(toks[next], cursor))
    <3>1. /\ DOMAIN tokens = 1..Len(tokens) /\ DOMAIN tokens' = 1..(Len(tokens) + 1)
          /\ Len(tokens) \in Nat
          /\ tokens'[Len(tokens) + 1] = Placed(toks[next], cursor)
          /\ \A n \in 1..Len(tokens) : tokens'[n] = tokens[n]
      BY <1>1, <2>1, AppendProperties, LenProperties
    <3>2. Placed(toks[next], cursor).box = box
      BY DEF Placed
    <3> QED BY <3>1, <3>2
  <2> QED BY <1>2, <2>1
<1>6. \A n \in DOMAIN tokens' : /\ tokens'[n].box <= box
                                /\ \E k \in DOMAIN regions : regions[k].box = tokens'[n].box
  BY <1>1, <1>4, <1>5 DEF OutputInv, TextMatchesRegions
<1> QED BY <1>1, <1>2, <1>3, <1>4, <1>6 DEF OutputInv, TextMatchesRegions

LEMMA OutputStep == IInv /\ [Next]_vars => OutputInv'
<1> SUFFICES ASSUME IInv, [Next]_vars PROVE OutputInv'
  OBVIOUS
<1>1. \/ Call \/ NextLine \/ KeepLine \/ Place
      \/ /\ UNCHANGED <<output, box>>
         /\ \/ pc' = pc
            \/ pc' \in {"idle", "load", "detect", "extract", "resolve", "line"}
            \/ pc = "recognize" /\ pc' = "decode"
            \/ pc = "split" /\ pc' = "place"
  BY DEF Next, Prepare, RecognizeLine, PlaceReadings, BadImage, Load, LoadFails,
         Detect, DetectFails, Extract, ExtractNone, Resolve, ResolveFails,
         Recognize, RecognizeFails, Decode, EmptyLine, SplitFallback, SplitMeCab,
         SplitDone, Skip, LineDone, Finish, Cancel, Cancelled, Return, vars, output
<1>2. CASE Call
  <2>1. /\ text' = <<>> /\ regions' = <<>> /\ tokens' = <<>> /\ box' = 0
        /\ pc' = "load"
    BY <1>2 DEF Call
  <2>2. TextOf'[0] = <<>>
    <3>1. TextOf' = CHOOSE f : f = [n \in Nat |-> IF n = 0 THEN <<>>
                                      ELSE IF n = 1 THEN regions'[1].text
                                      ELSE f[n - 1] \o <<Newline>> \o regions'[n].text]
      BY DEF TextOf
    <3>2. TextOf' = [n \in Nat |-> IF n = 0 THEN <<>>
                                   ELSE IF n = 1 THEN regions'[1].text
                                   ELSE TextOf'[n - 1] \o <<Newline>> \o regions'[n].text]
      BY <3>1, TextOfIs, ZenonT(40)
    <3> QED BY <3>2
  <2>3. Len(regions') = 0 /\ DOMAIN regions' = {} /\ DOMAIN tokens' = {}
    BY <2>1
  <2> QED BY <2>1, <2>2, <2>3 DEF OutputInv, TextMatchesRegions
<1>3. CASE NextLine
  <2>1. /\ UNCHANGED output /\ pc' = "recognize" /\ box' = box + 1 /\ box \in Nat
    BY <1>3 DEF NextLine, IInv, TypeOK
  <2>2. TextOf' = TextOf /\ UNCHANGED <<text, regions, tokens>>
    BY <2>1 DEF TextOf, output
  <2>3. \A n \in DOMAIN regions : regions[n].box \in Nat /\ regions[n].box <= box
    BY BoxesAreNumbers DEF IInv, OutputInv
  <2>4. \A n \in DOMAIN tokens : tokens[n].box \in Nat /\ tokens[n].box <= box
    BY BoxesAreNumbers DEF IInv, OutputInv
  <2>5. OutputInv
    BY DEF IInv
  <2> QED BY <2>1, <2>2, <2>3, <2>4, <2>5 DEF OutputInv, TextMatchesRegions
<1>4. ASSUME UNCHANGED <<output, box>>,
             \/ pc' = pc
             \/ pc' \in {"idle", "load", "detect", "extract", "resolve", "line"}
             \/ pc = "recognize" /\ pc' = "decode"
             \/ pc = "split" /\ pc' = "place"
      PROVE  OutputInv'
  <2>1. TextOf' = TextOf /\ UNCHANGED <<text, regions, tokens>> /\ OutputInv
    BY <1>4 DEF TextOf, output, IInv
  <2> QED BY <1>4, <2>1 DEF OutputInv, TextMatchesRegions
<1> QED BY <1>1, <1>2, <1>3, <1>4, KeepLineMatches, PlaceMatches

\* A cancelled call was cancelled, and one that went well has some text.
LEMMA StatusStep == IInv /\ [Next]_vars => StatusHonest'
<1> SUFFICES ASSUME IInv, [Next]_vars PROVE StatusHonest'
  OBVIOUS
<1>1. CASE KeepLine
  <2>1. text' # <<>> /\ regions' # <<>> /\ UNCHANGED <<status, cancel>>
    BY <1>1, KeepLineMatches DEF KeepLine
  <2> QED BY <2>1 DEF StatusHonest, IInv
<1>2. CASE Finish
  BY <1>2 DEF Finish, IInv, OutputInv, StatusHonest, output
<1>3. \/ KeepLine \/ Finish
      \/ UNCHANGED <<status, text, regions>> /\ (cancel' = cancel \/ cancel')
      \/ status' \notin {"OK", "CANCELLED"}
      \/ status' = "CANCELLED" /\ cancel'
  BY DEF Next, Prepare, RecognizeLine, PlaceReadings, Call, BadImage, Load, LoadFails,
         Detect, DetectFails, Extract, ExtractNone, Resolve, ResolveFails, NextLine,
         Recognize, RecognizeFails, Decode, EmptyLine, SplitFallback, SplitMeCab,
         SplitDone, Skip, Place, LineDone, Cancel, Cancelled, Return, vars, output
<1> QED BY <1>1, <1>2, <1>3 DEF StatusHonest, IInv

-----------------------------------------------------------------------------
(* The words of a line.                                                    *)

\* What is known of the words one by one.
LEMMA WordsAre ==
  ASSUME TypeOK, SplitInv, NEW k \in DOMAIN toks
  PROVE  /\ toks[k] \in Word /\ toks[k].at \in Nat /\ toks[k].surface \in Seq(Nat)
         /\ Len(toks[k].surface) \in Nat \ {0}
         /\ End(toks[k]) = toks[k].at + Len(toks[k].surface)
         /\ End(toks[k]) <= split /\ split <= Len(Line) /\ Len(Line) \in Nat
         /\ \A i \in 1..Len(toks[k].surface) : toks[k].surface[i] = Line[toks[k].at + i]
<1>1. toks \in Seq(Word) /\ DOMAIN toks = 1..Len(toks)
  BY LenProperties DEF TypeOK
<1>2. toks[k] \in Word
  BY <1>1, ElementOfSeq
<1>3. toks[k].at \in Nat /\ toks[k].surface \in Seq(Nat) /\ toks[k].surface # <<>>
  BY <1>2 DEF Word, SplitInv
<1>4. Len(toks[k].surface) \in Nat \ {0}
  BY <1>3, EmptySeq, LenProperties
<1>5. /\ End(toks[k]) = toks[k].at + Len(toks[k].surface) /\ End(toks[k]) <= split
      /\ split <= Len(Line) /\ split \in Nat /\ Len(Line) \in Nat /\ Line \in Seq(Nat)
  BY LineIs DEF End, SplitInv, TypeOK
<1>6. toks[k].surface = Slice(Line, toks[k].at, Len(toks[k].surface))
  BY DEF SplitInv
<1>7. \A i \in 1..Len(toks[k].surface) :
         Slice(Line, toks[k].at, Len(toks[k].surface))[i] = Line[toks[k].at + i]
  <2>1. toks[k].at + Len(toks[k].surface) <= Len(Line)
    BY <1>3, <1>4, <1>5
  <2>2. Len(toks[k].surface) \in Nat /\ Line \in Seq(Nat)
    BY <1>4, <1>5
  <2> QED BY <1>3, <2>1, <2>2, SliceIs
<1> QED BY <1>2, <1>3, <1>4, <1>5, <1>6, <1>7

\* tokenize goes on behind the last word.
LEMMA SplitMore ==
  ASSUME IInv, pc' # "place", UNCHANGED <<tagger, aligned>>,
         SplitFallback \/ \E n \in 1..Steps, r \in Readings \cup {NoReading} : SplitMeCab(n, r)
  PROVE  SplitInv'
<1>1. /\ TypeOK /\ SplitInv /\ toks \in Seq(Word) /\ split \in Nat
      /\ Len(Line) \in Nat /\ Line' = Line
  BY LineIs DEF IInv, TypeOK, Line
<1>2. CASE /\ split < Len(Line) /\ tagger /\ Line[split + 1] \in Spaces
           /\ toks' = toks /\ split' = split + 1
  <2>1. \A k \in DOMAIN toks : End(toks[k]) \in Nat /\ End(toks[k]) <= split'
    BY <1>1, <1>2, WordsAre
  <2>2. \A i \in 1..split' : i \in 1..split \/ i = split + 1
    BY <1>1, <1>2
  <2>3. split' <= Len(Line)
    BY <1>1, <1>2
  <2> HIDE DEF End
  <2>4. \A i \in 1..split' :
           \/ \E k \in DOMAIN toks : toks[k].at < i /\ i <= End(toks[k])
           \/ tagger /\ Line[i] \in Spaces
    BY <1>1, <1>2, <2>2 DEF SplitInv
  <2>5. \A t : End(t)' = End(t)
    BY DEF End
  <2> QED BY <1>1, <1>2, <2>1, <2>3, <2>4 DEF SplitInv, End
<1>3. ASSUME NEW n \in Nat \ {0}, NEW r \in AnyReading, split + n <= Len(Line),
             tagger => \A i \in 1..n : Line[split + i] \notin Spaces,
             toks' = Append(toks, Token(split, n, r)), split' = split + n
      PROVE  SplitInv'
  <2> DEFINE t == Token(split, n, r)
             N == Len(toks)
  <2>1. /\ t \in Word /\ t.at = split /\ t.surface = Slice(Line, split, n)
        /\ Len(t.surface) = n /\ t.surface \in Seq(Nat)
        /\ \A i \in 1..n : t.surface[i] = Line[split + i]
    BY <1>1, <1>3, TokenIs DEF Word
  <2> HIDE DEF t
  <2>2. /\ N \in Nat /\ DOMAIN toks = 1..N /\ DOMAIN toks' = 1..(N + 1)
        /\ toks'[N + 1] = t /\ \A k \in 1..N : toks'[k] = toks[k]
    BY <1>1, <1>3, <2>1, Appended DEF t
  <2>3. End(t) = split' /\ split < split' /\ split' <= Len(Line) /\ split' \in Nat
    BY <1>1, <1>3, <2>1 DEF End
  <2> HIDE DEF N
  <2>4. \A k \in 1..N : /\ End(toks[k]) \in Nat /\ End(toks[k]) <= split
                        /\ End(toks'[k]) = End(toks[k])
    <3> SUFFICES ASSUME NEW k \in 1..N
                 PROVE  /\ End(toks[k]) \in Nat /\ End(toks[k]) <= split
                        /\ End(toks'[k]) = End(toks[k])
      OBVIOUS
    <3>1. k \in DOMAIN toks /\ toks'[k] = toks[k]
      BY <2>2
    <3>2. /\ toks[k].at \in Nat /\ Len(toks[k].surface) \in Nat \ {0}
          /\ End(toks[k]) = toks[k].at + Len(toks[k].surface)
          /\ End(toks[k]) <= split
      BY <1>1, <3>1, WordsAre
    <3>3. End(toks[k]) \in Nat
      BY <3>2
    <3> QED BY <3>1, <3>2, <3>3
  <2>5. DOMAIN t.surface = 1..n /\ t.surface # <<>>
    BY <1>3, <2>1, LenProperties, EmptySeq
  <2>6. \A k \in DOMAIN toks' :
          /\ toks'[k].surface # <<>> /\ End(toks'[k]) <= split'
          /\ toks'[k].surface = Slice(Line, toks'[k].at, Len(toks'[k].surface))
          /\ tagger => \A i \in DOMAIN toks'[k].surface : toks'[k].surface[i] \notin Spaces
    <3> SUFFICES ASSUME NEW k \in 1..(N + 1)
                 PROVE  /\ toks'[k].surface # <<>> /\ End(toks'[k]) <= split'
                        /\ toks'[k].surface = Slice(Line, toks'[k].at, Len(toks'[k].surface))
                        /\ tagger => \A i \in DOMAIN toks'[k].surface :
                                        toks'[k].surface[i] \notin Spaces
      BY <2>2
    <3>1. CASE k = N + 1
      <4>1. End(t) <= split'
        BY <2>3
      <4>2. tagger => \A i \in DOMAIN t.surface : t.surface[i] \notin Spaces
        BY <1>3, <2>1, <2>5
      <4> QED BY <2>1, <2>2, <2>5, <3>1, <4>1, <4>2
    <3>2. CASE k \in 1..N
      <4>1. End(toks[k]) <= split'
        BY <1>1, <2>3, <2>4, <3>2
      <4> QED BY <1>1, <2>2, <3>2, <4>1 DEF SplitInv
    <3> QED BY <2>2, <3>1, <3>2
  <2>7. \A j, k \in DOMAIN toks' : j < k => End(toks'[j]) <= toks'[k].at
    <3> SUFFICES ASSUME NEW j \in 1..(N + 1), NEW k \in 1..(N + 1), j < k
                 PROVE  End(toks'[j]) <= toks'[k].at
      BY <2>2
    <3>1. j \in 1..N
      BY <2>2
    <3>2. CASE k = N + 1
      BY <2>1, <2>2, <2>4, <3>1, <3>2
    <3>3. CASE k \in 1..N
      BY <1>1, <2>2, <3>1, <3>3 DEF SplitInv
    <3> QED BY <2>2, <3>2, <3>3
  <2>8. \A i \in 1..split' :
          \/ \E k \in DOMAIN toks' : toks'[k].at < i /\ i <= End(toks'[k])
          \/ tagger /\ Line[i] \in Spaces
    <3> SUFFICES ASSUME NEW i \in 1..split'
                 PROVE  \/ \E k \in 1..(N + 1) : toks'[k].at < i /\ i <= End(toks'[k])
                        \/ tagger /\ Line[i] \in Spaces
      BY <2>2
    <3>1. CASE i <= split
      <4>1. i \in 1..split
        BY <1>1, <2>3, <3>1
      <4>2. \/ \E k \in 1..N : toks[k].at < i /\ i <= End(toks[k])
            \/ tagger /\ Line[i] \in Spaces
        BY <1>1, <2>2, <4>1 DEF SplitInv
      <4>3. \A k \in 1..N : k \in 1..(N + 1) /\ toks'[k] = toks[k]
        BY <2>2
      <4> QED BY <4>2, <4>3
    <3>2. CASE split < i
      <4>1. N + 1 \in 1..(N + 1) /\ t.at < i /\ i <= End(t)
        BY <2>1, <2>2, <2>3, <3>2
      <4> QED BY <2>2, <4>1
    <3> QED BY <1>1, <2>3, <3>1, <3>2
  <2>9. \A u : End(u)' = End(u)
    BY DEF End
  <2> QED BY <1>1, <2>3, <2>6, <2>7, <2>8 DEF SplitInv, End
<1> QED BY <1>1, <1>2, <1>3, SplitTakes

LEMMA SplitStep == IInv /\ [Next]_vars => SplitInv'
<1> SUFFICES ASSUME IInv, [Next]_vars PROVE SplitInv'
  OBVIOUS
<1>0. aligned' \in Seq(Glyph) /\ Len(Line') \in Nat
  <2>1. aligned' \in Seq(Glyph)
    BY TypeStep DEF TypeOK
  <2> QED BY <2>1, LineOf DEF Line
<1>1. \/ SplitFallback
      \/ \E n \in 1..Steps, r \in Readings \cup {NoReading} : SplitMeCab(n, r)
      \/ SplitDone
      \/ UNCHANGED <<tagger, aligned, toks, split>> /\ (pc' = "place" => pc = "place")
      \/ toks' = <<>> /\ split' = 0 /\ pc' # "place"
  BY DEF IInv, FreshInv, BetweenLines, Next, Prepare, RecognizeLine, PlaceReadings, Call,
         BadImage, Load, LoadFails,
         Detect, DetectFails, Extract, ExtractNone, Resolve, ResolveFails, NextLine,
         Recognize, RecognizeFails, Decode, EmptyLine, KeepLine,
         Skip, Place, LineDone, Finish, Cancel, Cancelled, Return, ClearLine, vars,
         decoding, placing
<1>2. CASE SplitFallback \/ \E n \in 1..Steps, r \in Readings \cup {NoReading} : SplitMeCab(n, r)
  BY <1>2, SplitMore DEF SplitFallback, SplitMeCab, decoding
<1>3. CASE \/ SplitDone
           \/ UNCHANGED <<tagger, aligned, toks, split>> /\ (pc' = "place" => pc = "place")
  <2>1. UNCHANGED <<tagger, aligned, toks, split>>
        /\ (pc' = "place" => pc = "place" \/ split = Len(Line))
    BY <1>3 DEF SplitDone, decoding, placing
  <2>2. Line' = Line /\ \A t : End(t)' = End(t)
    BY <2>1 DEF Line, End
  <2>3. SplitInv
    BY DEF IInv
  <2> QED BY <2>1, <2>2, <2>3 DEF SplitInv, End
<1>4. CASE toks' = <<>> /\ split' = 0 /\ pc' # "place"
  BY <1>0, <1>4 DEF SplitInv
<1> QED BY <1>1, <1>2, <1>3, <1>4

-----------------------------------------------------------------------------
(* The placing loop.                                                       *)

\* The cursor stands where the next word does, or before a space ahead of it.
LEMMA CursorBehindWord ==
  ASSUME IInv, pc = "place", next <= Len(toks)
  PROVE  /\ next \in DOMAIN toks /\ DOMAIN toks = 1..Len(toks) /\ Len(toks) \in Nat
         /\ \/ cursor = toks[next].at
            \/ /\ cursor < toks[next].at /\ cursor < Len(Line)
               /\ tagger /\ Line[cursor + 1] \in Spaces
<1>1. /\ TypeOK /\ SplitInv /\ CursorInv
      /\ Len(toks) \in Nat /\ DOMAIN toks = 1..Len(toks)
      /\ next \in Nat \ {0} /\ cursor \in Nat /\ split = Len(Line)
  BY LenProperties DEF IInv, PlaceInv, TypeOK, SplitInv
<1>2. next \in DOMAIN toks /\ next \in next..Len(toks)
  BY <1>1
<1>3. /\ toks[next].at \in Nat /\ End(toks[next]) \in Nat /\ toks[next].at < End(toks[next])
      /\ End(toks[next]) <= split /\ Len(Line) \in Nat
  BY <1>1, <1>2, WordsAre
<1>4. cursor <= toks[next].at
  BY <1>1, <1>2 DEF CursorInv
<1>5. ASSUME cursor < toks[next].at
      PROVE  cursor < Len(Line) /\ tagger /\ Line[cursor + 1] \in Spaces
  <2>1. cursor < Len(Line) /\ cursor + 1 \in 1..split
    BY <1>1, <1>3, <1>5
  <2>2. CASE \A k \in 1..(next - 1) : End(toks[k]) <= cursor
    <3>1. ASSUME NEW k \in DOMAIN toks, toks[k].at < cursor + 1, cursor + 1 <= End(toks[k])
          PROVE  FALSE
      <4>1. toks[k].at \in Nat /\ End(toks[k]) \in Nat /\ k \in 1..Len(toks)
        BY <1>1, WordsAre
      <4>2. CASE k < next
        BY <1>1, <2>2, <3>1, <4>1, <4>2
      <4>3. CASE k = next
        BY <1>1, <1>3, <1>5, <3>1, <4>3
      <4>4. CASE next < k
        <5>1. End(toks[next]) <= toks[k].at
          BY <1>1, <1>2, <4>4 DEF SplitInv
        <5> QED BY <1>1, <1>3, <1>5, <3>1, <4>1, <5>1
      <4> QED BY <1>1, <4>1, <4>2, <4>3, <4>4
    <3>2. \/ \E k \in DOMAIN toks : toks[k].at < cursor + 1 /\ cursor + 1 <= End(toks[k])
          \/ tagger /\ Line[cursor + 1] \in Spaces
      BY <1>1, <2>1 DEF SplitInv
    <3> QED BY <2>1, <3>1, <3>2
  <2> QED BY <1>1, <2>2 DEF CursorInv
<1> QED BY <1>1, <1>2, <1>3, <1>4, <1>5

\* The loop's comparison of characters tells where the word stands.
LEMMA AtCursorIs ==
  ASSUME IInv, pc = "place", next <= Len(toks)
  PROVE  AtCursor(toks[next]) <=> cursor = toks[next].at
<1>1. TypeOK /\ SplitInv /\ next \in DOMAIN toks /\ cursor \in Nat /\ Line \in Seq(Nat)
  BY CursorBehindWord, LineIs DEF IInv, TypeOK
<1> DEFINE t == toks[next]
           m == Len(t.surface)
<1>2. /\ t.at \in Nat /\ t.surface \in Seq(Nat) /\ m \in Nat \ {0}
      /\ t.at + m <= Len(Line) /\ Len(Line) \in Nat
  <2>1. /\ t.at \in Nat /\ t.surface \in Seq(Nat) /\ m \in Nat \ {0}
        /\ End(t) = t.at + m /\ End(t) <= split /\ split <= Len(Line)
        /\ Len(Line) \in Nat /\ split \in Nat
    BY <1>1, WordsAre DEF TypeOK
  <2> QED BY <2>1
<1>3. t.surface = Slice(Line, t.at, m)
  BY <1>1 DEF SplitInv
<1>4. ASSUME AtCursor(t), cursor # t.at
      PROVE  FALSE
  <2>1. tagger /\ Line[cursor + 1] \in Spaces
    BY <1>4, CursorBehindWord
  <2>2. cursor + m <= Len(Line) /\ Slice(Line, cursor, m) = t.surface
    BY <1>4 DEF AtCursor
  <2>3. t.surface[1] = Line[cursor + 1]
    <3>1. /\ Line \in Seq(Nat) /\ cursor \in Nat /\ m \in Nat
          /\ cursor + m <= Len(Line) /\ 1 \in 1..m
      BY <1>1, <1>2, <2>2
    <3> HIDE DEF m
    <3>2. \A i \in 1..m : Slice(Line, cursor, m)[i] = Line[cursor + i]
      BY <3>1, SliceIs
    <3> QED BY <2>2, <3>1, <3>2
  <2>4. 1 \in DOMAIN t.surface
    BY <1>2, LenProperties
  <2>5. t.surface[1] \notin Spaces
    BY <1>1, <2>1, <2>4 DEF SplitInv
  <2> QED BY <2>1, <2>3, <2>5
<1>5. ASSUME cursor = t.at
      PROVE  AtCursor(t)
  BY <1>2, <1>3, <1>5 DEF AtCursor
<1> QED BY <1>4, <1>5

\* The loop starts with no reading of the line in the output.
LEMMA PlacingStarts == IInv /\ SplitDone => PlaceInv'
<1> SUFFICES ASSUME IInv, SplitDone PROVE PlaceInv'
  OBVIOUS
<1>1. /\ pc = "split" /\ next = 1 /\ cursor = 0 /\ TypeOK /\ SplitInv /\ OutputInv
      /\ UNCHANGED <<loaded, cancel, tagger, boxes, box, class, previous, aligned,
                     toks, split, next, cursor, text, regions, tokens, status>>
  BY DEF IInv, FreshInv, SplitDone, BetweenLines, decoding, placing, output
<1>2. Len(toks) \in Nat /\ DOMAIN toks = 1..Len(toks)
  BY <1>1, LenProperties DEF TypeOK
<1>3. \A k \in 1..Len(toks) : 0 <= toks[k].at
  BY <1>1, <1>2, WordsAre
<1>4. CursorInv'
  BY <1>1, <1>2, <1>3 DEF CursorInv
<1>5. \A n \in DOMAIN tokens : tokens[n].box # box
  <2>1. \A n \in DOMAIN tokens : tokens[n].box \in Nat /\ tokens[n].box < box
    BY <1>1, BoxesAreNumbers DEF OutputInv
  <2> QED BY <1>1, <2>1 DEF TypeOK
<1>6. ReadingsOverTheirWords' /\ ReadingLostOnlyBehindSpace'
  BY <1>1, <1>5 DEF ReadingsOverTheirWords, ReadingLostOnlyBehindSpace
<1> QED BY <1>4, <1>6 DEF PlaceInv

\* A word is passed over only when the cursor stands before a space.
LEMMA PlacingSkips == IInv /\ Skip => PlaceInv'
<1> SUFFICES ASSUME IInv, Skip PROVE PlaceInv'
  OBVIOUS
<1>1. /\ pc = "place" /\ next <= Len(toks) /\ ~AtCursor(toks[next]) /\ next' = next + 1
      /\ UNCHANGED <<pc, loaded, cancel, tagger, boxes, box, class, previous, aligned,
                     toks, split, cursor, text, regions, tokens, status>>
      /\ TypeOK /\ SplitInv /\ PlaceInv /\ next \in Nat \ {0} /\ cursor \in Nat
  BY DEF IInv, Skip, TypeOK, decoding, output
<1>2. /\ cursor < toks[next].at /\ cursor < Len(Line) /\ tagger /\ Line[cursor + 1] \in Spaces
      /\ next \in DOMAIN toks /\ DOMAIN toks = 1..Len(toks) /\ Len(toks) \in Nat
  BY <1>1, CursorBehindWord, AtCursorIs
<1>3. Line' = Line /\ (\A u : End(u)' = End(u)) /\ \A u, n : Placed(u, n)' = Placed(u, n)
  BY <1>1 DEF Line, End, Placed
<1>4. toks[next].at \in Nat /\ End(toks[next]) \in Nat /\ toks[next].at < End(toks[next])
  BY <1>1, <1>2, WordsAre
<1>5. \A k \in (next + 1)..Len(toks) : cursor < toks[k].at
  <2> SUFFICES ASSUME NEW k \in (next + 1)..Len(toks) PROVE cursor < toks[k].at
    OBVIOUS
  <2>1. k \in DOMAIN toks /\ next < k
    BY <1>1, <1>2
  <2>2. End(toks[next]) <= toks[k].at /\ toks[k].at \in Nat
    BY <1>1, <1>2, <2>1, WordsAre DEF SplitInv
  <2> QED BY <1>1, <1>2, <1>4, <2>2
<1>6. CursorInv'
  <2>1. \A k \in (next + 1)..Len(toks) : cursor <= toks[k].at
    <3> SUFFICES ASSUME NEW k \in (next + 1)..Len(toks) PROVE cursor <= toks[k].at
      OBVIOUS
    <3>1. k \in DOMAIN toks
      BY <1>1, <1>2
    <3> QED BY <1>1, <1>5, <3>1, WordsAre
  <2> QED BY <1>1, <1>2, <1>3, <1>5, <2>1 DEF CursorInv
<1>7. ReadingsOverTheirWords'
  <2>1. \A n \in DOMAIN tokens : tokens[n].box = box =>
          \E k \in 1..(next - 1) :
             HasReading(toks[k]) /\ tokens[n] = Placed(toks[k], toks[k].at)
    BY <1>1 DEF PlaceInv, ReadingsOverTheirWords
  <2>2. 1..(next - 1) \subseteq 1..(next' - 1)
    BY <1>1
  <2> QED BY <1>1, <1>3, <2>1, <2>2 DEF ReadingsOverTheirWords, HasReading, Placed
<1>8. ReadingLostOnlyBehindSpace'
  <2>1. \A k \in 1..(next' - 1) : k \in 1..(next - 1) \/ k = next
    BY <1>1
  <2>2. cursor + 1 \in 1..toks[next].at
    BY <1>1, <1>2, <1>4
  <2>3. \A k \in 1..(next' - 1) :
          \/ ~HasReading(toks[k])
          \/ PlacedHere(toks[k])
          \/ tagger /\ \E i \in 1..toks[k].at : Line[i] \in Spaces
    BY <1>1, <1>2, <2>1, <2>2 DEF PlaceInv, ReadingLostOnlyBehindSpace
  <2> QED BY <1>1, <1>3, <2>3
          DEF ReadingLostOnlyBehindSpace, HasReading, PlacedHere, Placed
<1> QED BY <1>6, <1>7, <1>8 DEF PlaceInv

\* A word is placed where it stands.
LEMMA PlacingPlaces == IInv /\ Place => PlaceInv'
<1> SUFFICES ASSUME IInv, Place PROVE PlaceInv'
  OBVIOUS
<1> DEFINE t == toks[next]
<1>1. /\ pc = "place" /\ next <= Len(toks) /\ AtCursor(t) /\ next' = next + 1
      /\ cursor' = cursor + Len(t.surface)
      /\ tokens' = IF HasReading(t) THEN Append(tokens, Placed(t, cursor)) ELSE tokens
      /\ UNCHANGED <<pc, loaded, cancel, tagger, boxes, box, class, previous, aligned,
                     toks, split, text, regions, status>>
      /\ TypeOK /\ SplitInv /\ PlaceInv /\ next \in Nat \ {0} /\ cursor \in Nat
  BY DEF IInv, Place, TypeOK, Advanced, decoding
<1>2. /\ cursor = t.at
      /\ next \in DOMAIN toks /\ DOMAIN toks = 1..Len(toks) /\ Len(toks) \in Nat
  BY <1>1, CursorBehindWord, AtCursorIs
<1>3. Line' = Line /\ (\A u : End(u)' = End(u)) /\ \A u, n : Placed(u, n)' = Placed(u, n)
  BY <1>1 DEF Line, End, Placed
<1>4. /\ t.at \in Nat /\ End(t) \in Nat /\ t.at < End(t)
      /\ cursor' = End(t)
  BY <1>1, <1>2, WordsAre, SMTT(20)
<1> HIDE DEF t
<1>5. CursorInv'
  <2>1. \A k \in (next + 1)..Len(toks) : End(t) <= toks[k].at
    BY <1>1, <1>2 DEF SplitInv, t
  <2>2. \A k \in 1..(next - 1) : End(toks[k]) <= t.at
    BY <1>1, <1>2 DEF SplitInv, t
  <2>3. \A k \in 1..next : End(toks[k]) <= End(t)
    <3> SUFFICES ASSUME NEW k \in 1..next PROVE End(toks[k]) <= End(t)
      OBVIOUS
    <3>1. CASE k = next
      BY <1>4, <3>1 DEF t
    <3>2. CASE k \in 1..(next - 1)
      <4>1. k \in DOMAIN toks
        BY <1>1, <1>2, <3>2
      <4>2. End(toks[k]) \in Nat
        BY <1>1, <4>1, WordsAre
      <4> QED BY <1>4, <2>2, <3>2, <4>2
    <3> QED BY <1>1, <3>1, <3>2
  <2>4. next' <= Len(toks) + 1 /\ next' - 1 = next
    BY <1>1, <1>2
  <2> QED BY <1>1, <1>3, <1>4, <2>1, <2>3, <2>4 DEF CursorInv
<1>6. 1..(next - 1) \subseteq 1..(next' - 1) /\ next \in 1..(next' - 1)
      /\ \A k \in 1..(next' - 1) : k \in 1..(next - 1) \/ k = next
  BY <1>1
<1> DEFINE r == Placed(t, t.at)
<1>7. /\ tokens \in Seq(Ruby)
      /\ ~HasReading(t) => tokens' = tokens
      /\ HasReading(t) => tokens' = Append(tokens, r)
  BY <1>1, <1>2 DEF TypeOK
<1> HIDE DEF r
<1>8. ASSUME HasReading(t)
      PROVE  /\ DOMAIN tokens' = DOMAIN tokens \cup {Len(tokens) + 1}
             /\ tokens'[Len(tokens) + 1] = r
             /\ \A n \in DOMAIN tokens : tokens'[n] = tokens[n]
  <2>1. tokens \in Seq(Ruby \cup {r}) /\ r \in Ruby \cup {r}
    <3>1. Ruby \subseteq Ruby \cup {r}
      OBVIOUS
    <3> QED BY <1>7, <3>1, SeqMonotonic
  <2>2. /\ Len(tokens) \in Nat /\ DOMAIN tokens = 1..Len(tokens)
        /\ DOMAIN Append(tokens, r) = 1..(Len(tokens) + 1)
        /\ Append(tokens, r)[Len(tokens) + 1] = r
        /\ \A i \in 1..Len(tokens) : Append(tokens, r)[i] = tokens[i]
    BY <2>1, Appended
  <2>3. 1..(Len(tokens) + 1) = 1..Len(tokens) \cup {Len(tokens) + 1}
    BY <2>2
  <2> QED BY <1>7, <1>8, <2>2, <2>3
<1>9. /\ \A n \in DOMAIN tokens : n \in DOMAIN tokens' /\ tokens'[n] = tokens[n]
      /\ \A n \in DOMAIN tokens' : n \in DOMAIN tokens \/ (HasReading(t) /\ tokens'[n] = r)
      /\ HasReading(t) => \E n \in DOMAIN tokens' : tokens'[n] = r
  <2>1. CASE ~HasReading(t)
    <3>1. tokens' = tokens
      BY <1>7, <2>1
    <3> QED BY <2>1, <3>1
  <2>2. CASE HasReading(t)
    <3>1. /\ DOMAIN tokens' = DOMAIN tokens \cup {Len(tokens) + 1}
          /\ tokens'[Len(tokens) + 1] = r
          /\ \A n \in DOMAIN tokens : tokens'[n] = tokens[n]
      BY <1>8, <2>2
    <3> QED BY <2>2, <3>1, Zenon
  <2> QED BY <2>1, <2>2, Zenon
<1>10. ReadingsOverTheirWords'
  <2>1. \A n \in DOMAIN tokens : tokens[n].box = box =>
          \E k \in 1..(next - 1) :
             HasReading(toks[k]) /\ tokens[n] = Placed(toks[k], toks[k].at)
    BY <1>1 DEF PlaceInv, ReadingsOverTheirWords
  <2>2. \A n \in DOMAIN tokens' : tokens'[n].box = box =>
          \E k \in 1..(next' - 1) :
             HasReading(toks[k]) /\ tokens'[n] = Placed(toks[k], toks[k].at)
    BY <1>6, <1>9, <2>1 DEF t, r
  <2> QED BY <1>1, <1>3, <2>2, ZenonT(40) DEF ReadingsOverTheirWords, HasReading, Placed
<1>11. ReadingLostOnlyBehindSpace'
  <2>1. \A k \in 1..(next - 1) :
          \/ ~HasReading(toks[k])
          \/ \E n \in DOMAIN tokens : tokens[n] = Placed(toks[k], toks[k].at)
          \/ tagger /\ \E i \in 1..toks[k].at : Line[i] \in Spaces
    BY <1>1 DEF PlaceInv, ReadingLostOnlyBehindSpace, PlacedHere
  <2>2. \A k \in 1..(next' - 1) :
          \/ ~HasReading(toks[k])
          \/ \E n \in DOMAIN tokens' : tokens'[n] = Placed(toks[k], toks[k].at)
          \/ tagger /\ \E i \in 1..toks[k].at : Line[i] \in Spaces
    <3> SUFFICES ASSUME NEW k \in 1..(next' - 1), HasReading(toks[k])
                 PROVE  \/ \E n \in DOMAIN tokens' : tokens'[n] = Placed(toks[k], toks[k].at)
                        \/ tagger /\ \E i \in 1..toks[k].at : Line[i] \in Spaces
      OBVIOUS
    <3>1. CASE k = next
      BY <1>9, <3>1 DEF t, r
    <3>2. CASE k \in 1..(next - 1)
      BY <1>9, <2>1, <3>2
    <3> QED BY <1>6, <3>1, <3>2
  <2> QED BY <1>1, <1>3, <2>2
          DEF ReadingLostOnlyBehindSpace, HasReading, PlacedHere, Placed
<1> QED BY <1>5, <1>10, <1>11 DEF PlaceInv

LEMMA PlaceStep == IInv /\ [Next]_vars => PlaceInv'
<1> SUFFICES ASSUME IInv, [Next]_vars PROVE PlaceInv'
  OBVIOUS
<1>1. \/ SplitDone \/ Skip \/ Place
      \/ UNCHANGED <<pc, tagger, box, aligned, toks, next, cursor, tokens>>
      \/ pc' # "place"
  BY DEF Next, Prepare, RecognizeLine, PlaceReadings, Call, BadImage, Load, LoadFails,
         Detect, DetectFails, Extract, ExtractNone, Resolve, ResolveFails, NextLine,
         Recognize, RecognizeFails, Decode, EmptyLine, KeepLine, SplitFallback, SplitMeCab,
         LineDone, Finish, Cancel, Cancelled, Return, ClearLine, vars,
         decoding, placing, output
<1>2. CASE UNCHANGED <<pc, tagger, box, aligned, toks, next, cursor, tokens>>
  <2>1. Line' = Line
    BY <1>2 DEF Line
  <2>2. PlaceInv
    BY DEF IInv
  <2>3. CursorInv'
    BY <1>2, <2>1, <2>2 DEF PlaceInv, CursorInv, End
  <2>4. ReadingsOverTheirWords'
    BY <1>2, <2>2 DEF PlaceInv, ReadingsOverTheirWords, HasReading, Placed
  <2>5. ReadingLostOnlyBehindSpace'
    BY <1>2, <2>1, <2>2
       DEF PlaceInv, ReadingLostOnlyBehindSpace, PlacedHere, HasReading, Placed
  <2> QED BY <2>3, <2>4, <2>5 DEF PlaceInv
<1>3. CASE pc' # "place"
  BY <1>3 DEF PlaceInv, CursorInv, ReadingsOverTheirWords, ReadingLostOnlyBehindSpace
<1> QED BY <1>1, <1>2, <1>3, PlacingStarts, PlacingSkips, PlacingPlaces

-----------------------------------------------------------------------------
(* The theorems.                                                           *)

LEMMA InitHolds == Init => IInv
<1> SUFFICES ASSUME Init PROVE IInv
  OBVIOUS
<1>1. /\ pc = "idle" /\ class = <<>> /\ aligned = <<>> /\ toks = <<>> /\ split = 0
      /\ next = 1 /\ cursor = 0 /\ text = <<>> /\ regions = <<>> /\ tokens = <<>>
      /\ previous = NoClass /\ status = "none" /\ cancel = FALSE
      /\ boxes = 0 /\ box = 0 /\ tagger = FALSE /\ loaded = FALSE
  BY DEF Init
<1>2. TypeOK
  <2>1. /\ class \in Seq(Classes) /\ aligned \in Seq(Glyph) /\ toks \in Seq(Word)
        /\ text \in Seq(Nat) /\ regions \in Seq(Region) /\ tokens \in Seq(Ruby)
    BY <1>1, EmptySeq
  <2>2. /\ pc \in BetweenLines /\ next \in Nat \ {0}
        /\ split \in Nat /\ cursor \in Nat /\ boxes \in Nat /\ box \in Nat
        /\ previous \in Classes \cup {NoClass} /\ status \in Statuses \cup {"none"}
    BY <1>1 DEF BetweenLines
  <2>3. loaded \in BOOLEAN /\ cancel \in BOOLEAN /\ tagger \in BOOLEAN
    BY <1>1, Zenon
  <2> QED BY <2>1, <2>2, <2>3 DEF TypeOK
<1>3. Len(<<>>) = 0 /\ DOMAIN <<>> = {}
  <2>1. Len(<<>>) = 0 /\ <<>> \in Seq(Nat)
    BY EmptySeq
  <2>2. DOMAIN <<>> = 1..0
    BY <2>1, LenProperties
  <2> QED BY <2>1, <2>2
<1>4. FreshInv
  BY <1>1 DEF FreshInv
<1>5. DecodeInv
  <2>1. RunStarts = {}
    BY <1>1, <1>3 DEF RunStarts
  <2>2. Cardinality(RunStarts) = 0
    BY <2>1, FS_EmptySet
  <2> QED BY <1>1, <1>3, <2>2 DEF DecodeInv, PreviousInv, CtcGreedy
<1>6. OutputInv
  <2>1. TextOf[Len(regions)] = <<>>
    <3>1. regions \in Seq(Region) /\ Len(regions) = 0
      BY <1>1, <1>2, <1>3 DEF TypeOK
    <3>2. TextOf = [n \in Nat |-> IF n = 0 THEN <<>>
                                  ELSE IF n = 1 THEN regions[1].text
                                  ELSE TextOf[n - 1] \o <<Newline>> \o regions[n].text]
      BY TextOfIs, ZenonT(40) DEF TextOf
    <3> HIDE DEF TextOf
    <3>3. 0 \in Nat
      OBVIOUS
    <3>4. TextOf[0] = <<>>
      BY <3>2, <3>3, Zenon
    <3> QED BY <3>1, <3>4
  <2> QED BY <1>1, <1>3, <2>1 DEF OutputInv, TextMatchesRegions
<1>7. SplitInv
  <2>1. Len(Line) = 0
    BY <1>1, <1>2, <1>3, LineIs DEF TypeOK
  <2> QED BY <1>1, <1>3, <2>1 DEF SplitInv
<1>8. PlaceInv /\ StatusHonest
  BY <1>1 DEF PlaceInv, CursorInv, ReadingsOverTheirWords, ReadingLostOnlyBehindSpace,
              StatusHonest
<1> QED BY <1>2, <1>4, <1>5, <1>6, <1>7, <1>8 DEF IInv

\* The parts of the invariant hold together in every reachable state.
THEOREM InvariantHolds == Spec => []IInv
<1>1. Init => IInv
  BY InitHolds
<1>2. IInv /\ [Next]_vars => IInv'
  <2> SUFFICES ASSUME IInv, [Next]_vars PROVE IInv'
    OBVIOUS
  <2>1. TypeOK' /\ FreshInv'
    BY TypeStep
  <2>2. DecodeInv' /\ OutputInv' /\ SplitInv' /\ PlaceInv' /\ StatusHonest'
    BY DecodeStep, OutputStep, SplitStep, PlaceStep, StatusStep
  <2> QED BY <2>1, <2>2 DEF IInv
<1> QED BY <1>1, <1>2, PTL DEF Spec

\* Type correctness of the backend's state.
THEOREM TypeCorrect == Spec => []TypeOK
<1>1. IInv => TypeOK
  BY DEF IInv
<1> QED BY <1>1, InvariantHolds, PTL

\* The loop over the time steps (run 1526-1572) decodes what CTC means: one
\* character for each maximal run of its class, with the steps of the run as its
\* span, for any classes and lines of any length.
THEOREM DecodesGreedyCtc == Spec => []CtcGreedy
<1>1. IInv => CtcGreedy
  BY DEF IInv, DecodeInv
<1> QED BY <1>1, InvariantHolds, PTL

\* A token the placing loop (run 1579-1623) puts in the output stands over the
\* characters of the line its word was taken from, however the cursor fell behind.
THEOREM ReadingsStandOverWords == Spec => []ReadingsOverTheirWords
<1>1. IInv => ReadingsOverTheirWords
  BY DEF IInv, PlaceInv
<1> QED BY <1>1, InvariantHolds, PTL

\* The placing loop drops a word that has a reading only behind a character that
\* MeCab skips, so never with the fallback dictionary.
THEOREM ReadingsLostBehindSpaces == Spec => []ReadingLostOnlyBehindSpace
<1>1. IInv => ReadingLostOnlyBehindSpace
  BY DEF IInv, PlaceInv
<1> QED BY <1>1, InvariantHolds, PTL

\* The text is the regions' texts, one line each in the order of the boxes, and
\* every reading lies on a box that is a region, for any number of boxes.
THEOREM OutputAgrees == Spec => []TextMatchesRegions
<1>1. IInv => TextMatchesRegions
  BY DEF IInv, OutputInv
<1> QED BY <1>1, InvariantHolds, PTL

\* A call returns CANCELLED only if it was cancelled, and OK only with some text.
THEOREM StatusIsHonest == Spec => []StatusHonest
<1>1. IInv => StatusHonest
  BY DEF IInv
<1> QED BY <1>1, InvariantHolds, PTL

=============================================================================
