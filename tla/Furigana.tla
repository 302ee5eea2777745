------------------------------- MODULE Furigana -------------------------------
(* One NativeFuriganaOcr backend and the calls of run on it, one after another:  *)
(* the engine holds its operation mutex around a call, so the only other thread  *)
(* is the one that sets the engine's cancel flag.                                *)
(*                                                                               *)
(* A character is its index in the dictionary, 1..NumCharacters, and a class of  *)
(* the recognizer is that index; class 0 is the CTC blank and the classes past   *)
(* the dictionary are the ones some exported graphs carry.  load_dictionary      *)
(* keeps only entries of one code point, so every character decodes and a line   *)
(* has as many code points as aligned characters.  Pixels, logits, confidences   *)
(* and geometry are left out: a region is the number of its detected box, and a  *)
(* position in a line is the time step the code divides by the number of steps.  *)
EXTENDS Integers, Sequences, FiniteSets

CONSTANTS
    NumCharacters,  \* entries of the character dictionary
    NumClasses,     \* classes of the recognizer, numbered from 0
    Steps,          \* time steps of a recognized line
    MaxBoxes,       \* bound: detected boxes of an image
    Kanji,          \* the characters is_kanji accepts
    Spaces,         \* the characters MeCab skips between its nodes
    Lexicon,        \* the entries of the fallback dictionary: surface, reading
    Readings        \* the readings MeCab may give a word

ASSUME DictionaryAssumption ==
    /\ NumCharacters \in Nat /\ NumClasses \in Nat
    /\ NumClasses >= NumCharacters + 1
    /\ Kanji \subseteq 1..NumCharacters
    /\ Spaces \subseteq (1..NumCharacters) \ Kanji

ASSUME LexiconAssumption ==
    \A i \in DOMAIN Lexicon : Lexicon[i].surface \in Seq(Nat)

ASSUME SizeAssumption == Steps \in Nat \ {0} /\ MaxBoxes \in Nat \ {0}

\* An empty reading, a line break in the text, no class seen yet.
NoReading == "none"
Newline == 0
NoClass == -1

VARIABLES
    pc,        \* where the call is
    loaded,    \* Impl::loaded: both sessions, the dictionary and the names are there
    cancel,    \* the engine's cancel_requested_
    tagger,    \* this call's resolver has a MeCab tagger, not the fallback list
    boxes,     \* number of boxes the detector found
    box,       \* the box whose line is recognized, 0 before the first
    class,     \* the best class of each time step read so far
    previous,  \* previous_class
    aligned,   \* the characters of the line, each with the steps it spans
    toks,      \* what tokenize returned for the line, with each surface's offset
    split,     \* how much of the line tokenize has consumed
    next,      \* the token the placing loop looks at
    cursor,    \* codepoint_cursor
    text,      \* output.text
    regions,   \* output.regions
    tokens,    \* output.tokens
    status     \* what the call returned

decoding == <<class, previous, aligned>>
placing == <<toks, split, next, cursor>>
output == <<text, regions, tokens>>
vars == <<pc, loaded, cancel, tagger, boxes, box, decoding, placing, output, status>>

Statuses ==
    {"OK", "CANCELLED", "INVALID_ARGUMENT", "MODEL_LOAD_FAILED",
     "INFERENCE_FAILED", "UNSUPPORTED"}

\* The numbers of text boxes extract_detection_boxes may find.
Detections == 1..MaxBoxes

Classes == 0..(NumClasses - 1)
Characters == 1..NumCharacters
Line == [i \in 1..Len(aligned) |-> aligned[i].character]

\* The characters of s after the first n, m of them.
Slice(s, n, m) == SubSeq(s, n + 1, n + m)

Init ==
    /\ pc = "idle" /\ loaded = FALSE /\ cancel = FALSE /\ tagger = FALSE
    /\ boxes = 0 /\ box = 0
    /\ class = <<>> /\ previous = NoClass /\ aligned = <<>>
    /\ toks = <<>> /\ split = 0 /\ next = 1 /\ cursor = 0
    /\ text = <<>> /\ regions = <<>> /\ tokens = <<>>
    /\ status = "none"

\* The variables of one round of the loop over the boxes.
ClearLine ==
    /\ class' = <<>> /\ previous' = NoClass /\ aligned' = <<>>
    /\ toks' = <<>> /\ split' = 0 /\ next' = 1 /\ cursor' = 0

Return(s) ==
    /\ pc' = "idle" /\ status' = s
    /\ UNCHANGED <<boxes, box>>
    /\ ClearLine

-------------------------------------------------------------------------------
(* Plausible bugs: altered forms of the operators they are named after.          *)

\* a blank does not end a run
DecodeBlankKeepsRun(c) ==
    /\ c = 0 \/ c > NumCharacters
    /\ UNCHANGED <<previous, aligned>>
\* a surface is placed wherever it fits
AtCursorUnchecked(t) == cursor + Len(t.surface) <= Len(Line)
\* the cursor moves only over words that have a reading
AdvancedOverReadings(t) ==
    IF t.reading = NoReading THEN cursor ELSE cursor + Len(t.surface)
\* the line break depends on the box, not on the text so far
JoinedByBox(t, l) == IF box = 1 THEN l ELSE t \o <<Newline>> \o l
\* a call with no text at all succeeds
FinishAlwaysOk ==
    /\ pc = "line" /\ box = boxes
    /\ pc' = "idle" /\ status' = "OK"
    /\ UNCHANGED <<loaded, cancel, tagger, boxes, box, decoding, placing, output>>

-------------------------------------------------------------------------------
(* The call up to the detected boxes.                                            *)

Call ==
    /\ pc = "idle"
    /\ pc' = "load" /\ status' = "none" /\ cancel' = FALSE
    /\ text' = <<>> /\ regions' = <<>> /\ tokens' = <<>>
    /\ boxes' = 0 /\ box' = 0
    /\ UNCHANGED <<loaded, tagger, decoding, placing>>

BadImage ==
    /\ pc = "load"
    /\ Return("INVALID_ARGUMENT")
    /\ UNCHANGED <<loaded, cancel, tagger, output>>

Load ==
    /\ pc = "load"
    /\ pc' = "detect" /\ loaded' = TRUE
    /\ UNCHANGED <<cancel, tagger, boxes, box, decoding, placing, output, status>>

LoadFails ==
    /\ pc = "load" /\ ~loaded
    /\ Return("MODEL_LOAD_FAILED")
    /\ UNCHANGED <<loaded, cancel, tagger, output>>

Detect ==
    /\ pc = "detect" /\ ~cancel
    /\ pc' = "extract"
    /\ UNCHANGED <<loaded, cancel, tagger, boxes, box, decoding, placing, output, status>>

DetectFails ==
    /\ pc = "detect"
    /\ Return("INFERENCE_FAILED")
    /\ UNCHANGED <<loaded, cancel, tagger, output>>

\* A cancel seen inside extract_detection_boxes only empties the list; one that
\* comes after its last check leaves the list as it is.
Extract(n) ==
    /\ pc = "extract"
    /\ pc' = "resolve" /\ boxes' = n
    /\ UNCHANGED <<loaded, cancel, tagger, box, decoding, placing, output, status>>

ExtractNone ==
    /\ pc = "extract"
    /\ Return(IF cancel THEN "CANCELLED" ELSE "INFERENCE_FAILED")
    /\ UNCHANGED <<loaded, cancel, tagger, output>>

Resolve ==
    /\ pc = "resolve"
    /\ pc' = "line"
    /\ tagger' \in {t \in BOOLEAN : t \/ Lexicon # <<>>}
    /\ UNCHANGED <<loaded, cancel, boxes, box, decoding, placing, output, status>>

ResolveFails ==
    /\ pc = "resolve"
    /\ Return("MODEL_LOAD_FAILED")
    /\ UNCHANGED <<loaded, cancel, tagger, output>>

\* The three places of run that look at the flag and give up.
Cancelled ==
    /\ cancel
    /\ \/ pc = "detect"
       \/ pc = "line" /\ box < boxes
       \/ pc = "decode" /\ Len(class) < Steps
    /\ Return("CANCELLED")
    /\ UNCHANGED <<loaded, cancel, tagger, output>>

-------------------------------------------------------------------------------
(* One line: recognition, then the greedy CTC decoding of its time steps.        *)

NextLine ==
    /\ pc = "line" /\ box < boxes /\ ~cancel
    /\ pc' = "recognize" /\ box' = box + 1
    /\ UNCHANGED <<loaded, cancel, tagger, boxes, decoding, placing, output, status>>

Recognize ==
    /\ pc = "recognize"
    /\ pc' = "decode"
    /\ UNCHANGED <<loaded, cancel, tagger, boxes, box, decoding, placing, output, status>>

RecognizeFails ==
    /\ pc = "recognize"
    /\ \E s \in {"INFERENCE_FAILED", "UNSUPPORTED"} : Return(s)
    /\ UNCHANGED <<loaded, cancel, tagger, output>>

IsBlank(c) == c = 0 \/ c > NumCharacters

DecodeBlank(c) ==
    /\ IsBlank(c)
    /\ previous' = NoClass
    /\ UNCHANGED aligned

Repeats(c) == c = previous /\ aligned # <<>>

DecodeRepeat(c) ==
    /\ ~IsBlank(c) /\ Repeats(c)
    /\ aligned' = [aligned EXCEPT ![Len(aligned)].end = Len(class) + 1]
    /\ UNCHANGED previous

DecodeCharacter(c) ==
    /\ ~IsBlank(c) /\ ~Repeats(c)
    /\ aligned' = Append(aligned,
          [character |-> c, start |-> Len(class), end |-> Len(class) + 1])
    /\ previous' = c

Decode(c) ==
    /\ pc = "decode" /\ Len(class) < Steps /\ ~cancel
    /\ DecodeBlank(c) \/ DecodeRepeat(c) \/ DecodeCharacter(c)
    /\ class' = Append(class, c)
    /\ UNCHANGED <<pc, loaded, cancel, tagger, boxes, box, placing, output, status>>

\* The line's text goes into output.text after a line break, unless it is the
\* first that is not empty.
Joined(t, l) == IF t = <<>> THEN l ELSE t \o <<Newline>> \o l

EmptyLine ==
    /\ pc = "decode" /\ Len(class) = Steps /\ aligned = <<>>
    /\ pc' = "line"
    /\ ClearLine
    /\ UNCHANGED <<loaded, cancel, tagger, boxes, box, output, status>>

KeepLine ==
    /\ pc = "decode" /\ Len(class) = Steps /\ aligned # <<>>
    /\ pc' = "split"
    /\ regions' = Append(regions, [box |-> box, text |-> Line])
    /\ text' = Joined(text, Line)
    /\ UNCHANGED <<loaded, cancel, tagger, boxes, box, decoding, placing, tokens, status>>

-------------------------------------------------------------------------------
(* ReadingResolver::tokenize, then the loop that puts each reading on the steps  *)
(* of the characters it belongs to.                                              *)

Token(from, n, reading) ==
    [surface |-> Slice(Line, from, n), at |-> from, reading |-> reading]

Matches(i, from) ==
    LET surface == Lexicon[i].surface
    IN  /\ surface # <<>>
        /\ from + Len(surface) <= Len(Line)
        /\ Slice(Line, from, Len(surface)) = surface

\* The longest entry that fits, the first of them if several are as long.
Best(i, from) ==
    /\ Matches(i, from)
    /\ \A j \in DOMAIN Lexicon : Matches(j, from) =>
          \/ Len(Lexicon[j].surface) < Len(Lexicon[i].surface)
          \/ Len(Lexicon[j].surface) = Len(Lexicon[i].surface) /\ i <= j

SplitFallback ==
    /\ pc = "split" /\ ~tagger /\ split < Len(Line)
    /\ LET found == {i \in DOMAIN Lexicon : Best(i, split)}
       IN  \/ /\ found = {}
              /\ toks' = Append(toks, Token(split, 1, NoReading))
              /\ split' = split + 1
           \/ \E i \in found :
                LET n == Len(Lexicon[i].surface)
                IN  /\ toks' = Append(toks, Token(split, n, Lexicon[i].reading))
                    /\ split' = split + n
    /\ UNCHANGED <<pc, loaded, cancel, tagger, boxes, box, decoding, next, cursor,
                   output, status>>

\* MeCab returns the words of the line from left to right, skipping spaces.
SplitMeCab(n, reading) ==
    /\ pc = "split" /\ tagger /\ split < Len(Line)
    /\ split + n <= Len(Line)
    /\ \/ /\ Line[split + 1] \in Spaces
          /\ n = 1 /\ reading = NoReading
          /\ UNCHANGED toks
       \/ /\ \A i \in 1..n : Line[split + i] \notin Spaces
          /\ toks' = Append(toks, Token(split, n, reading))
    /\ split' = split + n
    /\ UNCHANGED <<pc, loaded, cancel, tagger, boxes, box, decoding, next, cursor,
                   output, status>>

SplitDone ==
    /\ pc = "split" /\ split = Len(Line)
    /\ pc' = "place"
    /\ UNCHANGED <<loaded, cancel, tagger, boxes, box, decoding, placing, output, status>>

AtCursor(t) ==
    /\ cursor + Len(t.surface) <= Len(Line)
    /\ Slice(Line, cursor, Len(t.surface)) = t.surface

HasReading(t) ==
    /\ \E i \in DOMAIN t.surface : t.surface[i] \in Kanji
    /\ t.reading # NoReading

Advanced(t) == cursor + Len(t.surface)

\* The steps from the first character's start to the last character's end.
Placed(t, from) ==
    [box |-> box, surface |-> t.surface, reading |-> t.reading,
     start |-> aligned[from + 1].start, end |-> aligned[from + Len(t.surface)].end]

Skip ==
    /\ pc = "place" /\ next <= Len(toks)
    /\ ~AtCursor(toks[next])
    /\ next' = next + 1
    /\ UNCHANGED <<pc, loaded, cancel, tagger, boxes, box, decoding, toks, split,
                   cursor, output, status>>

Place ==
    /\ pc = "place" /\ next <= Len(toks)
    /\ LET t == toks[next]
       IN  /\ AtCursor(t)
           /\ cursor' = Advanced(t)
           /\ tokens' = IF HasReading(t) THEN Append(tokens, Placed(t, cursor))
                                         ELSE tokens
    /\ next' = next + 1
    /\ UNCHANGED <<pc, loaded, cancel, tagger, boxes, box, decoding, toks, split,
                   text, regions, status>>

LineDone ==
    /\ pc = "place" /\ next > Len(toks)
    /\ pc' = "line"
    /\ ClearLine
    /\ UNCHANGED <<loaded, cancel, tagger, boxes, box, output, status>>

Finish ==
    /\ pc = "line" /\ box = boxes
    /\ pc' = "idle"
    /\ status' = IF text = <<>> THEN "INFERENCE_FAILED" ELSE "OK"
    /\ UNCHANGED <<loaded, cancel, tagger, boxes, box, decoding, placing, output>>

\* Engine::cancel, from any thread.
Cancel ==
    /\ pc # "idle" /\ ~cancel
    /\ cancel' = TRUE
    /\ UNCHANGED <<pc, loaded, tagger, boxes, box, decoding, placing, output, status>>

Prepare ==
    \/ Call \/ BadImage \/ Load \/ LoadFails \/ Detect \/ DetectFails
    \/ \E n \in Detections : Extract(n)
    \/ ExtractNone \/ Resolve \/ ResolveFails

RecognizeLine ==
    \/ NextLine \/ Recognize \/ RecognizeFails
    \/ \E c \in Classes : Decode(c)
    \/ EmptyLine \/ KeepLine

PlaceReadings ==
    \/ SplitFallback
    \/ \E n \in 1..Steps, r \in Readings \cup {NoReading} : SplitMeCab(n, r)
    \/ SplitDone \/ Skip \/ Place \/ LineDone

Next == Prepare \/ RecognizeLine \/ PlaceReadings \/ Finish \/ Cancel \/ Cancelled

Spec == Init /\ [][Next]_vars

-------------------------------------------------------------------------------
(* Properties.                                                                   *)

\* The steps at which a maximal run of one character class begins.
RunStarts ==
    {i \in 1..Len(class) :
        /\ class[i] \in Characters
        /\ i = 1 \/ class[i - 1] # class[i]}

\* i..j is a maximal run of one class in the steps read so far.
IsRun(i, j) ==
    /\ \A k \in i..j : class[k] = class[i]
    /\ j = Len(class) \/ class[j + 1] # class[i]

\* After any number of time steps the loop of run (1526-1572) has decoded what CTC
\* means: one character for each maximal run of its class, with the steps of the
\* run as its span, and a blank between two equal classes makes two characters.
CtcGreedy ==
    /\ Len(aligned) = Cardinality(RunStarts)
    /\ \A n \in 1..Len(aligned) :
         \E i \in RunStarts, j \in 1..Len(class) :
            /\ i <= j /\ IsRun(i, j)
            /\ Cardinality({k \in RunStarts : k <= i}) = n
            /\ aligned[n] = [character |-> class[i], start |-> i - 1, end |-> j]

\* The tokens of the current line that the output holds.
PlacedHere(t) ==
    \E n \in DOMAIN tokens : tokens[n] = Placed(t, t.at)

\* A reading is never drawn over characters that are not its word: codepoint_cursor
\* may fall behind the tokenizer, but a token it places stands where the word stands
\* in the line.
ReadingsOverTheirWords ==
    pc = "place" =>
       \A n \in DOMAIN tokens : tokens[n].box = box =>
          \E k \in 1..(next - 1) :
             HasReading(toks[k]) /\ tokens[n] = Placed(toks[k], toks[k].at)

\* A reading of the line is lost only behind a character that MeCab skips: with the
\* fallback dictionary, whose tokens cover the line, none ever is.
ReadingLostOnlyBehindSpace ==
    pc = "place" =>
       \A k \in 1..(next - 1) :
          \/ ~HasReading(toks[k])
          \/ PlacedHere(toks[k])
          \/ tagger /\ \E i \in 1..toks[k].at : Line[i] \in Spaces

\* The text of the first n regions, with a line break between two.
TextOf[n \in Nat] ==
    IF n = 0 THEN <<>>
    ELSE IF n = 1 THEN regions[1].text
    ELSE TextOf[n - 1] \o <<Newline>> \o regions[n].text

\* The text and the regions a caller gets agree whatever lines came out empty: the
\* text is the regions' texts, one line each, in the order of the boxes, and every
\* reading lies on a box that is a region.
TextMatchesRegions ==
    /\ text = TextOf[Len(regions)]
    /\ \A m, n \in DOMAIN regions : m < n => regions[m].box < regions[n].box
    /\ \A n \in DOMAIN tokens : \E m \in DOMAIN regions : regions[m].box = tokens[n].box

\* A call that returns CANCELLED was cancelled since it began, and one that returns
\* OK hands over some text.
StatusHonest ==
    /\ status = "CANCELLED" => cancel
    /\ status = "OK" => text # <<>> /\ regions # <<>>

===============================================================================
