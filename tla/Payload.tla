------------------------------ MODULE Payload ------------------------------
(***************************************************************************)
(* A text on its way from one model to the other: OCR tidies what its      *)
(* model generates, the harness writes it into the host's buffer as a JSON *)
(* document, a translation reads its request and its parameters from JSON  *)
(* documents - the request may be the buffer of an OCR job - and cuts the  *)
(* text into segments (src/src/inferbridge/inferbridge_harness.cpp,        *)
(* src/src/engine/local_ai_engine.cpp).                                    *)
(*                                                                         *)
(* A document is a sequence of symbols: one for each character the         *)
(* algorithms tell apart, one for each member name, and one for the four   *)
(* hexadecimal digits of an escape.  Host documents are legal JSON with    *)
(* different members, whose values are spelled in any way JSON allows.     *)
(***************************************************************************)
EXTENDS TextSegments, FiniteSets

CONSTANTS Pieces,         \* what texts outside the harness are made of
          MaxPieces,      \* bound on their number in a text
          Letters,        \* what a text is made of that an OCR job generates
          MaxLetters,     \* bound on their number in a text
          Values,         \* the values of host documents
          MaxMembers,     \* bound on the members of a request
          Defaults,       \* default_target_language, from the model's parameters
          Asked,          \* values of maximum_output_bytes
          Smallest, Largest,  \* the least and the most that is planned
          Fallback,       \* what is planned for a number that is no uint32
          MaxUint32

Quote == "\""
Backslash == "\\"
Nul == "NUL"              \* \0
Wide == "W"               \* a character that takes two \u escapes
LanguageNames == {"source_language", "target_language"}
Names == LanguageNames \cup {"text", "note"}
Texts == Seq(Layout \cup Names \cup {Quote, Backslash, Nul, Wide, ":", "n"})

ASSUME TextAssumption   == /\ Pieces \subseteq Texts /\ MaxPieces \in Nat
                           /\ Letters \subseteq Texts /\ MaxLetters \in Nat
ASSUME ValueAssumption  == Values \subseteq Texts /\ Defaults \subseteq Texts
ASSUME MemberAssumption == MaxMembers \in Nat
ASSUME PlanAssumption   ==
  /\ Asked \subseteq Nat /\ MaxUint32 \in Nat
  /\ {Smallest, Largest, Fallback} \subseteq Nat /\ Smallest <= Largest

VARIABLES
  stage,      \* "direct", "ocr", "read", "compose", "submitted", "called", "asked",
              \* "refused", "failed"
  generated,  \* the text the OCR model generates, or a user types
  pieces,     \* of how many pieces
  planned,    \* what model_plan_outputs has told the host, 0 before
  buffer,     \* the document in the host's buffer, of `planned' bytes
  members,    \* what the host's request says, by name
  request,    \* the document of the request, without its last brace
  parameters, \* the document of the job's parameters, and what it says
  default,    \* default_target_language
  call,       \* what translate is called with
  segments    \* and what it cuts the text into

ocrVars == <<generated, pieces, planned, buffer>>
hostVars == <<members, request>>
callVars == <<call, segments>>
vars == <<stage, ocrVars, hostVars, parameters, default, callVars>>

Nothing == [n \in {} |-> <<>>]
NoCall  == [text |-> <<>>, languages |-> Nothing]

Init ==
  /\ \/ stage \in {"ocr", "compose"} /\ default \in Defaults
     \/ stage = "direct" /\ default = <<>>
  /\ generated = <<>> /\ pieces = 0 /\ planned = 0 /\ buffer = <<>>
  /\ members = Nothing /\ request = <<"{">>
  /\ parameters = [document |-> <<>>, says |-> Nothing]
  /\ call = NoCall /\ segments = <<>>

-----------------------------------------------------------------------------
(* Documents of the host.                                                  *)

\* The ways JSON allows to write a character.
Spellings(c) ==
  CASE c = Quote     -> {<<Backslash, Quote>>, <<Backslash, "u", "0022">>}
    [] c = Backslash -> {<<Backslash, Backslash>>}
    [] c = NL        -> {<<Backslash, "n">>, <<Backslash, "u", "000a">>}
    [] c = Nul       -> {<<Backslash, "u", "0000">>}
    [] c = Wide      -> {<<c>>, <<Backslash, "u", "d83d", Backslash, "u", "de00">>}
    [] OTHER         -> {<<c>>}

\* The ways to write a value: every one of the same character in the same way.
Written(value) ==
  {FlattenSeq([i \in DOMAIN value |-> how[value[i]]]) :
     how \in {h \in [ToSet(value) -> UNION {Spellings(c) : c \in ToSet(value)}] :
                \A c \in ToSet(value) : h[c] \in Spellings(c)}}

Quoted(s) == <<Quote>> \o s \o <<Quote>>

\* One more member, with or without blanks around its colon.
Member(name, spelled, gap) ==
  Quoted(<<name>>) \o gap \o <<":">> \o gap \o Quoted(spelled)

-----------------------------------------------------------------------------
(* Plausible bugs.                                                         *)

\* line ends are not escaped
EscapeQuotesOnly(c) == IF c \in {Quote, Backslash} THEN <<Backslash, c>> ELSE <<c>>
\* the request has the last word
ParametersFirst(l) == <<parameters.document, request>>

-----------------------------------------------------------------------------
(* json_string and parse_json_string_at.                                   *)

Meaning(e) == CASE e = Quote -> Quote [] e = Backslash -> Backslash
                [] e = "n" -> NL [] OTHER -> ""
CodeMeaning(h) == CASE h = "0000" -> Nul [] h = "000a" -> NL
                    [] h = "0022" -> Quote [] OTHER -> ""

Fails == [ok |-> FALSE, value |-> <<>>]
Then(c, r) == [r EXCEPT !.value = <<c>> \o @]

\* The string whose first character is at i.  A string that goes wrong keeps
\* what it had so far.
ParseFrom(d, i) ==
  LET At(k) == IF k <= Len(d) THEN d[k] ELSE ""
      from[k \in i..(Len(d) + 1)] ==
        CASE At(k) = Quote -> [ok |-> TRUE, value |-> <<>>]
          [] At(k) \in {"", NL, Nul} -> Fails
          [] At(k) = Backslash /\ Meaning(At(k + 1)) # "" ->
               Then(Meaning(At(k + 1)), from[k + 2])
          [] At(k) = Backslash /\ At(k + 1) = "u" /\ CodeMeaning(At(k + 2)) # "" ->
               Then(CodeMeaning(At(k + 2)), from[k + 3])
          [] /\ At(k) = Backslash /\ At(k + 1) = "u" /\ At(k + 2) = "d83d"
             /\ At(k + 3) = Backslash /\ At(k + 4) = "u" /\ At(k + 5) = "de00" ->
               Then(Wide, from[k + 6])
          [] OTHER -> IF At(k) = Backslash THEN Fails ELSE Then(At(k), from[k + 1])
  IN  from[i]

\* The first blank-free place from k on.
NoBlank(d, k) == Min({i \in k..Len(d) : d[i] \notin Blank} \cup {Len(d) + 1})

\* A name stands at k between its quotes - wherever that is.
Named(d, name, k) == d[k] = Quote /\ d[k + 1] = name /\ d[k + 2] = Quote

\* What a search for a member's value leaves in a string that was `old'.
JsonString(d, name, old) ==
  LET places == {k \in 1..(Len(d) - 2) : Named(d, name, k)}
      colon  == NoBlank(d, Min(places) + 3)
      start  == NoBlank(d, colon + 1)
  IN  IF \/ places = {} \/ colon > Len(d) \/ d[colon] # ":"
         \/ start > Len(d) \/ d[start] # Quote
      THEN [ok |-> FALSE, value |-> old]
      ELSE ParseFrom(d, start + 1)

-----------------------------------------------------------------------------
(* The OCR job.                                                            *)

\* The token loop appends the piece of each token.
Generate(p) ==
  /\ \/ stage = "direct" /\ p \in Pieces /\ pieces < MaxPieces
     \/ stage = "ocr" /\ planned # 0 /\ p \in Letters /\ pieces < MaxLetters
  /\ generated' = generated \o p /\ pieces' = pieces + 1
  /\ UNCHANGED <<stage, planned, buffer, hostVars, parameters, default, callVars>>

\* Without the harness: what OCR has read, or what is typed, is translated.
AskDirectly(text) ==
  /\ stage = "direct" /\ text # <<>>
  /\ stage' = "asked"
  /\ call' = [NoCall EXCEPT !.text = text]
  /\ segments' = Segments(text)
  /\ UNCHANGED <<ocrVars, hostVars, parameters, default>>

\* json_uint and the clamp of model_plan_outputs.
Plan(n) ==
  LET bytes == IF n > MaxUint32 THEN Fallback ELSE n
  IN  Max({Smallest, Min({bytes, Largest})})

PlanOutputs(n) ==
  /\ stage = "ocr" /\ planned = 0
  /\ planned' = Plan(n)
  /\ UNCHANGED <<stage, generated, pieces, buffer, hostVars, parameters, default, callVars>>

\* json_escape.
Escape(c) == CASE c \in {Quote, Backslash} -> <<Backslash, c>>
               [] c = NL -> <<Backslash, "n">>
               [] c = Nul -> <<Backslash, "u", "0000">>
               [] OTHER -> <<c>>

Document(text) ==
  <<"{">> \o Quoted(<<"text">>) \o <<":">>
  \o Quoted(FlattenSeq([i \in DOMAIN text |-> Escape(text[i])]))
  \o <<",">> \o Quoted(<<"sourceFrameId">>) \o <<":", "1", "}">>

\* The end of the text takes a byte as well.
FitsBuffer(document) == Len(document) + 1 <= planned

WriteJobOutput ==
  /\ stage = "ocr" /\ planned # 0
  /\ IF FitsBuffer(Document(OcrText(generated)))
     THEN buffer' = Document(OcrText(generated)) /\ stage' = "read"
     ELSE stage' = "failed" /\ UNCHANGED buffer
  /\ UNCHANGED <<generated, pieces, planned, hostVars, parameters, default, callVars>>

-----------------------------------------------------------------------------
(* The translation job.                                                    *)

\* The host writes a request of its own ...
Compose(name, value) ==
  /\ stage = "compose"
  /\ name \notin DOMAIN members /\ Cardinality(DOMAIN members) < MaxMembers
  /\ members' = [n \in DOMAIN members \cup {name} |->
                   IF n = name THEN value ELSE members[n]]
  /\ \E spelled \in Written(value), gap \in {<<>>, <<Space>>} :
       request' = request \o (IF members = Nothing THEN <<>> ELSE <<",">>)
                  \o Member(name, spelled, gap)
  /\ UNCHANGED <<stage, ocrVars, parameters, default, callVars>>

Submit(document) ==
  /\ request' = document
  /\ \/ parameters' = [document |-> <<>>, says |-> Nothing]
     \/ \E l \in LanguageNames, value \in Values : \E spelled \in Written(value) :
          parameters' = [document |-> <<"{">> \o Member(l, spelled, <<>>) \o <<"}">>,
                         says |-> [n \in {l} |-> value]]
  /\ stage' = "submitted"
  /\ UNCHANGED <<ocrVars, default, callVars>>

SubmitRequest == /\ stage = "compose"
                 /\ Submit(Append(request, "}"))
                 /\ UNCHANGED members

\* ... or hands on what an OCR job has written.  The code reads byte_size bytes;
\* the host gives the size of the document, so nothing stands behind it.
SubmitBuffer == /\ stage = "read"
                /\ Submit(buffer)
                /\ members' = [n \in {"text"} |-> OcrText(generated)]

\* c_str(): a text ends at its first NUL.
UpToNul(t) == SubSeq(t, 1, Min({i \in DOMAIN t : t[i] = Nul} \cup {Len(t) + 1}) - 1)

\* Where a language is looked for: what is found later takes the place of what
\* was found before.
Documents(l) == <<request, parameters.document>>

Default(l) == IF l = "target_language" THEN default ELSE <<"a">>   \* "Auto"

Language(l) ==
  FoldLeft(LAMBDA old, d : JsonString(d, l, old).value, Default(l), Documents(l))

\* run, up to the call of translate, which refuses an empty text itself.
Run ==
  /\ stage = "submitted"
  /\ LET text == JsonString(request, "text", <<>>)
     IN  IF ~text.ok \/ UpToNul(text.value) = <<>>
            \/ UpToNul(Language("target_language")) = <<>>
         THEN stage' = "refused" /\ UNCHANGED callVars
         ELSE /\ stage' = "called"
              /\ call' = [text |-> UpToNul(text.value),
                          languages |-> [l \in LanguageNames |-> UpToNul(Language(l))]]
              /\ segments' = Segments(UpToNul(text.value))
  /\ UNCHANGED <<ocrVars, hostVars, parameters, default>>

Ocr == \/ \E p \in Pieces \cup Letters : Generate(p)
       \/ \E text \in {generated, OcrText(generated)} : AskDirectly(text)
       \/ \E n \in Asked : PlanOutputs(n)
       \/ WriteJobOutput
Translation == \/ \E name \in Names, value \in Values : Compose(name, value)
               \/ SubmitRequest \/ SubmitBuffer \/ Run

Next == Ocr \/ Translation

Spec == Init /\ [][Next]_vars

-----------------------------------------------------------------------------
(* Properties.                                                             *)

\* Nothing visible is lost, doubled or moved between a text and the segments
\* its translation consists of, whatever lines, blanks, markers and tables it
\* has, however long its paragraphs are and whatever way it comes.
NothingLost ==
  stage \in {"asked", "called"} => Ink(FlattenSeq(segments)) = Ink(call.text)

\* README.md: "translation sends each recovered block separately": what stands
\* before a marker line and what stands after it are in different segments,
\* even where other boundaries in the text are wider or narrower.
BlocksSeparate ==
  LET t == WithoutTags(generated)
  IN  segments # <<>> /\ call.text = OcrText(generated) =>
        \A i \in Places(t, TagMarker, 1) :
          \E k \in 0..Len(segments) :
            Ink(FlattenSeq(SubSeq(segments, 1, k))) = Ink(SubSeq(t, 1, i))

\* The harness reads what it wrote: a translation that is given an OCR job's
\* output translates the text OCR read, with its quotes, backslashes and line
\* ends, and whatever it looks like - a member, say - and the document never
\* overruns the buffer that was planned.
OutputReadsBack ==
  buffer # <<>> =>
    /\ Len(buffer) < planned
    /\ stage = "called" => call.text = UpToNul(OcrText(generated))
    /\ stage = "refused" =>
         \/ UpToNul(OcrText(generated)) = <<>>
         \/ UpToNul(Language("target_language")) = <<>>

\* A value of the request that its document may end with a quoted name.
Mistakable(value) ==
  \E name \in Names :
    \/ value = <<name>>
    \/ Len(value) >= 2 /\ SubSeq(value, Len(value) - 1, Len(value)) = <<Quote, name>>

Says(l) == IF l \in DOMAIN parameters.says THEN parameters.says[l]
           ELSE IF l \in DOMAIN members THEN members[l] ELSE Default(l)

\* In whatever order and spelling the host writes its members, and whatever
\* quotes, colons and names its values contain, translate gets the text of the
\* request and the languages of the parameters, the request or the model, in
\* this order, and the job is refused only for an empty text or target - as
\* long as no value of the request ends in a quoted name.
MembersArrive ==
  (\A n \in DOMAIN members : ~Mistakable(members[n])) =>
    /\ stage = "called" =>
         /\ call.text = UpToNul(members["text"])
         /\ \A l \in LanguageNames : call.languages[l] = UpToNul(Says(l))
    /\ stage = "refused" =>
         \/ "text" \notin DOMAIN members \/ UpToNul(members["text"]) = <<>>
         \/ UpToNul(Says("target_language")) = <<>>

=============================================================================
