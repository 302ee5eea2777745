------------------------------- MODULE Engine -------------------------------
(***************************************************************************)
(* localai::Engine: the object behind the C ABI that owns the two language *)
(* models and the furigana backend                                         *)
(* (src/src/engine/local_ai_engine.cpp).                                   *)
(*                                                                         *)
(* Several threads may call it.  A call takes operation_mutex_ with        *)
(* try_lock, so at most one thread is inside and everybody else is told    *)
(* BUSY; cancel and trim_memory may come from any thread at any time.      *)
(* Everything the thread inside does between two points at which another   *)
(* thread can interfere - the flag cancel_requested_, the last error, the  *)
(* mutex - is one step.  Native resources are modelled one by one: each    *)
(* model needs its weights, a context and, for OCR, a projector, and any   *)
(* of these may fail to come into being.                                   *)
(***************************************************************************)
EXTENDS Naturals, FiniteSets

CONSTANTS Clients,     \* the threads that make OCR, translation and load calls
          NoClient,    \* nobody
          Trimmer,     \* the thread inside trim_memory
          Flags,       \* the configurations an engine may be created with
          MaxTokens,   \* bound of the token loop of one generation
          MaxSegments  \* bound on the segments of one translation

ASSUME ClientsAssumption == /\ Clients # {} /\ NoClient \notin Clients
                            /\ Trimmer \notin Clients \cup {NoClient}
ASSUME FlagsAssumption   == Flags \subseteq
                              [{"sequential", "keep", "furigana"} -> BOOLEAN]
ASSUME BoundsAssumption  == /\ MaxTokens \in Nat
                            /\ MaxSegments \in Nat \ {0}

VARIABLES
  flags,           \* LocalAIConfig::flags, fixed when the engine is created
  alive,           \* the engine exists
  holder,          \* who holds operation_mutex_
  pc,              \* where the holder is
  result,          \* each client: the status of its latest call, "running"
                   \* while it is inside, "threw" while an exception is on its
                   \* way out, "none" before the first
  op,              \* which call the holder is making
  outcome,         \* the status it is about to return
  told,            \* how often it has run the text callback
  pass,            \* OCR: 1, then 2 for layout recovery; translate: the segment
  passes,          \* translate: how many segments there are
  tokens,          \* passes of the token loop in this generation
  cancelRequested, \* cancel_requested_
  error,           \* last_error_: the client it is about, NoClient if empty
  resident,        \* which of ocr_ and translation_ are set
  building,        \* what the Runtime being loaded has got so far
  live,            \* the native objects that exist
  furigana,        \* furigana_ is set
  asked,           \* history: a cancel came while the present call was inside
  unrecorded       \* history: since a call last began, an exception was
                   \* caught but could not be recorded

engineVars == <<flags, alive, unrecorded>>
callVars   == <<op, told>>
genVars    == <<pass, passes, tokens>>
modelVars  == <<resident, building, live>>
vars == <<engineVars, holder, pc, callVars, result, outcome, genVars,
          cancelRequested, error, modelVars, furigana, asked>>

-----------------------------------------------------------------------------

Models    == {"ocr", "translation"}
Inference == {"ocr", "translate", "furigana"}
Calls     == Inference \cup {"load_ocr", "load_translation"}
Statuses  == {"OK", "CANCELLED", "BUSY", "INVALID", "NOT_FOUND",
              "LOAD_FAILED", "OUT_OF_MEMORY", "UNSUPPORTED", "FAILED"}

Target == IF op \in {"ocr", "load_ocr"} THEN "ocr" ELSE "translation"

\* The native parts of a model, in the order they are created.
Parts(m)   == IF m = "ocr" THEN <<"weights", "context", "projector">>
                           ELSE <<"weights", "context">>
PartSet(m) == {Parts(m)[i] : i \in DOMAIN Parts(m)}
Whole(m)   == {m} \X PartSet(m)

\* The points of a call before the first look at the cancel flag that decides
\* whether anything is generated ...
BeforeCheck == {"load", "alloc", "budget", "prepare", "segment", "check",
                "furigana", "detect"}
\* ... and all points at which a call is inside.
Points == BeforeCheck \cup
          {"reset", "prompt", "decode", "recognize", "deliver", "told",
           "leave"}

Init ==
  /\ flags \in Flags
  /\ alive = TRUE
  /\ holder = NoClient /\ pc = "free"
  /\ result = [c \in Clients |-> "none"]
  /\ op = "none" /\ outcome = "OK" /\ told = 0
  /\ pass = 1 /\ passes = 1 /\ tokens = 0
  /\ cancelRequested = FALSE
  /\ error = NoClient
  /\ resident = {} /\ building = {} /\ live = {}
  /\ furigana = FALSE
  /\ asked = "no" /\ unrecorded = FALSE

Goto(p) == pc' = p

Calling(c) == result[c] \in {"running", "threw"}

\* The ways a call ends: with an error it has recorded, or with a status only.
Fail(st) == /\ error' = holder /\ outcome' = st /\ Goto("leave")
Stop(st) == /\ outcome' = st /\ Goto("leave") /\ UNCHANGED error

-----------------------------------------------------------------------------
(* Plausible bugs: altered forms of the operators they are named after.    *)

\* the other model is never unloaded
EvictedNone == {}
\* a failing projector leaves the context behind
FreedOnFailureWeightsOnly == {Target} \X (building \cap {"weights"})
\* every failing backend call in the token loop counts as a cancellation
FailureUnasked(st) ==
  \/ /\ pc = "prompt"
     /\ st = "CANCELLED" => cancelRequested
     /\ st = "FAILED" /\ op = "ocr" => ~cancelRequested
  \/ pc = "decode" /\ tokens < MaxTokens /\ st = "CANCELLED"
\* the pass for layout recovery does not count, so the next may recover again
GenerationDoneSamePass ==
  /\ pc = "decode" /\ (tokens = MaxTokens \/ ~cancelRequested)
  /\ \E p \in IF op = "translate" /\ pass < passes THEN {"segment"}
               ELSE IF op = "ocr" /\ pass = 1 THEN {"check", "deliver"}
               ELSE {"deliver"} :
       /\ Goto(p)
       /\ pass' = IF p = "segment" THEN pass + 1 ELSE pass
  /\ UNCHANGED <<engineVars, holder, callVars, result, outcome, passes, tokens,
                 cancelRequested, error, modelVars, furigana, asked>>
\* layout recovery is repeated as long as the result seems concatenated
RecoverAgain == op = "ocr"
\* the first result is called back before layout recovery
GenerationDoneEarlyCallback ==
  /\ pc = "decode" /\ (tokens = MaxTokens \/ ~cancelRequested)
  /\ told' = told + 1
  /\ \E p \in {"check", "deliver"} :
       /\ Goto(p)
       /\ pass' = IF p = "deliver" THEN pass ELSE pass + 1
  /\ UNCHANGED <<engineVars, holder, op, result, outcome, passes, tokens,
                 cancelRequested, error, modelVars, furigana, asked>>
\* the backend does not look at the flag between detector and lines
FuriganaStepUnchecked ==
  /\ pc \in {"detect", "recognize"}
  /\ Goto(IF pc = "detect" THEN "recognize" ELSE "deliver")
  /\ UNCHANGED <<engineVars, holder, callVars, result, outcome, genVars,
                 cancelRequested, error, modelVars, furigana, asked>>
\* a failing furigana run without a message
FuriganaFailsSilently(st) ==
  /\ pc \in {"detect", "recognize"}
  /\ st # "CANCELLED"
  /\ Stop(st)
  /\ UNCHANGED <<engineVars, holder, callVars, result, genVars, cancelRequested,
                 modelVars, furigana, asked>>

-----------------------------------------------------------------------------
(* Entering and leaving.                                                   *)

Enter(c, o) ==
  /\ alive /\ ~Calling(c)
  /\ holder = NoClient
  /\ holder' = c /\ Goto("reset")
  /\ op' = o
  /\ result' = [result EXCEPT ![c] = "running"]
  /\ unrecorded' = FALSE
  /\ UNCHANGED <<flags, alive, told, outcome, genVars, cancelRequested, error,
                 modelVars, furigana, asked>>

\* A call that never gets inside: bad arguments are seen before the mutex, and
\* try_lock fails while anybody is inside.
Refused(c, st) ==
  /\ alive /\ ~Calling(c)
  /\ st = "BUSY" => holder # NoClient
  /\ result' = [result EXCEPT ![c] = st]
  /\ error' = c
  /\ unrecorded' = FALSE
  /\ UNCHANGED <<flags, alive, holder, pc, callVars, outcome, genVars,
                 cancelRequested, modelVars, furigana, asked>>

\* Making the message of a refusal may itself throw.
RefusedThrows(c) ==
  /\ alive /\ ~Calling(c)
  /\ result' = [result EXCEPT ![c] = "threw"]
  /\ unrecorded' = FALSE
  /\ UNCHANGED <<flags, alive, holder, pc, callVars, outcome, genVars,
                 cancelRequested, error, modelVars, furigana, asked>>

\* cancel_requested_.store(false), after the mutex is taken.
Reset ==
  /\ pc = "reset"
  /\ cancelRequested' = FALSE
  /\ Goto(IF op = "furigana" THEN "furigana" ELSE "load")
  /\ UNCHANGED <<engineVars, holder, callVars, result, outcome, genVars, error,
                 modelVars, furigana, asked>>

\* The mutex is released and the call's locals are gone.
Release ==
  /\ holder' = NoClient /\ Goto("free")
  /\ op' = "none" /\ outcome' = "OK" /\ told' = 0
  /\ pass' = 1 /\ passes' = 1 /\ tokens' = 0
  /\ asked' = "no"

Leave ==
  /\ pc = "leave"
  /\ result' = [result EXCEPT ![holder] = outcome]
  /\ Release
  /\ UNCHANGED <<engineVars, cancelRequested, error, modelVars, furigana>>

-----------------------------------------------------------------------------
(* load_ocr_locked, load_translation_locked.                               *)

\* Where a call goes once its model is there.
Loaded == IF op \in Inference
          THEN /\ Goto("prepare") /\ UNCHANGED outcome
          ELSE /\ Goto("leave") /\ outcome' = "OK"

LoadAlready ==
  /\ pc = "load" /\ Target \in resident
  /\ Loaded
  /\ UNCHANGED <<engineVars, holder, callVars, result, genVars, cancelRequested, error,
                 modelVars, furigana, asked>>

\* The paths are not configured or the files are not there.
LoadMissing ==
  /\ pc = "load" /\ Target \notin resident
  /\ Fail("NOT_FOUND")
  /\ UNCHANGED <<engineVars, holder, callVars, result, genVars, cancelRequested,
                 modelVars, furigana, asked>>

\* In sequential mode the other model goes first, unless it is to be kept.
Evicted == IF flags["sequential"] /\ ~flags["keep"]
           THEN resident \ {Target} ELSE {}

LoadEvict ==
  /\ pc = "load" /\ Target \notin resident
  /\ resident' = resident \ Evicted
  /\ live' = live \ UNION {Whole(m) : m \in Evicted}
  /\ building' = {}
  /\ Goto("alloc")
  /\ UNCHANGED <<engineVars, holder, callVars, result, outcome, genVars,
                 cancelRequested, error, furigana, asked>>

\* The part of the model that is created next.
NextPart == Parts(Target)[Cardinality(building) + 1]

LoadPart ==
  /\ pc = "alloc" /\ building # PartSet(Target)
  /\ building' = building \cup {NextPart}
  /\ live' = live \cup {<<Target, NextPart>>}
  /\ UNCHANGED <<engineVars, holder, pc, callVars, result, outcome, genVars,
                 cancelRequested, error, resident, furigana, asked>>

\* A part does not come into being; the ones before it are freed.  Only the
\* weights' failure is told apart from a cancellation, and only before the
\* weights may a path turn out not to be valid UTF-16.
FreedOnFailure == {Target} \X building

LoadPartFails(st) ==
  /\ pc = "alloc" /\ building # PartSet(Target)
  /\ \/ st = "CANCELLED" /\ building = {} /\ cancelRequested
     \/ st = "LOAD_FAILED" /\ ~(building = {} /\ cancelRequested)
     \/ st = "INVALID" /\ building = {}
  /\ live' = live \ FreedOnFailure
  /\ building' = {}
  /\ Fail(st)
  /\ UNCHANGED <<engineVars, holder, callVars, result, genVars, cancelRequested,
                 resident, furigana, asked>>

LoadInstall ==
  /\ pc = "alloc" /\ building = PartSet(Target)
  /\ resident' = resident \cup {Target}
  /\ building' = {}
  /\ Goto("budget")
  /\ UNCHANGED <<engineVars, holder, callVars, result, outcome, genVars,
                 cancelRequested, error, live, furigana, asked>>

LoadOverBudget ==
  /\ pc = "budget"
  /\ resident' = resident \ {Target}
  /\ live' = live \ Whole(Target)
  /\ Fail("OUT_OF_MEMORY")
  /\ UNCHANGED <<engineVars, holder, callVars, result, genVars, cancelRequested,
                 building, furigana, asked>>

LoadDone ==
  /\ pc = "budget"
  /\ error' = NoClient
  /\ Loaded
  /\ UNCHANGED <<engineVars, holder, callVars, result, genVars, cancelRequested,
                 modelVars, furigana, asked>>

\* Paths, the Runtime and messages may throw, always after the parts there are
\* have been freed; the message of a load over budget after its model has gone.
LoadThrows ==
  /\ \/ /\ pc = "alloc" /\ building # PartSet(Target)
        /\ live' = live \ FreedOnFailure /\ UNCHANGED resident
     \/ /\ pc = "budget"
        /\ resident' = resident \ {Target} /\ live' = live \ Whole(Target)
  /\ building' = {}
  /\ result' = [result EXCEPT ![holder] = "threw"]
  /\ Release
  /\ UNCHANGED <<engineVars, cancelRequested, error, furigana>>

-----------------------------------------------------------------------------
(* ocr_file, ocr_pixels, translate, run_generation_locked.                 *)

\* The image cannot be found, decoded or held; the model's chat template, which
\* each segment of a translation needs, is not supported.
PrepareFails(st) ==
  /\ \/ /\ pc = "prepare" /\ op = "ocr"
        /\ st \in {"NOT_FOUND", "INVALID", "FAILED"}
     \/ pc = "check" /\ op = "translate" /\ st = "UNSUPPORTED"
  /\ Fail(st)
  /\ UNCHANGED <<engineVars, holder, callVars, result, genVars, cancelRequested,
                 modelVars, furigana, asked>>

\* A translation has at least one segment: a text without paragraphs is one.
Prepare(n) ==
  /\ pc = "prepare"
  /\ op = "ocr" => n = 1
  /\ pass' = 1 /\ passes' = n
  /\ Goto(IF op = "ocr" THEN "check" ELSE "segment")
  /\ UNCHANGED <<engineVars, holder, callVars, result, outcome, tokens,
                 cancelRequested, error, modelVars, furigana, asked>>

\* The check before each segment, which leaves a message.
Segment ==
  /\ pc = "segment"
  /\ IF cancelRequested THEN Fail("CANCELLED")
     ELSE /\ Goto("check") /\ UNCHANGED <<outcome, error>>
  /\ UNCHANGED <<engineVars, holder, callVars, result, genVars, cancelRequested,
                 modelVars, furigana, asked>>

\* The check at the top of run_generation_locked, which leaves none.
Check ==
  /\ pc = "check"
  /\ IF cancelRequested THEN Stop("CANCELLED")
     ELSE /\ Goto("prompt") /\ UNCHANGED <<outcome, error>>
  /\ UNCHANGED <<engineVars, holder, callVars, result, genVars, cancelRequested,
                 modelVars, furigana, asked>>

Prompt ==
  /\ pc = "prompt"
  /\ tokens' = 0
  /\ Goto("decode")
  /\ UNCHANGED <<engineVars, holder, callVars, result, outcome, pass, passes,
                 cancelRequested, error, modelVars, furigana, asked>>

\* A generation that failed: the second OCR pass is optional, and its failure
\* keeps the first result; a cancellation always ends the call.
Optional(st) == op = "ocr" /\ pass = 2 /\ st # "CANCELLED"

\* How the prompt or the token loop may fail: a failing backend call while the
\* flag is set counts as a cancellation; running out of memory and a text that
\* cannot be tokenized do not look at the flag.
Failure(st) ==
  \/ /\ pc = "prompt"
     /\ st = "CANCELLED" => cancelRequested
     /\ st = "FAILED" /\ op = "ocr" => ~cancelRequested
  \/ /\ pc = "decode" /\ tokens < MaxTokens
     /\ IF cancelRequested THEN st = "CANCELLED" ELSE st = "FAILED"

GenerationFails(st) ==
  /\ Failure(st)
  /\ IF Optional(st)
     THEN /\ Goto("deliver") /\ error' = NoClient /\ UNCHANGED outcome
     ELSE Fail(st)
  /\ UNCHANGED <<engineVars, holder, callVars, result, genVars, cancelRequested,
                 modelVars, furigana, asked>>

\* One pass of the token loop: the check, a sample, a decode.
Token ==
  /\ pc = "decode"
  /\ tokens < MaxTokens /\ ~cancelRequested
  /\ tokens' = tokens + 1
  /\ UNCHANGED <<engineVars, holder, pc, callVars, result, outcome, pass, passes,
                 cancelRequested, error, modelVars, furigana, asked>>

\* The end of a generation: an end-of-generation token, seen after a check, or
\* the bound, after which nothing is checked.
Ended == tokens = MaxTokens \/ ~cancelRequested

\* What may follow: OCR looks once more at a result that seems concatenated,
\* translate goes to the next segment, and otherwise the text is delivered.
Recover == op = "ocr" /\ pass = 1
After   == IF op = "translate" /\ pass < passes THEN {"segment"}
           ELSE IF Recover THEN {"check", "deliver"} ELSE {"deliver"}

GenerationDone ==
  /\ pc = "decode" /\ Ended
  /\ \E p \in After :
       /\ Goto(p)
       /\ pass' = IF p = "deliver" THEN pass ELSE pass + 1
  /\ UNCHANGED <<engineVars, holder, callVars, result, outcome, passes, tokens,
                 cancelRequested, error, modelVars, furigana, asked>>

\* The text callback, then the furigana callbacks.
Deliver ==
  /\ pc = "deliver"
  /\ told' = told + 1
  /\ Goto("told")
  /\ UNCHANGED <<engineVars, holder, op, result, outcome, genVars,
                 cancelRequested, error, modelVars, furigana, asked>>

Succeed ==
  /\ pc = "told"
  /\ error' = NoClient
  /\ outcome' = "OK" /\ Goto("leave")
  /\ UNCHANGED <<engineVars, holder, callVars, result, genVars,
                 cancelRequested, modelVars, furigana, asked>>

\* Outside a load, an exception unwinds the call and releases the mutex; only
\* then does the C ABI ...  (A callback may throw, and furigana also allocates
\* between its callbacks.)
Throws ==
  /\ \/ pc \in {"load", "prepare", "segment", "check", "prompt", "decode",
                "furigana", "detect", "recognize", "deliver"}
     \/ pc = "told" /\ op = "furigana"
  /\ result' = [result EXCEPT ![holder] = "threw"]
  /\ Release
  /\ UNCHANGED <<engineVars, cancelRequested, error, modelVars, furigana>>

\* ... record its message, which may throw as well (then last_error_ stays what
\* it was), ...
SetUnexpectedError(c) ==
  \/ error' = c /\ UNCHANGED unrecorded
  \/ unrecorded' = TRUE /\ UNCHANGED error

\* ... and make a status of it.
Caught(c) ==
  /\ result[c] = "threw"
  /\ SetUnexpectedError(c)
  /\ \E st \in {"OUT_OF_MEMORY", "FAILED"} :
       result' = [result EXCEPT ![c] = st]
  /\ UNCHANGED <<flags, alive, holder, pc, callVars, outcome, genVars,
                 cancelRequested, modelVars, furigana, asked>>

-----------------------------------------------------------------------------
(* ocr_furigana_file.                                                      *)

\* Paths, image and COM; flags["furigana"] is not looked at.
FuriganaRefused(st) ==
  /\ pc = "furigana"
  /\ st \in {"NOT_FOUND", "FAILED"}
  /\ Fail(st)
  /\ UNCHANGED <<engineVars, holder, callVars, result, genVars, cancelRequested,
                 modelVars, furigana, asked>>

FuriganaCreate ==
  /\ pc = "furigana"
  /\ furigana' = TRUE
  /\ Goto("detect")
  /\ UNCHANGED <<engineVars, holder, callVars, result, outcome, genVars,
                 cancelRequested, error, modelVars, asked>>

\* The backend: its own load, the detector, then a check; then the lines, with
\* a check for each box and each timestep.
FuriganaFails(st) ==
  /\ pc \in {"detect", "recognize"}
  /\ \/ st = "CANCELLED" /\ cancelRequested
     \/ st = "LOAD_FAILED" /\ pc = "detect"
     \/ st \in {"INVALID", "UNSUPPORTED", "FAILED"}
  /\ Fail(st)
  /\ UNCHANGED <<engineVars, holder, callVars, result, genVars, cancelRequested,
                 modelVars, furigana, asked>>

FuriganaStep ==
  /\ pc \in {"detect", "recognize"} /\ ~cancelRequested
  /\ Goto(IF pc = "detect" THEN "recognize" ELSE "deliver")
  /\ UNCHANGED <<engineVars, holder, callVars, result, outcome, genVars,
                 cancelRequested, error, modelVars, furigana, asked>>

-----------------------------------------------------------------------------
(* cancel and trim_memory, from any thread; destroy.                       *)

\* What a cancel finds: no call inside, one that has yet to clear the flag, or
\* one that has yet to look at it.
Found == IF holder \notin Clients THEN asked
         ELSE IF pc = "reset" THEN "beforeReset"
         ELSE IF pc \in BeforeCheck THEN "beforeCheck" ELSE asked

Cancel ==
  /\ alive
  /\ cancelRequested' = TRUE
  /\ asked' = Found
  /\ UNCHANGED <<engineVars, holder, pc, callVars, result, outcome, genVars, error,
                 modelVars, furigana>>

\* trim_memory while somebody is inside is a cancel.
TrimBusy == holder # NoClient /\ Cancel

TrimBegin ==
  /\ alive /\ holder = NoClient
  /\ holder' = Trimmer /\ Goto("trim")
  /\ UNCHANGED <<engineVars, callVars, result, outcome, genVars, cancelRequested,
                 error, modelVars, furigana, asked>>

TrimEnd ==
  /\ pc = "trim"
  /\ resident' = {} /\ live' = live \ UNION {Whole(m) : m \in resident}
  /\ furigana' = FALSE
  /\ holder' = NoClient /\ Goto("free")
  /\ UNCHANGED <<engineVars, callVars, result, outcome, genVars, cancelRequested,
                 error, building, asked>>

\* The caller keeps the engine alive until its calls have returned.
Destroy ==
  /\ alive /\ holder = NoClient /\ \A c \in Clients : ~Calling(c)
  /\ alive' = FALSE
  /\ resident' = {} /\ live' = live \ UNION {Whole(m) : m \in resident}
  /\ furigana' = FALSE
  /\ UNCHANGED <<flags, unrecorded, holder, pc, callVars, result, outcome, genVars,
                 cancelRequested, error, building, asked>>

-----------------------------------------------------------------------------

Load == \/ LoadAlready \/ LoadMissing \/ LoadEvict \/ LoadPart
        \/ \E st \in {"CANCELLED", "LOAD_FAILED", "INVALID"} : LoadPartFails(st)
        \/ LoadInstall \/ LoadOverBudget \/ LoadDone

Generate == \/ \E st \in {"NOT_FOUND", "INVALID", "UNSUPPORTED", "FAILED"} :
                 PrepareFails(st)
            \/ \E n \in 1..MaxSegments : Prepare(n)
            \/ Segment \/ Check \/ Prompt \/ Token
            \/ \E st \in {"CANCELLED", "FAILED", "OUT_OF_MEMORY"} :
                 GenerationFails(st)
            \/ GenerationDone \/ Deliver \/ Succeed

Furigana == \/ \E st \in {"NOT_FOUND", "FAILED"} : FuriganaRefused(st)
            \/ FuriganaCreate
            \/ \E st \in {"CANCELLED", "LOAD_FAILED", "INVALID", "UNSUPPORTED",
                         "FAILED"} : FuriganaFails(st)
            \/ FuriganaStep

Inside == Reset \/ Load \/ Generate \/ Furigana \/ TrimEnd \/ Leave

Next == \/ \E c \in Clients :
             \/ \E o \in Calls : Enter(c, o)
             \/ \E st \in {"INVALID", "BUSY"} : Refused(c, st)
             \/ RefusedThrows(c) \/ Caught(c)
        \/ Inside \/ LoadThrows \/ Throws
        \/ Cancel \/ TrimBusy \/ TrimBegin \/ Destroy

Spec == Init /\ [][Next]_vars

(* The thread inside keeps running, and so does one on its way out.  No    *)
(* progress is owed to an exception.                                       *)
FairSpec == Spec /\ WF_vars(Inside) /\ \A c \in Clients : WF_vars(Caught(c))

-----------------------------------------------------------------------------
(* Safety.                                                                 *)

\* Every variable has its type; the generation counters respect their bounds.
TypeOK ==
  /\ flags \in Flags
  /\ alive \in BOOLEAN
  /\ holder \in Clients \cup {NoClient, Trimmer}
  /\ pc \in Points \cup {"free", "trim"}
  /\ op \in Calls \cup {"none"}
  /\ result \in [Clients -> Statuses \cup {"none", "running", "threw"}]
  /\ outcome \in Statuses
  /\ told \in 0..1
  /\ pass \in 1..2 \cup 1..MaxSegments /\ passes \in 1..MaxSegments
  /\ tokens \in 0..MaxTokens
  /\ cancelRequested \in BOOLEAN
  /\ error \in Clients \cup {NoClient}
  /\ resident \subseteq Models
  /\ building \subseteq PartSet("ocr")
  /\ live \subseteq Whole("ocr") \cup Whole("translation")
  /\ furigana \in BOOLEAN
  /\ asked \in {"no", "beforeReset", "beforeCheck"}
  /\ unrecorded \in BOOLEAN

\* In sequential mode without keep-inactive no part of one model is ever in
\* memory together with a part of the other, not even while one replaces the
\* other, whatever fails on the way: that is what a 6 GiB budget relies on.
OneModelAtATime ==
  flags["sequential"] /\ ~flags["keep"] =>
    live \cap Whole("ocr") = {} \/ live \cap Whole("translation") = {}

\* Every native object is owned, by a resident model or by the one being
\* loaded, and a resident model is whole: no failing or throwing step of
\* a load, budget check, eviction or trim leaks a part or leaves a dangling one.
NativeObjectsOwned ==
  /\ live = (UNION {Whole(m) : m \in resident})
            \cup (IF pc = "alloc" THEN {Target} \X building ELSE {})
  /\ pc # "alloc" => building = {}

\* The text callback has run exactly once when an inference call returns OK,
\* and never when it returns any other status or is a load: nobody sees partial
\* results.  (An exception between the furigana callbacks does not return, and
\* comes after the text: ImplementsService says that this is the only way for a
\* call to have told its text and fail.)
CallbackExactlyWhenOk ==
  pc = "leave" =>
    told = IF outcome = "OK" /\ op \in Inference THEN 1 ELSE 0

\* A cancel that comes after the call has cleared the flag, and before a check
\* that is still ahead, is honoured: the text is not delivered, even if the
\* model load does not notice, a segment ends first or the second OCR pass
\* is optional.
CancelBeforeCheckHonoured ==
  holder \in Clients /\ op \in Inference =>
    (asked = "beforeCheck" => pc \notin {"deliver", "told"})

\* Whenever the latest call of every thread has failed, last_error has a message,
\* whatever ran, failed or was refused in between, and whoever cleared the message
\* of another.  For a host that serialises its calls, as README.md asks, this is:
\* a failed call leaves its message.  (A cancelled one need not, and an exception
\* that could not be recorded leaves none until the next call.)
FailureLeavesMessage ==
  /\ \A c \in Clients : result[c] \in Statuses \ {"OK", "CANCELLED"}
  /\ ~unrecorded
  => error \in Clients

\* README.md: local_ai_cancel "requests cancellation at backend/decode
\* boundaries" and is safe to call from another thread: a call that is inside
\* and is asked to cancel does not deliver.
CancelInsideHonoured ==
  holder \in Clients /\ op \in Inference /\ asked # "no" => pc # "deliver"

=============================================================================
