# OCRTranslationStack: verification project

TLA+ models of OCRTranslationStack, the TLC runs that check them on small
instances, and proofs that TLAPS checks for every instance. Paths are relative
to the repository (`src/inferbridge/...` is the repository's own `src`
directory); E, H, F and A stand for `src/engine/local_ai_engine.cpp`,
`src/inferbridge/inferbridge_harness.cpp`, `src/engine/furigana_ocr.cpp` and
`src/app/main.cpp`.

## 1. The system

| part | source | state | operations |
|---|---|---|---|
| InferBridge harness | H | `ibrh_model` (queue, `stopping`, worker thread, mutex and condition variable), `JobState` per job (atomic state and cancel flag), job handles, the process-wide `g_last_error` | `model_load`, `submit`, `job_poll`, `job_cancel`, `job_release`, `model_unload`, `get_last_error`; the worker's loop and `run` |
| its payloads | H 100-310 | none | `json_string`, `json_uint`, `json_escape`, `write_job_output`, `model_plan_outputs` |
| engine | E | `operation_mutex_`, `cancel_requested_`, `last_error_`, the two resident `Runtime`s, the furigana backend | `ocr_file`, `ocr_pixels`, `ocr_furigana_file`, `translate`, `load_ocr`, `load_translation`, `cancel`, `trim_memory` |
| its memory accounting | E 1370-1417 | baseline, free, current and peak bytes, whether they are reliable | `refresh_memory`, `over_vram_budget`, `memory_info` |
| its text algorithms | E 192-446 | none | tag removal, block normalisation, segment splitting |
| furigana backend | F | two ONNX sessions, dictionary, output names, `loaded` | `load`, `run` (detector, boxes, CTC decoding, token alignment) |
| C ABI | `src/dll/local_ai_dll.cpp` | none | one function per engine call; exceptions become statuses |
| desktop application | A | `AppState`, the posted `kDoneMessage`s, one worker thread | open, drop, run, cancel, show a result, close |

How they interact: a host calls the harness, whose worker calls an `Engine` it
owns; the application calls an `Engine` through the C ABI from a worker thread
and gets the result back as a window message. In both, another thread may call
`Engine::cancel` at any moment. The engine calls llama.cpp, libmtmd and the
furigana backend, each of which polls `cancel_requested_`. A host may hand the
buffer an OCR job has written to a translation job as its request.

What is hard: notifications sent after the unlock; a popped job that is in no
queue; cancels that are three unsynchronised steps and meet an engine flag that
every call first clears; handles that outlive the model; buffers written without
a lock before an atomic store; one error string for all models, read in two
calls; loads that fail half-way; a device other programs use as well; a parser
that looks for names anywhere in a document; a flood fill on a linear array; a
window that joins a thread which reports to that window. `PROJECT.json` lists
these as hazards, each at its line, with the properties that cover it or the
reason none does.

## 2. The modules

| module | what it is |
|---|---|
| `Harness`, `MCHarness` | one loaded model, its queue, worker and the host's calls |
| `JobService`, `HarnessRefinement` | abstract specification (one active and one waiting job, in order, one final state each) and the mapping to it |
| `HarnessErrors`, `MCHarnessErrors` | several models, their hosts, and the error string they share |
| `Engine`, `MCEngine` | the engine, its clients, native objects, cancel and trim |
| `EngineService`, `EngineRefinement` | abstract specification (one call at a time, one answer each, one delivery at most) and the mapping to it |
| `Memory`, `MCMemory` | the accounting of device memory |
| `TextSegments` | the text algorithms, as operators |
| `Payload`, `MCPayload` | a text from OCR through JSON documents to the segments of a translation |
| `Detector`, `MCDetector` | text regions of the detector's probability map |
| `Furigana`, `MCFurigana` | a call of the furigana backend from the image to text, regions and readings |
| `AppUi` | the application's window thread, worker, messages and close |
| `HarnessProofs`, `HarnessErrorsProofs`, `EngineProofs`, `MemoryProofs`, `DetectorProofs`, `FuriganaProofs`, `TextProofs`, `AppUiProofs` | the proofs |

### Harness

Every critical section under `queue_mutex` is one action; every access outside
it is an action of its own. `submit` is `SubmitPush` (the critical section) and
`SubmitNotify`; `job_cancel` is `CancelLoad`, `CancelStore` and, if the job was
seen RUNNING, `CancelEngine`; `stop_worker` is `UnloadStop`,
`UnloadCancelEngine`, `UnloadNotify`, `UnloadJoin`, and `model_unload` adds
`UnloadDelete`. The worker's place is `wpc`: *lock* and *asleep* (the wait of
326-327), *popped*, *skip* and *start* (332-336), and the points of `run`. The
final store of a job's state is one `Publish...` action for each place that
makes it. Two history variables serve properties: `accepted`, the order in which
`submit` accepted jobs, and `struck`, the jobs that were in the engine at the moment
a `job_cancel` got there. A late cancel may so stop the job that runs by then, which
no document denies; `CancelledHasCause` accepts that and nothing more: the cancel
does not wait in the engine for a job that starts later.

The engine is reduced to what the harness can observe: it clears the cancel
flag, makes at most `MaxSteps` steps that check it, and returns a status that
its flag allows. Payloads are in `Payload`; here an input that is not what the
task needs, an engine that throws and an output that does not fit are choices.
`submit` after `model_unload` returned, and a call that is still inside the
model when it is deleted, break the contract and do not happen (`NoCallInside`);
`job_cancel` on a handle that outlives the model does, and
`DeletedModelQuiescent` is why it is harmless.

### JobService and the refinement

`JobService` has no thread, flag or mutex: a service that is open, closing or
retired, a waiting job, an active job, what `job_poll` says, and the delivered
results. The mapping takes the queue for the waiting slot, the worker's local
`job` for the active one and `written` for the delivered results. That a queue
that is only tested for emptiness amounts to one waiting slot, that skipping a
cancelled job resolves it in order, and that a model is only freed when both
slots are empty is what the refinement shows. Its fair half says that every
accepted job finishes and every unload returns.

### HarnessErrors

`g_last_error` is one string for all models of the process. A failing job is
three steps (`Fails` keeps the engine's message in the job, `Records` is
`set_error`, `Publishes` the store of FAILED), a failed `model_load` elsewhere is
`LoadFails`. Each model has a host that polls its job and, when it has failed,
calls `get_last_error` twice, for the size (`AsksSize`) and for the text
(`Reads`); anything may be recorded in between. A message is its place among all
`set_error` calls, and its size. The host that asks again when its buffer was
too small is external.

### Engine, EngineService and the refinement

A call takes `operation_mutex_` with `try_lock` (`Enter`) or is `Refused`; then
`Reset` clears the flag, the `Load...` actions bring the model up part by part
(weights, context, projector), the generation actions run prompt, token loop,
layout recovery (OCR) or segments (translate), `Deliver` runs the text callback,
`Succeed` clears the error and `Leave` unlocks. An exception unwinds a call and
releases the mutex: `LoadThrows` inside a load, where it frees the parts so far,
`Throws` elsewhere, and `RefusedThrows` while a refusal makes its message. Only then
does the C ABI's handler record a message (`Caught`, `SetUnexpectedError`), as in
`call_status`; recording may fail, which the history variable `unrecorded` tells
`FailureLeavesMessage`. `live` is the set of native objects that exist,
`resident` the models that are set, `building` the parts of the model being
loaded. `Cancel` and `trim_memory` may come at any time from any thread;
`TrimBusy` is a trim that finds the mutex taken and cancels instead. Whether a
load exceeds the VRAM budget (see `Memory`), whether an OCR result looks
concatenated and whether a backend call fails are choices. `asked` is a history
variable: where the present call was when a cancel came.

`EngineService` has no model, segment or token: a caller is entered, working or
has delivered; BUSY is only said while somebody is inside, and a refusal may end in
an exception instead; a call that has
delivered can only succeed (or, furigana only, throw afterwards); CANCELLED is
only said while a cancel is pending; a cancel is forgotten when the next call
begins. `EngineRefinement` maps everything between the reset and the text
callback to *working*. The fair half says that every call returns.

### Memory

`refresh_memory` compares the device's free bytes with those of its first
reading, so what other programs take counts too; `Reread` is its arithmetic,
and an unreliable reading makes the next one the new baseline. A load is evict,
create, install, two readings and the verdict of `over_vram_budget`; between any
two of these `memory_info` may refresh the fields from another thread and other
programs may take or give back memory. `steady`, `checked` and `granted` are
history variables: whether every reading was reliable, and what others held when
the budget was checked and when a load was last accepted.

### TextSegments and Payload

A text is a sequence of symbols, one for each thing the code tells apart
(visible, blank, the two line ends, bar, block marker, image tag; in documents
also quote, backslash, NUL, a character of two `\u` escapes and each member
name). `TextSegments` has `OcrText` (tag removal and normalisation) and
`Segments` as operators with recursive functions and folds. `Payload` is the way
of a text: generated by OCR (`Generate`), planned and written into the host's
buffer as JSON (`PlanOutputs`, `WriteJobOutput`), handed on as the request of a
translation (`SubmitBuffer`) or replaced by a request of the host's own
(`Compose`, every spelling JSON allows), read back by `json_string` (`Run`), cut
at its first NUL and split; or, without the harness, translated as it is
(`AskDirectly`).

### Detector

`extract_detection_boxes`: rows are thresholded, the scan takes the next active
pixel, the flood fill claims its neighbours and pushes them, a blob is refused
or becomes a box, the boxes are sorted. The stack is a set, so pixels may come
off it in any order. The floating-point geometry of a box is a choice of its
centre line and left edge, or a refusal. `judged` and `cut` are history
variables.

### Furigana

One `NativeFuriganaOcr` and its calls, one after another (`Engine` shows that
they cannot overlap). `pc` is the place in `run`; `Cancelled` is its three
checks of the flag, and a cancel inside the detector only empties its list
(`ExtractNone`). The loop over time steps is one `Decode` per step, the
tokenizer one `SplitFallback` or `SplitMeCab` per word, the loop that places
the readings one `Place` or `Skip` per token. A character is its index in the
dictionary; the best class of a step is a choice, so all class sequences are
tried. MeCab is external: words from left to right with or without a reading,
spaces skipped. A token keeps the place where its surface stands in the line
(`at`), which the code drops: `ReadingsOverTheirWords` and
`ReadingLostOnlyBehindSpace` compare `codepoint_cursor` with it. Loading is one
step that fails or not; an exception other than ONNX Runtime's leaves `run`
and is `Throws` in `Engine`.

### AppUi

The window's thread handles one message at a time, so a handler is one action,
except `WM_CLOSE`, which waits for the worker and is split at its three shared
accesses. A text, translation or overlay is modelled by the image it comes from.
`PostMessage` may fail. Messages still in the queue when the window is destroyed
are gone. Modal dialogs disable the window and are part of their handler.
`clicked`, `dropped` and `lost` are history variables. After a lost result the
controls stay disabled and `ControlsComeBack` is silent; that the window can then
still be closed is part of `CloseEnds`.

## 3. The runs

| run | instance | what it shows |
|---|---|---|
| `harness_safety` | 3 jobs, symmetric, 1 engine step | `InFlightBounded`, `FinishedInOrder`, `OutputMatchesState`, `DeletedModelQuiescent`, `CancelledHasCause` |
| `harness_live` | 2 jobs, 1 step, fairness | `CancelledWhileWaitingNeverRuns`, `CancelledBeforeVerdictNeverCompletes`; `Harness` implements `JobService`, safety (`ImplementsService`) and liveness (`ImplementsFairService`) |
| `harness_errors` | 2 models, 3 sizes, 5 failures, fairness | `MessageIsWholeAndNew`, `HostGetsMessage` |
| `engine` | 2 clients, the 4 residency configurations, 1 token, 3 segments, fairness | `OneModelAtATime`, `NativeObjectsOwned`, `CallbackExactlyWhenOk`, `CancelBeforeCheckHonoured`, `FailureLeavesMessage`; `Engine` implements `EngineService`, safety and liveness |
| `engine_cancel` | 1 client, 2 tokens | finding: `CancelInsideHonoured` is violated |
| `memory` | models of 3 and 2, device 8, ceiling 4, others 0, 1 or 3, unreliable readings | `CeilingEnforced`, `PeakCoversLoaded` |
| `memory_peak` | the same, alone on the device, reliable | finding: `RefusedOnlyOverBudget` is violated |
| `text` | texts of up to 5 pieces, 3 letters through JSON, requests of 2 members | `NothingLost`, `BlocksSeparate`, `OutputReadsBack`, `MembersArrive` |
| `detector` | map of 4 by 3, every picture of up to 7 pixels, 2 boxes | `BlobsWhole`, `EveryBlobJudged`, `ReadingOrder` |
| `furigana` | 3 time steps, 2 boxes, 3 characters | `CtcGreedy`, `ReadingsOverTheirWords`, `ReadingLostOnlyBehindSpace`, `TextMatchesRegions`, `StatusHonest` |
| `app` | 2 images, fairness | `WorkerFindsEngine`, `ResultMeansFinished`, `CancelledWasClicked`, `NothingOfAnotherImage`, `ControlsComeBack`, `CloseEnds` |
| `app_drop` | 2 images | finding: `OverlayOfShownImage` is violated |

Bounds. Three jobs are one more than can be in flight, so there is always a job
that is refused, one that waits and one that runs; a longer history only repeats
this, and the proofs cover it. One engine step gives the engine a point before,
between and after its checks. A token is a point before and after the end of a
generation; three segments are more than the two passes of OCR. Two clients
suffice for the engine, since at most one is inside and all others are alike.
Two models can each overwrite the other's message between any two steps, and
three sizes make a message longer than the last and shorter than the next.
Either of the models of `memory` fits its ceiling, both together do not, and
others can make one of them exceed it. Five pieces hold a run of line ends, a
marker, a blank and visible text on both sides; every paragraph of more than two
symbols is over-long. A row of four pixels has an interior and two rims, and
seven pixels make two blobs that both become boxes. Three time steps hold a
character, a blank and the same character again, and a word, a space and another
word; two boxes hold an empty line before and after one with text. Two images
are the one that is shown and another one.

The deadlock check is on for `memory`, `memory_peak` and `furigana` and off
elsewhere: the harness, the engine and the application stop once the model is
freed, the engine destroyed or the window gone, `text` and `detector` when their
result is there, `harness_errors` when its bounded failures are used up.

Every property of a passing run has a mutant in `PROJECT.json`: a plausible bug
in one definition (a dropped guard, a reset that is missing, a check that comes
late) under which TLC finds that property violated. The altered definitions are
in each module under "Plausible bugs".

### Fairness

`Harness`: the worker keeps running (`WF` of all its steps but the spurious
wake-up), and a thread inside `submit`, `job_cancel` or `model_unload` finishes
it; `std::thread` gives no less. Nobody has to call anything, `wait` need not
wake spuriously, and the engine need not make a particular choice. The number of
steps of an operation is bounded, as the token loop is by `maximum_tokens`.
`HarnessErrors`: workers and the hosts that poll and ask keep running.
`Engine`: the thread inside keeps running and a thread on its way out runs its
handler; native calls return; no progress is owed to an exception. `AppUi`: the
worker runs (its engine call returns, which the fair half of `EngineService`
shows), and the window's thread takes the messages in its queue and finishes a
close it began; no progress is owed to a post that fails.

### Findings

* A cancel can be erased (`engine_cancel`, E:1068). Each call clears
  `cancel_requested_` after it has taken the mutex; a `local_ai_cancel` that
  lands between the two is lost and the call delivers. In the harness this is
  harmless for the verdict, since the job has a flag of its own
  (`CancelledBeforeVerdictNeverCompletes`), but the operation runs to its end.
* An image dropped while furigana runs gets the old image's readings drawn over
  it (`app_drop`, A:1652). `NothingOfAnotherImage` shows that this is the only way.
* After one load over budget every later load is refused, of models that fit as
  well (`memory_peak`, E:1394): the budget is compared with the peak, which is
  not lowered when a model is unloaded.

### Differences that no run shows

Found while modelling; each is one statement that a run would only restate.

* `LOCAL_AI_CONFIG_ENABLE_FURIGANA` (`include/local_ai.h:52-53`) is never looked
  at; the backend is created on the first call (E:1245).
* A detected box whose line decodes to nothing is skipped (F:1578), although
  `include/local_ai.h:168-169` says "every detected/recognized PP-OCR region".
* A translation joins its segments with one blank line (E:1354); `README.md:177-178`
  says "the same boundaries".
* `get_last_error` ignores the object it is given (H:687): with two models a host
  may get the other's message (`tests/inferbridge_harness_smoke.cpp:91` passes the
  model). `MessageIsWholeAndNew` says what does hold.
* `json_string` takes the first place of a quoted name (H:135): a value that ends
  in one hides the member, and the job is refused. `MembersArrive` excludes
  exactly these values (`Mistakable`).
* A generation that ends at its token bound (E:992) may end inside a UTF-8
  character.

## 4. The proofs

Eight modules; no bound of a run is assumed anywhere. The assumptions are the
named ones of the modules: finitely many jobs with distinct "no job" and error
values, natural numbers for bounds and sizes, a map of at least one pixel, at least
one caller of the engine, dictionary entries that are sequences of characters
(`LexiconAssumption`), texts made of the symbols the algorithms tell apart.

* `HarnessProofs`. `IInv` is `TypeOK`, `QueueInv` (the queue is empty or holds one
  QUEUED job that is not the worker's), `WorkerInv` (the worker's place determines
  its job and that job's state), `LiveInv` (a live job is the worker's or the
  queue's), `UnloadInv` and `OutputMatchesState`. `InFlightBounded` alone is not
  inductive: only the place of the jobs says how many can be live. `TypeCorrect`,
  `InFlightIsBounded`, `OutputIsOfCompleteJobs` and `DeletedModelIsQuiescent`
  follow. On top of it, `HistoryInv`: `AcceptedInv` (accepted jobs are those
  submitted, once each), `TurnInv` (all before the worker's job are final) and
  `CauseInv`, which follows a cancel from the host's call through the engine's
  flag and status to the verdict. Only five kinds of step concern the order
  (`OrderStep`) and causes never go away (`CausesRemain`); `JobsFinishInOrder`
  follows. `StruckInv` says that a cancel which is in the engine's flag after the
  reset belongs to the job that runs there; with `CauseBefore` (the cause lies with
  the job or one before it) it gives `CancelledJobsHaveACause`. Two action properties follow as well: once a
  cancel has come in time the job stays in `WillNotRun` or `WillNotComplete`
  (`WillNotStep`), which give `CancelledWaitingNeverRun` and
  `CancelledInTimeNeverCompletes`. `HarnessImplementsService` maps each action to
  the one of `JobService` it implements or to a stutter.
* `HarnessErrorsProofs`: `HostsReadWholeNewMessages`. `TurnsInv` says that a host
  asks only while its model's worker has no job, so nobody else moves `own`.
* `EngineProofs`. `ControlInv` (who holds the mutex, which points a call goes
  through, what it may say on leaving) and `MemoryInv` (`NativeObjectsOwned`,
  `BuildingInv`: the parts of a model being loaded are the first ones it needs,
  and `SequentialInv`: in sequential mode a load's target is the only resident
  model). Counting the parts (`PrefixSizes`) shows that a load always stays
  within its model. `TypeCorrect`, `NativeObjectsAreOwned`, `OneModelIsInMemory`
  and `CallbackIsExact` follow. `AskedInv` (a cancel asked
  before the last check is still in the flag, or the call is on its way out)
  gives `CancelBeforeCheckIsHonoured`, and `MessageInv` gives
  `FailuresLeaveAMessage`; `EngineImplementsService` needs the whole of it.
* `MemoryProofs`. `OwnInv` (what the engine holds is what its models take, place
  by place) and `BudgetInv` (the peak covers the load being judged, and the kept
  models are within ceiling and peak). `TypeCorrect` also says that no unsigned
  difference wraps; `CeilingIsEnforced` and `PeakCovers` follow.
* `DetectorProofs`. `PlacesInv`, `FloodInv` (what touches a pixel that was looked
  at is in its blob or on the stack) and `CoverInv` (no text pixel is lost) give
  `BlobsAreWhole` for maps of any size. `BoxInv` (each box has a judged blob of its
  own, so the boxes before the sort are as many as after it) gives
  `BoxesAreInOrder`; the sort is any permutation in which none comes before the
  one in front of it (`SortedBoxes`). `EveryBlobIsJudged` says that what is judged
  are the regions of the map and nothing more. A region (`Reached`) is the least
  set with its first pixel and all that touches a member; a blob is one because it
  is closed and because its pixels hang together: a closed set that has one of them
  has them all (`Linked`, in `SeenInv`).
* `AppUiProofs`. `WorkerInv`, `PostedInv` (the queue holds at most the one result
  of the active operation), `CancelInv` and `SourceInv` give
  `WorkerAlwaysFindsEngine`, `ResultsMeanFinished`, `CancelledWasAlwaysClicked`
  and `ShownIsOfTheImage`.
* `FuriganaProofs`. `DecodeInv`: what is decoded so far is the greedy reading of
  the steps so far, and the class of the last step is remembered. `SplitInv`: the
  words cover the line from left to right, each its own characters, and the gaps
  between them are characters MeCab skips. `CursorInv`: the cursor never runs
  ahead of a word not yet looked at, and it is behind the last one looked at or
  stands before a space for the rest of the line, which is why a token that is
  found stands over its word and one that is not found has a space before it.
  `OutputInv` keeps text, regions and readings in step. They give
  `DecodesGreedyCtc`, `ReadingsStandOverWords`, `ReadingsLostBehindSpaces`,
  `OutputAgrees` and `StatusIsHonest`.
* `TextProofs`, for texts of any length over any of the symbols. A fold of the
  community modules is a `CHOOSE` of a recursive function on sets of indices:
  `FoldExists` shows that there is one, `FoldIs` that it goes through the sequence
  element by element, and the functions of `Parts`, `Segments` and `ParseFrom`,
  which recur towards the end of a text, exist by `BackExists`. Then every stage
  keeps what is seen (`Ink`): line ends, compaction, lines, blocks and their
  joining (`NormalizedInk`), parts (`PartsInk`), segments (`SegmentsInk`); this and
  `AskedInv` give `NothingIsLost`. A parser that stands at the first symbol of an
  escaped text and gets from its end to the end with *r* gets from there with the
  text and *r* (`TextReads`), the first quoted `text` of a job's document is its
  member (`DocumentReads`), and `BufferInv` carries that from the buffer to the
  call: `ReadsWhatItWrote`.
  For requests the host writes, every way to spell a value is a function from
  symbols to spellings (`Speller`, `WrittenIs`), and a string spelled with any of
  them is read back (`TextReads` is about all of them). A document `Carries` members when
  the first place each name stands at between quotes is its own member, and other
  names stand nowhere. A quote inside a value has a backslash before it, so
  a name with quotes on both sides is the name of the member or ends the value
  (`MemberPlaces`), which is what `Mistakable` excludes. One more symbol or
  member keeps this (`CarriesOne`, `CarriesMember`), a job's document has it
  (`DocumentCarries`), and `HostInv` carries it to the call of `translate`, where
  the fold over the documents finds the language that is said last
  (`LanguageArrives`): `MembersGetThere`.
  For `BlocksStaySeparate`, `Apart(t, x)` says that what is seen of *t* can be cut
  behind *x*: at one of its two ends or at three line ends. Every pass keeps this.
  Writing one line end for CR, LF or both and at most three in a row leaves a
  marker line or three line ends where they are, with the same seen before them
  (`NeatSplit`; `EndsGap` is when a line end is not written). Blocks (`HeldThree`,
  `HeldBehind`): the state of the fold `Held`s *x* when a block ends there, or a
  block that is being collected has the gap inside it; more lines never undo this.
  Joining trimmed blocks with three line ends puts them where a block ended
  (`JoinedIs`, `TrimApart`). So a marker line in the generated text is a gap in
  what OCR delivers (`NormalizedSplit`), a text with a gap keeps it when
  `translate` normalises it again (`NormalizedApart`), and a text that has one is
  searched for three line ends and not for two, so no segment reaches across
  (`SegmentsApart`).

Induction. The library's induction theorems take an operator, which the provers
cannot instantiate, so induction is done over sets of numbers: a non-empty one has
a least member (`LeastNumber`, from `WFMin`), so one with zero and every successor
has them all (`Induction`, and `SeqInduction` for sequences). A recursive function
is unfolded by showing that one with its equation exists.

Every safety invariant, every action property and the safety half of both
refinements is a theorem. Model-checked only: liveness (`HostGetsMessage`,
`ControlsComeBack`, `CloseEnds`, the fair halves of the refinements), since
fairness and ENABLED are out of the prover's reach.

## 5. Not modelled

* The harness's port and capability tables and its argument checks, and the C
  ABI's field-by-field configuration copy: no state, one guard each.
* The stride and size arithmetic of `ocr_pixels`, image decoding and resizing,
  and UTF-8 decoding: data in, data out.
* The floating-point geometry of text boxes and confidences; `Detector` lets a
  box come out anywhere.
* Prompts, the removal of thinking blocks and the choice between two OCR results.
* The application's drawing, layout, dialogs, settings and model discovery:
  Windows calls whose outcome no other part observes.
* llama.cpp, libmtmd, ONNX Runtime and MeCab: external; a call fails or not, and
  may have noticed the cancel.
* The disabled furigana build (a stub), setup scripts and build files.

## 6. What is left

1. The harness composed with `Engine` in place of its reduced engine: both
   implement their services, and the engine `Harness` uses is `EngineService` for
   one client; the composition would say so.
2. Retries inside `Furigana`'s `load`, which keeps what it appended before a
   failure.
