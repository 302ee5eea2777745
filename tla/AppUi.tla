-------------------------------- MODULE AppUi --------------------------------
(***************************************************************************)
(* The desktop application's concurrency (src/src/app/main.cpp): the       *)
(* window's thread, which runs one message handler at a time and owns      *)
(* AppState; the worker thread that one operation runs on; the message     *)
(* kDoneMessage by which the worker hands its result back; and the close   *)
(* of the window, which joins the worker and destroys the engine.          *)
(*                                                                         *)
(* A text or an overlay is modelled by what it comes from: an image, the   *)
(* user's typing, or nothing.  The engine is reduced to its cancel flag    *)
(* and the status it returns; module Engine has the rest.  A modal dialog  *)
(* keeps the window disabled and is part of the handler that shows it.     *)
(***************************************************************************)
EXTENDS Naturals, Sequences

CONSTANTS Images,  \* the images the user opens or drops
          Typed,   \* text the user typed
          Nothing  \* no image, an empty text, no overlay

ASSUME SourcesAssumption == /\ Typed \notin Images \cup {Nothing}
                            /\ Nothing \notin Images

VARIABLES
  \* AppState, owned by the window's thread
  upc,         \* where its handler is: "loop" between two messages
  engine,      \* "alive", "null" (create_engine failed) or "destroyed"
  active,      \* AppState::active; it also enables and disables the controls
  image,       \* image_path and the preview
  overlay,     \* furigana_tokens and text_regions
  text,        \* the extracted text's edit control
  translation, \* the translated text's edit control
  \* shared with the worker
  closing,     \* AppState::closing
  posted,      \* kDoneMessages in the window's queue
  cancelFlag,  \* the engine's cancel_requested_
  \* the worker thread
  wpc,         \* "none" if it is not joinable
  job,         \* what it runs: the operation and what it reads
  status,      \* what the engine returned
  \* history
  clicked,     \* Cancel was clicked for the present operation
  dropped,     \* an image was dropped while an operation was active
  lost         \* a result could not be posted

view   == <<image, overlay, text, translation>>
worker == <<wpc, job, status>>
vars == <<upc, engine, active, view, closing, posted, cancelFlag, worker,
          clicked, dropped, lost>>

Sources    == Images \cup {Typed, Nothing}
Operations == {"ocr", "furigana", "translate"}
Statuses   == {"OK", "CANCELLED", "FAILED"}
Jobs       == [op : Operations, source : Sources]

Init ==
  /\ upc = "loop" /\ engine \in {"alive", "null"}
  /\ active = FALSE /\ closing = FALSE
  /\ image = Nothing /\ overlay = Nothing
  /\ text = Nothing /\ translation = Nothing
  /\ posted = <<>> /\ cancelFlag = FALSE
  /\ wpc = "none" /\ job = [op |-> "ocr", source |-> Nothing] /\ status = "OK"
  /\ clicked = FALSE /\ dropped = FALSE /\ lost = FALSE

-----------------------------------------------------------------------------
(* Plausible bugs: altered forms of the operators they are named after.    *)

\* start_operation without its first test
IdleUnchecked == engine = "alive"
\* set_active forgets the Open button
OpenEnabledAlways == TRUE
\* nobody waits for the worker
JoinedNow == TRUE
\* the cancel flag is not cleared at the start of a call
WorkerEntersUncleared ==
  /\ wpc = "begin"
  /\ wpc' = "call"
  /\ UNCHANGED <<upc, engine, active, view, closing, posted, cancelFlag, job,
                 status, clicked, dropped, lost>>
\* only a success re-enables the controls
StillActiveAfterFailure(r) == r.status # "OK"
\* the result is sent, not posted: the worker waits for the window's thread
Reachable == upc = "loop"

-----------------------------------------------------------------------------
(* The window's thread: one action for each message handler.               *)

\* load_preview fails for a file that is no image, and nothing changes.
ShowImage(i) ==
  /\ image' = i
  /\ overlay' = Nothing /\ text' = Nothing /\ translation' = Nothing

\* The Open button is disabled while an operation is active ...
OpenEnabled == ~active

OpenImage(i) ==
  /\ upc = "loop" /\ OpenEnabled
  /\ ShowImage(i)
  /\ UNCHANGED <<upc, engine, active, closing, posted, cancelFlag, worker,
                 clicked, dropped, lost>>

\* ... but WM_DROPFILES is handled at any time.
DropImage(i) ==
  /\ upc = "loop"
  /\ ShowImage(i)
  /\ dropped' = (dropped \/ active)
  /\ UNCHANGED <<upc, engine, active, closing, posted, cancelFlag, worker,
                 clicked, lost>>

\* The edit controls are disabled while an operation is active.
EditText(t) ==
  /\ upc = "loop" /\ ~active
  /\ text' = t
  /\ UNCHANGED <<upc, engine, active, image, overlay, translation, closing,
                 posted, cancelFlag, worker, clicked, dropped, lost>>

Idle == ~active /\ engine = "alive"

\* A thread that has not been joined yet is joined first.
Joined == wpc \in {"none", "finished"}

\* What an operation reads is captured before the thread starts.
Start(o) ==
  LET source == IF o = "translate" THEN text ELSE image
  IN  /\ upc = "loop" /\ Idle /\ Joined
      /\ source # Nothing
      /\ active' = TRUE
      /\ overlay' = IF o = "translate" THEN overlay ELSE Nothing
      /\ job' = [op |-> o, source |-> source]
      /\ wpc' = "begin" /\ clicked' = FALSE
      /\ UNCHANGED <<upc, engine, image, text, translation, closing, posted,
                     cancelFlag, status, dropped, lost>>

\* The Cancel button is enabled while an operation is active.
ClickCancel ==
  /\ upc = "loop" /\ active
  /\ cancelFlag' = TRUE /\ clicked' = TRUE
  /\ UNCHANGED <<upc, engine, active, view, closing, posted, worker, dropped,
                 lost>>

\* set_active(false), whatever the result.
StillActive(r) == FALSE

\* kDoneMessage: the worker is joined and its result shown.  A plain OCR has
\* no regions, so its overlay is empty.
Done ==
  LET r == Head(posted)
  IN  /\ upc = "loop" /\ posted # <<>> /\ Joined
      /\ posted' = Tail(posted)
      /\ wpc' = "none"
      /\ IF r.status # "OK" THEN UNCHANGED view
         ELSE IF r.op = "translate"
              THEN /\ translation' = r.source
                   /\ UNCHANGED <<image, overlay, text>>
              ELSE /\ text' = r.source /\ translation' = Nothing
                   /\ overlay' = IF r.op = "furigana" THEN r.source ELSE Nothing
                   /\ UNCHANGED image
      /\ active' = StillActive(r)
      /\ UNCHANGED <<upc, engine, closing, cancelFlag, job, status, clicked,
                     dropped, lost>>

\* WM_CLOSE: the flag, the cancel and the join are steps of their own, since
\* the worker runs meanwhile; the window's thread handles nothing else.
CloseBegin ==
  /\ upc = "loop"
  /\ closing' = TRUE /\ upc' = "closeCancel"
  /\ UNCHANGED <<engine, active, view, posted, cancelFlag, worker, clicked,
                 dropped, lost>>

CloseCancel ==
  /\ upc = "closeCancel"
  /\ cancelFlag' = (cancelFlag \/ engine = "alive")
  /\ upc' = "closeJoin"
  /\ UNCHANGED <<engine, active, view, closing, posted, worker, clicked,
                 dropped, lost>>

CloseJoin ==
  /\ upc = "closeJoin" /\ Joined
  /\ upc' = "destroy"
  /\ wpc' = IF wpc = "finished" THEN "none" ELSE wpc
  /\ UNCHANGED <<engine, active, view, closing, posted, cancelFlag, job, status,
                 clicked, dropped, lost>>

\* WM_DESTROY: the engine goes, and with the window whatever it was posted.
Destroy ==
  /\ upc = "destroy"
  /\ engine' = "destroyed" /\ posted' = <<>> /\ upc' = "gone"
  /\ UNCHANGED <<active, view, closing, cancelFlag, worker, clicked, dropped,
                 lost>>

-----------------------------------------------------------------------------
(* The worker thread of one operation.                                     *)

\* The engine clears its flag; a cancel that came earlier is erased.
WorkerEnters ==
  /\ wpc = "begin"
  /\ cancelFlag' = FALSE
  /\ wpc' = "call"
  /\ UNCHANGED <<upc, engine, active, view, closing, posted, job, status,
                 clicked, dropped, lost>>

WorkerReturns(st) ==
  /\ wpc = "call"
  /\ st = "CANCELLED" => cancelFlag
  /\ status' = st /\ wpc' = "returned"
  /\ UNCHANGED <<upc, engine, active, view, closing, posted, cancelFlag, job,
                 clicked, dropped, lost>>

\* The load of `closing`, after last_error and memory_info were read.
WorkerLooks ==
  /\ wpc = "returned"
  /\ wpc' = IF closing THEN "finished" ELSE "post"
  /\ UNCHANGED <<upc, engine, active, view, closing, posted, cancelFlag, job,
                 status, clicked, dropped, lost>>

\* PostMessage never waits for the window's thread, ...
Postable  == TRUE
Queued(r) == Append(posted, r)

WorkerPosts ==
  /\ wpc = "post" /\ Postable
  /\ posted' = Queued([op |-> job.op, source |-> job.source, status |-> status])
  /\ wpc' = "finished"
  /\ UNCHANGED <<upc, engine, active, view, closing, cancelFlag, job, status,
                 clicked, dropped, lost>>

\* ... but it may fail, and then nobody learns of the result.
WorkerPostFails ==
  /\ wpc = "post"
  /\ lost' = TRUE
  /\ wpc' = "finished"
  /\ UNCHANGED <<upc, engine, active, view, closing, posted, cancelFlag, job,
                 status, clicked, dropped>>

-----------------------------------------------------------------------------

Close  == CloseBegin \/ CloseCancel \/ CloseJoin \/ Destroy
Worker == \/ WorkerEnters \/ \E st \in Statuses : WorkerReturns(st)
          \/ WorkerLooks \/ WorkerPosts

Next == \/ \E i \in Images : OpenImage(i) \/ DropImage(i)
        \/ \E t \in {Typed, Nothing} : EditText(t)
        \/ \E o \in Operations : Start(o)
        \/ ClickCancel \/ Done \/ Close \/ Worker \/ WorkerPostFails

Spec == Init /\ [][Next]_vars

(* The worker runs, the window's thread finishes the close it began and    *)
(* takes the messages from its queue; nobody has to click anything, and no *)
(* progress is owed to a post that fails.                                  *)
Fairness == /\ WF_vars(Worker) /\ WF_vars(Done)
            /\ WF_vars(CloseCancel \/ CloseJoin \/ Destroy)

FairSpec == Spec /\ Fairness

-----------------------------------------------------------------------------

\* A worker that can still touch the engine or the window finds both: however
\* the close interleaves with the operation, the engine is destroyed only when
\* the thread is gone.
WorkerFindsEngine ==
  wpc \in {"begin", "call", "returned", "post"} =>
    engine = "alive" /\ upc # "gone"

\* While the window takes messages, a kDoneMessage in its queue means that the
\* worker has nothing left to do but return: the handler's join never freezes
\* the window on a running operation and never joins the thread of a later one.
ResultMeansFinished ==
  posted # <<>> /\ upc = "loop" => wpc = "finished"

\* A result says CANCELLED only if Cancel was clicked for that very operation:
\* a click that came too late for one operation does not hit the next.
CancelledWasClicked ==
  \A k \in DOMAIN posted : posted[k].status = "CANCELLED" => clicked

\* Unless an image was dropped while an operation was active, the overlay, the
\* text and the translation come from the image that is shown.
NothingOfAnotherImage ==
  ~dropped => {overlay, text, translation} \subseteq {image, Typed, Nothing}

\* README.md: the Furigana action draws the readings above the matching image
\* regions.  The regions are those of the image that is shown.
OverlayOfShownImage == overlay \in {image, Nothing}

-----------------------------------------------------------------------------
(* Liveness, under FairSpec.                                               *)

\* The controls come back after every operation, successful or not, unless its
\* result could not be posted or the window was closed.
ControlsComeBack == active ~> ~active \/ lost \/ upc # "loop"

\* Closing ends, whatever the worker was doing when it began.
CloseEnds == closing ~> upc = "gone"

=============================================================================
