------------------------------ MODULE Harness ------------------------------
(***************************************************************************)
(* The InferBridge harness: one loaded model, its job queue, its worker    *)
(* thread and the host threads that submit, cancel and release jobs and    *)
(* finally unload the model                                                *)
(* (src/src/inferbridge/inferbridge_harness.cpp).                          *)
(*                                                                         *)
(* A critical section under queue_mutex is one step.  Everything the code  *)
(* does outside the mutex - the atomic loads and stores of a job's state   *)
(* and cancel flag, notify_one/notify_all, Engine::cancel - is a step of   *)
(* its own, so every interleaving of the worker with the host's calls is   *)
(* a behaviour.  The engine's operation is reduced to what the harness     *)
(* can observe: it clears the cancel flag, makes at most MaxSteps          *)
(* cancellation-checked steps, and returns a status.                       *)
(***************************************************************************)
EXTENDS Naturals, Sequences, FiniteSets

CONSTANTS Jobs,      \* the jobs the host may submit
          NoJob,     \* "no job": the worker is between jobs
          LoadError, \* the message model_load leaves in g_last_error
          NoError,   \* g_last_error before anything failed
          MaxSteps   \* bound on the engine's cancellation-checked steps

ASSUME JobsAssumption     == IsFiniteSet(Jobs) /\ NoJob \notin Jobs
ASSUME ErrorAssumption    == LoadError \notin Jobs /\ NoError \notin Jobs
ASSUME MaxStepsAssumption == MaxSteps \in Nat

VARIABLES
  \* ibrh_model
  stopping,   \* ibrh_model::stopping
  queue,      \* ibrh_model::queue
  \* JobState, shared by the handle, the queue and the worker
  state,      \* JobState::state; "absent" before submit pushes it
  cancel,     \* JobState::cancel
  written,    \* the job's host output buffer holds a result
  \* the worker thread
  wpc,        \* where the worker is
  wjob,       \* its local `job`
  wstatus,    \* the LocalAIStatus the engine returned
  \* the engine, as the harness sees it
  ecancel,    \* Engine::cancel_requested_
  esteps,     \* steps the running operation has made
  struck,     \* history: the jobs whose operation a job_cancel has reached
  \* process-wide
  lastError,  \* g_last_error: which job, or the load, it is about
  \* the host's calls
  submitCall, \* submit(job): "idle" or, between push and notify, "pushed"
  cancelCall, \* job_cancel(job): what it has read and still has to do
  handle,     \* the ibrh_job handle: "none", "held", "released"
  unload,     \* model_unload: how far it is
  \* history
  accepted    \* the jobs in the order submit accepted them

modelVars  == <<stopping, queue>>
jobVars    == <<state, cancel, written>>
workerVars == <<wpc, wjob, wstatus>>
engineVars == <<ecancel, esteps, struck>>
hostVars   == <<submitCall, cancelCall, handle, unload>>
vars == <<modelVars, jobVars, workerVars, engineVars, lastError, hostVars,
          accepted>>

-----------------------------------------------------------------------------
(* States, and where the worker can be.                                    *)

Terminal == {"COMPLETE", "FAILED", "CANCELLED"}
Live     == {"QUEUED", "RUNNING"}

\* Between pop_front and the store of RUNNING or CANCELLED.
PoppedPC  == {"popped", "skip", "start"}
\* Inside run(): from the store of RUNNING to the store of the final state.
RunningPC == {"run", "reset", "generate", "verdict", "drop", "report",
              "failed", "write", "publish"}
BusyPC    == PoppedPC \cup RunningPC
\* Without a job: no thread yet, about to lock, waiting, returned.
FreePC    == {"off", "lock", "asleep", "exited"}

InQueue(j) == \E i \in DOMAIN queue : queue[i] = j
InFlight   == {j \in Jobs : state[j] \in Live}

Init ==
  /\ stopping = FALSE /\ queue = <<>>
  /\ state   = [j \in Jobs |-> "absent"]
  /\ cancel  = [j \in Jobs |-> FALSE]
  /\ written = [j \in Jobs |-> FALSE]
  /\ wpc = "off" /\ wjob = NoJob /\ wstatus = "FAILED"
  /\ ecancel = FALSE /\ esteps = 0 /\ struck = {}
  /\ lastError = NoError
  /\ submitCall = [j \in Jobs |-> "idle"]
  /\ cancelCall = [j \in Jobs |-> "idle"]
  /\ handle = [j \in Jobs |-> "none"]
  /\ unload = "idle"
  /\ accepted = <<>>

-----------------------------------------------------------------------------
(* Plausible bugs: each is an altered form of the operator of the same     *)
(* name without its suffix, and breaks one of the properties below.        *)

\* submit forgets the limit of one waiting job
CanEnqueueUnlimited == ~stopping
\* the worker returns as soon as the model stops
MustExitAtOnce == stopping
\* notify is dropped
WokenWorkerNever == wpc
\* a popped job is started whatever its flag says
AfterPopUnchecked(j) == "start"
\* the job's own flag is not looked at after the engine returned
AfterEngineStatusOnly(j) ==
  IF wstatus = "CANCELLED" THEN "drop"
  ELSE IF wstatus # "OK" THEN "report" ELSE "write"
\* a call takes over the cancel that was meant for the one before it
EngineResetKeeps ==
  /\ wpc = "reset"
  /\ esteps' = 0
  /\ wpc' = "generate"
  /\ UNCHANGED <<modelVars, jobVars, wjob, wstatus, ecancel, struck, lastError,
                 hostVars, accepted>>
\* one step too many
MoreStepsOffByOne == esteps <= MaxSteps
\* the capacity check comes after the copy
WriteThrowsLate ==
  /\ wpc = "write"
  /\ written' = [written EXCEPT ![wjob] = TRUE]
  /\ wpc' = "report"
  /\ UNCHANGED <<modelVars, state, cancel, wjob, wstatus, engineVars,
                 lastError, hostVars, accepted>>
\* stop_worker finishes the waiting job itself
UnloadStopFinishes ==
  /\ wpc # "off" /\ unload = "idle"
  /\ stopping' = TRUE
  /\ queue' = <<>>
  /\ state' = [j \in Jobs |-> IF InQueue(j) THEN "CANCELLED" ELSE state[j]]
  /\ cancel' = [j \in Jobs |-> cancel[j] \/ InQueue(j)]
  /\ unload' = "stopped"
  /\ UNCHANGED <<written, workerVars, engineVars, lastError,
                 submitCall, cancelCall, handle, accepted>>

-----------------------------------------------------------------------------
(* model_load: the worker starts only once the engine has its weights; a   *)
(* failed load leaves a message and no model.                              *)

ModelLoad ==
  /\ wpc = "off"
  /\ wpc' = "lock"
  /\ UNCHANGED <<modelVars, jobVars, wjob, wstatus, engineVars, lastError,
                 hostVars, accepted>>

ModelLoadFails ==
  /\ wpc = "off"
  /\ lastError' = LoadError
  /\ UNCHANGED <<modelVars, jobVars, workerVars, engineVars, hostVars,
                 accepted>>

-----------------------------------------------------------------------------
(* submit.  A refusal (IBRH_ERROR_INVALID_STATE) and every argument error  *)
(* change nothing and are stuttering steps.                                *)

CanEnqueue == ~stopping /\ queue = <<>>

\* The critical section: the check and push_back.
SubmitPush(j) ==
  /\ wpc # "off" /\ unload # "deleted"
  /\ state[j] = "absent"
  /\ CanEnqueue
  /\ queue' = Append(queue, j)
  /\ state' = [state EXCEPT ![j] = "QUEUED"]
  /\ submitCall' = [submitCall EXCEPT ![j] = "pushed"]
  /\ accepted' = Append(accepted, j)
  /\ UNCHANGED <<stopping, cancel, written, workerVars, engineVars, lastError,
                 cancelCall, handle, unload>>

\* A notification wakes the worker if it waits and is lost otherwise.
WokenWorker == IF wpc = "asleep" THEN "lock" ELSE wpc

\* notify_one after the unlock; only now does the host get its handle.
SubmitNotify(j) ==
  /\ submitCall[j] = "pushed"
  /\ wpc' = WokenWorker
  /\ submitCall' = [submitCall EXCEPT ![j] = "idle"]
  /\ handle' = [handle EXCEPT ![j] = "held"]
  /\ UNCHANGED <<modelVars, jobVars, wjob, wstatus, engineVars, lastError,
                 cancelCall, unload, accepted>>

-----------------------------------------------------------------------------
(* job_cancel, on a handle the host holds, at any time - also after the    *)
(* unload.  A host makes one call at a time on one handle.                 *)

\* The load of the state; a terminal job is refused and nothing changes.
CancelLoad(j) ==
  /\ handle[j] = "held" /\ cancelCall[j] = "idle"
  /\ state[j] \in Live
  /\ cancelCall' = [cancelCall EXCEPT ![j] =
                      IF state[j] = "RUNNING" THEN "sawRunning" ELSE "sawQueued"]
  /\ UNCHANGED <<modelVars, jobVars, workerVars, engineVars, lastError,
                 submitCall, handle, unload, accepted>>

\* The store of the flag; only a call that saw RUNNING goes on to the engine.
CancelStore(j) ==
  /\ cancelCall[j] \in {"sawQueued", "sawRunning"}
  /\ cancel' = [cancel EXCEPT ![j] = TRUE]
  /\ cancelCall' = [cancelCall EXCEPT ![j] =
                      IF @ = "sawRunning" THEN "engine" ELSE "idle"]
  /\ UNCHANGED <<modelVars, state, written, workerVars, engineVars, lastError,
                 submitCall, handle, unload, accepted>>

\* Engine::cancel: by now another job may be the one that runs.
CancelEngine(j) ==
  /\ cancelCall[j] = "engine"
  /\ ecancel' = TRUE
  /\ struck' = IF wpc = "generate" THEN struck \cup {wjob} ELSE struck
  /\ cancelCall' = [cancelCall EXCEPT ![j] = "idle"]
  /\ UNCHANGED <<modelVars, jobVars, workerVars, esteps, lastError,
                 submitCall, handle, unload, accepted>>

\* job_release frees the handle; the JobState lives on in queue and worker.
JobRelease(j) ==
  /\ handle[j] = "held" /\ cancelCall[j] = "idle"
  /\ handle' = [handle EXCEPT ![j] = "released"]
  /\ UNCHANGED <<modelVars, jobVars, workerVars, engineVars, lastError,
                 submitCall, cancelCall, unload, accepted>>

-----------------------------------------------------------------------------
(* The worker's loop.                                                      *)

MustExit == stopping /\ queue = <<>>

\* Holding the mutex: the predicate of wait is false, the worker sleeps.
WorkerSleep ==
  /\ wpc = "lock"
  /\ ~stopping /\ queue = <<>>
  /\ wpc' = "asleep"
  /\ UNCHANGED <<modelVars, jobVars, wjob, wstatus, engineVars, lastError,
                 hostVars, accepted>>

\* A condition variable may also wake without a notification.
WorkerSpuriousWake ==
  /\ wpc = "asleep"
  /\ wpc' = "lock"
  /\ UNCHANGED <<modelVars, jobVars, wjob, wstatus, engineVars, lastError,
                 hostVars, accepted>>

WorkerExit ==
  /\ wpc = "lock"
  /\ MustExit
  /\ wpc' = "exited"
  /\ UNCHANGED <<modelVars, jobVars, wjob, wstatus, engineVars, lastError,
                 hostVars, accepted>>

WorkerPop ==
  /\ wpc = "lock"
  /\ ~MustExit /\ queue # <<>>
  /\ wjob' = Head(queue)
  /\ queue' = Tail(queue)
  /\ wpc' = "popped"
  /\ UNCHANGED <<stopping, jobVars, wstatus, engineVars, lastError, hostVars,
                 accepted>>

\* Where the load of the cancel flag sends a popped job.
AfterPop(j) == IF cancel[j] THEN "skip" ELSE "start"

WorkerCheckCancel ==
  /\ wpc = "popped"
  /\ wpc' = AfterPop(wjob)
  /\ UNCHANGED <<modelVars, jobVars, wjob, wstatus, engineVars, lastError,
                 hostVars, accepted>>

WorkerStart ==
  /\ wpc = "start"
  /\ state' = [state EXCEPT ![wjob] = "RUNNING"]
  /\ wpc' = "run"
  /\ UNCHANGED <<modelVars, cancel, written, wjob, wstatus, engineVars,
                 lastError, hostVars, accepted>>

-----------------------------------------------------------------------------
(* run(): validation, the engine's operation, the verdict.                 *)

\* The input is not what the task needs, or the engine throws (out of memory
\* in the middle of a generation): caught in run(), past the verdict.
RunThrows ==
  /\ wpc \in {"run", "generate"}
  /\ wpc' = "report"
  /\ UNCHANGED <<modelVars, jobVars, wjob, wstatus, engineVars, lastError,
                 hostVars, accepted>>

\* The engine refuses its arguments before it looks at anything else.
RunRefused ==
  /\ wpc = "run"
  /\ wstatus' = "FAILED"
  /\ wpc' = "verdict"
  /\ UNCHANGED <<modelVars, jobVars, wjob, engineVars, lastError, hostVars,
                 accepted>>

RunCallsEngine ==
  /\ wpc = "run"
  /\ wpc' = "reset"
  /\ UNCHANGED <<modelVars, jobVars, wjob, wstatus, engineVars, lastError,
                 hostVars, accepted>>

\* cancel_requested_.store(false): a cancel that came earlier is erased.
EngineReset ==
  /\ wpc = "reset"
  /\ ecancel' = FALSE
  /\ esteps' = 0
  /\ wpc' = "generate"
  /\ UNCHANGED <<modelVars, jobVars, wjob, wstatus, struck, lastError, hostVars,
                 accepted>>

MoreSteps == esteps < MaxSteps

\* One pass of the token (or segment) loop: is_cancelled(), then a decode.
EngineStep ==
  /\ wpc = "generate"
  /\ MoreSteps /\ ~ecancel
  /\ esteps' = esteps + 1
  /\ UNCHANGED <<modelVars, jobVars, workerVars, ecancel, struck, lastError,
                 hostVars, accepted>>

\* What the operation may return now: CANCELLED only from a check of the
\* flag, OK at the end of generation (found by a check that saw no cancel,
\* or after the last step, which nothing checks), an error anywhere.
Returnable(st) ==
  \/ st = "CANCELLED" /\ ecancel /\ MoreSteps
  \/ st = "OK" /\ (~ecancel \/ ~MoreSteps)
  \/ st = "FAILED"

EngineReturn(st) ==
  /\ wpc = "generate"
  /\ Returnable(st)
  /\ wstatus' = st
  /\ wpc' = "verdict"
  /\ UNCHANGED <<modelVars, jobVars, wjob, engineVars, lastError, hostVars,
                 accepted>>

\* Where the load of the cancel flag and the status send a job after the
\* engine returned.
AfterEngine(j) ==
  IF cancel[j] \/ wstatus = "CANCELLED" THEN "drop"
  ELSE IF wstatus # "OK" THEN "report" ELSE "write"

WorkerVerdict ==
  /\ wpc = "verdict"
  /\ wpc' = AfterEngine(wjob)
  /\ UNCHANGED <<modelVars, jobVars, wjob, wstatus, engineVars, lastError,
                 hostVars, accepted>>

\* set_error: the message is there before the state says FAILED.
ReportError ==
  /\ wpc = "report"
  /\ lastError' = wjob
  /\ wpc' = "failed"
  /\ UNCHANGED <<modelVars, jobVars, wjob, wstatus, engineVars, hostVars,
                 accepted>>

\* write_job_output: either it throws and has written nothing, ...
WriteThrows ==
  /\ wpc = "write"
  /\ wpc' = "report"
  /\ UNCHANGED <<modelVars, jobVars, wjob, wstatus, engineVars, lastError,
                 hostVars, accepted>>

\* ... or the result is in the host's buffer before the state says COMPLETE.
WriteOutput ==
  /\ wpc = "write"
  /\ written' = [written EXCEPT ![wjob] = TRUE]
  /\ wpc' = "publish"
  /\ UNCHANGED <<modelVars, state, cancel, wjob, wstatus, engineVars,
                 lastError, hostVars, accepted>>

\* The final store of the state, and back to the queue.
Publish(pc, st) ==
  /\ wpc = pc
  /\ state' = [state EXCEPT ![wjob] = st]
  /\ wpc' = "lock"
  /\ wjob' = NoJob
  /\ UNCHANGED <<modelVars, cancel, written, wstatus, engineVars, lastError,
                 hostVars, accepted>>

PublishSkipped   == Publish("skip", "CANCELLED")
PublishCancelled == Publish("drop", "CANCELLED")
PublishFailed    == Publish("failed", "FAILED")
PublishComplete  == Publish("publish", "COMPLETE")

-----------------------------------------------------------------------------
(* model_unload: stop_worker, then delete.                                 *)

\* Under the mutex: no more jobs, and the waiting ones are to be cancelled;
\* the job the worker has popped is not in the queue and keeps its flag.
UnloadStop ==
  /\ wpc # "off" /\ unload = "idle"
  /\ stopping' = TRUE
  /\ cancel' = [j \in Jobs |-> cancel[j] \/ InQueue(j)]
  /\ unload' = "stopped"
  /\ UNCHANGED <<queue, state, written, workerVars, engineVars, lastError,
                 submitCall, cancelCall, handle, accepted>>

UnloadCancelEngine ==
  /\ unload = "stopped"
  /\ ecancel' = TRUE
  /\ unload' = "cancelled"
  /\ UNCHANGED <<modelVars, jobVars, workerVars, esteps, struck, lastError,
                 submitCall, cancelCall, handle, accepted>>

UnloadNotify ==
  /\ unload = "cancelled"
  /\ wpc' = WokenWorker
  /\ unload' = "notified"
  /\ UNCHANGED <<modelVars, jobVars, wjob, wstatus, engineVars, lastError,
                 submitCall, cancelCall, handle, accepted>>

UnloadJoin ==
  /\ unload = "notified" /\ wpc = "exited"
  /\ unload' = "joined"
  /\ UNCHANGED <<modelVars, jobVars, workerVars, engineVars, lastError,
                 submitCall, cancelCall, handle, accepted>>

\* The host's part of the contract: no other call is still inside the model
\* when it is freed.  (The code has no protection of its own.)
NoCallInside == \A j \in Jobs : submitCall[j] = "idle" /\ cancelCall[j] = "idle"

UnloadDelete ==
  /\ unload = "joined" /\ NoCallInside
  /\ unload' = "deleted"
  /\ UNCHANGED <<modelVars, jobVars, workerVars, engineVars, lastError,
                 submitCall, cancelCall, handle, accepted>>

-----------------------------------------------------------------------------

Submit    == \E j \in Jobs : SubmitPush(j) \/ SubmitNotify(j)
JobCancel == \E j \in Jobs : CancelLoad(j) \/ CancelStore(j) \/ CancelEngine(j)
Release   == \E j \in Jobs : JobRelease(j)
Load      == ModelLoad \/ ModelLoadFails
Loop      == \/ WorkerSleep \/ WorkerExit \/ WorkerPop
             \/ WorkerCheckCancel \/ WorkerStart
Run       == \/ RunThrows \/ RunRefused \/ RunCallsEngine
             \/ EngineReset \/ EngineStep
             \/ \E st \in {"OK", "CANCELLED", "FAILED"} : EngineReturn(st)
             \/ WorkerVerdict \/ ReportError \/ WriteThrows \/ WriteOutput
Finish    == \/ PublishSkipped \/ PublishCancelled
             \/ PublishFailed \/ PublishComplete
Unload    == \/ UnloadStop \/ UnloadCancelEngine \/ UnloadNotify
             \/ UnloadJoin \/ UnloadDelete

Next == Load \/ Submit \/ JobCancel \/ Release
        \/ Loop \/ WorkerSpuriousWake \/ Run \/ Finish \/ Unload

Spec == Init /\ [][Next]_vars

(* Threads that are inside a call, and the worker, keep running; nobody is *)
(* obliged to start a call or to wake a sleeping thread spuriously, and    *)
(* the engine need not make any particular choice.                         *)
Fairness ==
  /\ WF_vars(Loop \/ Run \/ Finish)
  /\ \A j \in Jobs : /\ WF_vars(SubmitNotify(j))
                     /\ WF_vars(CancelStore(j) \/ CancelEngine(j))
  /\ WF_vars(UnloadCancelEngine \/ UnloadNotify \/ UnloadJoin \/ UnloadDelete)

FairSpec == Spec /\ Fairness

-----------------------------------------------------------------------------
(* Safety.                                                                 *)

\* Every variable has its type: the queue holds jobs, the worker is at one of
\* the points of start_worker and run, the engine's steps stay in bounds.
TypeOK ==
  /\ stopping \in BOOLEAN
  /\ queue \in Seq(Jobs)
  /\ state \in [Jobs -> {"absent"} \cup Live \cup Terminal]
  /\ cancel \in [Jobs -> BOOLEAN]
  /\ written \in [Jobs -> BOOLEAN]
  /\ wpc \in FreePC \cup BusyPC
  /\ wjob \in Jobs \cup {NoJob}
  /\ wstatus \in {"OK", "CANCELLED", "FAILED"}
  /\ ecancel \in BOOLEAN
  /\ esteps \in 0..MaxSteps
  /\ struck \subseteq Jobs
  /\ lastError \in Jobs \cup {LoadError, NoError}
  /\ submitCall \in [Jobs -> {"idle", "pushed"}]
  /\ cancelCall \in [Jobs -> {"idle", "sawQueued", "sawRunning", "engine"}]
  /\ handle \in [Jobs -> {"none", "held", "released"}]
  /\ unload \in {"idle", "stopped", "cancelled", "notified", "joined",
                 "deleted"}
  /\ accepted \in Seq(Jobs)

\* query_capabilities promises maximum_in_flight_jobs = 2; submit's only check
\* is that the queue is empty.  However pops, cancels and submits interleave,
\* at most two accepted jobs are unfinished.
MaximumInFlightJobs == 2
InFlightBounded == Cardinality(InFlight) <= MaximumInFlightJobs

\* Jobs finish in the order submit accepted them, also those that are
\* cancelled while they wait: no job has a final state while an earlier one
\* has not.
FinishedInOrder ==
  \A k \in DOMAIN accepted : \A i \in 1..k :
    state[accepted[k]] \in Terminal => state[accepted[i]] \in Terminal

\* The host's output buffer holds a result exactly for the jobs that are
\* COMPLETE, or the one about to become so: a cancelled or failed job has not
\* touched its buffer, and a host that polls COMPLETE may read it.
OutputMatchesState ==
  \A j \in Jobs : written[j] <=>
    (state[j] = "COMPLETE" \/ (wpc = "publish" /\ wjob = j))

\* When model_unload frees the model, the worker has returned and every job
\* the model ever accepted has its final state.  Hence no later job_cancel
\* on a handle the host still holds reaches the freed model or engine.
DeletedModelQuiescent ==
  unload = "deleted" =>
    /\ wpc = "exited" /\ queue = <<>>
    /\ \A j \in Jobs : state[j] \notin Live

\* A job ends CANCELLED only if it was cancelled or the model is being unloaded,
\* or if it was in the engine at the very moment job_cancel, which had read RUNNING
\* for a job before it, got there.  A late cancel may hit the job that runs then;
\* it does not wait in the engine for one that runs later.
CancelledHasCause ==
  \A i \in DOMAIN accepted : state[accepted[i]] = "CANCELLED" =>
    \/ stopping \/ cancel[accepted[i]]
    \/ accepted[i] \in struck /\ \E k \in 1..(i - 1) : cancel[accepted[k]]

-----------------------------------------------------------------------------
(* Cancellation that arrived in time is honoured.                          *)

WaitsInQueue(j)  == state[j] = "QUEUED" /\ ~(wjob = j /\ wpc = "start")
BeforeVerdict(j) ==
  \/ state[j] = "QUEUED"
  \/ wjob = j /\ wpc \in {"run", "reset", "generate", "verdict"}

\* A job whose flag is set while it waits - by job_cancel or by stop_worker -
\* is never run.
CancelledWhileWaitingNeverRuns ==
  \A j \in Jobs : [](cancel[j] /\ WaitsInQueue(j) => [](state[j] # "RUNNING"))

\* A job whose flag is set before the worker looks at it after the engine
\* returned never becomes COMPLETE, even when Engine::cancel came too early
\* (and was erased) or too late to stop the operation.
CancelledBeforeVerdictNeverCompletes ==
  \A j \in Jobs : [](cancel[j] /\ BeforeVerdict(j) => [](state[j] # "COMPLETE"))

=============================================================================
