--------------------------- MODULE HarnessProofs ---------------------------
(***************************************************************************)
(* Proofs about Harness for any number of jobs and engine steps: its       *)
(* invariants, what a cancel in time does, and that it implements the      *)
(* two-slot service of JobService.                                         *)
(***************************************************************************)
EXTENDS HarnessRefinement, FiniteSetTheorems, TLAPS

-----------------------------------------------------------------------------
(* The inductive invariant.  Where a live job is depends on three actors:  *)
(* the queue holds at most one, which is QUEUED and not the worker's; the  *)
(* worker's job is QUEUED or RUNNING as its place in the code says; and    *)
(* no live job is anywhere else.                                           *)

QueueInv ==
  \/ queue = <<>>
  \/ \E q \in Jobs : queue = <<q>> /\ state[q] = "QUEUED" /\ q # wjob

WorkerInv ==
  /\ wpc \in FreePC    => wjob = NoJob
  /\ wpc \in PoppedPC  => wjob \in Jobs /\ state[wjob] = "QUEUED"
  /\ wpc \in RunningPC => wjob \in Jobs /\ state[wjob] = "RUNNING"

LiveInv == \A j \in Jobs : state[j] \in Live => j = wjob \/ queue = <<j>>

\* What the worker's place says of the unload and conversely.
UnloadInv ==
  /\ stopping <=> unload # "idle"
  /\ wpc = "off" => ~stopping /\ queue = <<>>
  /\ wpc = "exited" => stopping /\ queue = <<>>
  /\ unload \in {"joined", "deleted"} => wpc = "exited"

IInv == /\ TypeOK
        /\ QueueInv
        /\ WorkerInv
        /\ LiveInv
        /\ UnloadInv
        /\ OutputMatchesState

-----------------------------------------------------------------------------
(* Facts about sequences of one element.                                   *)

\* Appending to the empty queue, which is all submit ever does.
LEMMA AppendToEmpty ==
  ASSUME NEW S, NEW x \in S
  PROVE  Append(<<>>, x) = <<x>> /\ <<x>> \in Seq(S) /\ <<x>> # <<>>
OBVIOUS

\* Popping the only element.
LEMMA PopOnly ==
  ASSUME NEW S, NEW x \in S
  PROVE  Head(<<x>>) = x /\ Tail(<<x>>) = <<>>
OBVIOUS

\* Two one-element queues are equal when their elements are.
LEMMA SingletonInjective ==
  ASSUME NEW x, NEW y, <<x>> = <<y>>
  PROVE  x = y
OBVIOUS

-----------------------------------------------------------------------------

\* The initial state satisfies the invariant.
LEMMA InitIInv == Init => IInv
<1> SUFFICES ASSUME Init PROVE IInv
  OBVIOUS
<1>1. TypeOK
  <2>1. esteps \in 0..MaxSteps
    BY MaxStepsAssumption DEF Init
  <2>2. /\ state \in [Jobs -> {"absent"} \cup Live \cup Terminal]
        /\ cancel \in [Jobs -> BOOLEAN]
        /\ written \in [Jobs -> BOOLEAN]
        /\ handle \in [Jobs -> {"none", "held", "released"}]
    BY DEF Init
  <2>3. /\ submitCall \in [Jobs -> {"idle", "pushed"}]
        /\ cancelCall \in [Jobs -> {"idle", "sawQueued", "sawRunning", "engine"}]
    BY DEF Init
  <2>4. queue \in Seq(Jobs) /\ accepted \in Seq(Jobs)
    BY DEF Init
  <2>5. QED
    BY <2>1, <2>2, <2>3, <2>4 DEF Init, TypeOK, FreePC
<1>2. QueueInv
  BY DEF Init, QueueInv
<1>3. WorkerInv
  BY DEF Init, WorkerInv, FreePC, PoppedPC, RunningPC
<1>4. LiveInv
  BY DEF Init, LiveInv, Live
<1>5. UnloadInv
  BY DEF Init, UnloadInv
<1>6. OutputMatchesState
  BY DEF Init, OutputMatchesState
<1>7. QED
  BY <1>1, <1>2, <1>3, <1>4, <1>5, <1>6 DEF IInv

-----------------------------------------------------------------------------

\* No step takes a variable out of its type: g_last_error is about a job, since
\* the worker reports an error only while it has one.
LEMMA TypeOKStep == TypeOK /\ WorkerInv /\ [Next]_vars => TypeOK'
<1> SUFFICES ASSUME TypeOK, WorkerInv, [Next]_vars PROVE TypeOK'
  OBVIOUS
<1> USE DEF TypeOK, FreePC, BusyPC, PoppedPC, RunningPC, Live, Terminal,
            modelVars, jobVars, workerVars, engineVars, hostVars
<1>1. CASE ModelLoad
  BY <1>1 DEF ModelLoad
<1>2. CASE ModelLoadFails
  BY <1>2 DEF ModelLoadFails
<1>3. ASSUME NEW j \in Jobs, SubmitPush(j)
      PROVE  TypeOK'
  BY <1>3 DEF SubmitPush, CanEnqueue
<1>4. ASSUME NEW j \in Jobs, SubmitNotify(j)
      PROVE  TypeOK'
  BY <1>4 DEF SubmitNotify, WokenWorker
<1>5. ASSUME NEW j \in Jobs, CancelLoad(j)
      PROVE  TypeOK'
  BY <1>5 DEF CancelLoad
<1>6. ASSUME NEW j \in Jobs, CancelStore(j)
      PROVE  TypeOK'
  BY <1>6 DEF CancelStore
<1>7. ASSUME NEW j \in Jobs, CancelEngine(j)
      PROVE  TypeOK'
  BY <1>7 DEF CancelEngine, WorkerInv
<1>8. ASSUME NEW j \in Jobs, JobRelease(j)
      PROVE  TypeOK'
  BY <1>8 DEF JobRelease
<1>9. CASE WorkerSleep
  BY <1>9 DEF WorkerSleep
<1>10. CASE WorkerExit
  BY <1>10 DEF WorkerExit, MustExit
<1>11. CASE WorkerPop
  BY <1>11 DEF WorkerPop, MustExit
<1>12. CASE WorkerCheckCancel
  BY <1>12 DEF WorkerCheckCancel, AfterPop
<1>13. CASE WorkerStart
  BY <1>13 DEF WorkerStart
<1>14. CASE WorkerSpuriousWake
  BY <1>14 DEF WorkerSpuriousWake
<1>15. CASE RunThrows
  BY <1>15 DEF RunThrows
<1>16. CASE RunRefused
  BY <1>16 DEF RunRefused
<1>17. CASE RunCallsEngine
  BY <1>17 DEF RunCallsEngine
<1>18. CASE EngineReset
  <2>1. esteps' \in 0..MaxSteps
    BY <1>18, MaxStepsAssumption DEF EngineReset
  <2>2. QED
    BY <1>18, <2>1 DEF EngineReset
<1>19. CASE EngineStep
  BY <1>19, MaxStepsAssumption DEF EngineStep, MoreSteps
<1>20. ASSUME NEW st \in {"OK", "CANCELLED", "FAILED"}, EngineReturn(st)
      PROVE  TypeOK'
  BY <1>20 DEF EngineReturn
<1>21. CASE WorkerVerdict
  <2>1. wpc' \in {"drop", "report", "write"}
    BY <1>21 DEF WorkerVerdict, AfterEngine
  <2>2. QED
    BY <1>21, <2>1 DEF WorkerVerdict
<1>22. CASE ReportError
  BY <1>22 DEF ReportError, WorkerInv
<1>23. CASE WriteThrows
  BY <1>23 DEF WriteThrows
<1>24. CASE WriteOutput
  BY <1>24 DEF WriteOutput
<1>25. CASE PublishSkipped
  BY <1>25 DEF PublishSkipped, Publish
<1>26. CASE PublishCancelled
  BY <1>26 DEF PublishCancelled, Publish
<1>27. CASE PublishFailed
  BY <1>27 DEF PublishFailed, Publish
<1>28. CASE PublishComplete
  BY <1>28 DEF PublishComplete, Publish
<1>29. CASE UnloadStop
  BY <1>29 DEF UnloadStop, InQueue
<1>30. CASE UnloadCancelEngine
  BY <1>30 DEF UnloadCancelEngine
<1>31. CASE UnloadNotify
  BY <1>31 DEF UnloadNotify, WokenWorker
<1>32. CASE UnloadJoin
  BY <1>32 DEF UnloadJoin
<1>33. CASE UnloadDelete
  BY <1>33 DEF UnloadDelete
<1>34. CASE UNCHANGED vars
  BY <1>34 DEF vars
<1>35. QED
  BY <1>1, <1>2, <1>3, <1>4, <1>5, <1>6, <1>7, <1>8, <1>9, <1>10,
     <1>11, <1>12, <1>13, <1>14, <1>15, <1>16, <1>17, <1>18, <1>19,
     <1>20, <1>21, <1>22, <1>23, <1>24, <1>25, <1>26, <1>27, <1>28,
     <1>29, <1>30, <1>31, <1>32, <1>33, <1>34 DEF Next, Load,
     Submit, JobCancel, Release, Loop, Run, Finish, Unload

\* The other parts only hold together: each relates the queue, the worker and
\* the state of a job, and most steps change two of the three.
Placement == QueueInv /\ WorkerInv /\ LiveInv /\ UnloadInv /\ OutputMatchesState

LEMMA PlacementStep == IInv /\ [Next]_vars => Placement'
<1> SUFFICES ASSUME IInv, [Next]_vars PROVE Placement'
  OBVIOUS
<1> USE DEF IInv, TypeOK, Placement, QueueInv, WorkerInv, LiveInv, UnloadInv,
            OutputMatchesState, FreePC, BusyPC, PoppedPC, RunningPC, Live,
            Terminal, modelVars, jobVars, workerVars, engineVars, hostVars
<1>1. CASE ModelLoad
  BY <1>1 DEF ModelLoad
<1>2. CASE ModelLoadFails
  BY <1>2 DEF ModelLoadFails
<1>3. ASSUME NEW j \in Jobs, SubmitPush(j)
      PROVE  Placement'
  BY <1>3, JobsAssumption, AppendToEmpty, SingletonInjective DEF SubmitPush, CanEnqueue
<1>4. ASSUME NEW j \in Jobs, SubmitNotify(j)
      PROVE  Placement'
  BY <1>4 DEF SubmitNotify, WokenWorker
<1>5. ASSUME NEW j \in Jobs, CancelLoad(j)
      PROVE  Placement'
  BY <1>5 DEF CancelLoad
<1>6. ASSUME NEW j \in Jobs, CancelStore(j)
      PROVE  Placement'
  BY <1>6 DEF CancelStore
<1>7. ASSUME NEW j \in Jobs, CancelEngine(j)
      PROVE  Placement'
  BY <1>7 DEF CancelEngine
<1>8. ASSUME NEW j \in Jobs, JobRelease(j)
      PROVE  Placement'
  BY <1>8 DEF JobRelease
<1>9. CASE WorkerSleep
  BY <1>9 DEF WorkerSleep
<1>10. CASE WorkerExit
  BY <1>10 DEF WorkerExit, MustExit
<1>11. CASE WorkerPop
  BY <1>11, JobsAssumption, PopOnly, SingletonInjective DEF WorkerPop, MustExit
<1>12. CASE WorkerCheckCancel
  BY <1>12 DEF WorkerCheckCancel, AfterPop
<1>13. CASE WorkerStart
  BY <1>13 DEF WorkerStart
<1>14. CASE WorkerSpuriousWake
  BY <1>14 DEF WorkerSpuriousWake
<1>15. CASE RunThrows
  BY <1>15 DEF RunThrows
<1>16. CASE RunRefused
  BY <1>16 DEF RunRefused
<1>17. CASE RunCallsEngine
  BY <1>17 DEF RunCallsEngine
<1>18. CASE EngineReset
  BY <1>18 DEF EngineReset
<1>19. CASE EngineStep
  BY <1>19 DEF EngineStep, MoreSteps
<1>20. ASSUME NEW st \in {"OK", "CANCELLED", "FAILED"}, EngineReturn(st)
      PROVE  Placement'
  BY <1>20 DEF EngineReturn
<1>21. CASE WorkerVerdict
  BY <1>21 DEF WorkerVerdict, AfterEngine
<1>22. CASE ReportError
  BY <1>22 DEF ReportError
<1>23. CASE WriteThrows
  BY <1>23 DEF WriteThrows
<1>24. CASE WriteOutput
  BY <1>24 DEF WriteOutput
<1>25. CASE PublishSkipped
  BY <1>25, JobsAssumption DEF PublishSkipped, Publish
<1>26. CASE PublishCancelled
  BY <1>26, JobsAssumption DEF PublishCancelled, Publish
<1>27. CASE PublishFailed
  BY <1>27, JobsAssumption DEF PublishFailed, Publish
<1>28. CASE PublishComplete
  BY <1>28, JobsAssumption DEF PublishComplete, Publish
<1>29. CASE UnloadStop
  BY <1>29 DEF UnloadStop, InQueue
<1>30. CASE UnloadCancelEngine
  BY <1>30 DEF UnloadCancelEngine
<1>31. CASE UnloadNotify
  BY <1>31 DEF UnloadNotify, WokenWorker
<1>32. CASE UnloadJoin
  BY <1>32 DEF UnloadJoin
<1>33. CASE UnloadDelete
  BY <1>33 DEF UnloadDelete
<1>34. CASE UNCHANGED vars
  BY <1>34 DEF vars
<1>35. QED
  BY <1>1, <1>2, <1>3, <1>4, <1>5, <1>6, <1>7, <1>8, <1>9, <1>10,
     <1>11, <1>12, <1>13, <1>14, <1>15, <1>16, <1>17, <1>18, <1>19,
     <1>20, <1>21, <1>22, <1>23, <1>24, <1>25, <1>26, <1>27, <1>28,
     <1>29, <1>30, <1>31, <1>32, <1>33, <1>34 DEF Next, Load,
     Submit, JobCancel, Release, Loop, Run, Finish, Unload

-----------------------------------------------------------------------------
(* The theorems.                                                           *)

\* The queue, the worker, the unload and the states of the jobs always fit.
THEOREM InvariantHolds == Spec => []IInv
<1>1. IInv /\ [Next]_vars => IInv'
  BY TypeOKStep, PlacementStep DEF IInv, Placement
<1>2. QED
  BY InitIInv, <1>1, PTL DEF Spec

\* Every variable keeps its type in every behaviour of the harness.
THEOREM TypeCorrect == Spec => []TypeOK
<1>1. IInv => TypeOK
  BY DEF IInv
<1>2. QED
  BY <1>1, InvariantHolds, PTL

\* At most two jobs are unfinished, as query_capabilities says: the job of the
\* worker and the one in the queue are all there can be.
THEOREM InFlightIsBounded == Spec => []InFlightBounded
<1>1. ASSUME IInv PROVE InFlightBounded
  <2>1. PICK q : InFlight \subseteq {wjob, q}
    <3>1. CASE queue = <<>>
      BY <1>1, <3>1 DEF IInv, LiveInv, InFlight
    <3>2. CASE queue # <<>>
      <4>1. PICK p \in Jobs : queue = <<p>>
        BY <1>1, <3>2 DEF IInv, QueueInv
      <4>2. \A j \in InFlight : j = wjob \/ j = p
        BY <1>1, <4>1, SingletonInjective DEF IInv, LiveInv, InFlight
      <4>3. QED
        BY <4>2
    <3>3. QED
      BY <3>1, <3>2
  <2>2. IsFiniteSet({wjob, q}) /\ Cardinality({wjob, q}) <= 2
    <3>1. IsFiniteSet({wjob}) /\ Cardinality({wjob}) = 1
      BY FS_Singleton
    <3>2. {wjob, q} = {wjob} \cup {q}
      OBVIOUS
    <3>3. /\ IsFiniteSet({wjob} \cup {q})
          /\ \/ Cardinality({wjob} \cup {q}) = Cardinality({wjob})
             \/ Cardinality({wjob} \cup {q}) = Cardinality({wjob}) + 1
      BY <3>1, FS_AddElement
    <3>4. QED
      BY <3>1, <3>2, <3>3
  <2>3. Cardinality(InFlight) <= Cardinality({wjob, q})
    BY <2>1, <2>2, FS_Subset
  <2>4. Cardinality(InFlight) \in Nat /\ Cardinality({wjob, q}) \in Nat
    BY <2>1, <2>2, FS_Subset, FS_CardinalityType
  <2>5. QED
    BY <2>2, <2>3, <2>4 DEF InFlightBounded, MaximumInFlightJobs
<1>2. QED
  BY <1>1, InvariantHolds, PTL

\* The host's buffer holds a result exactly when the job is, or is about to be,
\* COMPLETE: write_job_output is followed by the store of COMPLETE and by
\* nothing else, and nothing overwrites a final state.
THEOREM OutputIsOfCompleteJobs == Spec => []OutputMatchesState
<1>1. IInv => OutputMatchesState
  BY DEF IInv
<1>2. QED
  BY <1>1, InvariantHolds, PTL

\* When model_unload frees the model every accepted job is final and the worker
\* has returned, so neither it nor a later job_cancel touches freed memory.
THEOREM DeletedModelIsQuiescent == Spec => []DeletedModelQuiescent
<1>1. ASSUME IInv, unload = "deleted"
      PROVE  wpc = "exited" /\ queue = <<>> /\ \A j \in Jobs : state[j] \notin Live
  <2>1. wpc = "exited" /\ queue = <<>> /\ wjob = NoJob
    BY <1>1 DEF IInv, UnloadInv, WorkerInv, FreePC
  <2>2. ASSUME NEW j \in Jobs PROVE state[j] \notin Live
    BY <1>1, <2>1, JobsAssumption DEF IInv, LiveInv
  <2>3. QED
    BY <2>1, <2>2
<1>2. IInv => DeletedModelQuiescent
  BY <1>1 DEF DeletedModelQuiescent
<1>3. QED
  BY <1>2, InvariantHolds, PTL

-----------------------------------------------------------------------------
(* The order of the jobs, and the causes of their cancellation.  A job     *)
(* that is CANCELLED may never have been asked to be: the cancel was for   *)
(* an earlier one and reached the engine late.  So the invariant follows   *)
(* a cancel from the host's call through the engine to the verdict.        *)

\* The jobs that have been submitted are the accepted ones, each once.
AcceptedInv ==
  /\ \A j \in Jobs : state[j] # "absent" <=> \E i \in DOMAIN accepted : accepted[i] = j
  /\ \A i, k \in DOMAIN accepted : accepted[i] = accepted[k] => i = k

\* Everything before the worker's job is done with.
TurnInv ==
  \A k \in DOMAIN accepted : accepted[k] = wjob =>
    \A i \in 1..(k - 1) : state[accepted[i]] \in Terminal

Started(j) == state[j] \notin {"absent", "QUEUED"}

\* A reason for the engine to be cancelled: the unload, or a cancel of a job
\* that had its turn.
CauseSeen ==
  stopping \/ \E k \in DOMAIN accepted : cancel[accepted[k]] /\ Started(accepted[k])

\* Where a cancel has got to, there was a reason for it.
CauseInv ==
  /\ \A j \in Jobs : /\ cancelCall[j] \in {"sawRunning", "engine"} => Started(j)
                     /\ cancelCall[j] = "engine" => cancel[j]
  /\ ecancel => CauseSeen
  /\ wpc = "verdict" /\ wstatus = "CANCELLED" => CauseSeen
  /\ wpc = "drop" => CauseSeen
  /\ wpc = "skip" => cancel[wjob]

OrderInv   == AcceptedInv /\ TurnInv /\ FinishedInOrder

\* The cause of a job that is CANCELLED lies with it or with a job before it.
CauseBefore ==
  \A i \in DOMAIN accepted : state[accepted[i]] = "CANCELLED" =>
    stopping \/ \E k \in 1..i : cancel[accepted[k]]

HistoryInv == OrderInv /\ CauseInv /\ CauseBefore

\* What a step does to the order of the jobs, if it does anything.
OrderStep ==
  \/ UNCHANGED <<state, wjob, accepted>>
  \/ \E j \in Jobs : /\ state[j] = "absent" /\ wjob' = wjob
                     /\ state' = [state EXCEPT ![j] = "QUEUED"]
                     /\ accepted' = Append(accepted, j)
  \/ wpc = "lock" /\ queue # <<>> /\ wjob' = Head(queue) /\ UNCHANGED <<state, accepted>>
  \/ /\ wpc = "start" /\ UNCHANGED <<wjob, accepted>>
     /\ state' = [state EXCEPT ![wjob] = "RUNNING"]
  \/ \E st \in Terminal :
       /\ wpc \in {"skip", "drop", "failed", "publish"} /\ wjob' = NoJob
       /\ st = "CANCELLED" => wpc \in {"skip", "drop"}
       /\ state' = [state EXCEPT ![wjob] = st] /\ UNCHANGED accepted

LEMMA EveryOrderStep == [Next]_vars => OrderStep
<1> SUFFICES ASSUME [Next]_vars PROVE OrderStep
  OBVIOUS
<1> USE DEF OrderStep, Terminal, modelVars, jobVars, workerVars, engineVars, hostVars
<1>1. CASE Load
  BY <1>1 DEF Load, ModelLoad, ModelLoadFails
<1>2. CASE Submit
  BY <1>2 DEF Submit, SubmitPush, SubmitNotify
<1>3. CASE JobCancel \/ Release
  BY <1>3 DEF JobCancel, CancelLoad, CancelStore, CancelEngine, Release, JobRelease
<1>4. CASE Loop \/ WorkerSpuriousWake
  BY <1>4 DEF Loop, WorkerSleep, WorkerExit, WorkerPop, WorkerCheckCancel,
              WorkerStart, WorkerSpuriousWake
<1>5. CASE Run
  BY <1>5 DEF Run, RunThrows, RunRefused, RunCallsEngine, EngineReset, EngineStep,
              EngineReturn, WorkerVerdict, ReportError, WriteThrows, WriteOutput
<1>6. CASE Finish
  BY <1>6 DEF Finish, PublishSkipped, PublishCancelled, PublishFailed,
              PublishComplete, Publish
<1>7. CASE Unload
  BY <1>7 DEF Unload, UnloadStop, UnloadCancelEngine, UnloadNotify, UnloadJoin,
              UnloadDelete
<1>8. CASE UNCHANGED vars
  BY <1>8 DEF vars
<1> QED BY <1>1, <1>2, <1>3, <1>4, <1>5, <1>6, <1>7, <1>8 DEF Next

\* A job that appends itself to the accepted ones is the last of them.
LEMMA AppendAccepted ==
  ASSUME NEW S, NEW s \in Seq(S), NEW x \in S
  PROVE  /\ Len(Append(s, x)) = Len(s) + 1
         /\ DOMAIN Append(s, x) = 1..(Len(s) + 1)
         /\ DOMAIN s = 1..Len(s) /\ Len(s) \in Nat
         /\ Append(s, x)[Len(s) + 1] = x
         /\ \A i \in 1..Len(s) : Append(s, x)[i] = s[i] /\ s[i] \in S
OBVIOUS

\* Jobs are accepted and finished in one order.
LEMMA OrderInvStep == IInv /\ OrderInv /\ OrderStep => OrderInv'
<1> SUFFICES ASSUME IInv, OrderInv, OrderStep PROVE OrderInv'
  OBVIOUS
<1>0. accepted \in Seq(Jobs) /\ DOMAIN accepted = 1..Len(accepted) /\ Len(accepted) \in Nat
  BY DEF IInv, TypeOK
<1>1. \A i \in DOMAIN accepted : accepted[i] \in Jobs /\ state[accepted[i]] # "absent"
  BY <1>0 DEF OrderInv, AcceptedInv
<1>2. CASE UNCHANGED <<state, wjob, accepted>>
  BY <1>2 DEF OrderInv, AcceptedInv, TurnInv, FinishedInOrder
<1>3. ASSUME NEW j \in Jobs, state[j] = "absent", wjob' = wjob,
             state' = [state EXCEPT ![j] = "QUEUED"], accepted' = Append(accepted, j)
      PROVE  OrderInv'
  <2>1. /\ DOMAIN accepted' = 1..(Len(accepted) + 1)
        /\ accepted'[Len(accepted) + 1] = j
        /\ \A i \in 1..Len(accepted) : accepted'[i] = accepted[i] /\ accepted[i] # j
    BY <1>0, <1>1, <1>3, AppendAccepted
  <2>2. wjob # j
    BY <1>3, JobsAssumption DEF IInv, TypeOK, WorkerInv, FreePC, BusyPC, PoppedPC, RunningPC
  <2>3. state'[j] = "QUEUED" /\ \A i \in 1..Len(accepted) : state'[accepted[i]] = state[accepted[i]]
    BY <1>0, <1>1, <1>3, <2>1 DEF IInv, TypeOK
  <2>4. AcceptedInv'
    <3>1. \A h \in Jobs : state'[h] # "absent" <=> \E i \in DOMAIN accepted' : accepted'[i] = h
      <4> SUFFICES ASSUME NEW h \in Jobs
                   PROVE  state'[h] # "absent" <=> \E i \in DOMAIN accepted' : accepted'[i] = h
        OBVIOUS
      <4>1. CASE h = j
        BY <1>0, <2>1, <2>3, <4>1
      <4>2. CASE h # j
        <5>1. state'[h] = state[h]
          BY <1>3, <4>2 DEF IInv, TypeOK
        <5>2. (\E i \in DOMAIN accepted' : accepted'[i] = h)
                <=> \E i \in DOMAIN accepted : accepted[i] = h
          BY <1>0, <2>1, <4>2
        <5> QED BY <5>1, <5>2 DEF OrderInv, AcceptedInv
      <4> QED BY <4>1, <4>2
    <3>2. \A i, k \in DOMAIN accepted' : accepted'[i] = accepted'[k] => i = k
      BY <1>0, <2>1 DEF OrderInv, AcceptedInv
    <3> QED BY <3>1, <3>2 DEF AcceptedInv
  <2>5. TurnInv'
    <3> SUFFICES ASSUME NEW k \in DOMAIN accepted', accepted'[k] = wjob,
                        NEW i \in 1..(k - 1)
                 PROVE  state'[accepted'[i]] \in Terminal
      BY <1>3 DEF TurnInv
    <3>1. k \in 1..Len(accepted) /\ i \in 1..Len(accepted)
      BY <1>0, <2>1, <2>2
    <3> QED BY <1>0, <2>1, <2>3, <3>1 DEF OrderInv, TurnInv
  <2>6. FinishedInOrder'
    <3> SUFFICES ASSUME NEW k \in DOMAIN accepted', NEW i \in 1..k,
                        state'[accepted'[k]] \in Terminal
                 PROVE  state'[accepted'[i]] \in Terminal
      BY DEF FinishedInOrder
    <3>1. k \in 1..Len(accepted) /\ i \in 1..Len(accepted)
      BY <1>0, <2>1, <2>3 DEF Terminal
    <3> QED BY <1>0, <2>1, <2>3, <3>1 DEF OrderInv, FinishedInOrder
  <2> QED BY <2>4, <2>5, <2>6 DEF OrderInv
<1>4. CASE wpc = "lock" /\ queue # <<>> /\ wjob' = Head(queue) /\ UNCHANGED <<state, accepted>>
  <2>1. PICK q \in Jobs : queue = <<q>> /\ state[q] = "QUEUED"
    BY <1>4 DEF IInv, QueueInv
  <2>2. wjob' = q /\ wjob = NoJob
    BY <1>4, <2>1, PopOnly DEF IInv, WorkerInv, FreePC
  <2>3. \A j \in Jobs : j # q => state[j] \notin Live
    BY <2>1, <2>2, JobsAssumption, SingletonInjective DEF IInv, LiveInv
  <2>4. TurnInv'
    <3> SUFFICES ASSUME NEW k \in DOMAIN accepted, accepted[k] = q, NEW i \in 1..(k - 1)
                 PROVE  state[accepted[i]] \in Terminal
      BY <1>4, <2>2 DEF TurnInv
    <3>1. i \in DOMAIN accepted /\ i # k
      BY <1>0
    <3>2. accepted[i] # q
      BY <3>1 DEF OrderInv, AcceptedInv
    <3> QED BY <1>1, <2>3, <3>1, <3>2 DEF IInv, TypeOK, Live, Terminal
  <2> QED BY <1>4, <2>4 DEF OrderInv, AcceptedInv, FinishedInOrder
<1>5. CASE /\ wpc = "start" /\ UNCHANGED <<wjob, accepted>>
           /\ state' = [state EXCEPT ![wjob] = "RUNNING"]
  <2>1. wjob \in Jobs /\ state[wjob] = "QUEUED"
    BY <1>5 DEF IInv, WorkerInv, PoppedPC
  <2>2. \A j \in Jobs : state'[j] = IF j = wjob THEN "RUNNING" ELSE state[j]
    BY <1>5, <2>1 DEF IInv, TypeOK
  <2>3. \A j \in Jobs : /\ state'[j] \in Terminal <=> state[j] \in Terminal
                        /\ state'[j] = "absent" <=> state[j] = "absent"
    BY <2>1, <2>2 DEF Terminal
  <2>4. AcceptedInv'
    BY <1>5, <2>3 DEF OrderInv, AcceptedInv
  <2>5. TurnInv'
    <3> SUFFICES ASSUME NEW k \in DOMAIN accepted, accepted[k] = wjob, NEW i \in 1..(k - 1)
                 PROVE  state'[accepted[i]] \in Terminal
      BY <1>5 DEF TurnInv
    <3>1. i \in DOMAIN accepted
      BY <1>0
    <3>2. state[accepted[i]] \in Terminal
      BY DEF OrderInv, TurnInv
    <3> QED BY <1>1, <2>3, <3>1, <3>2
  <2>6. FinishedInOrder'
    <3> SUFFICES ASSUME NEW k \in DOMAIN accepted, NEW i \in 1..k,
                        state'[accepted[k]] \in Terminal
                 PROVE  state'[accepted[i]] \in Terminal
      BY <1>5 DEF FinishedInOrder
    <3>1. i \in DOMAIN accepted
      BY <1>0
    <3>2. state[accepted[k]] \in Terminal
      BY <1>1, <2>3
    <3>3. state[accepted[i]] \in Terminal
      BY <3>2 DEF OrderInv, FinishedInOrder
    <3> QED BY <1>1, <2>3, <3>1, <3>3
  <2> QED BY <2>4, <2>5, <2>6 DEF OrderInv
<1>6. ASSUME NEW st \in Terminal, wpc \in {"skip", "drop", "failed", "publish"},
             wjob' = NoJob, state' = [state EXCEPT ![wjob] = st], UNCHANGED accepted
      PROVE  OrderInv'
  <2>1. wjob \in Jobs /\ state[wjob] \in Live
    BY <1>6 DEF IInv, WorkerInv, PoppedPC, RunningPC, Live
  <2>2. \A j \in Jobs : state'[j] = IF j = wjob THEN st ELSE state[j]
    BY <1>6, <2>1 DEF IInv, TypeOK
  <2>3. TurnInv'
    BY <1>1, <1>6, JobsAssumption DEF TurnInv
  <2>4. AcceptedInv'
    BY <1>6, <2>1, <2>2 DEF OrderInv, AcceptedInv, Live, Terminal
  <2>5. FinishedInOrder'
    <3> SUFFICES ASSUME NEW k \in DOMAIN accepted, NEW i \in 1..k,
                        state'[accepted[k]] \in Terminal
                 PROVE  state'[accepted[i]] \in Terminal
      BY <1>6 DEF FinishedInOrder
    <3>1. i \in DOMAIN accepted
      BY <1>0
    <3>2. CASE accepted[k] = wjob
      <4>1. i = k \/ state[accepted[i]] \in Terminal
        BY <1>0, <3>2 DEF OrderInv, TurnInv
      <4> QED BY <1>1, <2>2, <3>1, <3>2, <4>1
    <3>3. CASE accepted[k] # wjob
      <4>1. state[accepted[i]] \in Terminal
        BY <1>1, <2>2, <3>3 DEF OrderInv, FinishedInOrder
      <4> QED BY <1>1, <2>2, <3>1, <4>1
    <3> QED BY <3>2, <3>3
  <2> QED BY <2>3, <2>4, <2>5 DEF OrderInv
<1> QED BY <1>2, <1>3, <1>4, <1>5, <1>6 DEF OrderStep

-----------------------------------------------------------------------------
(* The causes.                                                             *)

\* What is a reason to cancel stays one: flags are only ever set, a job that
\* had its turn keeps having had it, and accepted only grows.
CausesRemain ==
  /\ stopping => stopping'
  /\ \A j \in Jobs : (cancel[j] => cancel'[j]) /\ (Started(j) => Started(j)')
  /\ \A k \in DOMAIN accepted :
       k \in DOMAIN accepted' /\ accepted'[k] = accepted[k] /\ accepted[k] \in Jobs

\* How a cancel moves on, if the step moves one at all.
CauseStep ==
  /\ \A j \in Jobs :
       /\ cancelCall'[j] = "sawRunning" => cancelCall[j] = "sawRunning" \/ state[j] = "RUNNING"
       /\ cancelCall'[j] = "engine" =>
            \/ cancelCall[j] = "engine"
            \/ cancelCall[j] = "sawRunning" /\ cancel'[j]
  /\ ecancel' => \/ ecancel
                 \/ unload = "stopped"
                 \/ \E j \in Jobs : cancelCall[j] = "engine"
  /\ wpc' = "verdict" /\ wstatus' = "CANCELLED" =>
       ecancel \/ (wpc = "verdict" /\ wstatus = "CANCELLED")
  /\ wpc' = "drop" => \/ wpc = "drop"
                      \/ wpc = "verdict" /\ (cancel[wjob] \/ wstatus = "CANCELLED")
  /\ wpc' = "skip" => wjob' = wjob /\ (wpc = "skip" \/ (wpc = "popped" /\ cancel[wjob]))

LEMMA EveryStepKeepsFlags ==
  TypeOK /\ [Next]_vars =>
    (stopping => stopping') /\ \A j \in Jobs : cancel[j] => cancel'[j]
<1> SUFFICES ASSUME TypeOK, [Next]_vars
             PROVE  (stopping => stopping') /\ \A j \in Jobs : cancel[j] => cancel'[j]
  OBVIOUS
<1> USE DEF modelVars, jobVars, workerVars, engineVars, hostVars
<1>1. CASE Load
  BY <1>1 DEF Load, ModelLoad, ModelLoadFails
<1>2. CASE Submit
  BY <1>2 DEF Submit, SubmitPush, SubmitNotify
<1>3. CASE JobCancel \/ Release
  BY <1>3 DEF JobCancel, CancelLoad, CancelStore, CancelEngine, Release, JobRelease, TypeOK
<1>4. CASE Loop \/ WorkerSpuriousWake
  BY <1>4 DEF Loop, WorkerSleep, WorkerExit, WorkerPop, WorkerCheckCancel,
              WorkerStart, WorkerSpuriousWake
<1>5. CASE Run
  BY <1>5 DEF Run, RunThrows, RunRefused, RunCallsEngine, EngineReset, EngineStep,
              EngineReturn, WorkerVerdict, ReportError, WriteThrows, WriteOutput
<1>6. CASE Finish
  BY <1>6 DEF Finish, PublishSkipped, PublishCancelled, PublishFailed,
              PublishComplete, Publish
<1>7. CASE UnloadStop
  <2>1. \A j \in Jobs : cancel'[j] = (cancel[j] \/ InQueue(j))
    BY <1>7 DEF UnloadStop
  <2> QED BY <1>7, <2>1, Zenon DEF UnloadStop
<1>8. CASE UnloadCancelEngine \/ UnloadNotify \/ UnloadJoin \/ UnloadDelete
  BY <1>8 DEF UnloadCancelEngine, UnloadNotify, UnloadJoin, UnloadDelete
<1>9. CASE UNCHANGED vars
  BY <1>9 DEF vars
<1> QED BY <1>1, <1>2, <1>3, <1>4, <1>5, <1>6, <1>7, <1>8, <1>9 DEF Next, Unload

LEMMA EveryCauseStep == TypeOK /\ [Next]_vars => CauseStep
<1> SUFFICES ASSUME TypeOK, [Next]_vars PROVE CauseStep
  OBVIOUS
<1> USE DEF CauseStep, modelVars, jobVars, workerVars, engineVars, hostVars
<1>1. CASE Load
  BY <1>1 DEF Load, ModelLoad, ModelLoadFails
<1>2. CASE Submit
  BY <1>2 DEF Submit, SubmitPush, SubmitNotify, WokenWorker
<1>3. ASSUME NEW j \in Jobs, CancelLoad(j)
      PROVE  CauseStep
  BY <1>3 DEF CancelLoad, TypeOK
<1>4. ASSUME NEW j \in Jobs, CancelStore(j)
      PROVE  CauseStep
  BY <1>4 DEF CancelStore, TypeOK
<1>5. ASSUME NEW j \in Jobs, CancelEngine(j)
      PROVE  CauseStep
  BY <1>5 DEF CancelEngine, TypeOK
<1>6. CASE Release
  BY <1>6 DEF Release, JobRelease
<1>7. CASE Loop \/ WorkerSpuriousWake
  BY <1>7 DEF Loop, WorkerSleep, WorkerExit, WorkerPop, WorkerCheckCancel, AfterPop,
              WorkerStart, WorkerSpuriousWake
<1>8. CASE RunThrows \/ RunRefused \/ RunCallsEngine \/ EngineReset \/ EngineStep
  BY <1>8 DEF RunThrows, RunRefused, RunCallsEngine, EngineReset, EngineStep
<1>9. ASSUME NEW st \in {"OK", "CANCELLED", "FAILED"}, EngineReturn(st)
      PROVE  CauseStep
  BY <1>9 DEF EngineReturn, Returnable
<1>10. CASE WorkerVerdict
  BY <1>10 DEF WorkerVerdict, AfterEngine
<1>11. CASE ReportError \/ WriteThrows \/ WriteOutput
  BY <1>11 DEF ReportError, WriteThrows, WriteOutput
<1>12. CASE Finish
  BY <1>12 DEF Finish, PublishSkipped, PublishCancelled, PublishFailed,
               PublishComplete, Publish
<1>13. CASE Unload
  BY <1>13 DEF Unload, UnloadStop, UnloadCancelEngine, UnloadNotify, WokenWorker,
               UnloadJoin, UnloadDelete
<1>14. CASE UNCHANGED vars
  BY <1>14 DEF vars
<1> QED BY <1>1, <1>2, <1>3, <1>4, <1>5, <1>6, <1>7, <1>8, <1>9, <1>10, <1>11,
           <1>12, <1>13, <1>14 DEF Next, JobCancel, Run

LEMMA EveryStepKeepsCauses == IInv /\ OrderInv /\ [Next]_vars => CausesRemain
<1> SUFFICES ASSUME IInv, OrderInv, [Next]_vars PROVE CausesRemain
  OBVIOUS
<1>1. OrderStep
  BY EveryOrderStep
<1>2. (stopping => stopping') /\ \A j \in Jobs : cancel[j] => cancel'[j]
  BY EveryStepKeepsFlags DEF IInv
<1>3. ASSUME NEW j \in Jobs, Started(j)
      PROVE  Started(j)'
  <2>1. wpc = "start" => state[wjob] = "QUEUED" /\ wjob \in Jobs
    BY DEF IInv, WorkerInv, PoppedPC
  <2> QED BY <1>1, <1>3, <2>1 DEF OrderStep, Started, Terminal, IInv, TypeOK
<1>4. ASSUME NEW k \in DOMAIN accepted
      PROVE  k \in DOMAIN accepted' /\ accepted'[k] = accepted[k] /\ accepted[k] \in Jobs
  <2>1. accepted \in Seq(Jobs)
    BY DEF IInv, TypeOK
  <2>2. CASE UNCHANGED accepted
    BY <1>4, <2>1, <2>2
  <2>3. ASSUME NEW j \in Jobs, accepted' = Append(accepted, j)
        PROVE  k \in DOMAIN accepted' /\ accepted'[k] = accepted[k] /\ accepted[k] \in Jobs
    BY <1>4, <2>1, <2>3, AppendAccepted
  <2> QED BY <1>1, <2>2, <2>3 DEF OrderStep
<1> QED BY <1>2, <1>3, <1>4 DEF CausesRemain

\* A job whose flag is set and that had its turn is a reason.
LEMMA StartedIsCause ==
  ASSUME AcceptedInv, NEW j \in Jobs, cancel[j], Started(j)
  PROVE  CauseSeen
BY DEF AcceptedInv, Started, CauseSeen

LEMMA CauseInvStep ==
  IInv /\ OrderInv /\ CauseInv /\ CauseStep /\ CausesRemain => CauseInv'
<1> SUFFICES ASSUME IInv, OrderInv, CauseInv, CauseStep, CausesRemain PROVE CauseInv'
  OBVIOUS
<1>1. CauseSeen => CauseSeen'
  BY DEF CauseSeen, CausesRemain
<1>2. ASSUME NEW j \in Jobs
      PROVE  /\ cancelCall'[j] \in {"sawRunning", "engine"} => Started(j)'
             /\ cancelCall'[j] = "engine" => cancel'[j]
  <2>1. cancelCall'[j] \in {"sawRunning", "engine"} => Started(j)
    BY DEF CauseInv, CauseStep, Started
  <2> QED BY <2>1 DEF CauseInv, CauseStep, CausesRemain
<1>3. ecancel' => CauseSeen
  <2>1. unload = "stopped" => CauseSeen
    BY DEF IInv, UnloadInv, CauseSeen
  <2>2. ASSUME NEW j \in Jobs, cancelCall[j] = "engine"
        PROVE  CauseSeen
    BY <2>2, StartedIsCause DEF CauseInv, OrderInv
  <2> QED BY <2>1, <2>2 DEF CauseStep, CauseInv
<1>4. wpc' = "verdict" /\ wstatus' = "CANCELLED" => CauseSeen
  BY DEF CauseStep, CauseInv
<1>5. wpc' = "drop" => CauseSeen
  <2>1. wpc = "verdict" => wjob \in Jobs /\ Started(wjob)
    BY DEF IInv, WorkerInv, RunningPC, Started
  <2>2. wpc = "verdict" /\ cancel[wjob] => CauseSeen
    BY <2>1, StartedIsCause DEF OrderInv
  <2> QED BY <2>2 DEF CauseStep, CauseInv
<1>6. wpc' = "skip" => cancel'[wjob']
  <2>1. wpc' = "skip" => wjob' = wjob /\ cancel[wjob]
    BY DEF CauseStep, CauseInv
  <2>2. wpc' = "skip" => wjob \in Jobs
    BY <2>1 DEF CauseStep, IInv, WorkerInv, PoppedPC
  <2> QED BY <2>1, <2>2 DEF CausesRemain
<1> QED BY <1>1, <1>2, <1>3, <1>4, <1>5, <1>6 DEF CauseInv

\* A job that becomes CANCELLED has its cause among the jobs before it: of the
\* later ones none has had its turn.
LEMMA CauseBeforeStep ==
  IInv /\ HistoryInv /\ OrderStep /\ CausesRemain => CauseBefore'
<1> SUFFICES ASSUME IInv, HistoryInv, OrderStep, CausesRemain, ~stopping',
                    NEW i \in DOMAIN accepted', state'[accepted'[i]] = "CANCELLED"
             PROVE  \E k \in 1..i : cancel'[accepted'[k]]
  BY DEF CauseBefore
<1>0. /\ accepted \in Seq(Jobs) /\ DOMAIN accepted = 1..Len(accepted)
      /\ Len(accepted) \in Nat /\ ~stopping
  BY DEF IInv, TypeOK, CausesRemain
<1>1. ASSUME i \in DOMAIN accepted, NEW k \in 1..i, cancel[accepted[k]]
      PROVE  \E h \in 1..i : cancel'[accepted'[h]]
  <2>1. k \in DOMAIN accepted
    BY <1>0, <1>1
  <2> QED BY <1>1, <2>1 DEF CausesRemain
<1>2. CASE i \in DOMAIN accepted /\ state[accepted[i]] = "CANCELLED"
  BY <1>0, <1>1, <1>2 DEF HistoryInv, CauseBefore
<1>3. CASE /\ i \in DOMAIN accepted /\ accepted[i] = wjob /\ wjob \in Jobs
           /\ wpc \in {"skip", "drop"}
  <2>1. CASE wpc = "skip"
    <3>1. i \in 1..i /\ cancel[accepted[i]]
      BY <1>0, <1>3, <2>1 DEF HistoryInv, CauseInv
    <3> QED BY <1>1, <1>3, <3>1
  <2>2. CASE wpc = "drop"
    <3>1. PICK k \in DOMAIN accepted : cancel[accepted[k]] /\ Started(accepted[k])
      BY <1>0, <2>2 DEF HistoryInv, CauseInv, CauseSeen
    <3>2. state[wjob] = "RUNNING"
      BY <2>2 DEF IInv, WorkerInv, RunningPC
    <3>3. k \in 1..i
      <4> SUFFICES ASSUME k \notin 1..i PROVE FALSE
        OBVIOUS
      <4>1. i \in 1..k /\ i # k /\ accepted[k] \in Jobs
        BY <1>0, <1>3
      <4>2. state[accepted[k]] \notin Terminal
        BY <1>3, <3>2, <4>1 DEF HistoryInv, OrderInv, FinishedInOrder, Terminal
      <4>3. state[accepted[k]] = "RUNNING"
        BY <3>1, <4>1, <4>2 DEF IInv, TypeOK, Started, Live
      <4>4. queue # <<accepted[k]>>
        <5> SUFFICES ASSUME queue = <<accepted[k]>> PROVE FALSE
          OBVIOUS
        <5>1. PICK q \in Jobs : queue = <<q>> /\ state[q] = "QUEUED"
          BY DEF IInv, QueueInv
        <5> QED BY <4>3, <5>1, SingletonInjective
      <4>5. accepted[k] = accepted[i]
        BY <1>3, <4>1, <4>3, <4>4 DEF IInv, LiveInv, Live
      <4> QED BY <1>3, <4>1, <4>5 DEF HistoryInv, OrderInv, AcceptedInv
    <3> QED BY <1>1, <1>3, <3>1, <3>3
  <2> QED BY <1>3, <2>1, <2>2
<1>4. \/ i \in DOMAIN accepted /\ state[accepted[i]] = "CANCELLED"
      \/ /\ i \in DOMAIN accepted /\ accepted[i] = wjob /\ wjob \in Jobs
         /\ wpc \in {"skip", "drop"}
  <2>1. CASE UNCHANGED <<state, accepted>>
    BY <2>1
  <2>2. ASSUME NEW j \in Jobs, state[j] = "absent", state' = [state EXCEPT ![j] = "QUEUED"],
               accepted' = Append(accepted, j)
        PROVE  i \in DOMAIN accepted /\ state[accepted[i]] = "CANCELLED"
    <3>1. /\ DOMAIN accepted' = 1..(Len(accepted) + 1)
          /\ accepted'[Len(accepted) + 1] = j
          /\ \A h \in 1..Len(accepted) : accepted'[h] = accepted[h] /\ accepted[h] \in Jobs
      BY <1>0, <2>2, AppendAccepted
    <3>2. \A h \in Jobs : state'[h] = IF h = j THEN "QUEUED" ELSE state[h]
      BY <2>2 DEF IInv, TypeOK
    <3>3. i \in 1..Len(accepted)
      BY <1>0, <3>1, <3>2
    <3> QED BY <1>0, <3>1, <3>2, <3>3
  <2>3. ASSUME NEW st, wjob \in Jobs, state' = [state EXCEPT ![wjob] = st], UNCHANGED accepted,
               st = "CANCELLED" => wpc \in {"skip", "drop"}
        PROVE  \/ state[accepted[i]] = "CANCELLED"
               \/ accepted[i] = wjob /\ wpc \in {"skip", "drop"}
    <3>1. \A h \in Jobs : state'[h] = IF h = wjob THEN st ELSE state[h]
      BY <2>3 DEF IInv, TypeOK
    <3> QED BY <1>0, <2>3, <3>1
  <2>4. wpc \in PoppedPC \cup RunningPC => wjob \in Jobs
    BY DEF IInv, WorkerInv
  <2> QED BY <2>1, <2>2, <2>3, <2>4 DEF OrderStep, PoppedPC, RunningPC
<1> QED BY <1>2, <1>3, <1>4

LEMMA InitHistory == Init => HistoryInv
BY DEF Init, HistoryInv, OrderInv, AcceptedInv, TurnInv, FinishedInOrder, CauseInv,
       CauseBefore

\* Order and causes, kept together in every behaviour.
THEOREM HistoryHolds == Spec => []HistoryInv
<1>1. IInv /\ HistoryInv /\ [Next]_vars => HistoryInv'
  BY EveryOrderStep, OrderInvStep, EveryCauseStep, EveryStepKeepsCauses, CauseInvStep,
     CauseBeforeStep DEF HistoryInv, IInv
<1>2. QED
  BY InvariantHolds, InitHistory, <1>1, PTL DEF Spec

\* Jobs end in the order submit accepted them, cancelled ones included: the
\* queue is first in, first out, and nobody but the worker ends a job.
THEOREM JobsFinishInOrder == Spec => []FinishedInOrder
<1>1. HistoryInv => FinishedInOrder
  BY DEF HistoryInv, OrderInv
<1>2. QED
  BY <1>1, HistoryHolds, PTL

-----------------------------------------------------------------------------
(* Where a cancel that comes late stays.  The engine clears its flag at    *)
(* the start of every operation, so a flag that is set while a job runs    *)
(* there was set in that time: by the unload, or by a job_cancel that has  *)
(* struck this job.                                                        *)

\* What may cancel a job itself, whatever happened to the ones before it.
Hit(j) == stopping \/ cancel[j] \/ j \in struck

StruckInv ==
  /\ wpc = "generate" /\ ecancel => Hit(wjob)
  /\ wpc = "verdict" /\ wstatus = "CANCELLED" => Hit(wjob)
  /\ wpc \in {"skip", "drop"} => Hit(wjob)
  /\ \A j \in Jobs : state[j] = "CANCELLED" => Hit(j)

\* A job that is hit stays so: nothing takes a flag back or a job out of struck.
LEMMA EveryStepKeepsHits ==
  ASSUME TypeOK, [Next]_vars, NEW j \in Jobs, Hit(j)
  PROVE  Hit(j)'
<1>1. (stopping => stopping') /\ (cancel[j] => cancel'[j])
  BY EveryStepKeepsFlags
<1>2. struck \subseteq struck'
  <2> USE DEF modelVars, jobVars, workerVars, engineVars, hostVars
  <2>1. CASE Load \/ Submit \/ Release
    BY <2>1 DEF Load, ModelLoad, ModelLoadFails, Submit, SubmitPush, SubmitNotify,
                Release, JobRelease
  <2>2. CASE JobCancel
    BY <2>2 DEF JobCancel, CancelLoad, CancelStore, CancelEngine
  <2>3. CASE Loop \/ WorkerSpuriousWake
    BY <2>3 DEF Loop, WorkerSleep, WorkerExit, WorkerPop, WorkerCheckCancel,
                WorkerStart, WorkerSpuriousWake
  <2>4. CASE Run
    BY <2>4 DEF Run, RunThrows, RunRefused, RunCallsEngine, EngineReset, EngineStep,
                EngineReturn, WorkerVerdict, ReportError, WriteThrows, WriteOutput
  <2>5. CASE Finish
    BY <2>5 DEF Finish, PublishSkipped, PublishCancelled, PublishFailed,
                PublishComplete, Publish
  <2>6. CASE Unload
    BY <2>6 DEF Unload, UnloadStop, UnloadCancelEngine, UnloadNotify, UnloadJoin,
                UnloadDelete
  <2>7. CASE UNCHANGED vars
    BY <2>7 DEF vars
  <2> QED BY <2>1, <2>2, <2>3, <2>4, <2>5, <2>6, <2>7 DEF Next
<1> QED BY <1>1, <1>2 DEF Hit

LEMMA StruckInvStep == IInv /\ StruckInv /\ [Next]_vars => StruckInv'
<1> SUFFICES ASSUME IInv, StruckInv, [Next]_vars PROVE StruckInv'
  OBVIOUS
<1>0. \A j \in Jobs : Hit(j) => Hit(j)'
  BY EveryStepKeepsHits DEF IInv
<1>1. wpc \in PoppedPC \cup RunningPC => wjob \in Jobs
  BY DEF IInv, WorkerInv
\* Most steps leave the worker, the states and the engine's flag alone.
<1>2. CASE UNCHANGED <<state, wjob, wpc, wstatus, ecancel>>
  BY <1>0, <1>1, <1>2 DEF StruckInv, Hit, PoppedPC, RunningPC
\* Or they leave the worker where it has no job, or bring it there.
<1>3. CASE /\ UNCHANGED state
           /\ wpc' \in {"lock", "asleep", "exited", "popped", "start", "run", "reset",
                        "report", "failed", "write", "publish"}
  BY <1>0, <1>3 DEF StruckInv
<1>4. CASE UnloadCancelEngine
  <2>1. stopping
    BY <1>4 DEF UnloadCancelEngine, IInv, UnloadInv
  <2>2. stopping'
    BY <1>4, <2>1 DEF UnloadCancelEngine, modelVars
  <2> QED BY <2>2 DEF StruckInv, Hit
<1>5. ASSUME NEW j \in Jobs, CancelEngine(j)
      PROVE  StruckInv'
  <2>1. UNCHANGED <<state, wjob, wpc, wstatus>>
    BY <1>5 DEF CancelEngine, jobVars, workerVars
  <2>2. wpc = "generate" => Hit(wjob)'
    BY <1>5, <2>1 DEF CancelEngine, Hit
  <2> QED BY <1>0, <1>1, <2>1, <2>2 DEF StruckInv, PoppedPC, RunningPC
<1>6. ASSUME NEW j \in Jobs, SubmitPush(j)
      PROVE  StruckInv'
  <2>1. /\ UNCHANGED <<wjob, wpc, wstatus, ecancel>>
        /\ \A h \in Jobs : state'[h] = IF h = j THEN "QUEUED" ELSE state[h]
    BY <1>6 DEF SubmitPush, workerVars, engineVars, IInv, TypeOK
  <2> QED BY <1>0, <1>1, <2>1 DEF StruckInv, PoppedPC, RunningPC
<1>7. CASE WorkerCheckCancel
  <2>1. UNCHANGED <<state, wjob>> /\ wpc' \in {"skip", "start"} /\ wjob \in Jobs
    BY <1>1, <1>7 DEF WorkerCheckCancel, AfterPop, jobVars, PoppedPC
  <2>2. wpc' = "skip" => Hit(wjob)
    BY <1>7 DEF WorkerCheckCancel, AfterPop, Hit
  <2> QED BY <1>0, <2>1, <2>2 DEF StruckInv
<1>8. CASE WorkerStart
  <2>1. /\ wpc' = "run"
        /\ \A h \in Jobs : state'[h] = IF h = wjob THEN "RUNNING" ELSE state[h]
    BY <1>8 DEF WorkerStart, IInv, TypeOK
  <2> QED BY <1>0, <2>1 DEF StruckInv
<1>9. CASE RunRefused
  BY <1>0, <1>9 DEF RunRefused, StruckInv, jobVars
<1>10. CASE EngineReset
  BY <1>0, <1>10 DEF EngineReset, StruckInv, jobVars
<1>11. ASSUME NEW st \in {"OK", "CANCELLED", "FAILED"}, EngineReturn(st)
       PROVE  StruckInv'
  <2>1. UNCHANGED <<state, wjob>> /\ wpc' = "verdict" /\ wstatus' = st /\ wjob \in Jobs
    BY <1>1, <1>11 DEF EngineReturn, jobVars, RunningPC
  <2>2. st = "CANCELLED" => Hit(wjob)
    BY <1>11 DEF EngineReturn, Returnable, StruckInv
  <2> QED BY <1>0, <2>1, <2>2 DEF StruckInv
<1>12. CASE WorkerVerdict
  <2>1. /\ UNCHANGED <<state, wjob>> /\ wpc' \in {"drop", "report", "write"}
        /\ wjob \in Jobs
    BY <1>1, <1>12 DEF WorkerVerdict, AfterEngine, jobVars, RunningPC
  <2>2. wpc' = "drop" => Hit(wjob)
    BY <1>12 DEF WorkerVerdict, AfterEngine, StruckInv, Hit
  <2> QED BY <1>0, <2>1, <2>2 DEF StruckInv
<1>13. ASSUME NEW pc \in {"skip", "drop", "failed", "publish"}, NEW st \in Terminal,
              Publish(pc, st), st = "CANCELLED" => pc \in {"skip", "drop"}
       PROVE  StruckInv'
  <2>1. /\ wpc = pc /\ wpc' = "lock" /\ wjob \in Jobs
        /\ \A h \in Jobs : state'[h] = IF h = wjob THEN st ELSE state[h]
    BY <1>1, <1>13 DEF Publish, IInv, TypeOK, PoppedPC, RunningPC
  <2> QED BY <1>0, <1>13, <2>1 DEF StruckInv
<1> USE DEF modelVars, jobVars, workerVars, engineVars, hostVars
<1>14. CASE Load
  BY <1>2, <1>3, <1>14 DEF Load, ModelLoad, ModelLoadFails
<1>15. ASSUME NEW j \in Jobs, SubmitNotify(j)
       PROVE  StruckInv'
  BY <1>2, <1>3, <1>15 DEF SubmitNotify, WokenWorker
<1>16. CASE Release \/ \E j \in Jobs : CancelLoad(j) \/ CancelStore(j)
  BY <1>2, <1>16 DEF Release, JobRelease, CancelLoad, CancelStore
<1>17. CASE WorkerSleep \/ WorkerExit \/ WorkerPop \/ WorkerSpuriousWake
  BY <1>3, <1>17 DEF WorkerSleep, WorkerExit, WorkerPop, WorkerSpuriousWake
<1>18. CASE RunThrows \/ RunCallsEngine \/ ReportError \/ WriteThrows \/ WriteOutput
  BY <1>3, <1>18 DEF RunThrows, RunCallsEngine, ReportError, WriteThrows, WriteOutput
<1>19. CASE EngineStep
  BY <1>2, <1>19 DEF EngineStep
<1>20. CASE Finish
  BY <1>13, <1>20 DEF Finish, PublishSkipped, PublishCancelled, PublishFailed,
                      PublishComplete, Terminal
<1>21. CASE UnloadStop \/ UnloadJoin \/ UnloadDelete
  BY <1>2, <1>21 DEF UnloadStop, UnloadJoin, UnloadDelete
<1>22. CASE UnloadNotify
  BY <1>2, <1>3, <1>22 DEF UnloadNotify, WokenWorker
<1>23. CASE UNCHANGED vars
  BY <1>2, <1>23 DEF vars
<1> QED
  BY <1>4, <1>5, <1>6, <1>7, <1>8, <1>9, <1>10, <1>11, <1>12, <1>14, <1>15, <1>16,
     <1>17, <1>18, <1>19, <1>20, <1>21, <1>22, <1>23
     DEF Next, Submit, JobCancel, Loop, Run, Unload

\* A job that is CANCELLED, unless the model is being unloaded, was cancelled
\* itself or was struck in the engine: job_cancel of a job before it got there
\* while it ran.  The cancel of a job neither waits in the engine for a later
\* operation nor reaches a job accepted before its own.
THEOREM CancelledJobsHaveACause == Spec => []CancelledHasCause
<1>1. Init => StruckInv
  BY DEF Init, StruckInv
<1>2. Spec => []StruckInv
  BY <1>1, StruckInvStep, InvariantHolds, PTL DEF Spec
<1>3. ASSUME IInv, CauseBefore, StruckInv
      PROVE  CancelledHasCause
  <2> SUFFICES ASSUME NEW i \in DOMAIN accepted, state[accepted[i]] = "CANCELLED",
                      ~stopping, ~cancel[accepted[i]]
               PROVE  accepted[i] \in struck /\ \E k \in 1..(i - 1) : cancel[accepted[k]]
    BY DEF CancelledHasCause
  <2>1. accepted[i] \in Jobs /\ i \in Nat
    BY <1>3 DEF IInv, TypeOK
  <2>2. accepted[i] \in struck
    BY <1>3, <2>1 DEF StruckInv, Hit
  <2>3. PICK k \in 1..i : cancel[accepted[k]]
    BY <1>3 DEF CauseBefore
  <2>4. k \in 1..(i - 1)
    BY <2>1, <2>3
  <2> QED BY <2>2, <2>3, <2>4
<1>4. IInv /\ HistoryInv /\ StruckInv => CancelledHasCause
  BY <1>3 DEF HistoryInv
<1> QED BY <1>2, <1>4, InvariantHolds, HistoryHolds, PTL

-----------------------------------------------------------------------------
(* Cancellation in time.  What the two properties say of all later states  *)
(* follows from a condition that every step keeps.                         *)

\* A cancelled job that waits is skipped ...
WillNotRun(j) == cancel[j] /\ (WaitsInQueue(j) \/ state[j] \in Terminal)

\* ... and one that runs ends at the verdict, or with an error.
WillNotComplete(j) ==
  cancel[j] /\ \/ BeforeVerdict(j)
               \/ wjob = j /\ wpc \in {"drop", "report", "failed"}
               \/ state[j] \in {"CANCELLED", "FAILED"}

LEMMA WillNotStep ==
  ASSUME NEW j \in Jobs, IInv, [Next]_vars
  PROVE  /\ WillNotRun(j) => WillNotRun(j)'
         /\ WillNotComplete(j) => WillNotComplete(j)'
<1> DEFINE Goal == /\ WillNotRun(j) => WillNotRun(j)'
                   /\ WillNotComplete(j) => WillNotComplete(j)'
<1> USE DEF WillNotRun, WillNotComplete, WaitsInQueue, BeforeVerdict, Terminal
<1>0. cancel[j] => cancel'[j]
  BY EveryStepKeepsFlags DEF IInv
<1>1. CASE UNCHANGED <<state, wjob, wpc>>
  BY <1>0, <1>1
<1>2. CASE UNCHANGED <<state, wjob>> /\ wpc \in FreePC /\ wpc' \in FreePC
  BY <1>0, <1>2, JobsAssumption DEF IInv, WorkerInv, FreePC
<1>3. ASSUME NEW k \in Jobs, SubmitPush(k)
      PROVE  Goal
  BY <1>0, <1>3 DEF SubmitPush, IInv, TypeOK, workerVars
<1>4. CASE WorkerPop
  BY <1>0, <1>4, JobsAssumption DEF WorkerPop, jobVars, IInv, WorkerInv, FreePC
<1>5. CASE WorkerCheckCancel
  BY <1>0, <1>5 DEF WorkerCheckCancel, AfterPop, jobVars
<1>6. CASE WorkerStart
  BY <1>0, <1>6 DEF WorkerStart, IInv, TypeOK, WorkerInv, PoppedPC
<1>7. CASE Run
  BY <1>0, <1>7 DEF Run, RunThrows, RunRefused, RunCallsEngine, EngineReset, EngineStep,
              EngineReturn, WorkerVerdict, AfterEngine, ReportError, WriteThrows,
              WriteOutput, jobVars, workerVars, IInv, WorkerInv, RunningPC
<1>8. CASE Finish
  BY <1>0, <1>8, JobsAssumption
     DEF Finish, PublishSkipped, PublishCancelled, PublishFailed, PublishComplete,
         Publish, IInv, TypeOK, WorkerInv, PoppedPC, RunningPC
<1>9. \/ UNCHANGED <<state, wjob, wpc>>
      \/ UNCHANGED <<state, wjob>> /\ wpc \in FreePC /\ wpc' \in FreePC
      \/ \E k \in Jobs : SubmitPush(k)
      \/ WorkerPop \/ WorkerCheckCancel \/ WorkerStart \/ Run \/ Finish
  <2> USE DEF modelVars, jobVars, workerVars, engineVars, hostVars, FreePC
  <2>1. CASE Load
    BY <2>1 DEF Load, ModelLoad, ModelLoadFails
  <2>2. CASE Submit
    BY <2>2 DEF Submit, SubmitNotify, WokenWorker
  <2>3. CASE JobCancel \/ Release
    BY <2>3 DEF JobCancel, CancelLoad, CancelStore, CancelEngine, Release, JobRelease
  <2>4. CASE Loop \/ WorkerSpuriousWake
    BY <2>4 DEF Loop, WorkerSleep, WorkerExit, WorkerSpuriousWake
  <2>5. CASE Unload
    BY <2>5 DEF Unload, UnloadStop, UnloadCancelEngine, UnloadNotify, UnloadJoin,
                UnloadDelete, WokenWorker
  <2>6. CASE UNCHANGED vars
    BY <2>6 DEF vars
  <2> QED BY <2>1, <2>2, <2>3, <2>4, <2>5, <2>6 DEF Next
<1> QED BY <1>1, <1>2, <1>3, <1>4, <1>5, <1>6, <1>7, <1>8, <1>9

\* A job that is cancelled while it waits, by the host or by the unload, is never
\* run, wherever in the queue or the worker's hands it is.
THEOREM CancelledWaitingNeverRun == Spec => CancelledWhileWaitingNeverRuns
<1> SUFFICES ASSUME NEW j \in Jobs
             PROVE  Spec => [](cancel[j] /\ WaitsInQueue(j) => [](state[j] # "RUNNING"))
  BY DEF CancelledWhileWaitingNeverRuns
<1>1. cancel[j] /\ WaitsInQueue(j) => WillNotRun(j)
  BY DEF WillNotRun
<1>2. IInv /\ WillNotRun(j) /\ [Next]_vars => WillNotRun(j)'
  BY WillNotStep
<1>3. WillNotRun(j) => state[j] # "RUNNING"
  BY DEF WillNotRun, WaitsInQueue, Terminal
<1> QED BY <1>1, <1>2, <1>3, InvariantHolds, PTL DEF Spec

\* A job that is cancelled before the worker's verdict never completes, whatever
\* became of the cancel in the engine.
THEOREM CancelledInTimeNeverCompletes == Spec => CancelledBeforeVerdictNeverCompletes
<1> SUFFICES ASSUME NEW j \in Jobs
             PROVE  Spec => [](cancel[j] /\ BeforeVerdict(j) => [](state[j] # "COMPLETE"))
  BY DEF CancelledBeforeVerdictNeverCompletes
<1>1. cancel[j] /\ BeforeVerdict(j) => WillNotComplete(j)
  BY DEF WillNotComplete
<1>2. IInv /\ WillNotComplete(j) /\ [Next]_vars => WillNotComplete(j)'
  BY WillNotStep
<1>3. IInv /\ WillNotComplete(j) => state[j] # "COMPLETE"
  BY DEF WillNotComplete, BeforeVerdict, IInv, WorkerInv, RunningPC
<1> QED BY <1>1, <1>2, <1>3, InvariantHolds, PTL DEF Spec

-----------------------------------------------------------------------------
(* The refinement.                                                         *)

\* The initial state of the harness is one of the service.
LEMMA InitRefines == Init => Service!Init
BY DEF Init, Service!Init, serviceBar, waitingBar, deliveredBar

\* Each action of the harness is the action of the service named here, or a
\* stuttering step.
LEMMA StepRefines == IInv /\ [Next]_vars => [Service!Next]_(Service!vars)
<1> SUFFICES ASSUME IInv, [Next]_vars PROVE [Service!Next]_(Service!vars)
  OBVIOUS
<1> USE JobsAssumption
    DEF IInv, TypeOK, QueueInv, WorkerInv, UnloadInv, OutputMatchesState,
        FreePC, BusyPC, PoppedPC, RunningPC, Live, Terminal,
        modelVars, jobVars, workerVars, engineVars, hostVars,
        serviceBar, waitingBar, deliveredBar, Service!vars
<1>1. ModelLoad => Service!Open
  BY DEF ModelLoad, Service!Open
<1>2. ModelLoadFails => UNCHANGED Service!vars
  BY DEF ModelLoadFails
<1>3. ASSUME NEW j \in Jobs, SubmitPush(j)
      PROVE  Service!Accept(j)
  BY <1>3, AppendToEmpty DEF SubmitPush, CanEnqueue, Service!Accept
<1>4. ASSUME NEW j \in Jobs, SubmitNotify(j)
      PROVE  UNCHANGED Service!vars
  BY <1>4 DEF SubmitNotify, WokenWorker
<1>5. ASSUME NEW j \in Jobs, CancelLoad(j)
      PROVE  UNCHANGED Service!vars
  BY <1>5 DEF CancelLoad
<1>6. ASSUME NEW j \in Jobs, CancelStore(j)
      PROVE  UNCHANGED Service!vars
  BY <1>6 DEF CancelStore
<1>7. ASSUME NEW j \in Jobs, CancelEngine(j)
      PROVE  UNCHANGED Service!vars
  BY <1>7 DEF CancelEngine
<1>8. ASSUME NEW j \in Jobs, JobRelease(j)
      PROVE  UNCHANGED Service!vars
  BY <1>8 DEF JobRelease
<1>9. WorkerSleep => UNCHANGED Service!vars
  BY DEF WorkerSleep
<1>10. WorkerExit => UNCHANGED Service!vars
  BY DEF WorkerExit, MustExit
<1>11. WorkerPop => Service!Take
  BY PopOnly DEF WorkerPop, MustExit, Service!Take
<1>12. WorkerCheckCancel => UNCHANGED Service!vars
  BY DEF WorkerCheckCancel, AfterPop
<1>13. WorkerStart => Service!Begin
  BY DEF WorkerStart, Service!Begin
<1>14. WorkerSpuriousWake => UNCHANGED Service!vars
  BY DEF WorkerSpuriousWake
<1>15. RunThrows => UNCHANGED Service!vars
  BY DEF RunThrows
<1>16. RunRefused => UNCHANGED Service!vars
  BY DEF RunRefused
<1>17. RunCallsEngine => UNCHANGED Service!vars
  BY DEF RunCallsEngine
<1>18. EngineReset => UNCHANGED Service!vars
  BY DEF EngineReset
<1>19. EngineStep => UNCHANGED Service!vars
  BY DEF EngineStep, MoreSteps
<1>20. ASSUME NEW st \in {"OK", "CANCELLED", "FAILED"}, EngineReturn(st)
      PROVE  UNCHANGED Service!vars
  BY <1>20 DEF EngineReturn
<1>21. WorkerVerdict => UNCHANGED Service!vars
  BY DEF WorkerVerdict, AfterEngine
<1>22. ReportError => UNCHANGED Service!vars
  BY DEF ReportError
<1>23. WriteThrows => UNCHANGED Service!vars
  BY DEF WriteThrows
<1>24. WriteOutput => Service!Deliver
  BY DEF WriteOutput, Service!Deliver
<1>25. PublishSkipped => Service!Resolve
  <2> SUFFICES ASSUME PublishSkipped PROVE Service!Resolve
    OBVIOUS
  <2>1. wjob \in Jobs /\ wjob # NoJob
    BY DEF PublishSkipped, Publish
  <2>2. "CANCELLED" \in Service!Outcomes(wjob)
    BY <2>1 DEF PublishSkipped, Publish, Service!Outcomes
  <2>3. /\ state' = [state EXCEPT ![wjob] = "CANCELLED"] /\ wjob' = NoJob
        /\ UNCHANGED <<serviceBar, waitingBar, deliveredBar>>
    BY DEF PublishSkipped, Publish
  <2>4. QED
    BY <2>1, <2>2, <2>3 DEF Service!Resolve
<1>26. PublishCancelled => Service!Resolve
  <2> SUFFICES ASSUME PublishCancelled PROVE Service!Resolve
    OBVIOUS
  <2>1. wjob \in Jobs /\ wjob # NoJob
    BY DEF PublishCancelled, Publish
  <2>2. "CANCELLED" \in Service!Outcomes(wjob)
    BY <2>1 DEF PublishCancelled, Publish, Service!Outcomes
  <2>3. /\ state' = [state EXCEPT ![wjob] = "CANCELLED"] /\ wjob' = NoJob
        /\ UNCHANGED <<serviceBar, waitingBar, deliveredBar>>
    BY DEF PublishCancelled, Publish
  <2>4. QED
    BY <2>1, <2>2, <2>3 DEF Service!Resolve
<1>27. PublishFailed => Service!Resolve
  <2> SUFFICES ASSUME PublishFailed PROVE Service!Resolve
    OBVIOUS
  <2>1. wjob \in Jobs /\ wjob # NoJob
    BY DEF PublishFailed, Publish
  <2>2. "FAILED" \in Service!Outcomes(wjob)
    BY <2>1 DEF PublishFailed, Publish, Service!Outcomes
  <2>3. /\ state' = [state EXCEPT ![wjob] = "FAILED"] /\ wjob' = NoJob
        /\ UNCHANGED <<serviceBar, waitingBar, deliveredBar>>
    BY DEF PublishFailed, Publish
  <2>4. QED
    BY <2>1, <2>2, <2>3 DEF Service!Resolve
<1>28. PublishComplete => Service!Resolve
  <2> SUFFICES ASSUME PublishComplete PROVE Service!Resolve
    OBVIOUS
  <2>1. wjob \in Jobs /\ wjob # NoJob
    BY DEF PublishComplete, Publish
  <2>2. "COMPLETE" \in Service!Outcomes(wjob)
    BY <2>1 DEF PublishComplete, Publish, Service!Outcomes
  <2>3. /\ state' = [state EXCEPT ![wjob] = "COMPLETE"] /\ wjob' = NoJob
        /\ UNCHANGED <<serviceBar, waitingBar, deliveredBar>>
    BY DEF PublishComplete, Publish
  <2>4. QED
    BY <2>1, <2>2, <2>3 DEF Service!Resolve
<1>29. UnloadStop => Service!Close
  BY DEF UnloadStop, InQueue, Service!Close
<1>30. UnloadCancelEngine => UNCHANGED Service!vars
  BY DEF UnloadCancelEngine
<1>31. UnloadNotify => UNCHANGED Service!vars
  BY DEF UnloadNotify, WokenWorker
<1>32. UnloadJoin => UNCHANGED Service!vars
  BY DEF UnloadJoin
<1>33. UnloadDelete => Service!Retire
  BY DEF UnloadDelete, Service!Retire
<1>34. UNCHANGED vars => UNCHANGED Service!vars
  BY DEF vars
<1>35. QED
  BY <1>1, <1>2, <1>3, <1>4, <1>5, <1>6, <1>7, <1>8, <1>9, <1>10,
     <1>11, <1>12, <1>13, <1>14, <1>15, <1>16, <1>17, <1>18, <1>19,
     <1>20, <1>21, <1>22, <1>23, <1>24, <1>25, <1>26, <1>27, <1>28,
     <1>29, <1>30, <1>31, <1>32, <1>33, <1>34 DEF Next,
     Service!Next, Load, Submit, JobCancel, Release, Loop, Run,
     Finish, Unload

\* Every behaviour of the harness is a behaviour of the service.
THEOREM HarnessImplementsService == Spec => ImplementsService
<1>1. QED
  BY InitRefines, StepRefines, InvariantHolds, PTL
     DEF Spec, ImplementsService, Service!Spec

=============================================================================
