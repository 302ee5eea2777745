----------------------------- MODULE AppUiProofs -----------------------------
(***************************************************************************)
(* Proofs about AppUi, for any images: what the worker may still touch is  *)
(* there, the window never joins a running operation, a cancel stays with  *)
(* the operation it was clicked for, and results with the image they are   *)
(* of.                                                                     *)
(***************************************************************************)
EXTENDS AppUi, TLAPS

-----------------------------------------------------------------------------
(* The inductive invariant.                                                *)

Running == {"begin", "call", "returned", "post"}

\* The result that the present operation posts.
Result == [op |-> job.op, source |-> job.source, status |-> status]

TypeInv ==
  /\ upc \in {"loop", "closeCancel", "closeJoin", "destroy", "gone"}
  /\ wpc \in Running \cup {"none", "finished"}

\* An operation is active while its thread can do anything, and nothing is in
\* the queue until it has done all.
WorkerInv ==
  /\ wpc \in Running => /\ active /\ engine = "alive" /\ posted = <<>>
                        /\ upc \notin {"destroy", "gone"}
  /\ upc = "loop" \/ closing

\* What is in the queue is the one result of the operation that is active.
PostedInv ==
  posted # <<>> => /\ posted = <<Result>> /\ active
                   /\ wpc = "finished" \/ upc = "destroy"

\* Whether a cancel is of the present operation, or of the close.
CancelInv ==
  /\ wpc = "call" /\ cancelFlag => clicked \/ closing
  /\ wpc = "returned" /\ status = "CANCELLED" => clicked \/ closing
  /\ wpc = "post" /\ status = "CANCELLED" => clicked
  /\ posted # <<>> /\ status = "CANCELLED" => clicked

\* What the present operation reads is of the image that is shown.
SourceInv == active /\ ~dropped => job.source \in {image, Typed, Nothing}

IInv == /\ TypeInv /\ WorkerInv /\ PostedInv /\ CancelInv /\ SourceInv
        /\ NothingOfAnotherImage

-----------------------------------------------------------------------------
(* The steps.                                                              *)

LEMMA InitInv == Init => IInv
BY DEF Init, IInv, TypeInv, WorkerInv, PostedInv, CancelInv, SourceInv,
       NothingOfAnotherImage, Running

\* A step of the worker.
LEMMA WorkerStep == ASSUME IInv, Worker \/ WorkerPostFails PROVE IInv'
<1> USE DEF IInv, view, worker, Running
<1>1. CASE WorkerEnters
  BY <1>1 DEF WorkerEnters, TypeInv, WorkerInv, PostedInv, CancelInv, SourceInv,
              NothingOfAnotherImage, Result
<1>2. CASE \E st \in Statuses : WorkerReturns(st)
  BY <1>2 DEF WorkerReturns, TypeInv, WorkerInv, PostedInv, CancelInv, SourceInv,
              NothingOfAnotherImage, Result
<1>3. CASE WorkerLooks
  BY <1>3 DEF WorkerLooks, TypeInv, WorkerInv, PostedInv, CancelInv, SourceInv,
              NothingOfAnotherImage, Result
<1>4. CASE WorkerPosts
  <2>1. posted' = <<Result>>
    BY <1>4 DEF WorkerPosts, WorkerInv, Queued, Result
  <2>2. Result' = Result
    BY <1>4 DEF WorkerPosts, Result
  <2> QED BY <1>4, <2>1, <2>2
          DEF WorkerPosts, TypeInv, WorkerInv, PostedInv, CancelInv, SourceInv,
              NothingOfAnotherImage
<1>5. CASE WorkerPostFails
  BY <1>5 DEF WorkerPostFails, TypeInv, WorkerInv, PostedInv, CancelInv, SourceInv,
              NothingOfAnotherImage, Result
<1> QED BY <1>1, <1>2, <1>3, <1>4, <1>5 DEF Worker

\* A result is shown: the queue is empty then, and nothing is active.
LEMMA DoneStep == ASSUME IInv, Done PROVE IInv'
<1> USE DEF IInv, view, Running
<1>1. posted = <<Result>> /\ Head(posted) = Result /\ posted' = <<>>
  BY DEF Done, PostedInv
<1>2. TypeInv' /\ WorkerInv' /\ PostedInv' /\ CancelInv' /\ SourceInv'
  BY <1>1 DEF Done, StillActive, TypeInv, WorkerInv, PostedInv, CancelInv, SourceInv
<1>3. ~dropped => Head(posted).source \in {image, Typed, Nothing}
  BY <1>1 DEF PostedInv, SourceInv, Result
<1>4. NothingOfAnotherImage'
  BY <1>3 DEF Done, NothingOfAnotherImage
<1> QED BY <1>2, <1>4

\* Every step keeps the invariant.
LEMMA NextInv == IInv /\ [Next]_vars => IInv'
<1> SUFFICES ASSUME IInv, [Next]_vars PROVE IInv'
  OBVIOUS
<1> USE DEF IInv, view, worker, Running
<1>1. CASE \E i \in Images : OpenImage(i)
  BY <1>1 DEF OpenImage, OpenEnabled, ShowImage, TypeInv, WorkerInv, PostedInv,
              CancelInv, SourceInv, NothingOfAnotherImage, Result
<1>2. CASE \E i \in Images : DropImage(i)
  <2>1. dropped' = (dropped \/ active)
    BY <1>2 DEF DropImage
  <2>2. ~dropped' => ~active
    BY <2>1, Zenon
  <2> QED BY <1>2, <2>2 DEF DropImage, ShowImage, TypeInv, WorkerInv, PostedInv,
              CancelInv, SourceInv, NothingOfAnotherImage, Result
<1>3. CASE \E t \in {Typed, Nothing} : EditText(t)
  BY <1>3 DEF EditText, TypeInv, WorkerInv, PostedInv, CancelInv, SourceInv,
              NothingOfAnotherImage, Result
<1>4. CASE \E o \in Operations : Start(o)
  BY <1>4 DEF Start, Idle, TypeInv, WorkerInv, PostedInv, CancelInv, SourceInv,
              NothingOfAnotherImage
<1>5. CASE ClickCancel
  BY <1>5 DEF ClickCancel, TypeInv, WorkerInv, PostedInv, CancelInv, SourceInv,
              NothingOfAnotherImage, Result
<1>6. CASE Done
  BY <1>6, DoneStep
<1>7. CASE CloseBegin \/ CloseCancel
  BY <1>7 DEF CloseBegin, CloseCancel, TypeInv, WorkerInv, PostedInv, CancelInv,
              SourceInv, NothingOfAnotherImage, Result
<1>8. CASE CloseJoin \/ Destroy
  BY <1>8 DEF CloseJoin, Destroy, Joined, TypeInv, WorkerInv, PostedInv, CancelInv,
              SourceInv, NothingOfAnotherImage, Result
<1>9. CASE Worker \/ WorkerPostFails
  BY <1>9, WorkerStep
<1>10. CASE UNCHANGED vars
  BY <1>10 DEF vars, TypeInv, WorkerInv, PostedInv, CancelInv, SourceInv,
               NothingOfAnotherImage, Result
<1> QED
  BY <1>1, <1>2, <1>3, <1>4, <1>5, <1>6, <1>7, <1>8, <1>9, <1>10 DEF Next, Close

-----------------------------------------------------------------------------
(* The theorems.                                                           *)

\* The inductive invariant: whose the worker, the queue and the cancel are.
THEOREM InvariantHolds == Spec => []IInv
BY InitInv, NextInv, PTL DEF Spec

\* The engine and the window outlive whatever the worker may still do with them.
THEOREM WorkerAlwaysFindsEngine == Spec => []WorkerFindsEngine
<1>1. IInv => WorkerFindsEngine
  BY DEF IInv, WorkerInv, WorkerFindsEngine, Running
<1> QED BY <1>1, InvariantHolds, PTL

\* A handler that takes a result joins a thread with nothing left to do.
THEOREM ResultsMeanFinished == Spec => []ResultMeansFinished
<1>1. IInv => ResultMeansFinished
  BY DEF IInv, PostedInv, ResultMeansFinished
<1> QED BY <1>1, InvariantHolds, PTL

\* An operation is cancelled only by a click of its own.
THEOREM CancelledWasAlwaysClicked == Spec => []CancelledWasClicked
<1>1. IInv => CancelledWasClicked
  BY DEF IInv, PostedInv, CancelInv, CancelledWasClicked, Result
<1> QED BY <1>1, InvariantHolds, PTL

\* What is shown is of the image that is shown, drops during an operation apart.
THEOREM ShownIsOfTheImage == Spec => []NothingOfAnotherImage
<1>1. IInv => NothingOfAnotherImage
  BY DEF IInv
<1> QED BY <1>1, InvariantHolds, PTL

=============================================================================
