------------------------- MODULE HarnessErrorsProofs -------------------------
(***************************************************************************)
(* Proofs about HarnessErrors, for any number of models, any sizes of      *)
(* messages and any number of failures: what a host reads of the one       *)
(* string of the process is whole, and never older than its failure.       *)
(***************************************************************************)
EXTENDS HarnessErrors, TLAPS

-----------------------------------------------------------------------------
(* The inductive invariant.                                                *)

Messages == [place : Nat, size : Nat]

TypeInv ==
  /\ wpc \in [Models -> {"idle", "run", "failing", "recorded", "ended"}]
  /\ error \in [Models -> Nat]
  /\ state \in [Models -> {"NONE", "RUNNING", "FAILED", "COMPLETE"}]
  /\ errors \in Nat /\ last \in Messages /\ last.place = errors
  /\ own \in [Models -> Nat]
  /\ hpc \in [Models -> {"free", "polling", "asking", "reading"}]
  /\ required \in [Models -> Nat]
  /\ got \in [Models -> Messages]

\* While a worker has a job its state says so and its host polls; a host that
\* asks has no message yet.
TurnsInv ==
  \A m \in Models :
    /\ wpc[m] \in {"run", "failing", "recorded"} =>
         hpc[m] = "polling" /\ state[m] = "RUNNING"
    /\ got[m] # NoMessage => hpc[m] = "free"

\* The message of a failure is the present one or has been overwritten.
OwnInv == \A m \in Models : own[m] <= errors

IInv == TypeInv /\ TurnsInv /\ OwnInv /\ MessageIsWholeAndNew

-----------------------------------------------------------------------------
(* The steps.                                                              *)

\* A message of any failure has a size.
LEMMA SizesAreNumbers == \A n \in Sizes : n \in Nat
BY SizesAssumption

LEMMA InitInv == Init => IInv
<1> SUFFICES ASSUME Init PROVE IInv
  OBVIOUS
<1>1. TypeInv
  BY DEF Init, TypeInv, Messages, NoMessage
<1>2. TurnsInv /\ OwnInv /\ MessageIsWholeAndNew
  BY DEF Init, TurnsInv, OwnInv, MessageIsWholeAndNew
<1> QED BY <1>1, <1>2 DEF IInv

\* set_error keeps the types, and its message is behind all others.
LEMMA SetErrorStep ==
  ASSUME TypeInv, NEW n \in Nat, SetError(n)
  PROVE  /\ errors' = errors + 1 /\ errors' \in Nat
         /\ last' \in Messages /\ last'.place = errors'
BY DEF TypeInv, SetError, Messages

\* A step of a worker.
LEMMA WorkerStep == ASSUME IInv, NEW m \in Models, Worker(m) PROVE IInv'
<1> USE DEF IInv, hostVars
<1>1. CASE Fails(m)
  BY <1>1, SizesAreNumbers DEF Fails, TypeInv, TurnsInv, OwnInv, MessageIsWholeAndNew
<1>2. CASE Records(m)
  <2>1. error[m] \in Nat /\ SetError(error[m])
    BY <1>2 DEF Records, TypeInv
  <2>2. /\ errors' = errors + 1 /\ errors' \in Nat
        /\ last' \in Messages /\ last'.place = errors'
    BY <2>1, SetErrorStep
  <2>3. TypeInv'
    BY <1>2, <2>2 DEF Records, TypeInv
  <2>4. OwnInv'
    BY <1>2, <2>2 DEF Records, TypeInv, OwnInv
  <2>5. TurnsInv'
    BY <1>2 DEF Records, TypeInv, TurnsInv
  <2>6. got[m] = NoMessage
    BY <1>2 DEF Records, TurnsInv
  <2>7. MessageIsWholeAndNew'
    BY <1>2, <2>6 DEF Records, TypeInv, MessageIsWholeAndNew
  <2> QED BY <2>3, <2>4, <2>5, <2>7
<1>3. CASE Publishes(m)
  BY <1>3 DEF Publishes, TypeInv, TurnsInv, OwnInv, MessageIsWholeAndNew
<1>4. CASE Completes(m)
  BY <1>4 DEF Completes, TypeInv, TurnsInv, OwnInv, MessageIsWholeAndNew
<1> QED BY <1>1, <1>2, <1>3, <1>4 DEF Worker

\* A step of a host: it reads only what is there now, if it fits.
LEMMA HostStep ==
  ASSUME IInv, NEW m \in Models, Submits(m) \/ Host(m) PROVE IInv'
<1> USE DEF IInv, workerVars
<1>1. CASE Submits(m)
  BY <1>1 DEF Submits, TypeInv, TurnsInv, OwnInv, MessageIsWholeAndNew, Messages,
              NoMessage
<1>2. CASE Polls(m)
  BY <1>2 DEF Polls, TypeInv, TurnsInv, OwnInv, MessageIsWholeAndNew
<1>3. CASE AsksSize(m)
  <2>1. last.size + 1 \in Nat
    BY DEF TypeInv, Messages
  <2>2. got[m] = NoMessage
    BY <1>3 DEF AsksSize, TurnsInv
  <2>3. TypeInv' /\ TurnsInv' /\ OwnInv'
    BY <1>3, <2>1, <2>2 DEF AsksSize, TypeInv, TurnsInv, OwnInv
  <2>4. MessageIsWholeAndNew'
    BY <1>3, <2>2 DEF AsksSize, TypeInv, MessageIsWholeAndNew
  <2> QED BY <2>3, <2>4
<1>4. CASE Reads(m)
  <2>1. Fits(m) => last.place >= own[m] /\ last.size < required[m]
    BY DEF Fits, TypeInv, OwnInv, Messages
  <2>2. TypeInv' /\ OwnInv'
    BY <1>4 DEF Reads, TypeInv, OwnInv
  <2>3. TurnsInv'
    BY <1>4 DEF Reads, TypeInv, TurnsInv
  <2>4. MessageIsWholeAndNew'
    BY <1>4, <2>1 DEF Reads, TypeInv, MessageIsWholeAndNew
  <2> QED BY <2>2, <2>3, <2>4
<1> QED BY <1>1, <1>2, <1>3, <1>4 DEF Host

\* Every step keeps the invariant.
LEMMA NextInv == IInv /\ [Next]_vars => IInv'
<1> SUFFICES ASSUME IInv, [Next]_vars PROVE IInv'
  OBVIOUS
<1>1. CASE \E m \in Models : Worker(m)
  BY <1>1, WorkerStep
<1>2. CASE \E m \in Models : Submits(m) \/ Host(m)
  BY <1>2, HostStep
<1>3. CASE LoadFails
  <2>1. PICK n \in Sizes : SetError(n)
    BY <1>3 DEF LoadFails
  <2>2. /\ errors' = errors + 1 /\ errors' \in Nat
        /\ last' \in Messages /\ last'.place = errors'
    BY <2>1, SizesAreNumbers, SetErrorStep DEF IInv
  <2> QED BY <1>3, <2>2
          DEF LoadFails, IInv, TypeInv, TurnsInv, OwnInv, MessageIsWholeAndNew,
              workerVars, hostVars
<1>4. CASE UNCHANGED vars
  BY <1>4 DEF vars, workerVars, hostVars, IInv, TypeInv, TurnsInv, OwnInv,
              MessageIsWholeAndNew
<1> QED BY <1>1, <1>2, <1>3, <1>4 DEF Next

-----------------------------------------------------------------------------
(* The theorem.                                                            *)

\* A host that polled FAILED and asks why never reads a message older than its
\* own job's failure, and never more of it than it has room for.
THEOREM HostsReadWholeNewMessages == Spec => []MessageIsWholeAndNew
<1>1. IInv => MessageIsWholeAndNew
  BY DEF IInv
<1> QED BY <1>1, InitInv, NextInv, PTL DEF Spec

=============================================================================
