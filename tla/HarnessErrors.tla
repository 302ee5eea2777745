--------------------------- MODULE HarnessErrors ---------------------------
(***************************************************************************)
(* The error messages of a process with several models: g_last_error, the  *)
(* one string that every failing job and every failing model_load of the   *)
(* process overwrites, and get_last_error, which a host calls twice, for   *)
(* the size and for the text                                               *)
(* (src/src/inferbridge/inferbridge_harness.cpp).                          *)
(*                                                                         *)
(* Each model has a worker and a host thread that submits one job after    *)
(* another, polls it, and asks for the message when it has failed.  A      *)
(* message is the place of its set_error among all of them, and its size.  *)
(***************************************************************************)
EXTENDS Naturals

CONSTANTS Models,     \* the loaded models of the process
          Sizes,      \* how long the message of a failure may be
          MaxErrors   \* bound on the failures

ASSUME SizesAssumption  == Sizes \subseteq Nat \ {0}
ASSUME BoundsAssumption == MaxErrors \in Nat

VARIABLES
  wpc,      \* each worker: "idle", "run", "failing", "recorded", "ended"
  error,    \* JobState::error of its job, as a size
  state,    \* JobState::state
  last,     \* g_last_error, by its place and size; 0 before the first
  errors,   \* how many times set_error has been called
  own,      \* history: the place of the message of a model's latest failure
  hpc,      \* each host: "free", "polling", "asking", "reading"
  required, \* the size the first call of get_last_error reported
  got       \* the message the second call copied

workerVars == <<wpc, error, state>>
hostVars   == <<hpc, required, got>>
vars == <<workerVars, last, errors, own, hostVars>>

NoMessage == [place |-> 0, size |-> 0]

Init ==
  /\ wpc = [m \in Models |-> "idle"]
  /\ error = [m \in Models |-> 0]
  /\ state = [m \in Models |-> "NONE"]
  /\ last = NoMessage /\ errors = 0
  /\ own = [m \in Models |-> 0]
  /\ hpc = [m \in Models |-> "free"]
  /\ required = [m \in Models |-> 0]
  /\ got = [m \in Models |-> NoMessage]

-----------------------------------------------------------------------------
(* Plausible bugs.                                                         *)

\* the state says FAILED before the message is there
FailsFirst(m) ==
  /\ wpc[m] = "run"
  /\ \E n \in Sizes : error' = [error EXCEPT ![m] = n]
  /\ wpc' = [wpc EXCEPT ![m] = "failing"]
  /\ state' = [state EXCEPT ![m] = "FAILED"]
  /\ UNCHANGED <<last, errors, own, hostVars>>
\* a buffer that is just large enough is refused
FitsWithRoom(m) == required[m] > last.size + 1

-----------------------------------------------------------------------------
(* set_error, called with the guard of g_error_mutex.                      *)

SetError(n) == /\ errors < MaxErrors
               /\ errors' = errors + 1
               /\ last' = [place |-> errors', size |-> n]

\* A worker's job goes wrong: the engine's message becomes the job's ...
Fails(m) ==
  /\ wpc[m] = "run"
  /\ \E n \in Sizes : error' = [error EXCEPT ![m] = n]
  /\ wpc' = [wpc EXCEPT ![m] = "failing"]
  /\ UNCHANGED <<state, last, errors, own, hostVars>>

\* ... and then the process's ...
Records(m) ==
  /\ wpc[m] = "failing"
  /\ SetError(error[m])
  /\ own' = [own EXCEPT ![m] = errors']
  /\ wpc' = [wpc EXCEPT ![m] = "recorded"]
  /\ UNCHANGED <<error, state, hostVars>>

\* ... and only then does the state say so.
Publishes(m) ==
  /\ wpc[m] = "recorded"
  /\ state' = [state EXCEPT ![m] = "FAILED"]
  /\ wpc' = [wpc EXCEPT ![m] = "ended"]
  /\ UNCHANGED <<error, last, errors, own, hostVars>>

Completes(m) ==
  /\ wpc[m] = "run"
  /\ state' = [state EXCEPT ![m] = "COMPLETE"]
  /\ wpc' = [wpc EXCEPT ![m] = "ended"]
  /\ UNCHANGED <<error, last, errors, own, hostVars>>

\* A model_load elsewhere in the process fails.
LoadFails ==
  /\ \E n \in Sizes : SetError(n)
  /\ UNCHANGED <<workerVars, own, hostVars>>

-----------------------------------------------------------------------------
(* The host threads.                                                       *)

Submits(m) ==
  /\ hpc[m] = "free" /\ wpc[m] \in {"idle", "ended"}
  /\ hpc' = [hpc EXCEPT ![m] = "polling"]
  /\ wpc' = [wpc EXCEPT ![m] = "run"]
  /\ state' = [state EXCEPT ![m] = "RUNNING"]
  /\ got' = [got EXCEPT ![m] = NoMessage]
  /\ UNCHANGED <<error, last, errors, own, required>>

Polls(m) ==
  /\ hpc[m] = "polling" /\ state[m] \in {"FAILED", "COMPLETE"}
  /\ hpc' = [hpc EXCEPT ![m] = IF state[m] = "FAILED" THEN "asking" ELSE "free"]
  /\ UNCHANGED <<workerVars, last, errors, own, required, got>>

\* get_last_error without a destination; the object is not looked at.
AsksSize(m) ==
  /\ hpc[m] = "asking"
  /\ required' = [required EXCEPT ![m] = last.size + 1]
  /\ hpc' = [hpc EXCEPT ![m] = "reading"]
  /\ UNCHANGED <<workerVars, last, errors, own, got>>

\* get_last_error with a destination of the size just learnt.  Another message
\* may be there by now.
Fits(m) == required[m] >= last.size + 1

Reads(m) ==
  /\ hpc[m] = "reading"
  /\ IF Fits(m)
     THEN /\ got' = [got EXCEPT ![m] = last]
          /\ hpc' = [hpc EXCEPT ![m] = "free"]
     ELSE /\ hpc' = [hpc EXCEPT ![m] = "asking"]
          /\ UNCHANGED got
  /\ UNCHANGED <<workerVars, last, errors, own, required>>

-----------------------------------------------------------------------------

Worker(m) == Fails(m) \/ Records(m) \/ Publishes(m) \/ Completes(m)
Host(m)   == Polls(m) \/ AsksSize(m) \/ Reads(m)

Next == \/ \E m \in Models : Worker(m) \/ Submits(m) \/ Host(m)
        \/ LoadFails

Spec == Init /\ [][Next]_vars

(* Workers and hosts keep running; nobody has to submit.                   *)
FairSpec == Spec /\ \A m \in Models : WF_vars(Worker(m)) /\ WF_vars(Host(m))

-----------------------------------------------------------------------------
(* Properties.                                                             *)

\* Whatever other models do meanwhile, a host that polled FAILED never reads a
\* message older than its own job's failure, and never more of it than it has
\* room for, even if the message grew after the call that asked for its size.
MessageIsWholeAndNew ==
  \A m \in Models : got[m] # NoMessage =>
    /\ got[m].place >= own[m]
    /\ got[m].size < required[m]

\* As failures are bounded, a host that polled FAILED and asks again whenever its
\* buffer was too small gets a message, though others keep making the one it is
\* about to read longer.
HostGetsMessage ==
  \A m \in Models : hpc[m] = "asking" ~> hpc[m] = "free" /\ got[m] # NoMessage

=============================================================================
