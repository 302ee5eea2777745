----------------------------- MODULE JobService -----------------------------
(***************************************************************************)
(* What a loaded model promises its host, without threads, flags or        *)
(* mutexes: a service that holds one active and one waiting job, takes     *)
(* them in order, gives each exactly one final state, delivers a result    *)
(* only with COMPLETE, and retires only when nothing is left.  Harness     *)
(* implements it (HarnessRefinement).                                      *)
(***************************************************************************)
CONSTANTS Jobs, NoJob

VARIABLES service,  \* "absent", "open", "closing", "retired"
          waiting,  \* the accepted job that is not active yet, or NoJob
          active,   \* the job being worked on, or NoJob
          status,   \* what job_poll says of each job
          delivered \* the jobs whose result is in the host's buffer

vars == <<service, waiting, active, status, delivered>>

Init ==
  /\ service = "absent"
  /\ waiting = NoJob /\ active = NoJob
  /\ status = [j \in Jobs |-> "absent"]
  /\ delivered = {}

Open == /\ service = "absent"
        /\ service' = "open"
        /\ UNCHANGED <<waiting, active, status, delivered>>

Accept(j) ==
  /\ service = "open" /\ waiting = NoJob
  /\ status[j] = "absent"
  /\ waiting' = j
  /\ status' = [status EXCEPT ![j] = "QUEUED"]
  /\ UNCHANGED <<service, active, delivered>>

Take ==
  /\ waiting # NoJob /\ active = NoJob
  /\ active' = waiting /\ waiting' = NoJob
  /\ UNCHANGED <<service, status, delivered>>

Begin ==
  /\ active # NoJob /\ status[active] = "QUEUED"
  /\ status' = [status EXCEPT ![active] = "RUNNING"]
  /\ UNCHANGED <<service, waiting, active, delivered>>

\* The result is in the buffer before the job says COMPLETE.
Deliver ==
  /\ active # NoJob /\ status[active] = "RUNNING" /\ active \notin delivered
  /\ delivered' = delivered \cup {active}
  /\ UNCHANGED <<service, waiting, active, status>>

\* A job that never began can only be cancelled; one that delivered can only
\* complete.
Outcomes(j) == IF j \in delivered THEN {"COMPLETE"}
               ELSE IF status[j] = "RUNNING" THEN {"FAILED", "CANCELLED"}
               ELSE {"CANCELLED"}

Resolve ==
  /\ active # NoJob
  /\ \E o \in Outcomes(active) : status' = [status EXCEPT ![active] = o]
  /\ active' = NoJob
  /\ UNCHANGED <<service, waiting, delivered>>

Close == /\ service = "open"
         /\ service' = "closing"
         /\ UNCHANGED <<waiting, active, status, delivered>>

Retire == /\ service = "closing"
          /\ waiting = NoJob /\ active = NoJob
          /\ service' = "retired"
          /\ UNCHANGED <<waiting, active, status, delivered>>

Next == \/ Open \/ Close \/ Retire
        \/ Take \/ Begin \/ Deliver \/ Resolve
        \/ \E j \in Jobs : Accept(j)

Spec == Init /\ [][Next]_vars

(* The service never leaves an accepted job alone, and closing ends.       *)
Fairness == WF_vars(Take) /\ WF_vars(Begin \/ Deliver \/ Resolve)
            /\ WF_vars(Retire)

FairSpec == Spec /\ Fairness

=============================================================================
