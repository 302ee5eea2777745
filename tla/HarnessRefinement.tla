------------------------- MODULE HarnessRefinement -------------------------
(***************************************************************************)
(* Harness implements JobService: the queue is the waiting slot, the       *)
(* worker's job the active one, and the service is open from model_load to *)
(* stop_worker and retired when the model is freed.                        *)
(***************************************************************************)
EXTENDS Harness

serviceBar == IF wpc = "off" THEN "absent"
              ELSE IF ~stopping THEN "open"
              ELSE IF unload # "deleted" THEN "closing" ELSE "retired"

waitingBar == IF queue = <<>> THEN NoJob ELSE Head(queue)

deliveredBar == {j \in Jobs : written[j]}

Service == INSTANCE JobService WITH
             service   <- serviceBar,
             waiting   <- waitingBar,
             active    <- wjob,
             status    <- state,
             delivered <- deliveredBar

\* Every behaviour of the harness, with its threads and flags, is one of the
\* two-slot service: jobs are taken in order, one at a time, get one final
\* state each, and the model is freed only when nothing is left.
ImplementsService == Service!Spec

\* With running threads the harness also keeps the service's promise to
\* finish what it accepted and to end once it is closed.
ImplementsFairService == Service!FairSpec

=============================================================================
