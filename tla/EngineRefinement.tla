-------------------------- MODULE EngineRefinement --------------------------
(***************************************************************************)
(* Engine implements EngineService: everything between the reset of the    *)
(* cancel flag and the text callback is work, and the model loads, passes, *)
(* segments and tokens in it are the engine's own affair.                  *)
(***************************************************************************)
EXTENDS Engine

stageBar == IF pc = "free" THEN "idle"
            ELSE IF pc = "trim" THEN "trimming"
            ELSE IF pc = "reset" THEN "entered"
            ELSE IF told = 0 THEN "working" ELSE "delivered"

Service == INSTANCE EngineService WITH
             Failures <- {"INVALID", "NOT_FOUND", "LOAD_FAILED",
                          "OUT_OF_MEMORY", "UNSUPPORTED", "FAILED"},
             exists <- alive,
             caller <- holder,
             call   <- op,
             stage  <- stageBar,
             cancel <- cancelRequested,
             answer <- result

\* Whatever loads, passes, segments, failures, evictions and cancels make up a
\* call, a client sees one that is alone inside, delivers at most once, succeeds
\* exactly when it has delivered, and says CANCELLED only of a pending cancel.
ImplementsService == Service!Spec

\* With a running thread inside, every call also ends.
ImplementsFairService == Service!FairSpec

=============================================================================
