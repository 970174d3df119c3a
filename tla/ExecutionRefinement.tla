------------------------ MODULE ExecutionRefinement ------------------------
(***************************************************************************)
(* Execution seen as a SequentialRun: the elements started are those the   *)
(* backend has announced, the outcome is the exit status the frontend will *)
(* find in waitpid().                                                      *)
(***************************************************************************)
EXTENDS Execution

Outcome ==
    IF Backend_exists /\ proc[backend_pid].pc = "zombie"
      THEN IF proc[backend_pid].ok THEN "success" ELSE "failure"
      ELSE "none"

Sequential == INSTANCE SequentialRun
    WITH Task    <- Displayed,
         active  <- Backend_exists,
         plan    <- Reachable(should_run),
         ran     <- started,
         outcome <- Outcome

\* The backend, with all its processes, executes the scheduled elements one at
\* a time in document order, none twice, and its exit status 0 means that all
\* of them were started.
IsSequentialRun == Sequential!Spec
=============================================================================
