--------------------------- MODULE SequentialRun ---------------------------
(***************************************************************************)
(* What running a profile promises, without processes or messages: a plan  *)
(* is drawn up, its elements are started one at a time in document order,  *)
(* each at most once, a run that reports success has started all of them,  *)
(* and nothing is started once the outcome is known.                       *)
(***************************************************************************)
EXTENDS Naturals, Sequences

CONSTANT Task       \* the elements, numbered in document order

VARIABLES
    active,         \* a run has begun and its end was not collected
    plan,           \* what this run is to start
    ran,            \* what the last run has started, in order
    outcome         \* of the active run: "none" while it is going on

vars == <<active, plan, ran, outcome>>

Started == {ran[i] : i \in DOMAIN ran}

Init ==
    /\ active = FALSE
    /\ plan = {}
    /\ ran = <<>>
    /\ outcome = "none"

Begin ==
    /\ ~active
    /\ active' = TRUE
    /\ plan' \in SUBSET Task
    /\ ran' = <<>>
    /\ UNCHANGED outcome

\* t is the first element of the plan that has not been started.
StartTask(t) ==
    /\ active
    /\ outcome = "none"
    /\ t \in plan \ Started
    /\ \A u \in plan : u < t => u \in Started
    /\ ran' = Append(ran, t)
    /\ UNCHANGED <<active, plan, outcome>>

Finish ==
    /\ active
    /\ outcome = "none"
    /\ \/ outcome' = "success" /\ Started = plan
       \/ outcome' = "failure"
    /\ UNCHANGED <<active, plan, ran>>

Collect ==
    /\ active
    /\ outcome # "none"
    /\ active' = FALSE
    /\ plan' = {}
    /\ outcome' = "none"
    /\ UNCHANGED ran

Next == Begin \/ Finish \/ Collect \/ \E t \in Task : StartTask(t)

Spec == Init /\ [][Next]_vars
=============================================================================
