---------------------------- MODULE MCExecution ----------------------------
(***************************************************************************)
(* Trees and keys for checking Execution.                                  *)
(***************************************************************************)
EXTENDS ExecutionRefinement

\* A profile with a package (a parameter and an action) and an action.
FlatLast == [e \in 0 .. 5 |-> <<5, 5, 4, 3, 4, 5>>[e + 1]]
FlatKind == [e \in 0 .. 5 |->
    <<"root", "profile", "container", "param", "action", "action">>[e + 1]]
FlatNoisy == {5}

\* A profile with a stage that forks, around one action, and an action.
ForkLast == [e \in 0 .. 4 |-> <<4, 4, 3, 3, 4>>[e + 1]]
ForkKind == [e \in 0 .. 4 |->
    <<"root", "profile", "fork", "action", "action">>[e + 1]]
ForkNoisy == {4}
=============================================================================
