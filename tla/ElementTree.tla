---------------------------- MODULE ElementTree ----------------------------
(***************************************************************************)
(* The element tree nALFS builds from the profiles (parser.h, parser.c).   *)
(*                                                                         *)
(* An element is named by its position in document order, the order in     *)
(* which get_next_element() walks the tree: 0 is root_element, the parent  *)
(* of every profile.  The `id' the backend puts in a control message is    *)
(* that position (counted inside the profile whose name goes with it), so  *)
(* find_element_by_key() is the identity as long as no two profiles have   *)
(* the same name and the list of profiles does not change during a run.    *)
(*                                                                         *)
(* Last[e] is the last element of e's subtree.  It determines the links:   *)
(* the first child of e is e + 1, the next sibling of e is Last[e] + 1,    *)
(* both when the parent's subtree reaches that far.                        *)
(***************************************************************************)
EXTENDS Naturals

CONSTANTS
    NumElements,    \* number of elements of the tree, root included
    Last,           \* Last[e]: last element, in document order, below e
    Kind            \* Kind[e]: what running e amounts to

Element == 0 .. NumElements - 1
Root    == 0

(***************************************************************************)
(* "root" and "profile" are the types TYPE_ROOT and TYPE_PROFILE, "param"  *)
(* is any type that cannot run (parameters, comments, ...).  The elements  *)
(* of type TYPE_ELEMENT are told apart by what their handler does:         *)
(*   "container"  calls execute_children() in its own process and can fail *)
(*                before that (package, alfs, build, stage without a user, *)
(*                a root or an environment);                               *)
(*   "fork"       executes its children in a forked process (stage with    *)
(*                one of those, su, chroot);                               *)
(*   "action"     does the work itself: it can take long and can fail.     *)
(***************************************************************************)
Kinds == {"root", "profile", "container", "fork", "action", "param"}

ASSUME TreeAssumption ==
    /\ NumElements \in Nat \ {0}
    /\ Last \in [Element -> Element]
    /\ Kind \in [Element -> Kinds]
    /\ Last[Root] = NumElements - 1
    /\ \A e \in Element : e <= Last[e]
    /\ \A a, b \in Element : a < b /\ b <= Last[a] => Last[b] <= Last[a]
    /\ \A e \in Element : Kind[e] = "root" <=> e = Root

Can_run(e) == Kind[e] # "param"

\* e and what is below it, and the elements around it.
Subtree   == [e \in Element |-> {x \in Element : e <= x /\ x <= Last[e]}]
Ancestors == [e \in Element |-> {a \in Element : a < e /\ e <= Last[a]}]

\* el->parent: the innermost of the elements around e (the root has none).
Parent == [e \in Element \ {Root} |->
             CHOOSE p \in Ancestors[e] : \A a \in Ancestors[e] : a <= p]

Children == [e \in Element |-> {c \in Element \ {Root} : Parent[c] = e}]

HasChildren(e) == e < Last[e]
HasNext(e)     == Last[e] < Last[Parent[e]]
Next_el(e)     == Last[e] + 1

\* e and the siblings after it: what following `next' from e reaches.
FromHere(e) == {c \in Children[Parent[e]] : e <= c}

-----------------------------------------------------------------------------
(***************************************************************************)
(* Run statuses.  rs is a function from elements to statuses.              *)
(***************************************************************************)
RunStatus == {"FAILED", "RUNNING", "SOME_DONE", "DONE", "NONE"}

has_child_with_run_status(rs, e, s) ==
    \E c \in Children[e] : Can_run(c) /\ rs[c] = s

\* What the statuses of e's children say of e.
get_element_status(rs, e) ==
    LET some(s) == has_child_with_run_status(rs, e, s)
    IN  IF ~HasChildren(e)       THEN "DONE"
        ELSE IF some("RUNNING")  THEN "RUNNING"
        ELSE IF some("FAILED")   THEN "FAILED"
        ELSE IF ~some("NONE") /\ ~some("SOME_DONE") THEN "DONE"
        ELSE IF some("DONE") \/ some("SOME_DONE")   THEN "SOME_DONE"
        ELSE "NONE"

\* change_run_status_marks(): e and what is below it get status s, and the
\* parents' statuses are computed again, from the inside out; new is the result.
ChangedStatus(rs, e, s, new, x) ==
    IF ~Can_run(x)               THEN rs[x]
    ELSE IF x \in Subtree[e]    THEN s
    ELSE IF x \in Ancestors[e]  THEN get_element_status(new, x)
    ELSE rs[x]

ChangedStatuses(rs, e, s) ==
    LET new[x \in Element] == ChangedStatus(rs, e, s, new, x)
    IN  [x \in Element |-> ChangedStatus(rs, e, s, new, x)]

-----------------------------------------------------------------------------
(***************************************************************************)
(* What the start commands schedule.                                       *)
(***************************************************************************)

\* do_mark_for_running(e): e and what is below it, cut at every element that
\* is already done or cannot run.
MarkedForRunning(rs, e) ==
    {x \in Subtree[e] :
        \A y \in Subtree[e] :
            x \in Subtree[y] => rs[y] # "DONE" /\ Can_run(y)}

\* The elements the backend will reach: scheduled, and so is every parent
\* below the root (start_backend() runs the root's children unconditionally),
\* and none of them is an action, which does not execute what is below it.
Reachable(scheduled) ==
    {e \in scheduled \ {Root} :
        /\ \A a \in (Ancestors[e] \cup {e}) \ {Root} : Can_run(a) /\ a \in scheduled
        /\ \A a \in Ancestors[e] : Kind[a] # "action"}
=============================================================================
