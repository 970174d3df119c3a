---------------------------- MODULE ProfileOrder ----------------------------
(***************************************************************************)
(* What the user sees of the profile list: a row of files, which the keys  *)
(* change one profile at a time.                                           *)
(***************************************************************************)
EXTENDS Naturals, Sequences

CONSTANT Files      \* files that hold a profile

VARIABLE order      \* the files of the profiles shown, from the top

Init == order # <<>> /\ order \in Seq(Files)

\* A profile comes in at the bottom.
Add == \E f \in Files : order' = Append(order, f)

\* One goes, which is not the only one.
Remove ==
    \E i \in DOMAIN order :
        /\ Len(order) > 1
        /\ order' = SubSeq(order, 1, i - 1) \o SubSeq(order, i + 1, Len(order))

\* One changes places with the one above it.
Move ==
    \E i \in 2 .. Len(order) :
        order' = [order EXCEPT ![i - 1] = order[i], ![i] = order[i - 1]]

Next == Add \/ Remove \/ Move

Spec == Init /\ [][Next]_order
=============================================================================
