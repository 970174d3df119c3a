--------------------------- MODULE MCDependencies ---------------------------
(***************************************************************************)
(* Books for checking Dependencies.                                        *)
(***************************************************************************)
EXTENDS Dependencies

CONSTANTS p, q, r

\* Books of three packages, each with up to two dependencies on the others, in
\* any order.  p, which is asked for, requires others or may use them; those of
\* q and r are of any priority, and q and r may need others to run.
ThreePackages == {p, q, r}
InOrderOfNames == <<p, q, r>>
Lines(x, build, prios) == [prio : prios, build : {build}, id : ThreePackages \ {x}]
Single(A) == {<<line>> : line \in A}
Pairs(A, B) == {s \in A \X B : s[1].id # s[2].id}
AnyBook ==
    LET OfP    == Lines(p, "b", {1, 3})
        OfQ    == Lines(q, "b", Priority)
        OfR    == Lines(r, "b", Priority)
        QtoRun == Lines(q, "a", {2})
        RtoRun == Lines(r, "a", {2})
    IN  [x \in ThreePackages |->
            {<<>>} \cup
            CASE x = p -> Single(OfP) \cup Pairs(OfP, OfP)
              [] x = q -> Single(OfQ \cup QtoRun) \cup Pairs(OfQ, OfQ \cup QtoRun)
              [] x = r -> Single(OfR \cup RtoRun) \cup Pairs(OfR, OfR \cup RtoRun)]
OneOrTwo == {<<p>>, <<p, q>>}
ApartNames == [x \in Packages |-> {x}]

\* The name of q contains that of p.
AlikeNames == [x \in Packages |-> IF x = p THEN {p, q} ELSE {x}]
=============================================================================
