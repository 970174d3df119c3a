--------------------------- MODULE MCSixPackages ---------------------------
(***************************************************************************)
(* Books of six packages for Dependencies.                                 *)
(***************************************************************************)
EXTENDS Dependencies

CONSTANTS top, a, b, c, d, leaf

SixPackages == {top, a, b, c, d, leaf}
SixNames == <<a, b, c, d, leaf, top>>
On(prio, id) == Before(prio, id)

\* c and d depend on each other, and the cycle is entered from b, whose link
\* is 1 1 2.  The priorities on the way to a are 1 1 2 as well: grep finds two
\* parents for d.
LostBook ==
    [x \in SixPackages |->
        {CASE x = top  -> <<On(2, a), On(2, b)>>
           [] x = a    -> <<On(1, leaf)>>
           [] x = b    -> <<On(1, c)>>
           [] x = c    -> <<On(3, d)>>
           [] x = d    -> <<On(1, c)>>
           [] OTHER    -> <<>>}]
TopOnly == {<<top>>}

\* a wants c and needs b, b wants c and needs d, c needs d and wants b.  c is
\* put off twice: by a, which flags its line for c, to the root; then by b, to
\* a, which gets a second line for c, behind b.  The flag deletes that one: c
\* is listed at the first, before b and before d, which it requires.
LateBook ==
    [x \in SixPackages |->
        {CASE x = a -> <<On(3, c), On(1, b)>>
           [] x = b -> <<On(1, a), On(3, c), On(1, d)>>
           [] x = c -> <<On(2, b), On(1, d)>>
           [] OTHER -> <<>>}]
FirstTwo == {<<a, b>>}

ApartNames == [x \in Packages |-> {x}]
=============================================================================
