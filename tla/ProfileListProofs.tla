-------------------------- MODULE ProfileListProofs --------------------------
(***************************************************************************)
(* What holds of the profile list for any files, any number of profiles    *)
(* and any sequence of keys and messages: the pointers stay consistent,    *)
(* they show the row that the keys make (ProfileOrder), every variable     *)
(* keeps its type, and, if no file is had twice, every message is taken    *)
(* for the element it is about and no run leaves one shown as running.     *)
(***************************************************************************)
EXTENDS ProfileList, FiniteSetTheorems, SequenceTheorems, WellFoundedInduction, TLAPS

\* What the pointers are.
ListType ==
    /\ first \in Node
    /\ nxt \in [Node -> Node \cup {NULL}]
    /\ prv \in [Node -> Node \cup {NULL}]
    /\ file \in [Node -> Files \cup {Unused}]

\* The profile in question is still there, and is not the only one: nothing may
\* happen to the list while 'd' waits for its answer.
QuestionStands ==
    confirming # NULL => confirming \in Listed /\ nxt[first] # NULL

\* Going on along next one never comes back: a ring beside the list would have
\* links that agree, too, until a profile of it is reloaded or moved.
Ranks(r) ==
    /\ r \in [Node -> Nat]
    /\ \A p \in Listed : nxt[p] # NULL => r[p] < r[nxt[p]]
NoRing == \E r \in [Node -> Nat] : Ranks(r)

Inductive == ListType /\ LinksAgree /\ NoRing /\ QuestionStands

\* A list whose links agree has an end: next is injective on the profiles and
\* misses the first, so that it cannot be defined on all of them.
LEMMA LastExists ==
    ASSUME ListType, LinksAgree
    PROVE  \E p \in Listed : nxt[p] = NULL
<1> SUFFICES ASSUME \A p \in Listed : nxt[p] # NULL
             PROVE  FALSE
    OBVIOUS
<1> DEFINE f == [p \in Listed |-> nxt[p]]
           Others == Listed \ {first}
<1>1. IsFiniteSet(Node)
    BY FS_Interval, ListAssumption DEF Node
<1>2. IsFiniteSet(Listed) /\ first \in Listed
    BY <1>1, FS_Subset DEF Listed, LinksAgree
<1>3. f \in [Listed -> Others]
    <2>1. \A p \in Listed : nxt[p] \in Listed /\ nxt[p] # first
        BY DEF LinksAgree, ListType, Listed, Node, NULL
    <2> QED BY <2>1
<1>4. IsFiniteSet(Others) /\ Cardinality(Others) = Cardinality(Listed) - 1
    BY <1>2, FS_RemoveElement
<1>5. Cardinality(Others) < Cardinality(Listed)
    BY <1>2, <1>4, FS_CardinalityType
<1>6. \A x, y \in Listed : f[x] = f[y] => x = y
    BY DEF LinksAgree
<1> HIDE DEF f, Others
<1>7. \E x, y \in Listed : x # y /\ f[x] = f[y]
    BY <1>2, <1>3, <1>4, <1>5, FS_PigeonHole
<1> QED BY <1>6, <1>7

\* A file in the list is not the mark of free memory.
LEMMA ListedFiles == ASSUME ListType PROVE \A p \in Listed : file[p] \in Files
BY DEF ListType, Listed

\* The profiles of the command line are linked in their order.
LEMMA InitList == Init => Inductive
<1> SUFFICES ASSUME Init PROVE Inductive
    OBVIOUS
<1> DEFINE n == Len(Initial)
<1>1. /\ n \in Nat \ {0} /\ n <= MaxNodes /\ MaxNodes \in Nat
      /\ \A p \in 1 .. n : Initial[p] \in Files
    BY ListAssumption
<1>2. Listed = 1 .. n
    BY <1>1, ListAssumption DEF Init, Listed, Node
<1>3. ListType
    BY <1>1 DEF Init, ListType, Node, NULL
<1>4. LinksAgree
    BY <1>1, <1>2 DEF Init, LinksAgree, Node, NULL
<1>5. NoRing
    <2> DEFINE r == [p \in Node |-> p]
    <2>1. Ranks(r)
        BY <1>1, <1>2 DEF Ranks, Init, Node, NULL
    <2> QED BY <2>1 DEF NoRing, Ranks
<1> QED BY <1>3, <1>4, <1>5 DEF Inductive, QuestionStands, Init

\* The profile that is allocated next is none of those in the list.
LEMMA NewIsFree ==
    ASSUME FreeNodes # {}
    PROVE  NewNode \in Node /\ NewNode \notin Listed /\ NewNode # NULL
BY DEF NewNode, FreeNodes, Listed, Node, NULL

\* A profile added is behind the last one.
LEMMA AddKeepsList == Inductive /\ add_profile => Inductive'
<1> SUFFICES ASSUME Inductive, add_profile PROVE Inductive'
    OBVIOUS
<1> DEFINE new  == NewNode
           last == CHOOSE p \in Listed : nxt[p] = NULL
<1>1. new \in Node /\ new \notin Listed /\ new # NULL
    BY NewIsFree DEF add_profile
<1>2. last \in Listed /\ nxt[last] = NULL
    BY LastExists DEF Inductive
<1>3. /\ \E f \in Files : file' = [file EXCEPT ![new] = f]
      /\ nxt' = [nxt EXCEPT ![last] = new, ![new] = NULL]
      /\ prv' = [prv EXCEPT ![new] = last]
      /\ first' = first
      /\ confirming = NULL /\ confirming' = NULL
    BY DEF add_profile, Pressed
<1> HIDE DEF new, last
<1>4. Listed' = Listed \cup {new}
    BY <1>1, <1>3, ListAssumption DEF Listed, Inductive, ListType
<1>5. ListType'
    BY <1>1, <1>2, <1>3 DEF Inductive, ListType, Listed
<1>6. LinksAgree'
    BY <1>1, <1>2, <1>3, <1>4 DEF Inductive, ListType, LinksAgree, Listed, Node, NULL
<1>7. NoRing'
    <2>1. PICK r : Ranks(r)
        BY DEF Inductive, NoRing
    <2> DEFINE s == [r EXCEPT ![new] = r[last] + 1]
    <2>2. /\ s \in [Node -> Nat]
          /\ \A x \in Listed' : nxt'[x] # NULL => s[x] < s[nxt'[x]]
        <3>1. s \in [Node -> Nat] /\ s[new] = r[last] + 1 /\ last \in Node
            BY <1>1, <1>2, <2>1 DEF Ranks, Listed
        <3>2. ASSUME NEW x \in Listed, x # last, nxt'[x] # NULL
              PROVE  s[x] < s[nxt'[x]]
            BY <1>1, <1>2, <1>3, <2>1, <3>2
               DEF Ranks, Inductive, ListType, LinksAgree, Listed
        <3>3. s[last] < s[nxt'[last]]
            <4>1. last # new /\ r[last] \in Nat /\ s[last] = r[last]
                BY <1>1, <1>2, <2>1, <3>1 DEF Ranks
            <4>2. nxt'[last] = new
                BY <1>1, <1>3, <3>1, <4>1 DEF Inductive, ListType
            <4> QED BY <3>1, <4>1, <4>2
        <3>4. nxt'[new] = NULL
            BY <1>1, <1>3 DEF Inductive, ListType
        <3> QED BY <1>4, <3>1, <3>2, <3>3, <3>4
    <2> QED BY <2>2 DEF NoRing, Ranks
<1> QED BY <1>3, <1>5, <1>6, <1>7 DEF Inductive, QuestionStands

\* The neighbours of a profile removed are linked with each other.
LEMMA RemoveKeepsList == Inductive /\ remove_profile => Inductive'
<1> SUFFICES ASSUME Inductive, remove_profile PROVE Inductive'
    OBVIOUS
<1> DEFINE p == confirming
<1>1. p \in Listed /\ nxt[first] # NULL /\ p \in Node
    BY DEF Inductive, QuestionStands, remove_profile, Listed
<1>2. /\ first' = IF prv[p] = NULL THEN nxt[p] ELSE first
      /\ nxt' = IF prv[p] # NULL THEN [nxt EXCEPT ![prv[p]] = nxt[p]] ELSE nxt
      /\ prv' = IF nxt[p] # NULL THEN [prv EXCEPT ![nxt[p]] = prv[p]] ELSE prv
      /\ file' = [file EXCEPT ![p] = Unused]
      /\ confirming' = NULL
    BY DEF remove_profile, first_without
<1> HIDE DEF p
<1>3. Listed' = Listed \ {p}
    BY <1>1, <1>2, ListAssumption DEF Listed, Inductive, ListType
<1>4. ListType'
    BY <1>1, <1>2 DEF Inductive, ListType, LinksAgree, Listed
<1>5. LinksAgree'
    BY <1>1, <1>2, <1>3 DEF Inductive, ListType, LinksAgree, Listed, Node, NULL
<1>6. NoRing'
    <2>1. PICK r : Ranks(r)
        BY DEF Inductive, NoRing
    <2>2. Ranks(r)'
        BY <1>1, <1>2, <1>3, <2>1
           DEF Ranks, Inductive, ListType, LinksAgree, Listed, Node, NULL
    <2> QED BY <2>2 DEF NoRing, Ranks
<1> QED BY <1>2, <1>4, <1>5, <1>6 DEF Inductive, QuestionStands

\* A profile read again has the neighbours of the old one.
LEMMA ReloadKeepsList ==
    ASSUME NEW old \in Listed
    PROVE  Inductive /\ reload_profile(old) => Inductive'
<1> SUFFICES ASSUME Inductive, reload_profile(old) PROVE Inductive'
    OBVIOUS
<1> DEFINE new == NewNode
<1>1. new \in Node /\ new \notin Listed /\ new # NULL
    BY NewIsFree DEF reload_profile
<1>2. /\ file' = [file EXCEPT ![new] = file[old], ![old] = Unused]
      /\ first' = IF prv[old] = NULL THEN new ELSE first
      /\ nxt' = [p \in Node |-> IF p = prv[old] THEN new
                                ELSE IF p = new THEN nxt[old] ELSE nxt[p]]
      /\ prv' = [p \in Node |-> IF p = nxt[old] THEN new
                                ELSE IF p = new THEN prv[old] ELSE prv[p]]
      /\ confirming = NULL /\ confirming' = NULL
    BY DEF reload_profile, Pressed
<1> HIDE DEF new
<1>3. Listed' = (Listed \ {old}) \cup {new}
    BY <1>1, <1>2, ListAssumption, ListedFiles DEF Listed, Inductive, ListType
<1>4. ListType'
    BY <1>1, <1>2 DEF Inductive, ListType, Listed
<1>5. LinksAgree'
    <2> DEFINE Links(x) ==
          /\ nxt'[x] # NULL => nxt'[x] \in Listed' /\ prv'[nxt'[x]] = x
          /\ prv'[x] # NULL => prv'[x] \in Listed' /\ nxt'[prv'[x]] = x
          /\ prv'[x] = NULL <=> x = first'
    <2>1. /\ old \in Node /\ new # old /\ NULL \notin Node
          /\ nxt[old] # old /\ prv[old] # old
          /\ nxt[old] # NULL => nxt[old] # prv[old] \/ nxt[prv[old]] = old
        BY <1>1 DEF Inductive, ListType, LinksAgree, NoRing, Ranks, Listed, Node, NULL
    <2>2. Links(new)
        BY <1>1, <1>2, <1>3, <2>1 DEF Inductive, ListType, LinksAgree, Listed
    <2>3. ASSUME NEW x \in Listed \ {old} PROVE Links(x)
        BY <1>1, <1>2, <1>3, <2>1, <2>3 DEF Inductive, ListType, LinksAgree, Listed
    <2>4. first' \in Listed'
        BY <1>1, <1>2, <1>3 DEF Inductive, LinksAgree
    <2> QED BY <1>3, <2>2, <2>3, <2>4 DEF LinksAgree
<1>6. NoRing'
    <2>1. PICK r : Ranks(r)
        BY DEF Inductive, NoRing
    <2> DEFINE s == [r EXCEPT ![new] = r[old]]
    <2>2. /\ s \in [Node -> Nat]
          /\ \A x \in Listed' : nxt'[x] # NULL => s[x] < s[nxt'[x]]
        BY <1>1, <1>2, <1>3, <2>1
           DEF Ranks, Inductive, ListType, LinksAgree, Listed, Node, NULL
    <2> QED BY <2>2 DEF NoRing, Ranks
<1> QED BY <1>2, <1>4, <1>5, <1>6 DEF Inductive, QuestionStands

\* Four profiles at most are linked anew by a move, upwards
LEMMA MoveUpKeepsList ==
    ASSUME NEW p \in Listed
    PROVE  Inductive /\ move_profile_up(p) => Inductive'
<1> SUFFICES ASSUME Inductive, move_profile_up(p) PROVE Inductive'
    OBVIOUS
<1> DEFINE q == prv[p]
<1>1. q \in Listed /\ nxt[q] = p /\ p \in Node /\ q \in Node
    BY DEF move_profile_up, Inductive, LinksAgree, Listed
<1>2. /\ first' = IF prv[q] = NULL THEN p ELSE first
      /\ nxt' = [x \in Node |-> CASE x = p      -> q
                                  [] x = prv[q] -> p
                                  [] x = q      -> nxt[p]
                                  [] OTHER      -> nxt[x]]
      /\ prv' = [x \in Node |-> CASE x = p      -> prv[q]
                                  [] x = q      -> p
                                  [] x = nxt[p] -> q
                                  [] OTHER      -> prv[x]]
      /\ file' = file
      /\ confirming = NULL /\ confirming' = NULL
    BY DEF move_profile_up, Pressed
<1>3. q = prv[p]
    OBVIOUS
<1> HIDE DEF q
<1>4. Listed' = Listed
    BY <1>2 DEF Listed
<1>5. ListType'
    BY <1>1, <1>2 DEF Inductive, ListType, Listed
<1>6. LinksAgree'
    BY <1>1, <1>2, <1>3, <1>4 DEF Inductive, ListType, LinksAgree, Listed, Node, NULL
<1>7. NoRing'
    <2>1. PICK r : Ranks(r)
        BY DEF Inductive, NoRing
    <2> DEFINE s == [r EXCEPT ![p] = r[q], ![q] = r[p]]
    <2>2. /\ s \in [Node -> Nat]
          /\ \A x \in Listed' : nxt'[x] # NULL => s[x] < s[nxt'[x]]
        BY SMTT(30), <1>1, <1>2, <1>3, <1>4, <2>1
           DEF Ranks, Inductive, ListType, LinksAgree, Listed, Node, NULL
    <2> QED BY <2>2 DEF NoRing, Ranks
<1> QED BY <1>2, <1>5, <1>6, <1>7 DEF Inductive, QuestionStands

\* and downwards.
LEMMA MoveDownKeepsList ==
    ASSUME NEW p \in Listed
    PROVE  Inductive /\ move_profile_down(p) => Inductive'
<1> SUFFICES ASSUME Inductive, move_profile_down(p) PROVE Inductive'
    OBVIOUS
<1> DEFINE n == nxt[p]
<1>1. n \in Listed /\ prv[n] = p /\ p \in Node /\ n \in Node
    BY DEF move_profile_down, Inductive, LinksAgree, Listed
<1>2. /\ first' = IF prv[p] = NULL THEN n ELSE first
      /\ nxt' = [x \in Node |-> CASE x = p      -> nxt[n]
                                  [] x = prv[p] -> n
                                  [] x = n      -> p
                                  [] OTHER      -> nxt[x]]
      /\ prv' = [x \in Node |-> CASE x = p      -> n
                                  [] x = n      -> prv[p]
                                  [] x = nxt[n] -> p
                                  [] OTHER      -> prv[x]]
      /\ file' = file
      /\ confirming = NULL /\ confirming' = NULL
    BY DEF move_profile_down, Pressed, after_both
<1>3. n = nxt[p]
    OBVIOUS
<1> HIDE DEF n
<1>4. Listed' = Listed
    BY <1>2 DEF Listed
<1>5. ListType'
    BY <1>1, <1>2 DEF Inductive, ListType, Listed
<1>6. LinksAgree'
    <2> DEFINE Links(x) ==
          /\ nxt'[x] # NULL => nxt'[x] \in Listed' /\ prv'[nxt'[x]] = x
          /\ prv'[x] # NULL => prv'[x] \in Listed' /\ nxt'[prv'[x]] = x
          /\ prv'[x] = NULL <=> x = first'
    <2>0. /\ p # n /\ prv[p] # p /\ nxt[n] # n
          /\ nxt[n] # NULL => nxt[n] # p
          /\ prv[p] # NULL => prv[p] # n /\ prv[p] # nxt[n]
        BY <1>1, <1>3 DEF Inductive, ListType, LinksAgree, NoRing, Ranks, Listed, Node, NULL
    <2>1. ASSUME NEW x \in Listed, x = p \/ x = n PROVE Links(x)
        BY <2>0, <1>1, <1>2, <1>3, <1>4, <2>1
           DEF Inductive, ListType, LinksAgree, Listed, Node, NULL
    <2>2. ASSUME NEW x \in Listed, x # p, x # n PROVE Links(x)
        BY <2>0, <1>1, <1>2, <1>3, <1>4, <2>2
           DEF Inductive, ListType, LinksAgree, Listed, Node, NULL
    <2>3. first' \in Listed'
        BY <1>1, <1>2, <1>4 DEF Inductive, LinksAgree
    <2> QED BY <1>4, <2>1, <2>2, <2>3 DEF LinksAgree
<1>7. NoRing'
    <2>1. PICK r : Ranks(r)
        BY DEF Inductive, NoRing
    <2> DEFINE s == [r EXCEPT ![p] = r[n], ![n] = r[p]]
    <2>2. /\ s \in [Node -> Nat]
          /\ \A x \in Listed' : nxt'[x] # NULL => s[x] < s[nxt'[x]]
        <3>1. /\ s \in [Node -> Nat] /\ s[p] = r[n] /\ s[n] = r[p]
              /\ r[p] < r[n] /\ p # n
              /\ \A x \in Node \ {p, n} : s[x] = r[x]
            BY <1>1, <1>3, <2>1 DEF Ranks, Node, NULL
        <3>2. nxt[n] # NULL => nxt[n] \in Listed \ {p, n} /\ r[n] < r[nxt[n]]
            BY <1>1, <1>3, <2>1, <3>1 DEF Ranks, Inductive, ListType, LinksAgree, Listed
        <3>3. prv[p] # NULL => prv[p] \in Listed \ {p, n} /\ r[prv[p]] < r[p]
            BY <1>1, <1>3, <2>1, <3>1
               DEF Ranks, Inductive, ListType, LinksAgree, Listed, Node, NULL
        <3>4. ASSUME NEW x \in Listed, x # p, x # n, x # prv[p], nxt[x] # NULL
              PROVE  nxt[x] \in Listed \ {p, n} /\ r[x] < r[nxt[x]]
            BY <1>1, <1>3, <2>1, <3>4 DEF Ranks, Inductive, LinksAgree, Listed
        <3>5. nxt'[p] = nxt[n] /\ nxt'[n] = p /\ (prv[p] # NULL => nxt'[prv[p]] = n)
            BY <1>1, <1>2, <3>1, <3>3 DEF Listed, Node, NULL
        <3>6. \A x \in Listed : x # p /\ x # n /\ x # prv[p] => nxt'[x] = nxt[x]
            BY <1>2 DEF Listed
        <3>7. ASSUME NEW x \in Listed, nxt'[x] # NULL PROVE s[x] < s[nxt'[x]]
            <4>1. CASE x = p
                BY <1>1, <3>1, <3>2, <3>5, <3>7, <4>1 DEF Listed
            <4>2. CASE x = n
                BY <3>1, <3>5, <4>2
            <4>3. CASE x = prv[p] /\ x # p /\ x # n
                <5>1. r[x] < r[p] /\ nxt'[x] = n /\ s[x] = r[x]
                    BY <3>1, <3>3, <3>5, <4>3 DEF Listed, Node, NULL
                <5> QED BY <3>1, <5>1
            <4>4. CASE x # p /\ x # n /\ x # prv[p]
                <5>1. nxt'[x] = nxt[x] /\ nxt[x] \in Listed \ {p, n} /\ r[x] < r[nxt[x]]
                    BY <3>4, <3>6, <3>7, <4>4
                <5> QED BY <3>1, <4>4, <5>1 DEF Listed
            <4> QED BY <4>1, <4>2, <4>3, <4>4
        <3> QED BY <1>4, <3>1, <3>7
    <2> QED BY <2>2 DEF NoRing, Ranks
<1> QED BY <1>2, <1>5, <1>6, <1>7 DEF Inductive, QuestionStands

\* What leaves the list alone, and at most withdraws the question.
LEMMA OthersKeepList ==
    ASSUME Inductive, UNCHANGED <<first, nxt, prv, file>>,
           confirming' \in {confirming, NULL}
    PROVE  Inductive'
<1>1. Listed' = Listed
    BY DEF Listed
<1> QED BY <1>1 DEF Inductive, ListType, LinksAgree, NoRing, Ranks, QuestionStands

\* Every step keeps the links.
LEMMA StepKeepsList == Inductive /\ [Next]_vars => Inductive'
<1> SUFFICES ASSUME Inductive, [Next]_vars PROVE Inductive'
    OBVIOUS
<1>1. CASE add_profile
    BY <1>1, AddKeepsList
<1>2. CASE remove_profile
    BY <1>2, RemoveKeepsList
<1>3. ASSUME NEW p \in Listed, reload_profile(p) PROVE Inductive'
    BY <1>3, ReloadKeepsList
<1>4. ASSUME NEW p \in Listed, move_profile_up(p) PROVE Inductive'
    BY <1>4, MoveUpKeepsList
<1>5. ASSUME NEW p \in Listed, move_profile_down(p) PROVE Inductive'
    BY <1>5, MoveDownKeepsList
<1>6. ASSUME NEW p \in Listed, confirm_removal(p) PROVE Inductive'
    <2>1. Listed' = Listed
        BY <1>6 DEF confirm_removal, list_vars, Listed
    <2> QED BY <1>6, <2>1 DEF confirm_removal, may_be_removed, list_vars, Inductive,
                              ListType, LinksAgree, NoRing, Ranks,
                              QuestionStands
<1>7. CASE abort_removal
    BY <1>7, OthersKeepList DEF abort_removal, list_vars
<1>8. ASSUME NEW marked \in SUBSET Listed, start_executing_marked(marked)
      PROVE  Inductive'
    BY <1>8, OthersKeepList DEF start_executing_marked
<1>9. CASE do_execute_element \/ fail \/ stop_ourselves
    BY <1>9, OthersKeepList DEF do_execute_element, fail, stop_ourselves, list_vars
<1>10. CASE handle_ctrl_msg
    BY <1>10, OthersKeepList DEF handle_ctrl_msg
<1>11. CASE wait_for_the_backend
    BY <1>11, OthersKeepList DEF wait_for_the_backend
<1>12. CASE UNCHANGED vars
    BY <1>12, OthersKeepList DEF vars, list_vars
<1> QED BY <1>1, <1>2, <1>3, <1>4, <1>5, <1>6, <1>7, <1>8, <1>9, <1>10, <1>11, <1>12
        DEF Next

\* Next and prev always agree, for any files, however many profiles there are and
\* in whatever order they are added, removed, moved and reloaded during runs.
THEOREM LinksAlwaysAgree == Spec => []LinksAgree
<1>1. Inductive => LinksAgree
    BY DEF Inductive
<1> QED BY <1>1, InitList, StepKeepsList, PTL DEF Spec

-----------------------------------------------------------------------------
(***************************************************************************)
(* The row: the pointers implement the list that the user sees.  What next *)
(* leads along is a recursion on the number of profiles in memory, so that *)
(* facts about it are proved by taking the least number they fail for.     *)
(***************************************************************************)

\* The least element of a set of natural numbers.
LEMMA LeastOf ==
    ASSUME NEW S \in SUBSET Nat, NEW m \in S
    PROVE  \E n \in S : \A i \in S : n <= i
<1>. DEFINE Less == OpToRel(<, Nat)
<1>1. PICK n \in S : \A i \in S : <<i, n>> \notin Less
  BY WFMin, NatLessThanWellFounded
<1>2. \A i \in S : i < n => <<i, n>> \in Less
  BY DEF OpToRel
<1>3. \A i \in S : ~(i < n) /\ i \in Nat /\ n \in Nat
  BY <1>1, <1>2
<1>. QED  BY <1>3

\* One round of a walk along next that puts together what H says of the profiles.
Walk(H, F, n) ==
    [p \in 0 .. MaxNodes |->
        IF n = 0 \/ p = NULL THEN <<>> ELSE H[p] \o F[n - 1][nxt[p]]]

\* The recursions of the model that follow next do define something.
LEMMA WalkExists ==
    ASSUME NEW H
    PROVE  \E F : F = [n \in 0 .. MaxNodes |-> Walk(H, F, n)]
<1>. DEFINE M == 0 .. MaxNodes
            Solves(F, n) == F = [x \in M |-> F[x]] /\ \A m \in 0 .. n : F[m] = Walk(H, F, m)
            Open == {n \in M : ~ \E F : Solves(F, n)}
<1>0. MaxNodes \in Nat
  BY ListAssumption
<1>1. Open = {}
  <2>. SUFFICES ASSUME Open # {} PROVE FALSE
    OBVIOUS
  <2>1. PICK n \in Open : \A i \in Open : n <= i
    <3>. HIDE DEF Open
    <3>1. Open \in SUBSET Nat
      BY <1>0 DEF Open
    <3>. QED  BY <3>1, LeastOf
  <2>2. CASE n = 0
    <3>. DEFINE F == [x \in M |-> [p \in M |-> <<>>]]
    <3>1. F[0] = Walk(H, F, 0)
      BY <1>0 DEF Walk
    <3>2. Solves(F, 0)
      BY <3>1, <1>0
    <3>. QED  BY <2>2, <3>2
  <2>3. CASE n # 0
    <3>1. n - 1 \in M /\ n \in M /\ n \in Nat /\ n - 1 \in Nat /\ n - 1 \notin Open
      BY <1>0, <2>1, <2>3
    <3>2. PICK F : Solves(F, n - 1)
      BY <3>1
    <3>. DEFINE G == [x \in M |-> IF x = n THEN Walk(H, F, n) ELSE F[x]]
    <3>3. G[n] = Walk(H, F, n) /\ \A m \in M : m # n => G[m] = F[m]
      BY <3>1
    <3>3a. G = [x \in M |-> G[x]]
      OBVIOUS
    <3>. HIDE DEF G
    <3>4. \A m \in 1 .. n : m - 1 \in M /\ m - 1 # n
      BY <3>1, <1>0
    <3>5. \A m \in 0 .. n : Walk(H, G, m) = Walk(H, F, m)
      <4>1. \A m \in 1 .. n : G[m - 1] = F[m - 1]
        BY <3>3, <3>4
      <4>2. \A m \in 1 .. n : Walk(H, G, m) = Walk(H, F, m)
        BY <4>1 DEF Walk
      <4>3. Walk(H, G, 0) = Walk(H, F, 0)
        BY DEF Walk
      <4>4. \A m \in 0 .. n : m = 0 \/ m \in 1 .. n
        BY <3>1
      <4>. QED  BY <4>2, <4>3, <4>4
    <3>6. \A m \in 0 .. n - 1 : G[m] = F[m] /\ F[m] = Walk(H, F, m)
      <4>1. \A m \in 0 .. n - 1 : m \in M /\ m # n
        BY <3>1, <1>0
      <4>. QED  BY <4>1, <3>2, <3>3
    <3>7. \A m \in 0 .. n : G[m] = Walk(H, G, m)
      <4>1. \A m \in 0 .. n : m = n \/ m \in 0 .. n - 1
        BY <3>1
      <4>. QED  BY <4>1, <3>3, <3>5, <3>6
    <3>8. Solves(G, n)
      BY <3>3a, <3>7
    <3>. QED  BY <2>1, <3>8
  <2>. QED  BY <2>2, <2>3
<1>2. PICK F : Solves(F, MaxNodes)
  BY <1>0, <1>1
<1>. QED  BY <1>2

\* Following is such a walk.
Itself == [p \in 0 .. MaxNodes |-> <<p>>]
Round(F, n) == Walk(Itself, F, n)

\* The walk of the model from profile to profile is one that exists.
LEMMA FollowingIs ==
    \A n \in 0 .. MaxNodes : Following[n] = Round(Following, n)
<1>. DEFINE M == 0 .. MaxNodes
            Says(F, n) == [p \in M |-> IF n = 0 \/ p = NULL THEN <<>> ELSE <<p>> \o F[n - 1][nxt[p]]]
            W == CHOOSE F : F = [n \in M |-> Says(F, n)]
<1>1. \A F, n : Says(F, n) = Walk(Itself, F, n)
  BY DEF Walk, Itself
<1>2. PICK F : F = [n \in M |-> Walk(Itself, F, n)]
  BY WalkExists
<1>3. F = [n \in M |-> Says(F, n)]
  <2>. HIDE DEF Says
  <2>. QED  BY <1>1, <1>2
<1>4. W = [n \in M |-> Says(W, n)]
  <2>. HIDE DEF Says
  <2>. QED  BY <1>3
<1>5. Following = W
  BY DEF Following
<1>. HIDE DEF W, Says
<1>. QED  BY <1>1, <1>4, <1>5 DEF Round

\* The k profiles t are the list.
Row(k, t) ==
    /\ k \in Nat \ {0}
    /\ t \in [1 .. k -> Listed]
    /\ t[1] = first
    /\ \A i \in 1 .. k : nxt[t[i]] = IF i = k THEN NULL ELSE t[i + 1]
    /\ \A i, j \in 1 .. k : t[i] = t[j] => i = j
    /\ \A p \in Listed : \E i \in 1 .. k : t[i] = p

\* There are no more profiles in the list than in memory.
LEMMA RowFits ==
    ASSUME NEW k, NEW t, Row(k, t)
    PROVE  k <= MaxNodes
<1>1. MaxNodes \in Nat /\ k \in Nat /\ Node = 1 .. MaxNodes
  BY ListAssumption DEF Node, Row
<1>2. /\ IsFiniteSet(Node) /\ Cardinality(Node) = MaxNodes
      /\ IsFiniteSet(1 .. k) /\ Cardinality(1 .. k) = k
  BY <1>1, FS_Interval
<1>3. t \in [1 .. k -> Node]
  BY DEF Row, Listed
<1>. SUFFICES ASSUME MaxNodes < k PROVE FALSE
  BY <1>1
<1>4. \E i, j \in 1 .. k : i # j /\ t[i] = t[j]
  BY <1>2, <1>3, FS_PigeonHole
<1>. QED  BY <1>4 DEF Row

\* Before the first profile there is none, before another one the one above it.
LEMMA RowBack ==
    ASSUME NEW k, NEW t, Row(k, t), LinksAgree, NEW i \in 1 .. k
    PROVE  prv[t[i]] = IF i = 1 THEN NULL ELSE t[i - 1]
<1>1. CASE i = 1
  BY <1>1 DEF Row, LinksAgree
<1>2. CASE i # 1
  <2>1. i - 1 \in 1 .. k /\ i - 1 # k /\ (i - 1) + 1 = i
    BY <1>2 DEF Row
  <2>2. t[i] \in Listed /\ t[i - 1] \in Listed /\ nxt[t[i - 1]] = t[i]
    BY <2>1 DEF Row
  <2>3. t[i] # NULL
    BY <2>2 DEF Listed, Node, NULL
  <2>. QED  BY <1>2, <2>2, <2>3 DEF LinksAgree
<1>. QED  BY <1>1, <1>2

\* A function on 1 .. k is a sequence.
LEMMA RowOfAny ==
    ASSUME NEW S, NEW k \in Nat, NEW o \in [1 .. k -> S]
    PROVE  o \in Seq(S) /\ Len(o) = k /\ DOMAIN o = 1 .. k
<1>1. o \in Seq(S)
  BY SeqDef
<1>2. Len(o) \in Nat /\ DOMAIN o = 1 .. Len(o) /\ DOMAIN o = 1 .. k
  BY <1>1, LenProperties
<1>. QED  BY <1>1, <1>2

\* What the walk passes from profile i on is the rest of the row.
RestFrom(k, t, i) == [j \in 1 .. k - i + 1 |-> t[i + j - 1]]

\* By the least n it fails for: a walk long enough passes the rest of the row.
LEMMA RestOfRow ==
    ASSUME NEW k, NEW t, Row(k, t)
    PROVE  \A n \in 0 .. MaxNodes : \A i \in 1 .. k : k - i < n =>
               Following[n][t[i]] = RestFrom(k, t, i)
<1>. DEFINE Rest(i) == RestFrom(k, t, i)
            Holds(n) == \A i \in 1 .. k : k - i < n => Following[n][t[i]] = Rest(i)
            Open == {n \in 0 .. MaxNodes : ~Holds(n)}
<1>0. MaxNodes \in Nat /\ k \in Nat \ {0}
  BY ListAssumption DEF Row
<1>. SUFFICES ASSUME Open # {} PROVE FALSE
  OBVIOUS
<1>1. PICK n \in Open : \A i \in Open : n <= i
  <2>. HIDE DEF Open
  <2>1. Open \in SUBSET Nat
    BY <1>0 DEF Open
  <2>. QED  BY <2>1, LeastOf
<1>2. PICK i \in 1 .. k : k - i < n /\ Following[n][t[i]] # Rest(i)
  OBVIOUS
<1>3. /\ n \in Nat \ {0} /\ n - 1 \in 0 .. MaxNodes /\ n \in 0 .. MaxNodes
      /\ i \in Nat \ {0} /\ i <= k
  BY <1>0, <1>2
<1>4. Holds(n - 1)
  <2>1. n - 1 \notin Open
    <3>. HIDE DEF Open
    <3>. QED  BY <1>1, <1>3
  <2>. QED  BY <1>3, <2>1
<1>5. /\ \A j \in 1 .. k : t[j] \in Node /\ t[j] # NULL /\ t[j] \in 0 .. MaxNodes
      /\ NULL \in 0 .. MaxNodes
      /\ nxt[t[i]] = IF i = k THEN NULL ELSE t[i + 1]
  <2>1. \A p \in Listed : p \in Node /\ p # NULL /\ p \in 0 .. MaxNodes
    BY <1>0 DEF Listed, Node, NULL
  <2>2. \A j \in 1 .. k : t[j] \in Listed
    BY DEF Row
  <2>3. nxt[t[i]] = IF i = k THEN NULL ELSE t[i + 1]
    BY DEF Row
  <2>4. NULL \in 0 .. MaxNodes
    BY <1>0 DEF NULL
  <2>. QED  BY <2>1, <2>2, <2>3, <2>4
<1>6. Following[n] = Round(Following, n) /\ Following[n - 1] = Round(Following, n - 1)
  BY <1>3, FollowingIs
<1>7. Following[n][t[i]] = <<t[i]>> \o Following[n - 1][nxt[t[i]]]
  BY <1>3, <1>5, <1>6 DEF Round, Walk, Itself
<1>8. Following[n - 1][NULL] = <<>>
  BY <1>5, <1>6 DEF Round, Walk, Itself
<1>. HIDE DEF Open, Rest, Holds
<1>9. \A m \in 1 .. k : Rest(m) \in Seq(Node) /\ Len(Rest(m)) = k - m + 1
  <2>1. ASSUME NEW m \in 1 .. k PROVE Rest(m) \in Seq(Node) /\ Len(Rest(m)) = k - m + 1
    <3>1. k - m + 1 \in Nat
      BY <1>0
    <3>2. \A j \in 1 .. k - m + 1 : m + j - 1 \in 1 .. k
      BY <1>0
    <3>3. Rest(m) \in [1 .. k - m + 1 -> Node]
      BY <1>5, <3>2 DEF Rest, RestFrom
    <3>. QED  BY <3>1, <3>3, RowOfAny
  <2>. QED  BY <2>1
<1>10. <<t[i]>> \in Seq(Node) /\ Len(<<t[i]>>) = 1 /\ <<t[i]>>[1] = t[i]
  BY <1>5
<1>11. CASE i = k
  <2>1. Following[n][t[i]] = <<t[i]>>
    BY <1>5, <1>7, <1>8, <1>10, <1>11, ConcatEmptySeq
  <2>2. Rest(i) = <<t[i]>>
    <3>1. Len(Rest(i)) = 1 /\ Rest(i)[1] = t[i]
      BY <1>0, <1>9, <1>11 DEF Rest, RestFrom
    <3>2. \A j \in 1 .. 1 : j = 1
      OBVIOUS
    <3>3. \A j \in 1 .. Len(Rest(i)) : Rest(i)[j] = <<t[i]>>[j]
      BY <1>10, <3>1, <3>2
    <3>. QED  BY <1>9, <1>10, <3>1, <3>3, SeqEqual
  <2>. QED  BY <1>2, <2>1, <2>2
<1>12. CASE i # k
  <2>1. i + 1 \in 1 .. k /\ k - (i + 1) < n - 1
    BY <1>0, <1>2, <1>3, <1>12
  <2>2. Following[n - 1][t[i + 1]] = Rest(i + 1)
    BY <1>4, <2>1 DEF Holds
  <2>3. Following[n][t[i]] = <<t[i]>> \o Rest(i + 1)
    BY <1>5, <1>7, <1>12, <2>2
  <2>4. /\ <<t[i]>> \o Rest(i + 1) \in Seq(Node)
        /\ Len(<<t[i]>> \o Rest(i + 1)) = 1 + (k - (i + 1) + 1)
        /\ \A j \in 1 .. 1 + (k - (i + 1) + 1) : (<<t[i]>> \o Rest(i + 1))[j] =
              IF j <= 1 THEN <<t[i]>>[j] ELSE Rest(i + 1)[j - 1]
    BY <1>9, <1>10, <2>1, ConcatProperties
  <2>5. Rest(i) \in Seq(Node) /\ Len(Rest(i)) = k - i + 1 /\ 1 + (k - (i + 1) + 1) = k - i + 1
    BY <1>3, <1>0, <1>9
  <2>6. ASSUME NEW j \in 1 .. k - i + 1
        PROVE  (<<t[i]>> \o Rest(i + 1))[j] = Rest(i)[j]
    <3>1. Rest(i)[j] = t[i + j - 1]
      BY DEF Rest, RestFrom
    <3>2. CASE j = 1
      <4>1. (<<t[i]>> \o Rest(i + 1))[j] = t[i]
        BY <1>10, <2>4, <2>5, <3>2
      <4>2. i + j - 1 = i
        BY <1>3, <3>2
      <4>. QED  BY <3>1, <4>1, <4>2
    <3>3. CASE j # 1
      <4>1. j - 1 \in 1 .. k - (i + 1) + 1 /\ (i + 1) + (j - 1) - 1 = i + j - 1 /\ ~(j <= 1)
        BY <1>0, <1>3, <3>3
      <4>2. Rest(i + 1)[j - 1] = t[i + j - 1]
        BY <4>1 DEF Rest, RestFrom
      <4>. QED  BY <2>4, <2>5, <3>1, <4>1, <4>2
    <3>. QED  BY <3>2, <3>3
  <2>7. <<t[i]>> \o Rest(i + 1) = Rest(i)
    BY <2>4, <2>5, <2>6, SeqEqual
  <2>. QED  BY <1>2, <2>3, <2>7
<1>. QED  BY <1>11, <1>12

\* The pointers show the row.
ShowsRow == \A k, t : Row(k, t) => Chain = t

\* No walk is cut off by the bound: there are no more profiles than nodes.
LEMMA ChainIsRow == ShowsRow
<1>. SUFFICES ASSUME NEW k, NEW t, Row(k, t) PROVE Chain = t
  BY DEF ShowsRow
<1>0. MaxNodes \in Nat /\ k \in Nat \ {0} /\ t[1] = first /\ t[1] \in Node
  BY ListAssumption DEF Row, Listed
<1>1. k <= MaxNodes
  BY RowFits
<1>2. MaxNodes \in 0 .. MaxNodes /\ 1 \in 1 .. k /\ k - 1 < MaxNodes /\ k - 1 + 1 = k
  BY <1>0, <1>1
<1>3. Following[MaxNodes][t[1]] = [j \in 1 .. k - 1 + 1 |-> t[1 + j - 1]]
  <2>1. \A n \in 0 .. MaxNodes : \A i \in 1 .. k : k - i < n =>
               Following[n][t[i]] = RestFrom(k, t, i)
    BY RestOfRow, Zenon
  <2>. QED  BY <1>2, <2>1 DEF RestFrom
<1>4. \A j \in 1 .. k : 1 + j - 1 = j
  BY <1>0
<1>5. [j \in 1 .. k |-> t[1 + j - 1]] = t
  BY <1>4 DEF Row
<1>. QED  BY <1>0, <1>2, <1>3, <1>5 DEF Chain

\* The files shown.
Shown(k, t) == [i \in 1 .. k |-> file[t[i]]]

\* What the user sees is a sequence of files, as long as the row.
LEMMA ShownFiles ==
    ASSUME NEW k, NEW t, Row(k, t), ListType
    PROVE  /\ Shown(k, t) \in [1 .. k -> Files] /\ Shown(k, t) \in Seq(Files)
           /\ Len(Shown(k, t)) = k /\ DOMAIN Shown(k, t) = 1 .. k /\ k \in Nat \ {0}
           /\ \A i \in 1 .. k : Shown(k, t)[i] = file[t[i]]
<1>1. k \in Nat \ {0} /\ \A i \in 1 .. k : t[i] \in Listed
  BY DEF Row
<1>2. Shown(k, t) \in [1 .. k -> Files]
  BY <1>1, ListedFiles DEF Shown
<1>3. \A i \in 1 .. k : Shown(k, t)[i] = file[t[i]]
  BY DEF Shown
<1>. QED  BY <1>1, <1>2, <1>3, RowOfAny

\* The steps of the row that the user sees.
Added(a, b)   == \E f \in Files : b = Append(a, f)
Removed(a, b) == \E i \in DOMAIN a : /\ Len(a) > 1
                                     /\ b = SubSeq(a, 1, i - 1) \o SubSeq(a, i + 1, Len(a))
Moved(a, b)   == \E i \in 2 .. Len(a) : b = [a EXCEPT ![i - 1] = a[i], ![i] = a[i - 1]]

\* What they look like place by place.
LEMMA AddedPlaces ==
    ASSUME NEW k \in Nat, NEW a \in [1 .. k -> Files], NEW b \in [1 .. k + 1 -> Files],
           \A i \in 1 .. k : b[i] = a[i]
    PROVE  Added(a, b)
<1>1. /\ a \in Seq(Files) /\ Len(a) = k /\ k + 1 \in Nat
      /\ b \in Seq(Files) /\ Len(b) = k + 1 /\ b[k + 1] \in Files
  BY RowOfAny
<1>. DEFINE c == Append(a, b[k + 1])
<1>2. c \in Seq(Files) /\ Len(c) = k + 1 /\ c[k + 1] = b[k + 1] /\ \A i \in 1 .. k : c[i] = a[i]
  BY <1>1
<1>. HIDE DEF c
<1>3. \A i \in 1 .. k + 1 : i = k + 1 \/ i \in 1 .. k
  OBVIOUS
<1>4. \A i \in 1 .. k + 1 : b[i] = c[i]
  BY <1>2, <1>3
<1>5. b = c
  BY <1>1, <1>2, <1>4, SeqEqual
<1>. QED  BY <1>1, <1>5 DEF Added, c

\* One place fewer, those behind it one place further up.
LEMMA RemovedPlaces ==
    ASSUME NEW k \in Nat, NEW a \in [1 .. k -> Files], NEW b \in [1 .. k - 1 -> Files],
           NEW j \in 1 .. k, k > 1, \A i \in 1 .. k - 1 : i < j => b[i] = a[i],
           \A i \in 1 .. k - 1 : j <= i => b[i] = a[i + 1]
    PROVE  Removed(a, b)
<1>1. /\ a \in Seq(Files) /\ Len(a) = k /\ k - 1 \in Nat /\ DOMAIN a = 1 .. k
      /\ b \in Seq(Files) /\ Len(b) = k - 1
  BY RowOfAny
<1>. DEFINE x == SubSeq(a, 1, j - 1)
            y == SubSeq(a, j + 1, Len(a))
            c == x \o y
<1>2. x \in Seq(Files) /\ Len(x) = j - 1 /\ \A i \in 1 .. j - 1 : x[i] = a[i]
  <2>1. 1 \in Int /\ j - 1 \in Int /\ \A i \in 1 .. j - 1 : a[i] \in Files
    OBVIOUS
  <2>2. /\ x \in Seq(Files)
        /\ Len(x) = IF 1 <= j - 1 THEN (j - 1) - 1 + 1 ELSE 0
        /\ \A i \in 1 .. (j - 1) - 1 + 1 : x[i] = a[1 + i - 1]
    BY <2>1, SubSeqProperties
  <2>3. (j - 1) - 1 + 1 = j - 1 /\ \A i \in 1 .. j - 1 : 1 + i - 1 = i
    OBVIOUS
  <2>4. Len(x) = j - 1
    BY <2>2
  <2>. HIDE DEF x
  <2>. QED  BY <2>2, <2>3, <2>4
<1>3. y \in Seq(Files) /\ Len(y) = k - j /\ \A i \in 1 .. k - j : y[i] = a[j + i]
  <2>1. k \in Int /\ j + 1 \in Int /\ \A i \in j + 1 .. k : a[i] \in Files
    OBVIOUS
  <2>2. /\ y \in Seq(Files)
        /\ Len(y) = IF j + 1 <= k THEN k - (j + 1) + 1 ELSE 0
        /\ \A i \in 1 .. k - (j + 1) + 1 : y[i] = a[j + 1 + i - 1]
    BY <1>1, <2>1, SubSeqProperties
  <2>3. k - (j + 1) + 1 = k - j /\ \A i \in 1 .. k - j : j + 1 + i - 1 = j + i
    OBVIOUS
  <2>4. Len(y) = k - j
    BY <2>2
  <2>. HIDE DEF y
  <2>. QED  BY <2>2, <2>3, <2>4
<1>. HIDE DEF x, y
<1>4. /\ c \in Seq(Files) /\ Len(c) = (j - 1) + (k - j)
      /\ \A i \in 1 .. (j - 1) + (k - j) : c[i] = IF i <= j - 1 THEN x[i] ELSE y[i - (j - 1)]
  <2>1. /\ c \in Seq(Files) /\ Len(c) = Len(x) + Len(y)
        /\ \A i \in 1 .. Len(x) + Len(y) : c[i] = IF i <= Len(x) THEN x[i] ELSE y[i - Len(x)]
    BY <1>2, <1>3, ConcatProperties
  <2>. HIDE DEF c
  <2>. QED  BY <1>2, <1>3, <2>1
<1>. HIDE DEF c
<1>5. ASSUME NEW i \in 1 .. k - 1 PROVE b[i] = c[i]
  <2>0. i \in 1 .. (j - 1) + (k - j)
    OBVIOUS
  <2>1. CASE i < j
    <3>1. i \in 1 .. j - 1 /\ i <= j - 1
      BY <2>1
    <3>. QED  BY <1>2, <1>4, <2>0, <2>1, <3>1
  <2>2. CASE ~(i < j)
    <3>1. i - (j - 1) \in 1 .. k - j /\ ~(i <= j - 1) /\ j + (i - (j - 1)) = i + 1
      BY <2>2
    <3>. QED  BY <1>3, <1>4, <2>0, <2>2, <3>1
  <2>. QED  BY <2>1, <2>2
<1>6. b = c
  <2>1. Len(b) = Len(c)
    BY <1>1, <1>4
  <2>. QED  BY <1>1, <1>4, <1>5, <2>1, SeqEqual
<1>. QED  BY <1>1, <1>6 DEF Removed, x, y, c

\* Two neighbours change places.
LEMMA MovedPlaces ==
    ASSUME NEW k \in Nat, NEW a \in [1 .. k -> Files], NEW b \in [1 .. k -> Files],
           NEW j \in 2 .. k, b[j - 1] = a[j], b[j] = a[j - 1],
           \A i \in 1 .. k : i # j /\ i # j - 1 => b[i] = a[i]
    PROVE  Moved(a, b)
<1>1. Len(a) = k
  BY RowOfAny
<1>2. j \in 1 .. k /\ j - 1 \in 1 .. k /\ j # j - 1
  OBVIOUS
<1>3. b = [a EXCEPT ![j - 1] = a[j], ![j] = a[j - 1]]
  BY <1>2
<1>. QED  BY <1>1, <1>3 DEF Moved

-----------------------------------------------------------------------------
\* The keys, one by one: what becomes of the row, and of the files it shows.
LEMMA AddShown ==
    ASSUME Inductive, Inductive', add_profile, NEW k, NEW t, Row(k, t)
    PROVE  \E u : Row(k + 1, u)' /\ Added(Shown(k, t), Shown(k + 1, u)')
<1>1. PICK new \in Node : new = NewNode /\ new \notin Listed /\ new # NULL
  BY NewIsFree DEF add_profile
<1>. DEFINE last == CHOOSE p \in Listed : nxt[p] = NULL
            u == [i \in 1 .. k + 1 |-> IF i = k + 1 THEN new ELSE t[i]]
<1>2. last \in Listed /\ nxt[last] = NULL
  BY LastExists DEF Inductive
<1>3. /\ \E f \in Files : file' = [file EXCEPT ![new] = f]
      /\ nxt' = [nxt EXCEPT ![last] = new, ![new] = NULL]
      /\ first' = first
  BY <1>1 DEF add_profile
<1>. HIDE DEF last
<1>4. Listed' = Listed \cup {new}
  BY <1>1, <1>3, ListAssumption DEF Listed, Inductive, ListType
<1>5. /\ k \in Nat \ {0} /\ t[1] = first /\ \A i \in 1 .. k : t[i] \in Listed /\ t[i] \in Node
      /\ \A i \in 1 .. k : nxt[t[i]] = IF i = k THEN NULL ELSE t[i + 1]
      /\ \A i, j \in 1 .. k : t[i] = t[j] => i = j
      /\ \A p \in Listed : \E i \in 1 .. k : t[i] = p
  BY DEF Row, Listed
<1>6. t[k] = last
  <2>1. PICK i \in 1 .. k : t[i] = last
    BY <1>2, <1>5
  <2>2. i # k => t[i + 1] \in Listed /\ t[i + 1] = NULL
    BY <1>2, <1>5, <2>1
  <2>. QED  BY <1>5, <2>1, <2>2 DEF Listed, Node, NULL
<1>7. /\ u[k + 1] = new /\ \A i \in 1 .. k : u[i] = t[i]
      /\ \A i \in 1 .. k + 1 : i = k + 1 \/ i \in 1 .. k
      /\ u \in [1 .. k + 1 -> Listed']
  BY <1>4, <1>5
<1>. HIDE DEF u
<1>8. Row(k + 1, u)'
  <2>1. u[1] = first'
    BY <1>3, <1>5, <1>7
  <2>2. ASSUME NEW i \in 1 .. k + 1 PROVE nxt'[u[i]] = IF i = k + 1 THEN NULL ELSE u[i + 1]
    <3>1. CASE i = k + 1
      BY <1>1, <1>3, <1>7, <3>1 DEF Inductive, ListType
    <3>2. CASE i = k
      <4>1. nxt'[t[k]] = new
        BY <1>1, <1>2, <1>3, <1>6 DEF Inductive, ListType, Listed
      <4>. QED  BY <1>5, <1>7, <3>2, <4>1
    <3>3. CASE i \in 1 .. k - 1
      <4>1. t[i] # last /\ t[i] # new /\ i \in 1 .. k /\ i # k /\ i + 1 \in 1 .. k
        BY <1>1, <1>5, <1>6, <3>3
      <4>2. nxt'[t[i]] = nxt[t[i]]
        BY <1>3, <4>1, <1>5 DEF Inductive, ListType
      <4>. QED  BY <1>5, <1>7, <4>1, <4>2
    <3>4. i = k + 1 \/ i = k \/ i \in 1 .. k - 1
      BY <1>5
    <3>. QED  BY <3>1, <3>2, <3>3, <3>4
  <2>3. \A i, j \in 1 .. k + 1 : u[i] = u[j] => i = j
    BY <1>1, <1>5, <1>7
  <2>4. \A p \in Listed' : \E i \in 1 .. k + 1 : u[i] = p
    <3>1. \A i \in 1 .. k : i \in 1 .. k + 1
      BY <1>5
    <3>2. k + 1 \in 1 .. k + 1
      BY <1>5
    <3>. QED  BY <1>4, <1>5, <1>7, <3>1, <3>2
  <2>5. k + 1 \in Nat \ {0}
    BY <1>5
  <2>. QED  BY <1>7, <2>1, <2>2, <2>3, <2>4, <2>5 DEF Row
<1>9. Added(Shown(k, t), Shown(k + 1, u)')
  <2>1. ListType /\ ListType'
    BY DEF Inductive
  <2>2. Shown(k, t) \in [1 .. k -> Files] /\ \A i \in 1 .. k : Shown(k, t)[i] = file[t[i]]
    BY <2>1, ShownFiles
  <2>3. \A p \in Listed' : file'[p] \in Files
    BY <2>1 DEF ListType, Listed
  <2>4. Shown(k + 1, u)' = [i \in 1 .. k + 1 |-> file'[u[i]]]
    BY DEF Shown
  <2>5. Shown(k + 1, u)' \in [1 .. k + 1 -> Files]
    BY <1>7, <2>3, <2>4
  <2>6. \A i \in 1 .. k : file'[u[i]] = file[t[i]] /\ i \in 1 .. k + 1
    BY <1>1, <1>3, <1>5, <1>7 DEF Inductive, ListType
  <2>7. \A i \in 1 .. k : Shown(k + 1, u)'[i] = Shown(k, t)[i]
    BY <2>2, <2>4, <2>6
  <2>. DEFINE a == Shown(k, t)
              b == Shown(k + 1, u)'
  <2>8. k \in Nat /\ a \in [1 .. k -> Files] /\ b \in [1 .. k + 1 -> Files] /\ \A i \in 1 .. k : b[i] = a[i]
    BY <1>5, <2>2, <2>5, <2>7
  <2>. HIDE DEF a, b
  <2>9. Added(a, b)
    BY <2>8, AddedPlaces
  <2>. QED  BY <2>9 DEF a, b
<1>. QED  BY <1>8, <1>9

\* Removing a profile takes its place out of the row, at an end or in the middle.
LEMMA RemoveShown ==
    ASSUME Inductive, Inductive', remove_profile, NEW k, NEW t, Row(k, t)
    PROVE  \E u : Row(k - 1, u)' /\ Removed(Shown(k, t), Shown(k - 1, u)')
<1>. DEFINE p == confirming
<1>1. p \in Listed /\ nxt[first] # NULL /\ p \in Node
  BY DEF Inductive, QuestionStands, remove_profile, Listed
<1>2. /\ first' = IF prv[p] = NULL THEN nxt[p] ELSE first
      /\ nxt' = IF prv[p] # NULL THEN [nxt EXCEPT ![prv[p]] = nxt[p]] ELSE nxt
      /\ file' = [file EXCEPT ![p] = Unused]
  BY DEF remove_profile, first_without
<1>. HIDE DEF p
<1>3. Listed' = Listed \ {p}
  BY <1>1, <1>2, ListAssumption DEF Listed, Inductive, ListType
<1>5. /\ k \in Nat \ {0} /\ t[1] = first /\ \A i \in 1 .. k : t[i] \in Listed /\ t[i] \in Node
      /\ \A i \in 1 .. k : nxt[t[i]] = IF i = k THEN NULL ELSE t[i + 1]
      /\ \A i, j \in 1 .. k : t[i] = t[j] => i = j
      /\ \A x \in Listed : \E i \in 1 .. k : t[i] = x
  BY DEF Row, Listed
<1>6. PICK j \in 1 .. k : t[j] = p
  BY <1>1, <1>5
<1>7. k > 1
  BY <1>1, <1>5
<1>8. /\ prv[p] = IF j = 1 THEN NULL ELSE t[j - 1]
      /\ nxt[p] = IF j = k THEN NULL ELSE t[j + 1]
      /\ NULL \notin Listed
  <2>1. LinksAgree
    BY DEF Inductive
  <2>2. prv[t[j]] = IF j = 1 THEN NULL ELSE t[j - 1]
    BY <2>1, RowBack
  <2>. QED  BY <1>5, <1>6, <2>2 DEF Listed, Node, NULL
<1>. DEFINE at(i) == IF i < j THEN i ELSE i + 1
            u == [i \in 1 .. k - 1 |-> t[at(i)]]
<1>9. \A i \in 1 .. k - 1 : at(i) \in 1 .. k /\ at(i) # j /\ u[i] = t[at(i)]
  BY <1>5, <1>6
<1>10. u \in [1 .. k - 1 -> Listed']
  BY <1>3, <1>5, <1>6, <1>9
<1>. HIDE DEF u
<1>11. Row(k - 1, u)'
  <2>1. u[1] = first'
    <3>1. 1 \in 1 .. k - 1
      BY <1>5, <1>7
    <3>2. CASE j = 1
      BY <1>2, <1>5, <1>7, <1>8, <1>9, <3>1, <3>2
    <3>3. CASE j # 1
      <4>1. prv[p] # NULL
        BY <1>5, <1>6, <1>8, <3>3
      <4>2. at(1) = 1
        BY <1>6, <3>3
      <4>. QED  BY <1>2, <1>5, <1>9, <3>1, <4>1, <4>2
    <3>. QED  BY <3>2, <3>3
  <2>2. ASSUME NEW i \in 1 .. k - 1 PROVE nxt'[u[i]] = IF i = k - 1 THEN NULL ELSE u[i + 1]
    <3>1. CASE i = j - 1
      <4>1. at(i) = i /\ u[i] = t[j - 1] /\ j # 1 /\ j - 1 \in 1 .. k
        BY <1>5, <1>6, <1>9, <3>1
      <4>2. nxt'[t[j - 1]] = nxt[p]
        <5>1. prv[p] = t[j - 1] /\ t[j - 1] # NULL /\ t[j - 1] \in Node
          BY <1>5, <1>8, <4>1
        <5>. QED  BY <1>2, <5>1 DEF Inductive, ListType
      <4>3. CASE j = k
        BY <1>8, <3>1, <4>1, <4>2, <4>3
      <4>4. CASE j # k
        <5>1. i # k - 1 /\ i + 1 = j /\ i + 1 \in 1 .. k - 1 /\ at(i + 1) = j + 1
          BY <1>5, <1>6, <3>1, <4>4
        <5>. QED  BY <1>8, <1>9, <4>1, <4>2, <4>4, <5>1
      <4>. QED  BY <4>3, <4>4
    <3>2. CASE i # j - 1
      <4>1. at(i) \in 1 .. k /\ at(i) # j - 1 /\ u[i] = t[at(i)]
        BY <1>6, <1>9, <3>2
      <4>2. nxt'[t[at(i)]] = nxt[t[at(i)]]
        <5>1. prv[p] # NULL => prv[p] = t[j - 1] /\ j - 1 \in 1 .. k
          BY <1>5, <1>6, <1>8
        <5>2. prv[p] # NULL => t[at(i)] # prv[p]
          BY <1>5, <4>1, <5>1
        <5>. QED  BY <1>2, <1>5, <4>1, <5>2 DEF Inductive, ListType
      <4>3. CASE i = k - 1
        <5>1. at(i) = k
          BY <1>5, <1>6, <3>2, <4>3
        <5>. QED  BY <1>5, <4>1, <4>2, <4>3, <5>1
      <4>4. CASE i # k - 1
        <5>1. i + 1 \in 1 .. k - 1 /\ at(i + 1) = at(i) + 1 /\ at(i) # k
          BY <1>5, <1>6, <3>2, <4>4
        <5>. QED  BY <1>5, <1>9, <4>1, <4>2, <4>4, <5>1
      <4>. QED  BY <4>3, <4>4
    <3>. QED  BY <3>1, <3>2
  <2>3. \A i, h \in 1 .. k - 1 : u[i] = u[h] => i = h
    <3>1. \A i, h \in 1 .. k - 1 : at(i) = at(h) => i = h
      BY <1>6
    <3>. HIDE DEF at
    <3>. QED  BY <1>5, <1>9, <3>1
  <2>4. \A x \in Listed' : \E i \in 1 .. k - 1 : u[i] = x
    <3>1. ASSUME NEW x \in Listed' PROVE \E i \in 1 .. k - 1 : u[i] = x
      <4>1. PICK h \in 1 .. k : t[h] = x
        BY <1>3, <1>5
      <4>2. h # j
        BY <1>3, <1>6, <4>1
      <4>3. CASE h < j
        <5>1. h \in 1 .. k - 1 /\ at(h) = h
          BY <1>5, <1>6, <4>3
        <5>. QED  BY <1>9, <4>1, <5>1
      <4>4. CASE h > j
        <5>1. h - 1 \in 1 .. k - 1 /\ at(h - 1) = h
          BY <1>5, <1>6, <4>4
        <5>. QED  BY <1>9, <4>1, <5>1
      <4>. QED  BY <4>2, <4>3, <4>4
    <3>. QED  BY <3>1
  <2>5. k - 1 \in Nat \ {0}
    BY <1>5, <1>7
  <2>. QED  BY <1>10, <2>1, <2>2, <2>3, <2>4, <2>5 DEF Row
<1>12. Removed(Shown(k, t), Shown(k - 1, u)')
  <2>1. ListType /\ ListType'
    BY DEF Inductive
  <2>2. Shown(k, t) \in [1 .. k -> Files] /\ \A i \in 1 .. k : Shown(k, t)[i] = file[t[i]]
    BY <2>1, ShownFiles
  <2>3. \A x \in Listed' : file'[x] \in Files
    BY <2>1 DEF ListType, Listed
  <2>4. Shown(k - 1, u)' = [i \in 1 .. k - 1 |-> file'[u[i]]]
    BY DEF Shown
  <2>5. Shown(k - 1, u)' \in [1 .. k - 1 -> Files]
    BY <1>10, <2>3, <2>4
  <2>6. \A i \in 1 .. k - 1 : file'[u[i]] = file[t[at(i)]]
    BY <1>2, <1>5, <1>6, <1>9 DEF Inductive, ListType
  <2>7. \A i \in 1 .. k - 1 : Shown(k - 1, u)'[i] = Shown(k, t)[at(i)]
    BY <1>9, <2>2, <2>4, <2>6
  <2>. DEFINE a == Shown(k, t)
              b == Shown(k - 1, u)'
  <2>8. /\ k \in Nat /\ k > 1 /\ a \in [1 .. k -> Files] /\ b \in [1 .. k - 1 -> Files]
        /\ \A i \in 1 .. k - 1 : i < j => b[i] = a[i]
        /\ \A i \in 1 .. k - 1 : j <= i => b[i] = a[i + 1]
    BY <1>5, <1>6, <1>7, <2>2, <2>5, <2>7
  <2>. HIDE DEF a, b
  <2>9. Removed(a, b)
    BY <1>6, <2>8, RemovedPlaces, Zenon
  <2>. QED  BY <2>9 DEF a, b
<1>. QED  BY <1>11, <1>12

\* What a row is, without the definition.
LEMMA RowFacts ==
    ASSUME NEW k, NEW t, Row(k, t)
    PROVE  /\ k \in Nat \ {0} /\ t[1] = first /\ t \in [1 .. k -> Listed]
           /\ \A i \in 1 .. k : t[i] \in Listed /\ t[i] \in Node /\ t[i] # NULL
           /\ \A i \in 1 .. k : nxt[t[i]] = IF i = k THEN NULL ELSE t[i + 1]
           /\ \A i, j \in 1 .. k : t[i] = t[j] => i = j
           /\ \A x \in Listed : \E i \in 1 .. k : t[i] = x
<1>1. \A x \in Listed : x \in Node /\ x # NULL
  BY DEF Listed, Node, NULL
<1>2. /\ k \in Nat \ {0} /\ t[1] = first /\ t \in [1 .. k -> Listed]
      /\ \A i \in 1 .. k : t[i] \in Listed
  BY DEF Row
<1>3. /\ \A i \in 1 .. k : nxt[t[i]] = IF i = k THEN NULL ELSE t[i + 1]
      /\ \A i, j \in 1 .. k : t[i] = t[j] => i = j
      /\ \A x \in Listed : \E i \in 1 .. k : t[i] = x
  BY DEF Row
<1>. QED  BY <1>1, <1>2, <1>3

\* The new reading of a file takes the place of the old one.
LEMMA ReloadShown ==
    ASSUME Inductive, Inductive', NEW old \in Listed, reload_profile(old), NEW k, NEW t, Row(k, t)
    PROVE  \E u : Row(k, u)' /\ Shown(k, u)' = Shown(k, t)
<1>1. PICK new \in Node : new = NewNode /\ new \notin Listed /\ new # NULL
  BY NewIsFree DEF reload_profile
<1>2. /\ file' = [file EXCEPT ![new] = file[old], ![old] = Unused]
      /\ first' = IF prv[old] = NULL THEN new ELSE first
      /\ nxt' = [p \in Node |-> IF p = prv[old] THEN new
                                ELSE IF p = new THEN nxt[old] ELSE nxt[p]]
  BY <1>1 DEF reload_profile
<1>3. Listed' = (Listed \ {old}) \cup {new}
  BY <1>1, <1>2, ListAssumption, ListedFiles DEF Listed, Inductive, ListType
<1>5. /\ k \in Nat \ {0} /\ t[1] = first /\ t \in [1 .. k -> Listed]
      /\ \A i \in 1 .. k : t[i] \in Listed /\ t[i] \in Node /\ t[i] # NULL
      /\ \A i \in 1 .. k : nxt[t[i]] = IF i = k THEN NULL ELSE t[i + 1]
      /\ \A i, j \in 1 .. k : t[i] = t[j] => i = j
      /\ \A x \in Listed : \E i \in 1 .. k : t[i] = x
  BY RowFacts
<1>6. PICK j \in 1 .. k : t[j] = old
  BY <1>5
<1>8. /\ prv[old] = IF j = 1 THEN NULL ELSE t[j - 1]
      /\ nxt[old] = IF j = k THEN NULL ELSE t[j + 1]
  <2>1. LinksAgree
    BY DEF Inductive
  <2>2. prv[t[j]] = IF j = 1 THEN NULL ELSE t[j - 1]
    BY <1>6, <2>1, RowBack
  <2>. QED  BY <1>5, <1>6, <2>2
<1>. DEFINE u == [t EXCEPT ![j] = new]
<1>9. u[j] = new /\ \A i \in 1 .. k : i # j => u[i] = t[i]
  BY <1>5, <1>6
<1>10. u \in [1 .. k -> Listed']
  <2>1. \A i \in 1 .. k : i # j => t[i] \in Listed'
    BY <1>3, <1>5, <1>6
  <2>2. new \in Listed'
    BY <1>3
  <2>. QED  BY <1>5, <1>6, <2>1, <2>2
<1>. HIDE DEF u
<1>11. Row(k, u)'
  <2>1. u[1] = first'
    BY <1>2, <1>5, <1>6, <1>8, <1>9
  <2>2. ASSUME NEW i \in 1 .. k PROVE nxt'[u[i]] = IF i = k THEN NULL ELSE u[i + 1]
    <3>1. CASE i = j
      <4>1. prv[old] # new
        BY <1>1, <1>5, <1>6, <1>8
      <4>2. nxt'[u[i]] = nxt[old]
        BY <1>1, <1>2, <1>9, <3>1, <4>1
      <4>3. j # k => j + 1 \in 1 .. k /\ j + 1 # j
        BY <1>5, <1>6
      <4>. QED  BY <1>8, <1>9, <3>1, <4>2, <4>3
    <3>2. CASE i = j - 1
      <4>1. i # j /\ i # k /\ i + 1 = j /\ j # 1
        BY <1>5, <1>6, <3>2
      <4>2. u[i] = prv[old] /\ u[i] \in Node
        BY <1>5, <1>8, <1>9, <3>2, <4>1
      <4>. QED  BY <1>2, <1>9, <4>1, <4>2
    <3>3. CASE i # j /\ i # j - 1
      <4>1. u[i] = t[i] /\ t[i] # new
        BY <1>1, <1>5, <1>9, <3>3
      <4>2. t[i] # prv[old]
        <5>1. j # 1 => j - 1 \in 1 .. k
          BY <1>5, <1>6
        <5>. QED  BY <1>5, <1>8, <3>3, <5>1
      <4>3. nxt'[u[i]] = nxt[t[i]]
        BY <1>2, <1>5, <4>1, <4>2
      <4>4. i # k => i + 1 \in 1 .. k /\ i + 1 # j
        BY <1>5, <1>6, <3>3
      <4>. QED  BY <1>5, <1>9, <4>3, <4>4
    <3>. QED  BY <3>1, <3>2, <3>3
  <2>3. \A i, h \in 1 .. k : u[i] = u[h] => i = h
    BY <1>1, <1>5, <1>9
  <2>4. \A x \in Listed' : \E i \in 1 .. k : u[i] = x
    <3>1. ASSUME NEW x \in Listed' PROVE \E i \in 1 .. k : u[i] = x
      <4>1. CASE x = new
        BY <1>6, <1>9, <4>1
      <4>2. CASE x # new
        <5>1. x \in Listed /\ x # old
          BY <1>3, <4>2
        <5>2. PICK h \in 1 .. k : t[h] = x
          BY <1>5, <5>1
        <5>3. h # j
          BY <1>6, <5>1, <5>2
        <5>. QED  BY <1>9, <5>2, <5>3
      <4>. QED  BY <4>1, <4>2
    <3>. QED  BY <3>1
  <2>. QED  BY <1>5, <1>10, <2>1, <2>2, <2>3, <2>4 DEF Row
<1>12. Shown(k, u)' = Shown(k, t)
  <2>1. \A i \in 1 .. k : file'[u[i]] = file[t[i]]
    <3>1. file'[new] = file[old]
      BY <1>1, <1>2 DEF Inductive, ListType
    <3>2. \A i \in 1 .. k : i # j => t[i] # old /\ t[i] # new
      BY <1>1, <1>5, <1>6
    <3>3. \A i \in 1 .. k : i # j => file'[t[i]] = file[t[i]]
      BY <1>2, <1>5, <3>2 DEF Inductive, ListType
    <3>. QED  BY <1>6, <1>9, <3>1, <3>3
  <2>2. Shown(k, u)' = [i \in 1 .. k |-> file'[u[i]]]
    BY DEF Shown
  <2>. QED  BY <2>1, <2>2 DEF Shown
<1>. QED  BY <1>11, <1>12

\* Two neighbours change places, whichever of them the key was pressed on.
LEMMA SwapShown ==
    ASSUME ListType, ListType', NEW k, NEW t, Row(k, t), NEW m \in 2 .. k,
           file' = file, first' = IF m = 2 THEN t[m] ELSE first,
           nxt'[t[m]] = t[m - 1], nxt'[t[m - 1]] = nxt[t[m]],
           m # 2 => nxt'[t[m - 2]] = t[m],
           \A i \in 1 .. k : i # m /\ i # m - 1 /\ i # m - 2 => nxt'[t[i]] = nxt[t[i]]
    PROVE  \E u : Row(k, u)' /\ Moved(Shown(k, t), Shown(k, u)')
<1>3. Listed' = Listed
  BY DEF Listed
<1>5. /\ k \in Nat \ {0} /\ t[1] = first /\ t \in [1 .. k -> Listed]
      /\ \A i \in 1 .. k : nxt[t[i]] = IF i = k THEN NULL ELSE t[i + 1]
      /\ \A i, j \in 1 .. k : t[i] = t[j] => i = j
      /\ \A x \in Listed : \E i \in 1 .. k : t[i] = x
  BY RowFacts
<1>6. /\ m \in 1 .. k /\ m - 1 \in 1 .. k /\ m # m - 1 /\ m # 1 /\ (m = 2 <=> m - 1 = 1)
      /\ m # 2 => m - 2 \in 1 .. k /\ m - 2 # m - 1 /\ m - 2 # m /\ (m - 2) + 1 = m - 1
      /\ (m - 1) + 1 = m
  BY <1>5
<1>. DEFINE u == [t EXCEPT ![m - 1] = t[m], ![m] = t[m - 1]]
<1>9. /\ u[m] = t[m - 1] /\ u[m - 1] = t[m]
      /\ \A i \in 1 .. k : i # m /\ i # m - 1 => u[i] = t[i]
  BY <1>5, <1>6
<1>10. u \in [1 .. k -> Listed']
  BY <1>3, <1>5, <1>6
<1>. HIDE DEF u
<1>11. Row(k, u)'
  <2>1. u[1] = first'
    BY <1>5, <1>6, <1>9
  <2>2. ASSUME NEW i \in 1 .. k PROVE nxt'[u[i]] = IF i = k THEN NULL ELSE u[i + 1]
    <3>1. CASE i = m
      <4>1. nxt'[u[i]] = nxt[t[m]]
        BY <1>9, <3>1
      <4>2. m # k => m + 1 \in 1 .. k /\ m + 1 # m /\ m + 1 # m - 1
        BY <1>5, <1>6
      <4>. QED  BY <1>5, <1>6, <1>9, <3>1, <4>1, <4>2
    <3>2. CASE i = m - 1
      <4>1. i # k /\ i + 1 = m
        BY <1>5, <3>2
      <4>. QED  BY <1>9, <3>2, <4>1
    <3>3. CASE i = m - 2
      <4>1. i # k /\ i + 1 = m - 1 /\ m # 2 /\ i # m /\ i # m - 1
        BY <1>5, <3>3
      <4>. QED  BY <1>9, <3>3, <4>1
    <3>4. CASE i # m /\ i # m - 1 /\ i # m - 2
      <4>1. nxt'[u[i]] = nxt[t[i]]
        BY <1>9, <3>4
      <4>2. i # k => i + 1 \in 1 .. k /\ i + 1 # m /\ i + 1 # m - 1
        BY <1>5, <3>4
      <4>. QED  BY <1>5, <1>9, <4>1, <4>2
    <3>. QED  BY <3>1, <3>2, <3>3, <3>4
  <2>3. \A i, h \in 1 .. k : u[i] = u[h] => i = h
    BY <1>5, <1>6, <1>9
  <2>4. \A x \in Listed' : \E i \in 1 .. k : u[i] = x
    <3>1. ASSUME NEW x \in Listed' PROVE \E i \in 1 .. k : u[i] = x
      <4>1. PICK h \in 1 .. k : t[h] = x
        BY <1>3, <1>5
      <4>. QED  BY <1>6, <1>9, <4>1
    <3>. QED  BY <3>1
  <2>. QED  BY <1>5, <1>10, <2>1, <2>2, <2>3, <2>4 DEF Row
<1>12. Moved(Shown(k, t), Shown(k, u)')
  <2>. DEFINE a == Shown(k, t)
              b == Shown(k, u)'
  <2>1. a \in [1 .. k -> Files] /\ \A i \in 1 .. k : a[i] = file[t[i]]
    BY ShownFiles
  <2>2. \A x \in Listed' : file'[x] \in Files
    BY DEF ListType, Listed
  <2>3. b = [i \in 1 .. k |-> file'[u[i]]]
    BY DEF Shown
  <2>. HIDE DEF a, b
  <2>4. b \in [1 .. k -> Files]
    BY <1>10, <2>2, <2>3
  <2>5. /\ b[m - 1] = a[m] /\ b[m] = a[m - 1]
        /\ \A i \in 1 .. k : i # m /\ i # m - 1 => b[i] = a[i]
    BY <1>6, <1>9, <2>1, <2>3
  <2>6. Moved(a, b)
    <3>1. k \in Nat
      BY <1>5
    <3>. QED  BY <2>1, <2>4, <2>5, <3>1, MovedPlaces, Zenon
  <2>. QED  BY <2>6 DEF a, b
<1>. QED  BY <1>11, <1>12

\* Up: the neighbours that change places are the profile and the one before it.
LEMMA MoveUpShown ==
    ASSUME Inductive, Inductive', NEW p \in Listed, move_profile_up(p), NEW k, NEW t, Row(k, t)
    PROVE  \E u : Row(k, u)' /\ Moved(Shown(k, t), Shown(k, u)')
<1>. DEFINE q == prv[p]
<1>2. /\ q # NULL
      /\ first' = IF prv[q] = NULL THEN p ELSE first
      /\ nxt' = [x \in Node |-> CASE x = p      -> q
                                  [] x = prv[q] -> p
                                  [] x = q      -> nxt[p]
                                  [] OTHER      -> nxt[x]]
      /\ file' = file
  BY DEF move_profile_up
<1>3. q = prv[p]
  OBVIOUS
<1>. HIDE DEF q
<1>5. /\ k \in Nat \ {0} /\ t[1] = first
      /\ \A i \in 1 .. k : t[i] \in Listed /\ t[i] \in Node /\ t[i] # NULL
      /\ \A i \in 1 .. k : nxt[t[i]] = IF i = k THEN NULL ELSE t[i + 1]
      /\ \A i, j \in 1 .. k : t[i] = t[j] => i = j
      /\ \A x \in Listed : \E i \in 1 .. k : t[i] = x
  BY RowFacts
<1>6. PICK m \in 1 .. k : t[m] = p
  BY <1>5
<1>7. LinksAgree /\ ListType /\ ListType'
  BY DEF Inductive
<1>8. \A i \in 1 .. k : prv[t[i]] = IF i = 1 THEN NULL ELSE t[i - 1]
  BY <1>7, RowBack
<1>9. m \in 2 .. k /\ q = t[m - 1] /\ m - 1 \in 1 .. k
  <2>1. m # 1 /\ q = t[m - 1]
    BY <1>2, <1>3, <1>6, <1>8
  <2>. QED  BY <1>5, <1>6, <2>1
<1>10. prv[q] = IF m = 2 THEN NULL ELSE t[m - 2]
  <2>1. prv[t[m - 1]] = IF m - 1 = 1 THEN NULL ELSE t[(m - 1) - 1]
    BY <1>8, <1>9
  <2>2. (m - 1) - 1 = m - 2 /\ (m - 1 = 1 <=> m = 2)
    BY <1>9
  <2>. QED  BY <1>9, <2>1, <2>2
<1>11. m # 2 => m - 2 \in 1 .. k
  BY <1>9, <1>5
<1>12. first' = IF m = 2 THEN t[m] ELSE first
  BY <1>2, <1>5, <1>6, <1>10, <1>11
<1>13. q # p /\ q # prv[q] /\ p # prv[q] /\ p \in Node /\ q \in Node
  <2>1. m - 1 # m /\ m - 1 # m - 2 /\ m # m - 2
    BY <1>9
  <2>. QED  BY <1>5, <1>6, <1>9, <1>10, <1>11, <2>1
<1>14. nxt'[t[m]] = t[m - 1] /\ nxt'[t[m - 1]] = nxt[t[m]]
  BY <1>2, <1>6, <1>9, <1>13
<1>15. m # 2 => nxt'[t[m - 2]] = t[m]
  <2>1. ASSUME m # 2 PROVE nxt'[t[m - 2]] = t[m]
    <3>1. m - 2 # m /\ m - 2 \in 1 .. k
      BY <1>9, <1>11, <2>1
    <3>2. t[m - 2] # p /\ t[m - 2] = prv[q] /\ t[m - 2] \in Node
      BY <1>5, <1>6, <1>10, <2>1, <3>1
    <3>. QED  BY <1>2, <1>6, <1>13, <3>2
  <2>. QED  BY <2>1
<1>16. \A i \in 1 .. k : i # m /\ i # m - 1 /\ i # m - 2 => nxt'[t[i]] = nxt[t[i]]
  <2>1. ASSUME NEW i \in 1 .. k, i # m, i # m - 1, i # m - 2 PROVE nxt'[t[i]] = nxt[t[i]]
    <3>1. t[i] # p /\ t[i] # q /\ t[i] # prv[q] /\ t[i] \in Node
      BY <1>5, <1>6, <1>9, <1>10, <1>11, <2>1
    <3>. QED  BY <1>2, <3>1
  <2>. QED  BY <2>1
<1>. QED  BY <1>2, <1>7, <1>9, <1>12, <1>14, <1>15, <1>16, SwapShown

\* Down: the profile and the one after it.
LEMMA MoveDownShown ==
    ASSUME Inductive, Inductive', NEW p \in Listed, move_profile_down(p), NEW k, NEW t, Row(k, t)
    PROVE  \E u : Row(k, u)' /\ Moved(Shown(k, t), Shown(k, u)')
<1>. DEFINE n == nxt[p]
<1>2. /\ n # NULL
      /\ first' = IF prv[p] = NULL THEN n ELSE first
      /\ nxt' = [x \in Node |-> CASE x = p      -> nxt[n]
                                  [] x = prv[p] -> n
                                  [] x = n      -> p
                                  [] OTHER      -> nxt[x]]
      /\ file' = file
  BY DEF move_profile_down
<1>3. n = nxt[p]
  OBVIOUS
<1>. HIDE DEF n
<1>5. /\ k \in Nat \ {0} /\ t[1] = first
      /\ \A i \in 1 .. k : t[i] \in Listed /\ t[i] \in Node /\ t[i] # NULL
      /\ \A i \in 1 .. k : nxt[t[i]] = IF i = k THEN NULL ELSE t[i + 1]
      /\ \A i, j \in 1 .. k : t[i] = t[j] => i = j
      /\ \A x \in Listed : \E i \in 1 .. k : t[i] = x
  BY RowFacts
<1>6. PICK l \in 1 .. k : t[l] = p
  BY <1>5
<1>7. LinksAgree /\ ListType /\ ListType'
  BY DEF Inductive
<1>8. prv[p] = IF l = 1 THEN NULL ELSE t[l - 1]
  <2>1. prv[t[l]] = IF l = 1 THEN NULL ELSE t[l - 1]
    BY <1>6, <1>7, RowBack
  <2>. QED  BY <1>6, <2>1
<1>9. PICK m \in 2 .. k : l = m - 1 /\ n = t[m]
  <2>1. l # k /\ n = t[l + 1]
    BY <1>2, <1>3, <1>5, <1>6
  <2>2. l + 1 \in 2 .. k /\ l = (l + 1) - 1
    BY <1>5, <1>6, <2>1
  <2>. QED  BY <2>1, <2>2
<1>10. /\ m \in 1 .. k /\ m - 1 \in 1 .. k /\ m # m - 1 /\ (m - 1 = 1 <=> m = 2)
       /\ (m - 1) - 1 = m - 2 /\ m - 2 # m - 1 /\ m - 2 # m /\ (m # 2 => m - 2 \in 1 .. k)
  BY <1>5, <1>9
<1>11. p = t[m - 1] /\ prv[p] = IF m = 2 THEN NULL ELSE t[m - 2]
  BY <1>6, <1>8, <1>9, <1>10
<1>12. first' = IF m = 2 THEN t[m] ELSE first
  BY <1>2, <1>5, <1>9, <1>10, <1>11
<1>13. nxt'[t[m]] = t[m - 1]
  <2>1. n # p /\ n # prv[p] /\ n \in Node
    BY <1>5, <1>9, <1>10, <1>11
  <2>. QED  BY <1>2, <1>9, <1>11, <2>1
<1>14. nxt'[t[m - 1]] = nxt[t[m]]
  BY <1>2, <1>5, <1>9, <1>10, <1>11
<1>15. m # 2 => nxt'[t[m - 2]] = t[m]
  <2>1. ASSUME m # 2 PROVE nxt'[t[m - 2]] = t[m]
    <3>1. t[m - 2] # p /\ t[m - 2] # n /\ t[m - 2] = prv[p] /\ t[m - 2] \in Node
      BY <1>5, <1>9, <1>10, <1>11, <2>1
    <3>. QED  BY <1>2, <1>9, <3>1
  <2>. QED  BY <2>1
<1>16. \A i \in 1 .. k : i # m /\ i # m - 1 /\ i # m - 2 => nxt'[t[i]] = nxt[t[i]]
  <2>1. ASSUME NEW i \in 1 .. k, i # m, i # m - 1, i # m - 2 PROVE nxt'[t[i]] = nxt[t[i]]
    <3>1. t[i] # p /\ t[i] # n /\ t[i] # prv[p] /\ t[i] \in Node
      BY <1>5, <1>9, <1>10, <1>11, <2>1
    <3>. QED  BY <1>2, <3>1
  <2>. QED  BY <2>1
<1>. QED  BY <1>2, <1>7, <1>9, <1>12, <1>13, <1>14, <1>15, <1>16, SwapShown

-----------------------------------------------------------------------------
\* Every profile in memory is passed, once.
HasRow == \E k, t : Row(k, t)

Seen(a, b) == Added(a, b) \/ Removed(a, b) \/ Moved(a, b) \/ b = a

\* What leaves the pointers alone leaves the row.
LEMMA OthersShown ==
    ASSUME UNCHANGED <<first, nxt, prv, file>>, NEW k, NEW t, Row(k, t)
    PROVE  Row(k, t)' /\ Shown(k, t)' = Shown(k, t)
<1>1. Listed' = Listed
  BY DEF Listed
<1>2. Row(k, t)'
  BY <1>1 DEF Row
<1>. QED  BY <1>2 DEF Shown

\* One step of the frontend or of the backend is one of the row, or none.
LEMMA StepShown ==
    ASSUME Inductive, Inductive', [Next]_vars, NEW k, NEW t, Row(k, t)
    PROVE  \E l, u : Row(l, u)' /\ Seen(Shown(k, t), Shown(l, u)')
<1>0. ASSUME UNCHANGED <<first, nxt, prv, file>>
      PROVE  Row(k, t)' /\ Seen(Shown(k, t), Shown(k, t)')
  BY <1>0, OthersShown DEF Seen
<1>1. CASE add_profile
  BY <1>1, AddShown DEF Seen
<1>2. CASE remove_profile
  BY <1>2, RemoveShown DEF Seen
<1>3. ASSUME NEW p \in Listed, reload_profile(p) PROVE \E l, u : Row(l, u)' /\ Seen(Shown(k, t), Shown(l, u)')
  BY <1>3, ReloadShown DEF Seen
<1>4. ASSUME NEW p \in Listed, move_profile_up(p) PROVE \E l, u : Row(l, u)' /\ Seen(Shown(k, t), Shown(l, u)')
  BY <1>4, MoveUpShown DEF Seen
<1>5. ASSUME NEW p \in Listed, move_profile_down(p) PROVE \E l, u : Row(l, u)' /\ Seen(Shown(k, t), Shown(l, u)')
  BY <1>5, MoveDownShown DEF Seen
<1>6. ASSUME \/ \E p \in Listed : confirm_removal(p)
             \/ abort_removal \/ do_execute_element \/ fail \/ stop_ourselves
             \/ \E marked \in SUBSET Listed : start_executing_marked(marked)
             \/ handle_ctrl_msg \/ wait_for_the_backend \/ UNCHANGED vars
      PROVE  UNCHANGED <<first, nxt, prv, file>>
  <2>1. ASSUME NEW p \in Listed, confirm_removal(p) PROVE UNCHANGED <<first, nxt, prv, file>>
    BY <2>1 DEF confirm_removal, list_vars
  <2>2. CASE abort_removal
    BY <2>2 DEF abort_removal, list_vars
  <2>3. CASE do_execute_element
    BY <2>3 DEF do_execute_element, list_vars
  <2>4. CASE fail
    BY <2>4 DEF fail, list_vars
  <2>5. CASE stop_ourselves
    BY <2>5 DEF stop_ourselves, list_vars
  <2>6. ASSUME NEW marked \in SUBSET Listed, start_executing_marked(marked)
        PROVE  UNCHANGED <<first, nxt, prv, file>>
    BY <2>6 DEF start_executing_marked
  <2>7. CASE handle_ctrl_msg
    BY <2>7 DEF handle_ctrl_msg
  <2>8. CASE wait_for_the_backend
    BY <2>8 DEF wait_for_the_backend
  <2>9. CASE UNCHANGED vars
    BY <2>9 DEF vars, list_vars
  <2>. QED  BY <1>6, <2>1, <2>2, <2>3, <2>4, <2>5, <2>6, <2>7, <2>8, <2>9
<1>7. CASE \/ \E p \in Listed : confirm_removal(p)
           \/ abort_removal \/ do_execute_element \/ fail \/ stop_ourselves
           \/ \E marked \in SUBSET Listed : start_executing_marked(marked)
           \/ handle_ctrl_msg \/ wait_for_the_backend \/ UNCHANGED vars
  BY <1>0, <1>6, <1>7
<1>. QED  BY <1>1, <1>2, <1>3, <1>4, <1>5, <1>7 DEF Next

\* The files the pointers show are those of the row.
LEMMA RowIsShown ==
    ASSUME ShowsRow, NEW k, NEW t, Row(k, t)
    PROVE  FilesShown = Shown(k, t)
<1>1. Chain = t /\ DOMAIN t = 1 .. k
  BY RowFacts DEF ShowsRow
<1>. QED  BY <1>1 DEF FilesShown, Shown

\* The same of the state after a step.
LEMMA RowIsShownNext ==
    ASSUME ShowsRow', NEW k, NEW t, Row(k, t)'
    PROVE  FilesShown' = Shown(k, t)'
<1>1. Chain' = t
  BY DEF ShowsRow
<1>2. DOMAIN t = 1 .. k
  BY DEF Row
<1>. QED  BY <1>1, <1>2 DEF FilesShown, Shown

\* At first the row is that of the command line.
LEMMA InitShown ==
    ASSUME Init, Inductive, ShowsRow
    PROVE  HasRow /\ Order!Init
<1>. DEFINE n == Len(Initial)
            t == [i \in 1 .. n |-> i]
<1>1. /\ n \in Nat \ {0} /\ n <= MaxNodes /\ MaxNodes \in Nat
      /\ \A p \in 1 .. n : Initial[p] \in Files
  BY ListAssumption
<1>2. Listed = 1 .. n
  BY <1>1, ListAssumption DEF Init, Listed, Node
<1>3. \A i \in 1 .. n : i \in Node /\ nxt[i] = IF i = n THEN NULL ELSE i + 1
  BY <1>1 DEF Init, Node, NULL
<1>. HIDE DEF n
<1>4. t \in [1 .. n -> Listed] /\ \A i \in 1 .. n : t[i] = i
  BY <1>2
<1>5. 1 \in 1 .. n /\ first = 1 /\ \A i \in 1 .. n : i # n => i + 1 \in 1 .. n
  BY <1>1 DEF Init
<1>. HIDE DEF t
<1>6. Row(n, t)
  BY <1>1, <1>2, <1>3, <1>4, <1>5 DEF Row
<1>7. FilesShown = Shown(n, t)
  BY <1>6, RowIsShown
<1>8. Shown(n, t) \in Seq(Files) /\ Len(Shown(n, t)) = n
  BY <1>6, ShownFiles DEF Inductive
<1>9. Shown(n, t) # <<>>
  BY <1>1, <1>8, EmptySeq
<1>. QED  BY <1>6, <1>7, <1>8, <1>9 DEF HasRow, Order!Init

\* Each step of the list is a step of the row it shows, or stutters.
LEMMA NextShown ==
    ASSUME Inductive, Inductive', ShowsRow, ShowsRow', HasRow, [Next]_vars
    PROVE  HasRow' /\ [Order!Next]_FilesShown
<1>1. PICK k, t : Row(k, t)
  BY DEF HasRow
<1>2. PICK l, u : Row(l, u)' /\ Seen(Shown(k, t), Shown(l, u)')
  BY <1>1, StepShown
<1>3. FilesShown = Shown(k, t) /\ FilesShown' = Shown(l, u)'
  BY <1>1, <1>2, RowIsShown, RowIsShownNext
<1>4. Seen(FilesShown, FilesShown')
  BY <1>2, <1>3
<1>5. ASSUME Added(FilesShown, FilesShown') PROVE Order!Next
  BY <1>5 DEF Added, Order!Add, Order!Next
<1>6. ASSUME Removed(FilesShown, FilesShown') PROVE Order!Next
  BY <1>6 DEF Removed, Order!Remove, Order!Next
<1>7. ASSUME Moved(FilesShown, FilesShown') PROVE Order!Next
  BY <1>7 DEF Moved, Order!Move, Order!Next
<1>8. HasRow'
  BY <1>2 DEF HasRow
<1>. QED  BY <1>4, <1>5, <1>6, <1>7, <1>8 DEF Seen

\* Whatever is added, removed, moved and reloaded, for any files and any number
\* of profiles: along next the user finds every profile in memory once, and every
\* key changes the row by one profile (remove_profile, reload_profile,
\* move_profile_up, move_profile_down).
THEOREM ListIsTheRow == Spec => ShowsOrder
<1>. QED
  BY InitList, StepKeepsList, ChainIsRow, InitShown, NextShown, PTL
     DEF Spec, ShowsOrder, Order!Spec
-----------------------------------------------------------------------------
(***************************************************************************)
(* The types, and what the walks of find_element_by_key() and              *)
(* execute_children() are made of.                                         *)
(***************************************************************************)

\* A walk says only what is said of the profiles it passes, those of the first one
\* to begin with.
LEMMA WalkSays ==
    ASSUME NEW H, NEW F, F = [n \in 0 .. MaxNodes |-> Walk(H, F, n)], ListType,
           NEW S, \A p \in Node : H[p] \in Seq(S)
    PROVE  /\ \A n, p \in 0 .. MaxNodes : F[n][p] \in Seq(S)
           /\ \A p \in Node : /\ Len(F[MaxNodes][p]) >= Len(H[p])
                              /\ \A i \in 1 .. Len(H[p]) : F[MaxNodes][p][i] = H[p][i]
           /\ F[MaxNodes][NULL] = <<>>
<1>. DEFINE Typed(n) == \A p \in 0 .. MaxNodes : F[n][p] \in Seq(S)
            Open == {n \in 0 .. MaxNodes : ~Typed(n)}
<1>0. /\ MaxNodes \in Nat /\ NULL \in 0 .. MaxNodes /\ NULL \notin Node
      /\ \A p \in 0 .. MaxNodes : p = NULL \/ p \in Node
      /\ \A p \in Node : p \in 0 .. MaxNodes /\ nxt[p] \in 0 .. MaxNodes
  BY ListAssumption DEF ListType, Node, NULL
<1>1. \A n, p \in 0 .. MaxNodes :
         F[n][p] = IF n = 0 \/ p = NULL THEN <<>> ELSE H[p] \o F[n - 1][nxt[p]]
  <2>1. \A n \in 0 .. MaxNodes : F[n] = Walk(H, F, n)
    OBVIOUS
  <2>2. \A n, p \in 0 .. MaxNodes :
           Walk(H, F, n)[p] = IF n = 0 \/ p = NULL THEN <<>> ELSE H[p] \o F[n - 1][nxt[p]]
    BY DEF Walk
  <2>. QED  BY <2>1, <2>2
<1>2. Open = {}
  <2>. SUFFICES ASSUME Open # {} PROVE FALSE
    OBVIOUS
  <2>1. PICK n \in Open : \A i \in Open : n <= i
    <3>. HIDE DEF Open
    <3>1. Open \in SUBSET Nat
      BY <1>0 DEF Open
    <3>. QED  BY <3>1, LeastOf
  <2>2. PICK p \in 0 .. MaxNodes : F[n][p] \notin Seq(S)
    BY <2>1
  <2>3. n # 0 /\ p # NULL
    <3>1. n \in 0 .. MaxNodes /\ <<>> \in Seq(S)
      BY <2>1, EmptySeq
    <3>2. n = 0 \/ p = NULL => F[n][p] = <<>>
      BY <1>1, <2>2, <3>1
    <3>. QED  BY <2>2, <3>1, <3>2
  <2>4. /\ n \in Nat \ {0} /\ n \in 0 .. MaxNodes /\ n - 1 \in 0 .. MaxNodes
        /\ n - 1 \notin Open /\ p \in Node
    <3>1. n \in 0 .. MaxNodes
      BY <2>1
    <3>. HIDE DEF Open
    <3>. QED  BY <1>0, <2>1, <2>2, <2>3, <3>1
  <2>5. F[n - 1][nxt[p]] \in Seq(S)
    BY <1>0, <2>4
  <2>6. F[n][p] = H[p] \o F[n - 1][nxt[p]]
    BY <1>1, <2>2, <2>3, <2>4
  <2>. DEFINE a == H[p]
              b == F[n - 1][nxt[p]]
  <2>7. a \in Seq(S) /\ b \in Seq(S) /\ F[n][p] = a \o b
    BY <2>4, <2>5, <2>6
  <2>. HIDE DEF a, b
  <2>8. a \o b \in Seq(S)
    BY <2>7, ConcatProperties
  <2>. QED  BY <2>2, <2>7, <2>8
<1>3. \A n, p \in 0 .. MaxNodes : F[n][p] \in Seq(S)
  BY <1>2
<1>4. ASSUME NEW p \in Node
      PROVE  /\ Len(F[MaxNodes][p]) >= Len(H[p])
             /\ \A i \in 1 .. Len(H[p]) : F[MaxNodes][p][i] = H[p][i]
  <2>1. MaxNodes # 0 /\ MaxNodes - 1 \in 0 .. MaxNodes /\ MaxNodes \in 0 .. MaxNodes /\ p # NULL
    BY <1>0 DEF Node, NULL
  <2>. DEFINE a == H[p]
              b == F[MaxNodes - 1][nxt[p]]
  <2>2. F[MaxNodes][p] = a \o b
    BY <1>0, <1>1, <2>1
  <2>3. a \in Seq(S) /\ b \in Seq(S)
    BY <1>0, <1>3, <2>1
  <2>. HIDE DEF a, b
  <2>4. /\ Len(a \o b) = Len(a) + Len(b) /\ Len(a) \in Nat /\ Len(b) \in Nat
        /\ \A i \in 1 .. Len(a) + Len(b) : (a \o b)[i] = IF i <= Len(a) THEN a[i] ELSE b[i - Len(a)]
    BY <2>3, ConcatProperties, LenProperties
  <2>5. \A i \in 1 .. Len(a) : i \in 1 .. Len(a) + Len(b) /\ i <= Len(a)
    BY <2>4
  <2>6. Len(a \o b) >= Len(a) /\ \A i \in 1 .. Len(a) : (a \o b)[i] = a[i]
    BY <2>4, <2>5
  <2>. QED  BY <2>2, <2>6 DEF a
<1>5. F[MaxNodes][NULL] = <<>>
  BY <1>0, <1>1
<1>. QED  BY <1>3, <1>4, <1>5

\* The children of a profile in memory.
StatusType ==
    /\ status = [p \in Node |-> status[p]]
    /\ \A p \in Node : \E n \in (UNION {Sizes[f] : f \in Files}) \cup {1} :
          status[p] \in [0 .. n - 1 -> RunStatus]

\* A profile has elements 0 to its size - 1, the first always.
LEMMA SizeOf ==
    ASSUME StatusType, NEW p \in Node
    PROVE  /\ Cardinality(Elements(p)) \in Nat \ {0}
           /\ Elements(p) = 0 .. Cardinality(Elements(p)) - 1
           /\ status[p] \in [Elements(p) -> RunStatus]
<1>1. PICK n \in (UNION {Sizes[f] : f \in Files}) \cup {1} : status[p] \in [0 .. n - 1 -> RunStatus]
  BY DEF StatusType
<1>2. n \in Nat \ {0}
  <2>1. \A f \in Files : Sizes[f] \subseteq Nat \ {0}
    BY ListAssumption
  <2>2. \A x \in UNION {Sizes[f] : f \in Files} : x \in Nat \ {0}
    BY <2>1
  <2>3. n = 1 \/ n \in UNION {Sizes[f] : f \in Files}
    BY <1>1
  <2>. QED  BY <2>2, <2>3
<1>3. Elements(p) = 0 .. n - 1
  BY <1>1 DEF Elements
<1>4. Cardinality(0 .. n - 1) = n
  <2>1. 0 \in Int /\ n - 1 \in Int /\ ~(0 > n - 1) /\ (n - 1) - 0 + 1 = n
    BY <1>2
  <2>. QED  BY <2>1, FS_Interval
<1>. QED  BY <1>1, <1>2, <1>3, <1>4

\* The elements from a profile on, its own ones first.
LEMMA ElementsFrom ==
    ASSUME ListType, StatusType
    PROVE  /\ \A p \in 0 .. MaxNodes : elements_from[MaxNodes][p] \in Seq(Node \X Nat)
           /\ \A p \in Node : \A i \in Elements(p) :
                 /\ i + 1 \in DOMAIN elements_from[MaxNodes][p]
                 /\ elements_from[MaxNodes][p][i + 1] = <<p, i>>
           /\ elements_from[MaxNodes][NULL] = <<>>
<1>. DEFINE M == 0 .. MaxNodes
            H == [p \in M |-> [i \in 1 .. Cardinality(Elements(p)) |-> <<p, i - 1>>]]
            Says(F, n) == [p \in M |->
                             IF n = 0 \/ p = NULL THEN <<>>
                             ELSE [i \in 1 .. Cardinality(Elements(p)) |-> <<p, i - 1>>]
                                  \o F[n - 1][nxt[p]]]
            W == CHOOSE F : F = [n \in M |-> Says(F, n)]
<1>0. MaxNodes \in Nat /\ \A p \in Node : p \in M
  BY ListAssumption DEF Node
<1>1. \A F, n : Says(F, n) = Walk(H, F, n)
  BY DEF Walk
<1>2. PICK F : F = [n \in M |-> Walk(H, F, n)]
  <2>. HIDE DEF H
  <2>. QED  BY WalkExists
<1>3. F = [n \in M |-> Says(F, n)]
  <2>. HIDE DEF Says, H
  <2>. QED  BY <1>1, <1>2
<1>4. W = [n \in M |-> Says(W, n)]
  <2>. HIDE DEF Says
  <2>. QED  BY <1>3
<1>5. elements_from = W
  BY DEF elements_from
<1>6. ASSUME NEW p \in Node
      PROVE  /\ H[p] \in Seq(Node \X Nat) /\ Len(H[p]) = Cardinality(Elements(p))
             /\ \A i \in 1 .. Cardinality(Elements(p)) : H[p][i] = <<p, i - 1>>
  <2>. DEFINE c == Cardinality(Elements(p))
              h == [i \in 1 .. c |-> <<p, i - 1>>]
  <2>1. c \in Nat
    BY SizeOf
  <2>2. H[p] = h
    BY <1>0
  <2>. HIDE DEF c, H
  <2>3. h \in [1 .. c -> Node \X Nat]
    BY <2>1
  <2>4. h \in Seq(Node \X Nat) /\ Len(h) = c
    <3>. HIDE DEF h
    <3>. QED  BY <2>1, <2>3, RowOfAny
  <2>5. \A i \in 1 .. c : h[i] = <<p, i - 1>>
    OBVIOUS
  <2>. HIDE DEF h
  <2>. QED  BY <2>2, <2>4, <2>5 DEF c
<1>. HIDE DEF H, Says, W
<1>7. W = [n \in M |-> Walk(H, W, n)]
  BY <1>1, <1>4
<1>8. /\ \A n, p \in M : W[n][p] \in Seq(Node \X Nat)
      /\ \A p \in Node : /\ Len(W[MaxNodes][p]) >= Len(H[p])
                         /\ \A i \in 1 .. Len(H[p]) : W[MaxNodes][p][i] = H[p][i]
      /\ W[MaxNodes][NULL] = <<>>
  <2>1. \A p \in Node : H[p] \in Seq(Node \X Nat)
    BY <1>6
  <2>. DEFINE S == Node \X Nat
  <2>2. \A p \in Node : H[p] \in Seq(S)
    BY <2>1
  <2>. HIDE DEF S
  <2>3. /\ \A n, p \in M : W[n][p] \in Seq(S)
        /\ \A p \in Node : /\ Len(W[MaxNodes][p]) >= Len(H[p])
                           /\ \A i \in 1 .. Len(H[p]) : W[MaxNodes][p][i] = H[p][i]
        /\ W[MaxNodes][NULL] = <<>>
    BY <1>7, <2>2, WalkSays, Zenon
  <2>. QED  BY <2>3 DEF S
<1>9. ASSUME NEW p \in Node, NEW i \in Elements(p)
      PROVE  i + 1 \in DOMAIN W[MaxNodes][p] /\ W[MaxNodes][p][i + 1] = <<p, i>>
  <2>1. i + 1 \in 1 .. Cardinality(Elements(p)) /\ (i + 1) - 1 = i
    BY SizeOf
  <2>2. W[MaxNodes][p][i + 1] = <<p, i>>
    BY <1>6, <1>8, <2>1
  <2>3. /\ W[MaxNodes][p] \in Seq(Node \X Nat) /\ Len(W[MaxNodes][p]) >= Len(H[p])
    BY <1>0, <1>8
  <2>4. DOMAIN W[MaxNodes][p] = 1 .. Len(W[MaxNodes][p]) /\ Len(W[MaxNodes][p]) \in Nat
    BY <2>3, LenProperties
  <2>5. Len(H[p]) = Cardinality(Elements(p)) /\ Cardinality(Elements(p)) \in Nat
    BY <1>6, SizeOf
  <2>. QED  BY <2>1, <2>2, <2>3, <2>4, <2>5
<1>. QED  BY <1>0, <1>5, <1>8, <1>9

NamesDiffer == \A p, q \in Listed : file[p] = file[q] => p = q

\* A profile is found by its name, if it is the only one of that name.
LEMMA FoundByName ==
    ASSUME ShowsRow, HasRow, NEW f
    PROVE  /\ get_profile_by_name(f) \in Listed \cup {NULL}
           /\ \A p \in Listed : NamesDiffer /\ file[p] = f => get_profile_by_name(f) = p
<1>1. PICK k, t : Row(k, t)
  BY DEF HasRow
<1>2. /\ Chain = t /\ k \in Nat \ {0} /\ DOMAIN t = 1 .. k
      /\ \A i \in 1 .. k : t[i] \in Listed
      /\ \A x \in Listed : \E i \in 1 .. k : t[i] = x
  BY <1>1, RowFacts DEF ShowsRow
<1>. DEFINE named == {i \in 1 .. k : file[t[i]] = f}
            least == CHOOSE i \in named : \A j \in named : i <= j
<1>3. get_profile_by_name(f) = IF named = {} THEN NULL ELSE t[least]
  BY <1>2 DEF get_profile_by_name
<1>4. named # {} => least \in named
  <2>1. named \in SUBSET Nat
    BY <1>2
  <2>. HIDE DEF named
  <2>2. ASSUME NEW m \in named PROVE \E i \in named : \A j \in named : i <= j
    BY <2>1, LeastOf
  <2>. QED  BY <2>2
<1>. HIDE DEF least
<1>5. get_profile_by_name(f) \in Listed \cup {NULL}
  BY <1>2, <1>3, <1>4
<1>6. ASSUME NEW p \in Listed, NamesDiffer, file[p] = f PROVE get_profile_by_name(f) = p
  <2>1. PICK i \in 1 .. k : t[i] = p
    BY <1>2
  <2>2. i \in named
    BY <1>6, <2>1
  <2>3. file[t[least]] = f /\ t[least] \in Listed
    BY <1>2, <1>4, <2>2
  <2>. QED  BY <1>3, <1>6, <2>2, <2>3 DEF NamesDiffer
<1>. QED  BY <1>5, <1>6

\* What a message is taken for.
LEMMA FoundByKey ==
    ASSUME ShowsRow, HasRow, ListType, StatusType, NEW msg, msg.id \in Nat
    PROVE  /\ find_element_by_key(msg) \in (Node \X Nat) \cup {Root}
           /\ \A p \in Listed :
                 NamesDiffer /\ file[p] = msg.profile /\ msg.id \in Elements(p) =>
                     find_element_by_key(msg) = <<p, msg.id>>
<1>. DEFINE q == get_profile_by_name(msg.profile)
            els == elements_from[MaxNodes][q]
<1>1. /\ q \in Listed \cup {NULL}
      /\ \A p \in Listed : NamesDiffer /\ file[p] = msg.profile => q = p
  BY FoundByName
<1>2. find_element_by_key(msg) = IF msg.id + 1 \in DOMAIN els THEN els[msg.id + 1] ELSE Root
  BY DEF find_element_by_key, place
<1>. HIDE DEF q
<1>3. q \in 0 .. MaxNodes /\ \A p \in Listed : p \in Node
  BY <1>1, ListAssumption DEF Listed, Node, NULL
<1>4. els \in Seq(Node \X Nat)
  BY <1>3, ElementsFrom
<1>5. msg.id + 1 \in DOMAIN els => els[msg.id + 1] \in Node \X Nat
  BY <1>4, LenProperties, ElementOfSeq
<1>6. ASSUME NEW p \in Listed, NamesDiffer, file[p] = msg.profile, msg.id \in Elements(p)
      PROVE  find_element_by_key(msg) = <<p, msg.id>>
  <2>1. q = p
    BY <1>1, <1>6
  <2>2. /\ msg.id + 1 \in DOMAIN elements_from[MaxNodes][p]
        /\ elements_from[MaxNodes][p][msg.id + 1] = <<p, msg.id>>
    BY <1>3, <1>6, ElementsFrom
  <2>. QED  BY <1>2, <2>1, <2>2
<1>. QED  BY <1>2, <1>5, <1>6

\* What the backend has to say of a profile.
SaidOf(p) == {Message(s, p, i) : s \in {"STARTED", "ENDED"}, i \in Elements(p)}

\* All that is said of a profile names an element of it.
LEMMA SaidOfProfile ==
    ASSUME StatusType, NEW p \in Node
    PROVE  said_of(p) \in Seq(SaidOf(p))
<1>. DEFINE c == Cardinality(Elements(p))
            children == [k \in 1 .. 2 * (c - 1) |->
                           Message(IF k % 2 = 1 THEN "STARTED" ELSE "ENDED", p, (k + 1) \div 2)]
            begun == <<Message("STARTED", p, 0)>>
            ended == <<Message("ENDED", p, 0)>>
<1>1. said_of(p) = begun \o children \o ended
  BY DEF said_of
<1>2. c \in Nat \ {0} /\ Elements(p) = 0 .. c - 1
  BY SizeOf
<1>3. \A s \in {"STARTED", "ENDED"}, i \in Elements(p) : Message(s, p, i) \in SaidOf(p)
  BY DEF SaidOf
<1>. HIDE DEF c
<1>4. children \in Seq(SaidOf(p))
  <2>1. 2 * (c - 1) \in Nat
    BY <1>2
  <2>2. \A k \in 1 .. 2 * (c - 1) : (k + 1) \div 2 \in Elements(p)
    BY <1>2
  <2>3. children \in [1 .. 2 * (c - 1) -> SaidOf(p)]
    BY <1>3, <2>2
  <2>. HIDE DEF children
  <2>. QED  BY <2>1, <2>3, RowOfAny
<1>5. begun \in Seq(SaidOf(p)) /\ ended \in Seq(SaidOf(p))
  <2>1. 0 \in Elements(p)
    BY <1>2
  <2>2. Message("STARTED", p, 0) \in SaidOf(p) /\ Message("ENDED", p, 0) \in SaidOf(p)
    BY <1>3, <2>1
  <2>. QED  BY <2>2
<1>. HIDE DEF begun, children, ended
<1>. QED  BY <1>1, <1>4, <1>5, ConcatProperties

\* What is said at each profile that the walk of execute_children() passes.
SaysOf(scheduled) == [p \in 0 .. MaxNodes |-> IF p \in scheduled THEN said_of(p) ELSE <<>>]

\* All that is said in a run is what such a walk says.
LEMMA SaidByWalk ==
    ASSUME NEW scheduled
    PROVE  \E W : /\ W = [n \in 0 .. MaxNodes |-> Walk(SaysOf(scheduled), W, n)]
                  /\ said_by(scheduled) = W[MaxNodes][first]
<1>. DEFINE M == 0 .. MaxNodes
            H == SaysOf(scheduled)
            Says(F, n) == [p \in M |->
                             IF n = 0 \/ p = NULL THEN <<>>
                             ELSE (IF p \in scheduled THEN said_of(p) ELSE <<>>) \o F[n - 1][nxt[p]]]
            W == CHOOSE F : F = [n \in M |-> Says(F, n)]
<1>1. \A F, n : Says(F, n) = Walk(H, F, n)
  BY DEF Walk, SaysOf
<1>2. PICK F : F = [n \in M |-> Walk(H, F, n)]
  <2>. HIDE DEF H
  <2>. QED  BY WalkExists
<1>3. F = [n \in M |-> Says(F, n)]
  <2>. HIDE DEF Says, H
  <2>. QED  BY <1>1, <1>2
<1>4. W = [n \in M |-> Says(W, n)]
  <2>. HIDE DEF Says
  <2>. QED  BY <1>3
<1>5. said_by(scheduled) = W[MaxNodes][first]
  BY DEF said_by
<1>. HIDE DEF Says, W, H
<1>6. W = [n \in M |-> Walk(H, W, n)]
  BY <1>1, <1>4
<1>. QED  BY <1>5, <1>6 DEF H

\* It is about the profiles scheduled.
LEMMA SaysScheduled ==
    ASSUME StatusType, NEW scheduled \in SUBSET Node, NEW p \in Node
    PROVE  SaysOf(scheduled)[p] \in Seq(UNION {SaidOf(q) : q \in scheduled})
<1>. DEFINE S == UNION {SaidOf(q) : q \in scheduled}
<1>1. SaysOf(scheduled)[p] = IF p \in scheduled THEN said_of(p) ELSE <<>>
  BY ListAssumption DEF SaysOf, Node
<1>2. CASE p \in scheduled
  <2>1. said_of(p) \in Seq(SaidOf(p)) /\ SaidOf(p) \subseteq S
    BY <1>2, SaidOfProfile
  <2>. HIDE DEF S
  <2>2. said_of(p) \in Seq(S)
    BY <2>1, SeqMonotonic
  <2>. QED  BY <1>1, <1>2, <2>2 DEF S
<1>3. CASE p \notin scheduled
  BY <1>1, <1>3, EmptySeq
<1>. QED  BY <1>2, <1>3

\* All that is said in a run is about the profiles scheduled.
LEMMA SaidByAll ==
    ASSUME ListType, StatusType, NEW scheduled \in SUBSET Node
    PROVE  said_by(scheduled) \in Seq(UNION {SaidOf(p) : p \in scheduled})
<1>. DEFINE S == UNION {SaidOf(p) : p \in scheduled}
            H == SaysOf(scheduled)
<1>1. PICK W : /\ W = [n \in 0 .. MaxNodes |-> Walk(H, W, n)]
               /\ said_by(scheduled) = W[MaxNodes][first]
  BY SaidByWalk
<1>2. MaxNodes \in 0 .. MaxNodes /\ first \in 0 .. MaxNodes
  BY ListAssumption DEF ListType, Node
<1>3. \A p \in Node : H[p] \in Seq(S)
  BY SaysScheduled
<1>. HIDE DEF S, H
<1>4. \A n, p \in 0 .. MaxNodes : W[n][p] \in Seq(S)
  BY <1>1, <1>3, WalkSays
<1>. QED  BY <1>1, <1>2, <1>4 DEF S

-----------------------------------------------------------------------------
\* The types besides those of the list.
RunType ==
    /\ should_run \subseteq Listed
    /\ current_running[1] \in Node \cup {NULL}
    /\ crashed \in BOOLEAN
    /\ Backend_exists \in BOOLEAN
    /\ ok \in BOOLEAN
    /\ runs \in 0 .. MaxRuns
    /\ changes \in 0 .. MaxChanges
    /\ heir \in [Node -> Node \cup {NULL}]
    /\ reloaded \subseteq Node

QueueType == todo \in Seq(MessageType) /\ to_front \in Seq(MessageType)

\* The profile that 'd' asks about is not to be run, however long the question
\* stands.
AskedIsFree == confirming # NULL => confirming \notin should_run

\* Nothing of a profile just read has run.
LEMMA NewStatus ==
    ASSUME NEW s \in Nat \ {0}
    PROVE  New(s) \in [0 .. s - 1 -> RunStatus]
BY DEF New, RunStatus

\* A profile read from a file has a size that the file may have.
LEMMA ReadSize ==
    ASSUME NEW f \in Files, NEW s \in Sizes[f]
    PROVE  /\ s \in Nat \ {0} /\ s \in (UNION {Sizes[g] : g \in Files}) \cup {1}
           /\ New(s) \in [0 .. s - 1 -> RunStatus]
<1>1. s \in Nat \ {0}
  BY ListAssumption
<1>. QED  BY <1>1, NewStatus

\* One status changes, or one profile is new.
LEMMA StatusSet ==
    ASSUME StatusType, NEW p, NEW i, NEW s \in RunStatus
    PROVE  /\ [status EXCEPT ![p][i] = s] = [q \in Node |-> [status EXCEPT ![p][i] = s][q]]
           /\ \A q \in Node : /\ [status EXCEPT ![p][i] = s][q] \in [Elements(q) -> RunStatus]
<1>. DEFINE st == [status EXCEPT ![p][i] = s]
<1>1. status = [q \in Node |-> status[q]] /\ \A q \in Node : status[q] \in [Elements(q) -> RunStatus]
  BY SizeOf DEF StatusType
<1>2. DOMAIN st = Node /\ \A q \in Node : st[q] = IF q = p THEN [status[p] EXCEPT ![i] = s] ELSE status[q]
  BY <1>1
<1>3. \A q \in Node : st[q] \in [Elements(q) -> RunStatus]
  BY <1>1, <1>2
<1>4. st = [q \in Node |-> st[q]]
  BY <1>2
<1>. QED  BY <1>3, <1>4

\* Statuses that change on the elements there are leave the types.
LEMMA SameElements ==
    ASSUME StatusType, status' = [q \in Node |-> status'[q]],
           \A q \in Node : status'[q] \in [Elements(q) -> RunStatus]
    PROVE  StatusType' /\ \A q \in Node : Elements(q)' = Elements(q)
<1>1. \A q \in Node : Elements(q)' = Elements(q)
  BY DEF Elements
<1>2. ASSUME NEW q \in Node
      PROVE  \E n \in (UNION {Sizes[f] : f \in Files}) \cup {1} : status'[q] \in [0 .. n - 1 -> RunStatus]
  <2>1. PICK n \in (UNION {Sizes[f] : f \in Files}) \cup {1} : status[q] \in [0 .. n - 1 -> RunStatus]
    BY DEF StatusType
  <2>2. Elements(q) = 0 .. n - 1
    BY <2>1 DEF Elements
  <2>. QED  BY <2>1, <2>2
<1>. QED  BY <1>1, <1>2 DEF StatusType

\* One profile is read into free memory, the others keep their elements.
LEMMA NewElements ==
    ASSUME StatusType, NEW new \in Node, NEW f \in Files, NEW s \in Sizes[f],
           status' = [status EXCEPT ![new] = New(s)]
    PROVE  /\ StatusType' /\ Elements(new)' = 0 .. s - 1
           /\ \A q \in Node : q # new => Elements(q)' = Elements(q)
<1>1. s \in (UNION {Sizes[g] : g \in Files}) \cup {1} /\ New(s) \in [0 .. s - 1 -> RunStatus]
  BY ReadSize
<1>2. /\ status' = [q \in Node |-> status'[q]]
      /\ status'[new] = New(s) /\ \A q \in Node : q # new => status'[q] = status[q]
  BY DEF StatusType
<1>3. StatusType'
  <2>1. \A q \in Node : \E n \in (UNION {Sizes[g] : g \in Files}) \cup {1} :
            status'[q] \in [0 .. n - 1 -> RunStatus]
    BY <1>1, <1>2 DEF StatusType
  <2>. QED  BY <1>2, <2>1 DEF StatusType
<1>4. Elements(new)' = 0 .. s - 1
  BY <1>1, <1>2 DEF Elements
<1>5. \A q \in Node : q # new => Elements(q)' = Elements(q)
  BY <1>2 DEF Elements
<1>. QED  BY <1>3, <1>4, <1>5

Rest == StatusType /\ RunType /\ QueueType /\ AskedIsFree

\* At the start nothing runs.
LEMMA InitRest ==
    ASSUME Init
    PROVE  Rest
<1>1. MaxNodes \in Nat /\ MaxRuns \in Nat /\ MaxChanges \in Nat /\ Len(Initial) \in Nat
      /\ \A p \in 1 .. Len(Initial) : Initial[p] \in Files
  BY ListAssumption
<1>2. PICK sizes \in [1 .. Len(Initial) -> UNION {Sizes[f] : f \in Files}] :
         /\ \A p \in DOMAIN sizes : sizes[p] \in Sizes[Initial[p]]
         /\ status = [p \in Node |-> New(IF p <= Len(Initial) THEN sizes[p] ELSE 1)]
  BY DEF Init
<1>3. StatusType
  <2>1. ASSUME NEW p \in Node
        PROVE  \E n \in (UNION {Sizes[f] : f \in Files}) \cup {1} : status[p] \in [0 .. n - 1 -> RunStatus]
    <3>1. CASE p <= Len(Initial)
      <4>1. p \in 1 .. Len(Initial)
        BY <1>1, <3>1 DEF Node
      <4>2. sizes[p] \in Sizes[Initial[p]] /\ Initial[p] \in Files
        BY <1>1, <1>2, <4>1
      <4>3. status[p] = New(sizes[p])
        BY <1>2, <3>1
      <4>. QED  BY <4>2, <4>3, ReadSize
    <3>2. CASE ~(p <= Len(Initial))
      <4>1. status[p] = New(1)
        BY <1>2, <3>2
      <4>2. 1 \in (UNION {Sizes[f] : f \in Files}) \cup {1} /\ 1 \in Nat
        OBVIOUS
      <4>3. New(1) \in [0 .. 1 - 1 -> RunStatus]
        BY <4>2, NewStatus
      <4>. QED  BY <4>1, <4>2, <4>3
    <3>. QED  BY <3>1, <3>2
  <2>2. status = [p \in Node |-> status[p]]
    BY <1>2
  <2>. QED  BY <2>1, <2>2 DEF StatusType
<1>4. RunType
  <2>1. current_running[1] = NULL
    BY DEF Init, Root
  <2>2. should_run \subseteq Listed /\ reloaded \subseteq Node
    BY DEF Init
  <2>3. current_running[1] \in Node \cup {NULL}
    BY <2>1
  <2>4. crashed \in BOOLEAN /\ Backend_exists \in BOOLEAN /\ ok \in BOOLEAN
    BY DEF Init
  <2>5. runs \in 0 .. MaxRuns /\ changes \in 0 .. MaxChanges
    BY <1>1 DEF Init
  <2>6. heir \in [Node -> Node \cup {NULL}]
    BY DEF Init
  <2>. QED  BY <2>2, <2>3, <2>4, <2>5, <2>6 DEF RunType
<1>5. QueueType /\ AskedIsFree
  BY EmptySeq DEF Init, QueueType, AskedIsFree
<1>. QED  BY <1>3, <1>4, <1>5 DEF Rest

\* What leaves the profiles and the run alone.
LEMMA SameRest ==
    ASSUME Rest, UNCHANGED <<status, file, should_run>>,
           current_running'[1] \in Node \cup {NULL}, crashed' \in BOOLEAN,
           Backend_exists' \in BOOLEAN, ok' \in BOOLEAN,
           UNCHANGED <<runs, changes, heir, reloaded>>, QueueType',
           confirming' \in {confirming, NULL} \/ confirming' \notin should_run
    PROVE  Rest'
<1>1. Listed' = Listed
  BY DEF Listed
<1>2. StatusType'
  BY DEF Rest, StatusType
<1>3. RunType'
  BY <1>1 DEF Rest, RunType
<1>4. AskedIsFree'
  BY DEF Rest, AskedIsFree
<1>. QED  BY <1>2, <1>3, <1>4 DEF Rest

\* The element read for a new profile is one of its type.
LEMMA AddRest ==
    ASSUME Inductive, Rest, add_profile
    PROVE  Rest'
<1>1. PICK new \in Node : new = NewNode /\ new \notin Listed /\ new # NULL
  BY NewIsFree DEF add_profile
<1>2. PICK f \in Files : /\ file' = [file EXCEPT ![new] = f]
                        /\ \E s \in Sizes[f] : status' = [status EXCEPT ![new] = New(s)]
  BY <1>1 DEF add_profile
<1>3. PICK s \in Sizes[f] : status' = [status EXCEPT ![new] = New(s)]
  BY <1>2
<1>4. Listed' = Listed \cup {new}
  BY <1>1, <1>2, ListAssumption DEF Listed, Inductive, ListType
<1>5. StatusType'
  BY <1>2, <1>3, NewElements DEF Rest
<1>6. changes' \in 0 .. MaxChanges
  BY ListAssumption DEF add_profile, One_more, Rest, RunType
<1>7. RunType'
  BY <1>4, <1>6 DEF add_profile, run_vars, Rest, RunType
<1>8. QueueType' /\ AskedIsFree'
  BY DEF add_profile, run_vars, Rest, QueueType, AskedIsFree
<1>. QED  BY <1>5, <1>7, <1>8 DEF Rest

\* A profile removed was not to be run.
LEMMA RemoveRest ==
    ASSUME Inductive, Rest, remove_profile
    PROVE  Rest'
<1>1. /\ confirming \in Listed /\ confirming \in Node /\ confirming \notin should_run
  BY DEF Inductive, QuestionStands, remove_profile, Listed, Rest, AskedIsFree
<1>2. Listed' = Listed \ {confirming}
  BY <1>1, ListAssumption DEF remove_profile, Listed, Inductive, ListType
<1>3. changes' \in 0 .. MaxChanges
  BY ListAssumption DEF remove_profile, One_more, Rest, RunType
<1>4. heir' \in [Node -> Node \cup {NULL}]
  BY DEF remove_profile, Rest, RunType
<1>5. RunType'
  BY <1>1, <1>2, <1>3, <1>4 DEF remove_profile, Rest, RunType
<1>6. StatusType' /\ QueueType' /\ AskedIsFree'
  BY DEF remove_profile, Rest, StatusType, QueueType, AskedIsFree
<1>. QED  BY <1>5, <1>6 DEF Rest

\* A profile read again is not to be run until it is marked again.
LEMMA ReloadRest ==
    ASSUME Inductive, Rest, NEW old \in Listed, reload_profile(old)
    PROVE  Rest'
<1>1. PICK new \in Node : new = NewNode /\ new \notin Listed /\ new # NULL
  BY NewIsFree DEF reload_profile
<1>2. /\ file' = [file EXCEPT ![new] = file[old], ![old] = Unused]
      /\ \E s \in Sizes[file[old]] : status' = [status EXCEPT ![new] = New(s)]
  BY <1>1 DEF reload_profile
<1>3. PICK s \in Sizes[file[old]] : status' = [status EXCEPT ![new] = New(s)]
  BY <1>2
<1>4. Listed' = (Listed \ {old}) \cup {new}
  BY <1>1, <1>2, ListAssumption, ListedFiles DEF Listed, Inductive, ListType
<1>5. StatusType'
  <2>1. file[old] \in Files
    BY ListedFiles DEF Inductive
  <2>. QED  BY <1>3, <2>1, NewElements DEF Rest
<1>6. changes' \in 0 .. MaxChanges
  BY ListAssumption DEF reload_profile, One_more, Rest, RunType
<1>7. heir' \in [Node -> Node \cup {NULL}] /\ reloaded' \subseteq Node
  BY <1>1 DEF reload_profile, Rest, RunType
<1>8. should_run' = should_run \ {old}
  BY DEF reload_profile
<1>9. RunType'
  BY <1>4, <1>6, <1>7, <1>8 DEF reload_profile, Rest, RunType
<1>10. QueueType' /\ AskedIsFree'
  BY DEF reload_profile, Rest, QueueType, AskedIsFree
<1>. QED  BY <1>5, <1>9, <1>10 DEF Rest

\* A move is about nothing but the links.
LEMMA MoveRest ==
    ASSUME Rest, NEW p, move_profile_up(p) \/ move_profile_down(p)
    PROVE  Rest'
<1>1. /\ UNCHANGED <<file, status, should_run, current_running, confirming, crashed, run_vars>>
      /\ One_more
  BY DEF move_profile_up, move_profile_down
<1>2. changes' \in 0 .. MaxChanges
  BY <1>1, ListAssumption DEF One_more, Rest, RunType
<1>3. Listed' = Listed
  BY <1>1 DEF Listed
<1>4. RunType'
  BY <1>1, <1>2, <1>3 DEF run_vars, Rest, RunType
<1>5. StatusType' /\ QueueType' /\ AskedIsFree'
  BY <1>1 DEF run_vars, Rest, StatusType, QueueType, AskedIsFree
<1>. QED  BY <1>4, <1>5 DEF Rest

\* What may be said of the profiles in the list is typed.
LEMMA SaidType ==
    ASSUME ListType, StatusType, NEW scheduled \in SUBSET Listed
    PROVE  said_by(scheduled) \in Seq(UNION {SaidOf(p) : p \in scheduled})
           /\ said_by(scheduled) \in Seq(MessageType)
<1>1. ASSUME NEW p \in scheduled PROVE SaidOf(p) \subseteq MessageType
  <2>1. p \in Node /\ file[p] \in Files /\ Elements(p) \subseteq Nat
    <3>1. p \in Node
      BY DEF Listed
    <3>. QED  BY <3>1, ListedFiles, SizeOf
  <2>. QED  BY <2>1 DEF SaidOf, Message, MessageType
<1>. DEFINE S == UNION {SaidOf(p) : p \in scheduled}
<1>2. S \subseteq MessageType
  BY <1>1
<1>3. said_by(scheduled) \in Seq(S)
  BY SaidByAll DEF Listed
<1>. HIDE DEF S
<1>4. said_by(scheduled) \in Seq(MessageType)
  BY <1>2, <1>3, SeqMonotonic
<1>. QED  BY <1>3, <1>4 DEF S

\* What is said of the profiles scheduled is typed.
LEMMA StartRest ==
    ASSUME Inductive, Rest, NEW marked \in SUBSET Listed, start_executing_marked(marked)
    PROVE  Rest' /\ \A p \in Node : Elements(p)' = Elements(p)
<1>1. /\ should_run' = should_run \cup marked
      /\ status' = [p \in Node |-> IF p \in marked THEN [i \in Elements(p) |-> "NONE"]
                                  ELSE status[p]]
      /\ current_running' = Root /\ Backend_exists' = TRUE /\ ok' = TRUE
      /\ todo' = said_by(should_run \cup marked) /\ to_front' = <<>>
      /\ runs < MaxRuns /\ runs' = runs + 1
      /\ heir' = [p \in Node |-> IF p \in Listed THEN p ELSE NULL]
      /\ reloaded' = {} /\ confirming = NULL
      /\ UNCHANGED <<file, confirming, crashed, changes>>
  BY DEF start_executing_marked
<1>2. Listed' = Listed
  BY <1>1 DEF Listed
<1>3. /\ status' = [q \in Node |-> status'[q]]
      /\ \A q \in Node : status'[q] \in [Elements(q) -> RunStatus]
  <2>1. \A q \in Node : status[q] \in [Elements(q) -> RunStatus]
    BY SizeOf DEF Rest
  <2>2. "NONE" \in RunStatus
    BY DEF RunStatus
  <2>. QED  BY <1>1, <2>1, <2>2
<1>4. StatusType' /\ \A p \in Node : Elements(p)' = Elements(p)
  BY <1>3, SameElements DEF Rest
<1>5. runs' \in 0 .. MaxRuns
  BY <1>1, ListAssumption DEF Rest, RunType
<1>6. RunType'
  <2>1. current_running'[1] = NULL
    BY <1>1 DEF Root
  <2>2. heir' \in [Node -> Node \cup {NULL}]
    BY <1>1
  <2>. QED  BY <1>1, <1>2, <1>5, <2>1, <2>2 DEF Rest, RunType
<1>7. QueueType'
  <2>1. should_run \cup marked \in SUBSET Listed
    BY DEF Rest, RunType
  <2>2. said_by(should_run \cup marked) \in Seq(MessageType)
    BY <2>1, SaidType DEF Inductive, Rest
  <2>. QED  BY <1>1, <2>2, EmptySeq DEF QueueType
<1>8. AskedIsFree'
  BY <1>1 DEF AskedIsFree
<1>. QED  BY <1>4, <1>6, <1>7, <1>8 DEF Rest

\* The messages there are after one is said, or is said to have failed.
LEMMA SayQueues ==
    ASSUME QueueType, do_execute_element \/ fail \/ stop_ourselves
    PROVE  QueueType'
<1>1. CASE do_execute_element
  <2>1. Head(todo) \in MessageType /\ Tail(todo) \in Seq(MessageType)
    BY <1>1, HeadTailProperties DEF QueueType, do_execute_element
  <2>. QED  BY <1>1, <2>1 DEF QueueType, do_execute_element
<1>2. CASE fail
  <2>. DEFINE failed == [Head(todo) EXCEPT !.type = "FAILED"]
              last == [failed EXCEPT !.id = 0]
  <2>1. Head(todo) \in MessageType
    BY <1>2, HeadTailProperties DEF QueueType, fail
  <2>2. failed \in MessageType
    BY <2>1 DEF MessageType
  <2>3. last \in MessageType
    BY <2>2 DEF MessageType
  <2>4. todo' = <<last>> /\ to_front' = Append(to_front, failed)
    BY <1>2 DEF fail
  <2>. HIDE DEF failed, last
  <2>. QED  BY <2>2, <2>3, <2>4 DEF QueueType
<1>3. CASE stop_ourselves
  BY <1>3, EmptySeq DEF QueueType, stop_ourselves
<1>. QED  BY <1>1, <1>2, <1>3

\* What a message changes: statuses of elements there are.
LEMMA HandleStatus ==
    ASSUME Inductive, Rest, HasRow, ShowsRow, handle_ctrl_msg
    PROVE  /\ StatusType' /\ (\A p \in Node : Elements(p)' = Elements(p))
           /\ current_running'[1] \in Node \cup {NULL} /\ crashed' \in BOOLEAN /\ QueueType'
<1>1. /\ to_front # <<>> /\ to_front' = Tail(to_front) /\ todo' = todo
  BY DEF handle_ctrl_msg
<1>. DEFINE msg == Head(to_front)
            el  == find_element_by_key(msg)
<1>2. msg \in MessageType /\ msg.id \in Nat /\ Tail(to_front) \in Seq(MessageType)
  <2>1. msg \in MessageType /\ Tail(to_front) \in Seq(MessageType)
    BY <1>1, HeadTailProperties DEF Rest, QueueType
  <2>. QED  BY <2>1 DEF MessageType
<1>. HIDE DEF msg
<1>3. el \in (Node \X Nat) \cup {Root}
  BY <1>2, FoundByKey DEF Inductive, Rest
<1>4. \/ /\ el = Root
         /\ crashed' = TRUE
         /\ UNCHANGED <<status, current_running>>
      \/ /\ el # Root
         /\ \E s : status' = [status EXCEPT ![el[1]][el[2]] = s]
                  /\ s \in {"RUNNING", "FAILED", get_element_status(el[1], el[2])}
         /\ crashed' = crashed
         /\ current_running' \in {el, current_running}
  BY DEF handle_ctrl_msg, set_run_status, msg
<1>. HIDE DEF el
<1>5. get_element_status(el[1], el[2]) \in RunStatus /\ "RUNNING" \in RunStatus /\ "FAILED" \in RunStatus
  BY DEF get_element_status, RunStatus
<1>6. CASE el = Root
  <2>1. status' = status /\ current_running' = current_running /\ crashed' = TRUE
    BY <1>4, <1>6
  <2>2. StatusType' /\ \A p \in Node : Elements(p)' = Elements(p)
    BY <2>1 DEF Rest, StatusType, Elements
  <2>. QED  BY <1>1, <1>2, <2>1, <2>2 DEF Rest, RunType, QueueType
<1>7. CASE el # Root
  <2>1. PICK s \in RunStatus : status' = [status EXCEPT ![el[1]][el[2]] = s]
    BY <1>4, <1>5, <1>7
  <2>2. /\ status' = [q \in Node |-> status'[q]]
        /\ \A q \in Node : status'[q] \in [Elements(q) -> RunStatus]
    BY <2>1, StatusSet DEF Rest
  <2>3. StatusType' /\ \A p \in Node : Elements(p)' = Elements(p)
    BY <2>2, SameElements DEF Rest
  <2>4. current_running'[1] \in Node \cup {NULL} /\ crashed' \in BOOLEAN
    BY <1>3, <1>4, <1>7 DEF Rest, RunType
  <2>. QED  BY <1>1, <1>2, <2>3, <2>4 DEF Rest, QueueType
<1>. QED  BY <1>6, <1>7

\* A message changes statuses and where the run is.
LEMMA HandleRest ==
    ASSUME Inductive, Rest, HasRow, ShowsRow, handle_ctrl_msg
    PROVE  Rest'
<1>1. Listed' = Listed
  BY DEF handle_ctrl_msg, Listed
<1>2. /\ StatusType' /\ current_running'[1] \in Node \cup {NULL} /\ crashed' \in BOOLEAN /\ QueueType'
  BY HandleStatus
<1>3. RunType'
  BY <1>1, <1>2 DEF handle_ctrl_msg, Rest, RunType
<1>4. AskedIsFree'
  BY DEF handle_ctrl_msg, Rest, AskedIsFree
<1>. QED  BY <1>2, <1>3, <1>4 DEF Rest

\* The end of a run changes statuses of elements there are.
LEMMA WaitRest ==
    ASSUME Rest, wait_for_the_backend
    PROVE  Rest' /\ \A p \in Node : Elements(p)' = Elements(p)
<1>1. Listed' = Listed
  BY DEF wait_for_the_backend, Listed
<1>2. StatusType' /\ \A p \in Node : Elements(p)' = Elements(p)
  <2>1. CASE status' = status
    BY <2>1 DEF Rest, StatusType, Elements
  <2>2. CASE status' = change_run_status_to_failed(current_running)
    <3>. DEFINE e == current_running
                st == [status EXCEPT ![e[1]][e[2]] = "FAILED"]
    <3>1. "FAILED" \in RunStatus
      BY DEF RunStatus
    <3>2. st = [q \in Node |-> st[q]] /\ \A q \in Node : st[q] \in [Elements(q) -> RunStatus]
      BY <3>1, StatusSet DEF Rest
    <3>3. status' = [st EXCEPT ![e[1]][0] = "FAILED"]
      BY <2>2 DEF change_run_status_to_failed
    <3>. HIDE DEF st, e
    <3>4. DOMAIN st = Node
      BY <3>2
    <3>5. /\ DOMAIN status' = Node
          /\ \A q \in Node : status'[q] = IF q = e[1] THEN [st[q] EXCEPT ![0] = "FAILED"] ELSE st[q]
      BY <3>3, <3>4
    <3>6. \A q \in Node : status'[q] \in [Elements(q) -> RunStatus]
      BY <3>1, <3>2, <3>5
    <3>7. status' = [q \in Node |-> status'[q]]
      BY <3>3, <3>4
    <3>. QED  BY <3>6, <3>7, SameElements DEF Rest
  <2>. QED  BY <2>1, <2>2 DEF wait_for_the_backend
<1>3. RunType'
  BY <1>1 DEF wait_for_the_backend, Rest, RunType
<1>4. QueueType' /\ AskedIsFree'
  BY DEF wait_for_the_backend, Rest, QueueType, AskedIsFree
<1>. QED  BY <1>2, <1>3, <1>4 DEF Rest

\* Every step keeps the types; handle_ctrl_msg() needs the row, to find elements.
LEMMA StepRest ==
    ASSUME Inductive, HasRow, ShowsRow, Rest, [Next]_vars
    PROVE  Rest'
<1>1. CASE add_profile
  BY <1>1, AddRest
<1>2. CASE remove_profile
  BY <1>2, RemoveRest
<1>3. ASSUME NEW p \in Listed, reload_profile(p) PROVE Rest'
  BY <1>3, ReloadRest
<1>4. ASSUME NEW p \in Listed, move_profile_up(p) \/ move_profile_down(p) PROVE Rest'
  BY <1>4, MoveRest
<1>5. ASSUME NEW p \in Listed, confirm_removal(p) PROVE Rest'
  <2>1. /\ UNCHANGED <<list_vars, should_run, current_running, crashed, changes, run_vars>>
        /\ confirming' \notin should_run
    BY <1>5 DEF confirm_removal, may_be_removed
  <2>. QED  BY <2>1, SameRest DEF list_vars, run_vars, Rest, RunType, QueueType
<1>6. CASE abort_removal
  <2>1. /\ UNCHANGED <<list_vars, should_run, current_running, crashed, changes, run_vars>>
        /\ confirming' = NULL
    BY <1>6 DEF abort_removal
  <2>. QED  BY <2>1, SameRest DEF list_vars, run_vars, Rest, RunType, QueueType
<1>7. ASSUME NEW marked \in SUBSET Listed, start_executing_marked(marked) PROVE Rest'
  BY <1>7, StartRest
<1>8. CASE do_execute_element \/ fail \/ stop_ourselves
  <2>1. /\ UNCHANGED <<list_vars, should_run, current_running, confirming, crashed,
                       changes, Backend_exists, runs, heir, reloaded>>
        /\ ok' \in {ok, FALSE}
    BY <1>8 DEF do_execute_element, fail, stop_ourselves
  <2>2. QueueType'
    BY <1>8, SayQueues DEF Rest
  <2>3. current_running'[1] \in Node \cup {NULL} /\ crashed' \in BOOLEAN
        /\ Backend_exists' \in BOOLEAN /\ ok' \in BOOLEAN
    BY <2>1 DEF Rest, RunType
  <2>. QED  BY <2>1, <2>2, <2>3, SameRest DEF list_vars
<1>9. CASE handle_ctrl_msg
  BY <1>9, HandleRest
<1>10. CASE wait_for_the_backend
  BY <1>10, WaitRest
<1>11. CASE UNCHANGED vars
  <2>1. UNCHANGED <<list_vars, should_run, current_running, confirming, crashed, changes, run_vars>>
    BY <1>11 DEF vars
  <2>. QED  BY <2>1, SameRest DEF list_vars, run_vars, Rest, RunType, QueueType
<1>. QED  BY <1>1, <1>2, <1>3, <1>4, <1>5, <1>6, <1>7, <1>8, <1>9, <1>10, <1>11 DEF Next

\* The parts together are the type invariant of the model.
LEMMA RestIsTypeOK ==
    ASSUME Inductive, Rest
    PROVE  TypeOK
BY DEF Rest, Inductive, ListType, QuestionStands, StatusType, RunType, QueueType, TypeOK

\* Every variable keeps its type, whatever is pressed and whatever the backend says:
\* the walks along next lead to no element but those of the profiles.
THEOREM ListTypesHold == Spec => []TypeOK
<1>. DEFINE Inv == Inductive /\ HasRow /\ Rest
<1>1. Init => Inv
  BY InitList, ChainIsRow, InitShown, InitRest
<1>2. Inv /\ [Next]_vars => Inv'
  <2>. SUFFICES ASSUME Inv, [Next]_vars PROVE Inv'
    OBVIOUS
  <2>1. Inductive'
    BY StepKeepsList
  <2>2. HasRow'
    BY <2>1, ChainIsRow, StepShown DEF HasRow
  <2>. QED  BY <2>1, <2>2, ChainIsRow, StepRest
<1>3. Inv => TypeOK
  BY RestIsTypeOK
<1>. QED  BY <1>1, <1>2, <1>3, PTL DEF Spec
-----------------------------------------------------------------------------
(***************************************************************************)
(* The keys: profile and position name the element that is meant.          *)
(***************************************************************************)

\* No file is in the list twice, and none is found with another number of elements
\* when it is read again: without that a key does not tell elements apart.
FilesAreKeys ==
    /\ ~Repeat
    /\ \A i, j \in DOMAIN Initial : Initial[i] = Initial[j] => i = j
    /\ \A f \in Files : \A m, n \in Sizes[f] : m = n

\* What is still to be said, or to be read.
Pending == {todo[i] : i \in DOMAIN todo} \cup {to_front[i] : i \in DOMAIN to_front}

SizesKept == \A p \in Listed : \A n \in Sizes[file[p]] : Elements(p) = 0 .. n - 1

Idle == ~Backend_exists => todo = <<>> /\ to_front = <<>>

\* A message is about an element of the list, and about a profile that may be removed
\* only if it is a reloaded one.
Means(msg) ==
    LET h == heir[msg.node]
    IN  IF h = NULL THEN msg.node \in reloaded
        ELSE /\ h \in Listed /\ file[h] = msg.profile /\ msg.id \in Elements(h)
             /\ msg.node \in reloaded \/ h \in should_run

KeysHold == \A msg \in Pending : Means(msg)

Keyed == NamesDiffer /\ SizesKept /\ Idle /\ KeysHold

\* What is pending is typed.
LEMMA PendingType ==
    ASSUME QueueType
    PROVE  Pending \subseteq MessageType
BY ElementOfSeq DEF QueueType, Pending

\* Nothing is pending when no backend is there.
LEMMA NothingPending ==
    ASSUME todo = <<>>, to_front = <<>>
    PROVE  Pending = {}
<1>1. DOMAIN todo = {} /\ DOMAIN to_front = {}
  OBVIOUS
<1>. QED  BY <1>1 DEF Pending

\* What leaves the list of profiles and their sizes alone, and says nothing new.
LEMMA SameKeyed ==
    ASSUME Keyed, UNCHANGED <<file, heir, reloaded>>, \A p \in Node : Elements(p)' = Elements(p),
           should_run \subseteq should_run' \/ Pending' = {}, Pending' \subseteq Pending, Idle'
    PROVE  Keyed'
<1>1. Listed' = Listed /\ Listed \subseteq Node
  BY DEF Listed
<1>2. NamesDiffer' /\ SizesKept'
  BY <1>1 DEF Keyed, NamesDiffer, SizesKept
<1>3. KeysHold'
  <2>1. ASSUME NEW msg \in Pending' PROVE Means(msg)'
    <3>1. Means(msg) /\ should_run \subseteq should_run'
      BY <2>1 DEF Keyed, KeysHold
    <3>. QED  BY <1>1, <3>1 DEF Means
  <2>. QED  BY <2>1 DEF KeysHold
<1>. QED  BY <1>2, <1>3 DEF Keyed

\* The files of the command line differ, and have the size read.
LEMMA InitKeyed ==
    ASSUME FilesAreKeys, Init
    PROVE  Keyed
<1>1. MaxNodes \in Nat /\ Len(Initial) \in Nat /\ DOMAIN Initial = 1 .. Len(Initial)
      /\ \A p \in 1 .. Len(Initial) : Initial[p] \in Files
      /\ Unused \notin Files
  BY ListAssumption
<1>2. /\ \A p \in Node : file[p] = IF p <= Len(Initial) THEN Initial[p] ELSE Unused
      /\ Listed \subseteq Node
  BY DEF Init, Listed
<1>3. \A p \in Listed : p \in 1 .. Len(Initial) /\ file[p] = Initial[p]
  BY <1>1, <1>2 DEF Listed, Node
<1>4. NamesDiffer
  BY <1>1, <1>3 DEF NamesDiffer, FilesAreKeys
<1>5. SizesKept
  <2>1. PICK sizes \in [1 .. Len(Initial) -> UNION {Sizes[f] : f \in Files}] :
           /\ \A p \in DOMAIN sizes : sizes[p] \in Sizes[Initial[p]]
           /\ status = [p \in Node |-> New(IF p <= Len(Initial) THEN sizes[p] ELSE 1)]
    BY DEF Init
  <2>2. ASSUME NEW p \in Listed, NEW n \in Sizes[file[p]]
        PROVE  Elements(p) = 0 .. n - 1
    <3>1. /\ p \in 1 .. Len(Initial) /\ file[p] = Initial[p] /\ p \in Node /\ p <= Len(Initial)
      BY <1>1, <1>2, <1>3
    <3>2. sizes[p] \in Sizes[file[p]] /\ file[p] \in Files
      BY <1>1, <2>1, <3>1
    <3>3. sizes[p] = n
      BY <2>2, <3>2 DEF FilesAreKeys
    <3>4. status[p] = New(n)
      BY <2>1, <3>1, <3>3
    <3>. QED  BY <3>4 DEF Elements, New
  <2>. QED  BY <2>2 DEF SizesKept
<1>6. Idle /\ KeysHold
  <2>1. todo = <<>> /\ to_front = <<>>
    BY DEF Init
  <2>. QED  BY <2>1, NothingPending DEF Idle, KeysHold
<1>. QED  BY <1>4, <1>5, <1>6 DEF Keyed

\* Only while no backend runs, and only a file that is not there yet, is added.
LEMMA AddKeyed ==
    ASSUME FilesAreKeys, Inductive, Rest, Keyed, add_profile
    PROVE  Keyed'
<1>1. PICK new \in Node : new = NewNode /\ new \notin Listed /\ new # NULL
  BY NewIsFree DEF add_profile
<1>2. PICK f \in Files : /\ \A p \in Listed : file[p] # f
                        /\ file' = [file EXCEPT ![new] = f]
                        /\ \E s \in Sizes[f] : status' = [status EXCEPT ![new] = New(s)]
  BY <1>1 DEF add_profile, FilesAreKeys
<1>3. PICK s \in Sizes[f] : status' = [status EXCEPT ![new] = New(s)]
  BY <1>2
<1>4. /\ Listed' = Listed \cup {new} /\ file'[new] = f
      /\ \A p \in Listed : file'[p] = file[p] /\ p \in Node /\ p # new
  BY <1>1, <1>2, ListAssumption DEF Listed, Inductive, ListType
<1>5. NamesDiffer'
  BY <1>2, <1>4 DEF Keyed, NamesDiffer
<1>6. Elements(new)' = 0 .. s - 1 /\ \A p \in Node : p # new => Elements(p)' = Elements(p)
  BY <1>2, <1>3, NewElements DEF Rest
<1>7. SizesKept'
  <2>1. \A n \in Sizes[f] : n = s
    BY DEF FilesAreKeys
  <2>. QED  BY <1>4, <1>6, <2>1 DEF Keyed, SizesKept
<1>8. todo' = <<>> /\ to_front' = <<>>
  BY DEF add_profile, run_vars, Keyed, Idle
<1>9. Idle' /\ KeysHold'
  <2>1. Pending' = {}
    BY <1>8 DEF Pending
  <2>. QED  BY <1>8, <2>1 DEF Idle, KeysHold
<1>. QED  BY <1>5, <1>7, <1>9 DEF Keyed

\* A removed profile was reloaded, or was not to be run.
LEMMA RemoveKeyed ==
    ASSUME Inductive, Rest, Keyed, remove_profile
    PROVE  Keyed'
<1>1. /\ confirming \in Listed /\ confirming \in Node /\ confirming \notin should_run
  BY DEF Inductive, QuestionStands, remove_profile, Listed, Rest, AskedIsFree
<1>2. /\ file' = [file EXCEPT ![confirming] = Unused]
      /\ heir' = [q \in Node |-> IF heir[q] = confirming THEN NULL ELSE heir[q]]
      /\ UNCHANGED <<status, should_run, todo, to_front, reloaded, Backend_exists>>
  BY DEF remove_profile
<1>3. /\ Listed' = Listed \ {confirming}
      /\ \A p \in Listed' : file'[p] = file[p]
      /\ \A p \in Node : Elements(p)' = Elements(p)
      /\ Listed \subseteq Node
  BY <1>1, <1>2, ListAssumption DEF Listed, Elements, Inductive, ListType
<1>4. NamesDiffer' /\ SizesKept' /\ Idle'
  BY <1>2, <1>3 DEF Keyed, NamesDiffer, SizesKept, Idle
<1>5. KeysHold'
  <2>1. Pending' = Pending
    BY <1>2 DEF Pending
  <2>2. ASSUME NEW msg \in Pending PROVE Means(msg)'
    <3>1. Means(msg)
      BY DEF Keyed, KeysHold
    <3>2. msg.node \in Node
      <4>1. msg \in MessageType
        BY PendingType DEF Rest
      <4>. QED  BY <4>1 DEF MessageType
    <3>3. CASE heir[msg.node] = confirming
      <4>1. msg.node \in reloaded
        BY <1>1, <3>1, <3>3 DEF Means, Node, NULL
      <4>2. heir'[msg.node] = NULL
        BY <1>2, <3>2, <3>3
      <4>. QED  BY <1>2, <4>1, <4>2 DEF Means
    <3>4. CASE heir[msg.node] # confirming
      <4>1. heir'[msg.node] = heir[msg.node]
        BY <1>2, <3>2, <3>4
      <4>. QED  BY <1>2, <1>3, <3>1, <3>4, <4>1 DEF Means
    <3>. QED  BY <3>3, <3>4
  <2>. QED  BY <2>1, <2>2 DEF KeysHold
<1>. QED  BY <1>4, <1>5 DEF Keyed

\* The profile read again has the name and the size of the one it replaces.
LEMMA ReloadKeyed ==
    ASSUME FilesAreKeys, Inductive, Rest, Keyed, NEW old \in Listed, reload_profile(old)
    PROVE  Keyed'
<1>1. PICK new \in Node : new = NewNode /\ new \notin Listed /\ new # NULL
  BY NewIsFree DEF reload_profile
<1>2. /\ file' = [file EXCEPT ![new] = file[old], ![old] = Unused]
      /\ \E s \in Sizes[file[old]] : status' = [status EXCEPT ![new] = New(s)]
      /\ should_run' = should_run \ {old}
      /\ heir' = [q \in Node |-> IF heir[q] = old THEN new ELSE heir[q]]
      /\ reloaded' = reloaded \cup {q \in Node : heir[q] = old}
      /\ UNCHANGED <<todo, to_front, Backend_exists>>
  BY <1>1 DEF reload_profile
<1>3. PICK s \in Sizes[file[old]] : status' = [status EXCEPT ![new] = New(s)]
  BY <1>2
<1>4. file[old] \in Files /\ old \in Node /\ Listed \subseteq Node
  BY ListedFiles DEF Inductive, Listed
<1>5. /\ Listed' = (Listed \ {old}) \cup {new} /\ new # old
      /\ file'[new] = file[old] /\ \A p \in Listed \ {old} : file'[p] = file[p] /\ p # new
  BY <1>1, <1>2, <1>4, ListAssumption DEF Listed, Inductive, ListType
<1>6. Elements(new)' = 0 .. s - 1 /\ \A p \in Node : p # new => Elements(p)' = Elements(p)
  BY <1>3, <1>4, NewElements DEF Rest
<1>7. NamesDiffer'
  BY <1>5 DEF Keyed, NamesDiffer
<1>8. \A n \in Sizes[file[old]] : n = s
  BY <1>4 DEF FilesAreKeys
<1>9. SizesKept'
  BY <1>4, <1>5, <1>6, <1>8 DEF Keyed, SizesKept
<1>10. Elements(new)' = Elements(old)
  BY <1>6 DEF Keyed, SizesKept
<1>11. KeysHold'
  <2>1. Pending' = Pending
    BY <1>2 DEF Pending
  <2>2. ASSUME NEW msg \in Pending PROVE Means(msg)'
    <3>1. Means(msg)
      BY DEF Keyed, KeysHold
    <3>2. msg.node \in Node
      <4>1. msg \in MessageType
        BY PendingType DEF Rest
      <4>. QED  BY <4>1 DEF MessageType
    <3>3. CASE heir[msg.node] = old
      <4>1. heir'[msg.node] = new /\ msg.node \in reloaded'
        BY <1>2, <3>2, <3>3
      <4>2. file[old] = msg.profile /\ msg.id \in Elements(old)
        BY <1>4, <3>1, <3>3 DEF Means, Node, NULL
      <4>. QED  BY <1>5, <1>10, <4>1, <4>2 DEF Means
    <3>4. CASE heir[msg.node] # old
      <4>1. heir'[msg.node] = heir[msg.node] /\ reloaded \subseteq reloaded'
        BY <1>2, <3>2, <3>4
      <4>2. CASE heir[msg.node] = NULL
        BY <3>1, <4>1, <4>2 DEF Means
      <4>3. CASE heir[msg.node] # NULL
        <5>1. PICK h : h = heir[msg.node]
          OBVIOUS
        <5>2. /\ h \in Listed \ {old} /\ file[h] = msg.profile /\ msg.id \in Elements(h)
              /\ msg.node \in reloaded \/ h \in should_run
          BY <3>1, <3>4, <4>3, <5>1 DEF Means
        <5>3. h \in Node /\ h # new /\ h \in Listed' /\ file'[h] = msg.profile
          BY <1>4, <1>5, <5>2
        <5>4. msg.id \in Elements(h)'
          BY <1>6, <5>2, <5>3
        <5>5. msg.node \in reloaded' \/ h \in should_run'
          BY <1>2, <4>1, <5>2
        <5>6. heir'[msg.node] = h /\ h # NULL
          BY <4>1, <4>3, <5>1
        <5>. QED  BY <5>3, <5>4, <5>5, <5>6 DEF Means
      <4>. QED  BY <4>2, <4>3
    <3>. QED  BY <3>3, <3>4
  <2>. QED  BY <2>1, <2>2 DEF KeysHold
<1>12. Idle'
  BY <1>2 DEF Keyed, Idle
<1>. QED  BY <1>7, <1>9, <1>11, <1>12 DEF Keyed

\* The backend starts with the profiles in the list.
LEMMA StartKeyed ==
    ASSUME Inductive, Rest, Keyed, NEW marked \in SUBSET Listed, start_executing_marked(marked)
    PROVE  Keyed'
<1>. DEFINE scheduled == should_run \cup marked
<1>1. /\ should_run' = scheduled /\ file' = file
      /\ Backend_exists' = TRUE /\ todo' = said_by(scheduled) /\ to_front' = <<>>
      /\ heir' = [p \in Node |-> IF p \in Listed THEN p ELSE NULL]
  BY DEF start_executing_marked
<1>2. /\ Listed' = Listed /\ Listed \subseteq Node /\ \A p \in Node : Elements(p)' = Elements(p)
  BY <1>1, StartRest DEF Listed
<1>3. NamesDiffer' /\ SizesKept' /\ Idle'
  BY <1>1, <1>2 DEF Keyed, NamesDiffer, SizesKept, Idle
<1>4. scheduled \in SUBSET Listed
  BY DEF Rest, RunType
<1>. DEFINE said == UNION {SaidOf(p) : p \in scheduled}
<1>5. said_by(scheduled) \in Seq(said)
  BY <1>4, SaidType DEF Inductive, Rest
<1>6. Pending' \subseteq said
  <2>. HIDE DEF said, scheduled
  <2>1. \A i \in DOMAIN todo' : todo'[i] \in said
    BY <1>1, <1>5, ElementOfSeq
  <2>2. DOMAIN to_front' = {}
    BY <1>1
  <2>. QED  BY <2>1, <2>2 DEF Pending
<1>7. ASSUME NEW msg \in Pending' PROVE Means(msg)'
  <2>1. PICK p \in scheduled : msg \in SaidOf(p)
    BY <1>6
  <2>2. msg.node = p /\ msg.profile = file[p] /\ msg.id \in Elements(p)
    BY <2>1 DEF SaidOf, Message
  <2>3. p \in Listed /\ p \in Node
    BY <1>2, <1>4, <2>1
  <2>4. heir'[msg.node] = p
    BY <1>1, <2>2, <2>3
  <2>5. p # NULL
    BY <2>3 DEF Node, NULL
  <2>6. p \in Listed' /\ file'[p] = msg.profile /\ msg.id \in Elements(p)' /\ p \in should_run'
    BY <1>1, <1>2, <2>1, <2>2, <2>3
  <2>. QED  BY <2>4, <2>5, <2>6 DEF Means
<1>. QED  BY <1>3, <1>7 DEF Keyed, KeysHold

\* What the backend says next was pending, and what fails is of the same profile.
LEMMA SayKeyed ==
    ASSUME Rest, Keyed, do_execute_element \/ fail \/ stop_ourselves
    PROVE  Keyed'
<1>1. /\ UNCHANGED <<file, status, should_run, Backend_exists, heir, reloaded>>
      /\ todo # <<>>
  BY DEF do_execute_element, fail, stop_ourselves, list_vars
<1>2. Idle' /\ \A p \in Node : Elements(p)' = Elements(p)
  BY <1>1 DEF Keyed, Idle, Elements
<1>3. /\ Head(todo) = todo[1] /\ 1 \in DOMAIN todo /\ Tail(todo) \in Seq(MessageType)
      /\ \A i \in DOMAIN Tail(todo) : i + 1 \in DOMAIN todo /\ Tail(todo)[i] = todo[i + 1]
      /\ todo \in Seq(MessageType) /\ to_front \in Seq(MessageType)
  BY <1>1, HeadTailProperties, LenProperties DEF Rest, QueueType
<1>4. ASSUME NEW m
      PROVE  {Append(to_front, m)[i] : i \in DOMAIN Append(to_front, m)}
                 \subseteq {to_front[i] : i \in DOMAIN to_front} \cup {m}
  BY <1>3
<1>5. CASE do_execute_element
  <2>1. todo' = Tail(todo) /\ to_front' = Append(to_front, Head(todo))
    BY <1>5 DEF do_execute_element
  <2>2. Pending' \subseteq Pending
    BY <1>3, <1>4, <2>1 DEF Pending
  <2>. QED  BY <1>1, <1>2, <2>2, SameKeyed
<1>6. CASE stop_ourselves
  <2>1. todo' = <<>> /\ to_front' = to_front
    BY <1>6 DEF stop_ourselves
  <2>2. DOMAIN todo' = {}
    BY <2>1
  <2>3. Pending' \subseteq Pending
    BY <2>1, <2>2 DEF Pending
  <2>. QED  BY <1>1, <1>2, <2>3, SameKeyed
<1>7. CASE fail
  <2>. DEFINE msg == Head(todo)
              failed == [msg EXCEPT !.type = "FAILED"]
              last == [failed EXCEPT !.id = 0]
  <2>1. todo' = <<last>> /\ to_front' = Append(to_front, failed)
    BY <1>7 DEF fail
  <2>2. msg \in MessageType /\ Means(msg)
    <3>1. todo[1] \in Pending
      BY <1>3 DEF Pending
    <3>. QED  BY <1>3, <3>1, PendingType DEF Rest, Keyed, KeysHold
  <2>3. /\ failed.node = msg.node /\ failed.profile = msg.profile /\ failed.id = msg.id
        /\ last.node = msg.node /\ last.profile = msg.profile /\ last.id = 0
    BY <2>2 DEF MessageType
  <2>4. {todo'[i] : i \in DOMAIN todo'} = {last}
    <3>. HIDE DEF last
    <3>. QED  BY <2>1
  <2>5. Pending' \subseteq Pending \cup {failed, last}
    <3>. HIDE DEF failed, last
    <3>. QED  BY <1>4, <2>1, <2>4 DEF Pending
  <2>. HIDE DEF failed, last, msg
  <2>6. Means(failed) /\ Means(last)
    <3>1. CASE heir[msg.node] = NULL
      BY <2>2, <2>3, <3>1 DEF Means
    <3>2. CASE heir[msg.node] # NULL
      <4>1. /\ heir[msg.node] \in Listed /\ file[heir[msg.node]] = msg.profile
            /\ msg.id \in Elements(heir[msg.node])
            /\ msg.node \in reloaded \/ heir[msg.node] \in should_run
        BY <2>2, <3>2 DEF Means
      <4>2. 0 \in Elements(heir[msg.node])
        <5>1. heir[msg.node] \in Node
          BY <4>1 DEF Listed
        <5>. QED  BY <5>1, SizeOf DEF Rest
      <4>. QED  BY <2>3, <3>2, <4>1, <4>2 DEF Means
    <3>. QED  BY <3>1, <3>2
  <2>7. ASSUME NEW m \in Pending' PROVE Means(m)'
    <3>1. Means(m)
      BY <2>5, <2>6 DEF Keyed, KeysHold
    <3>2. Listed' = Listed /\ Listed \subseteq Node
      BY <1>1 DEF Listed
    <3>. QED  BY <1>1, <1>2, <3>1, <3>2 DEF Means
  <2>8. NamesDiffer' /\ SizesKept'
    BY <1>1 DEF Keyed, NamesDiffer, SizesKept, Listed, Elements
  <2>. QED  BY <1>2, <2>7, <2>8 DEF Keyed, KeysHold
<1>. QED  BY <1>5, <1>6, <1>7

\* A message read is one fewer pending, and no element appears or goes.
LEMMA HandleKeyed ==
    ASSUME Inductive, Rest, HasRow, ShowsRow, Keyed, handle_ctrl_msg
    PROVE  Keyed'
<1>1. /\ UNCHANGED <<file, should_run, Backend_exists, heir, reloaded, todo>>
      /\ Backend_exists /\ to_front # <<>> /\ to_front' = Tail(to_front)
  BY DEF handle_ctrl_msg
<1>2. \A p \in Node : Elements(p)' = Elements(p)
  BY HandleStatus
<1>3. \A i \in DOMAIN Tail(to_front) : i + 1 \in DOMAIN to_front /\ Tail(to_front)[i] = to_front[i + 1]
  BY <1>1, HeadTailProperties, LenProperties DEF Rest, QueueType
<1>4. Pending' \subseteq Pending /\ Idle'
  BY <1>1, <1>3 DEF Pending, Idle
<1>. QED  BY <1>1, <1>2, <1>4, SameKeyed

\* Every step keeps the keys.
LEMMA StepKeyed ==
    ASSUME FilesAreKeys, Inductive, HasRow, ShowsRow, Rest, Keyed, [Next]_vars
    PROVE  Keyed'
<1>1. CASE add_profile
  BY <1>1, AddKeyed
<1>2. CASE remove_profile
  BY <1>2, RemoveKeyed
<1>3. ASSUME NEW p \in Listed, reload_profile(p) PROVE Keyed'
  BY <1>3, ReloadKeyed
<1>4. ASSUME NEW marked \in SUBSET Listed, start_executing_marked(marked) PROVE Keyed'
  BY <1>4, StartKeyed
<1>5. CASE do_execute_element \/ fail \/ stop_ourselves
  BY <1>5, SayKeyed
<1>6. CASE handle_ctrl_msg
  BY <1>6, HandleKeyed
<1>7. CASE wait_for_the_backend
  <2>1. /\ UNCHANGED <<file, heir, reloaded>> /\ todo' = <<>> /\ to_front' = <<>>
    BY <1>7 DEF wait_for_the_backend
  <2>2. \A p \in Node : Elements(p)' = Elements(p)
    BY <1>7, WaitRest
  <2>3. Pending' = {} /\ Idle'
    BY <2>1 DEF Pending, Idle
  <2>. QED  BY <2>1, <2>2, <2>3, SameKeyed
<1>8. ASSUME UNCHANGED <<file, status, should_run, run_vars>> PROVE Keyed'
  <2>1. Pending' = Pending /\ Idle' /\ \A p \in Node : Elements(p)' = Elements(p)
    BY <1>8 DEF run_vars, Pending, Idle, Keyed, Elements
  <2>. QED  BY <1>8, <2>1, SameKeyed DEF run_vars
<1>9. ASSUME NEW p \in Listed, move_profile_up(p) \/ move_profile_down(p) PROVE Keyed'
  BY <1>8, <1>9 DEF move_profile_up, move_profile_down
<1>10. ASSUME NEW p \in Listed, confirm_removal(p) PROVE Keyed'
  BY <1>8, <1>10 DEF confirm_removal, list_vars
<1>11. CASE abort_removal \/ UNCHANGED vars
  BY <1>8, <1>11 DEF abort_removal, vars, list_vars
<1>. QED  BY <1>1, <1>2, <1>3, <1>4, <1>5, <1>6, <1>7, <1>9, <1>10, <1>11 DEF Next

\* An element of the only profile of its name is found by name and position.
LEMMA KeyedResolves ==
    ASSUME ShowsRow, HasRow, Inductive, Rest, Keyed
    PROVE  KeysResolve
<1>1. ASSUME NEW msg \in Pending, heir[msg.node] # NULL
      PROVE  find_element_by_key(msg) = <<heir[msg.node], msg.id>>
  <2>1. /\ heir[msg.node] \in Listed /\ file[heir[msg.node]] = msg.profile
        /\ msg.id \in Elements(heir[msg.node])
    BY <1>1 DEF Keyed, KeysHold, Means
  <2>2. msg.id \in Nat
    <3>1. msg \in MessageType
      BY PendingType DEF Rest
    <3>. QED  BY <3>1 DEF MessageType
  <2>. QED  BY <2>1, <2>2, FoundByKey DEF Inductive, Rest, Keyed
<1>2. ASSUME NEW msg \in Pending, heir[msg.node] = NULL PROVE msg.node \in reloaded
  BY <1>2 DEF Keyed, KeysHold, Means
<1>. QED  BY <1>1, <1>2 DEF KeysResolve, Pending

\* If every file is in the list once and keeps its number of elements, a message never
\* names another element than the one it is about, and 'd' never takes a profile that
\* is still to be executed away unless it was reloaded.
THEOREM KeysAlwaysResolve == FilesAreKeys /\ Spec => []KeysResolve
<1>. DEFINE Inv == FilesAreKeys /\ Inductive /\ HasRow /\ Rest /\ Keyed
<1>1. FilesAreKeys /\ Init => Inv
  BY InitList, ChainIsRow, InitShown, InitRest, InitKeyed
<1>2. Inv /\ [Next]_vars => Inv'
  <2>. SUFFICES ASSUME Inv, [Next]_vars PROVE Inv'
    OBVIOUS
  <2>1. Inductive'
    BY StepKeepsList
  <2>2. HasRow'
    BY <2>1, ChainIsRow, StepShown DEF HasRow
  <2>3. Rest' /\ Keyed'
    BY ChainIsRow, StepRest, StepKeyed
  <2>. QED  BY <2>1, <2>2, <2>3 DEF FilesAreKeys
<1>3. Inv => KeysResolve
  BY ChainIsRow, KeyedResolves
<1>. QED  BY <1>1, <1>2, <1>3, PTL DEF Spec
-----------------------------------------------------------------------------
(***************************************************************************)
(* Elements that are marked as running.                                    *)
(***************************************************************************)

\* The message says that element i of profile n has come to its end.
Ends(msg, n, i) == msg.type # "STARTED" /\ msg.node = n /\ msg.id = i

\* From message s on, element i of profile n comes to its end: a child at once, a
\* profile after its children.  After a stop it may have been cut off on the way.
Closes(P, goes_on, s, n, i) ==
    \/ i # 0 /\ s <= Len(P) /\ Ends(P[s], n, i)
    \/ i = 0 /\ \E j \in s .. Len(P) : Ends(P[j], n, 0) /\ \A m \in s .. j : P[m].node = n
    \/ ~goes_on /\ (i # 0 => s > Len(P)) /\ \A m \in s .. Len(P) : P[m].node = n

\* What starts comes to its end.
Ordered(P, goes_on) ==
    \A k \in 1 .. Len(P) :
        P[k].type = "STARTED" => Closes(P, goes_on, k + 1, P[k].node, P[k].id)

\* What has been sent, and what is still to be said.
Backlog == to_front \o todo

\* The element runs: it is the one that the frontend has been told of last, or its
\* profile, and the messages to come bring it to its end.
Runs(p, i) ==
    /\ current_running[1] = p
    /\ i # 0 => current_running[2] = i
    /\ \E n \in Node : heir[n] = p /\ Closes(Backlog, ok, 1, n, i)

NoneRuns == \A p \in Listed : \A i \in Elements(p) : status[p][i] # "RUNNING"

Accounted ==
    ~crashed =>
        IF Backend_exists
        THEN /\ Ordered(Backlog, ok)
             /\ \A p \in Listed : \A i \in Elements(p) : status[p][i] = "RUNNING" => Runs(p, i)
        ELSE NoneRuns

\* What has been removed has left no other profile of its name.
NameIsGone ==
    \A msg \in Pending : heir[msg.node] = NULL => \A p \in Listed : file[p] # msg.profile

\* Behind the first message things come to their end as before.
LEMMA ClosesLater ==
    ASSUME NEW S, NEW P \in Seq(S), P # <<>>, NEW g, NEW s \in Nat, s >= 2, NEW n, NEW i,
           Closes(P, g, s, n, i)
    PROVE  Closes(Tail(P), g, s - 1, n, i)
<1>1. /\ Len(P) \in Nat \ {0} /\ Len(Tail(P)) = Len(P) - 1
      /\ \A m \in 1 .. Len(P) - 1 : Tail(P)[m] = P[m + 1]
  BY HeadTailProperties, LenProperties, EmptySeq
<1>. DEFINE L == Len(P)
            T == Tail(P)
<1>2. L \in Nat \ {0} /\ Len(T) = L - 1 /\ \A m \in 1 .. L - 1 : T[m] = P[m + 1]
  BY <1>1
<1>. HIDE DEF L, T
<1>3. \A m : m \in s - 1 .. L - 1 => m + 1 \in s .. L /\ m \in 1 .. L - 1 /\ T[m] = P[m + 1]
  BY <1>2
<1>4. CASE i # 0 /\ s <= L /\ Ends(P[s], n, i)
  <2>1. s - 1 \in s - 1 .. L - 1 /\ (s - 1) + 1 = s
    BY <1>2, <1>4
  <2>2. T[s - 1] = P[s]
    BY <1>3, <2>1
  <2>. QED  BY <1>2, <1>4, <2>1, <2>2 DEF Closes, T
<1>5. CASE i = 0 /\ \E j \in s .. L : Ends(P[j], n, 0) /\ \A m \in s .. j : P[m].node = n
  <2>1. PICK j \in s .. L : Ends(P[j], n, 0) /\ \A m \in s .. j : P[m].node = n
    BY <1>5
  <2>2. j - 1 \in s - 1 .. L - 1 /\ (j - 1) + 1 = j
    BY <1>2, <2>1
  <2>3. Ends(T[j - 1], n, 0)
    BY <1>3, <2>1, <2>2
  <2>4. ASSUME NEW m \in s - 1 .. j - 1 PROVE T[m].node = n
    <3>1. m + 1 \in s .. j /\ m \in s - 1 .. L - 1
      BY <1>2, <2>1
    <3>. QED  BY <1>3, <2>1, <3>1
  <2>5. Len(T) = L - 1
    BY <1>2
  <2>. QED  BY <1>5, <2>2, <2>3, <2>4, <2>5 DEF Closes, T
<1>6. CASE ~g /\ (i # 0 => s > L) /\ \A m \in s .. L : P[m].node = n
  <2>1. \A m \in s - 1 .. L - 1 : T[m].node = n
    BY <1>3, <1>6
  <2>2. i # 0 => s - 1 > L - 1
    BY <1>2, <1>6
  <2>3. Len(T) = L - 1
    BY <1>2
  <2>. QED  BY <1>6, <2>1, <2>2, <2>3 DEF Closes, T
<1>. QED  BY <1>4, <1>5, <1>6 DEF Closes, L

\* So does what starts behind it.
LEMMA OrderedLater ==
    ASSUME NEW S, NEW P \in Seq(S), P # <<>>, NEW g, Ordered(P, g)
    PROVE  Ordered(Tail(P), g)
<1>. DEFINE T == Tail(P)
<1>1. /\ Len(P) \in Nat \ {0} /\ Len(T) = Len(P) - 1
      /\ \A m \in 1 .. Len(P) - 1 : T[m] = P[m + 1]
  BY HeadTailProperties, LenProperties, EmptySeq
<1>2. ASSUME NEW k \in 1 .. Len(T), T[k].type = "STARTED"
      PROVE  Closes(T, g, k + 1, T[k].node, T[k].id)
  <2>1. T[k] = P[k + 1] /\ k + 1 \in 1 .. Len(P) /\ k + 2 \in Nat /\ k + 2 >= 2
    BY <1>1
  <2>2. Closes(P, g, (k + 1) + 1, P[k + 1].node, P[k + 1].id)
    BY <1>2, <2>1 DEF Ordered
  <2>3. (k + 1) + 1 = k + 2 /\ (k + 2) - 1 = k + 1
    BY <1>1
  <2>4. Closes(P, g, k + 2, T[k].node, T[k].id)
    BY <2>1, <2>2, <2>3
  <2>5. Closes(T, g, (k + 2) - 1, T[k].node, T[k].id)
    BY <2>1, <2>4, ClosesLater
  <2>. QED  BY <2>3, <2>5
<1>. QED  BY <1>2 DEF Ordered

\* After a stop what has been sent is the beginning of what was to be said.
LEMMA ClosesCut ==
    ASSUME NEW P, NEW Q, Len(P) \in Nat, NEW t, t = Len(Q), t \in 0 .. Len(P),
           \A m \in 1 .. t : Q[m] = P[m],
           NEW g, NEW s \in 1 .. t + 1, NEW n, NEW i, Closes(P, g, s, n, i)
    PROVE  Closes(Q, FALSE, s, n, i)
<1>. DEFINE L == Len(P)
<1>0. L \in Nat /\ t \in 0 .. L
  OBVIOUS
<1>. HIDE DEF L
<1>1. CASE i # 0 /\ s <= L /\ Ends(P[s], n, i)
  <2>1. CASE s <= t
    <3>1. Q[s] = P[s]
      BY <2>1
    <3>. QED  BY <1>1, <2>1, <3>1 DEF Closes
  <2>2. CASE ~(s <= t)
    <3>1. s > t /\ \A m \in s .. t : FALSE
      BY <1>0, <2>2
    <3>. QED  BY <3>1 DEF Closes
  <2>. QED  BY <2>1, <2>2
<1>2. CASE i = 0 /\ \E j \in s .. L : Ends(P[j], n, 0) /\ \A m \in s .. j : P[m].node = n
  <2>1. PICK j \in s .. L : Ends(P[j], n, 0) /\ \A m \in s .. j : P[m].node = n
    BY <1>2
  <2>2. CASE j <= t
    <3>1. /\ j \in s .. t /\ \A m \in s .. j : Q[m] = P[m]
      BY <1>0, <2>1, <2>2
    <3>2. Ends(Q[j], n, 0) /\ \A m \in s .. j : Q[m].node = n
      BY <2>1, <3>1
    <3>. QED  BY <1>2, <3>1, <3>2 DEF Closes
  <2>3. CASE ~(j <= t)
    <3>1. \A m \in s .. t : m \in s .. j /\ Q[m] = P[m]
      BY <1>0, <2>1, <2>3
    <3>. QED  BY <1>2, <2>1, <3>1 DEF Closes
  <2>. QED  BY <2>2, <2>3
<1>3. CASE ~g /\ (i # 0 => s > L) /\ \A m \in s .. L : P[m].node = n
  <2>1. (i # 0 => s > t) /\ \A m \in s .. t : m \in s .. L /\ Q[m] = P[m]
    BY <1>0, <1>3
  <2>. QED  BY <1>3, <2>1 DEF Closes
<1>. QED  BY <1>1, <1>2, <1>3 DEF Closes, L

\* When a child fails, its profile fails next, and nothing else comes.
LEMMA ClosesFailed ==
    ASSUME NEW P, NEW Q, Len(P) \in Nat, NEW t \in 1 .. Len(P), Len(Q) = t + 1,
           \A m \in 1 .. t - 1 : Q[m] = P[m], P[t].id # 0,
           Ends(Q[t], P[t].node, P[t].id), Ends(Q[t + 1], P[t].node, 0),
           NEW g, NEW s \in 1 .. t, NEW n, NEW i, Closes(P, g, s, n, i)
    PROVE  Closes(Q, FALSE, s, n, i)
<1>. DEFINE L == Len(P)
            h == P[t].node
<1>0. L \in Nat /\ t \in 1 .. L /\ Len(Q) = t + 1
  OBVIOUS
<1>1. Q[t].node = h /\ Q[t + 1].node = h /\ Ends(Q[t + 1], h, 0)
  BY DEF Ends
<1>2. ASSUME \A m \in s .. t : P[m].node = n, i = 0
      PROVE  Closes(Q, FALSE, s, n, i)
  <2>1. t \in s .. t /\ t + 1 \in s .. Len(Q)
    BY <1>0
  <2>2. h = n
    BY <1>2, <2>1
  <2>. HIDE DEF h
  <2>3. ASSUME NEW m \in s .. t + 1 PROVE Q[m].node = n
    <3>1. (m \in 1 .. t - 1 /\ m \in s .. t) \/ m = t \/ m = t + 1
      BY <1>0
    <3>2. CASE m \in 1 .. t - 1 /\ m \in s .. t
      BY <1>2, <3>2
    <3>. QED  BY <1>1, <2>2, <3>1, <3>2
  <2>. QED  BY <1>1, <1>2, <2>1, <2>2, <2>3 DEF Closes
<1>. HIDE DEF L
<1>3. CASE i # 0 /\ s <= L /\ Ends(P[s], n, i)
  <2>1. Ends(Q[s], n, i)
    <3>1. CASE s = t
      BY <1>3, <3>1 DEF Ends
    <3>2. CASE s # t
      <4>1. s \in 1 .. t - 1
        BY <1>0, <3>2
      <4>. QED  BY <1>3, <4>1
    <3>. QED  BY <3>1, <3>2
  <2>2. s <= Len(Q)
    BY <1>0
  <2>. QED  BY <1>3, <2>1, <2>2 DEF Closes
<1>4. CASE i = 0 /\ \E j \in s .. L : Ends(P[j], n, 0) /\ \A m \in s .. j : P[m].node = n
  <2>1. PICK j \in s .. L : Ends(P[j], n, 0) /\ \A m \in s .. j : P[m].node = n
    BY <1>4
  <2>2. CASE j < t
    <3>1. j \in 1 .. t - 1 /\ j \in s .. Len(Q) /\ \A m \in s .. j : m \in 1 .. t - 1
      BY <1>0, <2>1, <2>2
    <3>2. Ends(Q[j], n, 0) /\ \A m \in s .. j : Q[m].node = n
      BY <2>1, <3>1
    <3>. QED  BY <1>4, <3>1, <3>2 DEF Closes
  <2>3. CASE ~(j < t)
    <3>1. \A m \in s .. t : m \in s .. j
      BY <1>0, <2>1, <2>3
    <3>. QED  BY <1>2, <1>4, <2>1, <3>1
  <2>. QED  BY <2>2, <2>3
<1>5. CASE ~g /\ (i # 0 => s > L) /\ \A m \in s .. L : P[m].node = n
  <2>1. i = 0 /\ \A m \in s .. t : m \in s .. L
    BY <1>0, <1>5
  <2>. QED  BY <1>2, <1>5, <2>1
<1>. QED  BY <1>3, <1>4, <1>5 DEF Closes, L

\* What was in order stays so.
LEMMA OrderedCut ==
    ASSUME NEW P, NEW Q, Len(P) \in Nat, NEW t, t = Len(Q), t \in 0 .. Len(P),
           \A m \in 1 .. t : Q[m] = P[m], NEW g, Ordered(P, g)
    PROVE  Ordered(Q, FALSE)
<1>1. ASSUME NEW k \in 1 .. t, Q[k].type = "STARTED"
      PROVE  Closes(Q, FALSE, k + 1, Q[k].node, Q[k].id)
  <2>1. k \in 1 .. Len(P) /\ Q[k] = P[k] /\ k + 1 \in 1 .. t + 1
    OBVIOUS
  <2>2. Closes(P, g, k + 1, P[k].node, P[k].id)
    BY <1>1, <2>1 DEF Ordered
  <2>3. Closes(Q, FALSE, k + 1, P[k].node, P[k].id)
    BY <2>1, <2>2, ClosesCut
  <2>. QED  BY <2>1, <2>3
<1>. QED  BY <1>1 DEF Ordered

\* And so it does when a child fails.
LEMMA OrderedFailed ==
    ASSUME NEW P, NEW Q, Len(P) \in Nat, NEW t \in 1 .. Len(P), Len(Q) = t + 1,
           \A m \in 1 .. t - 1 : Q[m] = P[m], P[t].id # 0,
           Ends(Q[t], P[t].node, P[t].id), Ends(Q[t + 1], P[t].node, 0),
           NEW g, Ordered(P, g)
    PROVE  Ordered(Q, FALSE)
<1>1. ASSUME NEW k \in 1 .. t + 1, Q[k].type = "STARTED"
      PROVE  Closes(Q, FALSE, k + 1, Q[k].node, Q[k].id)
  <2>1. k # t /\ k # t + 1
    BY <1>1 DEF Ends
  <2>2. k \in 1 .. t - 1 /\ k \in 1 .. Len(P) /\ k + 1 \in 1 .. t
    BY <2>1
  <2>3. Q[k] = P[k]
    BY <2>2
  <2>4. Closes(P, g, k + 1, P[k].node, P[k].id)
    BY <1>1, <2>2, <2>3 DEF Ordered
  <2>5. Closes(Q, FALSE, k + 1, P[k].node, P[k].id)
    BY <2>2, <2>4, ClosesFailed
  <2>. QED  BY <2>3, <2>5
<1>. QED  BY <1>1 DEF Ordered

\* One row of messages after the other.
LEMMA OrderedBoth ==
    ASSUME NEW S, NEW a \in Seq(S), NEW b \in Seq(S), Ordered(a, TRUE), Ordered(b, TRUE)
    PROVE  Ordered(a \o b, TRUE)
<1>. DEFINE P == a \o b
            A == Len(a)
            B == Len(b)
<1>1. /\ A \in Nat /\ B \in Nat /\ Len(P) = A + B
      /\ \A m \in 1 .. A : P[m] = a[m]
      /\ \A m \in 1 .. B : P[A + m] = b[m]
  <2>1. /\ A \in Nat /\ B \in Nat /\ Len(P) = A + B
        /\ \A m \in 1 .. A + B : P[m] = IF m <= A THEN a[m] ELSE b[m - A]
    BY ConcatProperties, LenProperties
  <2>. HIDE DEF P, A, B
  <2>2. \A m \in 1 .. A : m \in 1 .. A + B /\ m <= A
    BY <2>1
  <2>3. \A m \in 1 .. B : A + m \in 1 .. A + B /\ ~(A + m <= A) /\ (A + m) - A = m
    BY <2>1
  <2>. QED  BY <2>1, <2>2, <2>3
<1>2. \A k \in 1 .. A : a[k].type = "STARTED" => Closes(a, TRUE, k + 1, a[k].node, a[k].id)
  BY DEF Ordered
<1>3. \A k \in 1 .. B : b[k].type = "STARTED" => Closes(b, TRUE, k + 1, b[k].node, b[k].id)
  BY DEF Ordered
<1>4. ASSUME NEW s \in Nat, NEW n, NEW i, Closes(a, TRUE, s, n, i), s >= 1
      PROVE  Closes(P, TRUE, s, n, i)
  <2>1. \/ i # 0 /\ s <= A /\ Ends(a[s], n, i)
        \/ i = 0 /\ \E j \in s .. A : Ends(a[j], n, 0) /\ \A m \in s .. j : a[m].node = n
    BY <1>4 DEF Closes
  <2>. HIDE DEF P, A, B
  <2>2. CASE i # 0 /\ s <= A /\ Ends(a[s], n, i)
    <3>1. s \in 1 .. A /\ s <= A + B
      BY <1>1, <1>4, <2>2
    <3>. QED  BY <1>1, <2>2, <3>1 DEF Closes
  <2>3. CASE i = 0 /\ \E j \in s .. A : Ends(a[j], n, 0) /\ \A m \in s .. j : a[m].node = n
    <3>1. PICK j \in s .. A : Ends(a[j], n, 0) /\ \A m \in s .. j : a[m].node = n
      BY <2>3
    <3>2. j \in s .. A + B /\ j \in 1 .. A /\ \A m \in s .. j : m \in 1 .. A
      BY <1>1, <1>4, <3>1
    <3>3. Ends(P[j], n, 0) /\ \A m \in s .. j : P[m].node = n
      BY <1>1, <3>1, <3>2
    <3>. QED  BY <1>1, <2>3, <3>2, <3>3 DEF Closes
  <2>. QED  BY <2>1, <2>2, <2>3
<1>5. ASSUME NEW s \in Nat, NEW n, NEW i, Closes(b, TRUE, s, n, i), s >= 1
      PROVE  Closes(P, TRUE, A + s, n, i)
  <2>1. \/ i # 0 /\ s <= B /\ Ends(b[s], n, i)
        \/ i = 0 /\ \E j \in s .. B : Ends(b[j], n, 0) /\ \A m \in s .. j : b[m].node = n
    BY <1>5 DEF Closes
  <2>. HIDE DEF P, A, B
  <2>2. CASE i # 0 /\ s <= B /\ Ends(b[s], n, i)
    <3>1. s \in 1 .. B /\ A + s <= A + B
      BY <1>1, <1>5, <2>2
    <3>. QED  BY <1>1, <2>2, <3>1 DEF Closes
  <2>3. CASE i = 0 /\ \E j \in s .. B : Ends(b[j], n, 0) /\ \A m \in s .. j : b[m].node = n
    <3>1. PICK j \in s .. B : Ends(b[j], n, 0) /\ \A m \in s .. j : b[m].node = n
      BY <2>3
    <3>2. /\ A + j \in A + s .. A + B /\ j \in 1 .. B
          /\ \A m \in A + s .. A + j : m - A \in s .. j /\ m - A \in 1 .. B /\ A + (m - A) = m
      BY <1>1, <1>5, <3>1
    <3>3. Ends(P[A + j], n, 0)
      BY <1>1, <3>1, <3>2
    <3>4. ASSUME NEW m \in A + s .. A + j PROVE P[m].node = n
      <4>1. P[A + (m - A)] = b[m - A]
        BY <1>1, <3>2
      <4>. QED  BY <3>1, <3>2, <4>1
    <3>. QED  BY <1>1, <2>3, <3>2, <3>3, <3>4 DEF Closes
  <2>. QED  BY <2>1, <2>2, <2>3
<1>6. ASSUME NEW k \in 1 .. Len(P), P[k].type = "STARTED"
      PROVE  Closes(P, TRUE, k + 1, P[k].node, P[k].id)
  <2>. HIDE DEF P, A, B
  <2>1. CASE k <= A
    <3>1. k \in 1 .. A /\ k + 1 \in Nat /\ k + 1 >= 1
      BY <1>1, <2>1
    <3>2. P[k] = a[k]
      BY <1>1, <3>1
    <3>. QED  BY <1>2, <1>4, <1>6, <3>1, <3>2
  <2>2. CASE ~(k <= A)
    <3>1. k - A \in 1 .. B /\ (k - A) + 1 \in Nat /\ (k - A) + 1 >= 1
          /\ A + (k - A) = k /\ A + ((k - A) + 1) = k + 1
      BY <1>1, <2>2
    <3>2. P[k] = b[k - A]
      BY <1>1, <3>1
    <3>3. Closes(b, TRUE, (k - A) + 1, P[k].node, P[k].id)
      BY <1>3, <1>6, <3>1, <3>2
    <3>4. Closes(P, TRUE, A + ((k - A) + 1), P[k].node, P[k].id)
      BY <1>5, <3>1, <3>3
    <3>. QED  BY <3>1, <3>4
  <2>. QED  BY <2>1, <2>2
<1>. QED  BY <1>6 DEF Ordered

\* Each child starts and ends before the next, the profile around them.
LEMMA SaidIsOrdered ==
    ASSUME StatusType, NEW p \in Node
    PROVE  Ordered(said_of(p), TRUE)
<1>. DEFINE c == Cardinality(Elements(p))
            C == 2 * (c - 1)
            children == [k \in 1 .. 2 * (c - 1) |->
                           Message(IF k % 2 = 1 THEN "STARTED" ELSE "ENDED", p, (k + 1) \div 2)]
            begun == <<Message("STARTED", p, 0)>>
            ended == <<Message("ENDED", p, 0)>>
            P == said_of(p)
<1>1. P = begun \o children \o ended
  BY DEF said_of
<1>2. c \in Nat \ {0} /\ Elements(p) = 0 .. c - 1 /\ C = 2 * (c - 1) /\ C \in Nat
  BY SizeOf
<1>. DEFINE S == SaidOf(p)
<1>3. \A s \in {"STARTED", "ENDED"}, i \in Elements(p) : Message(s, p, i) \in S
  BY DEF SaidOf
<1>4. /\ children \in Seq(S) /\ Len(children) = C
      /\ \A k \in 1 .. C :
            children[k] = Message(IF k % 2 = 1 THEN "STARTED" ELSE "ENDED", p, (k + 1) \div 2)
  <2>. HIDE DEF c, S
  <2>1. \A k \in 1 .. C : (k + 1) \div 2 \in Elements(p)
    BY <1>2
  <2>2. children \in [1 .. C -> S]
    BY <1>3, <2>1
  <2>3. \A k \in 1 .. C :
            children[k] = Message(IF k % 2 = 1 THEN "STARTED" ELSE "ENDED", p, (k + 1) \div 2)
    OBVIOUS
  <2>. HIDE DEF children, C
  <2>. QED  BY <1>2, <2>2, <2>3, RowOfAny
<1>5. /\ begun \in Seq(S) /\ Len(begun) = 1 /\ begun[1] = Message("STARTED", p, 0)
      /\ ended \in Seq(S) /\ Len(ended) = 1 /\ ended[1] = Message("ENDED", p, 0)
  <2>1. 0 \in Elements(p)
    BY <1>2
  <2>2. Message("STARTED", p, 0) \in S /\ Message("ENDED", p, 0) \in S
    BY <1>3, <2>1
  <2>. HIDE DEF S
  <2>. QED  BY <2>2
<1>. HIDE DEF S, children, begun, ended, c, C, P
<1>6. /\ Len(P) = C + 2
      /\ P[1] = Message("STARTED", p, 0)
      /\ \A k \in 1 .. C : P[k + 1] = children[k]
      /\ P[C + 2] = Message("ENDED", p, 0)
  <2>. DEFINE Q == begun \o children
  <2>1. /\ Q \in Seq(S) /\ Len(Q) = 1 + C
        /\ \A m \in 1 .. 1 + C : Q[m] = IF m <= 1 THEN begun[m] ELSE children[m - 1]
    <3>1. /\ Q \in Seq(S) /\ Len(Q) = Len(begun) + Len(children)
          /\ \A m \in 1 .. Len(begun) + Len(children) :
                Q[m] = IF m <= Len(begun) THEN begun[m] ELSE children[m - Len(begun)]
      BY <1>4, <1>5, ConcatProperties
    <3>. QED  BY <1>4, <1>5, <3>1
  <2>2. P = Q \o ended
    BY <1>1
  <2>. HIDE DEF Q
  <2>3. /\ Len(P) = C + 2
        /\ \A m \in 1 .. C + 2 : P[m] = IF m <= 1 + C THEN Q[m] ELSE ended[m - (1 + C)]
    <3>1. /\ Len(P) = Len(Q) + Len(ended)
          /\ \A m \in 1 .. Len(Q) + Len(ended) :
                P[m] = IF m <= Len(Q) THEN Q[m] ELSE ended[m - Len(Q)]
      BY <1>5, <2>1, <2>2, ConcatProperties
    <3>2. Len(Q) = 1 + C /\ Len(ended) = 1 /\ (1 + C) + 1 = C + 2
      BY <1>2, <1>5, <2>1
    <3>. QED  BY <3>1, <3>2
  <2>4. P[1] = begun[1]
    BY <1>2, <2>1, <2>3
  <2>5. \A k \in 1 .. C : P[k + 1] = children[k]
    <3>1. \A k \in 1 .. C : k + 1 \in 1 .. C + 2 /\ k + 1 \in 1 .. 1 + C /\ ~(k + 1 <= 1) /\ (k + 1) - 1 = k
      BY <1>2
    <3>. QED  BY <2>1, <2>3, <3>1
  <2>6. P[C + 2] = ended[1]
    BY <1>2, <2>3
  <2>. QED  BY <1>5, <2>3, <2>4, <2>5, <2>6
<1>7. \A s, i : /\ Message(s, p, i).type = s /\ Message(s, p, i).id = i /\ Message(s, p, i).node = p
  BY DEF Message
<1>8. \A m \in 1 .. C + 2 : P[m].node = p
  <2>1. \A m \in 1 .. C + 2 : m = 1 \/ m = C + 2 \/ (m - 1 \in 1 .. C /\ (m - 1) + 1 = m)
    BY <1>2
  <2>. QED  BY <1>4, <1>6, <1>7, <2>1
<1>9. ASSUME NEW k \in 1 .. C + 2, P[k].type = "STARTED"
      PROVE  Closes(P, TRUE, k + 1, P[k].node, P[k].id)
  <2>1. k # C + 2
    BY <1>6, <1>7, <1>9
  <2>2. CASE k = 1
    <3>1. P[k].id = 0 /\ P[k].node = p
      BY <1>6, <1>7, <2>2
    <3>2. C + 2 \in k + 1 .. Len(P) /\ \A m \in k + 1 .. C + 2 : m \in 1 .. C + 2
      BY <1>2, <1>6, <2>2
    <3>3. Ends(P[C + 2], p, 0)
      BY <1>6, <1>7 DEF Ends
    <3>. QED  BY <1>8, <3>1, <3>2, <3>3 DEF Closes
  <2>3. CASE k # 1
    <3>1. k - 1 \in 1 .. C /\ (k - 1) + 1 = k
      BY <1>2, <2>1, <2>3
    <3>2. P[k] = Message(IF (k - 1) % 2 = 1 THEN "STARTED" ELSE "ENDED", p, ((k - 1) + 1) \div 2)
      BY <1>4, <1>6, <3>1
    <3>3. (k - 1) % 2 = 1
      BY <1>7, <1>9, <3>2
    <3>4. k \in 1 .. C /\ k % 2 # 1 /\ (k + 1) \div 2 = k \div 2 /\ k \div 2 # 0 /\ k + 1 <= C + 2
      BY <1>2, <3>1, <3>3
    <3>5. P[k + 1] = Message("ENDED", p, k \div 2)
      BY <1>4, <1>6, <3>4
    <3>6. P[k].id = k \div 2 /\ P[k].node = p
      BY <1>7, <3>1, <3>2
    <3>7. Ends(P[k + 1], p, k \div 2)
      BY <1>7, <3>5 DEF Ends
    <3>. QED  BY <1>6, <3>4, <3>6, <3>7 DEF Closes
  <2>. QED  BY <2>2, <2>3
<1>. QED  BY <1>6, <1>9 DEF Ordered, P

\* In order to the end.
InOrder(P) == Ordered(P, TRUE)

\* A walk that says what is in order at each profile says it in order.
LEMMA WalkOrdered ==
    ASSUME NEW H, NEW F, F = [n \in 0 .. MaxNodes |-> Walk(H, F, n)], ListType,
           NEW S, \A p \in Node : H[p] \in Seq(S) /\ InOrder(H[p])
    PROVE  \A n, p \in 0 .. MaxNodes : InOrder(F[n][p])
<1>. DEFINE Right(n) == \A p \in 0 .. MaxNodes : InOrder(F[n][p])
            Open == {n \in 0 .. MaxNodes : ~Right(n)}
<1>0. /\ MaxNodes \in Nat /\ NULL \in 0 .. MaxNodes /\ NULL \notin Node
      /\ \A p \in 0 .. MaxNodes : p = NULL \/ p \in Node
      /\ \A p \in Node : p \in 0 .. MaxNodes /\ nxt[p] \in 0 .. MaxNodes
  BY ListAssumption DEF ListType, Node, NULL
<1>1. \A n, p \in 0 .. MaxNodes :
         F[n][p] = IF n = 0 \/ p = NULL THEN <<>> ELSE H[p] \o F[n - 1][nxt[p]]
  <2>1. \A n \in 0 .. MaxNodes : F[n] = Walk(H, F, n)
    OBVIOUS
  <2>2. \A n, p \in 0 .. MaxNodes :
           Walk(H, F, n)[p] = IF n = 0 \/ p = NULL THEN <<>> ELSE H[p] \o F[n - 1][nxt[p]]
    BY DEF Walk
  <2>. QED  BY <2>1, <2>2
<1>2. \A n, p \in 0 .. MaxNodes : F[n][p] \in Seq(S)
  BY WalkSays
<1>3. Open = {}
  <2>. SUFFICES ASSUME Open # {} PROVE FALSE
    OBVIOUS
  <2>1. PICK n \in Open : \A i \in Open : n <= i
    <3>. HIDE DEF Open
    <3>1. Open \in SUBSET Nat
      BY <1>0 DEF Open
    <3>. QED  BY <3>1, LeastOf
  <2>2. PICK p \in 0 .. MaxNodes : ~InOrder(F[n][p])
    BY <2>1
  <2>3. n # 0 /\ p # NULL
    <3>1. InOrder(<<>>)
      BY DEF InOrder, Ordered
    <3>2. n \in 0 .. MaxNodes
      BY <2>1
    <3>3. n = 0 \/ p = NULL => F[n][p] = <<>>
      BY <1>1, <2>2, <3>2
    <3>. QED  BY <2>2, <3>1, <3>3
  <2>4. /\ n \in Nat \ {0} /\ n \in 0 .. MaxNodes /\ n - 1 \in 0 .. MaxNodes
        /\ n - 1 \notin Open /\ p \in Node
    <3>1. n \in 0 .. MaxNodes
      BY <2>1
    <3>. HIDE DEF Open
    <3>. QED  BY <1>0, <2>1, <2>2, <2>3, <3>1
  <2>. DEFINE a == H[p]
              b == F[n - 1][nxt[p]]
  <2>5. b \in Seq(S) /\ InOrder(b) /\ a \in Seq(S) /\ InOrder(a)
    BY <1>0, <1>2, <2>4
  <2>6. F[n][p] = a \o b
    BY <1>1, <2>2, <2>3, <2>4
  <2>. HIDE DEF a, b
  <2>7. InOrder(a \o b)
    BY <2>5, OrderedBoth DEF InOrder
  <2>. QED  BY <2>2, <2>6, <2>7
<1>. QED  BY <1>3

\* So all that is said in a run is in order.
LEMMA SaidByOrdered ==
    ASSUME ListType, StatusType, NEW scheduled \in SUBSET Node
    PROVE  InOrder(said_by(scheduled))
<1>. DEFINE S == UNION {SaidOf(p) : p \in scheduled}
            H == SaysOf(scheduled)
<1>1. PICK W : /\ W = [n \in 0 .. MaxNodes |-> Walk(H, W, n)]
               /\ said_by(scheduled) = W[MaxNodes][first]
  BY SaidByWalk
<1>2. MaxNodes \in 0 .. MaxNodes /\ first \in 0 .. MaxNodes
  BY ListAssumption DEF ListType, Node
<1>3. ASSUME NEW p \in Node PROVE H[p] \in Seq(S) /\ InOrder(H[p])
  <2>1. H[p] \in Seq(S)
    BY SaysScheduled
  <2>2. H[p] = said_of(p) \/ H[p] = <<>>
    BY ListAssumption DEF SaysOf, Node
  <2>3. InOrder(<<>>)
    BY DEF InOrder, Ordered
  <2>4. InOrder(said_of(p))
    BY SaidIsOrdered DEF InOrder
  <2>. QED  BY <2>1, <2>2, <2>3, <2>4
<1>. HIDE DEF S, H
<1>4. \A n, p \in 0 .. MaxNodes : InOrder(W[n][p])
  BY <1>1, <1>3, WalkOrdered
<1>. QED  BY <1>1, <1>2, <1>4

-----------------------------------------------------------------------------
\* The names of removed profiles.

\* No name comes back while no file is read and what is pending is about the same.
LEMMA SameGone ==
    ASSUME NameIsGone, UNCHANGED <<file, heir>>,
           \A m \in Pending' : \E msg \in Pending : m.node = msg.node /\ m.profile = msg.profile
    PROVE  NameIsGone'
<1>1. Listed' = Listed
  BY DEF Listed
<1>. QED  BY <1>1 DEF NameIsGone

\* What is said is about the profiles that what was to be said is about.
LEMMA SayPending ==
    ASSUME Rest, do_execute_element \/ fail \/ stop_ourselves
    PROVE  \A m \in Pending' : \E msg \in Pending : m.node = msg.node /\ m.profile = msg.profile
<1>1. todo # <<>>
  BY DEF do_execute_element, fail, stop_ourselves
<1>2. /\ Head(todo) = todo[1] /\ 1 \in DOMAIN todo /\ Tail(todo) \in Seq(MessageType)
      /\ \A i \in DOMAIN Tail(todo) : i + 1 \in DOMAIN todo /\ Tail(todo)[i] = todo[i + 1]
      /\ todo \in Seq(MessageType) /\ to_front \in Seq(MessageType)
  BY <1>1, HeadTailProperties, LenProperties DEF Rest, QueueType
<1>3. ASSUME NEW m
      PROVE  {Append(to_front, m)[i] : i \in DOMAIN Append(to_front, m)}
                 \subseteq {to_front[i] : i \in DOMAIN to_front} \cup {m}
  BY <1>2
<1>4. CASE do_execute_element
  <2>1. todo' = Tail(todo) /\ to_front' = Append(to_front, Head(todo))
    BY <1>4 DEF do_execute_element
  <2>2. Pending' \subseteq Pending
    BY <1>2, <1>3, <2>1 DEF Pending
  <2>. QED  BY <2>2
<1>5. CASE stop_ourselves
  <2>1. todo' = <<>> /\ to_front' = to_front
    BY <1>5 DEF stop_ourselves
  <2>2. DOMAIN todo' = {}
    BY <2>1
  <2>3. Pending' \subseteq Pending
    BY <2>1, <2>2 DEF Pending
  <2>. QED  BY <2>3
<1>6. CASE fail
  <2>. DEFINE msg == Head(todo)
              failed == [msg EXCEPT !.type = "FAILED"]
              last == [failed EXCEPT !.id = 0]
  <2>1. todo' = <<last>> /\ to_front' = Append(to_front, failed)
    BY <1>6 DEF fail
  <2>2. msg \in MessageType /\ msg \in Pending
    <3>1. todo[1] \in Pending
      BY <1>2 DEF Pending
    <3>. QED  BY <1>2, <3>1, PendingType DEF Rest
  <2>3. /\ failed.node = msg.node /\ failed.profile = msg.profile
        /\ last.node = msg.node /\ last.profile = msg.profile
    BY <2>2 DEF MessageType
  <2>4. {todo'[i] : i \in DOMAIN todo'} = {last}
    <3>. HIDE DEF last
    <3>. QED  BY <2>1
  <2>5. Pending' \subseteq Pending \cup {failed, last}
    <3>. HIDE DEF failed, last
    <3>. QED  BY <1>3, <2>1, <2>4 DEF Pending
  <2>. HIDE DEF failed, last, msg
  <2>. QED  BY <2>2, <2>3, <2>5
<1>. QED  BY <1>4, <1>5, <1>6

\* Removing the only profile of a name takes the name away, and the one that takes the
\* place of a profile has its name.
LEMMA StepGone ==
    ASSUME FilesAreKeys, Inductive, HasRow, ShowsRow, Rest, Keyed, NameIsGone, [Next]_vars, Keyed'
    PROVE  NameIsGone'
<1>0. Pending' = {} => NameIsGone'
  BY DEF NameIsGone
<1>1. CASE add_profile
  <2>1. todo' = <<>> /\ to_front' = <<>>
    BY <1>1 DEF add_profile, run_vars, Keyed, Idle
  <2>2. Pending' = {}
    BY <2>1 DEF Pending
  <2>. QED  BY <1>0, <2>2
<1>2. CASE remove_profile
  <2>1. confirming \in Listed /\ confirming \in Node
    BY <1>2 DEF Inductive, QuestionStands, remove_profile, Listed
  <2>2. /\ file' = [file EXCEPT ![confirming] = Unused]
        /\ heir' = [q \in Node |-> IF heir[q] = confirming THEN NULL ELSE heir[q]]
        /\ Pending' = Pending
    BY <1>2 DEF remove_profile, Pending
  <2>3. Listed' = Listed \ {confirming} /\ \A p \in Listed' : file'[p] = file[p]
    BY <2>1, <2>2, ListAssumption DEF Listed, Inductive, ListType
  <2>4. ASSUME NEW msg \in Pending, heir'[msg.node] = NULL, NEW p \in Listed'
        PROVE  file'[p] # msg.profile
    <3>1. msg.node \in Node
      <4>1. msg \in MessageType
        BY PendingType DEF Rest
      <4>. QED  BY <4>1 DEF MessageType
    <3>2. CASE heir[msg.node] = NULL
      BY <2>3, <3>2 DEF NameIsGone
    <3>3. CASE heir[msg.node] # NULL
      <4>1. heir[msg.node] = confirming
        BY <2>2, <2>4, <3>1, <3>3
      <4>2. file[confirming] = msg.profile
        BY <3>3, <4>1 DEF Keyed, KeysHold, Means
      <4>. QED  BY <2>1, <2>3, <4>2 DEF Keyed, NamesDiffer
    <3>. QED  BY <3>2, <3>3
  <2>. QED  BY <2>2, <2>4 DEF NameIsGone
<1>3. ASSUME NEW old \in Listed, reload_profile(old) PROVE NameIsGone'
  <2>1. PICK new \in Node : new = NewNode /\ new \notin Listed /\ new # NULL
    BY <1>3, NewIsFree DEF reload_profile
  <2>2. /\ file' = [file EXCEPT ![new] = file[old], ![old] = Unused]
        /\ heir' = [q \in Node |-> IF heir[q] = old THEN new ELSE heir[q]]
        /\ Pending' = Pending
    BY <1>3, <2>1 DEF reload_profile, Pending
  <2>3. file[old] \in Files /\ old \in Node
    BY ListedFiles DEF Inductive, Listed
  <2>4. /\ Listed' = (Listed \ {old}) \cup {new}
        /\ file'[new] = file[old] /\ \A p \in Listed \ {old} : file'[p] = file[p] /\ p # new
    BY <2>1, <2>2, <2>3, ListAssumption DEF Listed, Inductive, ListType
  <2>5. ASSUME NEW msg \in Pending, heir'[msg.node] = NULL, NEW p \in Listed'
        PROVE  file'[p] # msg.profile
    <3>1. msg.node \in Node
      <4>1. msg \in MessageType
        BY PendingType DEF Rest
      <4>. QED  BY <4>1 DEF MessageType
    <3>2. heir[msg.node] = NULL
      BY <2>1, <2>2, <2>5, <3>1
    <3>. QED  BY <2>4, <3>2 DEF NameIsGone
  <2>. QED  BY <2>2, <2>5 DEF NameIsGone
<1>4. ASSUME NEW marked \in SUBSET Listed, start_executing_marked(marked) PROVE NameIsGone'
  <2>1. reloaded' = {}
    BY <1>4 DEF start_executing_marked
  <2>2. \A msg \in Pending' : heir'[msg.node] = NULL => msg.node \in reloaded'
    BY DEF Keyed, KeysHold, Means
  <2>. QED  BY <2>1, <2>2 DEF NameIsGone
<1>5. CASE do_execute_element \/ fail \/ stop_ourselves
  <2>1. UNCHANGED <<file, heir>>
    BY <1>5 DEF do_execute_element, fail, stop_ourselves, list_vars
  <2>. QED  BY <1>5, <2>1, SayPending, SameGone
<1>6. CASE handle_ctrl_msg
  <2>1. UNCHANGED <<file, heir, todo>> /\ to_front # <<>> /\ to_front' = Tail(to_front)
    BY <1>6 DEF handle_ctrl_msg
  <2>2. \A i \in DOMAIN Tail(to_front) : i + 1 \in DOMAIN to_front /\ Tail(to_front)[i] = to_front[i + 1]
    BY <2>1, HeadTailProperties, LenProperties DEF Rest, QueueType
  <2>3. Pending' \subseteq Pending
    BY <2>1, <2>2 DEF Pending
  <2>. QED  BY <2>1, <2>3, SameGone
<1>7. CASE wait_for_the_backend
  <2>1. todo' = <<>> /\ to_front' = <<>>
    BY <1>7 DEF wait_for_the_backend
  <2>2. Pending' = {}
    BY <2>1 DEF Pending
  <2>. QED  BY <1>0, <2>2
<1>8. ASSUME UNCHANGED <<file, run_vars>> PROVE NameIsGone'
  <2>1. Pending' = Pending /\ heir' = heir /\ file' = file
    BY <1>8 DEF run_vars, Pending
  <2>. QED  BY <2>1, SameGone
<1>9. ASSUME NEW p \in Listed, move_profile_up(p) \/ move_profile_down(p) PROVE NameIsGone'
  BY <1>8, <1>9 DEF move_profile_up, move_profile_down
<1>10. ASSUME NEW p \in Listed, confirm_removal(p) PROVE NameIsGone'
  BY <1>8, <1>10 DEF confirm_removal, list_vars
<1>11. CASE abort_removal \/ UNCHANGED vars
  BY <1>8, <1>11 DEF abort_removal, vars, list_vars
<1>. QED  BY <1>1, <1>2, <1>3, <1>4, <1>5, <1>6, <1>7, <1>9, <1>10, <1>11 DEF Next

\* A message about a removed profile is taken for none.
LEMMA GoneIsRoot ==
    ASSUME ShowsRow, HasRow, ListType, StatusType, NEW msg, \A p \in Listed : file[p] # msg.profile,
           msg.id \in Nat
    PROVE  find_element_by_key(msg) = Root
<1>1. PICK k, t : Row(k, t)
  BY DEF HasRow
<1>2. Chain = t /\ DOMAIN t = 1 .. k /\ \A i \in 1 .. k : t[i] \in Listed
  BY <1>1, RowFacts DEF ShowsRow
<1>3. get_profile_by_name(msg.profile) = NULL
  <2>1. {i \in DOMAIN t : file[t[i]] = msg.profile} = {}
    BY <1>2
  <2>. QED  BY <1>2, <2>1 DEF get_profile_by_name
<1>4. elements_from[MaxNodes][NULL] = <<>>
  BY ElementsFrom
<1>5. DOMAIN elements_from[MaxNodes][NULL] = {}
  BY <1>4
<1>. QED  BY <1>3, <1>5 DEF find_element_by_key

-----------------------------------------------------------------------------
\* The steps of the user, who can be sure of what is shown as running.

\* Moves and questions change nothing that is shown as running.
LEMMA SameAccounted ==
    ASSUME Accounted, UNCHANGED <<file, status, current_running, crashed, run_vars>>
    PROVE  Accounted'
<1>1. Listed' = Listed /\ Backlog' = Backlog /\ \A p : Elements(p)' = Elements(p)
  BY DEF Listed, Backlog, Elements, run_vars
<1>2. \A p, i : Runs(p, i)' = Runs(p, i)
  BY <1>1 DEF Runs, run_vars
<1>. QED  BY <1>1, <1>2 DEF Accounted, NoneRuns, run_vars

\* Nothing has run of what has just been read.
LEMMA NewRests ==
    ASSUME NEW s \in Nat, NEW i \in 0 .. s - 1
    PROVE  New(s)[i] # "RUNNING"
BY DEF New

\* Nothing runs at the start.
LEMMA InitAccounted ==
    ASSUME Init
    PROVE  Accounted
<1>1. ~Backend_exists
  BY DEF Init
<1>2. PICK sizes : status = [p \in Node |-> New(IF p <= Len(Initial) THEN sizes[p] ELSE 1)]
  BY DEF Init
<1>3. ASSUME NEW p \in Listed, NEW i \in Elements(p) PROVE status[p][i] # "RUNNING"
  <2>1. PICK s : status[p] = New(s)
    BY <1>2 DEF Listed
  <2>2. status[p] = [j \in 0 .. s - 1 |-> "NONE"]
    BY <2>1 DEF New
  <2>3. i \in 0 .. s - 1
    BY <2>2 DEF Elements
  <2>. QED  BY <2>2, <2>3
<1>. QED  BY <1>1, <1>3 DEF Accounted, NoneRuns

\* Nothing is added while a backend runs.
LEMMA AddAccounted ==
    ASSUME Inductive, Rest, Accounted, add_profile
    PROVE  Accounted'
<1>1. PICK new \in Node : new = NewNode /\ new \notin Listed /\ new # NULL
  BY NewIsFree DEF add_profile
<1>2. PICK f \in Files : /\ file' = [file EXCEPT ![new] = f]
                        /\ \E s \in Sizes[f] : status' = [status EXCEPT ![new] = New(s)]
  BY <1>1 DEF add_profile
<1>3. PICK s \in Sizes[f] : status' = [status EXCEPT ![new] = New(s)]
  BY <1>2
<1>4. Listed' = Listed \cup {new} /\ \A p \in Listed : p # new /\ p \in Node
  BY <1>1, <1>2, ListAssumption DEF Listed, Inductive, ListType
<1>5. Elements(new)' = 0 .. s - 1 /\ \A p \in Node : p # new => Elements(p)' = Elements(p)
  BY <1>3, NewElements DEF Rest
<1>6. NoneRuns /\ ~Backend_exists'
  BY DEF add_profile, Pressed, run_vars, Accounted
<1>7. status'[new] = New(s) /\ \A p \in Listed : status'[p] = status[p]
  BY <1>3, <1>4 DEF Rest, StatusType
<1>8. s \in Nat
  BY ReadSize
<1>9. ASSUME NEW p \in Listed', NEW i \in Elements(p)' PROVE status'[p][i] # "RUNNING"
  <2>1. CASE p = new
    BY <1>5, <1>7, <1>8, <1>9, <2>1, NewRests
  <2>2. CASE p # new
    BY <1>4, <1>5, <1>6, <1>7, <1>9, <2>2 DEF NoneRuns
  <2>. QED  BY <2>1, <2>2
<1>. QED  BY <1>6, <1>9 DEF Accounted, NoneRuns

\* What has become of the other profiles stays the same when one is removed.
LEMMA RemoveAccounted ==
    ASSUME Inductive, Rest, Accounted, remove_profile
    PROVE  Accounted'
<1>1. confirming \in Listed /\ confirming \in Node
  BY DEF Inductive, QuestionStands, remove_profile, Listed
<1>2. /\ file' = [file EXCEPT ![confirming] = Unused]
      /\ heir' = [q \in Node |-> IF heir[q] = confirming THEN NULL ELSE heir[q]]
      /\ UNCHANGED <<status, current_running, crashed, Backend_exists, ok, todo, to_front>>
  BY DEF remove_profile
<1>3. /\ Listed' = Listed \ {confirming} /\ Backlog' = Backlog
      /\ \A p : Elements(p)' = Elements(p)
  BY <1>1, <1>2, ListAssumption DEF Listed, Inductive, ListType, Backlog, Elements
<1>4. ASSUME NEW p \in Listed', NEW i, Runs(p, i) PROVE Runs(p, i)'
  <2>1. PICK n \in Node : heir[n] = p /\ Closes(Backlog, ok, 1, n, i)
    BY <1>4 DEF Runs
  <2>2. heir'[n] = p
    BY <1>2, <1>3, <2>1
  <2>3. Closes(Backlog', ok', 1, n, i)
    BY <1>2, <1>3, <2>1
  <2>. QED  BY <1>2, <1>4, <2>2, <2>3 DEF Runs
<1>. QED  BY <1>2, <1>3, <1>4 DEF Accounted, NoneRuns

\* A profile the backend has reached is not read again; another one rests when it is.
LEMMA ReloadAccounted ==
    ASSUME Inductive, Rest, Accounted, NEW old \in Listed, reload_profile(old)
    PROVE  Accounted'
<1>1. PICK new \in Node : new = NewNode /\ new \notin Listed /\ new # NULL
  BY NewIsFree DEF reload_profile
<1>2. /\ file' = [file EXCEPT ![new] = file[old], ![old] = Unused]
      /\ \E s \in Sizes[file[old]] : status' = [status EXCEPT ![new] = New(s)]
      /\ heir' = [q \in Node |-> IF heir[q] = old THEN new ELSE heir[q]]
      /\ UNCHANGED <<current_running, crashed, Backend_exists, ok, todo, to_front>>
      /\ ~crashed
  BY <1>1 DEF reload_profile, Pressed
<1>3. PICK s \in Sizes[file[old]] : status' = [status EXCEPT ![new] = New(s)]
  BY <1>2
<1>4. file[old] \in Files /\ old \in Node /\ Listed \subseteq Node
  BY ListedFiles DEF Inductive, Listed
<1>5. Listed' = (Listed \ {old}) \cup {new} /\ \A p \in Listed : p # new
  BY <1>1, <1>2, <1>4, ListAssumption DEF Listed, Inductive, ListType
<1>6. Elements(new)' = 0 .. s - 1 /\ \A p \in Node : p # new => Elements(p)' = Elements(p)
  BY <1>3, <1>4, NewElements DEF Rest
<1>7. status'[new] = New(s) /\ \A p \in Node : p # new => status'[p] = status[p]
  BY <1>3 DEF Rest, StatusType
<1>8. s \in Nat
  BY <1>4, ReadSize
<1>9. \A i \in Elements(new)' : status'[new][i] # "RUNNING"
  BY <1>6, <1>7, <1>8, NewRests
<1>10. Backlog' = Backlog
  BY <1>2 DEF Backlog
<1>11. ASSUME NEW p \in Listed \ {old}, NEW i, Runs(p, i) PROVE Runs(p, i)'
  <2>1. PICK n \in Node : heir[n] = p /\ Closes(Backlog, ok, 1, n, i)
    BY <1>11 DEF Runs
  <2>2. heir'[n] = p
    BY <1>2, <2>1
  <2>3. Closes(Backlog', ok', 1, n, i)
    BY <1>2, <1>10, <2>1
  <2>. QED  BY <1>2, <1>11, <2>2, <2>3 DEF Runs
<1>12. ASSUME NEW p \in Listed', NEW i \in Elements(p)', status'[p][i] = "RUNNING"
       PROVE  p \in Listed \ {old} /\ i \in Elements(p) /\ status[p][i] = "RUNNING"
  <2>1. p # new
    BY <1>9, <1>12
  <2>. QED  BY <1>4, <1>5, <1>6, <1>7, <1>12, <2>1
<1>13. CASE Backend_exists
  <2>1. \A p \in Listed' : \A i \in Elements(p)' : status'[p][i] = "RUNNING" => Runs(p, i)'
    BY <1>2, <1>11, <1>12, <1>13 DEF Accounted
  <2>2. Ordered(Backlog', ok')
    BY <1>2, <1>10, <1>13 DEF Accounted
  <2>. QED  BY <1>2, <1>13, <2>1, <2>2 DEF Accounted
<1>14. CASE ~Backend_exists
  <2>1. NoneRuns'
    BY <1>2, <1>12, <1>14 DEF Accounted, NoneRuns
  <2>. QED  BY <1>2, <1>14, <2>1 DEF Accounted
<1>. QED  BY <1>13, <1>14

\* A run begins with nothing running.
LEMMA StartAccounted ==
    ASSUME Inductive, Rest, Accounted, NEW marked \in SUBSET Listed, start_executing_marked(marked)
    PROVE  Accounted'
<1>1. /\ status' = [p \in Node |-> IF p \in marked THEN [i \in Elements(p) |-> "NONE"]
                                  ELSE status[p]]
      /\ Backend_exists' = TRUE /\ ok' = TRUE
      /\ todo' = said_by(should_run \cup marked) /\ to_front' = <<>>
      /\ file' = file /\ NoneRuns
  BY DEF start_executing_marked, Accounted
<1>2. Listed' = Listed /\ Listed \subseteq Node
  BY <1>1 DEF Listed
<1>3. \A p \in Node : Elements(p)' = Elements(p)
  BY StartRest
<1>4. ASSUME NEW p \in Listed', NEW i \in Elements(p)' PROVE status'[p][i] # "RUNNING"
  <2>1. p \in Listed /\ p \in Node /\ i \in Elements(p)
    BY <1>2, <1>3, <1>4
  <2>2. CASE p \in marked
    BY <1>1, <2>1, <2>2
  <2>3. CASE p \notin marked
    BY <1>1, <2>1, <2>3 DEF NoneRuns
  <2>. QED  BY <2>2, <2>3
<1>5. Ordered(Backlog', ok')
  <2>. DEFINE said == said_by(should_run \cup marked)
  <2>1. should_run \cup marked \in SUBSET Listed /\ should_run \cup marked \in SUBSET Node
    BY <1>2 DEF Rest, RunType
  <2>2. said \in Seq(MessageType)
    BY <2>1, SaidType DEF Inductive, Rest
  <2>3. InOrder(said)
    BY <2>1, SaidByOrdered DEF Inductive, Rest, InOrder
  <2>4. Backlog' = <<>> \o said
    BY <1>1 DEF Backlog
  <2>. HIDE DEF said
  <2>5. Backlog' = said
    BY <2>2, <2>4, ConcatEmptySeq
  <2>6. Ordered(said, TRUE)
    BY <2>3 DEF InOrder
  <2>. QED  BY <1>1, <2>5, <2>6, Zenon
<1>. QED  BY <1>1, <1>4, <1>5 DEF Accounted

-----------------------------------------------------------------------------
\* The steps of the backend.

\* First what has been sent, then what is still to be said.
LEMMA BacklogIs ==
    ASSUME QueueType
    PROVE  /\ Backlog \in Seq(MessageType)
           /\ Len(to_front) \in Nat /\ Len(todo) \in Nat
           /\ Len(Backlog) = Len(to_front) + Len(todo)
           /\ \A m \in 1 .. Len(to_front) : Backlog[m] = to_front[m]
           /\ \A m \in 1 .. Len(todo) : Backlog[Len(to_front) + m] = todo[m]
<1>. DEFINE a == to_front
            b == todo
            A == Len(a)
            B == Len(b)
            P == a \o b
<1>1. /\ A \in Nat /\ B \in Nat /\ P \in Seq(MessageType) /\ Len(P) = A + B
      /\ \A m \in 1 .. A + B : P[m] = IF m <= A THEN a[m] ELSE b[m - A]
  BY ConcatProperties, LenProperties DEF QueueType
<1>2. Backlog = P
  BY DEF Backlog
<1>. HIDE DEF A, B, P
<1>3. \A m \in 1 .. A : P[m] = a[m]
  <2>1. \A m \in 1 .. A : m \in 1 .. A + B /\ m <= A
    BY <1>1
  <2>. QED  BY <1>1, <2>1
<1>4. \A m \in 1 .. B : P[A + m] = b[m]
  <2>1. \A m \in 1 .. B : A + m \in 1 .. A + B /\ ~(A + m <= A) /\ (A + m) - A = m
    BY <1>1
  <2>. QED  BY <1>1, <2>1
<1>. QED  BY <1>1, <1>2, <1>3, <1>4 DEF A, B

\* What runs is accounted for by messages that may be other ones, as long as they
\* bring to an end what the old ones do.
LEMMA OtherBacklog ==
    ASSUME Accounted, Backend_exists, UNCHANGED <<file, status, current_running, crashed,
                                                 Backend_exists, heir>>,
           Ordered(Backlog', ok'),
           \A n, i : Closes(Backlog, ok, 1, n, i) => Closes(Backlog', ok', 1, n, i)
    PROVE  Accounted'
<1>1. Listed' = Listed /\ \A p : Elements(p)' = Elements(p)
  BY DEF Listed, Elements
<1>2. ASSUME NEW p, NEW i, Runs(p, i) PROVE Runs(p, i)'
  <2>1. PICK n \in Node : heir[n] = p /\ Closes(Backlog, ok, 1, n, i)
    BY <1>2 DEF Runs
  <2>2. Closes(Backlog', ok', 1, n, i)
    BY <2>1
  <2>. QED  BY <1>2, <2>1, <2>2 DEF Runs
<1>. QED  BY <1>1, <1>2 DEF Accounted

\* What is said has been waiting to be said.
LEMMA SayAccounted ==
    ASSUME Rest, Accounted, Keyed, do_execute_element
    PROVE  Accounted'
<1>1. /\ todo # <<>> /\ to_front' = Append(to_front, Head(todo)) /\ todo' = Tail(todo)
      /\ UNCHANGED <<file, status, current_running, crashed, Backend_exists, heir, ok>>
  BY DEF do_execute_element, list_vars
<1>2. Backlog' = Backlog
  <2>. DEFINE a == to_front
              b == todo
              h == Head(b)
              t == Tail(b)
  <2>1. a \in Seq(MessageType) /\ b \in Seq(MessageType) /\ b # <<>>
    BY <1>1 DEF Rest, QueueType
  <2>2. h \in MessageType /\ t \in Seq(MessageType) /\ b = <<h>> \o t
    BY <2>1, HeadTailProperties
  <2>3. Append(a, h) = a \o <<h>>
    BY <2>1, <2>2, AppendIsConcat
  <2>. HIDE DEF h, t
  <2>4. (a \o <<h>>) \o t = a \o (<<h>> \o t)
    BY <2>1, <2>2, ConcatAssociative
  <2>. QED  BY <1>1, <2>2, <2>3, <2>4 DEF Backlog, h, t
<1>3. Backend_exists
  BY <1>1 DEF Keyed, Idle
<1>4. CASE crashed
  BY <1>1, <1>4 DEF Accounted
<1>5. CASE ~crashed
  <2>1. Ordered(Backlog', ok')
    BY <1>1, <1>2, <1>3, <1>5 DEF Accounted
  <2>. QED  BY <1>1, <1>2, <1>3, <2>1, OtherBacklog
<1>. QED  BY <1>4, <1>5

\* A stop cuts off what was still to be said.
LEMMA StopAccounted ==
    ASSUME Rest, Accounted, Keyed, stop_ourselves
    PROVE  Accounted'
<1>1. /\ todo # <<>> /\ to_front' = to_front /\ todo' = <<>> /\ ok' = FALSE
      /\ UNCHANGED <<file, status, current_running, crashed, Backend_exists, heir>>
  BY DEF stop_ourselves, list_vars
<1>. DEFINE P == Backlog
            Q == Backlog'
            t == Len(Q)
<1>2. /\ Len(P) \in Nat /\ t \in 0 .. Len(P)
      /\ \A m \in 1 .. t : Q[m] = P[m]
  <2>1. QueueType
    BY DEF Rest
  <2>2. Q = to_front
    BY <1>1, <2>1, ConcatEmptySeq DEF Backlog, QueueType
  <2>3. /\ Len(to_front) \in Nat /\ Len(todo) \in Nat /\ Len(P) = Len(to_front) + Len(todo)
        /\ \A m \in 1 .. Len(to_front) : P[m] = to_front[m]
    BY <2>1, BacklogIs
  <2>. HIDE DEF P, Q
  <2>. QED  BY <2>2, <2>3
<1>3. Backend_exists
  BY <1>1 DEF Keyed, Idle
<1>4. CASE crashed
  BY <1>1, <1>4 DEF Accounted
<1>5. CASE ~crashed
  <2>1. Ordered(P, ok)
    BY <1>3, <1>5 DEF Accounted
  <2>. HIDE DEF P, Q
  <2>2. Ordered(Q, FALSE)
    BY <1>2, <2>1, OrderedCut
  <2>3. ASSUME NEW n, NEW i, Closes(P, ok, 1, n, i) PROVE Closes(Q, ok', 1, n, i)
    <3>1. 1 \in 1 .. t + 1
      BY <1>2
    <3>2. Closes(Q, FALSE, 1, n, i)
      BY <1>2, <2>3, <3>1, ClosesCut
    <3>. QED  BY <1>1, <3>2, Zenon
  <2>4. Ordered(Q, ok')
    BY <1>1, <2>2, Zenon
  <2>. QED  BY <1>1, <1>3, <2>3, <2>4, OtherBacklog DEF P, Q
<1>. QED  BY <1>4, <1>5

\* The child that fails has its end told, and so has its profile.
LEMMA FailAccounted ==
    ASSUME Rest, Accounted, Keyed, fail
    PROVE  Accounted'
<1>. DEFINE msg == Head(todo)
            failed == [msg EXCEPT !.type = "FAILED"]
            last == [failed EXCEPT !.id = 0]
            P == Backlog
            Q == Backlog'
            t == Len(to_front) + 1
<1>1. /\ todo # <<>> /\ to_front' = Append(to_front, failed) /\ todo' = <<last>> /\ ok' = FALSE
      /\ msg.type = "ENDED" /\ msg.id # 0
      /\ UNCHANGED <<file, status, current_running, crashed, Backend_exists, heir>>
  BY DEF fail, list_vars
<1>2. msg = todo[1] /\ msg \in MessageType /\ to_front \in Seq(MessageType)
  BY <1>1, HeadTailProperties DEF Rest, QueueType
<1>3. /\ Ends(failed, msg.node, msg.id) /\ Ends(last, msg.node, 0)
      /\ failed \in MessageType /\ last \in MessageType
  <2>1. failed \in MessageType /\ failed.type = "FAILED" /\ failed.node = msg.node /\ failed.id = msg.id
    BY <1>2 DEF MessageType
  <2>. HIDE DEF failed
  <2>2. last \in MessageType /\ last.type = "FAILED" /\ last.node = msg.node /\ last.id = 0
    BY <2>1 DEF MessageType
  <2>. QED  BY <2>1, <2>2 DEF Ends
<1>4. /\ Len(P) \in Nat /\ t \in 1 .. Len(P) /\ P[t] = msg
      /\ \A m \in 1 .. t - 1 : P[m] = to_front[m]
  <2>1. /\ Len(to_front) \in Nat /\ Len(todo) \in Nat /\ Len(P) = Len(to_front) + Len(todo)
        /\ \A m \in 1 .. Len(to_front) : P[m] = to_front[m]
        /\ \A m \in 1 .. Len(todo) : P[Len(to_front) + m] = todo[m]
    BY BacklogIs DEF Rest
  <2>2. Len(todo) # 0
    BY <1>1, EmptySeq DEF Rest, QueueType
  <2>. HIDE DEF P, msg
  <2>3. 1 \in 1 .. Len(todo) /\ (Len(to_front) + 1) - 1 = Len(to_front)
    BY <2>1, <2>2
  <2>. QED  BY <1>2, <2>1, <2>3
<1>. HIDE DEF failed, last, msg
<1>5. /\ Len(Q) = t + 1
      /\ \A m \in 1 .. t - 1 : Q[m] = to_front[m]
      /\ Q[t] = failed /\ Q[t + 1] = last
  <2>. DEFINE a == Append(to_front, failed)
              b == <<last>>
  <2>1. /\ a \in Seq(MessageType) /\ Len(a) = t /\ b \in Seq(MessageType) /\ Len(b) = 1
        /\ \A m \in 1 .. Len(to_front) : a[m] = to_front[m]
        /\ a[t] = failed /\ b[1] = last /\ t \in Nat /\ t - 1 = Len(to_front) /\ t >= 1
    BY <1>2, <1>3, AppendProperties, LenProperties
  <2>2. Q = a \o b
    BY <1>1 DEF Backlog
  <2>. HIDE DEF a, b, Q, t
  <2>3. /\ Len(Q) = t + 1
        /\ \A m \in 1 .. t + 1 : Q[m] = IF m <= t THEN a[m] ELSE b[m - t]
    <3>1. /\ Len(Q) = Len(a) + Len(b)
          /\ \A m \in 1 .. Len(a) + Len(b) : Q[m] = IF m <= Len(a) THEN a[m] ELSE b[m - Len(a)]
      BY <2>1, <2>2, ConcatProperties
    <3>. QED  BY <2>1, <3>1
  <2>4. Q[t] = a[t] /\ Q[t + 1] = b[1]
    BY <2>1, <2>3
  <2>5. \A m \in 1 .. t - 1 : Q[m] = a[m]
    BY <2>1, <2>3
  <2>. QED  BY <2>1, <2>3, <2>4, <2>5
<1>6. Backend_exists
  BY <1>1 DEF Keyed, Idle
<1>7. CASE crashed
  BY <1>1, <1>7 DEF Accounted
<1>8. CASE ~crashed
  <2>1. Ordered(P, ok)
    BY <1>6, <1>8 DEF Accounted
  <2>. HIDE DEF P, Q, t
  <2>2. /\ \A m \in 1 .. t - 1 : Q[m] = P[m]
        /\ P[t].id # 0 /\ Ends(Q[t], P[t].node, P[t].id) /\ Ends(Q[t + 1], P[t].node, 0)
    BY <1>1, <1>3, <1>4, <1>5
  <2>3. Ordered(Q, FALSE)
    BY <1>4, <1>5, <2>1, <2>2, OrderedFailed
  <2>4. ASSUME NEW n, NEW i, Closes(P, ok, 1, n, i) PROVE Closes(Q, ok', 1, n, i)
    <3>1. 1 \in 1 .. t
      BY <1>4
    <3>2. Closes(Q, FALSE, 1, n, i)
      BY <1>4, <1>5, <2>2, <2>4, <3>1, ClosesFailed
    <3>. QED  BY <1>1, <3>2, Zenon
  <2>5. Ordered(Q, ok')
    BY <1>1, <2>3, Zenon
  <2>. QED  BY <1>1, <1>6, <2>4, <2>5, OtherBacklog DEF P, Q
<1>. QED  BY <1>7, <1>8

-----------------------------------------------------------------------------
\* The steps of the frontend.

\* The next message ends the element, or it is about the profile of that name, whose
\* end is still to come.
LEMMA ClosesOne ==
    ASSUME NEW S, NEW P \in Seq(S), P # <<>>, NEW g, NEW n, NEW i, Closes(P, g, 1, n, i)
    PROVE  \/ Ends(P[1], n, i)
           \/ i = 0 /\ P[1].node = n /\ Closes(Tail(P), g, 1, n, 0)
<1>. DEFINE L == Len(P)
<1>1. L \in Nat \ {0}
  BY LenProperties, EmptySeq
<1>2. Closes(P, g, 2, n, 0) => Closes(Tail(P), g, 1, n, 0)
  <2>1. 2 \in Nat /\ 2 >= 2 /\ 2 - 1 = 1
    OBVIOUS
  <2>2. ASSUME Closes(P, g, 2, n, 0) PROVE Closes(Tail(P), g, 2 - 1, n, 0)
    BY <2>1, <2>2, ClosesLater
  <2>. QED  BY <2>1, <2>2
<1>. HIDE DEF L
<1>3. CASE i # 0 /\ 1 <= L /\ Ends(P[1], n, i)
  BY <1>3
<1>4. CASE i = 0 /\ \E j \in 1 .. L : Ends(P[j], n, 0) /\ \A m \in 1 .. j : P[m].node = n
  <2>1. PICK j \in 1 .. L : Ends(P[j], n, 0) /\ \A m \in 1 .. j : P[m].node = n
    BY <1>4
  <2>2. CASE j = 1
    BY <1>4, <2>1, <2>2
  <2>3. CASE j # 1
    <3>1. 1 \in 1 .. j /\ j \in 2 .. L /\ \A m \in 2 .. j : m \in 1 .. j
      BY <1>1, <2>1, <2>3
    <3>2. Closes(P, g, 2, n, 0) /\ P[1].node = n
      BY <2>1, <3>1 DEF Closes, L
    <3>. QED  BY <1>2, <1>4, <3>2
  <2>. QED  BY <2>2, <2>3
<1>5. CASE ~g /\ (i # 0 => 1 > L) /\ \A m \in 1 .. L : P[m].node = n
  <2>1. i = 0 /\ 1 \in 1 .. L /\ \A m \in 2 .. L : m \in 1 .. L
    BY <1>1, <1>5
  <2>2. Closes(P, g, 2, n, 0) /\ P[1].node = n
    BY <1>5, <2>1 DEF Closes, L
  <2>. QED  BY <1>2, <2>1, <2>2
<1>. QED  BY <1>3, <1>4, <1>5 DEF Closes, L

\* The message read is the first of the backlog.
LEMMA ReadBacklog ==
    ASSUME Rest, handle_ctrl_msg
    PROVE  /\ Backlog \in Seq(MessageType) /\ Backlog # <<>> /\ Backlog' = Tail(Backlog)
           /\ Backlog[1] = Head(to_front) /\ Backlog[1] \in Pending /\ Backlog[1] \in MessageType
<1>. DEFINE a == to_front
            b == todo
            h == Head(a)
            t == Tail(a)
<1>1. /\ a # <<>> /\ to_front' = t /\ todo' = b /\ a \in Seq(MessageType) /\ b \in Seq(MessageType)
  BY DEF handle_ctrl_msg, Rest, QueueType
<1>2. h \in MessageType /\ t \in Seq(MessageType) /\ a = <<h>> \o t /\ h = a[1]
      /\ 1 \in DOMAIN a
  BY <1>1, HeadTailProperties, LenProperties
<1>3. h \in Pending
  BY <1>2 DEF Pending
<1>. HIDE DEF h, t
<1>. DEFINE s == t \o b
            P == <<h>> \o s
<1>4. Backlog = P
  BY <1>1, <1>2, ConcatAssociative DEF Backlog
<1>5. s \in Seq(MessageType) /\ <<h>> \in Seq(MessageType)
  BY <1>1, <1>2, ConcatProperties
<1>6. Backlog' = s
  BY <1>1 DEF Backlog
<1>. HIDE DEF s
<1>7. P \in Seq(MessageType) /\ P # <<>> /\ Head(P) = h /\ Tail(P) = s /\ P[1] = h
  <2>1. P = <<h>> \o s /\ h \in MessageType
    BY <1>2
  <2>2. P \in Seq(MessageType) /\ Len(P) = Len(<<h>>) + Len(s)
        /\ \A i \in 1 .. Len(<<h>>) + Len(s) :
              P[i] = IF i <= Len(<<h>>) THEN <<h>>[i] ELSE s[i - Len(<<h>>)]
    BY <1>5, ConcatProperties
  <2>3. Len(<<h>>) = 1 /\ <<h>>[1] = h /\ Len(s) \in Nat
    BY <1>5, LenProperties
  <2>. HIDE DEF P
  <2>4. P # <<>> /\ P[1] = h
    BY <2>2, <2>3, EmptySeq
  <2>5. Head(P) = P[1] /\ Tail(P) \in Seq(MessageType) /\ Len(Tail(P)) = Len(P) - 1
        /\ \A i \in 1 .. Len(Tail(P)) : Tail(P)[i] = P[i + 1]
    BY <2>2, <2>4, HeadTailProperties
  <2>6. Len(Tail(P)) = Len(s)
    BY <2>2, <2>3, <2>5
  <2>7. ASSUME NEW i \in 1 .. Len(s) PROVE Tail(P)[i] = s[i]
    <3>1. i + 1 \in 1 .. 1 + Len(s) /\ ~(i + 1 <= 1) /\ (i + 1) - 1 = i
      BY <2>3
    <3>2. P[i + 1] = s[(i + 1) - 1]
      BY <2>2, <2>3, <3>1
    <3>. QED  BY <2>5, <2>6, <3>1, <3>2
  <2>8. Tail(P) = s
    BY <1>5, <2>5, <2>6, <2>7, SeqEqual
  <2>. QED  BY <2>2, <2>4, <2>5, <2>8
<1>. QED  BY <1>2, <1>3, <1>4, <1>6, <1>7 DEF h

\* A message that something has started puts it where the run is, one that something has
\* come to its end is about what is there; the end of the profile is still to come.
LEMMA HandleAccounted ==
    ASSUME FilesAreKeys, Inductive, HasRow, ShowsRow, Rest, Keyed, NameIsGone, Accounted,
           handle_ctrl_msg
    PROVE  Accounted'
<1>. DEFINE P == Backlog
            msg == P[1]
            el == find_element_by_key(msg)
            h == heir[msg.node]
<1>1. /\ P \in Seq(MessageType) /\ P # <<>> /\ Backlog' = Tail(P)
      /\ msg = Head(to_front) /\ msg \in Pending /\ msg \in MessageType
  BY ReadBacklog
<1>. HIDE DEF P, msg
<1>2. /\ UNCHANGED <<file, Backend_exists, heir, ok>> /\ Backend_exists /\ ~crashed
      /\ \/ el = Root /\ crashed' = TRUE
         \/ /\ el # Root /\ crashed' = crashed
            /\ msg.type = "STARTED" /\ current_running' = el
            /\ status' = [status EXCEPT ![el[1]][el[2]] = "RUNNING"]
         \/ /\ el # Root /\ crashed' = crashed
            /\ msg.type = "ENDED" /\ current_running' = current_running
            /\ status' = [status EXCEPT ![el[1]][el[2]] = get_element_status(el[1], el[2])]
         \/ /\ el # Root /\ crashed' = crashed
            /\ msg.type = "FAILED" /\ current_running' = current_running
            /\ status' = [status EXCEPT ![el[1]][el[2]] = "FAILED"]
  BY <1>1 DEF handle_ctrl_msg, set_run_status
<1>3. /\ Listed' = Listed /\ Listed \subseteq Node /\ \A p \in Node : Elements(p)' = Elements(p)
  BY <1>2, HandleStatus DEF Listed
<1>. HIDE DEF el
<1>4. CASE el = Root
  BY <1>2, <1>4 DEF Accounted
<1>5. CASE el # Root
  <2>1. msg.id \in Nat /\ msg.node \in Node
    BY <1>1 DEF MessageType
  <2>2. h # NULL
    <3>1. CASE h = NULL
      <4>1. \A p \in Listed : file[p] # msg.profile
        BY <1>1, <3>1 DEF NameIsGone
      <4>2. el = Root
        BY <2>1, <4>1, GoneIsRoot DEF Inductive, Rest, el
      <4>. QED  BY <1>5, <4>2
    <3>. QED  BY <3>1
  <2>3. el = <<h, msg.id>>
    <3>1. KeysResolve
      BY KeyedResolves
    <3>. QED  BY <1>1, <2>2, <3>1 DEF KeysResolve, Pending, el
  <2>4. h \in Listed /\ h \in Node /\ msg.id \in Elements(h)
    BY <1>1, <1>3, <2>2 DEF Keyed, KeysHold, Means
  <2>. HIDE DEF h
  <2>5. /\ Ordered(P, ok)
        /\ \A p \in Listed : \A i \in Elements(p) : status[p][i] = "RUNNING" => Runs(p, i)
    BY <1>2 DEF Accounted, P
  <2>6. Ordered(Backlog', ok')
    <3>1. Ordered(Tail(P), ok)
      BY <1>1, <2>5, OrderedLater
    <3>. QED  BY <1>1, <1>2, <3>1
  <2>7. \A p \in Listed : \A i \in Elements(p) :
           status[p][i] = "RUNNING" =>
               \/ p = h /\ i = msg.id /\ msg.type # "STARTED"
               \/ /\ i = 0 /\ \E n \in Node : /\ heir[n] = p /\ n = msg.node
                                             /\ Closes(Tail(P), ok, 1, n, 0)
                  /\ current_running[1] = p
    <3>1. ASSUME NEW p \in Listed, NEW i \in Elements(p), status[p][i] = "RUNNING"
          PROVE  \/ p = h /\ i = msg.id /\ msg.type # "STARTED"
                 \/ /\ i = 0 /\ \E n \in Node : /\ heir[n] = p /\ n = msg.node
                                               /\ Closes(Tail(P), ok, 1, n, 0)
                    /\ current_running[1] = p
      <4>1. Runs(p, i)
        BY <2>5, <3>1
      <4>2. PICK n \in Node : heir[n] = p /\ Closes(P, ok, 1, n, i)
        BY <4>1 DEF Runs, P
      <4>3. Ends(P[1], n, i) \/ (i = 0 /\ P[1].node = n /\ Closes(Tail(P), ok, 1, n, 0))
        BY <1>1, <4>2, ClosesOne
      <4>4. CASE Ends(P[1], n, i)
        BY <4>2, <4>4 DEF Ends, h, msg
      <4>5. CASE i = 0 /\ P[1].node = n /\ Closes(Tail(P), ok, 1, n, 0)
        BY <4>1, <4>2, <4>5 DEF Runs, msg
      <4>. QED  BY <4>3, <4>4, <4>5
    <3>. QED  BY <3>1
  <2>8. PICK s : /\ status' = [status EXCEPT ![h][msg.id] = s]
                 /\ msg.type = "STARTED" => s = "RUNNING" /\ current_running' = el
                 /\ msg.type # "STARTED" =>
                       /\ s = "FAILED" \/ s = get_element_status(h, msg.id)
                       /\ current_running' = current_running
    <3>1. el[1] = h /\ el[2] = msg.id
      BY <2>3
    <3>. QED  BY <1>2, <1>5, <3>1
  <2>8a. ASSUME NEW p \in Listed, NEW i \in Elements(p)
         PROVE  status'[p][i] = IF p = h /\ i = msg.id THEN s ELSE status[p][i]
    <3>1. status = [q \in Node |-> status[q]] /\ \A q \in Node : status[q] \in [Elements(q) -> RunStatus]
      BY SizeOf DEF Rest, StatusType
    <3>2. status'[p] = IF p = h THEN [status[h] EXCEPT ![msg.id] = s] ELSE status[p]
      BY <1>3, <2>8, <3>1
    <3>3. i \in DOMAIN status[p]
      BY DEF Elements
    <3>. QED  BY <3>2, <3>3
  <2>9. CASE msg.type = "STARTED"
    <3>1. current_running' = el
      BY <2>8, <2>9
    <3>2. current_running'[1] = h /\ current_running'[2] = msg.id
      BY <2>3, <3>1
    <3>3. Closes(Tail(P), ok, 1, msg.node, msg.id)
      <4>1. 1 \in 1 .. Len(P) /\ 1 + 1 \in Nat /\ 1 + 1 >= 2 /\ (1 + 1) - 1 = 1
        BY <1>1, LenProperties, EmptySeq
      <4>2. Closes(P, ok, 1 + 1, msg.node, msg.id)
        BY <2>5, <2>9, <4>1 DEF Ordered, msg
      <4>3. Closes(Tail(P), ok, (1 + 1) - 1, msg.node, msg.id)
        BY <1>1, <4>1, <4>2, ClosesLater
      <4>. QED  BY <4>1, <4>3
    <3>4. ASSUME NEW p \in Listed, NEW i \in Elements(p), status'[p][i] = "RUNNING"
          PROVE  Runs(p, i)'
      <4>1. CASE p = h /\ i = msg.id
        <5>1. heir'[msg.node] = p /\ Closes(Backlog', ok', 1, msg.node, i)
          BY <1>1, <1>2, <3>3, <4>1 DEF h
        <5>. QED  BY <2>1, <3>2, <4>1, <5>1 DEF Runs
      <4>2. CASE ~(p = h /\ i = msg.id)
        <5>1. status[p][i] = "RUNNING"
          BY <2>8a, <3>4, <4>2
        <5>2. PICK n \in Node : i = 0 /\ heir[n] = p /\ n = msg.node /\ Closes(Tail(P), ok, 1, n, 0)
          BY <2>7, <4>2, <5>1
        <5>3. p = h
          BY <5>2 DEF h
        <5>4. heir'[n] = p /\ Closes(Backlog', ok', 1, n, i)
          BY <1>1, <1>2, <5>2
        <5>. QED  BY <3>2, <5>2, <5>3, <5>4 DEF Runs
      <4>. QED  BY <4>1, <4>2
    <3>. QED  BY <1>2, <1>3, <1>5, <2>6, <3>4 DEF Accounted
  <2>10. CASE msg.type # "STARTED"
    <3>1. /\ current_running' = current_running
          /\ s = "FAILED" \/ s = get_element_status(h, msg.id)
      BY <2>8, <2>10
    <3>2. s # "RUNNING"
      <4>. SUFFICES ASSUME get_element_status(h, msg.id) = "RUNNING" PROVE FALSE
        BY <3>1
      <4>1. ~(msg.id > 0) /\ \E c \in Elements(h) \ {0} : status[h][c] = "RUNNING"
        BY DEF get_element_status
      <4>2. PICK c \in Elements(h) \ {0} : status[h][c] = "RUNNING"
        BY <4>1
      <4>3. c = msg.id
        BY <2>4, <2>7, <4>2
      <4>. QED  BY <2>1, <4>1, <4>2, <4>3
    <3>3. ASSUME NEW p \in Listed, NEW i \in Elements(p), status'[p][i] = "RUNNING"
          PROVE  Runs(p, i)'
      <4>1. ~(p = h /\ i = msg.id) /\ status[p][i] = "RUNNING"
        BY <2>8a, <3>2, <3>3
      <4>2. PICK n \in Node : i = 0 /\ heir[n] = p /\ Closes(Tail(P), ok, 1, n, 0)
        BY <2>7, <4>1
      <4>3. current_running[1] = p
        BY <2>7, <4>1
      <4>4. heir'[n] = p /\ Closes(Backlog', ok', 1, n, i)
        BY <1>1, <1>2, <4>2
      <4>. QED  BY <3>1, <4>2, <4>3, <4>4 DEF Runs
    <3>. QED  BY <1>2, <1>3, <1>5, <2>6, <3>3 DEF Accounted
  <2>. QED  BY <2>9, <2>10
<1>. QED  BY <1>4, <1>5

\* At the end of a run only what a failure has cut off is still shown as running, and
\* that is marked as failed.
LEMMA WaitAccounted ==
    ASSUME Inductive, Rest, Accounted, wait_for_the_backend
    PROVE  Accounted'
<1>. DEFINE e == current_running
<1>1. /\ Backend_exists /\ ~crashed /\ todo = <<>> /\ to_front = <<>> /\ ~Backend_exists'
      /\ file' = file
      /\ \/ (ok \/ e[1] = NULL) /\ status' = status
         \/ crashed'
         \/ ~ok /\ e[1] # NULL /\ status' = change_run_status_to_failed(e)
  BY DEF wait_for_the_backend
<1>2. /\ Listed' = Listed /\ Listed \subseteq Node /\ NULL \notin Node
      /\ \A p \in Node : Elements(p)' = Elements(p)
  BY <1>1, WaitRest DEF Listed, Node, NULL
<1>3. ASSUME NEW p \in Listed, NEW i \in Elements(p), status[p][i] = "RUNNING"
      PROVE  e[1] = p /\ (i # 0 => e[2] = i) /\ ~ok
  <2>1. Runs(p, i)
    BY <1>1, <1>3 DEF Accounted
  <2>2. PICK n : Closes(Backlog, ok, 1, n, i)
    BY <2>1 DEF Runs
  <2>3. Len(Backlog) = 0
    <3>1. Backlog = <<>> \o <<>>
      BY <1>1 DEF Backlog
    <3>. QED  BY <3>1
  <2>4. ~ok
    BY <2>2, <2>3 DEF Closes
  <2>. QED  BY <2>1, <2>4 DEF Runs
<1>4. CASE crashed'
  BY <1>4 DEF Accounted
<1>5. CASE (ok \/ e[1] = NULL) /\ status' = status
  <2>1. NoneRuns'
    BY <1>2, <1>3, <1>5 DEF NoneRuns
  <2>. QED  BY <1>1, <2>1 DEF Accounted
<1>6. CASE status' = change_run_status_to_failed(e)
  <2>. DEFINE st == [status EXCEPT ![e[1]][e[2]] = "FAILED"]
  <2>0. status = [q \in Node |-> status[q]] /\ \A q \in Node : status[q] \in [Elements(q) -> RunStatus]
    BY SizeOf DEF Rest, StatusType
  <2>1. \A p \in Node : st[p] = IF p = e[1] THEN [status[p] EXCEPT ![e[2]] = "FAILED"] ELSE status[p]
    BY <2>0
  <2>2. DOMAIN st = Node /\ \A p \in Node : DOMAIN st[p] = Elements(p)
    BY <2>0, <2>1
  <2>3. status' = [st EXCEPT ![e[1]][0] = "FAILED"]
    BY <1>6 DEF change_run_status_to_failed
  <2>. HIDE DEF st, e
  <2>4. \A p \in Node : status'[p] = IF p = e[1] THEN [st[p] EXCEPT ![0] = "FAILED"] ELSE st[p]
    BY <2>2, <2>3
  <2>5. ASSUME NEW p \in Listed, NEW i \in Elements(p), status'[p][i] = "RUNNING" PROVE FALSE
    <3>1. p \in Node
      BY <1>2
    <3>2. CASE p = e[1]
      <4>1. status'[p][i] = IF i = 0 THEN "FAILED" ELSE st[p][i]
        BY <2>2, <2>4, <2>5, <3>1, <3>2
      <4>2. i # 0
        BY <2>5, <4>1
      <4>3. st[p][i] = IF i = e[2] THEN "FAILED" ELSE status[p][i]
        BY <2>0, <2>1, <2>5, <3>1, <3>2
      <4>4. i # e[2] /\ status[p][i] = "RUNNING"
        BY <2>5, <4>1, <4>2, <4>3
      <4>. QED  BY <1>3, <2>5, <4>2, <4>4
    <3>3. CASE p # e[1]
      <4>1. status[p][i] = "RUNNING"
        BY <2>1, <2>4, <2>5, <3>1, <3>3
      <4>. QED  BY <1>3, <2>5, <3>3, <4>1
    <3>. QED  BY <3>2, <3>3
  <2>6. NoneRuns'
    BY <1>2, <2>5 DEF NoneRuns
  <2>. QED  BY <1>1, <2>6 DEF Accounted
<1>. QED  BY <1>1, <1>4, <1>5, <1>6

\* Every step can account for what is shown as running.
LEMMA StepAccounted ==
    ASSUME FilesAreKeys, Inductive, HasRow, ShowsRow, Rest, Keyed, NameIsGone, Accounted, [Next]_vars
    PROVE  Accounted'
<1>1. CASE add_profile
  BY <1>1, AddAccounted
<1>2. CASE remove_profile
  BY <1>2, RemoveAccounted
<1>3. ASSUME NEW p \in Listed, reload_profile(p) PROVE Accounted'
  BY <1>3, ReloadAccounted
<1>4. ASSUME NEW marked \in SUBSET Listed, start_executing_marked(marked) PROVE Accounted'
  BY <1>4, StartAccounted
<1>5. CASE do_execute_element \/ fail \/ stop_ourselves
  BY <1>5, SayAccounted, FailAccounted, StopAccounted
<1>6. CASE handle_ctrl_msg
  BY <1>6, HandleAccounted
<1>7. CASE wait_for_the_backend
  BY <1>7, WaitAccounted
<1>8. ASSUME NEW p \in Listed, move_profile_up(p) \/ move_profile_down(p) PROVE Accounted'
  BY <1>8, SameAccounted DEF move_profile_up, move_profile_down
<1>9. ASSUME NEW p \in Listed, confirm_removal(p) PROVE Accounted'
  BY <1>9, SameAccounted DEF confirm_removal, list_vars
<1>10. CASE abort_removal \/ UNCHANGED vars
  BY <1>10, SameAccounted DEF abort_removal, vars, list_vars
<1>. QED  BY <1>1, <1>2, <1>3, <1>4, <1>5, <1>6, <1>7, <1>8, <1>9, <1>10 DEF Next

\* If every file is in the list once and keeps its number of elements, no run leaves an
\* element marked as running, whatever is moved, removed and reloaded during the run and
\* however it ends: an element the frontend was told of has its end among the messages,
\* or is the last it was told of when the run fails (handle_ctrl_msg,
\* wait_for_the_backend).
THEOREM NothingLeftRunning == FilesAreKeys /\ Spec => []NoneRunningWhenStopped
<1>. DEFINE Inv == /\ FilesAreKeys /\ Inductive /\ HasRow /\ Rest /\ Keyed
                   /\ NameIsGone /\ Accounted
<1>1. FilesAreKeys /\ Init => Inv
  <2>. SUFFICES ASSUME FilesAreKeys, Init PROVE Inv
    OBVIOUS
  <2>1. NameIsGone
    <3>1. todo = <<>> /\ to_front = <<>>
      BY DEF Init
    <3>. QED  BY <3>1, NothingPending DEF NameIsGone
  <2>. QED  BY <2>1, InitList, ChainIsRow, InitShown, InitRest, InitKeyed, InitAccounted
<1>2. Inv /\ [Next]_vars => Inv'
  <2>. SUFFICES ASSUME Inv, [Next]_vars PROVE Inv'
    OBVIOUS
  <2>1. Inductive'
    BY StepKeepsList
  <2>2. HasRow'
    BY <2>1, ChainIsRow, StepShown DEF HasRow
  <2>3. Rest' /\ Keyed'
    BY ChainIsRow, StepRest, StepKeyed
  <2>4. NameIsGone' /\ Accounted'
    BY <2>3, ChainIsRow, StepGone, StepAccounted
  <2>. QED  BY <2>1, <2>2, <2>3, <2>4 DEF FilesAreKeys
<1>3. Inv => NoneRunningWhenStopped
  BY DEF Accounted, NoneRuns, NoneRunningWhenStopped
<1>. QED  BY <1>1, <1>2, <1>3, PTL DEF Spec
=============================================================================
