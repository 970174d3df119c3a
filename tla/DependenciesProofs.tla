-------------------------- MODULE DependenciesProofs --------------------------
(***************************************************************************)
(* Safety of Dependencies for every book, every request and every level.   *)
(***************************************************************************)
EXTENDS Dependencies, SequenceTheorems, FiniteSetTheorems, WellFoundedInduction, TLAPS

-----------------------------------------------------------------------------
(***************************************************************************)
(* Lists and closures that are computed step by step.                      *)
(***************************************************************************)

\* Induction up to a number, by the least one left out.
LEMMA UpTo ==
    ASSUME NEW N \in Nat, NEW S \in SUBSET (0 .. N), 0 \in S,
           \A n \in 1 .. N : n - 1 \in S => n \in S
    PROVE  S = 0 .. N
<1>. DEFINE Less == OpToRel(<, Nat)
            Out  == (0 .. N) \ S
<1>. SUFFICES ASSUME Out # {} PROVE FALSE
  OBVIOUS
<1>1. PICK n \in Out : \A i \in Out : <<i, n>> \notin Less
  <2>1. Out \in SUBSET Nat
    OBVIOUS
  <2>. HIDE DEF Out
  <2>. QED  BY <2>1, WFMin, NatLessThanWellFounded
<1>2. n \in 0 .. N /\ n # 0 /\ n \notin S
  BY <1>1
<1>3. n - 1 \in Out
  BY <1>2
<1>4. <<n - 1, n>> \in Less
  <2>1. n - 1 \in Nat /\ n \in Nat /\ n - 1 < n
    BY <1>2
  <2>. QED  BY <2>1 DEF OpToRel
<1>. QED  BY <1>1, <1>3, <1>4

\* Each value from the one before.
Follows(f, N, V, first, step) ==
    /\ f \in [0 .. N -> V]
    /\ f[0] = first
    /\ \A n \in 1 .. N : f[n] = step[n][f[n - 1]]

\* There are such values.
LEMMA StepByStep ==
    ASSUME NEW N \in Nat, NEW V, NEW first \in V, NEW step \in [1 .. N -> [V -> V]]
    PROVE  \E f : Follows(f, N, V, first, step)
<1>. DEFINE Solves(f, n) == f[0] = first /\ \A m \in 1 .. n : f[m] = step[m][f[m - 1]]
            S == {n \in 0 .. N : \E f \in [0 .. N -> V] : Solves(f, n)}
<1>1. 0 \in S
  <2>. DEFINE f == [n \in 0 .. N |-> first]
  <2>1. f \in [0 .. N -> V] /\ f[0] = first
    OBVIOUS
  <2>. HIDE DEF f
  <2>2. Solves(f, 0)
    BY <2>1
  <2>. QED  BY <2>1, <2>2
<1>2. ASSUME NEW n \in 1 .. N, n - 1 \in S PROVE n \in S
  <2>1. PICK f \in [0 .. N -> V] : Solves(f, n - 1)
    BY <1>2
  <2>. DEFINE g == [f EXCEPT ![n] = step[n][f[n - 1]]]
  <2>2. n - 1 \in 0 .. N /\ n \in 0 .. N /\ f[n - 1] \in V /\ step[n] \in [V -> V]
    BY <2>1
  <2>3. step[n][f[n - 1]] \in V
    BY <2>2
  <2>4. g \in [0 .. N -> V] /\ g[n] = step[n][f[n - 1]] /\ \A m \in 0 .. N : m # n => g[m] = f[m]
    BY <2>1, <2>2, <2>3
  <2>. HIDE DEF g
  <2>5. g[0] = first
    BY <2>1, <2>4
  <2>6. ASSUME NEW m \in 1 .. n PROVE g[m] = step[m][g[m - 1]]
    <3>1. m - 1 \in 0 .. N /\ m - 1 # n /\ m \in 0 .. N
      OBVIOUS
    <3>2. g[m - 1] = f[m - 1]
      BY <2>4, <3>1
    <3>3. CASE m = n
      BY <2>4, <3>2, <3>3
    <3>4. CASE m # n
      <4>1. m \in 1 .. n - 1
        BY <3>4
      <4>. QED  BY <2>1, <2>4, <3>1, <3>2, <3>4, <4>1
    <3>. QED  BY <3>3, <3>4
  <2>7. Solves(g, n)
    BY <2>5, <2>6
  <2>. QED  BY <2>2, <2>4, <2>7
<1>3. S = 0 .. N
  <2>1. S \in SUBSET (0 .. N)
    OBVIOUS
  <2>. HIDE DEF S
  <2>. QED  BY <1>1, <1>2, <2>1, UpTo
<1>4. PICK f \in [0 .. N -> V] : Solves(f, N)
  <2>1. N \in S
    <3>1. N \in 0 .. N
      OBVIOUS
    <3>. HIDE DEF S
    <3>. QED  BY <1>3, <3>1
  <2>. QED  BY <2>1
<1>. QED  BY <1>4 DEF Follows

\* What the steps of a closure are.
Steps(r, N, first, under) ==
    r = [n \in 0 .. N |-> first \cup IF n = 0 THEN {} ELSE UNION {under[y] : y \in r[n - 1]}]

\* There are such sets.
LEMMA ClosureExists ==
    ASSUME NEW N \in Nat, NEW S, NEW under \in [S -> SUBSET S], NEW first \in SUBSET S
    PROVE  \E r \in [0 .. N -> SUBSET S] : Steps(r, N, first, under)
<1>. DEFINE above_(A) == first \cup UNION {under[y] : y \in A}
            step == [n \in 1 .. N |-> [A \in SUBSET S |-> above_(A)]]
<1>1. ASSUME NEW A \in SUBSET S PROVE above_(A) \in SUBSET S
  <2>1. ASSUME NEW z \in UNION {under[y] : y \in A} PROVE z \in S
    <3>1. PICK y \in A : z \in under[y]
      OBVIOUS
    <3>. QED  BY <3>1
  <2>. QED  BY <2>1
<1>2. step \in [1 .. N -> [SUBSET S -> SUBSET S]]
  <2>. HIDE DEF above_
  <2>. QED  BY <1>1
<1>3. PICK r \in [0 .. N -> SUBSET S] : r[0] = first /\ \A n \in 1 .. N : r[n] = step[n][r[n - 1]]
  <2>. DEFINE V == SUBSET S
  <2>1. first \in V /\ step \in [1 .. N -> [V -> V]]
    BY <1>2
  <2>2. PICK r : Follows(r, N, V, first, step)
    <3>. HIDE DEF V, step
    <3>. QED  BY <2>1, StepByStep
  <2>. HIDE DEF step
  <2>. QED  BY <2>2 DEF Follows
<1>4. ASSUME NEW n \in 1 .. N PROVE r[n] = above_(r[n - 1])
  <2>1. n - 1 \in 0 .. N
    OBVIOUS
  <2>2. r[n - 1] \in SUBSET S
    BY <1>3, <2>1
  <2>. HIDE DEF above_
  <2>. QED  BY <1>3, <2>2
<1>5. ASSUME NEW n \in 0 .. N
      PROVE  r[n] = first \cup IF n = 0 THEN {} ELSE UNION {under[y] : y \in r[n - 1]}
  <2>1. CASE n = 0
    BY <1>3, <2>1
  <2>2. CASE n # 0
    <3>1. n \in 1 .. N
      BY <2>2
    <3>. QED  BY <1>4, <2>2, <3>1
  <2>. QED  BY <2>1, <2>2
<1>6. r = [n \in 0 .. N |-> r[n]]
  BY <1>3
<1>7. Steps(r, N, first, under)
  BY <1>5, <1>6 DEF Steps
<1>. QED  BY <1>7

\* A set with what is below its members stays inside any set that has both.
LEMMA ClosureInside ==
    ASSUME NEW N \in Nat, NEW S, NEW under \in [S -> SUBSET S], NEW first \in SUBSET S,
           NEW r, Steps(r, N, first, under),
           NEW C \in SUBSET S, first \subseteq C, \A y \in C : under[y] \subseteq C
    PROVE  \A n \in 0 .. N : r[n] \subseteq C
<1>. DEFINE T == {n \in 0 .. N : r[n] \subseteq C}
<1>1. 0 \in T
  <2>1. r[0] = first \cup {}
    BY DEF Steps
  <2>. QED  BY <2>1
<1>2. ASSUME NEW n \in 1 .. N, n - 1 \in T PROVE n \in T
  <2>1. r[n] = first \cup UNION {under[y] : y \in r[n - 1]}
    <3>1. n \in 0 .. N /\ n # 0
      OBVIOUS
    <3>. QED  BY <3>1 DEF Steps
  <2>2. r[n - 1] \subseteq C
    BY <1>2
  <2>3. ASSUME NEW z \in UNION {under[y] : y \in r[n - 1]} PROVE z \in C
    <3>1. PICK y \in r[n - 1] : z \in under[y]
      OBVIOUS
    <3>. QED  BY <2>2, <3>1
  <2>4. n \in 0 .. N
    OBVIOUS
  <2>. QED  BY <2>1, <2>3, <2>4
<1>3. T = 0 .. N
  <2>1. T \in SUBSET (0 .. N)
    OBVIOUS
  <2>. HIDE DEF T
  <2>. QED  BY <1>1, <1>2, <2>1, UpTo
<1>. QED  BY <1>3

\* After as many steps as there are members nothing is left to be added.
LEMMA ClosureIsClosed ==
    ASSUME NEW S, IsFiniteSet(S), NEW under \in [S -> SUBSET S], NEW first \in SUBSET S,
           NEW r, Steps(r, Cardinality(S), first, under)
    PROVE  LET C == r[Cardinality(S)]
           IN  C \in SUBSET S /\ first \subseteq C /\ \A y \in C : under[y] \subseteq C
<1>. DEFINE N == Cardinality(S)
            Closed(A) == \A y \in A : under[y] \subseteq A
            T == {n \in 0 .. N : Closed(r[n]) \/ Cardinality(r[n]) >= n}
<1>1. N \in Nat
  BY FS_CardinalityType
<1>2. ASSUME NEW n \in 0 .. N PROVE r[n] \in SUBSET S /\ first \subseteq r[n]
  <2>1. r[n] \subseteq S
    <3>1. S \in SUBSET S /\ first \subseteq S /\ \A y \in S : under[y] \subseteq S
      OBVIOUS
    <3>2. Steps(r, N, first, under)
      OBVIOUS
    <3>. HIDE DEF N
    <3>. QED  BY <1>1, <3>1, <3>2, ClosureInside
  <2>2. first \subseteq r[n]
    BY DEF Steps
  <2>. QED  BY <2>1, <2>2
<1>3. 0 \in T
  <2>1. r[0] \in SUBSET S /\ 0 \in 0 .. N
    BY <1>1, <1>2
  <2>2. Cardinality(r[0]) \in Nat
    BY <2>1, FS_Subset, FS_CardinalityType
  <2>. QED  BY <2>1, <2>2
<1>5. \A n \in 1 .. N : r[n - 1] \subseteq r[n]
  <2>. DEFINE M == {n \in 0 .. N : n = 0 \/ r[n - 1] \subseteq r[n]}
  <2>1. 0 \in M
    BY <1>1
  <2>2. ASSUME NEW n \in 1 .. N, n - 1 \in M PROVE n \in M
    <3>1. n \in 0 .. N /\ n - 1 \in 0 .. N /\ n # 0 /\ 0 \in 0 .. N
      BY <1>1
    <3>2. r[n] = first \cup UNION {under[y] : y \in r[n - 1]}
      BY <3>1 DEF Steps
    <3>3. CASE n = 1
      <4>1. r[0] = first
        BY <3>1 DEF Steps
      <4>. QED  BY <3>1, <3>2, <3>3, <4>1
    <3>4. CASE n # 1
      <4>1. n - 2 \in 0 .. N /\ (n - 1) - 1 = n - 2 /\ n - 1 # 0
        BY <1>1, <3>4
      <4>2. r[n - 1] = first \cup UNION {under[y] : y \in r[n - 2]}
        BY <3>1, <4>1 DEF Steps
      <4>3. r[n - 2] \subseteq r[n - 1]
        BY <2>2, <4>1
      <4>4. ASSUME NEW z \in UNION {under[y] : y \in r[n - 2]}
            PROVE  z \in UNION {under[y] : y \in r[n - 1]}
        <5>1. PICK y \in r[n - 2] : z \in under[y]
          OBVIOUS
        <5>. QED  BY <4>3, <5>1
      <4>5. r[n - 1] \subseteq r[n]
        BY <3>2, <4>2, <4>4
      <4>. QED  BY <3>1, <4>5
    <3>. QED  BY <3>3, <3>4
  <2>3. M = 0 .. N
    <3>1. M \in SUBSET (0 .. N)
      OBVIOUS
    <3>. HIDE DEF M
    <3>. QED  BY <1>1, <2>1, <2>2, <3>1, UpTo
  <2>. QED  BY <1>1, <2>3
<1>4. ASSUME NEW n \in 1 .. N, n - 1 \in T PROVE n \in T
  <2>. DEFINE A == r[n - 1]
              B == r[n]
  <2>1. n - 1 \in 0 .. N /\ n \in 0 .. N
    BY <1>1
  <2>2. A \in SUBSET S /\ first \subseteq A /\ B \in SUBSET S /\ first \subseteq B
    BY <1>2, <2>1
  <2>3. B = first \cup UNION {under[y] : y \in A}
    BY <2>1 DEF Steps
  <2>4. \A y \in A : under[y] \subseteq B
    BY <2>3
  <2>5. CASE Closed(A)
    <3>1. ASSUME NEW z \in B PROVE z \in A
      <4>1. CASE z \in first
        BY <2>2, <4>1
      <4>2. CASE z \in UNION {under[y] : y \in A}
        <5>1. PICK y \in A : z \in under[y]
          BY <4>2
        <5>. QED  BY <2>5, <5>1
      <4>. QED  BY <2>3, <4>1, <4>2
    <3>2. \A y \in B : under[y] \subseteq B
      BY <2>4, <3>1
    <3>. QED  BY <2>1, <3>2
  <2>6. CASE ~Closed(A)
    <3>. SUFFICES Cardinality(B) >= n
      BY <2>1
    <3>0. PICK y \in A : ~(under[y] \subseteq A)
      BY <2>6
    <3>1. PICK z \in under[y] : z \notin A
      BY <3>0
    <3>2. z \in B
      BY <2>4, <3>1
    <3>3. Cardinality(A) >= n - 1
      BY <1>4, <2>6
    <3>4. A \subseteq B
      BY <1>5
    <3>5. A \subseteq B /\ A # B /\ IsFiniteSet(B)
      BY <2>2, <3>1, <3>2, <3>4, FS_Subset
    <3>6. Cardinality(A) <= Cardinality(B) /\ Cardinality(A) # Cardinality(B)
          /\ Cardinality(A) \in Nat /\ Cardinality(B) \in Nat
      <4>. HIDE DEF A, B
      <4>. QED  BY <3>5, FS_Subset, FS_CardinalityType
    <3>. HIDE DEF A, B
    <3>. QED  BY <1>1, <2>1, <3>3, <3>6
  <2>. QED  BY <2>5, <2>6
<1>6. T = 0 .. N
  <2>1. T \in SUBSET (0 .. N)
    OBVIOUS
  <2>. HIDE DEF T, N
  <2>. QED  BY <1>1, <1>3, <1>4, <2>1, UpTo
<1>7. N \in 0 .. N
  BY <1>1
<1>8. r[N] \in SUBSET S /\ first \subseteq r[N]
  BY <1>2, <1>7
<1>9. Closed(r[N])
  <2>1. CASE Cardinality(r[N]) >= N
    <3>1. Cardinality(r[N]) \in Nat /\ Cardinality(r[N]) <= N /\ (N = Cardinality(r[N]) => S = r[N])
      BY <1>8, FS_Subset, FS_CardinalityType
    <3>2. Cardinality(r[N]) = N
      BY <1>1, <2>1, <3>1
    <3>. QED  BY <3>1, <3>2
  <2>2. CASE ~(Cardinality(r[N]) >= N)
    <3>1. N \in T
      BY <1>6, <1>7
    <3>. QED  BY <2>2, <3>1
  <2>. QED  BY <2>1, <2>2
<1>. QED  BY <1>8, <1>9

-----------------------------------------------------------------------------
(***************************************************************************)
(* The lists that Dependencies makes.                                      *)
(***************************************************************************)

\* What a filter leaves is of the list and passes the filter.
LEMMA OnlyThose ==
    ASSUME NEW S, NEW s \in Seq(S), NEW those
    PROVE  only(s, those) \in Seq({s[i] : i \in DOMAIN s} \cap those)
<1>. DEFINE N == Len(s)
            V == Seq({s[i] : i \in DOMAIN s} \cap those)
            next(n, v) == IF s[n] \in those THEN Append(v, s[n]) ELSE v
            step == [n \in 1 .. N |-> [v \in V |-> next(n, v)]]
            Kept(k) == k = [n \in 0 .. N |-> IF n = 0 THEN <<>>
                                             ELSE IF s[n] \in those THEN Append(k[n - 1], s[n])
                                             ELSE k[n - 1]]
<1>1. N \in Nat /\ DOMAIN s = 1 .. N
  BY LenProperties
<1>2. <<>> \in V
  BY EmptySeq
<1>3. ASSUME NEW n \in 1 .. N, NEW v \in V PROVE next(n, v) \in V
  <2>. HIDE DEF N
  <2>1. s[n] \in {s[i] : i \in DOMAIN s}
    BY <1>1
  <2>. QED  BY <2>1
<1>4. step \in [1 .. N -> [V -> V]]
  <2>. HIDE DEF V, N, next
  <2>. QED  BY <1>3
<1>5. PICK f : Follows(f, N, V, <<>>, step)
  <2>. HIDE DEF V, N, step
  <2>. QED  BY <1>1, <1>2, <1>4, StepByStep
<1>6. \A n \in 1 .. N : f[n] = next(n, f[n - 1])
  <2>. HIDE DEF V, N, next
  <2>1. \A n \in 1 .. N : n - 1 \in 0 .. N
    BY <1>1
  <2>2. \A n \in 1 .. N : f[n - 1] \in V
    BY <1>5, <2>1 DEF Follows
  <2>. QED  BY <1>5, <2>2 DEF Follows
<1>7. Kept(f)
  <2>. HIDE DEF N, V
  <2>1. ASSUME NEW n \in 0 .. N
        PROVE  f[n] = IF n = 0 THEN <<>> ELSE IF s[n] \in those THEN Append(f[n - 1], s[n])
                                    ELSE f[n - 1]
    <3>1. n = 0 \/ n \in 1 .. N
      BY <1>1
    <3>. QED  BY <1>1, <1>5, <1>6, <3>1 DEF Follows
  <2>. QED  BY <1>5, <2>1 DEF Follows
<1>. DEFINE k == CHOOSE k : Kept(k)
<1>8. Kept(k)
  <2>. HIDE DEF Kept
  <2>. QED  BY <1>7
<1>9. only(s, those) = k[N]
  BY DEF only
<1>. HIDE DEF k
<1>10. \A n \in 0 .. N : k[n] \in V
  <2>. DEFINE T == {n \in 0 .. N : k[n] \in V}
  <2>. HIDE DEF N, V
  <2>1. 0 \in T
    BY <1>1, <1>2, <1>8
  <2>2. ASSUME NEW n \in 1 .. N, n - 1 \in T PROVE n \in T
    <3>1. n \in 0 .. N /\ n # 0 /\ k[n - 1] \in V
      BY <1>1, <2>2
    <3>2. k[n] = next(n, k[n - 1])
      BY <1>8, <3>1
    <3>. HIDE DEF next
    <3>. QED  BY <1>3, <3>1, <3>2
  <2>3. T = 0 .. N
    <3>1. T \in SUBSET (0 .. N)
      OBVIOUS
    <3>. HIDE DEF T
    <3>. QED  BY <1>1, <2>1, <2>2, <3>1, UpTo
  <2>. QED  BY <2>3
<1>11. N \in 0 .. N
  BY <1>1
<1>12. k[N] \in V
  <2>. HIDE DEF N, V
  <2>. QED  BY <1>10, <1>11
<1>. QED  BY <1>9, <1>12

\* The lines of a group are for the package and for what it needs to run.
LEMMA GroupLines ==
    ASSUME NEW x \in Packages, NEW after \in Seq(Line)
    PROVE  group_lines(x, after) \in
              Seq({l \in Line : l.id = x \/ \E i \in DOMAIN after : l.id = after[i].id})
<1>. DEFINE N == Len(after)
            L == {l \in Line : l.id = x \/ \E i \in DOMAIN after : l.id = after[i].id}
            V == Seq(L)
            found(n, v) == \E l \in ToSet(v) : l.id \in named_like(after[n].id)
            next(n, v) == IF found(n, v) THEN v
                          ELSE Append(v, Before(after[n].prio, after[n].id))
            step == [n \in 1 .. N |-> [v \in V |-> next(n, v)]]
            first == <<Before(1, x)>>
            Added(k) == k = [n \in 0 .. N |-> IF n = 0 THEN <<Before(1, x)>>
                                ELSE IF \E l \in ToSet(k[n - 1]) : l.id \in named_like(after[n].id)
                                THEN k[n - 1]
                                ELSE Append(k[n - 1], Before(after[n].prio, after[n].id))]
<1>1. N \in Nat /\ DOMAIN after = 1 .. N
  BY LenProperties
<1>2. first \in V
  <2>1. Before(1, x) \in L
    BY DEF Before, Line, Priority
  <2>. HIDE DEF L
  <2>. QED  BY <2>1
<1>3. ASSUME NEW n \in 1 .. N, NEW v \in V PROVE next(n, v) \in V
  <2>1. after[n] \in Line /\ n \in DOMAIN after
    BY <1>1, ElementOfSeq
  <2>2. Before(after[n].prio, after[n].id) \in L
    BY <2>1 DEF Before, Line
  <2>. HIDE DEF L, N, found
  <2>. QED  BY <2>2
<1>4. step \in [1 .. N -> [V -> V]]
  <2>. HIDE DEF V, N, next
  <2>. QED  BY <1>3
<1>5. PICK f : Follows(f, N, V, first, step)
  <2>. HIDE DEF V, N, step, first
  <2>. QED  BY <1>1, <1>2, <1>4, StepByStep
<1>6. \A n \in 1 .. N : f[n] = next(n, f[n - 1])
  <2>. HIDE DEF V, N, next
  <2>1. \A n \in 1 .. N : n - 1 \in 0 .. N
    BY <1>1
  <2>2. \A n \in 1 .. N : f[n - 1] \in V
    BY <1>5, <2>1 DEF Follows
  <2>. QED  BY <1>5, <2>2 DEF Follows
<1>7. Added(f)
  <2>. HIDE DEF N, V
  <2>1. ASSUME NEW n \in 0 .. N
        PROVE  f[n] = IF n = 0 THEN first ELSE next(n, f[n - 1])
    <3>1. n = 0 \/ n \in 1 .. N
      BY <1>1
    <3>. HIDE DEF next, first
    <3>. QED  BY <1>1, <1>5, <1>6, <3>1 DEF Follows
  <2>2. f = [n \in 0 .. N |-> f[n]]
    BY <1>5 DEF Follows
  <2>3. f = [n \in 0 .. N |-> IF n = 0 THEN first ELSE next(n, f[n - 1])]
    <3>. HIDE DEF next, first
    <3>. QED  BY <2>1, <2>2
  <2>. QED  BY <2>3
<1>. DEFINE k == CHOOSE k : Added(k)
<1>8. Added(k)
  <2>. HIDE DEF Added
  <2>. QED  BY <1>7
<1>9. group_lines(x, after) = k[N]
  BY DEF group_lines
<1>. HIDE DEF k
<1>10. \A n \in 0 .. N : k[n] \in V
  <2>. DEFINE T == {n \in 0 .. N : k[n] \in V}
  <2>0. k = [n \in 0 .. N |-> IF n = 0 THEN first ELSE next(n, k[n - 1])]
    BY <1>8
  <2>. HIDE DEF N, V, first, next
  <2>1. 0 \in T
    BY <1>1, <1>2, <2>0
  <2>2. ASSUME NEW n \in 1 .. N, n - 1 \in T PROVE n \in T
    <3>1. n \in 0 .. N /\ n # 0 /\ k[n - 1] \in V
      BY <1>1, <2>2
    <3>2. k[n] = next(n, k[n - 1])
      BY <2>0, <3>1
    <3>. QED  BY <1>3, <3>1, <3>2
  <2>3. T = 0 .. N
    <3>1. T \in SUBSET (0 .. N)
      OBVIOUS
    <3>. HIDE DEF T
    <3>. QED  BY <1>1, <2>1, <2>2, <3>1, UpTo
  <2>. QED  BY <2>3
<1>11. N \in 0 .. N
  BY <1>1
<1>12. k[N] \in V
  <2>. HIDE DEF N, V
  <2>. QED  BY <1>10, <1>11
<1>. QED  BY <1>9, <1>12

\* The last line for a name goes, if there is one.
LEMMA WithoutLast ==
    ASSUME NEW S, NEW lines \in Seq(S), NEW x
    PROVE  /\ without_last(lines, x) \in Seq(S)
           /\ (\E i \in DOMAIN lines : lines[i].id = x) =>
                 \E m \in 1 .. Len(lines) :
                    /\ lines[m].id = x
                    /\ Len(without_last(lines, x)) = Len(lines) - 1
                    /\ \A i \in 1 .. Len(lines) - 1 :
                          without_last(lines, x)[i] = IF i < m THEN lines[i] ELSE lines[i + 1]
<1>. DEFINE N == Len(lines)
            at == {i \in DOMAIN lines : lines[i].id = x}
            m == CHOOSE i \in at : \A j \in at : j <= i
            w == without_last(lines, x)
<1>1. N \in Nat /\ DOMAIN lines = 1 .. N
  BY LenProperties
<1>2. CASE at = {}
  <2>1. w = <<>>
    BY <1>2 DEF without_last
  <2>. QED  BY <1>2, <2>1
<1>3. CASE at # {}
  <2>1. \E i \in at : \A j \in at : j <= i
    <3>. DEFINE B == {N - i : i \in at}
                Less == OpToRel(<, Nat)
    <3>1. B \in SUBSET Nat /\ B # {}
      BY <1>1, <1>3
    <3>2. PICK b \in B : \A u \in B : <<u, b>> \notin Less
      <4>. HIDE DEF B
      <4>. QED  BY <3>1, WFMin, NatLessThanWellFounded
    <3>3. PICK i \in at : b = N - i
      OBVIOUS
    <3>4. ASSUME NEW j \in at PROVE j <= i
      <4>1. N - j \in B /\ N - j \in Nat /\ b \in Nat /\ i \in Nat /\ j \in Nat
        BY <1>1, <3>1
      <4>2. ~(N - j < b)
        <5>. HIDE DEF B
        <5>. QED  BY <3>2, <4>1 DEF OpToRel
      <4>. QED  BY <1>1, <3>3, <4>1, <4>2
    <3>. QED  BY <3>4
  <2>2. m \in at
    <3>. HIDE DEF at
    <3>. QED  BY <2>1
  <2>3. m \in 1 .. N /\ lines[m].id = x
    <3>. HIDE DEF m
    <3>. QED  BY <1>1, <2>2
  <2>4. w = SubSeq(lines, 1, m - 1) \o SubSeq(lines, m + 1, N)
    BY <1>3 DEF without_last, RemoveAt
  <2>. HIDE DEF m, w, at
  <2>. DEFINE a == SubSeq(lines, 1, m - 1)
              b == SubSeq(lines, m + 1, N)
  <2>5. /\ a \in Seq(S) /\ Len(a) = m - 1
        /\ \A i \in 1 .. m - 1 : a[i] = lines[i]
    <3>1. m - 1 \in Int /\ 1 \in Int /\ \A i \in 1 .. m - 1 : lines[i] \in S
      BY <1>1, <2>3, ElementOfSeq
    <3>2. /\ a \in Seq(S) /\ Len(a) = IF 1 <= m - 1 THEN (m - 1) - 1 + 1 ELSE 0
          /\ \A i \in 1 .. (m - 1) - 1 + 1 : a[i] = lines[1 + i - 1]
      BY <3>1, SubSeqProperties
    <3>. HIDE DEF a
    <3>. QED  BY <1>1, <2>3, <3>2
  <2>6. /\ b \in Seq(S) /\ Len(b) = N - m
        /\ \A i \in 1 .. N - m : b[i] = lines[m + i]
    <3>1. m + 1 \in Int /\ N \in Int /\ \A i \in m + 1 .. N : lines[i] \in S
      BY <1>1, <2>3, ElementOfSeq
    <3>2. /\ b \in Seq(S) /\ Len(b) = IF m + 1 <= N THEN N - (m + 1) + 1 ELSE 0
          /\ \A i \in 1 .. N - (m + 1) + 1 : b[i] = lines[m + 1 + i - 1]
      BY <3>1, SubSeqProperties
    <3>. HIDE DEF b, N
    <3>. QED  BY <1>1, <2>3, <3>2
  <2>7. /\ w \in Seq(S) /\ Len(w) = N - 1
        /\ \A i \in 1 .. N - 1 : w[i] = IF i < m THEN lines[i] ELSE lines[i + 1]
    <3>. HIDE DEF a, b
    <3>1. /\ w \in Seq(S) /\ Len(w) = Len(a) + Len(b)
          /\ \A i \in 1 .. Len(a) + Len(b) : w[i] = IF i <= Len(a) THEN a[i] ELSE b[i - Len(a)]
      BY <2>4, <2>5, <2>6, ConcatProperties DEF a, b
    <3>2. Len(w) = N - 1
      BY <1>1, <2>3, <2>5, <2>6, <3>1
    <3>3. ASSUME NEW i \in 1 .. N - 1 PROVE w[i] = IF i < m THEN lines[i] ELSE lines[i + 1]
      <4>1. w[i] = IF i <= m - 1 THEN a[i] ELSE b[i - (m - 1)]
        BY <1>1, <2>3, <2>5, <2>6, <3>1
      <4>2. CASE i < m
        BY <1>1, <2>3, <2>5, <4>1, <4>2
      <4>3. CASE ~(i < m)
        <5>1. i - (m - 1) \in 1 .. N - m /\ m + (i - (m - 1)) = i + 1 /\ ~(i <= m - 1)
          BY <1>1, <2>3, <4>3
        <5>. QED  BY <2>6, <4>1, <4>3, <5>1
      <4>. QED  BY <4>2, <4>3
    <3>. QED  BY <3>1, <3>2, <3>3
  <2>. QED  BY <2>3, <2>7 DEF w
<1>. QED  BY <1>2, <1>3

\* What is left of a list when the flagged names have been taken from it, one
\* line for each.
LEMMA WithoutFlagged ==
    ASSUME NEW S, NEW lines \in Seq(S), NEW T, NEW remove \in Seq(T)
    PROVE  \E left : /\ Follows(left, Len(remove), Seq(S), lines,
                                [n \in 1 .. Len(remove) |->
                                    [v \in Seq(S) |-> without_last(v, remove[n])]])
                     /\ without_flagged(lines, remove) = left[Len(remove)]
                     /\ without_flagged(lines, remove) \in Seq(S)
<1>. DEFINE N == Len(remove)
            V == Seq(S)
            next(n, v) == without_last(v, remove[n])
            step == [n \in 1 .. N |-> [v \in V |-> next(n, v)]]
            Left(k) == k = [n \in 0 .. N |-> IF n = 0 THEN lines
                                             ELSE without_last(k[n - 1], remove[n])]
<1>1. N \in Nat
  BY LenProperties
<1>2. lines \in V
  OBVIOUS
<1>3. ASSUME NEW n \in 1 .. N, NEW v \in V PROVE next(n, v) \in V
  BY WithoutLast
<1>4. step \in [1 .. N -> [V -> V]]
  <2>. HIDE DEF V, N, next
  <2>. QED  BY <1>3
<1>5. PICK f : Follows(f, N, V, lines, step)
  <2>. HIDE DEF V, N, step
  <2>. QED  BY <1>1, <1>2, <1>4, StepByStep
<1>6. ASSUME NEW k, Left(k) PROVE Follows(k, N, V, lines, step)
  <2>. HIDE DEF V, N
  <2>1. k = [n \in 0 .. N |-> k[n]]
    BY <1>6
  <2>. DEFINE T0 == {n \in 0 .. N : k[n] \in V}
  <2>2. k[0] = lines
    <3>1. 0 \in 0 .. N
      BY <1>1
    <3>. QED  BY <1>6, <3>1
  <2>3. 0 \in T0
    BY <1>1, <1>2, <2>2
  <2>4. ASSUME NEW n \in 1 .. N PROVE k[n] = next(n, k[n - 1])
    <3>1. n \in 0 .. N /\ n # 0
      BY <1>1
    <3>. QED  BY <1>6, <3>1
  <2>5. ASSUME NEW n \in 1 .. N, n - 1 \in T0 PROVE n \in T0
    <3>1. n \in 0 .. N /\ k[n - 1] \in V
      BY <1>1, <2>5
    <3>. HIDE DEF next
    <3>. QED  BY <1>3, <2>4, <3>1
  <2>6. T0 = 0 .. N
    <3>1. T0 \in SUBSET (0 .. N)
      OBVIOUS
    <3>. HIDE DEF T0
    <3>. QED  BY <1>1, <2>3, <2>5, <3>1, UpTo
  <2>7. \A n \in 0 .. N : k[n] \in V
    BY <2>6
  <2>8. k \in [0 .. N -> V]
    BY <2>1, <2>7
  <2>9. ASSUME NEW n \in 1 .. N PROVE k[n] = step[n][k[n - 1]]
    <3>1. n - 1 \in 0 .. N
      BY <1>1
    <3>2. k[n - 1] \in V
      BY <2>7, <3>1
    <3>. HIDE DEF next
    <3>. QED  BY <2>4, <3>2
  <2>. HIDE DEF step
  <2>. QED  BY <2>2, <2>8, <2>9 DEF Follows
<1>7. Left(f)
  <2>. HIDE DEF N, V
  <2>1. ASSUME NEW n \in 0 .. N
        PROVE  f[n] = IF n = 0 THEN lines ELSE next(n, f[n - 1])
    <3>1. CASE n = 0
      BY <1>5, <3>1 DEF Follows
    <3>2. CASE n # 0
      <4>1. n \in 1 .. N /\ n - 1 \in 0 .. N
        BY <1>1, <3>2
      <4>2. f[n - 1] \in V /\ f[n] = step[n][f[n - 1]]
        <5>. HIDE DEF step
        <5>. QED  BY <1>5, <4>1 DEF Follows
      <4>. HIDE DEF next
      <4>. QED  BY <3>2, <4>1, <4>2
    <3>. QED  BY <3>1, <3>2
  <2>2. f = [n \in 0 .. N |-> f[n]]
    <3>. HIDE DEF step
    <3>. QED  BY <1>5 DEF Follows
  <2>. QED  BY <2>1, <2>2
<1>. DEFINE k == CHOOSE k : Left(k)
<1>8. Left(k)
  <2>. HIDE DEF Left
  <2>. QED  BY <1>7
<1>9. without_flagged(lines, remove) = k[N]
  BY DEF without_flagged
<1>10. Follows(k, N, V, lines, step)
  <2>. HIDE DEF k, N, V, step, Left
  <2>. QED  BY <1>6, <1>8
<1>11. k[N] \in V
  <2>. HIDE DEF k, N, V, step
  <2>1. N \in 0 .. N
    BY <1>1
  <2>. QED  BY <1>10, <2>1 DEF Follows
<1>. QED  BY <1>9, <1>10, <1>11

-----------------------------------------------------------------------------
(***************************************************************************)
(* What files and calls are.                                               *)
(***************************************************************************)
Name   == Packages \cup Groups
Files  == {NoFile} \cup {File(l) : l \in Seq(Line)}
Trees  == {NoFile} \cup [exists : {TRUE}, link : Seq(Nat), priolink : Seq(Priority),
                         lines : Seq(Line)]
Frames == [node : Node, depth : Nat, count : Nat, remove : Seq(Name)]
Phases == {"subgraph", "clean", "groups", "tree", "done"}

\* What EXCEPT makes of a file.
LEMMA RecordsWithLines ==
    \A e, m, l : [[exists |-> e, lines |-> m] EXCEPT !.lines = l] = [exists |-> e, lines |-> l]
<1>1. ASSUME NEW e, NEW m, NEW l
      PROVE  [[exists |-> e, lines |-> m] EXCEPT !.lines = l] = [exists |-> e, lines |-> l]
  <2>. DEFINE f == [exists |-> e, lines |-> m]
              g == [x \in {"exists", "lines"} |-> IF x = "lines" THEN l ELSE e]
  <2>1. [f EXCEPT !.lines = l] = g
    OBVIOUS
  <2>2. [exists |-> e, lines |-> l] = g
    OBVIOUS
  <2>. HIDE DEF g
  <2>. QED  BY <2>1, <2>2
<1>. QED  BY <1>1

\* What a file is, and what it becomes with other lines.
LEMMA FilesAre ==
    /\ NoFile \in Files /\ NoFile \in Trees /\ ~NoFile.exists
    /\ \A l \in Seq(Line) : File(l) \in Files
    /\ \A l : File(l).exists /\ File(l).lines = l
    /\ \A f \in Files : /\ f.exists \in BOOLEAN
                        /\ f.exists => f.lines \in Seq(Line) /\ f = File(f.lines)
                        /\ ~f.exists => f = NoFile
    /\ \A f \in Files : \A l : f.exists => [f EXCEPT !.lines = l] = File(l)
<1>1. NoFile \in Files /\ NoFile \in Trees /\ ~NoFile.exists
  BY DEF Files, Trees, NoFile
<1>2. \A l \in Seq(Line) : File(l) \in Files
  BY DEF Files
<1>3. \A l : File(l).exists /\ File(l).lines = l
  BY DEF File
<1>4. ASSUME NEW f \in Files
      PROVE  /\ f.exists \in BOOLEAN
             /\ f.exists => f.lines \in Seq(Line) /\ f = File(f.lines)
             /\ ~f.exists => f = NoFile
  <2>1. CASE f = NoFile
    BY <2>1 DEF NoFile
  <2>2. ASSUME NEW l \in Seq(Line), f = File(l) PROVE f.lines = l /\ f.exists
    BY <2>2, <1>3
  <2>. QED  BY <2>1, <2>2 DEF Files
<1>5. ASSUME NEW f \in Files, NEW l, f.exists PROVE [f EXCEPT !.lines = l] = File(l)
  <2>1. PICK m \in Seq(Line) : f = File(m)
    BY <1>4, <1>5
  <2>. QED  BY <2>1, RecordsWithLines, Zenon DEF File
<1>. QED  BY <1>1, <1>2, <1>3, <1>4, <1>5

\* What a tree is.
LEMMA TreesAre ==
    /\ \A a \in Seq(Nat), b \in Seq(Priority), l \in Seq(Line) : Tree(a, b, l) \in Trees
    /\ \A a, b, l : /\ Tree(a, b, l).exists /\ Tree(a, b, l).link = a
                    /\ Tree(a, b, l).priolink = b /\ Tree(a, b, l).lines = l
    /\ \A t \in Trees : /\ t.exists => /\ t.lines \in Seq(Line) /\ t.link \in Seq(Nat)
                                       /\ t.priolink \in Seq(Priority)
                        /\ ~t.exists => t = NoFile
<1>1. \A a \in Seq(Nat), b \in Seq(Priority), l \in Seq(Line) : Tree(a, b, l) \in Trees
  BY DEF Trees, Tree
<1>2. \A a, b, l : /\ Tree(a, b, l).exists /\ Tree(a, b, l).link = a
                   /\ Tree(a, b, l).priolink = b /\ Tree(a, b, l).lines = l
  BY DEF Tree
<1>3. ASSUME NEW t \in Trees
      PROVE  /\ t.exists => /\ t.lines \in Seq(Line) /\ t.link \in Seq(Nat)
                            /\ t.priolink \in Seq(Priority)
             /\ ~t.exists => t = NoFile
  <2>1. CASE t = NoFile
    BY <2>1, FilesAre
  <2>2. CASE t # NoFile
    BY <2>2 DEF Trees
  <2>. QED  BY <2>1, <2>2
<1>. QED  BY <1>1, <1>2, <1>3

\* A tree with other lines stays at its place.
LEMMA TreeWithLines ==
    ASSUME NEW t \in Trees, t.exists, NEW l \in Seq(Line)
    PROVE  /\ [t EXCEPT !.lines = l] \in Trees
           /\ [t EXCEPT !.lines = l].exists
           /\ [t EXCEPT !.lines = l].link = t.link
           /\ [t EXCEPT !.lines = l].priolink = t.priolink
           /\ [t EXCEPT !.lines = l].lines = l
<1>1. t # NoFile
  BY FilesAre
<1>2. t \in [exists : {TRUE}, link : Seq(Nat), priolink : Seq(Priority), lines : Seq(Line)]
  BY <1>1 DEF Trees
<1>. QED  BY <1>2 DEF Trees

\* Names are apart.
LEMMA Names ==
    /\ Node = Name \cup {root} /\ root \notin Name
    /\ \A x \in Packages : group(x) \in Groups /\ group(x) # root /\ group(x) \notin Packages
    /\ \A x \in Groups : x \notin Packages
    /\ \A l \in Line : l.id \in Name /\ l.prio \in Priority
    /\ IsFiniteSet(Node)
<1>1. root \notin Groups
  BY DEF root, Groups, group
<1>2. root \notin Packages /\ Packages \cap Groups = {}
  BY BooksAssumption
<1>3. \A x \in Packages : group(x) \in Groups
  BY DEF Groups
<1>4. IsFiniteSet(Groups)
  <2>1. IsFiniteSet(Packages)
    BY BooksAssumption
  <2>. DEFINE f == [x \in Packages |-> group(x)]
  <2>2. f \in Surjection(Packages, Groups)
    BY DEF Surjection, Groups
  <2>. HIDE DEF f
  <2>. QED  BY <2>1, <2>2, FS_Surjection
<1>5. IsFiniteSet(Node)
  <2>1. IsFiniteSet(Packages) /\ IsFiniteSet({root})
    BY BooksAssumption, FS_Singleton
  <2>2. IsFiniteSet(Packages \cup Groups)
    BY <1>4, <2>1, FS_Union
  <2>. QED  BY <2>1, <2>2, FS_Union DEF Node
<1>6. \A l \in Line : l.id \in Name /\ l.prio \in Priority
  BY DEF Line, Name
<1>. QED  BY <1>1, <1>2, <1>3, <1>5, <1>6 DEF Node, Name

\* How the erased trees are found.
ErasedBy(r, x) ==
    r = [n \in 0 .. Cardinality(Node) |->
            {x} \cup IF n = 0 THEN {} ELSE UNION {Below(y) : y \in r[n - 1]}]

\* There are such sets, and all of them are in a set with the name itself and
\* with what lies below its members.
LEMMA ErasedSteps ==
    ASSUME NEW x, NEW C, x \in C, \A y \in C : Below(y) \subseteq C
    PROVE  \E r : /\ ErasedBy(r, x) /\ Erased(x) = r[Cardinality(Node)]
                  /\ \A n \in 0 .. Cardinality(Node) : r[n] \subseteq C
<1>. DEFINE N == Cardinality(Node)
            first == {x}
            under == [y \in C |-> Below(y)]
            Reached(r) == r = [n \in 0 .. N |->
                                 {x} \cup IF n = 0 THEN {} ELSE UNION {Below(y) : y \in r[n - 1]}]
<1>0. N \in Nat /\ N \in 0 .. N /\ 0 \in 0 .. N
  <2>1. N \in Nat
    BY Names, FS_CardinalityType
  <2>. QED  BY <2>1
<1>1. under \in [C -> SUBSET C] /\ first \in SUBSET C
  OBVIOUS
<1>2. PICK f \in [0 .. N -> SUBSET C] : Steps(f, N, first, under)
  <2>. HIDE DEF N, first, under
  <2>. QED  BY <1>0, <1>1, ClosureExists
<1>3. ASSUME NEW A \in SUBSET C
      PROVE  UNION {under[y] : y \in A} = UNION {Below(y) : y \in A}
  OBVIOUS
<1>4. Reached(f)
  <2>. HIDE DEF N
  <2>1. ASSUME NEW n \in 0 .. N
        PROVE  f[n] = {x} \cup IF n = 0 THEN {} ELSE UNION {Below(y) : y \in f[n - 1]}
    <3>1. f[n] = {x} \cup IF n = 0 THEN {} ELSE UNION {under[y] : y \in f[n - 1]}
      <4>. HIDE DEF under
      <4>. QED  BY <1>2 DEF Steps
    <3>2. CASE n = 0
      BY <3>1, <3>2
    <3>3. CASE n # 0
      <4>1. n - 1 \in 0 .. N
        BY <1>0, <3>3
      <4>2. f[n - 1] \in SUBSET C
        BY <1>2, <4>1
      <4>. HIDE DEF under
      <4>. QED  BY <1>3, <3>1, <4>2
    <3>. QED  BY <3>2, <3>3
  <2>2. f = [n \in 0 .. N |-> f[n]]
    BY <1>2
  <2>. QED  BY <2>1, <2>2
<1>. DEFINE k == CHOOSE k : Reached(k)
<1>5. Reached(k)
  <2>. HIDE DEF Reached
  <2>. QED  BY <1>4
<1>6. Erased(x) = k[N]
  BY DEF Erased
<1>. HIDE DEF k
<1>7. \A n \in 0 .. N : k[n] \subseteq C
  <2>. DEFINE T == {n \in 0 .. N : k[n] \subseteq C}
  <2>1. 0 \in T
    BY <1>0, <1>5
  <2>2. ASSUME NEW n \in 1 .. N, n - 1 \in T PROVE n \in T
    <3>1. n \in 0 .. N /\ n # 0 /\ k[n - 1] \subseteq C
      BY <1>0, <2>2
    <3>2. k[n] = {x} \cup UNION {Below(y) : y \in k[n - 1]}
      BY <1>5, <3>1
    <3>3. ASSUME NEW z \in UNION {Below(y) : y \in k[n - 1]} PROVE z \in C
      <4>1. PICK y \in k[n - 1] : z \in Below(y)
        OBVIOUS
      <4>. QED  BY <3>1, <4>1
    <3>. QED  BY <3>1, <3>2, <3>3
  <2>3. T = 0 .. N
    <3>1. T \in SUBSET (0 .. N)
      OBVIOUS
    <3>. HIDE DEF T, N
    <3>. QED  BY <1>0, <2>1, <2>2, <3>1, UpTo
  <2>. QED  BY <2>3
<1>8. ErasedBy(k, x)
  BY <1>5 DEF ErasedBy
<1>. HIDE DEF Reached
<1>. QED  BY <1>6, <1>7, <1>8

\* Nothing is erased but what is in a set with the name itself and with what
\* lies below its members.
LEMMA ErasedInside ==
    ASSUME NEW x, NEW C, x \in C, \A y \in C : Below(y) \subseteq C
    PROVE  Erased(x) \subseteq C
<1>1. PICK r : /\ Erased(x) = r[Cardinality(Node)]
               /\ \A n \in 0 .. Cardinality(Node) : r[n] \subseteq C
  BY ErasedSteps
<1>2. Cardinality(Node) \in 0 .. Cardinality(Node)
  <2>1. Cardinality(Node) \in Nat
    BY Names, FS_CardinalityType
  <2>. QED  BY <2>1
<1>. QED  BY <1>1, <1>2

\* The calls that are active, when the innermost one goes on or returns.
LEMMA Calls ==
    ASSUME stack \in Seq(Frames), stack # <<>>
    PROVE  /\ Len(stack) \in Nat \ {0} /\ call = stack[Len(stack)]
           /\ \A i \in 1 .. Len(stack) :
                 /\ stack[i] \in Frames /\ stack[i].node \in Node
                 /\ stack[i].depth \in Nat /\ stack[i].count \in Nat
                 /\ stack[i].remove \in Seq(Name)
           /\ next_line \in Nat /\ next_line = stack[Len(stack)].count + 1
           /\ caller \in Seq(Frames) /\ Len(caller) = Len(stack) - 1
           /\ \A i \in 1 .. Len(stack) - 1 : caller[i] = stack[i]
           /\ (caller = <<>>) = (Len(stack) = 1)
<1>1. Len(stack) \in Nat \ {0} /\ call = stack[Len(stack)]
  BY EmptySeq DEF call
<1>2. ASSUME NEW i \in 1 .. Len(stack)
      PROVE  /\ stack[i] \in Frames /\ stack[i].node \in Node
             /\ stack[i].depth \in Nat /\ stack[i].count \in Nat
             /\ stack[i].remove \in Seq(Name)
  <2>1. stack[i] \in Frames
    BY ElementOfSeq
  <2>. QED  BY <2>1 DEF Frames
<1>3. next_line \in Nat /\ next_line = stack[Len(stack)].count + 1
  <2>1. Len(stack) \in 1 .. Len(stack)
    BY <1>1
  <2>. QED  BY <1>1, <1>2, <2>1 DEF next_line
<1>4. /\ caller \in Seq(Frames) /\ Len(caller) = Len(stack) - 1
      /\ \A i \in 1 .. Len(stack) - 1 : caller[i] = stack[i]
  <2>. DEFINE n == Len(stack) - 1
  <2>1. 1 \in Int /\ n \in Int /\ \A i \in 1 .. n : stack[i] \in Frames
    BY <1>1, <1>2
  <2>2. caller = SubSeq(stack, 1, n)
    BY DEF caller, Front
  <2>. HIDE DEF n
  <2>3. /\ caller \in Seq(Frames) /\ Len(caller) = IF 1 <= n THEN n - 1 + 1 ELSE 0
        /\ \A i \in 1 .. n - 1 + 1 : caller[i] = stack[1 + i - 1]
    BY <2>1, <2>2, SubSeqProperties
  <2>4. n \in Nat
    BY <1>1 DEF n
  <2>5. Len(caller) = n
    BY <2>3, <2>4
  <2>6. ASSUME NEW i \in 1 .. n PROVE caller[i] = stack[i]
    <3>1. i \in 1 .. n - 1 + 1 /\ 1 + i - 1 = i
      BY <2>4
    <3>. QED  BY <2>3, <3>1
  <2>. QED  BY <2>3, <2>5, <2>6 DEF n
<1>5. (caller = <<>>) = (Len(stack) = 1)
  <2>1. caller = <<>> => Len(stack) = 1
    BY <1>1, <1>4
  <2>2. Len(stack) = 1 => caller = <<>>
    BY <1>1, <1>4, EmptySeq
  <2>. QED  BY <2>1, <2>2
<1>. QED  BY <1>1, <1>2, <1>3, <1>4, <1>5

\* Reading a line counts it in the innermost call.
LEMMA Reads ==
    ASSUME stack \in Seq(Frames), stack # <<>>
    PROVE  LET k == Len(stack)
           IN  /\ read \in Seq(Frames) /\ Len(read) = k
               /\ \A i \in 1 .. k : i # k => read[i] = stack[i]
               /\ \A i \in 1 .. k : /\ read[i].node = stack[i].node
                                    /\ read[i].depth = stack[i].depth
                                    /\ read[i].remove = stack[i].remove
               /\ read[k].count = stack[k].count + 1
<1>. DEFINE k == Len(stack)
            c == stack[k].count + 1
            new == [stack[k] EXCEPT !.count = c]
<1>1. k \in 1 .. k /\ stack[k] \in Frames /\ c \in Nat /\ next_line = c
  BY Calls
<1>2. /\ new \in Frames /\ new.node = stack[k].node /\ new.depth = stack[k].depth
      /\ new.remove = stack[k].remove /\ new.count = c
  <2>. HIDE DEF c
  <2>. QED  BY <1>1 DEF Frames
<1>3. read = [stack EXCEPT ![k] = new]
  BY <1>1 DEF read
<1>4. /\ read \in Seq(Frames) /\ Len(read) = k
      /\ \A j \in 1 .. k : read[j] = IF j = k THEN new ELSE stack[j]
  <2>. HIDE DEF new, k
  <2>1. stack \in Seq(Frames) /\ k \in 1 .. Len(stack)
    BY <1>1 DEF k
  <2>2. Len(stack) = k
    BY DEF k
  <2>. QED  BY <1>2, <1>3, <2>1, <2>2, ExceptSeq
<1>. HIDE DEF new, k
<1>. QED  BY <1>1, <1>2, <1>4 DEF k

\* Flagging a name counts the line and keeps the name.
LEMMA Flags ==
    ASSUME stack \in Seq(Frames), stack # <<>>, NEW x \in Name
    PROVE  LET k == Len(stack)
           IN  /\ flagged(x) \in Seq(Frames) /\ Len(flagged(x)) = k
               /\ \A i \in 1 .. k : i # k => flagged(x)[i] = stack[i]
               /\ \A i \in 1 .. k : /\ flagged(x)[i].node = stack[i].node
                                    /\ flagged(x)[i].depth = stack[i].depth
               /\ flagged(x)[k].count = stack[k].count + 1
               /\ flagged(x)[k].remove = Append(stack[k].remove, x)
<1>. DEFINE k == Len(stack)
            r == Append(stack[k].remove, x)
            new == [read[k] EXCEPT !.remove = r]
<1>1. k \in 1 .. k /\ stack[k] \in Frames /\ stack[k].remove \in Seq(Name)
  BY Calls
<1>2. /\ read \in Seq(Frames) /\ Len(read) = k
      /\ \A i \in 1 .. k : i # k => read[i] = stack[i]
      /\ \A i \in 1 .. k : /\ read[i].node = stack[i].node
                           /\ read[i].depth = stack[i].depth
                           /\ read[i].remove = stack[i].remove
      /\ read[k].count = stack[k].count + 1
  BY Reads
<1>3. r \in Seq(Name)
  BY <1>1
<1>4. read[k] \in Frames
  BY <1>1, <1>2, ElementOfSeq
<1>5. /\ new \in Frames /\ new.node = stack[k].node /\ new.depth = stack[k].depth
      /\ new.remove = r /\ new.count = stack[k].count + 1
  <2>1. /\ new \in Frames /\ new.node = read[k].node /\ new.depth = read[k].depth
        /\ new.remove = r /\ new.count = read[k].count
    <3>. HIDE DEF r
    <3>. QED  BY <1>3, <1>4 DEF Frames
  <2>. HIDE DEF new, r
  <2>. QED  BY <1>1, <1>2, <2>1
<1>6. flagged(x) = [read EXCEPT ![k] = new]
  BY <1>1, <1>2 DEF flagged
<1>7. /\ flagged(x) \in Seq(Frames) /\ Len(flagged(x)) = k
      /\ \A j \in 1 .. k : flagged(x)[j] = IF j = k THEN new ELSE read[j]
  <2>. HIDE DEF new, k
  <2>1. k \in 1 .. Len(read)
    BY <1>1, <1>2
  <2>. QED  BY <1>2, <1>5, <1>6, <2>1, ExceptSeq
<1>. HIDE DEF new, k, r
<1>. QED  BY <1>1, <1>2, <1>5, <1>7 DEF k, r

\* A file to be read from the start.
LEMMA NewCall ==
    \A x \in Node, d \in Nat : /\ Frame(x, d) \in Frames /\ Frame(x, d).node = x
                               /\ Frame(x, d).depth = d /\ Frame(x, d).count = 0
                               /\ Frame(x, d).remove = <<>>
<1>1. <<>> \in Seq(Name)
  BY EmptySeq
<1>. QED  BY <1>1 DEF Frame, Frames

-----------------------------------------------------------------------------
(***************************************************************************)
(* The inductive invariant.                                                *)
(***************************************************************************)

Typed ==
    /\ packages \in [Packages -> Files]
    /\ \A x \in Packages : packages[x].exists => packages[x].lines \in Books[x]
    /\ DEP_LEVEL \in 1 .. 4
    /\ dep \in [Node -> Files] /\ tree \in [Node -> Trees]
    /\ stack \in Seq(Frames) /\ \A i \in 1 .. Len(stack) : stack[i].depth = i
    /\ returned \in {0} \cup Priority
    /\ parentNode \in SUBSET Node /\ lost \in SUBSET Node /\ moved \in Nat
    /\ pc \in Phases
    /\ stack = <<>> <=> pc \in {"clean", "groups", "done"}

\* Every file of the graph leads to files.
Closed(files) ==
    /\ files[root].exists
    /\ \A x \in Node : files[x].exists =>
           \A i \in 1 .. Len(files[x].lines) : files[files[x].lines[i].id].exists

Unplanted == tree = [x \in Node |-> NoFile] /\ returned = 0

\* While the graph is searched, it is part of the book, what the active calls
\* read is there, and so is what the request names, as far as it has been read.
Searching ==
    pc = "subgraph" =>
        /\ Unplanted
        /\ dep[root].exists
        /\ \A j \in 1 .. Len(dep[root].lines) : dep[root].lines[j].id \in Packages
                                               /\ dep[root].lines[j].prio = 1
        /\ \A x \in Packages : dep[x].exists => packages[x].exists /\ dep[x] = packages[x]
        /\ \A x \in Groups : ~dep[x].exists
        /\ stack[1].node = root
        /\ \A i \in 2 .. Len(stack) : stack[i].node \in Packages
        /\ \A i \in 1 .. Len(stack) : dep[stack[i].node].exists
        /\ stack[1].count <= Len(dep[root].lines)
        /\ \A j \in 1 .. stack[1].count : dep[dep[root].lines[j].id].exists

\* Only other packages may lead nowhere before it is cleaned, and nothing does
\* then.
Cleaning ==
    /\ pc = "clean" =>
        /\ Unplanted
        /\ dep[root].exists
        /\ \A j \in 1 .. Len(dep[root].lines) : dep[dep[root].lines[j].id].exists
    /\ pc = "groups" => Unplanted /\ Closed(dep)

\* The trees are made of what the graph has, and no two are at the same place.
Planted ==
    pc \in {"tree", "done"} =>
        /\ Closed(dep)
        /\ tree[root].exists /\ tree[root].link = <<1>>
        /\ \A y \in Node : tree[y].exists =>
               /\ dep[y].exists
               /\ Len(tree[y].link) >= 1 /\ tree[y].link[1] = 1
               /\ y # root => Len(tree[y].link) >= 2
               /\ \A i \in 1 .. Len(tree[y].lines) : dep[tree[y].lines[i].id].exists
        /\ LinksAreUnique

\* The position by which the way to the active calls enters the m-th file.
place(m) == IF m = 1 THEN 1 ELSE stack[m - 1].count

\* The line by which the i-th call has called the next.
called(i) == tree[stack[i].node].lines[stack[i].count]

\* The link goes through the file of the n-th call.
Through(link, n) == Len(link) >= n /\ \A m \in 1 .. n : link[m] = place(m)

\* The link and the priorities of the file of the i-th call say how it was
\* reached.
OnWay(i) ==
    LET t == tree[stack[i].node]
    IN  /\ t.exists /\ Len(t.link) = i /\ Through(t.link, i)
        /\ Len(t.priolink) = i
        /\ \A m \in 2 .. i : t.priolink[m] = called(m - 1).prio
        /\ stack[i].count <= Len(t.lines)

\* The active calls go down the tree, one from the other.
Way ==
    pc = "tree" =>
        /\ stack[1].node = root
        /\ \A i \in 1 .. Len(stack) : OnWay(i)
        /\ \A i \in 1 .. Len(stack) - 1 :
               stack[i].count >= 1 /\ called(i).id = stack[i + 1].node

\* Nothing is below an active call beyond the line that it has read.
Behind ==
    pc = "tree" =>
        \A i \in 1 .. Len(stack), y \in Node :
            tree[y].exists /\ Len(tree[y].link) > i /\ Through(tree[y].link, i)
                => tree[y].link[i + 1] <= stack[i].count

\* A call that gets a priority back has called for a tree that is there, and
\* the weakest edge is at or above it, below one of the parents found.
Returning ==
    pc = "tree" /\ returned # 0 =>
        LET k == Len(stack)
            x == called(k).id
        IN  /\ stack[k].count >= 1
            /\ tree[x].exists /\ Len(tree[x].link) = k + 1 /\ Through(tree[x].link, k + 1)
            /\ \E a, b \in 1 .. k :
                   /\ a < b /\ stack[a].node \in parentNode
                   /\ stack[b].count >= 1 /\ called(b).prio = returned

Inductive ==
    Typed /\ Searching /\ Cleaning /\ Planted /\ Way /\ Behind /\ Returning

-----------------------------------------------------------------------------
(***************************************************************************)
(* The search.                                                             *)
(***************************************************************************)

\* The book has lines, for packages.
LEMMA BookLines ==
    ASSUME NEW x \in Packages, NEW list \in Books[x]
    PROVE  /\ list \in Seq(Line)
           /\ \A i \in 1 .. Len(list) : list[i].id \in Packages
<1>. DEFINE L == [prio : Priority, build : {"a", "b"}, id : Packages]
<1>1. list \in Seq(L)
  BY BooksAssumption
<1>2. L \subseteq Line
  BY DEF Line
<1>3. \A l \in L : l.id \in Packages
  OBVIOUS
<1>. HIDE DEF L
<1>4. list \in Seq(Line)
  BY <1>1, <1>2, SeqMonotonic
<1>. QED  BY <1>1, <1>3, <1>4, ElementOfSeq

\* Nothing has been read at first but the request.
LEMMA InitFiles == Init => Inductive
<1>. SUFFICES ASSUME Init PROVE Inductive
  OBVIOUS
<1>1. PICK request \in Requests :
          dep = [x \in Node |->
                    IF x = root
                    THEN File([i \in DOMAIN request |-> Before(1, request[i])])
                    ELSE NoFile]
  BY DEF Init
<1>. DEFINE l == [i \in DOMAIN request |-> Before(1, request[i])]
<1>2. request \in Seq(Packages)
  BY BooksAssumption
<1>3. /\ Len(request) \in Nat /\ DOMAIN request = 1 .. Len(request)
      /\ \A i \in 1 .. Len(request) : request[i] \in Packages
  BY <1>2, LenProperties, ElementOfSeq
<1>4. \A i \in 1 .. Len(request) : /\ Before(1, request[i]) \in Line
                                   /\ Before(1, request[i]).id \in Packages
                                   /\ Before(1, request[i]).prio = 1
  BY <1>3 DEF Before, Line, Priority
<1>5. /\ l \in Seq(Line) /\ Len(l) = Len(request)
      /\ \A i \in 1 .. Len(request) : l[i] = Before(1, request[i])
  <2>. DEFINE n == Len(request)
  <2>1. l = [i \in 1 .. n |-> Before(1, request[i])] /\ n \in Nat
    BY <1>3
  <2>. HIDE DEF n
  <2>2. \A i \in 1 .. n : Before(1, request[i]) \in Line
    BY <1>4 DEF n
  <2>3. l \in [1 .. n -> Line]
    BY <2>1, <2>2
  <2>4. l \in Seq(Line)
    BY <2>1, <2>3, SeqDef
  <2>5. Len(l) = n
    BY <2>1, <2>3, <2>4, LenProperties
  <2>. QED  BY <2>1, <2>4, <2>5 DEF n
<1>. HIDE DEF l
<1>6. dep = [x \in Node |-> IF x = root THEN File(l) ELSE NoFile]
  BY <1>1 DEF l
<1>7. root \in Node /\ root \notin Packages /\ root \notin Groups /\ Packages \subseteq Node
      /\ Groups \subseteq Node
  BY Names DEF Name, Node
<1>8. /\ dep \in [Node -> Files] /\ dep[root].exists /\ dep[root].lines = l
      /\ \A x \in Node : x # root => ~dep[x].exists
  BY <1>5, <1>6, <1>7, FilesAre
<1>9. /\ stack \in Seq(Frames) /\ Len(stack) = 1 /\ stack # <<>> /\ stack[1].node = root
      /\ stack[1].depth = 1 /\ stack[1].count = 0
  <2>1. stack = <<Frame(root, 1)>> /\ Frame(root, 1) \in Frames /\ Frame(root, 1).node = root
        /\ Frame(root, 1).depth = 1 /\ Frame(root, 1).count = 0
    BY <1>7, NewCall DEF Init
  <2>. QED  BY <2>1
<1>10. DEP_LEVEL \in 1 .. 4
  BY BooksAssumption DEF Init
<1>11. Typed
  <2>1. /\ packages \in [Packages -> Files] /\ tree \in [Node -> Trees]
        /\ \A x \in Packages : packages[x].exists => packages[x].lines \in Books[x]
    BY FilesAre DEF Init
  <2>2. parentNode \in SUBSET Node /\ lost \in SUBSET Node /\ moved \in Nat /\ returned = 0
        /\ pc = "subgraph"
    BY DEF Init
  <2>3. \A i \in 1 .. Len(stack) : stack[i].depth = i
    BY <1>9
  <2>. QED  BY <1>8, <1>9, <1>10, <2>1, <2>2, <2>3 DEF Typed, Phases
<1>12. Searching
  <2>1. Unplanted
    BY DEF Init, Unplanted
  <2>. QED  BY <1>4, <1>5, <1>7, <1>8, <1>9, <2>1 DEF Searching
<1>13. pc = "subgraph"
  BY DEF Init
<1>. QED
  BY <1>11, <1>12, <1>13 DEF Inductive, Cleaning, Planted, Way, Behind, Returning

\* A file that has been read to its end (generate_subgraph).
LEMMA FollowedKeeps == Inductive /\ followed => Inductive'
<1>. SUFFICES ASSUME Inductive, followed PROVE Inductive'
  OBVIOUS
<1>1. Typed /\ Searching /\ pc = "subgraph" /\ stack # <<>>
  BY DEF Inductive, Typed, followed
<1>. DEFINE k == Len(stack)
<1>2. /\ k \in Nat \ {0} /\ call = stack[k] /\ next_line = stack[k].count + 1
      /\ caller \in Seq(Frames) /\ Len(caller) = k - 1
      /\ \A i \in 1 .. k - 1 : caller[i] = stack[i]
      /\ (caller = <<>>) = (k = 1)
  BY <1>1, Calls DEF Typed
<1>3. /\ stack' = caller /\ pc' = IF k = 1 THEN "clean" ELSE pc
      /\ next_line > Len(dep[call.node].lines)
      /\ UNCHANGED <<packages, DEP_LEVEL, dep, tree, returned, parentNode, lost, moved>>
  BY <1>2 DEF followed, history
<1>4. Typed'
  <2>1. \A i \in 1 .. Len(stack)' : stack'[i].depth = i
    BY <1>1, <1>2, <1>3, SMTT(30) DEF Typed
  <2>2. stack' = <<>> <=> pc' \in {"clean", "groups", "done"}
    BY <1>1, <1>2, <1>3
  <2>3. pc' \in Phases
    BY <1>1, <1>3 DEF Phases
  <2>. QED  BY <1>1, <1>2, <1>3, <2>1, <2>2, <2>3 DEF Typed
<1>5. Unplanted'
  BY <1>1, <1>3 DEF Searching, Unplanted
<1>6. CASE k = 1
  <2>1. /\ dep[root].exists /\ stack[1].node = root
        /\ \A j \in 1 .. stack[1].count : dep[dep[root].lines[j].id].exists
    BY <1>1 DEF Searching
  <2>2. stack[1].count \in Nat /\ Len(dep[root].lines) \in Nat
    <3>1. stack[1].count \in Nat
      BY <1>1, <1>2, Calls DEF Typed
    <3>2. dep[root] \in Files
      BY Names DEF Typed, Inductive
    <3>3. dep[root].lines \in Seq(Line)
      BY <2>1, <3>2, FilesAre
    <3>. QED  BY <3>1, <3>3, LenProperties
  <2>3. Len(dep[root].lines) <= stack[1].count
    BY <1>2, <1>3, <1>6, <2>1, <2>2
  <2>4. \A j \in 1 .. Len(dep[root].lines) : dep[dep[root].lines[j].id].exists
    BY <2>1, <2>2, <2>3
  <2>5. pc' = "clean" /\ dep' = dep
    BY <1>3, <1>6
  <2>. QED
    BY <1>4, <1>5, <2>1, <2>4, <2>5
    DEF Inductive, Searching, Cleaning, Planted, Way, Behind, Returning
<1>7. CASE k # 1
  <2>1. pc' = "subgraph"
    BY <1>1, <1>3, <1>7
  <2>2. stack'[1] = stack[1]
    BY <1>2, <1>3, <1>7
  <2>3. \A i \in 1 .. Len(stack') : i \in 1 .. k /\ stack'[i] = stack[i]
    BY <1>2, <1>3
  <2>4. \A i \in 2 .. Len(stack') : i \in 2 .. k /\ stack'[i] = stack[i]
    BY <1>2, <1>3
  <2>5. Searching'
    BY <1>1, <1>3, <1>5, <2>1, <2>2, <2>3, <2>4 DEF Searching
  <2>. QED
    BY <1>4, <2>1, <2>5 DEF Inductive, Cleaning, Planted, Way, Behind, Returning
<1>. QED  BY <1>6, <1>7

\* A line is followed to a file that may be new.
LEMMA FollowKeeps == Inductive /\ follow => Inductive'
<1>. SUFFICES ASSUME Inductive, follow PROVE Inductive'
  OBVIOUS
<1>1. Typed /\ Searching /\ pc = "subgraph" /\ stack # <<>>
  BY DEF Inductive, Typed, follow
<1>. DEFINE k     == Len(stack)
            n     == call.node
            line  == dep[n].lines[next_line]
            depth == call.depth + 1
<1>2. /\ k \in Nat \ {0} /\ call = stack[k] /\ next_line = stack[k].count + 1 /\ n \in Node
      /\ stack[k].count \in Nat /\ stack[1].count \in Nat /\ stack[k].depth = k
  <2>1. /\ k \in Nat \ {0} /\ call = stack[k] /\ next_line = stack[k].count + 1
    BY <1>1, Calls DEF Typed
  <2>2. 1 \in 1 .. k /\ k \in 1 .. k
    BY <2>1
  <2>. QED  BY <1>1, <2>1, <2>2, Calls DEF Typed
<1>3. /\ read \in Seq(Frames) /\ Len(read) = k
      /\ \A i \in 1 .. k : i # k => read[i] = stack[i]
      /\ \A i \in 1 .. k : /\ read[i].node = stack[i].node
                           /\ read[i].depth = stack[i].depth
      /\ read[k].count = stack[k].count + 1
  BY <1>1, Reads DEF Typed
<1>4. /\ next_line <= Len(dep[n].lines)
      /\ UNCHANGED <<DEP_LEVEL, tree, returned, parentNode, pc, lost, moved>>
  BY DEF follow, history
<1>5. n = root \/ n \in Packages
  BY <1>1, <1>2 DEF Searching
<1>6. /\ dep[n].exists /\ dep[n].lines \in Seq(Line) /\ Len(dep[n].lines) \in Nat
      /\ next_line \in 1 .. Len(dep[n].lines)
  <2>1. dep[n].exists /\ dep[n] \in Files
    BY <1>1, <1>2 DEF Searching, Typed
  <2>2. dep[n].lines \in Seq(Line)
    BY <2>1, FilesAre
  <2>3. Len(dep[n].lines) \in Nat
    BY <2>2, LenProperties
  <2>. QED  BY <1>2, <1>4, <2>1, <2>2, <2>3
<1>7. line.id \in Packages /\ line \in Line
  <2>1. CASE n = root
    <3>1. dep[root].lines[next_line].id \in Packages
      BY <1>1, <1>6, <2>1 DEF Searching
    <3>. QED  BY <1>6, <2>1, <3>1, ElementOfSeq
  <2>2. CASE n \in Packages
    <3>1. packages[n].exists /\ dep[n] = packages[n] /\ packages[n].lines \in Books[n]
      BY <1>1, <1>6, <2>2 DEF Searching, Typed
    <3>2. \A i \in 1 .. Len(dep[n].lines) : dep[n].lines[i].id \in Packages
      BY <2>2, <3>1, BookLines
    <3>. QED  BY <1>6, <3>2, ElementOfSeq
  <2>. QED  BY <1>5, <2>1, <2>2
<1>8. Packages \subseteq Node /\ root \notin Packages /\ line.id # root /\ Groups \subseteq Node
      /\ \A x \in Groups : x # line.id /\ x # root
  BY <1>7, Names DEF Name
<1>. HIDE DEF n, line, depth
<1>9. CASE /\ stack' = read /\ UNCHANGED <<packages, dep>>
           /\ seen(line.id, depth) \/ line.prio > dep_level(call.depth)
  <2>1. Typed'
    <3>1. \A i \in 1 .. Len(stack') : stack'[i].depth = i
      BY <1>1, <1>3, <1>9 DEF Typed
    <3>2. stack' # <<>>
      BY <1>2, <1>3, <1>9
    <3>. QED  BY <1>1, <1>3, <1>4, <1>9, <3>1, <3>2 DEF Typed
  <2>2. /\ stack'[1].count <= Len(dep[root].lines)
        /\ \A j \in 1 .. stack'[1].count : dep[dep[root].lines[j].id].exists
    <3>1. CASE k # 1
      <4>1. stack'[1] = stack[1]
        BY <1>2, <1>3, <1>9, <3>1
      <4>. QED  BY <1>1, <4>1 DEF Searching
    <3>2. CASE k = 1
      <4>1. n = root /\ stack'[1].count = next_line
        BY <1>1, <1>2, <1>3, <1>9, <3>2 DEF Searching, n
      <4>2. line.prio = 1
        BY <1>1, <1>6, <4>1 DEF Searching, line
      <4>3. dep_level(1) \in 1 .. 4
        BY <1>1 DEF dep_level, Typed
      <4>4. seen(line.id, depth)
        BY <1>2, <1>9, <3>2, <4>2, <4>3
      <4>5. dep[line.id].exists
        BY <4>4 DEF seen
      <4>6. dep[dep[root].lines[next_line].id].exists
        BY <4>1, <4>5 DEF line
      <4>7. \A j \in 1 .. next_line : j = next_line \/ j \in 1 .. stack[1].count
        BY <1>2, <3>2
      <4>8. \A j \in 1 .. stack[1].count : dep[dep[root].lines[j].id].exists
        BY <1>1 DEF Searching
      <4>. QED  BY <1>4, <4>1, <4>6, <4>7, <4>8
    <3>. QED  BY <3>1, <3>2
  <2>3. Searching'
    <3>1. \A i \in 1 .. Len(stack') : i \in 1 .. k /\ stack'[i].node = stack[i].node
      BY <1>3, <1>9
    <3>2. \A i \in 2 .. Len(stack') : i \in 2 .. k /\ stack'[i].node = stack[i].node
      BY <1>2, <1>3, <1>9
    <3>3. stack'[1].node = stack[1].node
      BY <1>2, <1>3, <1>9
    <3>. QED  BY <1>1, <1>4, <1>9, <2>2, <3>1, <3>2, <3>3 DEF Searching, Unplanted
  <2>. QED  BY <1>1, <1>4, <2>1, <2>3 DEF Inductive, Cleaning, Planted, Way, Behind, Returning
<1>10. ASSUME NEW list \in listed(line.id),
              packages' = [packages EXCEPT ![line.id] = File(list)],
              dep' = [dep EXCEPT ![line.id] = File(list)],
              stack' = IF list = <<>> THEN read ELSE Append(read, Frame(line.id, depth))
       PROVE  Inductive'
  <2>1. list \in Books[line.id] /\ list \in Seq(Line)
    <3>1. list \in Books[line.id]
      BY <1>1, <1>7 DEF listed, Typed
    <3>. QED  BY <1>7, <3>1, BookLines
  <2>2. File(list) \in Files /\ File(list).exists /\ File(list).lines = list
    BY <2>1, FilesAre
  <2>3. /\ packages' \in [Packages -> Files]
        /\ \A x \in Packages : packages'[x] = IF x = line.id THEN File(list) ELSE packages[x]
    BY <1>1, <1>7, <1>10, <2>2 DEF Typed
  <2>4. /\ dep' \in [Node -> Files]
        /\ \A x \in Node : dep'[x] = IF x = line.id THEN File(list) ELSE dep[x]
    BY <1>1, <1>7, <1>8, <1>10, <2>2 DEF Typed
  <2>5. depth = k + 1 /\ Frame(line.id, depth) \in Frames /\ Frame(line.id, depth).node = line.id
        /\ Frame(line.id, depth).depth = k + 1
    <3>1. depth = k + 1
      BY <1>2 DEF depth
    <3>. QED  BY <1>2, <1>7, <1>8, <3>1, NewCall
  <2>6. /\ stack' \in Seq(Frames) /\ Len(stack') \in {k, k + 1} /\ stack' # <<>>
        /\ \A i \in 1 .. Len(stack') : /\ i <= k => stack'[i] = read[i]
                                       /\ i > k => stack'[i] = Frame(line.id, depth)
    <3>1. CASE list = <<>>
      <4>1. stack' = read
        BY <1>10, <3>1
      <4>2. stack' # <<>>
        BY <1>2, <1>3, <4>1
      <4>. QED  BY <1>2, <1>3, <4>1, <4>2
    <3>2. CASE list # <<>>
      <4>1. stack' = Append(read, Frame(line.id, depth))
        BY <1>10, <3>2
      <4>2. Len(stack') = k + 1 /\ stack' \in Seq(Frames)
        BY <1>2, <1>3, <2>5, <4>1
      <4>3. \A i \in 1 .. k + 1 : stack'[i] = IF i <= k THEN read[i] ELSE Frame(line.id, depth)
        BY <1>2, <1>3, <4>1
      <4>4. stack' # <<>>
        BY <1>2, <4>2
      <4>. QED  BY <1>2, <4>2, <4>3, <4>4
    <3>. QED  BY <3>1, <3>2
  <2>7. \A i \in 1 .. Len(stack') :
           /\ i <= k => i \in 1 .. k /\ stack'[i].node = stack[i].node /\ stack'[i].depth = i
           /\ i > k => stack'[i].node = line.id /\ stack'[i].depth = i
    BY <1>1, <1>2, <1>3, <2>5, <2>6 DEF Typed
  <2>8. Typed'
    <3>1. \A x \in Packages : packages'[x].exists => packages'[x].lines \in Books[x]
      BY <1>1, <2>1, <2>2, <2>3 DEF Typed
    <3>2. \A i \in 1 .. Len(stack') : stack'[i].depth = i
      BY <1>2, <2>6, <2>7
    <3>. QED  BY <1>1, <1>4, <2>3, <2>4, <2>6, <3>1, <3>2 DEF Typed
  <2>9. dep'[root] = dep[root] /\ dep'[line.id].exists
        /\ \A x \in Node : dep[x].exists => dep'[x].exists
    BY <1>7, <1>8, <2>2, <2>4, Names
  <2>10. /\ stack'[1].count <= Len(dep[root].lines)
         /\ \A j \in 1 .. stack'[1].count : dep'[dep[root].lines[j].id].exists
    <3>1. CASE k # 1
      <4>1. stack'[1] = stack[1]
        BY <1>2, <1>3, <2>6, <3>1
      <4>2. ASSUME NEW j \in 1 .. stack[1].count PROVE dep'[dep[root].lines[j].id].exists
        <5>1. j \in 1 .. Len(dep[root].lines)
          <6>1. Len(dep[root].lines) \in Nat
            <7>1. dep[root].exists /\ dep[root] \in Files
              BY <1>1, Names DEF Searching, Typed
            <7>2. dep[root].lines \in Seq(Line)
              BY <7>1, FilesAre
            <7>. QED  BY <7>2, LenProperties
          <6>2. stack[1].count <= Len(dep[root].lines)
            BY <1>1 DEF Searching
          <6>. QED  BY <1>2, <6>1, <6>2
        <5>2. dep[root].lines[j].id \in Packages /\ dep[dep[root].lines[j].id].exists
          BY <1>1, <5>1 DEF Searching
        <5>. QED  BY <1>8, <2>9, <5>2
      <4>. QED  BY <1>1, <4>1, <4>2 DEF Searching
    <3>2. CASE k = 1
      <4>1. n = root /\ stack'[1].count = next_line
        BY <1>1, <1>2, <1>3, <2>6, <3>2 DEF Searching, n
      <4>2. dep'[dep[root].lines[next_line].id].exists
        BY <2>9, <4>1 DEF line
      <4>3. \A j \in 1 .. next_line : j = next_line \/ j \in 1 .. stack[1].count
        BY <1>2, <3>2
      <4>4. ASSUME NEW j \in 1 .. next_line PROVE dep'[dep[root].lines[j].id].exists
        <5>1. CASE j = next_line
          BY <4>2, <5>1
        <5>2. CASE j \in 1 .. stack[1].count
          <6>1. j \in 1 .. Len(dep[root].lines)
            BY <1>2, <1>4, <1>6, <3>2, <4>1, <5>2
          <6>2. dep[root].lines[j].id \in Packages /\ dep[dep[root].lines[j].id].exists
            BY <1>1, <5>2, <6>1 DEF Searching
          <6>. QED  BY <1>8, <2>9, <6>2
        <5>. QED  BY <4>3, <5>1, <5>2
      <4>. QED  BY <1>4, <4>1, <4>4
    <3>. QED  BY <3>1, <3>2
  <2>11. Searching'
    <3>1. Unplanted'
      BY <1>1, <1>4 DEF Searching, Unplanted
    <3>2. /\ dep'[root].exists
          /\ \A j \in 1 .. Len(dep'[root].lines) : dep'[root].lines[j].id \in Packages
                                                  /\ dep'[root].lines[j].prio = 1
      BY <1>1, <2>9 DEF Searching
    <3>3. \A x \in Packages : dep'[x].exists => packages'[x].exists /\ dep'[x] = packages'[x]
      BY <1>1, <1>8, <2>2, <2>3, <2>4 DEF Searching
    <3>4. \A x \in Groups : ~dep'[x].exists
      BY <1>1, <1>8, <2>4 DEF Searching
    <3>5. stack'[1].node = root
      <4>1. 1 \in 1 .. Len(stack') /\ 1 <= k
        BY <1>2, <2>6
      <4>. QED  BY <1>1, <2>7, <4>1 DEF Searching
    <3>6. \A i \in 2 .. Len(stack') : stack'[i].node \in Packages
      <4>1. \A i \in 2 .. Len(stack') : i \in 1 .. Len(stack') /\ (i <= k => i \in 2 .. k)
        BY <1>2
      <4>. QED  BY <1>1, <1>2, <1>7, <2>6, <2>7, <4>1 DEF Searching
    <3>7. \A i \in 1 .. Len(stack') : dep'[stack'[i].node].exists
      <4>1. \A i \in 1 .. k : stack[i].node \in Node /\ dep[stack[i].node].exists
        BY <1>1, Calls DEF Searching, Typed
      <4>. QED  BY <1>2, <2>6, <2>7, <2>9, <4>1
    <3>. QED  BY <2>9, <2>10, <3>1, <3>2, <3>3, <3>4, <3>5, <3>6, <3>7 DEF Searching
  <2>. QED  BY <1>1, <1>4, <2>8, <2>11 DEF Inductive, Cleaning, Planted, Way, Behind, Returning
<1>. QED
  <2>1. \/ /\ stack' = read /\ UNCHANGED <<packages, dep>>
           /\ seen(line.id, depth) \/ line.prio > dep_level(call.depth)
        \/ \E list \in listed(line.id) :
              /\ packages' = [packages EXCEPT ![line.id] = File(list)]
              /\ dep' = [dep EXCEPT ![line.id] = File(list)]
              /\ stack' = IF list = <<>> THEN read ELSE Append(read, Frame(line.id, depth))
    BY DEF follow, n, line, depth
  <2>. QED  BY <1>9, <1>10, <2>1

-----------------------------------------------------------------------------
(***************************************************************************)
(* Cleaning.                                                               *)
(***************************************************************************)

\* A file whose lines are of some set.
LEMMA OnlyLines ==
    ASSUME NEW L, L \subseteq Line, NEW s \in Seq(L)
    PROVE  /\ s \in Seq(Line) /\ File(s) \in Files /\ File(s).exists /\ File(s).lines = s
           /\ \A i \in 1 .. Len(s) : s[i] \in L
<1>1. s \in Seq(Line)
  BY SeqMonotonic
<1>. QED  BY <1>1, FilesAre, ElementOfSeq

\* What leads out of the graph goes, and all the rest leads into it.
LEMMA CleanKeeps == Inductive /\ clean_subgraph => Inductive'
<1>. SUFFICES ASSUME Inductive, clean_subgraph PROVE Inductive'
  OBVIOUS
<1>1. /\ Typed /\ pc = "clean" /\ pc' = "groups" /\ dep' = without_dangling(dep)
      /\ UNCHANGED <<packages, DEP_LEVEL, tree, stack, returned, parentNode, lost, moved>>
  BY DEF Inductive, clean_subgraph, history
<1>2. Unplanted /\ dep[root].exists
      /\ \A j \in 1 .. Len(dep[root].lines) : dep[dep[root].lines[j].id].exists
  BY <1>1 DEF Inductive, Cleaning
<1>. DEFINE kept(x) == only(dep[x].lines, {line \in ToSet(dep[x].lines) : dep[line.id].exists})
<1>3. ASSUME NEW x \in Node, dep[x].exists
      PROVE  /\ kept(x) \in Seq(Line) /\ File(kept(x)) \in Files /\ File(kept(x)).exists
             /\ File(kept(x)).lines = kept(x)
             /\ \A i \in 1 .. Len(kept(x)) : dep[kept(x)[i].id].exists
  <2>. DEFINE s == dep[x].lines
              those == {line \in ToSet(s) : dep[line.id].exists}
              L == {s[i] : i \in DOMAIN s} \cap those
  <2>1. s \in Seq(Line)
    BY <1>1, <1>3, FilesAre DEF Typed
  <2>2. kept(x) \in Seq(L)
    <3>. HIDE DEF s, those
    <3>1. kept(x) = only(s, those)
      BY DEF s, those
    <3>. QED  BY <2>1, <3>1, OnlyThose
  <2>3. L \subseteq Line
    <3>1. \A i \in DOMAIN s : s[i] \in Line
      BY <2>1, LenProperties, ElementOfSeq
    <3>. HIDE DEF s, those
    <3>. QED  BY <3>1
  <2>4. \A l \in L : dep[l.id].exists
    OBVIOUS
  <2>. HIDE DEF L, kept
  <2>. QED  BY <2>2, <2>3, <2>4, OnlyLines
<1>4. dep' = [x \in Node |-> IF dep[x].exists /\ x # root THEN File(kept(x)) ELSE dep[x]]
  BY <1>1 DEF without_dangling
<1>. HIDE DEF kept
<1>5. dep' \in [Node -> Files]
  BY <1>1, <1>3, <1>4 DEF Typed
<1>6. \A x \in Node : dep'[x].exists <=> dep[x].exists
  BY <1>3, <1>4
<1>7. Closed(dep')
  <2>1. root \in Node
    BY Names
  <2>2. ASSUME NEW x \in Node, dep[x].exists, NEW i \in 1 .. Len(dep'[x].lines)
        PROVE  dep'[dep'[x].lines[i].id].exists
    <3>1. dep'[x].lines \in Seq(Line)
      BY <1>5, <1>6, <2>2, FilesAre
    <3>2. dep'[x].lines[i].id \in Node
      BY <3>1, ElementOfSeq, Names
    <3>3. dep[dep'[x].lines[i].id].exists
      <4>1. CASE x = root
        BY <1>2, <1>4, <2>1, <2>2, <4>1
      <4>2. CASE x # root
        BY <1>3, <1>4, <2>2, <4>2
      <4>. QED  BY <4>1, <4>2
    <3>. QED  BY <1>6, <3>2, <3>3
  <2>. QED  BY <1>2, <1>6, <2>1, <2>2 DEF Closed
<1>8. Typed'
  BY <1>1, <1>5 DEF Typed, Phases
<1>9. Cleaning'
  BY <1>1, <1>2, <1>7 DEF Cleaning, Unplanted
<1>. QED  BY <1>1, <1>8, <1>9 DEF Inductive, Searching, Planted, Way, Behind, Returning

\* With the group of a package that has a file, every file still leads to files.
LEMMA WithGroupIsClosed ==
    ASSUME dep \in [Node -> Files], Closed(dep), NEW x \in Packages, dep[x].exists
    PROVE  with_group(dep, x) \in [Node -> Files] /\ Closed(with_group(dep, x))
<1>. DEFINE after   == at_runtime(dep, x)
            parents == parents_outside(dep, x)
            gone    == {line.id : line \in ToSet(after)}
            moved_to(line) == IF line.id = x THEN [line EXCEPT !.id = group(x)] ELSE line
            lines(y) == IF y \in parents
                        THEN [i \in DOMAIN dep[y].lines |-> moved_to(dep[y].lines[i])]
                        ELSE dep[y].lines
            mine == only(lines(x), {line \in ToSet(lines(x)) : line.id \notin gone})
            rooted == Append(dep[root].lines, Before(1, group(x)))
            G == with_group(dep, x)
            L == {l \in Line : l.id = group(x) \/ dep[l.id].exists}
<1>1. x \in Node /\ group(x) \in Node /\ root \in Node /\ group(x) \in Name /\ group(x) # root
      /\ x # root /\ group(x) # x
  BY Names DEF Name
<1>2. ASSUME NEW y \in Node, dep[y].exists
      PROVE  /\ dep[y].lines \in Seq(L) /\ dep[y].lines \in Seq(Line)
             /\ DOMAIN dep[y].lines = 1 .. Len(dep[y].lines) /\ Len(dep[y].lines) \in Nat
             /\ \A i \in 1 .. Len(dep[y].lines) : dep[y].lines[i] \in L
  <2>1. dep[y].lines \in Seq(Line)
    BY <1>2, FilesAre
  <2>. DEFINE s == dep[y].lines
              m == Len(s)
  <2>2. m \in Nat /\ s \in [1 .. m -> Line] /\ DOMAIN s = 1 .. m
    BY <2>1, LenProperties
  <2>3. \A i \in 1 .. m : dep[s[i].id].exists
    BY <1>2 DEF Closed
  <2>4. \A i \in 1 .. m : s[i] \in L
    BY <2>2, <2>3
  <2>5. s \in [1 .. m -> L]
    <3>. HIDE DEF L, s, m
    <3>. QED  BY <2>2, <2>4
  <2>6. s \in Seq(L)
    <3>. HIDE DEF L, s, m
    <3>. QED  BY <2>2, <2>5, SeqDef
  <2>. QED  BY <2>1, <2>2, <2>4, <2>6
<1>3. ASSUME NEW l \in L PROVE moved_to(l) \in L
  BY <1>1 DEF Line, Name
<1>4. ASSUME NEW y \in Node, dep[y].exists PROVE lines(y) \in Seq(L)
  <2>. DEFINE s == dep[y].lines
              m == Len(s)
              t == [i \in DOMAIN s |-> moved_to(s[i])]
  <2>1. m \in Nat /\ DOMAIN s = 1 .. m /\ \A i \in 1 .. m : s[i] \in L
    BY <1>2, <1>4
  <2>2. t \in [1 .. m -> L]
    <3>. HIDE DEF L, s, m, moved_to
    <3>. QED  BY <1>3, <2>1
  <2>3. t \in Seq(L)
    <3>. HIDE DEF L, t, m
    <3>. QED  BY <2>1, <2>2, SeqDef
  <2>. QED  BY <1>2, <1>4, <2>3
<1>5. mine \in Seq(L)
  <2>. DEFINE s == lines(x)
              those == {line \in ToSet(s) : line.id \notin gone}
              M == {s[i] : i \in DOMAIN s} \cap those
  <2>1. s \in Seq(L)
    BY <1>1, <1>4
  <2>2. mine \in Seq(M)
    <3>1. mine = only(s, those)
      OBVIOUS
    <3>. HIDE DEF s, those, mine, L
    <3>. QED  BY <2>1, <3>1, OnlyThose
  <2>3. M \subseteq L
    <3>. HIDE DEF s, those, L
    <3>1. \A i \in DOMAIN s : s[i] \in L
      BY <2>1, LenProperties, ElementOfSeq
    <3>. QED  BY <3>1
  <2>. HIDE DEF M, mine, L
  <2>. QED  BY <2>2, <2>3, SeqMonotonic
<1>6. rooted \in Seq(L)
  <2>1. dep[root].lines \in Seq(L)
    BY <1>1, <1>2 DEF Closed
  <2>2. Before(1, group(x)) \in L
    BY <1>1 DEF Before, Line, Priority, Name
  <2>. HIDE DEF L
  <2>. QED  BY <2>1, <2>2
<1>7. group_lines(x, after) \in Seq(L)
  <2>. DEFINE s == dep[x].lines
              those == {line \in ToSet(s) : line.build = "a"}
              M == {s[i] : i \in DOMAIN s} \cap those
              K == {l \in Line : l.id = x \/ \E i \in DOMAIN after : l.id = after[i].id}
  <2>1. s \in Seq(L) /\ \A i \in DOMAIN s : s[i] \in L
    BY <1>1, <1>2
  <2>2. after \in Seq(M)
    <3>1. after = only(s, those)
      BY DEF at_runtime
    <3>. HIDE DEF s, those, after, L
    <3>. QED  BY <2>1, <3>1, OnlyThose
  <2>3. M \subseteq L
    <3>. HIDE DEF s, those, L
    <3>. QED  BY <2>1
  <2>4. \A i \in DOMAIN after : after[i] \in L
    <3>. HIDE DEF after, M, L
    <3>. QED  BY <2>2, <2>3, LenProperties, ElementOfSeq
  <2>5. after \in Seq(Line)
    <3>1. M \subseteq Line
      <4>. HIDE DEF M
      <4>. QED  BY <2>3
    <3>. HIDE DEF after, M
    <3>. QED  BY <2>2, <3>1, SeqMonotonic
  <2>6. group_lines(x, after) \in Seq(K)
    <3>. HIDE DEF after
    <3>. QED  BY <2>5, GroupLines
  <2>7. K \subseteq L
    <3>1. \A i \in DOMAIN after : after[i].id = group(x) \/ dep[after[i].id].exists
      <4>. HIDE DEF after
      <4>. QED  BY <2>4
    <3>. HIDE DEF after
    <3>. QED  BY <3>1
  <2>. HIDE DEF K, L, after
  <2>. QED  BY <2>6, <2>7, SeqMonotonic
<1>8. ASSUME NEW y \in parents PROVE y \in Node /\ dep[y].exists
  BY <1>8 DEF parents_outside, above, below
<1>9. G = [y \in Node |->
            IF y = group(x) THEN File(group_lines(x, after))
            ELSE IF y = x THEN File(mine)
            ELSE IF y = root /\ parents = {} THEN File(rooted)
            ELSE IF y \in parents THEN File(lines(y))
            ELSE dep[y]]
  BY Zenon DEF with_group
<1>10. L \subseteq Line /\ \A l \in L : l.id = group(x) \/ dep[l.id].exists
  OBVIOUS
<1>11. dep[root].exists
  BY DEF Closed
<1>. DEFINE gl == group_lines(x, after)
<1>. HIDE DEF G, L, mine, rooted, lines, parents, after, gl
<1>12. ASSUME NEW y \in Node
       PROVE  \/ \E s \in Seq(L) : G[y] = File(s)
              \/ G[y] = dep[y] /\ (dep[y].exists => y # group(x))
  <2>1. CASE y = group(x)
    BY <1>7, <1>9, <2>1 DEF gl
  <2>2. CASE y # group(x) /\ y = x
    BY <1>5, <1>9, <2>2
  <2>3. CASE y # group(x) /\ y # x /\ y = root /\ parents = {}
    BY <1>6, <1>9, <2>3
  <2>4. CASE y # group(x) /\ y # x /\ ~(y = root /\ parents = {}) /\ y \in parents
    BY <1>4, <1>8, <1>9, <2>4
  <2>5. CASE y # group(x) /\ y # x /\ ~(y = root /\ parents = {}) /\ y \notin parents
    BY <1>9, <2>5
  <2>. QED  BY <2>1, <2>2, <2>3, <2>4, <2>5
<1>13. ASSUME NEW y \in Node
       PROVE  /\ G[y] \in Files
              /\ dep[y].exists => G[y].exists
              /\ G[y].exists => \A i \in 1 .. Len(G[y].lines) : G[y].lines[i] \in L
  <2>1. CASE \E s \in Seq(L) : G[y] = File(s)
    <3>1. PICK s \in Seq(L) : G[y] = File(s)
      BY <2>1
    <3>2. /\ File(s) \in Files /\ File(s).exists /\ File(s).lines = s
          /\ \A i \in 1 .. Len(s) : s[i] \in L
      BY <1>10, OnlyLines
    <3>. QED  BY <3>1, <3>2
  <2>2. CASE G[y] = dep[y]
    BY <1>2, <2>2
  <2>. QED  BY <1>12, <2>1, <2>2
<1>14. G[group(x)].exists
  BY <1>1, <1>9, FilesAre
<1>15. G \in [Node -> Files]
  BY <1>9, <1>13
<1>16. ASSUME NEW y \in Node, G[y].exists, NEW i \in 1 .. Len(G[y].lines)
       PROVE  G[G[y].lines[i].id].exists
  <2>1. G[y].lines[i] \in L
    BY <1>13, <1>16
  <2>2. G[y].lines[i].id \in Node
    BY <1>10, <2>1, Names
  <2>. QED  BY <1>10, <1>13, <1>14, <2>1, <2>2
<1>17. G[root].exists
  BY <1>1, <1>11, <1>13
<1>18. Closed(G)
  BY <1>16, <1>17 DEF Closed
<1>. QED  BY <1>15, <1>18 DEF G

\* The group of a package takes its place.
LEMMA MakeGroupKeeps == Inductive /\ make_group => Inductive'
<1>. SUFFICES ASSUME Inductive, make_group PROVE Inductive'
  OBVIOUS
<1>1. /\ Typed /\ pc = "groups" /\ Unplanted /\ Closed(dep)
      /\ UNCHANGED <<packages, DEP_LEVEL, tree, stack, returned, parentNode, pc, lost, moved>>
  BY DEF Inductive, Cleaning, make_group, history
<1>2. PICK i \in DOMAIN Alphabet : dep[Alphabet[i]].exists /\ dep' = with_group(dep, Alphabet[i])
  BY DEF make_group, with_runtime
<1>3. Alphabet[i] \in Packages
  BY BooksAssumption, LenProperties, ElementOfSeq
<1>4. dep' \in [Node -> Files] /\ Closed(dep')
  BY <1>1, <1>2, <1>3, WithGroupIsClosed DEF Typed
<1>5. Typed'
  BY <1>1, <1>4 DEF Typed
<1>6. Cleaning'
  BY <1>1, <1>4 DEF Cleaning, Unplanted
<1>. QED  BY <1>1, <1>5, <1>6 DEF Inductive, Searching, Planted, Way, Behind, Returning

\* The tree starts with its root.
LEMMA CleanedKeeps == Inductive /\ cleaned => Inductive'
<1>. SUFFICES ASSUME Inductive, cleaned PROVE Inductive'
  OBVIOUS
<1>. DEFINE t == Tree(<<1>>, <<1>>, dep[root].lines)
            f == Frame(root, 1)
<1>1. /\ Typed /\ pc = "groups" /\ tree = [x \in Node |-> NoFile] /\ returned = 0 /\ Closed(dep)
      /\ tree' = [tree EXCEPT ![root] = t] /\ stack' = <<f>> /\ pc' = "tree"
      /\ UNCHANGED <<packages, DEP_LEVEL, dep, returned, parentNode, lost, moved>>
  BY DEF Inductive, Cleaning, Unplanted, cleaned, history
<1>2. root \in Node /\ dep[root].exists /\ dep[root].lines \in Seq(Line)
      /\ Len(dep[root].lines) \in Nat
  <2>1. root \in Node /\ dep[root].exists /\ dep[root] \in Files
    BY <1>1, Names DEF Closed, Typed
  <2>2. dep[root].lines \in Seq(Line)
    BY <2>1, FilesAre
  <2>. QED  BY <2>1, <2>2, LenProperties
<1>3. t \in Trees /\ t.exists /\ t.link = <<1>> /\ t.priolink = <<1>> /\ t.lines = dep[root].lines
  <2>. DEFINE one == <<1>>
  <2>1. one \in Seq(Nat) /\ one \in Seq(Priority) /\ t = Tree(one, one, dep[root].lines)
    BY DEF Priority
  <2>. HIDE DEF one, t
  <2>2. t \in Trees /\ t.exists /\ t.link = one /\ t.priolink = one /\ t.lines = dep[root].lines
    BY <1>2, <2>1, TreesAre
  <2>. QED  BY <2>2 DEF one
<1>4. f \in Frames /\ f.node = root /\ f.depth = 1 /\ f.count = 0
  BY <1>2, NewCall
<1>. HIDE DEF t, f
<1>5. /\ stack' \in Seq(Frames) /\ Len(stack') = 1 /\ stack'[1] = f /\ stack' # <<>>
  BY <1>1, <1>4
<1>6. /\ tree' \in [Node -> Trees] /\ tree'[root] = t
      /\ \A y \in Node : y # root => ~tree'[y].exists
  BY <1>1, <1>2, <1>3, FilesAre DEF Typed
<1>7. Typed'
  <2>1. \A i \in 1 .. Len(stack') : stack'[i].depth = i
    BY <1>4, <1>5
  <2>2. pc' \in Phases /\ (stack' = <<>> <=> pc' \in {"clean", "groups", "done"})
    BY <1>1, <1>5 DEF Phases
  <2>. QED  BY <1>1, <1>5, <1>6, <2>1, <2>2 DEF Typed
<1>8. Len(t.link) = 1 /\ t.link[1] = 1 /\ Len(t.priolink) = 1
  BY <1>3
<1>9. Planted'
  <2>1. \A i \in 1 .. Len(t.lines) : dep[t.lines[i].id].exists
    BY <1>1, <1>2, <1>3 DEF Closed
  <2>2. \A y \in Node : tree'[y].exists => y = root
    BY <1>6
  <2>3. tree'[root].link = <<1>> /\ tree'[root].exists /\ dep' = dep
    BY <1>1, <1>3, <1>6
  <2>4. LinksAreUnique'
    BY <2>2 DEF LinksAreUnique
  <2>5. ASSUME NEW y \in Node, tree'[y].exists
        PROVE  /\ dep'[y].exists
               /\ Len(tree'[y].link) >= 1 /\ tree'[y].link[1] = 1
               /\ y # root => Len(tree'[y].link) >= 2
               /\ \A i \in 1 .. Len(tree'[y].lines) : dep'[tree'[y].lines[i].id].exists
    <3>1. y = root /\ tree'[y] = t
      BY <1>6, <2>2, <2>5
    <3>. QED  BY <1>2, <1>8, <2>1, <2>3, <3>1
  <2>6. Closed(dep)'
    BY <1>1, <2>3 DEF Closed
  <2>. QED  BY <2>3, <2>4, <2>5, <2>6 DEF Planted
<1>10. Way'
  <2>1. place(1)' = 1
    BY DEF place
  <2>2. Through(tree[root].link, 1)'
    BY <1>6, <1>8, <2>1 DEF Through
  <2>3. Len(t.lines) \in Nat /\ 0 <= Len(t.lines)
    BY <1>2, <1>3
  <2>4. \A i \in 1 .. Len(stack') : i = 1
    BY <1>5
  <2>5. /\ stack'[1].node = root /\ tree'[root].exists /\ Len(tree'[root].link) = 1
        /\ Len(tree'[root].priolink) = 1 /\ stack'[1].count <= Len(tree'[root].lines)
    BY <1>3, <1>4, <1>5, <1>6, <1>8, <2>3
  <2>6. 1 .. Len(stack') - 1 = {} /\ 2 .. 1 = {}
    BY <1>5
  <2>. QED  BY <2>2, <2>4, <2>5, <2>6 DEF Way, OnWay
<1>11. Behind'
  <2>1. \A y \in Node : tree'[y].exists => Len(tree'[y].link) = 1
    BY <1>6, <1>8
  <2>2. \A i \in 1 .. Len(stack') : i = 1
    BY <1>5
  <2>. QED  BY <2>1, <2>2 DEF Behind
<1>. QED
  BY <1>1, <1>7, <1>9, <1>10, <1>11 DEF Inductive, Searching, Cleaning, Returning
-----------------------------------------------------------------------------
(***************************************************************************)
(* The trees.                                                              *)
(***************************************************************************)

\* The files of the active calls, by their places.
LEMMA InTree ==
    ASSUME Inductive, pc = "tree"
    PROVE  LET k == Len(stack)
           IN  /\ stack # <<>> /\ k \in Nat \ {0} /\ call = stack[k]
               /\ next_line = stack[k].count + 1
               /\ \A i \in 1 .. k :
                     LET n == stack[i].node
                     IN  /\ n \in Node /\ stack[i].count \in Nat /\ stack[i].depth = i
                         /\ tree[n].exists /\ tree[n] \in Trees /\ tree[n].link \in Seq(Nat)
                         /\ tree[n].priolink \in Seq(Priority)
                         /\ tree[n].lines \in Seq(Line) /\ Len(tree[n].lines) \in Nat
                         /\ dep[n].exists
               /\ \A i \in 1 .. k, j \in 1 .. k : stack[i].node = stack[j].node => i = j
<1>. DEFINE k == Len(stack)
<1>1. Typed /\ Planted /\ Way /\ stack # <<>>
  BY DEF Inductive, Typed
<1>2. k \in Nat \ {0} /\ call = stack[k] /\ next_line = stack[k].count + 1
      /\ \A i \in 1 .. k : stack[i].node \in Node /\ stack[i].count \in Nat
  BY <1>1, Calls DEF Typed
<1>3. ASSUME NEW i \in 1 .. k
      PROVE  LET n == stack[i].node
             IN  /\ tree[n].exists /\ tree[n] \in Trees /\ tree[n].link \in Seq(Nat)
                 /\ tree[n].priolink \in Seq(Priority)
                 /\ tree[n].lines \in Seq(Line) /\ Len(tree[n].lines) \in Nat
                 /\ dep[n].exists /\ stack[i].depth = i /\ Len(tree[n].link) = i
  <2>. DEFINE n == stack[i].node
  <2>1. n \in Node /\ tree[n] \in Trees /\ stack[i].depth = i
    BY <1>1, <1>2 DEF Typed
  <2>2. tree[n].exists /\ Len(tree[n].link) = i
    BY <1>1 DEF Way, OnWay
  <2>3. dep[n].exists
    BY <1>1, <2>1, <2>2 DEF Planted
  <2>. HIDE DEF n
  <2>4. /\ tree[n].lines \in Seq(Line) /\ tree[n].link \in Seq(Nat)
        /\ tree[n].priolink \in Seq(Priority)
    BY <2>1, <2>2, TreesAre
  <2>5. Len(tree[n].lines) \in Nat
    BY <2>4, LenProperties
  <2>. QED  BY <2>1, <2>2, <2>3, <2>4, <2>5 DEF n
<1>4. ASSUME NEW i \in 1 .. k, NEW j \in 1 .. k, stack[i].node = stack[j].node PROVE i = j
  <2>1. Len(tree[stack[i].node].link) = i /\ Len(tree[stack[j].node].link) = j
    BY <1>3
  <2>. QED  BY <1>4, <2>1
<1>. QED  BY <1>1, <1>2, <1>3, <1>4

\* Places depend on the calls above only.
LEMMA Places ==
    ASSUME NEW n \in Nat, \A i \in 1 .. n - 1 : stack'[i].count = stack[i].count
    PROVE  \A i \in 1 .. n : /\ place(i)' = place(i)
                             /\ \A link : Through(link, i)' <=> Through(link, i)
<1>1. ASSUME NEW i \in 1 .. n PROVE place(i)' = place(i)
  <2>1. CASE i = 1
    BY <2>1 DEF place
  <2>2. CASE i # 1
    <3>1. i - 1 \in 1 .. n - 1
      BY <2>2
    <3>. QED  BY <2>2, <3>1 DEF place
  <2>. QED  BY <2>1, <2>2
<1>2. ASSUME NEW i \in 1 .. n, NEW link PROVE Through(link, i)' <=> Through(link, i)
  <2>1. \A m \in 1 .. i : m \in 1 .. n
    OBVIOUS
  <2>. QED  BY <1>1, <2>1 DEF Through
<1>. QED  BY <1>1, <1>2

\* Calls stay on their way while lines are added to their files, and the
\* innermost reads on or returns.
LEMMA WayKept ==
    ASSUME Inductive, pc = "tree",
           NEW h \in 1 .. Len(stack), Len(stack') \in Nat, h <= Len(stack'),
           \A i \in 1 .. h : stack'[i].node = stack[i].node,
           \A i \in 1 .. h - 1 : stack'[i].count = stack[i].count,
           \A i \in 1 .. h : LET t == tree[stack[i].node]
                                 u == tree'[stack[i].node]
                             IN  /\ u.exists /\ u.link = t.link /\ u.priolink = t.priolink
                                 /\ Len(u.lines) \in Nat /\ Len(t.lines) <= Len(u.lines)
                                 /\ \A j \in 1 .. Len(t.lines) : u.lines[j] = t.lines[j],
           stack'[h].count <= Len(tree'[stack[h].node].lines)
    PROVE  /\ stack'[1].node = root
           /\ \A i \in 1 .. h : OnWay(i)'
           /\ \A i \in 1 .. h - 1 : /\ called(i)' = called(i)
                                    /\ stack'[i].count >= 1 /\ called(i)'.id = stack'[i + 1].node
<1>. DEFINE k == Len(stack)
<1>1. /\ k \in Nat \ {0}
      /\ \A i \in 1 .. k : /\ stack[i].count \in Nat
                           /\ Len(tree[stack[i].node].lines) \in Nat
  BY InTree
<1>2. Way
  BY DEF Inductive
<1>3. /\ \A i \in 1 .. h : i \in 1 .. k
      /\ \A i \in 1 .. h - 1 : i \in 1 .. k /\ i \in 1 .. h /\ i \in 1 .. k - 1 /\ i + 1 \in 1 .. h
      /\ 1 \in 1 .. h
  BY <1>1
<1>4. \A i \in 1 .. h : /\ place(i)' = place(i)
                        /\ \A link : Through(link, i)' <=> Through(link, i)
  <2>1. h \in Nat
    BY <1>1
  <2>. QED  BY <2>1, Places
<1>5. ASSUME NEW i \in 1 .. h - 1
      PROVE  /\ called(i)' = called(i)
             /\ stack'[i].count >= 1 /\ called(i)'.id = stack'[i + 1].node
  <2>1. /\ stack'[i].count = stack[i].count /\ stack'[i].node = stack[i].node
        /\ stack'[i + 1].node = stack[i + 1].node
    BY <1>3
  <2>2. stack[i].count >= 1 /\ called(i).id = stack[i + 1].node
        /\ stack[i].count <= Len(tree[stack[i].node].lines)
    BY <1>2, <1>3 DEF Way, OnWay
  <2>3. stack[i].count \in 1 .. Len(tree[stack[i].node].lines)
    BY <1>1, <1>3, <2>2
  <2>4. called(i)' = called(i)
    <3>. DEFINE n == stack[i].node
                c == stack[i].count
    <3>1. tree'[n].lines[c] = tree[n].lines[c]
      BY <1>3, <2>3
    <3>2. called(i)' = tree'[n].lines[c]
      BY <2>1 DEF called
    <3>. QED  BY <3>1, <3>2 DEF called
  <2>. QED  BY <2>1, <2>2, <2>4
<1>6. ASSUME NEW i \in 1 .. h PROVE OnWay(i)'
  <2>. DEFINE n == stack[i].node
  <2>1. /\ stack'[i].node = n /\ tree'[n].exists /\ tree'[n].link = tree[n].link
        /\ tree'[n].priolink = tree[n].priolink
    OBVIOUS
  <2>2. /\ Len(tree[n].link) = i /\ Through(tree[n].link, i) /\ Len(tree[n].priolink) = i
        /\ \A m \in 2 .. i : tree[n].priolink[m] = called(m - 1).prio
        /\ stack[i].count <= Len(tree[n].lines)
    BY <1>2, <1>3 DEF Way, OnWay
  <2>3. Through(tree[stack[i].node].link, i)'
    <3>1. \A m \in 1 .. i : m \in 1 .. h
      OBVIOUS
    <3>. QED  BY <1>4, <2>1, <2>2, <3>1 DEF Through
  <2>4. ASSUME NEW m \in 2 .. i PROVE tree'[n].priolink[m] = called(m - 1)'.prio
    <3>1. m - 1 \in 1 .. h - 1
      OBVIOUS
    <3>. QED  BY <1>5, <2>1, <2>2, <3>1
  <2>5. stack'[i].count <= Len(tree'[n].lines)
    <3>1. CASE i = h
      BY <3>1
    <3>2. CASE i # h
      <4>1. i \in 1 .. h - 1
        BY <3>2
      <4>2. stack'[i].count = stack[i].count /\ stack[i].count \in Nat
            /\ Len(tree[n].lines) \in Nat /\ Len(tree'[n].lines) \in Nat
            /\ Len(tree[n].lines) <= Len(tree'[n].lines)
        BY <1>1, <1>3, <4>1
      <4>. HIDE DEF n
      <4>. QED  BY <2>2, <4>2
    <3>. QED  BY <3>1, <3>2
  <2>. QED  BY <2>1, <2>2, <2>3, <2>4, <2>5 DEF OnWay
<1>7. stack'[1].node = root
  BY <1>2, <1>3 DEF Way
<1>. QED  BY <1>5, <1>6, <1>7

\* Nothing gets beyond the active calls while they read on.
LEMMA BehindKept ==
    ASSUME Inductive, pc = "tree",
           NEW h \in 1 .. Len(stack), h <= Len(stack'),
           \A i \in 1 .. h - 1 : stack'[i].count = stack[i].count,
           stack'[h].count \in Nat, stack[h].count <= stack'[h].count,
           NEW i \in 1 .. h, NEW y \in Node,
           tree[y].exists, tree'[y].link = tree[y].link,
           Len(tree'[y].link) > i, Through(tree[y].link, i)'
    PROVE  tree'[y].link[i + 1] <= stack'[i].count
<1>1. \A link : Through(link, i)' <=> Through(link, i)
  <2>1. h \in Nat
    BY InTree
  <2>. QED  BY <2>1, Places
<1>2. Through(tree[y].link, i)
  BY <1>1 DEF Through
<1>3. i \in 1 .. Len(stack) /\ Len(stack) \in Nat /\ stack[i].count \in Nat
  BY InTree
<1>4. tree[y].link[i + 1] <= stack[i].count
  BY <1>2, <1>3 DEF Inductive, Behind
<1>5. tree[y].link[i + 1] \in Nat
  <2>1. tree[y] \in Trees
    BY DEF Inductive, Typed
  <2>2. tree[y].link \in Seq(Nat)
    BY <2>1, TreesAre
  <2>3. Len(tree[y].link) \in Nat
    BY <2>2, LenProperties
  <2>4. i + 1 \in 1 .. Len(tree[y].link)
    BY <2>3
  <2>. QED  BY <2>2, <2>4, ElementOfSeq
<1>6. stack[i].count <= stack'[i].count
  <2>1. CASE i = h
    BY <2>1
  <2>2. CASE i # h
    <3>1. i \in 1 .. h - 1
      BY <2>2
    <3>. QED  BY <1>3, <3>1
  <2>. QED  BY <2>1, <2>2
<1>7. stack'[i].count \in Nat
  BY <1>3
<1>. QED  BY <1>3, <1>4, <1>5, <1>6, <1>7, SMTT(30)

\* A file with other lines that lead to files.
LEMMA Rewritten ==
    ASSUME NEW D \in [Node -> Files], Closed(D), NEW n \in Node, D[n].exists,
           NEW l \in Seq(Line), \A i \in 1 .. Len(l) : D[l[i].id].exists
    PROVE  LET E == [D EXCEPT ![n].lines = l]
           IN  /\ E \in [Node -> Files] /\ Closed(E)
               /\ \A y \in Node : (E[y].exists <=> D[y].exists) /\ (y # n => E[y] = D[y])
               /\ E[n].lines = l
<1>. DEFINE E == [D EXCEPT ![n].lines = l]
<1>1. /\ [D[n] EXCEPT !.lines = l] = File(l)
      /\ File(l) \in Files /\ File(l).exists /\ File(l).lines = l
  BY FilesAre
<1>2. E = [D EXCEPT ![n] = File(l)]
  BY <1>1
<1>3. /\ E \in [Node -> Files]
      /\ \A y \in Node : E[y] = IF y = n THEN File(l) ELSE D[y]
  BY <1>1, <1>2
<1>. HIDE DEF E
<1>4. ASSUME NEW y \in Node PROVE (E[y].exists <=> D[y].exists) /\ (y # n => E[y] = D[y])
  BY <1>1, <1>3
<1>5. ASSUME NEW y \in Node, E[y].exists, NEW i \in 1 .. Len(E[y].lines)
      PROVE  E[E[y].lines[i].id].exists
  <2>1. E[y].lines \in Seq(Line)
    BY <1>3, <1>5, FilesAre
  <2>2. E[y].lines[i].id \in Node
    BY <2>1, ElementOfSeq, Names
  <2>3. D[E[y].lines[i].id].exists
    BY <1>1, <1>3, <1>4, <1>5 DEF Closed
  <2>. QED  BY <1>4, <2>2, <2>3
<1>6. Closed(E)
  BY <1>4, <1>5, Names DEF Closed
<1>. QED  BY <1>1, <1>3, <1>4, <1>6 DEF E

\* The line that is read, and the package that it names.
LEMMA LineRead ==
    ASSUME Inductive, reading
    PROVE  /\ pc = "tree" /\ here = tree[stack[Len(stack)].node]
           /\ next_line \in 1 .. Len(here.lines)
           /\ line_read \in Line /\ line_read.id \in Name /\ line_read.id \in Node
           /\ line_read.id # root /\ line_read.prio \in Priority
           /\ dep[line_read.id].exists
<1>. DEFINE k == Len(stack)
<1>1. pc = "tree" /\ next_line <= Len(here.lines) /\ Planted
  BY DEF reading, Inductive
<1>2. /\ k \in 1 .. k /\ call = stack[k] /\ next_line = stack[k].count + 1
      /\ stack[k].count \in Nat /\ stack[k].node \in Node /\ tree[stack[k].node].exists
      /\ tree[stack[k].node].lines \in Seq(Line) /\ Len(tree[stack[k].node].lines) \in Nat
  BY <1>1, InTree
<1>3. here = tree[stack[k].node]
  BY <1>2 DEF here
<1>4. next_line \in 1 .. Len(here.lines)
  BY <1>1, <1>2, <1>3
<1>5. line_read \in Line
  BY <1>2, <1>3, <1>4, ElementOfSeq DEF line_read
<1>6. line_read.id \in Name /\ line_read.id \in Node /\ line_read.id # root
      /\ line_read.prio \in Priority
  BY <1>5, Names
<1>7. dep[line_read.id].exists
  BY <1>1, <1>2, <1>3, <1>4 DEF Planted, line_read
<1>. QED  BY <1>1, <1>3, <1>4, <1>5, <1>6, <1>7

\* Reading on in the same trees, the calls stay on their way.
LEMMA ReadKeeps ==
    ASSUME Inductive, reading, UNCHANGED <<tree, pc, returned>>,
           stack' \in Seq(Frames), Len(stack') = Len(stack),
           \A i \in 1 .. Len(stack) : i # Len(stack) => stack'[i] = stack[i],
           \A i \in 1 .. Len(stack) : /\ stack'[i].node = stack[i].node
                                      /\ stack'[i].depth = stack[i].depth,
           stack'[Len(stack)].count = stack[Len(stack)].count + 1
    PROVE  /\ stack' # <<>> /\ \A i \in 1 .. Len(stack') : stack'[i].depth = i
           /\ Way' /\ Behind' /\ Returning' /\ pc' = "tree"
<1>. DEFINE k == Len(stack)
<1>1. /\ pc = "tree" /\ returned = 0 /\ here = tree[stack[k].node]
      /\ next_line \in 1 .. Len(here.lines)
  BY LineRead DEF reading
<1>2. /\ k \in Nat \ {0} /\ next_line = stack[k].count + 1
      /\ \A i \in 1 .. k : LET n == stack[i].node
                           IN  /\ stack[i].count \in Nat /\ stack[i].depth = i /\ tree[n].exists
                               /\ Len(tree[n].lines) \in Nat
  BY <1>1, InTree
<1>3. k \in 1 .. k /\ stack' # <<>> /\ \A i \in 1 .. k - 1 : i \in 1 .. k /\ i # k
  BY <1>2
<1>4. stack'[k].count <= Len(tree'[stack[k].node].lines)
  BY <1>1, <1>2
<1>5. \A i \in 1 .. k - 1 : stack'[i].count = stack[i].count
  BY <1>3
<1>6. /\ stack'[1].node = root
      /\ \A i \in 1 .. k : OnWay(i)'
      /\ \A i \in 1 .. k - 1 : /\ called(i)' = called(i)
                               /\ stack'[i].count >= 1 /\ called(i)'.id = stack'[i + 1].node
  <2>1. \A i \in 1 .. k : LET t == tree[stack[i].node]
                              u == tree'[stack[i].node]
                          IN  /\ u.exists /\ u.link = t.link /\ u.priolink = t.priolink
                              /\ Len(u.lines) \in Nat /\ Len(t.lines) <= Len(u.lines)
                              /\ \A j \in 1 .. Len(t.lines) : u.lines[j] = t.lines[j]
    BY <1>2
  <2>. HIDE DEF k
  <2>2. Len(stack') \in Nat /\ k <= Len(stack') /\ k \in 1 .. Len(stack)
    BY <1>3 DEF k
  <2>3. \A i \in 1 .. k : stack'[i].node = stack[i].node
    BY DEF k
  <2>. QED  BY <1>1, <1>4, <1>5, <2>1, <2>2, <2>3, WayKept
<1>7. Way'
  BY <1>6 DEF Way
<1>8. ASSUME NEW i \in 1 .. k, NEW y \in Node, tree[y].exists, Len(tree[y].link) > i,
             Through(tree[y].link, i)'
      PROVE  tree'[y].link[i + 1] <= stack'[i].count
  <2>1. stack'[k].count \in Nat /\ stack[k].count <= stack'[k].count
    BY <1>2, <1>3, SMTT(30)
  <2>2. k \in 1 .. Len(stack) /\ k <= Len(stack') /\ tree'[y].link = tree[y].link
    BY <1>3
  <2>. HIDE DEF k
  <2>. QED  BY <1>1, <1>5, <1>8, <2>1, <2>2, BehindKept
<1>9. Behind'
  <2>1. ASSUME NEW i \in 1 .. Len(stack'), NEW y \in Node, tree'[y].exists,
               Len(tree'[y].link) > i, Through(tree[y].link, i)'
        PROVE  tree'[y].link[i + 1] <= stack'[i].count
    BY <1>8, <2>1
  <2>. QED  BY <2>1 DEF Behind
<1>10. Returning'
  BY <1>1 DEF Returning
<1>. QED  BY <1>1, <1>2, <1>3, <1>7, <1>9, <1>10

\* A package with a tree elsewhere is left out.
LEMMA AlreadyThereKeeps == Inductive /\ already_there => Inductive'
<1>. SUFFICES ASSUME Inductive, already_there PROVE Inductive'
  OBVIOUS
<1>1. /\ Typed /\ Planted /\ reading /\ pc = "tree" /\ stack # <<>>
      /\ stack' = flagged(line_read.id)
      /\ UNCHANGED <<packages, DEP_LEVEL, dep, tree, returned, parentNode, pc, lost, moved>>
  BY DEF Inductive, already_there, reading, history, Typed
<1>2. LET k == Len(stack)
      IN  /\ stack' \in Seq(Frames) /\ Len(stack') = k
          /\ \A i \in 1 .. k : i # k => stack'[i] = stack[i]
          /\ \A i \in 1 .. k : stack'[i].node = stack[i].node /\ stack'[i].depth = stack[i].depth
          /\ stack'[k].count = stack[k].count + 1
  BY <1>1, Flags, LineRead DEF Typed
<1>3. /\ stack' # <<>> /\ \A i \in 1 .. Len(stack') : stack'[i].depth = i
      /\ Way' /\ Behind' /\ Returning'
  BY <1>1, <1>2, ReadKeeps
<1>4. Typed'
  BY <1>1, <1>2, <1>3 DEF Typed
<1>5. Planted'
  BY <1>1 DEF Planted, LinksAreUnique
<1>. QED  BY <1>1, <1>3, <1>4, <1>5 DEF Inductive, Searching, Cleaning

\* Of the lines of a file, those that do not name a package.
LEMMA WithoutName ==
    ASSUME NEW L, L \subseteq Line, NEW s \in Seq(L), NEW x
    PROVE  without(s, x) \in Seq(L)
<1>. DEFINE those == {line \in ToSet(s) : line.id \notin named_like(x)}
            M == {s[i] : i \in DOMAIN s} \cap those
<1>1. without(s, x) = only(s, those)
  BY DEF without
<1>2. without(s, x) \in Seq(M)
  <2>. HIDE DEF those
  <2>. QED  BY <1>1, OnlyThose
<1>3. M \subseteq L
  <2>1. \A i \in DOMAIN s : s[i] \in L
    BY LenProperties, ElementOfSeq
  <2>. HIDE DEF those
  <2>. QED  BY <2>1
<1>. HIDE DEF M
<1>. QED  BY <1>2, <1>3, SeqMonotonic

\* Its lines and those that are left of them lead to files.
LEMMA LinesLead ==
    ASSUME Inductive, pc = "tree", NEW n \in Node, dep[n].exists, NEW x
    PROVE  LET E == [dep EXCEPT ![n].lines = without(@, x)]
           IN  /\ E \in [Node -> Files] /\ Closed(E)
               /\ \A y \in Node : (E[y].exists <=> dep[y].exists) /\ (y # n => E[y] = dep[y])
<1>. DEFINE L == {l \in Line : dep[l.id].exists}
            s == dep[n].lines
            w == without(s, x)
<1>1. dep \in [Node -> Files] /\ Closed(dep)
  BY DEF Inductive, Typed, Planted
<1>2. s \in Seq(Line) /\ Len(s) \in Nat
  <2>1. s \in Seq(Line)
    BY <1>1, FilesAre
  <2>. QED  BY <2>1, LenProperties
<1>3. s \in Seq(L)
  <2>. DEFINE m == Len(s)
  <2>1. s \in [1 .. m -> Line] /\ m \in Nat
    BY <1>2, LenProperties
  <2>2. \A i \in 1 .. m : s[i] \in L
    BY <1>1, <2>1 DEF Closed
  <2>. HIDE DEF s, L, m
  <2>3. s \in [1 .. m -> L]
    BY <2>1, <2>2
  <2>. QED  BY <2>1, <2>3, SeqDef
<1>4. w \in Seq(L)
  <2>1. L \subseteq Line
    OBVIOUS
  <2>. HIDE DEF L, s
  <2>. QED  BY <1>3, <2>1, WithoutName
<1>5. w \in Seq(Line) /\ \A i \in 1 .. Len(w) : dep[w[i].id].exists
  <2>1. L \subseteq Line /\ \A l \in L : dep[l.id].exists
    OBVIOUS
  <2>. HIDE DEF L, w
  <2>. QED  BY <1>4, <2>1, OnlyLines
<1>. DEFINE E == [dep EXCEPT ![n].lines = without(@, x)]
<1>6. E = [dep EXCEPT ![n].lines = w]
  OBVIOUS
<1>. HIDE DEF w, s, E
<1>7. /\ E \in [Node -> Files] /\ Closed(E)
      /\ \A y \in Node : (E[y].exists <=> dep[y].exists) /\ (y # n => E[y] = dep[y])
  BY <1>1, <1>5, <1>6, Rewritten, ZenonT(60)
<1>. QED  BY <1>7 DEF E

\* The weakest edge of a cycle goes when it is the one just read.
LEMMA PruneKeeps == Inductive /\ prune => Inductive'
<1>. SUFFICES ASSUME Inductive, prune PROVE Inductive'
  OBVIOUS
<1>1. /\ Typed /\ Planted /\ reading /\ pc = "tree" /\ stack # <<>>
      /\ stack' = flagged(line_read.id)
      /\ dep' = [dep EXCEPT ![call.node].lines = without(@, line_read.id)]
      /\ UNCHANGED <<packages, DEP_LEVEL, tree, returned, parentNode, pc, lost, moved>>
  BY DEF Inductive, prune, reading, history, Typed
<1>2. LET k == Len(stack)
      IN  /\ stack' \in Seq(Frames) /\ Len(stack') = k
          /\ \A i \in 1 .. k : i # k => stack'[i] = stack[i]
          /\ \A i \in 1 .. k : stack'[i].node = stack[i].node /\ stack'[i].depth = stack[i].depth
          /\ stack'[k].count = stack[k].count + 1
  BY <1>1, Flags, LineRead DEF Typed
<1>3. /\ stack' # <<>> /\ \A i \in 1 .. Len(stack') : stack'[i].depth = i
      /\ Way' /\ Behind' /\ Returning'
  BY <1>1, <1>2, ReadKeeps
<1>4. call.node \in Node /\ dep[call.node].exists
  <2>1. Len(stack) \in 1 .. Len(stack)
    BY <1>1, InTree
  <2>. QED  BY <1>1, <2>1, InTree
<1>5. /\ dep' \in [Node -> Files] /\ Closed(dep')
      /\ \A y \in Node : dep'[y].exists <=> dep[y].exists
  BY <1>1, <1>4, LinesLead, ZenonT(60)
<1>6. Typed'
  BY <1>1, <1>2, <1>3, <1>5 DEF Typed
<1>7. Planted'
  <2>1. ASSUME NEW y \in Node, tree[y].exists, NEW i \in 1 .. Len(tree[y].lines)
        PROVE  dep'[tree[y].lines[i].id].exists
    <3>1. tree[y].lines \in Seq(Line) /\ dep[tree[y].lines[i].id].exists
      BY <1>1, <2>1, TreesAre DEF Typed, Planted
    <3>2. tree[y].lines[i].id \in Node
      BY <3>1, ElementOfSeq, Names
    <3>. QED  BY <1>5, <3>1, <3>2
  <2>. QED  BY <1>1, <1>5, <2>1 DEF Planted, LinksAreUnique
<1>. QED  BY <1>1, <1>3, <1>6, <1>7 DEF Inductive, Searching, Cleaning

\* When the innermost call returns, the others stay on their way, and the last
\* of them finds the tree of the package that it has called for.
LEMMA ReturnKeeps ==
    ASSUME NEW k, k = Len(stack), k # 1,
           Inductive, pc = "tree", pc' = "tree", stack' = caller,
           \A y \in Node : (tree'[y].exists <=> tree[y].exists)
                           /\ (tree[y].exists => tree'[y].link = tree[y].link),
           \A i \in 1 .. k - 1 : tree'[stack[i].node] = tree[stack[i].node]
    PROVE  /\ k - 1 \in Nat \ {0} /\ stack' \in Seq(Frames) /\ Len(stack') = k - 1
           /\ stack' # <<>> /\ \A i \in 1 .. Len(stack') : stack'[i].depth = i
           /\ Way' /\ Behind'
           /\ \A i \in 1 .. k - 1 : stack'[i] = stack[i] /\ called(i)' = called(i)
           /\ \A i \in 1 .. k - 1 : stack[i].count >= 1
           /\ called(k - 1)'.id = stack[k].node
           /\ \A link : Through(link, k)' <=> Through(link, k)
<1>. DEFINE h == k - 1
<1>1. /\ k \in Nat \ {0} /\ stack # <<>>
      /\ \A i \in 1 .. k : LET n == stack[i].node
                           IN  /\ n \in Node /\ stack[i].count \in Nat /\ stack[i].depth = i
                               /\ tree[n].exists /\ Len(tree[n].lines) \in Nat
  BY InTree
<1>2. /\ stack' \in Seq(Frames) /\ Len(stack') = h /\ \A i \in 1 .. h : stack'[i] = stack[i]
  BY <1>1, Calls DEF Inductive, Typed
<1>3. h \in Nat \ {0} /\ h \in 1 .. k /\ (\A i \in 1 .. h : i \in 1 .. k) /\ stack' # <<>>
      /\ \A i \in 1 .. h - 1 : i \in 1 .. h
  BY <1>1, <1>2
<1>4. Way
  BY DEF Inductive
<1>5. stack[h].count <= Len(tree[stack[h].node].lines)
  BY <1>3, <1>4 DEF Way, OnWay
<1>6. \A i \in 1 .. h : LET t == tree[stack[i].node]
                            u == tree'[stack[i].node]
                        IN  /\ u.exists /\ u.link = t.link /\ u.priolink = t.priolink
                            /\ Len(u.lines) \in Nat /\ Len(t.lines) <= Len(u.lines)
                            /\ \A j \in 1 .. Len(t.lines) : u.lines[j] = t.lines[j]
  BY <1>1, <1>3
<1>7. /\ stack'[1].node = root
      /\ \A i \in 1 .. h : OnWay(i)'
      /\ \A i \in 1 .. h - 1 : stack'[i].count >= 1 /\ called(i)'.id = stack'[i + 1].node
  <2>1. h \in 1 .. Len(stack) /\ Len(stack') \in Nat /\ h <= Len(stack')
    BY <1>2, <1>3
  <2>2. /\ \A i \in 1 .. h : stack'[i].node = stack[i].node
        /\ \A i \in 1 .. h - 1 : stack'[i].count = stack[i].count
    BY <1>2, <1>3
  <2>3. stack'[h].count <= Len(tree'[stack[h].node].lines)
    BY <1>2, <1>3, <1>5
  <2>. HIDE DEF h
  <2>. QED  BY <1>6, <2>1, <2>2, <2>3, WayKept
<1>8. Way'
  BY <1>2, <1>7 DEF Way
<1>9. ASSUME NEW i \in 1 .. h, NEW y \in Node, tree[y].exists, tree'[y].link = tree[y].link,
             Len(tree'[y].link) > i, Through(tree[y].link, i)'
      PROVE  tree'[y].link[i + 1] <= stack'[i].count
  <2>1. h \in 1 .. Len(stack) /\ h <= Len(stack')
    BY <1>2, <1>3
  <2>2. /\ \A j \in 1 .. h - 1 : stack'[j].count = stack[j].count
        /\ stack'[h].count \in Nat /\ stack[h].count <= stack'[h].count
    <3>1. \A j \in 1 .. h : stack'[j].count = stack[j].count /\ stack[j].count \in Nat
      BY <1>1, <1>2, <1>3
    <3>2. h \in 1 .. h
      BY <1>3
    <3>. HIDE DEF h
    <3>. QED  BY <1>3, <3>1, <3>2
  <2>. HIDE DEF h
  <2>. QED  BY <1>9, <2>1, <2>2, BehindKept
<1>10. Behind'
  <2>1. ASSUME NEW i \in 1 .. Len(stack'), NEW y \in Node, tree'[y].exists,
               Len(tree'[y].link) > i, Through(tree[y].link, i)'
        PROVE  tree'[y].link[i + 1] <= stack'[i].count
    BY <1>2, <1>9, <2>1
  <2>2. ASSUME NEW y \in Node, tree'[y].exists PROVE tree'[y].link = tree[y].link
    BY <2>2
  <2>. QED  BY <2>1, <2>2 DEF Behind, Through
<1>11. ASSUME NEW i \in 1 .. h PROVE called(i)' = called(i)
  <2>1. stack'[i] = stack[i] /\ tree'[stack[i].node] = tree[stack[i].node]
    BY <1>2
  <2>. QED  BY <2>1 DEF called
<1>12. \A i \in 1 .. h : stack[i].count >= 1
  BY <1>4 DEF Way
<1>13. called(h)'.id = stack[k].node
  <2>1. called(h).id = stack[h + 1].node /\ h + 1 = k
    BY <1>1, <1>3, <1>4 DEF Way
  <2>. QED  BY <1>3, <1>11, <2>1
<1>14. \A link : Through(link, k)' <=> Through(link, k)
  <2>1. k \in Nat /\ k \in 1 .. k /\ \A i \in 1 .. k - 1 : stack'[i].count = stack[i].count
    BY <1>1, <1>2
  <2>. QED  BY <2>1, Places
<1>15. \A i \in 1 .. Len(stack') : stack'[i].depth = i
  BY <1>1, <1>2, <1>3
<1>. QED  BY <1>2, <1>3, <1>8, <1>10, <1>11, <1>12, <1>13, <1>14, <1>15

\* The weakest edge is further up.
LEMMA ReturnFurtherKeeps == Inductive /\ return_further => Inductive'
<1>. SUFFICES ASSUME Inductive, return_further PROVE Inductive'
  OBVIOUS
<1>0. PICK k : k = Len(stack)
  OBVIOUS
<1>1. /\ Typed /\ Planted /\ Way /\ pc = "tree" /\ stack # <<>>
      /\ returned \in Priority /\ returned # line_called.prio /\ stack' = caller
      /\ UNCHANGED <<packages, DEP_LEVEL, dep, tree, returned, parentNode, pc, lost, moved>>
  BY DEF Inductive, return_further, history, Typed
<1>2. /\ k \in Nat \ {0} /\ call = stack[k]
      /\ \A i \in 1 .. k : LET n == stack[i].node
                           IN  /\ n \in Node /\ tree[n].exists
  BY <1>0, <1>1, InTree
<1>3. line_called = called(k)
  BY <1>2 DEF line_called, called, here
<1>4. PICK a \in 1 .. k, b \in 1 .. k : /\ a < b /\ stack[a].node \in parentNode
                                        /\ stack[b].count >= 1 /\ called(b).prio = returned
  BY <1>0, <1>1 DEF Inductive, Returning, Priority
<1>5. b # k
  BY <1>1, <1>3, <1>4
<1>6. k # 1 /\ a \in 1 .. k - 1 /\ b \in 1 .. k - 1
  BY <1>2, <1>4, <1>5
<1>7. /\ k - 1 \in Nat \ {0} /\ stack' \in Seq(Frames) /\ Len(stack') = k - 1
      /\ stack' # <<>> /\ \A i \in 1 .. Len(stack') : stack'[i].depth = i
      /\ Way' /\ Behind'
      /\ \A i \in 1 .. k - 1 : stack'[i] = stack[i] /\ called(i)' = called(i)
      /\ \A i \in 1 .. k - 1 : stack[i].count >= 1
      /\ called(k - 1)'.id = stack[k].node
      /\ \A link : Through(link, k)' <=> Through(link, k)
  BY <1>0, <1>1, <1>6, ReturnKeeps
<1>8. Typed'
  BY <1>1, <1>7 DEF Typed
<1>9. Planted'
  BY <1>1 DEF Planted, LinksAreUnique
<1>10. Returning'
  <2>0. PICK n : n = stack[k].node
    OBVIOUS
  <2>1. n \in Node /\ tree[n].exists /\ Len(tree[n].link) = k /\ Through(tree[n].link, k)
    BY <1>0, <1>1, <1>2, <2>0 DEF Way, OnWay
  <2>2. Through(tree[n].link, k)'
    BY <1>1, <1>7, <2>1, ZenonT(60) DEF Through
  <2>3. stack'[k - 1].count >= 1 /\ called(k - 1)'.id = n
    BY <1>7, <2>0
  <2>4. a \in 1 .. k - 1 /\ b \in 1 .. k - 1 /\ a < b /\ stack'[a].node \in parentNode'
        /\ stack'[b].count >= 1 /\ called(b)'.prio = returned'
    BY <1>1, <1>4, <1>6, <1>7
  <2>5. Len(stack') = k - 1 /\ k - 1 + 1 = k
    BY <1>2, <1>7
  <2>6. Through(tree[called(k - 1).id].link, k)'
    BY <1>1, <2>2, <2>3 DEF Through
  <2>. QED  BY <1>1, <2>1, <2>3, <2>4, <2>5, <2>6 DEF Returning
<1>. QED  BY <1>1, <1>7, <1>8, <1>9, <1>10 DEF Inductive, Searching, Cleaning

\* A link that begins another one.
LEMMA Beginnings ==
    ASSUME NEW s \in Seq(Nat), NEW m \in Nat, m <= Len(s)
    PROVE  /\ SubSeq(s, 1, m) \in Seq(Nat) /\ Len(SubSeq(s, 1, m)) = m
           /\ \A i \in 1 .. m : SubSeq(s, 1, m)[i] = s[i]
<1>. DEFINE w == SubSeq(s, 1, m)
<1>1. Len(s) \in Nat
  BY LenProperties
<1>2. \A i \in 1 .. m : s[i] \in Nat
  BY <1>1, ElementOfSeq
<1>3. /\ w \in Seq(Nat) /\ Len(w) = IF 1 <= m THEN m - 1 + 1 ELSE 0
      /\ \A i \in 1 .. m - 1 + 1 : w[i] = s[1 + i - 1]
  <2>1. 1 \in Int /\ m \in Int
    OBVIOUS
  <2>. QED  BY <1>2, <2>1, SubSeqProperties
<1>4. Len(w) = m
  BY <1>3
<1>5. ASSUME NEW i \in 1 .. m PROVE w[i] = s[i]
  <2>1. i \in 1 .. m - 1 + 1 /\ 1 + i - 1 = i
    OBVIOUS
  <2>. QED  BY <1>3, <2>1
<1>. QED  BY <1>3, <1>4, <1>5

\* A package whose tree is above has an active call, which is not the first, and
\* the one before it has the link before its own.
LEMMA CircularIsActive ==
    ASSUME Inductive, reading, circular(line_read.id)
    PROVE  \E m \in 2 .. Len(stack) :
              /\ line_read.id = stack[m].node /\ Len(tree[line_read.id].link) = m
              /\ Front(tree[line_read.id].link) = tree[stack[m - 1].node].link
<1>. DEFINE k == Len(stack)
            x == line_read.id
            a == tree[x].link
            m == Len(a)
<1>1. /\ Planted /\ Way /\ pc = "tree" /\ here = tree[stack[k].node] /\ x \in Node /\ x # root
      /\ tree \in [Node -> Trees]
  BY LineRead DEF Inductive, Typed
<1>2. /\ k \in Nat \ {0}
      /\ \A i \in 1 .. k : LET n == stack[i].node
                           IN  n \in Node /\ tree[n].exists /\ tree[n].link \in Seq(Nat)
  BY <1>1, InTree
<1>3. \A i \in 1 .. k : LET b == tree[stack[i].node].link
                        IN  Len(b) = i /\ \A j \in 1 .. i : b[j] = place(j)
  BY <1>1 DEF Way, OnWay, Through
<1>4. tree[x].exists /\ IsPrefix(a, here.link)
  BY DEF circular
<1>5. a \in Seq(Nat) /\ m \in Nat /\ m >= 2
  <2>1. tree[x] \in Trees
    BY <1>1
  <2>2. a \in Seq(Nat)
    BY <1>4, <2>1, TreesAre
  <2>3. m >= 2
    BY <1>1, <1>4 DEF Planted
  <2>. QED  BY <2>2, <2>3, LenProperties
<1>. HIDE DEF x
<1>6. m <= k /\ SubSeq(a, 1, m) = SubSeq(here.link, 1, m)
  <2>1. Len(here.link) = k
    BY <1>1, <1>2, <1>3
  <2>. QED  BY <1>4, <2>1 DEF IsPrefix
<1>7. \A j \in 1 .. m : a[j] = place(j)
  <2>1. here.link \in Seq(Nat) /\ Len(here.link) = k /\ \A j \in 1 .. k : here.link[j] = place(j)
    <3>1. k \in 1 .. k
      BY <1>2
    <3>. QED  BY <1>1, <1>2, <1>3, <3>1
  <2>2. \A j \in 1 .. m : SubSeq(here.link, 1, m)[j] = here.link[j]
    <3>. HIDE DEF k, m
    <3>. QED  BY <1>5, <1>6, <2>1, Beginnings
  <2>3. \A j \in 1 .. m : SubSeq(a, 1, m)[j] = a[j]
    <3>1. m <= Len(a)
      BY <1>5
    <3>. HIDE DEF m, a
    <3>. QED  BY <1>5, <3>1, Beginnings
  <2>4. \A j \in 1 .. m : j \in 1 .. k
    BY <1>2, <1>5, <1>6
  <2>. QED  BY <1>6, <2>1, <2>2, <2>3, <2>4
<1>8. m \in 1 .. k /\ m - 1 \in 1 .. k /\ m \in 2 .. k
  BY <1>2, <1>5, <1>6
<1>9. a = tree[stack[m].node].link
  <2>. DEFINE b == tree[stack[m].node].link
  <2>1. b \in Seq(Nat) /\ Len(b) = m /\ \A j \in 1 .. m : b[j] = place(j)
    BY <1>2, <1>3, <1>8
  <2>. HIDE DEF b
  <2>2. Len(b) = Len(a) /\ \A j \in 1 .. Len(a) : a[j] = b[j]
    BY <1>7, <2>1
  <2>3. a = b
    <3>. HIDE DEF a, m
    <3>. QED  BY <1>5, <2>1, <2>2, SeqEqual
  <2>. QED  BY <2>3 DEF b
<1>10. x = stack[m].node
  <2>1. x \in Node /\ tree[x].exists /\ tree[stack[m].node].exists /\ stack[m].node \in Node
    BY <1>1, <1>2, <1>4, <1>8
  <2>. QED  BY <1>1, <1>9, <2>1 DEF Planted, LinksAreUnique
<1>11. Front(a) = tree[stack[m - 1].node].link
  <2>. DEFINE b == tree[stack[m - 1].node].link
              h == m - 1
  <2>1. b \in Seq(Nat) /\ Len(b) = h /\ \A j \in 1 .. h : b[j] = place(j)
    BY <1>2, <1>3, <1>8
  <2>2. h \in Nat /\ h <= Len(a) /\ \A j \in 1 .. h : j \in 1 .. m
    BY <1>5
  <2>3. Front(a) = SubSeq(a, 1, h)
    BY DEF Front
  <2>. HIDE DEF b, h, a
  <2>4. Front(a) \in Seq(Nat) /\ Len(Front(a)) = h /\ \A j \in 1 .. h : Front(a)[j] = a[j]
    BY <1>5, <2>2, <2>3, Beginnings
  <2>5. \A j \in 1 .. Len(Front(a)) : Front(a)[j] = b[j]
    BY <1>7, <2>1, <2>2, <2>4
  <2>6. Front(a) = b
    BY <2>1, <2>4, <2>5, SeqEqual
  <2>. QED  BY <2>6 DEF b, h
<1>. QED  BY <1>8, <1>10, <1>11 DEF x

\* The weakest edge below an active call is one of the edges below it.
LEMMA WeakestIs ==
    ASSUME Inductive, pc = "tree", NEW x, Len(tree[x].link) \in 1 .. Len(stack),
           NEW k, k = Len(stack), weakest(x) # 0
    PROVE  /\ weakest(x) \in Priority /\ k > Len(tree[x].link)
           /\ \E i \in Len(tree[x].link) + 1 .. k : called(i - 1).prio = weakest(x)
<1>. DEFINE n == stack[k].node
            m == Len(tree[x].link)
            way == m + 1 .. Len(here.link)
            b == here.priolink
<1>1. /\ k \in Nat \ {0} /\ call = stack[k] /\ n \in Node /\ tree[n].exists
      /\ here = tree[n] /\ b \in Seq(Priority)
  <2>1. k \in Nat \ {0} /\ call = stack[k]
    BY InTree
  <2>2. k \in 1 .. k /\ here = tree[n]
    BY <2>1 DEF here
  <2>. QED  BY <2>1, <2>2, InTree
<1>2. /\ Len(here.link) = k /\ Len(b) = k /\ \A i \in 2 .. k : b[i] = called(i - 1).prio
  <2>1. k \in 1 .. k
    BY <1>1
  <2>. QED  BY <1>1, <2>1 DEF Inductive, Way, OnWay
<1>3. way = m + 1 .. k
  BY <1>2
<1>. DEFINE Greatest(p) == (\E i \in way : b[i] = p) /\ \A i \in way : b[i] <= p
<1>4. weakest(x) = IF way = {} THEN 0 ELSE CHOOSE p \in Priority : Greatest(p)
  BY DEF weakest
<1>5. way # {} /\ m \in Nat
  BY <1>1, <1>4
<1>6. \A i \in way : i \in 2 .. k /\ b[i] \in Priority
  <2>1. \A i \in way : i \in 1 .. k /\ i \in 2 .. k
    BY <1>1, <1>3, <1>5
  <2>. HIDE DEF b, way
  <2>. QED  BY <1>1, <1>2, <2>1, ElementOfSeq
<1>. HIDE DEF b, way
<1>7. \E p \in Priority : Greatest(p)
  <2>1. CASE \E i \in way : b[i] = 3
    BY <1>6, <2>1 DEF Priority
  <2>2. CASE (\A i \in way : b[i] # 3) /\ \E i \in way : b[i] = 2
    BY <1>6, <2>2 DEF Priority
  <2>3. CASE \A i \in way : b[i] # 3 /\ b[i] # 2
    <3>1. \A i \in way : b[i] = 1
      BY <1>6, <2>3 DEF Priority
    <3>. QED  BY <1>5, <3>1 DEF Priority
  <2>. QED  BY <2>1, <2>2, <2>3
<1>8. weakest(x) \in Priority /\ Greatest(weakest(x))
  <2>. HIDE DEF Greatest
  <2>. QED  BY <1>4, <1>5, <1>7
<1>9. PICK i \in way : b[i] = weakest(x)
  BY <1>8
<1>10. called(i - 1).prio = weakest(x)
  BY <1>2, <1>6, <1>9
<1>11. k > m
  BY <1>1, <1>3, <1>5, <1>9
<1>. QED  BY <1>3, <1>8, <1>10, <1>11

\* The weakest edge of a cycle is on the way to it, so that a call above finds it.
LEMMA BackUpKeeps == Inductive /\ back_up => Inductive'
<1>. SUFFICES ASSUME Inductive, back_up PROVE Inductive'
  OBVIOUS
<1>0. PICK k, x : k = Len(stack) /\ x = line_read.id
  OBVIOUS
<1>1. /\ Typed /\ Planted /\ Way /\ reading /\ pc = "tree" /\ stack # <<>>
      /\ circular(x) /\ line_read.prio < weakest(x)
      /\ parentNode' = trees_with(Front(tree[x].link))
      /\ returned' = weakest(x) /\ stack' = caller
      /\ UNCHANGED <<packages, DEP_LEVEL, dep, tree, pc, lost, moved>>
  BY <1>0 DEF Inductive, back_up, reading, history, Typed
<1>2. /\ k \in Nat \ {0}
      /\ \A i \in 1 .. k : stack[i].node \in Node /\ tree[stack[i].node].exists
  BY <1>0, <1>1, InTree
<1>3. line_read.prio \in Priority
  BY <1>1, LineRead
<1>4. PICK m \in 2 .. k : /\ x = stack[m].node /\ Len(tree[x].link) = m
                          /\ Front(tree[x].link) = tree[stack[m - 1].node].link
  BY <1>0, <1>1, CircularIsActive
<1>5. weakest(x) # 0
  BY <1>1, <1>3 DEF Priority
<1>6. /\ weakest(x) \in Priority /\ k > m
      /\ \E i \in m + 1 .. k : called(i - 1).prio = weakest(x)
  <2>1. Len(tree[x].link) \in 1 .. Len(stack)
    BY <1>0, <1>2, <1>4
  <2>. QED  BY <1>0, <1>1, <1>4, <1>5, <2>1, WeakestIs
<1>7. PICK j \in m + 1 .. k : called(j - 1).prio = weakest(x)
  BY <1>6
<1>8. /\ k - 1 \in Nat \ {0} /\ stack' \in Seq(Frames) /\ Len(stack') = k - 1
      /\ stack' # <<>> /\ \A i \in 1 .. Len(stack') : stack'[i].depth = i
      /\ Way' /\ Behind'
      /\ \A i \in 1 .. k - 1 : stack'[i] = stack[i] /\ called(i)' = called(i)
      /\ \A i \in 1 .. k - 1 : stack[i].count >= 1
      /\ called(k - 1)'.id = stack[k].node
      /\ \A link : Through(link, k)' <=> Through(link, k)
  <2>1. k # 1
    BY <1>2, <1>6
  <2>. QED  BY <1>0, <1>1, <2>1, ReturnKeeps
<1>9. parentNode' \in SUBSET Node /\ stack[m - 1].node \in parentNode'
  <2>1. m - 1 \in 1 .. k
    BY <1>2, <1>4
  <2>. QED  BY <1>1, <1>2, <1>4, <2>1 DEF trees_with
<1>10. Typed'
  <2>1. returned' \in {0} \cup Priority
    BY <1>1, <1>6
  <2>. QED  BY <1>1, <1>8, <1>9, <2>1 DEF Typed
<1>11. Planted'
  BY <1>1 DEF Planted, LinksAreUnique
<1>12. Returning'
  <2>0. PICK n : n = stack[k].node
    OBVIOUS
  <2>1. n \in Node /\ tree[n].exists /\ Len(tree[n].link) = k /\ Through(tree[n].link, k)
    BY <1>0, <1>1, <1>2, <2>0 DEF Way, OnWay
  <2>2. Through(tree[n].link, k)'
    <3>1. tree' = tree /\ \A link : Through(link, k)' <=> Through(link, k)
      BY <1>1, <1>8
    <3>. QED  BY <2>1, <3>1 DEF Through
  <2>3. stack'[k - 1].count >= 1 /\ called(k - 1)'.id = n
    BY <1>8, <2>0
  <2>4. m - 1 \in 1 .. k - 1 /\ j - 1 \in 1 .. k - 1 /\ m - 1 < j - 1
    BY <1>2, <1>4, <1>7
  <2>5. /\ stack'[m - 1].node \in parentNode'
        /\ stack'[j - 1].count >= 1 /\ called(j - 1)'.prio = returned'
    BY <1>1, <1>7, <1>8, <1>9, <2>4
  <2>6. Len(stack') = k - 1 /\ k - 1 + 1 = k
    BY <1>2, <1>8
  <2>7. Through(tree[called(k - 1).id].link, k)'
    BY <1>1, <2>2, <2>3 DEF Through
  <2>. QED  BY <1>1, <2>1, <2>3, <2>4, <2>5, <2>6, <2>7 DEF Returning
<1>. QED  BY <1>1, <1>8, <1>10, <1>11, <1>12 DEF Inductive, Searching, Cleaning

\* What is left of a tree when the flagged names have been taken from it.
LEMMA LeftOfTree ==
    ASSUME Inductive, pc = "tree", NEW n \in Node, tree[n].exists, NEW remove \in Seq(Name)
    PROVE  LET w == without_flagged(tree[n].lines, remove)
           IN  w \in Seq(Line) /\ \A i \in 1 .. Len(w) : dep[w[i].id].exists
<1>. DEFINE L == {l \in Line : dep[l.id].exists}
            s == tree[n].lines
            w == without_flagged(s, remove)
<1>1. s \in Seq(Line) /\ Len(s) \in Nat
  <2>1. s \in Seq(Line)
    BY TreesAre DEF Inductive, Typed
  <2>. QED  BY <2>1, LenProperties
<1>2. s \in Seq(L)
  <2>. DEFINE m == Len(s)
  <2>1. s \in [1 .. m -> Line] /\ m \in Nat
    BY <1>1, LenProperties
  <2>2. \A i \in 1 .. m : s[i] \in L
    BY <2>1 DEF Inductive, Planted
  <2>. HIDE DEF s, L, m
  <2>3. s \in [1 .. m -> L]
    BY <2>1, <2>2
  <2>. QED  BY <2>1, <2>3, SeqDef
<1>3. L \subseteq Line /\ \A l \in L : dep[l.id].exists
  OBVIOUS
<1>4. w \in Seq(L)
  <2>. HIDE DEF s, L
  <2>. QED  BY <1>2, WithoutFlagged
<1>5. w \in Seq(Line) /\ \A i \in 1 .. Len(w) : dep[w[i].id].exists
  <2>. HIDE DEF w, L
  <2>. QED  BY <1>3, <1>4, OnlyLines
<1>. QED  BY <1>5

\* A tree without the names that were flagged.
LEMMA EndOfFileKeeps == Inductive /\ end_of_file => Inductive'
<1>. SUFFICES ASSUME Inductive, end_of_file PROVE Inductive'
  OBVIOUS
<1>0. PICK k, n : k = Len(stack) /\ n = stack[k].node
  OBVIOUS
<1>. DEFINE w == without_flagged(tree[n].lines, stack[k].remove)
<1>1. /\ Typed /\ Planted /\ Way /\ pc = "tree" /\ returned = 0 /\ stack # <<>>
  BY DEF Inductive, end_of_file, Typed
<1>2. /\ k \in Nat \ {0} /\ call = stack[k] /\ k \in 1 .. k
      /\ \A i \in 1 .. k : stack[i].node \in Node /\ tree[stack[i].node].exists
      /\ \A i \in 1 .. k, j \in 1 .. k : stack[i].node = stack[j].node => i = j
  BY <1>0, <1>1, InTree
<1>3. /\ (caller = <<>>) = (k = 1) /\ stack[k].remove \in Seq(Name)
  BY <1>0, <1>1, <1>2, Calls DEF Typed
<1>4. /\ stack' = caller /\ pc' = IF k = 1 THEN "done" ELSE "tree"
      /\ tree' = [tree EXCEPT ![n].lines = w]
      /\ UNCHANGED <<packages, DEP_LEVEL, dep, returned, parentNode, lost, moved>>
  BY <1>0, <1>1, <1>2, <1>3 DEF end_of_file, history
<1>5. n \in Node /\ tree[n].exists /\ tree[n] \in Trees
  BY <1>0, <1>1, <1>2 DEF Typed
<1>6. w \in Seq(Line) /\ \A i \in 1 .. Len(w) : dep[w[i].id].exists
  BY <1>1, <1>3, <1>5, LeftOfTree
<1>. HIDE DEF w
<1>. DEFINE t == [tree[n] EXCEPT !.lines = w]
<1>7. t \in Trees /\ t.exists /\ t.link = tree[n].link /\ t.lines = w
  BY <1>5, <1>6, TreeWithLines
<1>8. /\ tree' \in [Node -> Trees]
      /\ \A y \in Node : tree'[y] = IF y = n THEN t ELSE tree[y]
  <2>1. tree' = [tree EXCEPT ![n] = t]
    BY <1>4
  <2>. HIDE DEF t
  <2>. QED  BY <1>1, <1>5, <1>7, <2>1 DEF Typed
<1>. HIDE DEF t
<1>9. \A y \in Node : /\ tree'[y].exists <=> tree[y].exists
                      /\ tree[y].exists => tree'[y].link = tree[y].link
                      /\ tree[y].exists => \A i \in 1 .. Len(tree'[y].lines) :
                                              dep[tree'[y].lines[i].id].exists
  BY <1>1, <1>5, <1>6, <1>7, <1>8 DEF Planted
<1>10. Planted'
  <2>1. root \in Node /\ dep' = dep
    BY <1>4, Names
  <2>. QED  BY <1>1, <1>9, <2>1 DEF Planted, LinksAreUnique
<1>11. CASE k = 1
  <2>1. stack' = <<>> /\ pc' = "done"
    BY <1>3, <1>4, <1>11
  <2>2. Typed'
    <3>1. stack' \in Seq(Frames) /\ \A i \in 1 .. Len(stack') : stack'[i].depth = i
      BY <2>1, EmptySeq
    <3>. QED  BY <1>1, <1>4, <1>8, <2>1, <3>1 DEF Typed, Phases
  <2>. QED
    BY <1>10, <2>1, <2>2 DEF Inductive, Searching, Cleaning, Way, Behind, Returning
<1>12. CASE k # 1
  <2>1. pc' = "tree"
    BY <1>4, <1>12
  <2>2. \A i \in 1 .. k - 1 : tree'[stack[i].node] = tree[stack[i].node]
    <3>1. \A i \in 1 .. k - 1 : i \in 1 .. k /\ i # k
      BY <1>2
    <3>2. \A i \in 1 .. k - 1 : stack[i].node \in Node /\ stack[i].node # n
      BY <1>0, <1>2, <3>1
    <3>. QED  BY <1>8, <3>2
  <2>3. /\ stack' \in Seq(Frames) /\ stack' # <<>>
        /\ \A i \in 1 .. Len(stack') : stack'[i].depth = i
        /\ Way' /\ Behind'
    BY <1>0, <1>1, <1>4, <1>9, <1>12, <2>1, <2>2, ReturnKeeps
  <2>4. Typed'
    BY <1>1, <1>4, <1>8, <2>1, <2>3 DEF Typed
  <2>5. returned' = 0
    BY <1>1, <1>4
  <2>. QED
    BY <1>10, <2>1, <2>3, <2>4, <2>5 DEF Inductive, Searching, Cleaning, Returning
<1>. QED  BY <1>11, <1>12

\* The place of a new tree is beyond all that lie below the innermost call.
LEMMA NewPlace ==
    ASSUME Inductive, reading, NEW k, k = Len(stack)
    PROVE  LET b == Append(here.link, next_line)
           IN  /\ b \in Seq(Nat) /\ Len(b) = k + 1
               /\ \A i \in 1 .. k : b[i] = place(i)
               /\ b[k + 1] = next_line
               /\ \A y \in Node :
                      /\ tree[y].exists => tree[y].link # b
                      /\ tree[y].exists /\ Len(tree[y].link) > k /\ Through(tree[y].link, k)
                             => tree[y].link[k + 1] # next_line
<1>. DEFINE a == here.link
            c == next_line
            b == Append(a, c)
<1>1. /\ pc = "tree" /\ k \in Nat \ {0} /\ k \in 1 .. k /\ c = stack[k].count + 1 /\ c \in Nat
      /\ stack[k].count \in Nat /\ a \in Seq(Nat) /\ here = tree[stack[k].node]
  <2>1. pc = "tree" /\ here = tree[stack[k].node]
    BY LineRead
  <2>2. k \in Nat \ {0} /\ k \in 1 .. k /\ c = stack[k].count + 1
    BY <2>1, InTree
  <2>. QED  BY <2>1, <2>2, InTree
<1>2. Len(a) = k /\ \A i \in 1 .. k : a[i] = place(i)
  BY <1>1 DEF Inductive, Way, OnWay, Through
<1>. HIDE DEF a, c
<1>3. b \in Seq(Nat) /\ Len(b) = k + 1 /\ b[k + 1] = c /\ \A i \in 1 .. k : b[i] = a[i]
  <2>1. /\ b \in Seq(Nat) /\ Len(b) = Len(a) + 1 /\ b[Len(a) + 1] = c
        /\ \A i \in 1 .. Len(a) : b[i] = a[i]
    BY <1>1, AppendProperties
  <2>. HIDE DEF b
  <2>. QED  BY <1>2, <2>1
<1>. HIDE DEF b
<1>4. ASSUME NEW y \in Node, tree[y].exists, Len(tree[y].link) > k, Through(tree[y].link, k)
      PROVE  tree[y].link[k + 1] # c
  <2>1. tree[y].link[k + 1] <= stack[k].count
    BY <1>1, <1>4 DEF Inductive, Behind
  <2>. QED  BY <1>1, <2>1
<1>5. ASSUME NEW y \in Node, tree[y].exists, tree[y].link = b PROVE FALSE
  <2>1. Len(tree[y].link) > k /\ tree[y].link[k + 1] = c
    BY <1>1, <1>3, <1>5
  <2>2. Through(tree[y].link, k)
    BY <1>1, <1>2, <1>3, <1>5, SMTT(30) DEF Through
  <2>. QED  BY <1>4, <1>5, <2>1, <2>2
<1>. QED  BY <1>2, <1>3, <1>4, <1>5 DEF b, c, a

\* A tree of its own for the package that is read, and perhaps a call for it.
LEMMA DescendKeeps == Inductive /\ descend => Inductive'
<1>. SUFFICES ASSUME Inductive, descend PROVE Inductive'
  OBVIOUS
<1>0. PICK k, n, x, c, p, b : /\ k = Len(stack) /\ n = stack[k].node /\ x = line_read.id
                              /\ c = next_line /\ p = line_read.prio
                              /\ b = Append(here.link, next_line)
  OBVIOUS
<1>1. /\ Typed /\ Planted /\ Way /\ Behind /\ reading /\ pc = "tree" /\ stack # <<>>
      /\ returned = 0 /\ ~tree[x].exists
      /\ UNCHANGED <<packages, DEP_LEVEL, dep, returned, parentNode, pc, lost, moved>>
  BY <1>0 DEF Inductive, descend, reading, history, Typed
<1>2. /\ k \in Nat \ {0} /\ k \in 1 .. k /\ call = stack[k] /\ c = stack[k].count + 1
      /\ \A i \in 1 .. k : LET m == stack[i].node
                           IN  /\ m \in Node /\ stack[i].count \in Nat /\ stack[i].depth = i
                               /\ tree[m].exists /\ Len(tree[m].lines) \in Nat
      /\ tree[n].priolink \in Seq(Priority)
  <2>1. k \in 1 .. k
    BY <1>0, <1>1, InTree
  <2>. QED  BY <1>0, <1>1, <2>1, InTree
<1>3. /\ here = tree[n] /\ c \in 1 .. Len(tree[n].lines)
      /\ x \in Node /\ x # root /\ dep[x].exists /\ p \in Priority
      /\ tree[n].lines[c].id = x /\ tree[n].lines[c].prio = p
  <2>1. here = tree[n]
    BY <1>0, <1>1, LineRead
  <2>. QED  BY <1>0, <1>1, <2>1, LineRead DEF line_read
<1>4. /\ b \in Seq(Nat) /\ Len(b) = k + 1 /\ b[k + 1] = c
      /\ \A i \in 1 .. k : b[i] = place(i)
      /\ \A y \in Node : /\ tree[y].exists => tree[y].link # b
                         /\ tree[y].exists /\ Len(tree[y].link) > k
                                /\ Through(tree[y].link, k) => tree[y].link[k + 1] # c
  BY <1>0, <1>1, NewPlace
<1>5. dep[x].lines \in Seq(Line) /\ Len(dep[x].lines) \in Nat
      /\ \A i \in 1 .. Len(dep[x].lines) : dep[dep[x].lines[i].id].exists
  <2>1. dep[x].lines \in Seq(Line)
    BY <1>1, <1>3, FilesAre DEF Typed
  <2>2. \A i \in 1 .. Len(dep[x].lines) : dep[dep[x].lines[i].id].exists
    BY <1>1, <1>3 DEF Planted, Closed
  <2>. QED  BY <2>1, <2>2, LenProperties
<1>6. PICK T : /\ tree' = [tree EXCEPT ![x] = T]
               /\ T \in Trees /\ T.exists /\ T.link = b /\ T.lines = dep[x].lines
               /\ \/ stack' = read
                  \/ /\ stack' = Append(read, Frame(x, k + 1))
                     /\ T.priolink = Append(tree[n].priolink, p)
  <2>0. call.depth = k /\ here.link = tree[n].link /\ here.priolink = tree[n].priolink
    BY <1>2, <1>3
  <2>1. CASE dep[x].lines = <<>>
    <3>. DEFINE e == <<>>
                T == Tree(b, e, e)
    <3>1. tree' = [tree EXCEPT ![x] = T] /\ stack' = read
      BY <1>0, <2>1 DEF descend
    <3>2. e \in Seq(Priority) /\ e \in Seq(Line) /\ e = dep[x].lines
      BY <2>1, EmptySeq
    <3>. HIDE DEF e
    <3>3. T \in Trees /\ T.exists /\ T.link = b /\ T.lines = e
      BY <1>4, <3>2, TreesAre
    <3>. QED  BY <3>1, <3>2, <3>3
  <2>2. CASE dep[x].lines # <<>>
    <3>. DEFINE q == Append(tree[n].priolink, p)
                T == Tree(b, q, dep[x].lines)
    <3>1. tree' = [tree EXCEPT ![x] = T] /\ stack' = Append(read, Frame(x, k + 1))
      BY <1>0, <2>0, <2>2 DEF descend
    <3>2. q \in Seq(Priority)
      BY <1>2, <1>3
    <3>. HIDE DEF q
    <3>3. T \in Trees /\ T.exists /\ T.link = b /\ T.lines = dep[x].lines /\ T.priolink = q
      BY <1>4, <1>5, <3>2, TreesAre
    <3>. QED  BY <3>1, <3>3 DEF q
  <2>. QED  BY <2>1, <2>2
<1>7. /\ tree' \in [Node -> Trees] /\ tree'[x] = T
      /\ \A y \in Node : y # x => tree'[y] = tree[y]
  BY <1>1, <1>3, <1>6 DEF Typed
<1>8. /\ read \in Seq(Frames) /\ Len(read) = k
      /\ \A i \in 1 .. k : i # k => read[i] = stack[i]
      /\ \A i \in 1 .. k : read[i].node = stack[i].node /\ read[i].depth = i
      /\ read[k].count = c
  BY <1>0, <1>1, <1>2, Reads DEF Typed
<1>9. /\ Frame(x, k + 1) \in Frames /\ Frame(x, k + 1).node = x
      /\ Frame(x, k + 1).depth = k + 1 /\ Frame(x, k + 1).count = 0
  BY <1>2, <1>3, NewCall
<1>10. /\ stack' \in Seq(Frames) /\ stack' # <<>> /\ Len(stack') \in Nat /\ k <= Len(stack')
       /\ \A i \in 1 .. k : stack'[i] = read[i]
       /\ \/ Len(stack') = k
          \/ /\ Len(stack') = k + 1 /\ stack'[k + 1] = Frame(x, k + 1)
             /\ T.priolink = Append(tree[n].priolink, p)
  <2>1. CASE stack' = read
    <3>1. stack' # <<>>
      BY <1>2, <1>8, <2>1
    <3>. QED  BY <1>2, <1>8, <2>1, <3>1
  <2>2. CASE /\ stack' = Append(read, Frame(x, k + 1))
             /\ T.priolink = Append(tree[n].priolink, p)
    <3>1. /\ stack' \in Seq(Frames) /\ Len(stack') = k + 1 /\ stack' # <<>>
          /\ \A i \in 1 .. k : stack'[i] = read[i]
          /\ stack'[k + 1] = Frame(x, k + 1)
      BY <1>8, <1>9, <2>2, AppendProperties
    <3>. QED  BY <1>2, <2>2, <3>1
  <2>. QED  BY <1>6, <2>1, <2>2
<1>11. Typed'
  <2>1. ASSUME NEW i \in 1 .. Len(stack') PROVE stack'[i].depth = i
    <3>1. i \in 1 .. k \/ (i = k + 1 /\ Len(stack') = k + 1)
      BY <1>2, <1>10
    <3>2. CASE i \in 1 .. k
      BY <1>8, <1>10, <3>2
    <3>3. CASE i = k + 1 /\ Len(stack') = k + 1
      <4>1. stack'[k + 1] = Frame(x, k + 1)
        BY <1>2, <1>10, <3>3
      <4>. QED  BY <1>9, <3>3, <4>1
    <3>. QED  BY <3>1, <3>2, <3>3
  <2>. QED  BY <1>1, <1>7, <1>10, <2>1 DEF Typed
<1>12. Planted'
  <2>1. root \in Node /\ tree[root].exists /\ tree[root].link = <<1>>
    BY <1>1, Names DEF Planted
  <2>2. tree'[root] = tree[root]
    BY <1>3, <1>7, <2>1
  <2>3. Len(b) >= 1 /\ b[1] = 1 /\ Len(b) >= 2
    <3>1. b[1] = place(1) /\ place(1) = 1
      BY <1>2, <1>4 DEF place
    <3>. QED  BY <1>2, <1>4, <3>1
  <2>4. ASSUME NEW y \in Node, tree'[y].exists
        PROVE  /\ dep[y].exists
               /\ Len(tree'[y].link) >= 1 /\ tree'[y].link[1] = 1
               /\ y # root => Len(tree'[y].link) >= 2
               /\ \A i \in 1 .. Len(tree'[y].lines) : dep[tree'[y].lines[i].id].exists
    <3>1. CASE y = x
      BY <1>3, <1>5, <1>6, <1>7, <2>3, <3>1
    <3>2. CASE y # x
      BY <1>1, <1>7, <2>4, <3>2 DEF Planted
    <3>. QED  BY <3>1, <3>2
  <2>5. LinksAreUnique'
    <3>1. ASSUME NEW y \in Node, NEW z \in Node, tree'[y].exists, tree'[z].exists,
                 tree'[y].link = tree'[z].link
          PROVE  y = z
      <4>1. CASE y = x /\ z # x
        BY <1>4, <1>6, <1>7, <3>1, <4>1
      <4>2. CASE y # x /\ z = x
        BY <1>4, <1>6, <1>7, <3>1, <4>2
      <4>3. CASE y # x /\ z # x
        BY <1>1, <1>7, <3>1, <4>3 DEF Planted, LinksAreUnique
      <4>. QED  BY <4>1, <4>2, <4>3
    <3>. QED  BY <3>1 DEF LinksAreUnique
  <2>. QED  BY <1>1, <2>1, <2>2, <2>4, <2>5 DEF Planted
<1>13. /\ \A i \in 1 .. k - 1 : stack'[i].count = stack[i].count
       /\ \A i \in 1 .. k : stack'[i].node = stack[i].node
       /\ stack'[k].count = c /\ stack[k].count <= stack'[k].count
       /\ \A i \in 1 .. k : tree'[stack[i].node] = tree[stack[i].node]
  <2>1. \A i \in 1 .. k - 1 : i \in 1 .. k /\ i # k
    BY <1>2
  <2>2. \A i \in 1 .. k : stack[i].node \in Node /\ stack[i].node # x
    BY <1>1, <1>2
  <2>3. \A i \in 1 .. k : tree'[stack[i].node] = tree[stack[i].node]
    BY <1>7, <2>2
  <2>4. \A i \in 1 .. k : stack'[i].node = stack[i].node
    BY <1>8, <1>10
  <2>5. \A i \in 1 .. k - 1 : stack'[i].count = stack[i].count
    BY <1>8, <1>10, <2>1
  <2>6. stack'[k].count = c /\ stack[k].count <= stack'[k].count
    BY <1>2, <1>8, <1>10
  <2>. QED  BY <2>3, <2>4, <2>5, <2>6
<1>14. \A i \in 1 .. k : place(i)' = place(i) /\ \A link : Through(link, i)' <=> Through(link, i)
  BY <1>2, <1>13, Places
<1>15. /\ stack'[1].node = root
       /\ \A i \in 1 .. k : OnWay(i)'
       /\ \A i \in 1 .. k - 1 : stack'[i].count >= 1 /\ called(i)'.id = stack'[i + 1].node
  <2>1. \A i \in 1 .. k : LET t == tree[stack[i].node]
                              u == tree'[stack[i].node]
                          IN  /\ u.exists /\ u.link = t.link /\ u.priolink = t.priolink
                              /\ Len(u.lines) \in Nat /\ Len(t.lines) <= Len(u.lines)
                              /\ \A j \in 1 .. Len(t.lines) : u.lines[j] = t.lines[j]
    BY <1>2, <1>13, SMTT(30)
  <2>2. stack'[k].count <= Len(tree'[stack[k].node].lines)
    <3>1. tree'[stack[k].node] = tree[n]
      BY <1>0, <1>2, <1>13
    <3>. QED  BY <1>3, <1>13, <3>1
  <2>3. k \in 1 .. Len(stack)
    BY <1>0, <1>2
  <2>. QED  BY <1>1, <1>10, <1>13, <2>1, <2>2, <2>3, WayKept
<1>16. Way'
  <2>1. CASE Len(stack') = k
    BY <1>15, <2>1 DEF Way
  <2>2. CASE /\ Len(stack') = k + 1 /\ stack'[k + 1] = Frame(x, k + 1)
             /\ T.priolink = Append(tree[n].priolink, p)
    <3>1. called(k)' = tree[n].lines[c]
      BY <1>0, <1>2, <1>13 DEF called
    <3>2. \A m \in 1 .. k : b[m] = place(m)'
      BY <1>4, <1>14
    <3>3. \A m : m = k + 1 => place(m)' = c
      <4>. SUFFICES ASSUME NEW m, m = k + 1 PROVE place(m)' = c
        OBVIOUS
      <4>1. m # 1 /\ m - 1 = k
        BY <1>2
      <4>2. place(m)' = IF m = 1 THEN 1 ELSE stack'[m - 1].count
        BY DEF place
      <4>. QED  BY <1>13, <4>1, <4>2
    <3>4. Through(tree[x].link, k + 1)'
      <4>1. \A m \in 1 .. k + 1 : m \in 1 .. k \/ m = k + 1
        BY <1>2
      <4>2. \A m \in 1 .. k + 1 : b[m] = place(m)'
        BY <1>4, <3>2, <3>3, <4>1
      <4>3. tree'[x].link = b /\ Len(b) >= k + 1
        BY <1>2, <1>4, <1>6, <1>7
      <4>. QED  BY <4>2, <4>3 DEF Through
    <3>5. /\ Len(T.priolink) = k + 1
          /\ \A m \in 2 .. k + 1 : T.priolink[m] = called(m - 1)'.prio
      <4>1. Len(tree[n].priolink) = k /\ \A m \in 2 .. k : tree[n].priolink[m] = called(m - 1)'.prio
        <5>1. OnWay(k)' /\ stack'[k].node = n /\ tree'[n] = tree[n]
          BY <1>0, <1>2, <1>13, <1>15
        <5>. QED  BY <5>1 DEF OnWay
      <4>. DEFINE q == tree[n].priolink
                  r == T.priolink
      <4>2. q \in Seq(Priority) /\ p \in Priority /\ r = Append(q, p) /\ Len(q) = k
        BY <1>2, <1>3, <2>2, <4>1
      <4>. HIDE DEF q, r
      <4>3. Len(r) = k + 1 /\ r[k + 1] = p /\ \A m \in 1 .. k : r[m] = q[m]
        BY <4>2, AppendProperties
      <4>4. \A m \in 2 .. k + 1 : (m \in 2 .. k /\ m \in 1 .. k) \/ (m = k + 1 /\ m - 1 = k)
        BY <1>2
      <4>5. \A m \in 2 .. k : q[m] = called(m - 1)'.prio
        BY <4>1 DEF q
      <4>6. called(k)'.prio = p
        BY <1>3, <3>1
      <4>7. \A m \in 2 .. k + 1 : r[m] = called(m - 1)'.prio
        BY <4>3, <4>4, <4>5, <4>6
      <4>. QED  BY <4>3, <4>7 DEF r
    <3>6. OnWay(k + 1)'
      <4>1. /\ stack'[k + 1].node = x /\ stack'[k + 1].count = 0 /\ tree'[x] = T
            /\ T.exists /\ T.link = b /\ T.lines = dep[x].lines
        BY <1>6, <1>7, <1>9, <2>2
      <4>2. 0 <= Len(T.lines) /\ Len(T.link) = k + 1
        BY <1>4, <1>5, <4>1
      <4>. QED  BY <3>4, <3>5, <4>1, <4>2 DEF OnWay
    <3>7. stack'[k].count >= 1 /\ called(k)'.id = stack'[k + 1].node
      <4>1. stack'[k].count >= 1
        BY <1>2, <1>13
      <4>2. called(k)'.id = x
        BY <1>3, <3>1
      <4>3. stack'[k + 1].node = x
        BY <1>9, <2>2
      <4>. QED  BY <4>1, <4>2, <4>3
    <3>8. /\ \A i \in 1 .. Len(stack') : i \in 1 .. k \/ i = k + 1
          /\ \A i \in 1 .. Len(stack') - 1 : i \in 1 .. k - 1 \/ i = k
      BY <1>2, <2>2
    <3>. QED  BY <1>15, <3>6, <3>7, <3>8 DEF Way
  <2>. QED  BY <1>10, <2>1, <2>2
<1>17. Behind'
  <2>1. ASSUME NEW i \in 1 .. Len(stack'), NEW y \in Node, tree'[y].exists,
               Len(tree'[y].link) > i, Through(tree[y].link, i)'
        PROVE  tree'[y].link[i + 1] <= stack'[i].count
    <3>1. CASE i \in 1 .. k /\ y # x
      <4>1. tree[y].exists /\ tree'[y].link = tree[y].link
        BY <1>7, <2>1, <3>1
      <4>2. stack'[k].count \in Nat /\ k \in 1 .. Len(stack)
        BY <1>0, <1>2, <1>13
      <4>. QED  BY <1>1, <1>10, <1>13, <2>1, <3>1, <4>1, <4>2, BehindKept
    <3>2. CASE i \in 1 .. k /\ y = x
      <4>1. tree'[y].link = b
        BY <1>6, <1>7, <3>2
      <4>2. CASE i = k
        BY <1>2, <1>4, <1>13, <4>1, <4>2
      <4>3. CASE i # k
        <5>1. i \in 1 .. k - 1 /\ i + 1 \in 1 .. k /\ i + 1 # 1 /\ i + 1 - 1 = i
          BY <1>2, <3>2, <4>3
        <5>2. b[i + 1] = stack[i].count
          BY <1>4, <5>1 DEF place
        <5>3. stack'[i].count = stack[i].count /\ stack[i].count \in Nat
          BY <1>2, <1>13, <3>2, <5>1
        <5>. QED  BY <4>1, <5>2, <5>3
      <4>. QED  BY <4>2, <4>3
    <3>3. CASE i \notin 1 .. k
      <4>1. i = k + 1
        BY <1>2, <1>10, <3>3
      <4>2. y # x
        BY <1>2, <1>4, <1>6, <1>7, <2>1, <4>1
      <4>3. tree[y].exists /\ tree'[y].link = tree[y].link
        BY <1>7, <2>1, <4>2
      <4>4. Len(tree[y].link) \in Nat
        <5>1. tree[y].link \in Seq(Nat)
          BY <1>1, <4>3, TreesAre DEF Typed
        <5>. QED  BY <5>1, LenProperties
      <4>5. Len(tree[y].link) > k
        BY <1>2, <2>1, <4>1, <4>3, <4>4
      <4>6. \A m : m = k + 1 => tree[y].link[m] = place(m)'
        <5>1. k + 1 \in 1 .. k + 1
          BY <1>2
        <5>. QED  BY <2>1, <4>1, <4>3, <5>1 DEF Through
      <4>7. \A m : m = k + 1 => place(m)' = c
        <5>. SUFFICES ASSUME NEW m, m = k + 1 PROVE place(m)' = c
          OBVIOUS
        <5>1. m # 1 /\ m - 1 = k
          BY <1>2
        <5>2. place(m)' = IF m = 1 THEN 1 ELSE stack'[m - 1].count
          BY DEF place
        <5>. QED  BY <1>13, <5>1, <5>2
      <4>8. Through(tree[y].link, k)
        <5>1. \A m \in 1 .. k : m \in 1 .. k + 1
          BY <1>2
        <5>2. \A m \in 1 .. k : tree[y].link[m] = place(m)'
          BY <2>1, <4>1, <4>3, <5>1 DEF Through
        <5>3. Len(tree[y].link) >= k
          BY <1>2, <4>4, <4>5
        <5>. QED  BY <1>14, <5>2, <5>3 DEF Through
      <4>. QED  BY <1>4, <4>3, <4>5, <4>6, <4>7, <4>8
    <3>. QED  BY <3>1, <3>2, <3>3
  <2>. QED  BY <2>1 DEF Behind
<1>. QED
  BY <1>1, <1>11, <1>12, <1>16, <1>17 DEF Inductive, Searching, Cleaning, Returning

\* What is erased with the package that was called for is below the line that
\* has been read.
LEMMA ErasedBelow ==
    ASSUME Inductive, pc = "tree", returned # 0, NEW k, k = Len(stack)
    PROVE  Erased(called(k).id) \subseteq
               {y \in Node : tree[y].exists /\ Through(tree[y].link, k + 1)}
<1>. DEFINE x == called(k).id
            C == {y \in Node : tree[y].exists /\ Through(tree[y].link, k + 1)}
<1>1. k \in Nat \ {0} /\ k \in 1 .. k /\ tree \in [Node -> Trees]
  BY InTree DEF Inductive, Typed
<1>2. x \in C
  <2>1. tree[x].exists /\ Through(tree[x].link, k + 1) /\ stack[k].count >= 1
    BY DEF Inductive, Returning
  <2>2. x \in Node
    <3>. DEFINE t == tree[stack[k].node]
    <3>1. t.lines \in Seq(Line) /\ Len(t.lines) \in Nat /\ stack[k].count \in Nat
      BY <1>1, InTree
    <3>2. stack[k].count <= Len(t.lines)
      BY <1>1 DEF Inductive, Way, OnWay
    <3>3. called(k) \in Line
      <4>1. called(k) = t.lines[stack[k].count]
        BY DEF called
      <4>. HIDE DEF t
      <4>2. stack[k].count \in 1 .. Len(t.lines)
        BY <2>1, <3>1, <3>2
      <4>. QED  BY <3>1, <4>1, <4>2, ElementOfSeq
    <3>. QED  BY <3>3, Names
  <2>. QED  BY <2>1, <2>2
<1>3. ASSUME NEW y \in C, NEW z \in Below(y) PROVE z \in C
  <2>1. /\ y \in Node /\ tree[y].exists /\ Through(tree[y].link, k + 1)
    OBVIOUS
  <2>2. PICK l \in ToSet(tree[y].lines) :
           z = l.id /\ tree[z].exists /\ IsStrictPrefix(tree[y].link, tree[z].link)
    BY <1>3 DEF Below
  <2>3. z \in Node
    <3>1. tree[y].lines \in Seq(Line)
      BY <1>1, <2>1, TreesAre
    <3>2. PICK i \in DOMAIN tree[y].lines : l = tree[y].lines[i]
      BY <2>2 DEF ToSet
    <3>3. l \in Line
      BY <3>1, <3>2, LenProperties, ElementOfSeq
    <3>. QED  BY <2>2, <3>3, Names
  <2>. DEFINE a == tree[y].link
              b == tree[z].link
              m == Len(a)
  <2>4. a \in Seq(Nat) /\ b \in Seq(Nat) /\ m \in Nat /\ Len(b) \in Nat
    <3>1. a \in Seq(Nat) /\ b \in Seq(Nat)
      BY <1>1, <2>1, <2>2, <2>3, TreesAre
    <3>. HIDE DEF a, b
    <3>. QED  BY <3>1, LenProperties
  <2>5. m <= Len(b) /\ SubSeq(a, 1, m) = SubSeq(b, 1, m)
    BY <2>2 DEF IsStrictPrefix, IsPrefix
  <2>6. m >= k + 1 /\ \A i \in 1 .. k + 1 : a[i] = place(i)
    BY <2>1 DEF Through
  <2>7. \A i \in 1 .. m : a[i] = b[i]
    <3>. HIDE DEF a, b
    <3>1. m <= Len(a)
      BY <2>4
    <3>2. \A i \in 1 .. m : SubSeq(a, 1, m)[i] = a[i]
      <4>. HIDE DEF m
      <4>. QED  BY <2>4, <3>1, Beginnings
    <3>3. \A i \in 1 .. m : SubSeq(b, 1, m)[i] = b[i]
      <4>. HIDE DEF m
      <4>. QED  BY <2>4, <2>5, Beginnings
    <3>. QED  BY <2>5, <3>2, <3>3
  <2>8. \A i \in 1 .. k + 1 : b[i] = place(i)
    <3>. HIDE DEF a, b, m
    <3>1. \A i \in 1 .. k + 1 : i \in 1 .. m
      BY <1>1, <2>4, <2>6
    <3>. QED  BY <2>6, <2>7, <3>1
  <2>9. Len(b) >= k + 1
    <3>. HIDE DEF a, b, m
    <3>. QED  BY <1>1, <2>4, <2>5, <2>6
  <2>10. Through(tree[z].link, k + 1)
    BY <2>8, <2>9 DEF Through
  <2>. QED  BY <2>2, <2>3, <2>10
<1>. HIDE DEF x, C
<1>4. Erased(x) \subseteq C
  <2>1. \A y \in C : Below(y) \subseteq C
    BY <1>3
  <2>. QED  BY <1>2, <2>1, ErasedInside
<1>. QED  BY <1>4 DEF x, C

\* A dependency is flagged when it has been called for.
LEMMA FlagsCalled ==
    ASSUME stack \in Seq(Frames), stack # <<>>, NEW x \in Name
    PROVE  LET k == Len(stack)
               s == [stack EXCEPT ![Len(stack)].remove = Append(@, x)]
           IN  /\ s \in Seq(Frames) /\ Len(s) = k
               /\ \A i \in 1 .. k : /\ s[i].node = stack[i].node /\ s[i].depth = stack[i].depth
                                    /\ s[i].count = stack[i].count
               /\ \A i \in 1 .. k : i # k => s[i] = stack[i]
               /\ s[k].remove = Append(stack[k].remove, x)
<1>. DEFINE k == Len(stack)
            r == Append(stack[k].remove, x)
            new == [stack[k] EXCEPT !.remove = r]
            s == [stack EXCEPT ![Len(stack)].remove = Append(@, x)]
<1>1. k \in 1 .. k /\ stack[k] \in Frames /\ stack[k].remove \in Seq(Name)
  BY Calls
<1>2. r \in Seq(Name)
  BY <1>1
<1>3. /\ new \in Frames /\ new.node = stack[k].node /\ new.depth = stack[k].depth
      /\ new.count = stack[k].count /\ new.remove = r
  <2>. HIDE DEF r
  <2>. QED  BY <1>1, <1>2 DEF Frames
<1>4. s = [stack EXCEPT ![k] = new]
  BY <1>1
<1>5. /\ s \in Seq(Frames) /\ Len(s) = k
      /\ \A j \in 1 .. k : s[j] = IF j = k THEN new ELSE stack[j]
  <2>. HIDE DEF new, k, s
  <2>1. stack \in Seq(Frames) /\ k \in 1 .. Len(stack)
    BY <1>1 DEF k
  <2>2. Len(stack) = k
    BY DEF k
  <2>. QED  BY <1>3, <1>4, <2>1, <2>2, ExceptSeq
<1>6. /\ \A i \in 1 .. k : i # k => s[i] = stack[i]
      /\ s[k].remove = r
  BY <1>1, <1>3, <1>5
<1>. HIDE DEF new, s
<1>7. \A i \in 1 .. k : /\ s[i].node = stack[i].node /\ s[i].depth = stack[i].depth
                        /\ s[i].count = stack[i].count
  BY <1>3, <1>5
<1>. QED  BY <1>5, <1>6, <1>7 DEF s

\* A call that gets a priority back has called for a name, by a line of its file,
\* and no tree of an active call is erased for that.
LEMMA LineCalled ==
    ASSUME Inductive, pc = "tree", returned # 0, NEW k, k = Len(stack), NEW line, line = called(k)
    PROVE  /\ line \in Line /\ line.id \in Name /\ line.id \in Node /\ dep[line.id].exists
           /\ \A i \in 1 .. k : stack[i].node \notin Erased(line.id)
<1>0. PICK n : n = stack[k].node
  OBVIOUS
<1>1. Typed /\ Planted /\ Way /\ Returning
  BY DEF Inductive
<1>2. /\ k \in Nat \ {0} /\ k \in 1 .. k
      /\ \A i \in 1 .. k : LET m == stack[i].node
                           IN  /\ m \in Node /\ stack[i].count \in Nat
                               /\ tree[m].exists
                               /\ tree[m].lines \in Seq(Line) /\ Len(tree[m].lines) \in Nat
  <2>1. k \in Nat \ {0} /\ k \in 1 .. k
    BY <1>1, InTree
  <2>. QED  BY <1>1, <2>1, InTree
<1>3. line \in Line /\ line.id \in Name /\ line.id \in Node /\ dep[line.id].exists
  <2>. DEFINE t == tree[n]
  <2>1. t.lines \in Seq(Line) /\ Len(t.lines) \in Nat /\ stack[k].count \in Nat
    BY <1>0, <1>2
  <2>2. stack[k].count <= Len(t.lines)
    BY <1>0, <1>1, <1>2 DEF Way, OnWay
  <2>3. stack[k].count >= 1
    BY <1>0, <1>1 DEF Returning
  <2>4. line = t.lines[stack[k].count]
    BY <1>0 DEF called
  <2>. HIDE DEF t
  <2>5. stack[k].count \in 1 .. Len(t.lines)
    BY <2>1, <2>2, <2>3
  <2>6. line \in Line
    BY <2>1, <2>4, <2>5, ElementOfSeq
  <2>7. dep[line.id].exists
    <3>1. n \in Node /\ tree[n].exists
      BY <1>0, <1>2
    <3>2. \A i \in 1 .. Len(tree[n].lines) : dep[tree[n].lines[i].id].exists
      BY <1>1, <3>1 DEF Planted
    <3>. QED  BY <2>4, <2>5, <3>2 DEF t
  <2>. QED  BY <2>6, <2>7, Names
<1>4. \A y \in Erased(line.id) : tree[y].exists /\ Len(tree[y].link) >= k + 1
  BY <1>1, ErasedBelow DEF Through
<1>5. \A i \in 1 .. k : Len(tree[stack[i].node].link) = i
  BY <1>1 DEF Way, OnWay
<1>6. \A i \in 1 .. k : stack[i].node \notin Erased(line.id)
  BY <1>2, <1>4, <1>5
<1>. QED  BY <1>3, <1>6

\* The weakest edge goes, with what has been planted below it, and the dependency
\* is put off to a file that is still being read.
LEMMA PutOffKeeps == Inductive /\ put_off => Inductive'
<1>. SUFFICES ASSUME Inductive, put_off PROVE Inductive'
  OBVIOUS
<1>0. PICK k, n, line : k = Len(stack) /\ n = stack[k].node /\ line = called(k)
  OBVIOUS
<1>. DEFINE kept == [y \in Node |-> IF y \in Erased(line.id) THEN NoFile ELSE tree[y]]
            cut  == [dep EXCEPT ![n].lines = without(@, line.id)]
            lone == Cardinality(parentNode) = 1
            q    == CHOOSE y \in parentNode : TRUE
<1>1. /\ Typed /\ Planted /\ Way /\ Returning /\ pc = "tree" /\ stack # <<>>
      /\ returned \in Priority /\ returned # 0
  BY DEF Inductive, put_off, Typed, Priority
<1>2. /\ k \in Nat \ {0} /\ k \in 1 .. k /\ call = stack[k]
      /\ \A i \in 1 .. k : LET m == stack[i].node
                           IN  /\ m \in Node /\ stack[i].count \in Nat /\ stack[i].depth = i
                               /\ tree[m].exists /\ dep[m].exists
                               /\ tree[m].lines \in Seq(Line) /\ Len(tree[m].lines) \in Nat
  <2>1. k \in Nat \ {0} /\ k \in 1 .. k /\ call = stack[k]
    BY <1>0, <1>1, InTree
  <2>. QED  BY <1>0, <1>1, <2>1, InTree
<1>3. line_called = line
  BY <1>0, <1>2 DEF line_called, called, here
<1>4. /\ lone => /\ tree' = [kept EXCEPT ![q].lines = Append(@, line)]
                 /\ dep' = [cut EXCEPT ![q].lines = Append(@, line)]
                 /\ UNCHANGED lost
      /\ ~lone => tree' = kept /\ dep' = cut /\ lost' = lost \cup {line.id}
      /\ stack' = [stack EXCEPT ![Len(stack)].remove = Append(@, line.id)]
      /\ returned' = 0 /\ moved' = moved + 1
      /\ UNCHANGED <<packages, DEP_LEVEL, parentNode, pc>>
  BY <1>0, <1>2, <1>3 DEF put_off
<1>5. PICK a \in 1 .. k : stack[a].node \in parentNode
  BY <1>0, <1>1 DEF Returning
<1>6. line \in Line /\ line.id \in Name /\ line.id \in Node /\ dep[line.id].exists
  BY <1>0, <1>1, LineCalled
<1>9. \A i \in 1 .. k : stack[i].node \notin Erased(line.id)
  BY <1>0, <1>1, LineCalled
<1>10. /\ kept \in [Node -> Trees]
       /\ \A y \in Node : kept[y].exists => kept[y] = tree[y]
       /\ \A i \in 1 .. k : kept[stack[i].node] = tree[stack[i].node]
  <2>1. kept \in [Node -> Trees]
    BY <1>1, FilesAre DEF Typed
  <2>2. \A y \in Node : kept[y].exists => kept[y] = tree[y]
    BY FilesAre
  <2>3. \A i \in 1 .. k : kept[stack[i].node] = tree[stack[i].node]
    BY <1>2, <1>9
  <2>. QED  BY <2>1, <2>2, <2>3
<1>11. /\ cut \in [Node -> Files] /\ Closed(cut)
       /\ \A y \in Node : cut[y].exists <=> dep[y].exists
  <2>1. n \in Node /\ dep[n].exists
    BY <1>0, <1>2
  <2>2. PICK x : x = line.id
    OBVIOUS
  <2>3. cut = [dep EXCEPT ![n].lines = without(@, x)]
    BY <2>2
  <2>. HIDE DEF cut
  <2>. QED  BY <1>1, <2>1, <2>3, LinesLead
<1>12. lone => q = stack[a].node
  <2>1. IsFiniteSet(parentNode)
    BY <1>1, Names, FS_Subset DEF Typed
  <2>2. lone => \E y : parentNode = {y}
    BY <2>1, FS_Singleton
  <2>. QED  BY <1>5, <2>2
<1>. HIDE DEF kept, cut, lone, q
<1>13. /\ tree' \in [Node -> Trees]
       /\ \A y \in Node : tree'[y].exists =>
              /\ tree[y].exists /\ tree'[y].link = tree[y].link
              /\ \A i \in 1 .. Len(tree'[y].lines) : dep[tree'[y].lines[i].id].exists
       /\ \A i \in 1 .. k : LET t == tree[stack[i].node]
                                u == tree'[stack[i].node]
                            IN  /\ u.exists /\ u.link = t.link /\ u.priolink = t.priolink
                                /\ Len(u.lines) \in Nat /\ Len(t.lines) <= Len(u.lines)
                                /\ \A j \in 1 .. Len(t.lines) : u.lines[j] = t.lines[j]
  <2>1. CASE ~lone
    <3>1. tree' = kept
      BY <1>4, <2>1
    <3>. QED  BY <1>1, <1>2, <1>10, <3>1 DEF Planted
  <2>2. CASE lone
    <3>0. q \in Node /\ tree[q].exists /\ tree[q].lines \in Seq(Line) /\ kept[q] = tree[q]
          /\ tree[q] \in Trees
      BY <1>1, <1>2, <1>10, <1>12, <2>2 DEF Typed
    <3>. DEFINE s == tree[q].lines
                l == Append(s, line)
                t == [kept[q] EXCEPT !.lines = l]
    <3>1. tree' = [kept EXCEPT ![q] = t]
      BY <1>4, <2>2, <3>0
    <3>2. /\ l \in Seq(Line) /\ Len(s) \in Nat /\ Len(l) = Len(s) + 1 /\ l[Len(s) + 1] = line
          /\ \A j \in 1 .. Len(s) : l[j] = s[j]
      <4>1. s \in Seq(Line)
        BY <3>0
      <4>. HIDE DEF s
      <4>. QED  BY <1>6, <4>1, LenProperties, AppendProperties
    <3>3. \A i \in 1 .. Len(s) : dep[s[i].id].exists
      BY <1>1, <3>0 DEF Planted
    <3>. HIDE DEF s, l
    <3>4. \A i \in 1 .. Len(l) : dep[l[i].id].exists
      <4>1. \A i \in 1 .. Len(l) : i \in 1 .. Len(s) \/ i = Len(s) + 1
        BY <3>2
      <4>. QED  BY <1>6, <3>2, <3>3, <4>1
    <3>5. /\ t \in Trees /\ t.exists /\ t.link = tree[q].link
          /\ t.priolink = tree[q].priolink /\ t.lines = l
      BY <3>0, <3>2, TreeWithLines
    <3>. HIDE DEF t
    <3>6. /\ tree' \in [Node -> Trees]
          /\ \A y \in Node : tree'[y] = IF y = q THEN t ELSE kept[y]
      BY <1>10, <3>0, <3>1, <3>5
    <3>7. ASSUME NEW y \in Node, tree'[y].exists
          PROVE  /\ tree[y].exists /\ tree'[y].link = tree[y].link
                 /\ \A i \in 1 .. Len(tree'[y].lines) : dep[tree'[y].lines[i].id].exists
      <4>1. CASE y = q
        BY <3>0, <3>4, <3>5, <3>6, <4>1
      <4>2. CASE y # q
        BY <1>1, <1>10, <3>6, <3>7, <4>2 DEF Planted
      <4>. QED  BY <4>1, <4>2
    <3>8. ASSUME NEW i \in 1 .. k
          PROVE  LET u == tree'[stack[i].node]
                     o == tree[stack[i].node]
                 IN  /\ u.exists /\ u.link = o.link /\ u.priolink = o.priolink
                     /\ Len(u.lines) \in Nat /\ Len(o.lines) <= Len(u.lines)
                     /\ \A j \in 1 .. Len(o.lines) : u.lines[j] = o.lines[j]
      <4>1. CASE stack[i].node = q
        <5>1. tree'[stack[i].node] = t /\ tree[stack[i].node].lines = s
          BY <3>0, <3>6, <4>1 DEF s
        <5>2. Len(l) \in Nat /\ Len(s) <= Len(l)
          BY <3>2
        <5>. QED  BY <3>2, <3>5, <4>1, <5>1, <5>2
      <4>2. CASE stack[i].node # q
        <5>1. tree'[stack[i].node] = tree[stack[i].node]
          BY <1>2, <1>10, <3>6, <4>2
        <5>. QED  BY <1>2, <5>1
      <4>. QED  BY <4>1, <4>2
    <3>. QED  BY <3>6, <3>7, <3>8
  <2>. QED  BY <2>1, <2>2
<1>14. /\ dep' \in [Node -> Files] /\ Closed(dep')
       /\ \A y \in Node : dep'[y].exists <=> dep[y].exists
  <2>1. CASE ~lone
    BY <1>4, <1>11, <2>1
  <2>2. CASE lone
    <3>. DEFINE s == cut[q].lines
                l == Append(s, line)
    <3>1. q \in Node /\ cut[q].exists
      BY <1>2, <1>11, <1>12, <2>2
    <3>2. s \in Seq(Line)
      BY <1>11, <3>1, FilesAre
    <3>3. dep' = [cut EXCEPT ![q].lines = l]
      BY <1>4, <2>2
    <3>4. \A i \in 1 .. Len(s) : cut[s[i].id].exists
      BY <1>11, <3>1 DEF Closed
    <3>5. cut[line.id].exists
      BY <1>6, <1>11
    <3>. HIDE DEF s
    <3>6. /\ l \in Seq(Line) /\ Len(s) \in Nat /\ Len(l) = Len(s) + 1 /\ l[Len(s) + 1] = line
          /\ \A j \in 1 .. Len(s) : l[j] = s[j]
      BY <1>6, <3>2, LenProperties, AppendProperties
    <3>. HIDE DEF l
    <3>7. \A i \in 1 .. Len(l) : cut[l[i].id].exists
      <4>1. \A i \in 1 .. Len(l) : i \in 1 .. Len(s) \/ i = Len(s) + 1
        BY <3>6
      <4>. QED  BY <3>4, <3>5, <3>6, <4>1
    <3>8. /\ dep' \in [Node -> Files] /\ Closed(dep')
          /\ \A y \in Node : dep'[y].exists <=> cut[y].exists
      BY <1>11, <3>1, <3>3, <3>6, <3>7, Rewritten
    <3>. QED  BY <1>11, <3>8
  <2>. QED  BY <2>1, <2>2
<1>15. /\ stack' \in Seq(Frames) /\ Len(stack') = k
       /\ \A i \in 1 .. k : /\ stack'[i].node = stack[i].node /\ stack'[i].depth = stack[i].depth
                            /\ stack'[i].count = stack[i].count
  <2>1. stack \in Seq(Frames) /\ stack # <<>> /\ line.id \in Name
    BY <1>1, <1>6 DEF Typed
  <2>2. stack' = [stack EXCEPT ![Len(stack)].remove = Append(@, line.id)]
    BY <1>4
  <2>. QED  BY <1>0, <2>1, <2>2, FlagsCalled, ZenonT(60)
<1>16. stack' # <<>> /\ \A i \in 1 .. Len(stack') : stack'[i].depth = i
  BY <1>2, <1>15
<1>17. lost' \in SUBSET Node
  BY <1>1, <1>4, <1>6 DEF Typed
<1>18. Typed'
  BY <1>1, <1>4, <1>13, <1>14, <1>15, <1>16, <1>17 DEF Typed
<1>19. Planted'
  <2>1. root \in Node /\ tree[root].exists /\ tree[root].link = <<1>> /\ stack[1].node = root
    BY <1>1, Names DEF Planted, Way
  <2>2. tree'[root].exists
    <3>1. 1 \in 1 .. k
      BY <1>2
    <3>. QED  BY <1>13, <2>1, <3>1
  <2>3. \A y \in Node : tree'[y].exists =>
           /\ dep'[y].exists
           /\ Len(tree'[y].link) >= 1 /\ tree'[y].link[1] = 1
           /\ y # root => Len(tree'[y].link) >= 2
    BY <1>1, <1>13, <1>14 DEF Planted
  <2>4. ASSUME NEW y \in Node, tree'[y].exists, NEW i \in 1 .. Len(tree'[y].lines)
        PROVE  dep'[tree'[y].lines[i].id].exists
    <3>1. tree'[y].lines \in Seq(Line)
      BY <1>13, <2>4, TreesAre
    <3>2. tree'[y].lines[i].id \in Node
      BY <3>1, ElementOfSeq, Names
    <3>. QED  BY <1>13, <1>14, <2>4, <3>2
  <2>5. LinksAreUnique'
    BY <1>1, <1>13 DEF Planted, LinksAreUnique
  <2>. QED  BY <1>13, <1>14, <2>1, <2>2, <2>3, <2>4, <2>5 DEF Planted
<1>20. Way'
  <2>1. stack'[k].count <= Len(tree'[stack[k].node].lines)
    <3>. DEFINE s == tree[stack[k].node].lines
                u == tree'[stack[k].node].lines
    <3>1. Len(s) \in Nat /\ Len(u) \in Nat /\ Len(s) <= Len(u)
      BY <1>2, <1>13
    <3>2. stack[k].count <= Len(s) /\ stack'[k].count = stack[k].count /\ stack[k].count \in Nat
      BY <1>0, <1>1, <1>2, <1>15 DEF Way, OnWay
    <3>. HIDE DEF s, u
    <3>3. stack'[k].count <= Len(u)
      BY <3>1, <3>2
    <3>. QED  BY <3>3 DEF u
  <2>2. k \in 1 .. Len(stack) /\ Len(stack') \in Nat /\ k <= Len(stack')
        /\ \A i \in 1 .. k - 1 : stack'[i].count = stack[i].count
    BY <1>0, <1>2, <1>15
  <2>3. /\ stack'[1].node = root
        /\ \A i \in 1 .. k : OnWay(i)'
        /\ \A i \in 1 .. k - 1 : stack'[i].count >= 1 /\ called(i)'.id = stack'[i + 1].node
    BY <1>1, <1>13, <1>15, <2>1, <2>2, WayKept
  <2>. QED  BY <1>15, <2>3 DEF Way
<1>21. Behind'
  <2>1. ASSUME NEW i \in 1 .. Len(stack'), NEW y \in Node, tree'[y].exists,
               Len(tree'[y].link) > i, Through(tree[y].link, i)'
        PROVE  tree'[y].link[i + 1] <= stack'[i].count
    <3>1. k \in 1 .. Len(stack) /\ k <= Len(stack') /\ i \in 1 .. k
          /\ \A j \in 1 .. k - 1 : stack'[j].count = stack[j].count
      BY <1>0, <1>2, <1>15
    <3>2. stack'[k].count \in Nat /\ stack[k].count <= stack'[k].count
      BY <1>2, <1>15
    <3>3. tree[y].exists /\ tree'[y].link = tree[y].link
      BY <1>13, <2>1
    <3>. QED  BY <1>1, <2>1, <3>1, <3>2, <3>3, BehindKept
  <2>. QED  BY <2>1 DEF Behind
<1>. QED
  BY <1>1, <1>4, <1>18, <1>19, <1>20, <1>21 DEF Inductive, Searching, Cleaning, Returning

-----------------------------------------------------------------------------
(***************************************************************************)
(* What always holds.                                                      *)
(***************************************************************************)

\* Nothing else changes.
LEMMA StutterKeeps == Inductive /\ UNCHANGED vars => Inductive'
<1>. SUFFICES ASSUME Inductive, UNCHANGED vars PROVE Inductive'
  OBVIOUS
<1>1. UNCHANGED <<packages, DEP_LEVEL, dep, tree, stack, returned, parentNode, pc, lost, moved>>
  BY DEF vars, history
<1>2. Typed'
  BY <1>1 DEF Inductive, Typed
<1>3. Searching' /\ Cleaning'
  BY <1>1 DEF Inductive, Searching, Cleaning, Unplanted
<1>4. Planted'
  BY <1>1 DEF Inductive, Planted, LinksAreUnique
<1>5. \A m : place(m)' = place(m) /\ called(m)' = called(m)
  BY <1>1 DEF place, called
<1>6. \A link, n : Through(link, n)' <=> Through(link, n)
  BY <1>5 DEF Through
<1>7. Way'
  <2>1. pc = "tree" => \A i \in 1 .. Len(stack) : OnWay(i)'
    <3>. SUFFICES ASSUME pc = "tree", NEW i \in 1 .. Len(stack) PROVE OnWay(i)'
      OBVIOUS
    <3>1. OnWay(i)
      BY DEF Inductive, Way
    <3>2. Through(tree[stack[i].node].link, i)'
      BY <1>1, <1>5, <3>1 DEF OnWay, Through
    <3>. QED  BY <1>1, <1>5, <3>1, <3>2 DEF OnWay
  <2>. QED  BY <1>1, <1>5, <2>1 DEF Inductive, Way
<1>8. Behind'
  <2>1. \A y, i : Through(tree[y].link, i)' <=> Through(tree[y].link, i)
    BY <1>1, <1>5 DEF Through
  <2>. QED  BY <1>1, <2>1 DEF Inductive, Behind
<1>9. Returning'
  <2>1. \A y, i : Through(tree[y].link, i)' <=> Through(tree[y].link, i)
    BY <1>1, <1>5 DEF Through
  <2>. QED  BY <1>1, <1>5, <2>1 DEF Inductive, Returning
<1>. QED  BY <1>2, <1>3, <1>4, <1>7, <1>8, <1>9 DEF Inductive

\* In every state the files of the graph and the trees fit together: the active
\* calls go down one branch, position by position, nothing is planted beyond what they
\* have read, and a call that gets a priority back finds the edge at or above it
\* (func_dependencies, generate_subgraph, clean_subgraph, generate_dependency_tree).
THEOREM DependenciesInductive == Spec => []Inductive
<1>1. Init => Inductive
  BY InitFiles
<1>2. Inductive /\ [Next]_vars => Inductive'
  BY FollowKeeps, FollowedKeeps, CleanKeeps, MakeGroupKeeps, CleanedKeeps, PruneKeeps, BackUpKeeps,
     AlreadyThereKeeps, DescendKeeps, EndOfFileKeeps, PutOffKeeps, ReturnFurtherKeeps,
     StutterKeeps
  DEF Next
<1>. QED  BY <1>1, <1>2, PTL DEF Spec

\* The files, the trees and the calls of the three functions keep their types,
\* whatever the book lists and whatever is asked for.
THEOREM DependenciesTypeOK == Spec => []TypeOK
<1>1. Inductive => TypeOK
  <2>. SUFFICES ASSUME Typed PROVE TypeOK
    BY DEF Inductive
  <2>1. ASSUME NEW x \in Node, dep[x].exists PROVE ToSet(dep[x].lines) \subseteq Line
    <3>1. dep[x].lines \in Seq(Line)
      BY <2>1, FilesAre DEF Typed
    <3>. QED  BY <3>1, LenProperties, ElementOfSeq DEF ToSet
  <2>2. ASSUME NEW x \in Node, tree[x].exists PROVE ToSet(tree[x].lines) \subseteq Line
    <3>1. tree[x].lines \in Seq(Line)
      BY <2>2, TreesAre DEF Typed
    <3>. QED  BY <3>1, LenProperties, ElementOfSeq DEF ToSet
  <2>3. ASSUME NEW i \in DOMAIN stack PROVE stack[i].node \in Node /\ stack[i].depth = i
    <3>1. i \in 1 .. Len(stack) /\ stack[i] \in Frames
      BY LenProperties, ElementOfSeq DEF Typed
    <3>. QED  BY <3>1 DEF Typed, Frames
  <2>4. (stack = <<>>) = (pc \in {"clean", "groups", "done"})
    BY DEF Typed
  <2>. QED  BY <2>1, <2>2, <2>3, <2>4 DEF Typed, TypeOK, Phases
<1>. QED  BY <1>1, DependenciesInductive, PTL

\* No two packages are planted at the same place, in any order in which subtrees
\* are cut, put off, erased and planted again: the links by which
\* generate_dependency_tree() finds the parent of a cycle tell the trees apart.
THEOREM TreesAreApart == Spec => []LinksAreUnique
<1>1. Inductive => LinksAreUnique
  <2>. SUFFICES ASSUME Inductive PROVE LinksAreUnique
    OBVIOUS
  <2>1. CASE pc \in {"tree", "done"}
    BY <2>1 DEF Inductive, Planted
  <2>2. CASE pc \in {"subgraph", "clean", "groups"}
    <3>1. tree = [x \in Node |-> NoFile]
      BY <2>2 DEF Inductive, Searching, Cleaning, Unplanted
    <3>. QED  BY <3>1, FilesAre DEF LinksAreUnique
  <2>. QED  BY <2>1, <2>2 DEF Inductive, Typed, Phases
<1>. QED  BY <1>1, DependenciesInductive, PTL

-----------------------------------------------------------------------------
(***************************************************************************)
(* The search finds what is needed and nothing else.                       *)
(***************************************************************************)

\* The levels for requested packages and for the others.
high == IF DEP_LEVEL = 4 THEN 3 ELSE DEP_LEVEL
low  == IF DEP_LEVEL = 4 THEN 3 ELSE IF DEP_LEVEL = 3 THEN 2 ELSE DEP_LEVEL
LevelOf(x) == IF x \in Requested THEN high ELSE low

\* What a package lists up to a level has a file.
AllThere(x, level) ==
    \A j \in 1 .. Len(dep[x].lines) :
        dep[x].lines[j].prio <= level => dep[dep[x].lines[j].id].exists

\* The graph is in every set with the request and with what its members want.
Smallest ==
    \A S \in SUBSET Packages :
        Requested \subseteq S /\ (\A x \in S : Wanted(x, LevelOf(x)) \subseteq S)
            => \A x \in Packages : dep[x].exists => x \in S

\* What has been read has been followed; who has a file has been read, or is
\* being read; who is asked for has been read as such, or is being read.
Following ==
    pc = "subgraph" =>
        /\ Smallest
        /\ Len(stack) >= 2 => stack[2].node \in Requested
        /\ \A i \in 2 .. Len(stack) : \A j \in 1 .. Len(dep[stack[i].node].lines) :
               j <= stack[i].count
                   /\ dep[stack[i].node].lines[j].prio <= (IF i = 2 THEN high ELSE low)
               => dep[dep[stack[i].node].lines[j].id].exists
        /\ \A x \in Packages : dep[x].exists =>
               (\E i \in 2 .. Len(stack) : stack[i].node = x) \/ AllThere(x, low)
        /\ \A j \in 1 .. stack[1].count :
               \/ Len(stack) >= 2 /\ stack[2].node = dep[root].lines[j].id
               \/ AllThere(dep[root].lines[j].id, high)

Followed ==
    pc = "clean" =>
        /\ Smallest
        /\ \A x \in Packages : dep[x].exists =>
               packages[x].exists /\ dep[x] = packages[x] /\ AllThere(x, low)
        /\ \A x \in Requested : x \in Packages /\ dep[x].exists /\ AllThere(x, high)

Whole == Following /\ Followed

\* Levels in the files that are read at some depth.
LEMMA LevelsAre ==
    ASSUME DEP_LEVEL \in 1 .. 4
    PROVE  /\ high \in 1 .. 3 /\ low \in 1 .. 3 /\ low <= high
           /\ DEP_LEVEL # 3 => low = high
           /\ dep_level(1) \in 1 .. 3
           /\ \A i \in Nat : i >= 2 => dep_level(i) = IF i = 2 THEN high ELSE low
<1>1. ASSUME NEW i \in Nat PROVE dep_level(i) = IF i <= 2 THEN high ELSE low
  <2>1. CASE DEP_LEVEL = 3 /\ i > 2
    BY <2>1 DEF dep_level, high, low
  <2>2. CASE DEP_LEVEL > 3
    BY <2>2 DEF dep_level, high, low
  <2>3. CASE ~(DEP_LEVEL = 3 /\ i > 2) /\ ~(DEP_LEVEL > 3)
    BY <2>3 DEF dep_level, high, low
  <2>. QED  BY <2>1, <2>2, <2>3
<1>2. high \in 1 .. 3 /\ low \in 1 .. 3 /\ low <= high /\ (DEP_LEVEL # 3 => low = high)
  BY DEF high, low
<1>. QED  BY <1>1, <1>2

\* Nothing has been followed at first.
LEMMA InitWhole == Init => Whole
<1>. SUFFICES ASSUME Init PROVE Whole
  OBVIOUS
<1>1. /\ pc = "subgraph" /\ Len(stack) = 1 /\ stack[1].count = 0
      /\ \A x \in Packages : ~dep[x].exists
  <2>1. stack = <<Frame(root, 1)>> /\ pc = "subgraph" /\ Frame(root, 1).count = 0
    BY DEF Init, Frame
  <2>2. \A x \in Packages : ~dep[x].exists
    BY Names, FilesAre DEF Init, Name
  <2>. QED  BY <2>1, <2>2
<1>2. Smallest
  BY <1>1 DEF Smallest
<1>3. \A i \in 2 .. Len(stack) : FALSE
  BY <1>1
<1>4. \A j \in 1 .. stack[1].count : FALSE
  BY <1>1
<1>. QED  BY <1>1, <1>2, <1>3, <1>4 DEF Whole, Following, Followed

\* The state in which line c, for x, of the file of n is followed at depth k.
LineFor(k, n, c, x) ==
    /\ stack # <<>> /\ k \in Nat \ {0} /\ c = stack[k].count + 1
    /\ \A i \in 1 .. k : stack[i].count \in Nat
    /\ IF k = 1 THEN n = root ELSE n \in Packages
    /\ dep[n].exists /\ dep[n].lines \in Seq(Line)
    /\ c \in 1 .. Len(dep[n].lines)
    /\ x \in Packages
    /\ n = root => dep[n].lines[c].prio = 1

\* The line that is followed.
LEMMA LineFollowed ==
    ASSUME Inductive, pc = "subgraph", NEW k, k = Len(stack), NEW n, n = stack[k].node,
           NEW c, c = next_line, NEW x, x = dep[n].lines[c].id, c <= Len(dep[n].lines)
    PROVE  LineFor(k, n, c, x)
<1>. SUFFICES
           /\ stack # <<>> /\ k \in Nat \ {0} /\ call = stack[k] /\ call.depth = k
           /\ next_line = stack[k].count + 1
           /\ \A i \in 1 .. k : stack[i].count \in Nat
           /\ IF k = 1 THEN n = root ELSE n \in Packages
           /\ dep[n].exists /\ dep[n].lines \in Seq(Line)
           /\ next_line \in 1 .. Len(dep[n].lines)
           /\ dep[n].lines[next_line].id \in Packages
           /\ n = root => dep[n].lines[next_line].prio = 1
  BY DEF LineFor
<1>1. Typed /\ Searching /\ stack # <<>>
  BY DEF Inductive, Typed
<1>2. /\ k \in Nat \ {0} /\ call = stack[k] /\ next_line = stack[k].count + 1 /\ n \in Node
      /\ \A i \in 1 .. k : stack[i].count \in Nat
      /\ call.depth = k
  <2>1. k \in Nat \ {0} /\ call = stack[k] /\ next_line = stack[k].count + 1
    BY <1>1, Calls DEF Typed
  <2>2. k \in 1 .. k
    BY <2>1
  <2>. QED  BY <1>1, <2>1, <2>2, Calls DEF Typed
<1>3. IF k = 1 THEN n = root ELSE n \in Packages
  BY <1>1, <1>2 DEF Searching
<1>4. /\ dep[n].exists /\ dep[n].lines \in Seq(Line) /\ Len(dep[n].lines) \in Nat
      /\ next_line \in 1 .. Len(dep[n].lines)
  <2>1. dep[n].exists /\ dep[n] \in Files
    BY <1>1, <1>2 DEF Searching, Typed
  <2>2. dep[n].lines \in Seq(Line)
    BY <2>1, FilesAre
  <2>3. Len(dep[n].lines) \in Nat /\ next_line \in Nat
    BY <1>2, <2>2, LenProperties
  <2>4. next_line >= 1
    <3>1. stack[k].count \in Nat
      BY <1>2
    <3>. QED  BY <1>2, <3>1
  <2>. QED  BY <2>1, <2>2, <2>3, <2>4
<1>5. CASE n = root
  <2>1. dep[root].lines[next_line].id \in Packages /\ dep[root].lines[next_line].prio = 1
    BY <1>1, <1>4, <1>5 DEF Searching
  <2>. QED  BY <1>1, <1>2, <1>3, <1>4, <1>5, <2>1
<1>6. CASE n # root
  <2>1. n \in Packages
    BY <1>3, <1>6
  <2>2. packages[n].exists /\ dep[n] = packages[n] /\ packages[n].lines \in Books[n]
    BY <1>1, <1>4, <2>1 DEF Searching, Typed
  <2>3. \A i \in 1 .. Len(dep[n].lines) : dep[n].lines[i].id \in Packages
    BY <2>1, <2>2, BookLines
  <2>. QED  BY <1>1, <1>2, <1>3, <1>4, <1>6, <2>3
<1>. QED  BY <1>5, <1>6

\* What following it does: a file is added, or was there, and perhaps called for.
FollowsLine(k, n, c, x) ==
    /\ pc = "subgraph" /\ c <= Len(dep[n].lines)
    /\ UNCHANGED <<DEP_LEVEL, pc>>
    /\ \A y \in Node : dep[y].exists => dep'[y] = dep[y]
    /\ \A y \in Node : y # x => dep'[y] = dep[y]
    /\ \A y \in Packages :
           packages[y].exists => packages'[y].exists /\ packages'[y].lines = packages[y].lines
    /\ Len(stack') \in {k, k + 1} /\ \A i \in 1 .. k - 1 : stack'[i] = stack[i]
    /\ \A i \in 1 .. k : stack'[i].node = stack[i].node
    /\ stack'[k].count = c
    /\ \/ /\ Len(stack') = k /\ dep' = dep
          /\ seen(x, k + 1) \/ dep[n].lines[c].prio > dep_level(k)
       \/ /\ dep'[x].exists /\ dep[n].lines[c].prio <= dep_level(k)
          /\ \/ Len(stack') = k /\ Len(dep'[x].lines) = 0
             \/ /\ Len(stack') = k + 1 /\ stack'[k + 1].node = x
                /\ stack'[k + 1].count = 0

\* The line has its file then.
LEMMA FollowDoes ==
    ASSUME Inductive, follow, NEW k, k = Len(stack), NEW n, n = stack[k].node,
           NEW c, c = next_line, NEW x, x = dep[n].lines[c].id
    PROVE  FollowsLine(k, n, c, x) /\ LineFor(k, n, c, x)
<1>. SUFFICES /\ pc = "subgraph" /\ c <= Len(dep[n].lines)
              /\ UNCHANGED <<DEP_LEVEL, pc>>
              /\ \A y \in Node : dep[y].exists => dep'[y] = dep[y]
              /\ \A y \in Node : y # x => dep'[y] = dep[y]
              /\ \A y \in Packages :
                     packages[y].exists =>
                         packages'[y].exists /\ packages'[y].lines = packages[y].lines
              /\ Len(stack') \in {k, k + 1} /\ \A i \in 1 .. k - 1 : stack'[i] = stack[i]
              /\ \A i \in 1 .. k : stack'[i].node = stack[i].node
              /\ stack'[k].count = c
              /\ \/ /\ Len(stack') = k /\ dep' = dep
                    /\ seen(x, k + 1) \/ dep[n].lines[c].prio > dep_level(k)
                 \/ /\ dep'[x].exists /\ dep[n].lines[c].prio <= dep_level(k)
                    /\ \/ Len(stack') = k /\ Len(dep'[x].lines) = 0
                       \/ /\ Len(stack') = k + 1 /\ stack'[k + 1].node = x
                          /\ stack'[k + 1].count = 0
  <2>1. call = stack[k] /\ c <= Len(dep[n].lines)
    <3>1. stack # <<>> /\ Typed
      BY Zenon DEF Inductive, follow, Typed
    <3>2. call = stack[k]
      BY <3>1, Calls, Zenon DEF Typed
    <3>. QED  BY <3>2, Zenon DEF follow
  <2>2. LineFor(k, n, c, x)
    <3>1. pc = "subgraph"
      BY DEF follow
    <3>. QED  BY <2>1, <3>1, LineFollowed, Zenon
  <2>. QED  BY <2>2, Zenon DEF FollowsLine
<1>. DEFINE line == dep[n].lines[c]
<1>1. Typed /\ Searching /\ pc = "subgraph" /\ UNCHANGED <<DEP_LEVEL, pc>>
  BY DEF Inductive, follow
<1>2. c <= Len(dep[n].lines) /\ stack # <<>> /\ k \in Nat \ {0} /\ call = stack[k] /\ call.depth = k
      /\ c = stack[k].count + 1 /\ x \in Packages
      /\ dep[n].lines \in Seq(Line) /\ c \in 1 .. Len(dep[n].lines)
  <2>1. stack # <<>>
    BY <1>1 DEF Typed
  <2>2. call = stack[k]
    BY <1>1, <2>1, Calls DEF Typed
  <2>3. c <= Len(dep[n].lines)
    BY <2>2 DEF follow
  <2>4. LineFor(k, n, c, x)
    BY <1>1, <2>3, LineFollowed
  <2>5. call.depth = k
    BY <1>1, <2>1, <2>2, <2>4, Calls DEF LineFor, Typed
  <2>. QED  BY <2>1, <2>2, <2>3, <2>4, <2>5 DEF LineFor
<1>3. /\ read \in Seq(Frames) /\ Len(read) = k
      /\ \A i \in 1 .. k : i # k => read[i] = stack[i]
      /\ \A i \in 1 .. k : read[i].node = stack[i].node
      /\ read[k].count = c
  BY <1>1, <1>2, Reads DEF Typed
<1>4. \/ /\ stack' = read /\ UNCHANGED <<packages, dep>>
         /\ seen(x, k + 1) \/ line.prio > dep_level(k)
      \/ /\ line.prio <= dep_level(k)
         /\ \E list \in listed(x) :
              /\ packages' = [packages EXCEPT ![x] = File(list)]
              /\ dep' = [dep EXCEPT ![x] = File(list)]
              /\ stack' = IF list = <<>> THEN read ELSE Append(read, Frame(x, k + 1))
  <2>. DEFINE Skips == seen(x, k + 1) \/ line.prio > dep_level(k)
  <2>1. IF Skips
        THEN stack' = read /\ UNCHANGED <<packages, dep>>
        ELSE \E list \in listed(x) :
              /\ packages' = [packages EXCEPT ![x] = File(list)]
              /\ dep' = [dep EXCEPT ![x] = File(list)]
              /\ stack' = IF list = <<>> THEN read ELSE Append(read, Frame(x, k + 1))
    BY <1>2 DEF follow
  <2>2. ~(line.prio > dep_level(k)) => line.prio <= dep_level(k)
    <3>1. line \in Line
      BY <1>2, ElementOfSeq
    <3>2. line.prio \in 1 .. 3
      BY <3>1, Names DEF Priority
    <3>3. dep_level(k) \in 1 .. 3
      <4>1. k = 1 \/ k >= 2
        BY <1>2
      <4>. QED  BY <1>1, <1>2, <4>1, LevelsAre DEF Typed
    <3>. HIDE DEF line
    <3>. QED  BY <3>2, <3>3
  <2>. HIDE DEF line
  <2>. QED  BY <2>1, <2>2, Zenon
<1>. HIDE DEF line
<1>5. k \in 1 .. k /\ (\A i \in 1 .. k - 1 : i \in 1 .. k /\ i # k)
  BY <1>2
<1>6. CASE /\ stack' = read /\ UNCHANGED <<packages, dep>>
           /\ seen(x, k + 1) \/ line.prio > dep_level(k)
  BY <1>1, <1>2, <1>3, <1>5, <1>6, Zenon DEF line
<1>7. ASSUME line.prio <= dep_level(k), NEW list \in listed(x),
             packages' = [packages EXCEPT ![x] = File(list)],
             dep' = [dep EXCEPT ![x] = File(list)],
             stack' = IF list = <<>> THEN read ELSE Append(read, Frame(x, k + 1))
      PROVE  /\ \A y \in Node : dep[y].exists => dep'[y] = dep[y]
             /\ \A y \in Node : y # x => dep'[y] = dep[y]
             /\ \A y \in Packages : packages[y].exists =>
                    packages'[y].exists /\ packages'[y].lines = packages[y].lines
             /\ Len(stack') \in {k, k + 1} /\ \A i \in 1 .. k : stack'[i] = read[i]
             /\ dep'[x].exists
             /\ \/ Len(stack') = k /\ Len(dep'[x].lines) = 0
                \/ Len(stack') = k + 1 /\ stack'[k + 1].node = x /\ stack'[k + 1].count = 0
  <2>0. x \in Node
    BY <1>2, Names DEF Name
  <2>1. File(list).exists /\ File(list).lines = list
    BY FilesAre
  <2>2. \A y \in Packages : packages'[y] = IF y = x THEN File(list) ELSE packages[y]
    BY <1>1, <1>2, <1>7, Zenon DEF Typed
  <2>3. \A y \in Node : dep'[y] = IF y = x THEN File(list) ELSE dep[y]
    BY <1>1, <1>7, <2>0 DEF Typed
  <2>4. packages[x].exists => list = packages[x].lines
    BY <1>7, Zenon DEF listed
  <2>5. dep[x].exists => dep'[x] = dep[x]
    <3>1. dep[x].exists => packages[x].exists /\ dep[x] = packages[x] /\ packages[x] \in Files
      BY <1>1, <1>2, Zenon DEF Searching, Typed
    <3>2. dep[x].exists => packages[x] = File(packages[x].lines)
      BY <3>1, FilesAre, Zenon
    <3>. QED  BY <2>0, <2>3, <2>4, <3>1, <3>2, Zenon
  <2>6. /\ Frame(x, k + 1) \in Frames /\ Frame(x, k + 1).node = x /\ Frame(x, k + 1).count = 0
    BY <1>2, <2>0, NewCall
  <2>7. CASE list = <<>>
    <3>1. stack' = read /\ Len(dep'[x].lines) = 0
      BY <1>7, <2>0, <2>1, <2>3, <2>7
    <3>2. Len(stack') = k /\ \A i \in 1 .. k : stack'[i] = read[i]
      BY <1>3, <3>1
    <3>3. dep'[x].exists
      BY <2>0, <2>1, <2>3
    <3>4. \A y \in Packages :
             packages[y].exists => packages'[y].exists /\ packages'[y].lines = packages[y].lines
      BY <2>1, <2>2, <2>4
    <3>5. /\ \A y \in Node : dep[y].exists => dep'[y] = dep[y]
          /\ \A y \in Node : y # x => dep'[y] = dep[y]
      BY <2>3, <2>5
    <3>. QED  BY <3>1, <3>2, <3>3, <3>4, <3>5
  <2>8. CASE list # <<>>
    <3>. DEFINE new == Frame(x, k + 1)
    <3>1. stack' = Append(read, new)
      BY <1>7, <2>8
    <3>2. new \in Frames /\ new.node = x /\ new.count = 0
      BY <2>6
    <3>. HIDE DEF new
    <3>3. /\ Len(stack') = k + 1 /\ stack'[k + 1] = new
          /\ \A i \in 1 .. k : stack'[i] = read[i]
      BY <1>3, <3>1, <3>2, AppendProperties
    <3>4. dep'[x].exists
      BY <2>0, <2>1, <2>3
    <3>5. \A y \in Packages :
             packages[y].exists => packages'[y].exists /\ packages'[y].lines = packages[y].lines
      BY <2>1, <2>2, <2>4
    <3>6. /\ \A y \in Node : dep[y].exists => dep'[y] = dep[y]
          /\ \A y \in Node : y # x => dep'[y] = dep[y]
      BY <2>3, <2>5
    <3>. QED  BY <3>2, <3>3, <3>4, <3>5, <3>6
  <2>. QED  BY <2>7, <2>8, Zenon
<1>8. CASE /\ line.prio <= dep_level(k)
           /\ \E list \in listed(x) :
              /\ packages' = [packages EXCEPT ![x] = File(list)]
              /\ dep' = [dep EXCEPT ![x] = File(list)]
              /\ stack' = IF list = <<>> THEN read ELSE Append(read, Frame(x, k + 1))
  <2>1. /\ \A y \in Node : dep[y].exists => dep'[y] = dep[y]
        /\ \A y \in Node : y # x => dep'[y] = dep[y]
        /\ \A y \in Packages :
               packages[y].exists => packages'[y].exists /\ packages'[y].lines = packages[y].lines
        /\ Len(stack') \in {k, k + 1} /\ \A i \in 1 .. k : stack'[i] = read[i]
        /\ dep'[x].exists
        /\ \/ Len(stack') = k /\ Len(dep'[x].lines) = 0
           \/ Len(stack') = k + 1 /\ stack'[k + 1].node = x /\ stack'[k + 1].count = 0
    BY <1>7, <1>8, Zenon
  <2>2. /\ \A i \in 1 .. k - 1 : stack'[i] = stack[i]
        /\ \A i \in 1 .. k : stack'[i].node = stack[i].node
        /\ stack'[k].count = c
    BY <1>3, <1>5, <2>1
  <2>3. dep[n].lines[c].prio <= dep_level(k)
    BY <1>8 DEF line
  <2>. QED  BY <1>1, <1>2, <2>1, <2>2, <2>3, Zenon
<1>. QED  BY <1>4, <1>6, <1>8, Zenon

\* Following a line leaves none behind that has been read.
LEMMA FollowWhole == Inductive /\ Whole /\ follow => Whole'
<1>. SUFFICES ASSUME Inductive, Whole, follow PROVE Whole'
  OBVIOUS
<1>a. PICK k, n, c, x :
          /\ k = Len(stack) /\ n = stack[k].node /\ x = dep[n].lines[c].id
          /\ FollowsLine(k, n, c, x) /\ LineFor(k, n, c, x)
  BY FollowDoes
<1>0. n = stack[k].node /\ x = dep[n].lines[c].id
  BY <1>a
<1>1. /\ pc = "subgraph" /\ c <= Len(dep[n].lines)
      /\ UNCHANGED <<DEP_LEVEL, pc>>
      /\ \A y \in Node : dep[y].exists => dep'[y] = dep[y]
      /\ \A y \in Node : y # x => dep'[y] = dep[y]
      /\ \A y \in Packages :
             packages[y].exists => packages'[y].exists /\ packages'[y].lines = packages[y].lines
      /\ Len(stack') \in {k, k + 1} /\ \A i \in 1 .. k - 1 : stack'[i] = stack[i]
      /\ \A i \in 1 .. k : stack'[i].node = stack[i].node
      /\ stack'[k].count = c
      /\ \/ /\ Len(stack') = k /\ dep' = dep
            /\ seen(x, k + 1) \/ dep[n].lines[c].prio > dep_level(k)
         \/ /\ dep'[x].exists /\ dep[n].lines[c].prio <= dep_level(k)
            /\ \/ Len(stack') = k /\ Len(dep'[x].lines) = 0
               \/ /\ Len(stack') = k + 1 /\ stack'[k + 1].node = x
                  /\ stack'[k + 1].count = 0
  BY <1>a DEF FollowsLine
<1>2. Following /\ Typed /\ Searching
  BY DEF Whole, Inductive
<1>3. /\ stack # <<>> /\ k \in Nat \ {0} /\ c = stack[k].count + 1
      /\ \A i \in 1 .. k : stack[i].count \in Nat
      /\ IF k = 1 THEN n = root ELSE n \in Packages
      /\ dep[n].exists /\ dep[n].lines \in Seq(Line)
      /\ c \in 1 .. Len(dep[n].lines)
      /\ x \in Packages
      /\ n = root => dep[n].lines[c].prio = 1
  BY <1>a, Zenon DEF LineFor
<1>b. /\ k >= 2 => stack[2].node \in Requested
      /\ \A i \in 2 .. Len(stack) : i \in 2 .. k
      /\ \A i \in 2 .. k : i \in 2 .. Len(stack)
      /\ Len(stack) >= 2 <=> k >= 2
  BY <1>1, <1>2, <1>a DEF Following
<1>4. /\ high \in 1 .. 3 /\ low \in 1 .. 3 /\ low <= high
      /\ DEP_LEVEL # 3 => low = high
      /\ dep_level(1) \in 1 .. 3
      /\ \A i \in Nat : i >= 2 => dep_level(i) = IF i = 2 THEN high ELSE low
      /\ high' = high /\ low' = low
  BY <1>1, <1>2, LevelsAre DEF Typed, high, low
<1>5. root \in Node /\ Packages \subseteq Node /\ root \notin Packages
  BY Names, BooksAssumption DEF Name
<1>6. dep'[root] = dep[root] /\ Requested' = Requested
  BY <1>1, <1>3, <1>5 DEF Requested
<1>7. \A y \in Node : dep[y].exists => dep'[y].exists
  BY <1>1
<1>8. ASSUME NEW y \in Packages, dep[y].exists
      PROVE  /\ \A j \in 1 .. Len(dep[y].lines) : dep[y].lines[j].id \in Packages
             /\ dep'[y] = dep[y] /\ packages[y].exists /\ dep[y] = packages[y]
  <2>1. packages[y].exists /\ dep[y] = packages[y] /\ packages[y].lines \in Books[y]
    BY <1>1, <1>2, <1>8 DEF Searching, Typed
  <2>2. \A j \in 1 .. Len(dep[y].lines) : dep[y].lines[j].id \in Packages
    BY <2>1, BookLines
  <2>. QED  BY <1>1, <1>5, <1>8, <2>1, <2>2
<1>9. ASSUME NEW y \in Packages, dep[y].exists, NEW l, AllThere(y, l) PROVE AllThere(y, l)'
  BY <1>5, <1>7, <1>8, <1>9 DEF AllThere
<1>10. \A i \in 2 .. Len(stack') : i \in 2 .. k \/ (i = k + 1 /\ Len(stack') = k + 1)
  BY <1>1, <1>3
<1>11. \A j \in 1 .. Len(dep[root].lines) : dep[root].lines[j].id \in Packages
  BY <1>1, <1>2 DEF Searching
<1>. DEFINE p == dep[n].lines[c].prio
<1>12. p \in 1 .. 3
  <2>1. dep[n].lines[c] \in Line
    BY <1>3, ElementOfSeq
  <2>. QED  BY <2>1, Names DEF Priority
<1>. HIDE DEF p
\* the least such set
<1>13. Smallest'
  <2>. SUFFICES ASSUME NEW S \in SUBSET Packages, Requested \subseteq S,
                       \A y \in S : (Wanted(y, LevelOf(y)) \subseteq S)',
                       NEW y \in Packages, dep'[y].exists
                PROVE  y \in S
    BY <1>6 DEF Smallest
  <2>1. ASSUME NEW z \in S PROVE Wanted(z, LevelOf(z)) \subseteq S
    <3>. SUFFICES ASSUME NEW w \in Wanted(z, LevelOf(z)) PROVE w \in S
      OBVIOUS
    <3>1. /\ packages[z].exists
          /\ \E l \in ToSet(packages[z].lines) : l.prio <= LevelOf(z) /\ w = l.id
      BY DEF Wanted
    <3>2. packages'[z].exists /\ packages'[z].lines = packages[z].lines
      BY <1>1, <3>1
    <3>3. (Wanted(z, LevelOf(z)) \subseteq S)'
      OBVIOUS
    <3>4. (IF z \in Requested' THEN high' ELSE low') = LevelOf(z)
      BY <1>4, <1>6 DEF LevelOf
    <3>. QED  BY <3>1, <3>2, <3>3, <3>4 DEF Wanted, LevelOf
  <2>2. \A z \in Packages : dep[z].exists => z \in S
    BY <1>1, <1>2, <2>1 DEF Following, Smallest
  <2>3. CASE dep[y].exists
    BY <2>2, <2>3
  <2>4. CASE ~dep[y].exists
    <3>1. y = x /\ p <= dep_level(k)
      BY <1>1, <1>5, <2>4 DEF p
    <3>2. CASE k = 1
      <4>1. n = root
        BY <1>3, <3>2
      <4>2. x \in Requested
        BY <1>0, <1>3, <4>1, LenProperties DEF Requested
      <4>. QED  BY <3>1, <4>2
    <3>3. CASE k # 1
      <4>1. n \in Packages /\ n \in S
        BY <1>3, <2>2, <3>3
      <4>2. packages[n].exists /\ dep[n] = packages[n]
        BY <1>3, <1>8, <4>1
      <4>3. p <= LevelOf(n)
        <5>1. k \in Nat /\ k >= 2 /\ dep_level(k) = IF k = 2 THEN high ELSE low
          BY <1>3, <1>4, <3>3
        <5>2. k = 2 => n \in Requested
          BY <1>0, <1>b
        <5>. QED  BY <1>4, <1>12, <3>1, <5>1, <5>2 DEF LevelOf
      <4>4. dep[n].lines[c] \in ToSet(packages[n].lines)
        BY <1>3, <4>2, LenProperties DEF ToSet
      <4>5. x \in Wanted(n, LevelOf(n))
        BY <1>0, <4>2, <4>3, <4>4 DEF Wanted, p
      <4>. QED  BY <2>1, <3>1, <4>1, <4>5
    <3>. QED  BY <3>2, <3>3
  <2>. QED  BY <2>3, <2>4
<1>14. Len(stack') >= 2 => stack'[2].node \in Requested'
  <2>1. CASE k >= 2
    <3>1. 2 \in 1 .. k
      BY <1>3, <2>1
    <3>. QED  BY <1>1, <1>6, <1>b, <2>1, <3>1
  <2>2. CASE ~(k >= 2)
    <3>1. k = 1 /\ n = root
      BY <1>3, <2>2
    <3>2. x \in Requested
      BY <1>0, <1>3, <3>1, LenProperties DEF Requested
    <3>. QED  BY <1>1, <1>6, <3>1, <3>2
  <2>. QED  BY <2>1, <2>2
\* what has been read has been followed
<1>15. ASSUME NEW i \in 2 .. Len(stack'), NEW j \in 1 .. Len(dep'[stack'[i].node].lines),
              j <= stack'[i].count,
              dep'[stack'[i].node].lines[j].prio <= (IF i = 2 THEN high ELSE low)
       PROVE  dep'[dep'[stack'[i].node].lines[j].id].exists
  <2>1. CASE i \in 2 .. k
    <3>. DEFINE y == stack[i].node
    <3>1. i \in 1 .. k /\ i \in 2 .. Len(stack)
      BY <1>3, <1>b, <2>1
    <3>2. y \in Packages /\ dep[y].exists
      BY <1>1, <1>2, <3>1 DEF Searching
    <3>3. stack'[i].node = y /\ dep'[y] = dep[y]
      BY <1>1, <1>8, <3>1, <3>2
    <3>4. /\ j \in 1 .. Len(dep[y].lines) /\ dep[y].lines[j].id \in Packages
          /\ dep[y].lines[j].prio <= (IF i = 2 THEN high ELSE low)
      BY <1>8, <1>15, <3>2, <3>3
    <3>5. CASE j <= stack[i].count
      <4>1. dep[dep[y].lines[j].id].exists
        BY <1>1, <1>2, <3>1, <3>4, <3>5 DEF Following
      <4>. QED  BY <1>5, <1>7, <3>3, <3>4, <4>1
    <3>6. CASE ~(j <= stack[i].count)
      <4>1. i = k
        <5>. SUFFICES ASSUME i # k PROVE FALSE
          OBVIOUS
        <5>1. i \in 1 .. k - 1
          BY <1>3, <3>1
        <5>2. stack'[i] = stack[i]
          BY <1>1, <5>1
        <5>. QED  BY <1>15, <3>6, <5>2
      <4>2. j = c
        BY <1>1, <1>3, <1>15, <3>4, <3>6, <4>1
      <4>3. y = n /\ k >= 2 /\ k \in Nat /\ (dep_level(k) = IF k = 2 THEN high ELSE low)
        BY <1>0, <1>3, <1>4, <2>1, <4>1
      <4>4. p <= dep_level(k)
        BY <3>4, <4>1, <4>2, <4>3 DEF p
      <4>5. ~(p > dep_level(k))
        BY <1>4, <1>12, <4>3, <4>4
      <4>6. dep'[x].exists
        BY <1>1, <4>5 DEF p, seen
      <4>. QED  BY <1>0, <3>3, <4>2, <4>3, <4>6
    <3>. QED  BY <3>5, <3>6
  <2>2. CASE i = k + 1 /\ Len(stack') = k + 1
    <3>1. stack'[i].count = 0
      BY <1>1, <1>3, <2>2
    <3>. QED  BY <1>15, <3>1
  <2>. QED  BY <1>10, <2>1, <2>2
\* who has a file has been read or is being read
<1>16. ASSUME NEW y \in Packages, dep'[y].exists
       PROVE  (\E i \in 2 .. Len(stack') : stack'[i].node = y)
              \/ \A j \in 1 .. Len(dep'[y].lines) :
                    dep'[y].lines[j].prio <= low => dep'[dep'[y].lines[j].id].exists
  <2>1. CASE dep[y].exists
    <3>1. CASE \E i \in 2 .. Len(stack) : stack[i].node = y
      <4>1. PICK i \in 2 .. Len(stack) : stack[i].node = y
        BY <3>1
      <4>2. i \in 1 .. k /\ i \in 2 .. Len(stack')
        <5>1. i \in 2 .. k
          BY <1>b, <4>1
        <5>. QED  BY <1>1, <1>3, <5>1
      <4>. QED  BY <1>1, <4>1, <4>2
    <3>2. CASE AllThere(y, low)
      <4>1. PICK l : l = low
        OBVIOUS
      <4>2. AllThere(y, l)'
        BY <1>9, <2>1, <3>2, <4>1
      <4>. QED  BY <4>1, <4>2 DEF AllThere
    <3>. QED  BY <1>1, <1>2, <2>1, <3>1, <3>2 DEF Following
  <2>2. CASE ~dep[y].exists
    <3>1. y = x
      BY <1>1, <1>5, <1>16, <2>2
    <3>2. \/ Len(dep'[x].lines) = 0
          \/ Len(stack') = k + 1 /\ stack'[k + 1].node = x
      BY <1>1, <1>5, <1>16, <2>2, <3>1
    <3>3. CASE Len(dep'[x].lines) = 0
      <4>1. \A j \in 1 .. Len(dep'[y].lines) : FALSE
        BY <3>1, <3>3
      <4>. QED  BY <4>1
    <3>4. CASE Len(stack') = k + 1 /\ stack'[k + 1].node = x
      <4>1. k + 1 \in 2 .. Len(stack')
        BY <1>3, <3>4
      <4>. QED  BY <3>1, <3>4, <4>1
    <3>. QED  BY <3>2, <3>3, <3>4
  <2>. QED  BY <2>1, <2>2
\* who is asked for has been read as such or is being read
<1>17. ASSUME NEW j \in 1 .. stack'[1].count, NEW y, y = dep[root].lines[j].id
       PROVE  \/ Len(stack') >= 2 /\ stack'[2].node = y
              \/ \A i \in 1 .. Len(dep'[y].lines) :
                    dep'[y].lines[i].prio <= high => dep'[dep'[y].lines[i].id].exists
  <2>1. CASE j \in 1 .. stack[1].count
    <3>1. y \in Packages /\ dep[y].exists
      <4>1. dep[y].exists
        BY <1>1, <1>2, <1>17, <2>1 DEF Searching
      <4>2. j \in 1 .. Len(dep[root].lines)
        <5>1. stack[1].count <= Len(dep[root].lines) /\ dep[root].exists
          BY <1>1, <1>2 DEF Searching
        <5>2. dep[root].lines \in Seq(Line)
          BY <1>2, <1>5, <5>1, FilesAre DEF Typed
        <5>3. Len(dep[root].lines) \in Nat
          BY <5>2, LenProperties
        <5>4. stack[1].count \in Nat
          BY <1>3
        <5>. QED  BY <2>1, <5>1, <5>3, <5>4
      <4>. QED  BY <1>11, <1>17, <4>1, <4>2
    <3>2. CASE Len(stack) >= 2 /\ stack[2].node = y
      <4>1. 2 \in 1 .. k /\ Len(stack') >= 2
        BY <1>1, <1>3, <1>b, <3>2
      <4>. QED  BY <1>1, <3>2, <4>1
    <3>3. CASE AllThere(y, high)
      <4>1. PICK l : l = high
        OBVIOUS
      <4>2. AllThere(y, l)'
        BY <1>9, <3>1, <3>3, <4>1
      <4>. QED  BY <4>1, <4>2 DEF AllThere
    <3>. QED  BY <1>1, <1>2, <1>17, <2>1, <3>2, <3>3 DEF Following
  <2>2. CASE j \notin 1 .. stack[1].count
    <3>1. k = 1 /\ j = c /\ n = root /\ y = x
      <4>1. 1 \in 1 .. k /\ stack[1].count \in Nat
        BY <1>3
      <4>2. k = 1
        <5>1. k # 1 => stack'[1] = stack[1]
          BY <1>1, <1>3
        <5>. QED  BY <2>2, <5>1
      <4>3. j = c /\ n = root
        BY <1>1, <1>3, <2>2, <4>1, <4>2
      <4>. QED  BY <1>0, <1>17, <4>2, <4>3
    <3>2. p = 1 /\ ~(p > dep_level(k))
      BY <1>3, <1>4, <3>1, SMTT(30) DEF p
    <3>3. CASE Len(stack') = k /\ dep' = dep /\ seen(x, k + 1)
      <4>1. DEP_LEVEL # 3 /\ dep[x].exists
        BY <3>1, <3>3 DEF seen
      <4>2. ~\E i \in 2 .. Len(stack) : stack[i].node = x
        BY <1>b, <3>1
      <4>3. AllThere(x, low)
        BY <1>1, <1>2, <1>3, <4>1, <4>2 DEF Following
      <4>. QED  BY <1>4, <3>1, <3>3, <4>1, <4>3 DEF AllThere
    <3>4. CASE Len(stack') = k /\ Len(dep'[x].lines) = 0
      <4>1. \A i \in 1 .. Len(dep'[y].lines) : FALSE
        BY <3>1, <3>4
      <4>. QED  BY <4>1
    <3>5. CASE Len(stack') = k + 1 /\ stack'[k + 1].node = x
      BY <3>1, <3>5
    <3>. QED  BY <1>1, <3>2, <3>3, <3>4, <3>5 DEF p
  <2>. QED  BY <2>1, <2>2
<1>18. Following'
  <2>1. \A x_ \in Packages : dep'[x_].exists =>
           (\E i \in 2 .. Len(stack') : stack'[i].node = x_) \/ AllThere(x_, low)'
    BY <1>4, <1>16 DEF AllThere
  <2>2. \A j \in 1 .. stack'[1].count :
           \/ Len(stack') >= 2 /\ stack'[2].node = dep'[root].lines[j].id
           \/ AllThere(dep[root].lines[j].id, high)'
    BY <1>4, <1>6, <1>17, Zenon DEF AllThere
  <2>3. \A i \in 2 .. Len(stack') : \A j \in 1 .. Len(dep'[stack'[i].node].lines) :
               j <= stack'[i].count
                   /\ dep'[stack'[i].node].lines[j].prio <= (IF i = 2 THEN high' ELSE low')
               => dep'[dep'[stack'[i].node].lines[j].id].exists
    BY <1>4, <1>15
  <2>. QED  BY <1>13, <1>14, <2>1, <2>2, <2>3 DEF Following
<1>. QED  BY <1>1, <1>18 DEF Whole, Followed

\* At the end of a file all its lines have been followed.
LEMMA FollowedWhole == Inductive /\ Whole /\ followed => Whole'
<1>. SUFFICES ASSUME Inductive, Whole, followed PROVE Whole'
  OBVIOUS
<1>0. PICK k, n : k = Len(stack) /\ n = stack[k].node
  OBVIOUS
<1>1. Typed /\ Searching /\ Following /\ pc = "subgraph" /\ stack # <<>>
  BY DEF Inductive, Typed, followed, Whole
<1>2. /\ k \in Nat \ {0} /\ call = stack[k] /\ next_line = stack[k].count + 1 /\ n \in Node
      /\ \A i \in 1 .. k : stack[i].count \in Nat
      /\ Len(caller) = k - 1
      /\ \A i \in 1 .. k - 1 : caller[i] = stack[i]
      /\ (caller = <<>>) = (k = 1)
  <2>1. k \in 1 .. Len(stack)
    BY <1>0, <1>1, Calls DEF Typed
  <2>. QED  BY <1>0, <1>1, <2>1, Calls DEF Typed
<1>3. /\ stack' = caller /\ pc' = IF k = 1 THEN "clean" ELSE pc
      /\ next_line > Len(dep[n].lines)
      /\ UNCHANGED <<packages, DEP_LEVEL, dep>>
  BY <1>0, <1>2 DEF followed
<1>4. high \in 1 .. 3 /\ low \in 1 .. 3 /\ low <= high /\ high' = high /\ low' = low
  BY <1>1, <1>3, LevelsAre DEF Typed, high, low
<1>5. Smallest'
  <2>1. Requested' = Requested
    BY <1>3 DEF Requested
  <2>2. \A x : (Wanted(x, LevelOf(x)))' = Wanted(x, LevelOf(x))
    BY <1>3, <1>4, <2>1 DEF Wanted, LevelOf
  <2>3. Smallest
    BY <1>1 DEF Following
  <2>. QED  BY <1>3, <2>1, <2>2, <2>3 DEF Smallest
<1>6. dep[n].exists /\ Len(dep[n].lines) \in Nat /\ Len(dep[n].lines) <= stack[k].count
  <2>1. k \in 1 .. k
    BY <1>2
  <2>2. dep[n].exists /\ dep[n] \in Files
    BY <1>0, <1>1, <1>2, <2>1 DEF Searching, Typed
  <2>3. Len(dep[n].lines) \in Nat
    BY <2>2, FilesAre, LenProperties
  <2>4. stack[k].count \in Nat
    BY <1>2, <2>1
  <2>. QED  BY <1>2, <1>3, <2>2, <2>3, <2>4
<1>7. ASSUME NEW y, NEW l, AllThere(y, l) PROVE AllThere(y, l)'
  BY <1>3, <1>7 DEF AllThere
<1>8. CASE k = 1
  <2>1. n = root
    BY <1>0, <1>1, <1>8 DEF Searching
  <2>2. ASSUME NEW y \in Packages, dep[y].exists
        PROVE  packages[y].exists /\ dep[y] = packages[y] /\ AllThere(y, low)
    <3>1. ~\E i \in 2 .. Len(stack) : stack[i].node = y
      BY <1>0, <1>8
    <3>. QED  BY <1>1, <2>2, <3>1 DEF Following, Searching
  <2>3. ASSUME NEW y \in Requested PROVE y \in Packages /\ dep[y].exists /\ AllThere(y, high)
    <3>1. PICK j \in DOMAIN dep[root].lines : y = dep[root].lines[j].id
      BY DEF Requested
    <3>2. j \in 1 .. Len(dep[root].lines)
      <4>1. dep[root] \in Files
        BY <1>1, <1>2, <2>1 DEF Typed
      <4>2. dep[root].lines \in Seq(Line)
        BY <1>6, <2>1, <4>1, FilesAre
      <4>. QED  BY <4>2, LenProperties
    <3>3. j \in 1 .. stack[1].count
      <4>1. stack[1].count \in Nat
        BY <1>2, <1>8
      <4>. QED  BY <1>6, <1>8, <2>1, <3>2, <4>1
    <3>4. y \in Packages /\ dep[y].exists
      BY <1>1, <3>1, <3>2, <3>3 DEF Searching
    <3>5. ~(Len(stack) >= 2)
      BY <1>0, <1>8
    <3>6. AllThere(y, high)
      BY <1>1, <3>1, <3>3, <3>5 DEF Following
    <3>. QED  BY <3>4, <3>6
  <2>4. Followed'
    <3>1. \A y \in Packages : dep'[y].exists =>
             packages'[y].exists /\ dep'[y] = packages'[y] /\ AllThere(y, low)'
      BY <1>3, <1>4, <2>2 DEF AllThere
    <3>2. \A y \in Requested' : y \in Packages /\ dep'[y].exists /\ AllThere(y, high)'
      BY <1>3, <1>4, <2>3 DEF AllThere, Requested
    <3>. QED  BY <1>5, <3>1, <3>2 DEF Followed
  <2>. QED  BY <1>3, <1>8, <2>4 DEF Whole, Following
<1>9. CASE k # 1
  <2>0. /\ k >= 2 /\ Len(stack') = k - 1 /\ \A i \in 1 .. k - 1 : stack'[i] = stack[i]
    BY <1>2, <1>3, <1>9
  <2>1. \A i \in 2 .. Len(stack') : i \in 2 .. Len(stack) /\ stack'[i] = stack[i]
    BY <1>0, <1>2, <2>0
  <2>2. n \in Packages
    <3>1. k \in 2 .. Len(stack)
      BY <1>0, <1>2, <2>0
    <3>. QED  BY <1>0, <1>1, <3>1 DEF Searching
  <2>3. \A j \in 1 .. Len(dep[n].lines) :
           dep[n].lines[j].prio <= (IF k = 2 THEN high ELSE low) => dep[dep[n].lines[j].id].exists
    <3>1. k \in 2 .. Len(stack)
      BY <1>0, <1>2, <2>0
    <3>2. \A j \in 1 .. Len(dep[n].lines) : j <= stack[k].count
      <4>1. k \in 1 .. k
        BY <1>2
      <4>2. stack[k].count \in Nat
        BY <1>2, <4>1
      <4>. QED  BY <1>6, <4>2
    <3>. QED  BY <1>0, <1>1, <3>1, <3>2, Zenon DEF Following
  <2>4. \A i \in 2 .. Len(stack') : \A j \in 1 .. Len(dep'[stack'[i].node].lines) :
               j <= stack'[i].count
                   /\ dep'[stack'[i].node].lines[j].prio <= (IF i = 2 THEN high' ELSE low')
               => dep'[dep'[stack'[i].node].lines[j].id].exists
    BY <1>1, <1>3, <1>4, <2>1 DEF Following
  <2>5. ASSUME NEW y \in Packages, dep[y].exists
        PROVE  (\E i \in 2 .. Len(stack') : stack'[i].node = y) \/ AllThere(y, low)
    <3>1. CASE \E i \in 2 .. Len(stack) : stack[i].node = y
      <4>1. PICK i \in 2 .. Len(stack) : stack[i].node = y
        BY <3>1
      <4>2. CASE i = k
        <5>1. y = n
          BY <1>0, <4>1, <4>2
        <5>2. ASSUME NEW j \in 1 .. Len(dep[n].lines), dep[n].lines[j].prio <= low
              PROVE  dep[n].lines[j].prio <= high
          <6>1. dep[n].lines \in Seq(Line)
            BY <1>1, <1>2, <1>6, FilesAre DEF Typed
          <6>2. dep[n].lines[j] \in Line
            BY <6>1, ElementOfSeq
          <6>3. dep[n].lines[j].prio \in 1 .. 3
            BY <6>2, Names DEF Priority
          <6>. QED  BY <1>4, <5>2, <6>3
        <5>3. AllThere(n, low)
          BY <2>3, <5>2 DEF AllThere
        <5>. QED  BY <5>1, <5>3
      <4>3. CASE i # k
        <5>1. i \in 2 .. Len(stack') /\ i \in 1 .. k - 1
          BY <1>0, <1>2, <2>0, <4>3
        <5>. QED  BY <2>0, <4>1, <5>1
      <4>. QED  BY <4>2, <4>3
    <3>2. CASE AllThere(y, low)
      BY <3>2
    <3>. QED  BY <1>1, <2>5, <3>1, <3>2 DEF Following
  <2>6. ASSUME NEW j \in 1 .. stack[1].count
        PROVE  \/ Len(stack') >= 2 /\ stack'[2].node = dep[root].lines[j].id
               \/ AllThere(dep[root].lines[j].id, high)
    <3>1. CASE Len(stack) >= 2 /\ stack[2].node = dep[root].lines[j].id
      <4>1. CASE k = 2
        BY <1>0, <2>3, <3>1, <4>1 DEF AllThere
      <4>2. CASE k # 2
        <5>1. Len(stack') >= 2 /\ 2 \in 1 .. k - 1
          BY <1>2, <2>0, <4>2
        <5>. QED  BY <2>0, <3>1, <5>1
      <4>. QED  BY <4>1, <4>2
    <3>2. CASE AllThere(dep[root].lines[j].id, high)
      BY <3>2
    <3>. QED  BY <1>1, <3>1, <3>2 DEF Following
  <2>7. stack'[1] = stack[1]
    BY <1>2, <2>0
  <2>8. Len(stack') >= 2 => stack'[2].node \in Requested'
    <3>1. Len(stack') >= 2 => 2 \in 1 .. k - 1 /\ Len(stack) >= 2
      BY <1>0, <1>2, <2>0
    <3>. QED  BY <1>1, <1>3, <2>0, <3>1 DEF Following, Requested
  <2>9. \A y \in Packages : dep'[y].exists =>
           (\E i \in 2 .. Len(stack') : stack'[i].node = y) \/ AllThere(y, low)'
    BY <1>3, <1>4, <2>5 DEF AllThere
  <2>10. \A j \in 1 .. stack'[1].count :
           \/ Len(stack') >= 2 /\ stack'[2].node = dep'[root].lines[j].id
           \/ AllThere(dep[root].lines[j].id, high)'
    BY <1>3, <1>4, <2>6, <2>7, Zenon DEF AllThere
  <2>11. Following'
    BY <1>5, <2>4, <2>8, <2>9, <2>10 DEF Following
  <2>. QED  BY <1>1, <1>3, <1>9, <2>11 DEF Whole, Followed
<1>. QED  BY <1>8, <1>9

\* The other steps are not part of the search.
LEMMA OthersWhole ==
    ASSUME Whole,
           \/ clean_subgraph \/ make_group \/ cleaned \/ prune \/ back_up \/ already_there
           \/ descend \/ end_of_file \/ put_off \/ return_further
    PROVE  Whole'
<1>1. pc' \in {"groups", "tree", "done"}
  BY DEF clean_subgraph, make_group, cleaned, reading, prune, back_up, already_there, descend,
         end_of_file, put_off, return_further
<1>. QED  BY <1>1 DEF Whole, Following, Followed

\* Neither is a step of something else.
LEMMA StutterWhole == Whole /\ UNCHANGED vars => Whole'
<1>. SUFFICES ASSUME Whole, UNCHANGED vars PROVE Whole'
  OBVIOUS
<1>1. UNCHANGED <<packages, DEP_LEVEL, dep, stack, pc>>
  BY DEF vars
<1>2. Requested' = Requested /\ high' = high /\ low' = low
  BY <1>1 DEF Requested, high, low
<1>3. \A x : (Wanted(x, LevelOf(x)))' = Wanted(x, LevelOf(x))
  BY <1>1, <1>2 DEF Wanted, LevelOf
<1>4. Smallest => Smallest'
  BY <1>1, <1>2, <1>3 DEF Smallest
<1>5. \A x : (AllThere(x, low) => AllThere(x, low)') /\ (AllThere(x, high) => AllThere(x, high)')
  BY <1>1, <1>2 DEF AllThere
<1>6. Following'
  BY <1>1, <1>2, <1>4, <1>5 DEF Whole, Following
<1>7. Followed'
  BY <1>1, <1>2, <1>4, <1>5 DEF Whole, Followed
<1>. QED  BY <1>6, <1>7 DEF Whole

\* What is needed is closed, and in every set that is.
LEMMA NeededIs ==
    ASSUME Requested \subseteq Packages,
           \A x \in Packages : Wanted(x, LevelOf(x)) \subseteq Packages
    PROVE  /\ Needed(Requested) \in SUBSET Packages
           /\ Requested \subseteq Needed(Requested)
           /\ \A x \in Needed(Requested) : Wanted(x, LevelOf(x)) \subseteq Needed(Requested)
           /\ \A S \in SUBSET Packages :
                  Requested \subseteq S /\ (\A x \in S : Wanted(x, LevelOf(x)) \subseteq S)
                      => Needed(Requested) \subseteq S
<1>. DEFINE N == Cardinality(Packages)
            wanted(x) == Wanted(x, LevelOf(x))
            under == [x \in Packages |-> wanted(x)]
            Reached(r) == r = [n \in 0 .. N |->
                Requested \cup IF n = 0 THEN {} ELSE UNION {wanted(x) : x \in r[n - 1]}]
<1>0. IsFiniteSet(Packages) /\ N \in Nat /\ N \in 0 .. N /\ 0 \in 0 .. N
  <2>1. N \in Nat
    BY BooksAssumption, FS_CardinalityType
  <2>. QED  BY <2>1, BooksAssumption
<1>1. under \in [Packages -> SUBSET Packages] /\ \A x \in Packages : under[x] = wanted(x)
  <2>. HIDE DEF wanted
  <2>1. \A x \in Packages : wanted(x) \subseteq Packages
    BY DEF wanted
  <2>. QED  BY <2>1
<1>2. ASSUME NEW A \in SUBSET Packages
      PROVE  UNION {under[y] : y \in A} = UNION {wanted(y) : y \in A}
  <2>. HIDE DEF wanted, under
  <2>. QED  BY <1>1
<1>3. Requested \in SUBSET Packages
  OBVIOUS
<1>4. PICK f \in [0 .. N -> SUBSET Packages] : Steps(f, N, Requested, under)
  <2>. HIDE DEF N, under
  <2>. QED  BY <1>0, <1>1, <1>3, ClosureExists
<1>5. Reached(f)
  <2>. HIDE DEF N, under, wanted
  <2>1. ASSUME NEW n \in 0 .. N
        PROVE  f[n] = Requested \cup IF n = 0 THEN {} ELSE UNION {wanted(y) : y \in f[n - 1]}
    <3>1. f[n] = Requested \cup IF n = 0 THEN {} ELSE UNION {under[y] : y \in f[n - 1]}
      BY <1>4 DEF Steps
    <3>2. CASE n = 0
      BY <3>1, <3>2
    <3>3. CASE n # 0
      <4>1. n - 1 \in 0 .. N
        BY <1>0, <3>3
      <4>2. f[n - 1] \in SUBSET Packages
        BY <1>4, <4>1
      <4>. QED  BY <1>2, <3>1, <4>2
    <3>. QED  BY <3>2, <3>3
  <2>2. f = [n \in 0 .. N |-> f[n]]
    BY <1>4
  <2>. QED  BY <2>1, <2>2
<1>. DEFINE k == CHOOSE k : Reached(k)
<1>6. Reached(k)
  <2>. HIDE DEF Reached
  <2>. QED  BY <1>5
<1>7. Needed(Requested) = k[N]
  <2>1. \A x : (IF DEP_LEVEL = 4 THEN 3
                ELSE IF DEP_LEVEL = 3 /\ x \notin Requested THEN 2 ELSE DEP_LEVEL) = LevelOf(x)
    BY DEF LevelOf, high, low
  <2>. DEFINE level(x) == IF DEP_LEVEL = 4 THEN 3
                          ELSE IF DEP_LEVEL = 3 /\ x \notin Requested THEN 2 ELSE DEP_LEVEL
              Chosen(r) == r = [n \in 0 .. N |->
                Requested \cup IF n = 0 THEN {} ELSE UNION {Wanted(x, level(x)) : x \in r[n - 1]}]
  <2>2. Needed(Requested) = (CHOOSE r : Chosen(r))[N]
    BY DEF Needed
  <2>3. \A x : Wanted(x, level(x)) = wanted(x)
    BY <2>1
  <2>4. \A A : {Wanted(x, level(x)) : x \in A} = {wanted(x) : x \in A}
    <3>. HIDE DEF level, wanted
    <3>. QED  BY <2>3
  <2>5. \A r : Chosen(r) <=> Reached(r)
    <3>. HIDE DEF level, wanted, N
    <3>. QED  BY <2>4
  <2>. HIDE DEF Chosen, Reached
  <2>6. (CHOOSE r : Chosen(r)) = CHOOSE r : Reached(r)
    BY <2>5
  <2>. QED  BY <2>2, <2>6
<1>. HIDE DEF k
<1>8. \A n \in 0 .. N : k[n] \in SUBSET Packages
  <2>. DEFINE T == {n \in 0 .. N : k[n] \in SUBSET Packages}
  <2>1. 0 \in T
    BY <1>0, <1>3, <1>6
  <2>2. ASSUME NEW n \in 1 .. N, n - 1 \in T PROVE n \in T
    <3>1. n \in 0 .. N /\ n # 0 /\ k[n - 1] \in SUBSET Packages
      BY <1>0, <2>2
    <3>2. k[n] = Requested \cup UNION {wanted(y) : y \in k[n - 1]}
      BY <1>6, <3>1
    <3>3. ASSUME NEW z \in UNION {wanted(y) : y \in k[n - 1]} PROVE z \in Packages
      <4>1. PICK y \in k[n - 1] : z \in wanted(y)
        OBVIOUS
      <4>2. y \in Packages
        BY <3>1
      <4>3. wanted(y) \subseteq Packages
        BY <4>2
      <4>. QED  BY <4>1, <4>3
    <3>. QED  BY <1>3, <3>1, <3>2, <3>3
  <2>3. T \in SUBSET (0 .. N)
    OBVIOUS
  <2>4. T = 0 .. N
    <3>. HIDE DEF T, N
    <3>. QED  BY <1>0, <2>1, <2>2, <2>3, UpTo
  <2>. QED  BY <2>4
<1>9. Steps(k, N, Requested, under)
  <2>. HIDE DEF N, under, wanted
  <2>1. ASSUME NEW n \in 0 .. N
        PROVE  k[n] = Requested \cup IF n = 0 THEN {} ELSE UNION {under[y] : y \in k[n - 1]}
    <3>1. k[n] = Requested \cup IF n = 0 THEN {} ELSE UNION {wanted(y) : y \in k[n - 1]}
      BY <1>6
    <3>2. CASE n = 0
      BY <3>1, <3>2
    <3>3. CASE n # 0
      <4>1. n - 1 \in 0 .. N
        BY <1>0, <3>3
      <4>2. k[n - 1] \in SUBSET Packages
        BY <1>8, <4>1
      <4>. QED  BY <1>2, <3>1, <4>2
    <3>. QED  BY <3>2, <3>3
  <2>2. k = [n \in 0 .. N |-> k[n]]
    BY <1>6
  <2>. QED  BY <2>1, <2>2 DEF Steps
<1>10. /\ k[N] \in SUBSET Packages /\ Requested \subseteq k[N]
       /\ \A y \in k[N] : under[y] \subseteq k[N]
  <2>. HIDE DEF under
  <2>. QED  BY <1>0, <1>1, <1>3, <1>9, ClosureIsClosed
<1>11. ASSUME NEW S \in SUBSET Packages, Requested \subseteq S,
              \A x \in S : wanted(x) \subseteq S
       PROVE  k[N] \subseteq S
  <2>1. \A x \in S : under[x] \subseteq S
    <3>. HIDE DEF under, wanted
    <3>. QED  BY <1>1, <1>11
  <2>. HIDE DEF under, wanted, N
  <2>. DEFINE T == {n \in 0 .. N : k[n] \subseteq S}
  <2>2. 0 \in T
    BY <1>0, <1>9, <1>11 DEF Steps
  <2>3. ASSUME NEW n \in 1 .. N, n - 1 \in T PROVE n \in T
    <3>1. n \in 0 .. N /\ n # 0 /\ k[n - 1] \subseteq S
      BY <1>0, <2>3
    <3>2. k[n] = Requested \cup UNION {under[y] : y \in k[n - 1]}
      BY <1>9, <3>1 DEF Steps
    <3>3. ASSUME NEW z \in UNION {under[y] : y \in k[n - 1]} PROVE z \in S
      <4>1. PICK y \in k[n - 1] : z \in under[y]
        OBVIOUS
      <4>. QED  BY <2>1, <3>1, <4>1
    <3>. QED  BY <1>11, <3>1, <3>2, <3>3
  <2>4. T \in SUBSET (0 .. N)
    OBVIOUS
  <2>5. T = 0 .. N
    <3>. HIDE DEF T
    <3>. QED  BY <1>0, <2>2, <2>3, <2>4, UpTo
  <2>. QED  BY <1>0, <2>5
<1>12. \A x \in k[N] : wanted(x) \subseteq k[N]
  <2>. HIDE DEF under, wanted, N
  <2>. QED  BY <1>1, <1>10
<1>. QED  BY <1>7, <1>10, <1>11, <1>12

\* generate_subgraph() finds the packages that the request needs at its level and
\* no others, for every book and every level, whichever way it meets them first.
THEOREM SearchIsWhole == Spec => []GraphIsWhole
<1>1. Inductive /\ Whole => GraphIsWhole
  <2>. SUFFICES ASSUME Inductive, Whole, pc = "clean"
                PROVE  {x \in Packages : dep[x].exists} = Needed(Requested)
    BY DEF GraphIsWhole
  <2>. DEFINE G == {x \in Packages : dep[x].exists}
  <2>1. Typed /\ Followed
    BY DEF Inductive, Whole
  <2>2. Requested \subseteq Packages
    BY <2>1 DEF Followed
  <2>3. ASSUME NEW x \in Packages PROVE Wanted(x, LevelOf(x)) \subseteq Packages
    <3>. SUFFICES ASSUME NEW y \in Wanted(x, LevelOf(x)) PROVE y \in Packages
      OBVIOUS
    <3>1. packages[x].exists /\ \E l \in ToSet(packages[x].lines) : y = l.id
      BY DEF Wanted
    <3>2. packages[x].lines \in Books[x]
      BY <2>1, <3>1 DEF Typed
    <3>3. /\ packages[x].lines \in Seq(Line)
          /\ \A i \in 1 .. Len(packages[x].lines) : packages[x].lines[i].id \in Packages
      BY <3>2, BookLines
    <3>. QED  BY <3>1, <3>3, LenProperties DEF ToSet
  <2>4. \A x \in G : x \in Needed(Requested)
    <3>1. Needed(Requested) \in SUBSET Packages /\ Requested \subseteq Needed(Requested)
          /\ \A x \in Needed(Requested) : Wanted(x, LevelOf(x)) \subseteq Needed(Requested)
      BY <2>2, <2>3, NeededIs
    <3>2. Smallest
      BY <2>1 DEF Followed
    <3>. QED  BY <3>1, <3>2 DEF Smallest
  <2>5. Requested \subseteq G
    BY <2>1 DEF Followed
  <2>6. ASSUME NEW x \in G PROVE Wanted(x, LevelOf(x)) \subseteq G
    <3>. SUFFICES ASSUME NEW y \in Wanted(x, LevelOf(x)) PROVE y \in Packages /\ dep[y].exists
      OBVIOUS
    <3>1. y \in Packages
      BY <2>3
    <3>2. packages[x].exists /\ dep[x] = packages[x] /\ AllThere(x, LevelOf(x))
      BY <2>1 DEF Followed, LevelOf
    <3>3. \E l \in ToSet(packages[x].lines) : l.prio <= LevelOf(x) /\ y = l.id
      BY DEF Wanted
    <3>4. dep[x].lines \in Seq(Line)
      <4>1. dep[x] \in Files /\ dep[x].exists
        BY <2>1, Names DEF Typed, Name
      <4>. QED  BY <4>1, FilesAre
    <3>5. dep[y].exists
      BY <3>2, <3>3, <3>4, LenProperties DEF AllThere, ToSet
    <3>. QED  BY <3>1, <3>5
  <2>7. Needed(Requested) \subseteq G
    <3>1. G \in SUBSET Packages
      OBVIOUS
    <3>. HIDE DEF G
    <3>. QED  BY <2>2, <2>3, <2>5, <2>6, <3>1, NeededIs
  <2>. QED  BY <2>4, <2>7
<1>2. Init => Inductive /\ Whole
  BY InitFiles, InitWhole
<1>3. Inductive /\ Whole /\ [Next]_vars => Whole'
  BY FollowWhole, FollowedWhole, OthersWhole, StutterWhole DEF Next
<1>4. Init => Whole
  BY <1>2
<1>5. Spec => []Whole
  BY <1>3, <1>4, DependenciesInductive, PTL DEF Spec
<1>. QED  BY <1>1, <1>5, DependenciesInductive, PTL

-----------------------------------------------------------------------------
(***************************************************************************)
(* Nothing is listed twice.                                                *)
(***************************************************************************)

\* How many of the first lines are for a name, and how many of the first names
\* that were flagged are that one.
Occurs(lines, n, z) == Cardinality({i \in 1 .. n : lines[i].id = z})
Flagged(remove, n, z) == Cardinality({i \in 1 .. n : remove[i] = z})

\* Counting goes place by place.
LEMMA CountNext ==
    ASSUME NEW n \in Nat, NEW A
    PROVE  /\ Cardinality({i \in 1 .. n : i \in A}) \in 0 .. n
           /\ Cardinality({i \in 1 .. n + 1 : i \in A}) =
                 Cardinality({i \in 1 .. n : i \in A}) + IF n + 1 \in A THEN 1 ELSE 0
<1>. DEFINE B == {i \in 1 .. n : i \in A}
            C == {i \in 1 .. n + 1 : i \in A}
<1>1. IsFiniteSet(1 .. n) /\ Cardinality(1 .. n) = n
  <2>1. Cardinality(1 .. n) = IF 1 > n THEN 0 ELSE n - 1 + 1
    BY FS_Interval
  <2>. QED  BY <2>1, FS_Interval
<1>2. IsFiniteSet(B) /\ Cardinality(B) \in Nat /\ Cardinality(B) <= n
  <2>1. B \in SUBSET (1 .. n)
    OBVIOUS
  <2>. HIDE DEF B
  <2>2. IsFiniteSet(B) /\ Cardinality(B) <= n
    BY <1>1, <2>1, FS_Subset
  <2>. QED  BY <2>2, FS_CardinalityType
<1>3. CASE n + 1 \in A
  <2>1. C = B \cup {n + 1} /\ n + 1 \notin B
    BY <1>3
  <2>. HIDE DEF B, C
  <2>2. Cardinality(C) = Cardinality(B) + 1
    BY <1>2, <2>1, FS_AddElement
  <2>. QED  BY <1>2, <1>3, <2>2 DEF B, C
<1>4. CASE n + 1 \notin A
  <2>1. C = B
    BY <1>4
  <2>. QED  BY <1>2, <1>4, <2>1
<1>. QED  BY <1>3, <1>4

\* Lines for a name, and the next one.
LEMMA OccursNext ==
    ASSUME NEW lines, NEW n \in Nat, NEW z
    PROVE  /\ Occurs(lines, n, z) \in 0 .. n
           /\ Occurs(lines, n + 1, z) =
                 Occurs(lines, n, z) + IF lines[n + 1].id = z THEN 1 ELSE 0
<1>. DEFINE A == {i \in Nat : lines[i].id = z}
<1>1. /\ {i \in 1 .. n : lines[i].id = z} = {i \in 1 .. n : i \in A}
      /\ {i \in 1 .. n + 1 : lines[i].id = z} = {i \in 1 .. n + 1 : i \in A}
      /\ n + 1 \in A <=> lines[n + 1].id = z
  OBVIOUS
<1>. HIDE DEF A
<1>. QED  BY <1>1, CountNext DEF Occurs

\* Names that were flagged, and the next one.
LEMMA FlaggedNext ==
    ASSUME NEW remove, NEW n \in Nat, NEW z
    PROVE  /\ Flagged(remove, n, z) \in 0 .. n
           /\ Flagged(remove, n + 1, z) =
                 Flagged(remove, n, z) + IF remove[n + 1] = z THEN 1 ELSE 0
<1>. DEFINE A == {i \in Nat : remove[i] = z}
<1>1. /\ {i \in 1 .. n : remove[i] = z} = {i \in 1 .. n : i \in A}
      /\ {i \in 1 .. n + 1 : remove[i] = z} = {i \in 1 .. n + 1 : i \in A}
      /\ n + 1 \in A <=> remove[n + 1] = z
  OBVIOUS
<1>. HIDE DEF A
<1>. QED  BY <1>1, CountNext DEF Flagged

\* Nothing is counted of nothing.
LEMMA CountNone == \A s, z : Occurs(s, 0, z) = 0 /\ Flagged(s, 0, z) = 0
<1>1. \A s, z : {i \in 1 .. 0 : s[i].id = z} = {} /\ {i \in 1 .. 0 : s[i] = z} = {}
  OBVIOUS
<1>. QED  BY <1>1, FS_EmptySet DEF Occurs, Flagged

\* What a count says of the lines.
LEMMA OccursSays ==
    ASSUME NEW lines, NEW n \in Nat, NEW z
    PROVE  /\ Occurs(lines, n, z) = 0 => \A i \in 1 .. n : lines[i].id # z
           /\ Occurs(lines, n, z) # 0 => \E i \in 1 .. n : lines[i].id = z
           /\ Occurs(lines, n, z) = 1 =>
                 \A i, j \in 1 .. n : lines[i].id = z /\ lines[j].id = z => i = j
<1>. DEFINE A == {i \in 1 .. n : lines[i].id = z}
<1>1. IsFiniteSet(A)
  <2>1. A \in SUBSET (1 .. n) /\ IsFiniteSet(1 .. n)
    BY FS_Interval
  <2>. HIDE DEF A
  <2>. QED  BY <2>1, FS_Subset
<1>2. Cardinality(A) = 0 <=> A = {}
  <2>. HIDE DEF A
  <2>. QED  BY <1>1, FS_EmptySet
<1>3. ASSUME Cardinality(A) = 1 PROVE \E x : A = {x}
  <2>. HIDE DEF A
  <2>. QED  BY <1>1, <1>3, FS_Singleton
<1>4. ASSUME Occurs(lines, n, z) = 1, NEW i \in 1 .. n, NEW j \in 1 .. n,
             lines[i].id = z, lines[j].id = z
      PROVE  i = j
  <2>1. PICK x : A = {x}
    BY <1>3, <1>4 DEF Occurs
  <2>2. i \in A /\ j \in A
    BY <1>4
  <2>. HIDE DEF A
  <2>. QED  BY <2>1, <2>2
<1>. QED  BY <1>2, <1>4 DEF Occurs

\* Lines that agree are counted alike.
LEMMA OccursAgree ==
    ASSUME NEW s, NEW t, NEW n \in Nat, \A i \in 1 .. n : s[i] = t[i], NEW z
    PROVE  Occurs(s, n, z) = Occurs(t, n, z)
<1>1. {i \in 1 .. n : s[i].id = z} = {i \in 1 .. n : t[i].id = z}
  OBVIOUS
<1>. QED  BY <1>1 DEF Occurs

LEMMA FlaggedAgree ==
    ASSUME NEW s, NEW t, NEW n \in Nat, \A i \in 1 .. n : s[i] = t[i], NEW z
    PROVE  Flagged(s, n, z) = Flagged(t, n, z)
<1>1. {i \in 1 .. n : s[i] = z} = {i \in 1 .. n : t[i] = z}
  OBVIOUS
<1>. QED  BY <1>1 DEF Flagged

\* One list has all lines of another but the m-th.
Skips(t, s, N, m) == \A i \in 1 .. N - 1 : t[i] = IF i < m THEN s[i] ELSE s[i + 1]

\* When a line goes, there is one less for its name.
LEMMA OccursWithout ==
    ASSUME NEW s, NEW N \in Nat, NEW m \in 1 .. N, NEW t, Skips(t, s, N, m), NEW z
    PROVE  Occurs(t, N - 1, z) = Occurs(s, N, z) - IF s[m].id = z THEN 1 ELSE 0
<1>. DEFINE A == {i \in 1 .. N : s[i].id = z}
            B == {i \in 1 .. N - 1 : t[i].id = z}
            f == [i \in B |-> IF i < m THEN i ELSE i + 1]
<1>0. \A i \in 1 .. N - 1 : t[i] = IF i < m THEN s[i] ELSE s[i + 1]
  BY DEF Skips
<1>1. IsFiniteSet(A) /\ IsFiniteSet(B)
  <2>1. A \in SUBSET (1 .. N) /\ B \in SUBSET (1 .. N) /\ IsFiniteSet(1 .. N)
    BY FS_Interval
  <2>. HIDE DEF A, B
  <2>. QED  BY <2>1, FS_Subset
<1>2. f \in Bijection(B, A \ {m})
  <2>1. ASSUME NEW i \in B PROVE f[i] \in A \ {m}
    <3>1. CASE i < m
      BY <1>0, <3>1
    <3>2. CASE ~(i < m)
      <4>1. i + 1 \in 1 .. N /\ s[i + 1].id = z /\ i + 1 # m
        BY <1>0, <3>2
      <4>. QED  BY <3>2, <4>1
    <3>. QED  BY <3>1, <3>2
  <2>2. ASSUME NEW i \in B, NEW j \in B, f[i] = f[j] PROVE i = j
    <3>1. i \in Int /\ j \in Int /\ m \in Int
      OBVIOUS
    <3>2. f[i] = (IF i < m THEN i ELSE i + 1) /\ f[j] = (IF j < m THEN j ELSE j + 1)
      OBVIOUS
    <3>3. (IF i < m THEN i ELSE i + 1) = (IF j < m THEN j ELSE j + 1)
      BY <2>2, <3>2
    <3>. HIDE DEF B, f
    <3>. QED  BY <3>1, <3>3
  <2>3. ASSUME NEW a \in A \ {m} PROVE \E i \in B : f[i] = a
    <3>1. CASE a < m
      <4>1. a \in B
        BY <1>0, <3>1
      <4>. QED  BY <3>1, <4>1
    <3>2. CASE ~(a < m)
      <4>1. a - 1 \in 1 .. N - 1 /\ ~(a - 1 < m) /\ a - 1 + 1 = a
        BY <3>2
      <4>2. t[a - 1] = s[a]
        BY <1>0, <4>1
      <4>3. a - 1 \in B
        BY <4>1, <4>2
      <4>4. f[a - 1] = a
        BY <4>1, <4>3
      <4>. QED  BY <4>3, <4>4
    <3>. QED  BY <3>1, <3>2
  <2>. HIDE DEF A, B
  <2>4. f \in [B -> A \ {m}]
    BY <2>1
  <2>. HIDE DEF f
  <2>. QED  BY <2>2, <2>3, <2>4, Zenon DEF Bijection, Injection, Surjection, IsInjective
<1>. HIDE DEF f
<1>3. Cardinality(B) = Cardinality(A \ {m})
  <2>. HIDE DEF A, B
  <2>1. ExistsBijection(B, A \ {m})
    BY <1>2 DEF ExistsBijection
  <2>. QED  BY <1>1, <2>1, FS_Bijection
<1>4. Cardinality(A) \in Nat
  BY <1>1, FS_CardinalityType
<1>5. CASE s[m].id = z
  <2>1. m \in A
    BY <1>5
  <2>. HIDE DEF A, B
  <2>2. Cardinality(A \ {m}) = Cardinality(A) - 1
    BY <1>1, <2>1, FS_RemoveElement
  <2>. QED  BY <1>3, <1>5, <2>2 DEF Occurs, A, B
<1>6. CASE s[m].id # z
  <2>1. A \ {m} = A
    BY <1>6
  <2>. HIDE DEF A, B
  <2>2. Cardinality(B) = Cardinality(A) - 0
    BY <1>3, <1>4, <2>1
  <2>. QED  BY <1>6, <2>2 DEF Occurs, A, B
<1>. QED  BY <1>5, <1>6

\* When no name was flagged more often than it has lines, the lines that are
\* left are those that were not flagged.
LEMMA OccursLeft ==
    ASSUME NEW lines \in Seq(Line), NEW remove \in Seq(Name),
           \A z \in Node : Flagged(remove, Len(remove), z) <= Occurs(lines, Len(lines), z)
    PROVE  LET w == without_flagged(lines, remove)
           IN  /\ w \in Seq(Line)
               /\ \A z \in Node : Occurs(w, Len(w), z) =
                     Occurs(lines, Len(lines), z) - Flagged(remove, Len(remove), z)
<1>. DEFINE N == Len(remove)
            V == Seq(Line)
            step == [n \in 1 .. N |-> [v \in V |-> without_last(v, remove[n])]]
            O(s, z) == Occurs(s, Len(s), z)
            w == without_flagged(lines, remove)
<1>1. PICK left : Follows(left, N, V, lines, step) /\ w = left[N] /\ w \in V
  BY WithoutFlagged, ZenonT(60)
<1>2. N \in Nat /\ N \in 0 .. N /\ 0 \in 0 .. N /\ \A n \in 1 .. N : remove[n] \in Name
  <2>1. N \in Nat
    BY LenProperties
  <2>. QED  BY <2>1, ElementOfSeq
<1>3. \A n \in 0 .. N : left[n] \in V
  <2>. HIDE DEF V, N, step
  <2>. QED  BY <1>1 DEF Follows
<1>4. left[0] = lines /\ \A n \in 1 .. N : left[n] = without_last(left[n - 1], remove[n])
  <2>1. ASSUME NEW n \in 1 .. N PROVE left[n] = without_last(left[n - 1], remove[n])
    <3>1. left[n] = step[n][left[n - 1]]
      <4>. HIDE DEF step, V, N
      <4>. QED  BY <1>1 DEF Follows
    <3>2. n - 1 \in 0 .. N
      BY <1>2
    <3>3. left[n - 1] \in V
      BY <1>3, <3>2
    <3>. QED  BY <3>1, <3>3
  <2>2. left[0] = lines
    <3>. HIDE DEF step, V, N
    <3>. QED  BY <1>1 DEF Follows
  <2>. QED  BY <2>1, <2>2
<1>5. \A s \in V : \A z : O(s, z) \in Nat
  <2>1. ASSUME NEW s \in V, NEW z PROVE O(s, z) \in Nat
    <3>1. Len(s) \in Nat
      BY LenProperties
    <3>2. Occurs(s, Len(s), z) \in 0 .. Len(s)
      BY <3>1, OccursNext
    <3>. QED  BY <3>1, <3>2
  <2>. QED  BY <2>1
<1>6. \A n \in Nat : \A z : Flagged(remove, n, z) \in Nat
  <2>1. ASSUME NEW n \in Nat, NEW z PROVE Flagged(remove, n, z) \in Nat
    <3>1. Flagged(remove, n, z) \in 0 .. n
      BY FlaggedNext
    <3>. QED  BY <3>1
  <2>. QED  BY <2>1
\* The count grows as more of the names are taken.
<1>7. ASSUME NEW z, NEW n \in 1 .. N PROVE Flagged(remove, n, z) <= Flagged(remove, N, z)
  <2>1. {i \in 1 .. n : remove[i] = z} \in SUBSET {i \in 1 .. N : remove[i] = z}
    BY <1>2
  <2>2. IsFiniteSet({i \in 1 .. N : remove[i] = z})
    <3>1. {i \in 1 .. N : remove[i] = z} \in SUBSET (1 .. N) /\ IsFiniteSet(1 .. N)
      BY <1>2, FS_Interval
    <3>. QED  BY <3>1, FS_Subset
  <2>. QED  BY <2>1, <2>2, FS_Subset DEF Flagged
<1>. DEFINE T == {n \in 0 .. N : \A z \in Node :
                     O(left[n], z) = O(lines, z) - Flagged(remove, n, z)}
<1>8. 0 \in T
  <2>1. ASSUME NEW z \in Node PROVE O(left[0], z) = O(lines, z) - Flagged(remove, 0, z)
    <3>1. Flagged(remove, 0, z) = 0
      BY CountNone
    <3>2. O(lines, z) \in Nat
      <4>. HIDE DEF O
      <4>. QED  BY <1>5
    <3>. HIDE DEF O
    <3>. QED  BY <1>4, <3>1, <3>2
  <2>. QED  BY <1>2, <2>1
<1>9. ASSUME NEW n \in 1 .. N, n - 1 \in T PROVE n \in T
  <2>. DEFINE s == left[n - 1]
              t == left[n]
              x == remove[n]
  <2>1. n \in 0 .. N /\ n - 1 \in 0 .. N /\ n - 1 \in Nat /\ n - 1 + 1 = n
    BY <1>2
  <2>2. s \in Seq(Line) /\ x \in Node /\ t = without_last(s, x)
    BY <1>2, <1>3, <1>4, <2>1, Names
  <2>3. \A z \in Node : O(s, z) = O(lines, z) - Flagged(remove, n - 1, z)
    BY <1>9
  <2>4. \A z : Flagged(remove, n, z) = Flagged(remove, n - 1, z) + IF x = z THEN 1 ELSE 0
    <3>1. ASSUME NEW z
          PROVE  Flagged(remove, n - 1 + 1, z)
                    = Flagged(remove, n - 1, z) + IF remove[n - 1 + 1] = z THEN 1 ELSE 0
      BY <2>1, FlaggedNext
    <3>. QED  BY <2>1, <3>1
  <2>. HIDE DEF s, t, x, O
  <2>5. O(s, x) # 0
    <3>1. Flagged(remove, N, x) <= O(lines, x)
      BY <2>2 DEF O
    <3>2. Flagged(remove, n, x) <= Flagged(remove, N, x)
      BY <1>7
    <3>3. Flagged(remove, n, x) = Flagged(remove, n - 1, x) + 1
      BY <2>4
    <3>4. /\ Flagged(remove, n, x) \in Nat /\ Flagged(remove, n - 1, x) \in Nat
          /\ Flagged(remove, N, x) \in Nat /\ O(lines, x) \in Nat
      BY <1>2, <1>5, <1>6, <2>1
    <3>. QED  BY <2>2, <2>3, <3>1, <3>2, <3>3, <3>4
  <2>6. Len(s) \in Nat /\ DOMAIN s = 1 .. Len(s)
    BY <2>2, LenProperties
  <2>7. \E i \in DOMAIN s : s[i].id = x
    BY <2>5, <2>6, OccursSays DEF O
  <2>8. PICK m \in 1 .. Len(s) : /\ s[m].id = x /\ Len(t) = Len(s) - 1
                                 /\ \A i \in 1 .. Len(s) - 1 :
                                       t[i] = IF i < m THEN s[i] ELSE s[i + 1]
    BY <2>2, <2>7, WithoutLast, SMTT(30)
  <2>9. ASSUME NEW z \in Node PROVE O(t, z) = O(s, z) - IF x = z THEN 1 ELSE 0
    <3>1. Skips(t, s, Len(s), m)
      BY <2>8 DEF Skips
    <3>2. Occurs(t, Len(s) - 1, z) = Occurs(s, Len(s), z) - IF s[m].id = z THEN 1 ELSE 0
      BY <2>6, <2>8, <3>1, OccursWithout
    <3>. QED  BY <2>8, <3>2 DEF O
  <2>10. ASSUME NEW z \in Node PROVE O(t, z) = O(lines, z) - Flagged(remove, n, z)
    <3>1. O(lines, z) \in Nat /\ Flagged(remove, n - 1, z) \in Nat
      BY <1>5, <1>6, <2>1
    <3>. QED  BY <2>3, <2>4, <2>9, <3>1
  <2>. QED  BY <2>1, <2>10 DEF t
<1>10. T = 0 .. N
  <2>1. T \in SUBSET (0 .. N)
    OBVIOUS
  <2>. HIDE DEF T
  <2>. QED  BY <1>2, <1>8, <1>9, <2>1, UpTo
<1>. QED  BY <1>1, <1>2, <1>10

\* The tree of one package is directly below that of another.
Hangs(z, y) ==
    /\ tree[z].exists /\ tree[y].exists
    /\ Len(tree[z].link) = Len(tree[y].link) + 1
    /\ \A i \in 1 .. Len(tree[y].link) : tree[z].link[i] = tree[y].link[i]

\* Of the lines that the i-th call has read, all are flagged but the one by
\* which z got its tree there.
Balanced(i, z) ==
    LET f == stack[i]
    IN  Occurs(tree[f.node].lines, f.count, z) =
            Flagged(f.remove, Len(f.remove), z) + IF Hangs(z, f.node) THEN 1 ELSE 0

Counted == pc = "tree" => \A i \in 1 .. Len(stack), z \in Node : Balanced(i, z)

\* Each name that a file has is there once, with its tree below.
Settled(y) ==
    /\ \A i, j \in 1 .. Len(tree[y].lines) : tree[y].lines[i].id = tree[y].lines[j].id => i = j
    /\ \A i \in 1 .. Len(tree[y].lines) : Hangs(tree[y].lines[i].id, y)

Active(y) == \E i \in 1 .. Len(stack) : stack[i].node = y

\* Calls have returned from it to an edge above: it is going to be erased.
Given_up(y) == returned # 0 /\ Through(tree[y].link, Len(stack) + 1)

Finished ==
    pc \in {"tree", "done"} =>
        \A y \in Node : tree[y].exists /\ ~Active(y) /\ ~Given_up(y) => Settled(y)

\* Every tree but the first is named by the file above it.
NamedAbove ==
    pc \in {"tree", "done"} =>
        \A z \in Node : tree[z].exists /\ z # root =>
            \E y \in Node : Hangs(z, y) /\ \E i \in 1 .. Len(tree[y].lines) :
                                               tree[y].lines[i].id = z

ListedOnce == Counted /\ Finished /\ NamedAbove

\* What trees are while they are there.
LEMMA Planks ==
    ASSUME Inductive, pc \in {"tree", "done"}
    PROVE  \A y \in Node : tree[y].exists =>
              /\ tree[y].link \in Seq(Nat) /\ Len(tree[y].link) \in Nat
              /\ Len(tree[y].link) >= 1 /\ (y # root => Len(tree[y].link) >= 2)
              /\ tree[y].lines \in Seq(Line) /\ Len(tree[y].lines) \in Nat
              /\ \A i \in 1 .. Len(tree[y].lines) : /\ tree[y].lines[i].id \in Node
                                                    /\ tree[y].lines[i].id # root
<1>1. ASSUME NEW y \in Node, tree[y].exists
      PROVE  tree[y].link \in Seq(Nat) /\ tree[y].lines \in Seq(Line)
  BY <1>1, TreesAre DEF Inductive, Typed
<1>2. ASSUME NEW s \in Seq(Line), NEW i \in 1 .. Len(s) PROVE s[i].id \in Node /\ s[i].id # root
  <2>1. s[i] \in Line
    BY ElementOfSeq
  <2>. QED  BY <2>1, Names
<1>. QED  BY <1>1, <1>2, LenProperties DEF Inductive, Planted

\* Links with the same entries are the same, and so are their trees.
LEMMA SamePlace ==
    ASSUME Inductive, pc \in {"tree", "done"}, NEW y \in Node, NEW z \in Node,
           tree[y].exists, tree[z].exists, Len(tree[y].link) = Len(tree[z].link),
           \A i \in 1 .. Len(tree[y].link) : tree[y].link[i] = tree[z].link[i]
    PROVE  y = z
<1>1. tree[y].link \in Seq(Nat) /\ tree[z].link \in Seq(Nat)
  BY Planks
<1>2. tree[y].link = tree[z].link
  <2>. DEFINE a == tree[y].link
              b == tree[z].link
  <2>1. a \in Seq(Nat) /\ b \in Seq(Nat) /\ Len(a) = Len(b) /\ \A i \in 1 .. Len(a) : a[i] = b[i]
    BY <1>1
  <2>. HIDE DEF a, b
  <2>2. a = b
    BY <2>1, SeqEqual
  <2>. QED  BY <2>2 DEF a, b
<1>. QED  BY <1>2 DEF Inductive, Planted, LinksAreUnique

\* Trees with the same links are at the same places.
LEMMA HangsAlike ==
    ASSUME NEW y, NEW z,
           tree'[y].exists <=> tree[y].exists, tree'[z].exists <=> tree[z].exists,
           tree[y].exists => tree'[y].link = tree[y].link,
           tree[z].exists => tree'[z].link = tree[z].link
    PROVE  Hangs(z, y)' <=> Hangs(z, y)
BY DEF Hangs

\* A line that is read and flagged is counted twice.
LEMMA FlaggedListed ==
    ASSUME Inductive, ListedOnce, reading, UNCHANGED <<tree, pc, returned>>,
           stack' = flagged(line_read.id)
    PROVE  ListedOnce'
<1>0. PICK k, x, n, c, r : /\ k = Len(stack) /\ x = line_read.id /\ n = stack[k].node
                           /\ c = stack[k].count /\ r = stack[k].remove
  OBVIOUS
<1>1. /\ pc = "tree" /\ returned = 0 /\ stack # <<>> /\ stack \in Seq(Frames) /\ x \in Name
      /\ here = tree[n] /\ next_line = c + 1 /\ line_read = tree[n].lines[c + 1]
  <2>1. pc = "tree" /\ returned = 0 /\ here = tree[n] /\ x \in Name
    BY <1>0, LineRead DEF reading
  <2>2. stack # <<>> /\ next_line = c + 1
    BY <1>0, <2>1, InTree
  <2>. QED  BY <2>1, <2>2 DEF line_read, Inductive, Typed
<1>2. /\ k \in 1 .. k /\ c \in Nat /\ r \in Seq(Name) /\ Len(r) \in Nat /\ k \in Nat
  <2>0. Len(stack) \in Nat \ {0}
    BY <1>1, Calls
  <2>1. k \in Nat /\ k \in 1 .. k
    BY <1>0, <2>0
  <2>2. c \in Nat /\ r \in Seq(Name)
    BY <1>0, <1>1, <2>1, Calls, Zenon
  <2>. QED  BY <2>1, <2>2, LenProperties
<1>3. /\ Len(stack') = k
      /\ \A i \in 1 .. k : i # k => stack'[i] = stack[i]
      /\ \A i \in 1 .. k : stack'[i].node = stack[i].node
      /\ stack'[k].count = c + 1 /\ stack'[k].remove = Append(r, x)
  BY <1>0, <1>1, Flags, Zenon
<1>4. \A y, z : Hangs(z, y)' <=> Hangs(z, y)
  BY DEF Hangs
<1>5. ASSUME NEW i \in 1 .. k, NEW z \in Node PROVE Balanced(i, z)'
  <2>1. Balanced(i, z)
    BY <1>0, <1>1 DEF ListedOnce, Counted
  <2>2. CASE i # k
    BY <1>3, <1>4, <2>1, <2>2 DEF Balanced
  <2>3. CASE i = k
    <3>. DEFINE s == tree[n].lines
                q == Append(r, x)
                h == IF Hangs(z, n) THEN 1 ELSE 0
    <3>1. Occurs(s, c, z) = Flagged(r, Len(r), z) + h
      BY <1>0, <2>1, <2>3 DEF Balanced
    <3>2. Occurs(s, c + 1, z) = Occurs(s, c, z) + IF x = z THEN 1 ELSE 0
      <4>1. s[c + 1].id = x
        BY <1>0, <1>1
      <4>. HIDE DEF s
      <4>2. Occurs(s, c + 1, z) = Occurs(s, c, z) + IF s[c + 1].id = z THEN 1 ELSE 0
        BY <1>2, OccursNext
      <4>. QED  BY <4>1, <4>2
    <3>3. Len(q) = Len(r) + 1 /\ q[Len(r) + 1] = x /\ \A j \in 1 .. Len(r) : q[j] = r[j]
      BY <1>1, <1>2, AppendProperties
    <3>. HIDE DEF q
    <3>4. Flagged(q, Len(q), z) = Flagged(r, Len(r), z) + IF x = z THEN 1 ELSE 0
      <4>1. Flagged(q, Len(r), z) = Flagged(r, Len(r), z)
        BY <1>2, <3>3, FlaggedAgree
      <4>2. Flagged(q, Len(r) + 1, z) = Flagged(q, Len(r), z) + IF q[Len(r) + 1] = z THEN 1 ELSE 0
        BY <1>2, FlaggedNext
      <4>. QED  BY <3>3, <4>1, <4>2
    <3>5. h \in Nat /\ Flagged(r, Len(r), z) \in Nat
      <4>1. Flagged(r, Len(r), z) \in 0 .. Len(r)
        BY <1>2, FlaggedNext
      <4>. QED  BY <1>2, <4>1
    <3>. HIDE DEF s, h
    <3>6. Occurs(s, c + 1, z) = Flagged(q, Len(q), z) + h
      BY <3>1, <3>2, <3>4, <3>5
    <3>. QED  BY <1>0, <1>3, <1>4, <2>3, <3>6 DEF Balanced, s, h, q
  <2>. QED  BY <2>2, <2>3
<1>6. Counted'
  BY <1>3, <1>5 DEF Counted
<1>7. Finished'
  <2>1. \A y : Active(y)' <=> Active(y)
    BY <1>0, <1>3 DEF Active
  <2>2. \A y : ~Given_up(y)
    BY <1>1 DEF Given_up
  <2>3. \A y : Settled(y)' <=> Settled(y)
    BY <1>4 DEF Settled
  <2>. QED  BY <2>1, <2>2, <2>3 DEF ListedOnce, Finished
<1>8. NamedAbove'
  BY <1>4 DEF ListedOnce, NamedAbove
<1>. QED  BY <1>6, <1>7, <1>8 DEF ListedOnce

\* A call that is left for an edge above gives its trees up.
LEMMA GivenUpListed ==
    ASSUME Inductive, Inductive', ListedOnce, pc = "tree", pc' = "tree",
           stack' = caller, returned' # 0, UNCHANGED tree
    PROVE  ListedOnce'
<1>0. PICK k : k = Len(stack)
  OBVIOUS
<1>1. /\ k \in Nat \ {0} /\ k \in 1 .. k /\ stack \in Seq(Frames) /\ stack # <<>> /\ k # 1
      /\ Len(stack') = k - 1 /\ \A i \in 1 .. k - 1 : stack'[i] = stack[i]
  <2>1. stack \in Seq(Frames) /\ stack # <<>> /\ stack' # <<>>
    BY DEF Inductive, Typed
  <2>. QED  BY <1>0, <2>1, Calls
<1>2. \A link : Through(link, k)' <=> Through(link, k)
  <2>1. \A i \in 1 .. k - 1 : stack'[i].count = stack[i].count
    BY <1>1
  <2>. QED  BY <1>1, <2>1, Places
<1>3. \A y, z : Hangs(z, y)' <=> Hangs(z, y)
  BY DEF Hangs
<1>4. Counted'
  <2>1. ASSUME NEW i \in 1 .. k - 1, NEW z \in Node PROVE Balanced(i, z)'
    <3>1. i \in 1 .. k
      BY <1>1
    <3>2. Balanced(i, z)
      BY <1>0, <3>1 DEF ListedOnce, Counted
    <3>. QED  BY <1>1, <1>3, <3>2 DEF Balanced
  <2>. QED  BY <1>1, <2>1 DEF Counted
<1>5. Finished'
  <2>1. ASSUME NEW y \in Node, tree[y].exists, ~Active(y)', ~Given_up(y)' PROVE Settled(y)'
    <3>1. ~Through(tree[y].link, k)
      <4>1. Len(stack') + 1 = k
        BY <1>1
      <4>2. ~Through(tree[y].link, k)'
        BY <2>1, <4>1 DEF Given_up
      <4>. QED  BY <1>2, <4>2
    <3>2. y # stack[k].node
      <4>1. Through(tree[stack[k].node].link, k)
        BY <1>0, <1>1 DEF Inductive, Way, OnWay
      <4>. QED  BY <3>1, <4>1
    <3>3. ~Active(y)
      <4>1. \A i \in 1 .. k : i \in 1 .. k - 1 \/ i = k
        BY <1>1
      <4>. QED  BY <1>0, <1>1, <2>1, <3>2, <4>1 DEF Active
    <3>4. ~Through(tree[y].link, k + 1)
      <4>1. Len(tree[y].link) \in Nat
        BY <2>1, Planks
      <4>2. \A m \in 1 .. k : m \in 1 .. k + 1
        BY <1>1
      <4>. QED  BY <1>1, <3>1, <4>1, <4>2 DEF Through
    <3>5. Settled(y)
      BY <1>0, <2>1, <3>3, <3>4 DEF ListedOnce, Finished, Given_up
    <3>. QED  BY <1>3, <3>5 DEF Settled
  <2>. QED  BY <2>1 DEF Finished
<1>6. NamedAbove'
  BY <1>3 DEF ListedOnce, NamedAbove
<1>. QED  BY <1>4, <1>5, <1>6 DEF ListedOnce

\* The names that were not flagged stay in the file, once each.
LEMMA EndOfFileListed == Inductive /\ Inductive' /\ ListedOnce /\ end_of_file => ListedOnce'
<1>. SUFFICES ASSUME Inductive, Inductive', ListedOnce, end_of_file PROVE ListedOnce'
  OBVIOUS
<1>0. PICK k, n, s, r, w : /\ k = Len(stack) /\ n = stack[k].node /\ s = tree[n].lines
                           /\ r = stack[k].remove /\ w = without_flagged(s, r)
  OBVIOUS
<1>1. /\ Typed /\ pc = "tree" /\ returned = 0 /\ stack # <<>> /\ stack \in Seq(Frames)
  BY DEF Inductive, end_of_file, Typed
<1>2. /\ k \in Nat \ {0} /\ call = stack[k] /\ k \in 1 .. k
      /\ next_line = stack[k].count + 1 /\ stack[k].count \in Nat
      /\ \A i \in 1 .. k : stack[i].node \in Node /\ tree[stack[i].node].exists
      /\ \A i \in 1 .. k, j \in 1 .. k : stack[i].node = stack[j].node => i = j
      /\ s \in Seq(Line) /\ Len(s) \in Nat
  <2>1. /\ k \in Nat \ {0} /\ call = stack[k] /\ k \in 1 .. k
        /\ next_line = stack[k].count + 1
        /\ \A i \in 1 .. k, j \in 1 .. k : stack[i].node = stack[j].node => i = j
    BY <1>0, <1>1, InTree
  <2>2. \A i \in 1 .. k : stack[i].node \in Node /\ tree[stack[i].node].exists
    BY <1>0, <1>1, InTree
  <2>3. s \in Seq(Line) /\ Len(s) \in Nat /\ stack[k].count \in Nat
    BY <1>0, <1>1, <2>1, InTree
  <2>. QED  BY <2>1, <2>2, <2>3
<1>3. /\ r \in Seq(Name) /\ Len(caller) = k - 1 /\ \A i \in 1 .. k - 1 : caller[i] = stack[i]
  BY <1>0, <1>1, <1>2, Calls
<1>4. /\ stack' = caller /\ returned' = 0 /\ tree' = [tree EXCEPT ![n].lines = w]
      /\ stack[k].count = Len(s)
  <2>1. /\ stack' = caller /\ returned' = 0 /\ tree' = [tree EXCEPT ![n].lines = w]
        /\ next_line > Len(s)
    BY <1>0, <1>1, <1>2 DEF end_of_file, here
  <2>2. stack[k].count <= Len(s)
    BY <1>0, <1>1, <1>2 DEF Inductive, Way, OnWay
  <2>. QED  BY <1>2, <2>1, <2>2
<1>5. n \in Node /\ tree[n].exists /\ tree[n] \in Trees
  BY <1>0, <1>1, <1>2 DEF Typed
\* What was counted stays once for each tree below.
<1>6. /\ w \in Seq(Line) /\ Len(w) \in Nat
      /\ \A z \in Node : Occurs(w, Len(w), z) = IF Hangs(z, n) THEN 1 ELSE 0
  <2>1. \A z \in Node : Occurs(s, Len(s), z)
                           = Flagged(r, Len(r), z) + IF Hangs(z, n) THEN 1 ELSE 0
    BY <1>0, <1>1, <1>2, <1>4 DEF ListedOnce, Counted, Balanced
  <2>2. Len(r) \in Nat /\ \A z : Flagged(r, Len(r), z) \in Nat
    <3>1. Len(r) \in Nat
      BY <1>3, LenProperties
    <3>2. ASSUME NEW z PROVE Flagged(r, Len(r), z) \in 0 .. Len(r)
      BY <3>1, FlaggedNext
    <3>. QED  BY <3>1, <3>2
  <2>3. \A z \in Node : Flagged(r, Len(r), z) <= Occurs(s, Len(s), z)
    BY <2>1, <2>2
  <2>4. w \in Seq(Line) /\ \A z \in Node : Occurs(w, Len(w), z)
                              = Occurs(s, Len(s), z) - Flagged(r, Len(r), z)
    BY <1>0, <1>2, <1>3, <2>3, OccursLeft
  <2>5. \A z \in Node : Occurs(w, Len(w), z) = IF Hangs(z, n) THEN 1 ELSE 0
    BY <2>1, <2>2, <2>4
  <2>. QED  BY <2>4, <2>5, LenProperties
<1>. DEFINE t == [tree[n] EXCEPT !.lines = w]
<1>7. t.exists /\ t.link = tree[n].link /\ t.lines = w
  BY <1>5, <1>6, TreeWithLines
<1>8. \A y \in Node : tree'[y] = IF y = n THEN t ELSE tree[y]
  <2>1. tree' = [tree EXCEPT ![n] = t]
    BY <1>4
  <2>. HIDE DEF t
  <2>. QED  BY <1>1, <1>5, <1>7, <2>1 DEF Typed
<1>. HIDE DEF t
<1>9. ASSUME NEW y \in Node, NEW z \in Node PROVE Hangs(z, y)' <=> Hangs(z, y)
  <2>1. \A u \in Node : (tree'[u].exists <=> tree[u].exists)
                         /\ (tree[u].exists => tree'[u].link = tree[u].link)
    BY <1>5, <1>7, <1>8
  <2>. QED  BY <2>1, HangsAlike
<1>10. Counted'
  <2>1. ASSUME NEW i \in 1 .. k - 1, NEW z \in Node PROVE Balanced(i, z)'
    <3>1. i \in 1 .. k /\ i # k
      BY <1>2
    <3>2. Balanced(i, z)
      BY <1>0, <1>1, <3>1 DEF ListedOnce, Counted
    <3>3. stack[i].node \in Node /\ stack[i].node # n
      BY <1>0, <1>2, <3>1
    <3>4. tree'[stack[i].node] = tree[stack[i].node] /\ stack'[i] = stack[i]
      BY <1>3, <1>4, <1>8, <3>3
    <3>. QED  BY <1>9, <3>2, <3>3, <3>4 DEF Balanced
  <2>. QED  BY <1>3, <1>4, <2>1 DEF Counted
<1>11. Settled(n)'
  <2>1. tree'[n].lines = w
    BY <1>5, <1>7, <1>8
  <2>2. ASSUME NEW i \in 1 .. Len(w)
        PROVE  /\ Hangs(w[i].id, n)'
               /\ \A j \in 1 .. Len(w) : w[i].id = w[j].id => i = j
    <3>. DEFINE z == w[i].id
    <3>1. z \in Node
      BY <1>6, ElementOfSeq, Names
    <3>2. Occurs(w, Len(w), z) # 0
      BY <1>6, OccursSays
    <3>3. Hangs(z, n) /\ Occurs(w, Len(w), z) = 1
      BY <1>6, <3>1, <3>2
    <3>4. \A j \in 1 .. Len(w) : w[j].id = z => i = j
      BY <1>6, <3>3, OccursSays
    <3>. QED  BY <1>5, <1>9, <3>1, <3>3, <3>4
  <2>. QED  BY <2>1, <2>2 DEF Settled
<1>12. Finished'
  <2>1. ASSUME NEW y \in Node, tree'[y].exists, ~Active(y)' PROVE Settled(y)'
    <3>1. CASE y = n
      BY <1>11, <3>1
    <3>2. CASE y # n
      <4>1. ~Active(y)
        <5>1. \A i \in 1 .. k : i \in 1 .. k - 1 \/ i = k
          BY <1>2
        <5>. QED  BY <1>0, <1>3, <1>4, <2>1, <3>2, <5>1 DEF Active
      <4>2. tree'[y] = tree[y]
        BY <1>8, <3>2
      <4>3. Settled(y)
        BY <1>1, <2>1, <4>1, <4>2 DEF ListedOnce, Finished, Given_up
      <4>4. \A i \in 1 .. Len(tree[y].lines) : tree[y].lines[i].id \in Node
        BY <1>1, <2>1, <4>2, Planks
      <4>. QED  BY <1>9, <4>2, <4>3, <4>4 DEF Settled
    <3>. QED  BY <3>1, <3>2
  <2>. QED  BY <2>1 DEF Finished
<1>13. NamedAbove'
  <2>1. ASSUME NEW z \in Node, tree'[z].exists, z # root
        PROVE  \E y \in Node : Hangs(z, y)' /\ \E i \in 1 .. Len(tree'[y].lines) :
                                                   tree'[y].lines[i].id = z
    <3>1. tree[z].exists
      BY <1>5, <1>7, <1>8, <2>1
    <3>2. PICK y \in Node : Hangs(z, y) /\ \E i \in 1 .. Len(tree[y].lines) :
                                               tree[y].lines[i].id = z
      BY <1>1, <2>1, <3>1 DEF ListedOnce, NamedAbove
    <3>3. Hangs(z, y)'
      BY <1>9, <3>2
    <3>4. CASE y # n
      BY <1>8, <3>2, <3>3, <3>4
    <3>5. CASE y = n
      <4>1. Occurs(w, Len(w), z) # 0
        BY <1>6, <3>2, <3>5
      <4>2. \E i \in 1 .. Len(w) : w[i].id = z
        BY <1>6, <4>1, OccursSays
      <4>. QED  BY <1>7, <1>8, <3>3, <3>5, <4>2
    <3>. QED  BY <3>4, <3>5
  <2>. QED  BY <2>1 DEF NamedAbove
<1>. QED  BY <1>10, <1>12, <1>13 DEF ListedOnce

\* A package that gets a tree is counted below the file that names it.
LEMMA DescendListed == Inductive /\ Inductive' /\ ListedOnce /\ descend => ListedOnce'
<1>. SUFFICES ASSUME Inductive, Inductive', ListedOnce, descend PROVE ListedOnce'
  OBVIOUS
<1>0. PICK k, n, x, c, b : /\ k = Len(stack) /\ n = stack[k].node /\ x = line_read.id
                           /\ c = stack[k].count /\ b = Append(here.link, next_line)
  OBVIOUS
<1>1. /\ Typed /\ Planted /\ reading /\ pc = "tree" /\ pc' = "tree" /\ stack # <<>>
      /\ stack \in Seq(Frames) /\ returned = 0 /\ returned' = 0 /\ ~tree[x].exists
      /\ tree \in [Node -> Trees] /\ k = Len(stack)
  BY <1>0 DEF Inductive, descend, reading, Typed
<1>2. /\ k \in Nat \ {0} /\ k \in 1 .. k /\ call = stack[k] /\ c \in Nat /\ next_line = c + 1
      /\ \A i \in 1 .. k : LET m == stack[i].node
                           IN  /\ m \in Node /\ stack[i].count \in Nat /\ stack[i].depth = i
                               /\ tree[m].exists
  <2>1. k \in Nat \ {0} /\ k \in 1 .. k /\ call = stack[k] /\ next_line = stack[k].count + 1
    BY <1>1, InTree
  <2>. QED  BY <1>0, <1>1, <2>1, InTree
<1>3. /\ here = tree[n] /\ c + 1 \in 1 .. Len(tree[n].lines)
      /\ x \in Node /\ x # root /\ dep[x].exists /\ tree[n].lines[c + 1].id = x
  <2>1. here = tree[n] /\ next_line \in 1 .. Len(here.lines)
    BY <1>0, <1>1, LineRead
  <2>2. x \in Node /\ x # root /\ dep[x].exists
    BY <1>0, <1>1, LineRead
  <2>. QED  BY <1>0, <1>2, <2>1, <2>2 DEF line_read
<1>4. /\ Len(b) = k + 1 /\ \A i \in 1 .. k : b[i] = place(i)
      /\ \A y \in Node : tree[y].exists => tree[y].link # b
      /\ b \in Seq(Nat)
  BY <1>0, <1>1, NewPlace
<1>5. /\ Len(tree[n].link) = k /\ \A i \in 1 .. k : tree[n].link[i] = b[i]
      /\ \A i \in 1 .. k : Len(tree[stack[i].node].link) = i
  BY <1>0, <1>1, <1>2, <1>4 DEF Inductive, Way, OnWay, Through
<1>6. PICK T : /\ tree' = [tree EXCEPT ![x] = T]
               /\ T.exists /\ T.link = b /\ T.lines = dep[x].lines
               /\ \/ stack' = read /\ dep[x].lines = <<>>
                  \/ stack' = Append(read, Frame(x, k + 1))
  <2>0. call.depth = k /\ here.link = tree[n].link /\ here.priolink = tree[n].priolink
    BY <1>2, <1>3
  <2>1. CASE dep[x].lines = <<>>
    <3>. DEFINE e == <<>>
                T == Tree(b, e, e)
    <3>1. tree' = [tree EXCEPT ![x] = T] /\ stack' = read
      BY <1>0, <2>1 DEF descend
    <3>. HIDE DEF e
    <3>2. T.exists /\ T.link = b /\ T.lines = e
      BY TreesAre
    <3>. QED  BY <2>1, <3>1, <3>2 DEF e
  <2>2. CASE dep[x].lines # <<>>
    <3>. DEFINE q == Append(tree[n].priolink, line_read.prio)
                T == Tree(b, q, dep[x].lines)
    <3>1. tree' = [tree EXCEPT ![x] = T] /\ stack' = Append(read, Frame(x, k + 1))
      BY <1>0, <2>0, <2>2 DEF descend
    <3>. HIDE DEF q
    <3>2. T.exists /\ T.link = b /\ T.lines = dep[x].lines
      BY TreesAre
    <3>. QED  BY <3>1, <3>2
  <2>. QED  BY <2>1, <2>2
<1>7. /\ tree'[x] = T /\ \A y \in Node : y # x => tree'[y] = tree[y]
  BY <1>1, <1>3, <1>6
<1>8. /\ read \in Seq(Frames) /\ Len(read) = k
      /\ \A i \in 1 .. k : i # k => read[i] = stack[i]
      /\ \A i \in 1 .. k : read[i].node = stack[i].node /\ read[i].remove = stack[i].remove
      /\ read[k].count = c + 1
  BY <1>0, <1>1, Reads
<1>9. /\ Frame(x, k + 1) \in Frames /\ Frame(x, k + 1).node = x
      /\ Frame(x, k + 1).count = 0 /\ Frame(x, k + 1).remove = <<>>
  BY <1>2, <1>3, NewCall
<1>10. /\ \A i \in 1 .. k : stack'[i] = read[i]
       /\ \/ Len(stack') = k /\ dep[x].lines = <<>>
          \/ Len(stack') = k + 1 /\ stack'[k + 1] = Frame(x, k + 1)
  <2>1. CASE stack' = read /\ dep[x].lines = <<>>
    BY <1>8, <2>1
  <2>2. CASE stack' = Append(read, Frame(x, k + 1))
    BY <1>8, <1>9, <2>2, AppendProperties
  <2>. QED  BY <1>6, <2>1, <2>2
<1>11. ASSUME NEW y \in Node, y # x, NEW z \in Node, z # x PROVE Hangs(z, y)' <=> Hangs(z, y)
  BY <1>7, <1>11 DEF Hangs
<1>12. Hangs(x, n)' /\ n # x /\ n \in Node
  <2>1. n # x /\ n \in Node /\ tree[n].exists
    BY <1>0, <1>1, <1>2
  <2>. QED  BY <1>4, <1>5, <1>6, <1>7, <2>1 DEF Hangs
\* Nothing is below the new tree.
<1>13. ASSUME NEW z \in Node, Hangs(z, x)' PROVE FALSE
  <2>1. z # x /\ tree[z].exists /\ Len(tree[z].link) = k + 2
        /\ \A i \in 1 .. k + 1 : tree[z].link[i] = b[i]
    <3>1. z # x
      BY <1>2, <1>4, <1>6, <1>7, <1>13 DEF Hangs
    <3>2. tree'[x].link = b /\ Len(tree'[x].link) = k + 1 /\ tree'[z] = tree[z]
      BY <1>4, <1>6, <1>7, <3>1
    <3>3. /\ tree'[z].exists /\ Len(tree'[z].link) = Len(tree'[x].link) + 1
          /\ \A i \in 1 .. Len(tree'[x].link) : tree'[z].link[i] = tree'[x].link[i]
      BY <1>13 DEF Hangs
    <3>. QED  BY <1>2, <3>1, <3>2, <3>3
  <2>2. z # root
    <3>1. tree[root].link = <<1>>
      BY <1>1 DEF Planted
    <3>2. Len(<<1>>) = 1
      OBVIOUS
    <3>. QED  BY <1>2, <2>1, <3>1, <3>2
  <2>3. PICK y \in Node : Hangs(z, y)
    BY <1>1, <2>1, <2>2 DEF ListedOnce, NamedAbove
  <2>. DEFINE a == tree[y].link
  <2>4. tree[y].exists /\ a \in Seq(Nat) /\ Len(a) = k + 1 /\ a # b
        /\ \A i \in 1 .. k + 1 : a[i] = b[i]
    <3>1. tree[y].exists /\ k + 2 = Len(a) + 1 /\ \A i \in 1 .. Len(a) : tree[z].link[i] = a[i]
      BY <2>1, <2>3 DEF Hangs
    <3>2. a \in Seq(Nat) /\ Len(a) \in Nat
      BY <1>1, <3>1, Planks
    <3>3. a # b
      BY <1>4, <3>1
    <3>. HIDE DEF a
    <3>4. Len(a) = k + 1
      BY <1>2, <3>1, <3>2
    <3>. QED  BY <2>1, <3>1, <3>2, <3>3, <3>4
  <2>. HIDE DEF a
  <2>. QED  BY <1>4, <2>4, SeqEqual
<1>14. ASSUME NEW i \in 1 .. Len(stack'), NEW z \in Node PROVE Balanced(i, z)'
  <2>1. CASE i \in 1 .. k /\ i # k
    <3>1. Balanced(i, z)
      BY <1>1, <2>1 DEF ListedOnce, Counted
    <3>2. stack'[i] = stack[i] /\ stack[i].node \in Node /\ stack[i].node # x
          /\ tree'[stack[i].node] = tree[stack[i].node]
      BY <1>1, <1>2, <1>7, <1>8, <1>10, <2>1
    <3>3. Hangs(z, stack[i].node)' <=> Hangs(z, stack[i].node)
      <4>1. CASE z # x
        BY <1>11, <3>2, <4>1
      <4>2. CASE z = x
        <5>1. ~Hangs(z, stack[i].node)
          BY <1>1, <4>2 DEF Hangs
        <5>2. Len(tree'[x].link) = k + 1 /\ Len(tree'[stack[i].node].link) = i
          BY <1>4, <1>5, <1>6, <1>7, <2>1, <3>2
        <5>3. ~Hangs(z, stack[i].node)'
          <6>1. k + 1 # i + 1
            BY <1>2, <2>1
          <6>. QED  BY <3>2, <4>2, <5>2, <6>1 DEF Hangs
        <5>. QED  BY <5>1, <5>3
      <4>. QED  BY <4>1, <4>2
    <3>. QED  BY <3>1, <3>2, <3>3 DEF Balanced
  <2>2. CASE i = k
    <3>. DEFINE s == tree[n].lines
                r == stack[k].remove
    <3>1. Occurs(s, c, z) = Flagged(r, Len(r), z) + IF Hangs(z, n) THEN 1 ELSE 0
      BY <1>0, <1>1, <1>2 DEF ListedOnce, Counted, Balanced
    <3>2. Occurs(s, c + 1, z) = Occurs(s, c, z) + IF x = z THEN 1 ELSE 0
      <4>1. s[c + 1].id = x
        BY <1>3
      <4>. HIDE DEF s
      <4>2. Occurs(s, c + 1, z) = Occurs(s, c, z) + IF s[c + 1].id = z THEN 1 ELSE 0
        <5>1. c \in Nat
          BY <1>2
        <5>. QED  BY <5>1, OccursNext
      <4>. QED  BY <4>1, <4>2
    <3>3. Flagged(r, Len(r), z) \in Nat
      <4>1. r \in Seq(Name)
        BY <1>0, <1>1, <1>2, Calls
      <4>2. Len(r) \in Nat
        BY <4>1, LenProperties
      <4>3. Flagged(r, Len(r), z) \in 0 .. Len(r)
        BY <4>2, FlaggedNext
      <4>. QED  BY <4>2, <4>3
    <3>4. Occurs(s, c + 1, z) = Flagged(r, Len(r), z) + IF Hangs(z, n)' THEN 1 ELSE 0
      <4>1. CASE z = x
        <5>1. ~Hangs(z, n)
          BY <1>1, <4>1 DEF Hangs
        <5>2. Hangs(z, n)'
          BY <1>12, <4>1
        <5>. HIDE DEF s, r
        <5>. QED  BY <3>1, <3>2, <3>3, <4>1, <5>1, <5>2
      <4>2. CASE z # x
        <5>1. Hangs(z, n)' <=> Hangs(z, n)
          BY <1>11, <1>12, <4>2
        <5>. HIDE DEF s, r
        <5>. QED  BY <3>1, <3>2, <3>3, <4>2, <5>1
      <4>. QED  BY <4>1, <4>2
    <3>5. tree'[n].lines = s /\ stack'[k].node = n /\ stack'[k].count = c + 1
          /\ stack'[k].remove = r
      BY <1>0, <1>2, <1>7, <1>8, <1>10, <1>12
    <3>. HIDE DEF s, r
    <3>. QED  BY <2>2, <3>4, <3>5 DEF Balanced
  <2>3. CASE i \notin 1 .. k
    <3>1. i = k + 1 /\ stack'[i] = Frame(x, k + 1)
      BY <1>2, <1>10, <2>3
    <3>2. ~Hangs(z, x)'
      BY <1>13
    <3>3. stack'[i].node = x /\ stack'[i].count = 0 /\ stack'[i].remove = <<>>
      BY <1>9, <3>1
    <3>4. \A e : e = <<>> => Len(e) = 0
      OBVIOUS
    <3>5. Len(stack'[i].remove) = 0
      BY <3>3, <3>4
    <3>6. /\ Occurs(tree'[x].lines, 0, z) = 0
          /\ Flagged(stack'[i].remove, 0, z) = 0
      BY CountNone
    <3>. QED  BY <3>2, <3>3, <3>5, <3>6 DEF Balanced
  <2>. QED  BY <2>1, <2>2, <2>3
<1>15. Counted'
  BY <1>14 DEF Counted
<1>16. Finished'
  <2>1. ASSUME NEW y \in Node, tree'[y].exists, ~Active(y)' PROVE Settled(y)'
    <3>1. CASE y = x
      <4>1. Len(stack') = k
        <5>1. CASE Len(stack') = k + 1 /\ stack'[k + 1] = Frame(x, k + 1)
          <6>1. k + 1 \in 1 .. Len(stack') /\ stack'[k + 1].node = x
            BY <1>2, <1>9, <5>1
          <6>. QED  BY <2>1, <3>1, <6>1 DEF Active
        <5>. QED  BY <1>10, <5>1
      <4>2. tree'[y].lines = <<>>
        BY <1>2, <1>6, <1>7, <1>10, <3>1, <4>1
      <4>3. \A e : e = <<>> => 1 .. Len(e) = {}
        OBVIOUS
      <4>4. 1 .. Len(tree'[y].lines) = {}
        BY <4>2, <4>3
      <4>. QED  BY <4>4 DEF Settled
    <3>2. CASE y # x
      <4>1. tree'[y] = tree[y]
        BY <1>7, <3>2
      <4>2. ~Active(y)
        <5>1. \A i \in 1 .. k : i \in 1 .. Len(stack') /\ stack'[i].node = stack[i].node
          BY <1>2, <1>8, <1>10
        <5>. QED  BY <1>1, <2>1, <5>1 DEF Active
      <4>3. Settled(y)
        BY <1>1, <2>1, <4>1, <4>2 DEF ListedOnce, Finished, Given_up
      <4>4. ASSUME NEW i \in 1 .. Len(tree[y].lines), NEW z, z = tree[y].lines[i].id
            PROVE  Hangs(z, y)'
        <5>1. Hangs(z, y)
          BY <4>3, <4>4 DEF Settled
        <5>2. z \in Node /\ z # x
          <6>1. z \in Node
            BY <1>1, <2>1, <4>1, <4>4, Planks
          <6>. QED  BY <1>1, <5>1, <6>1 DEF Hangs
        <5>. QED  BY <1>11, <3>2, <5>1, <5>2
      <4>. QED  BY <4>1, <4>3, <4>4 DEF Settled
    <3>. QED  BY <3>1, <3>2
  <2>. QED  BY <2>1 DEF Finished
<1>17. NamedAbove'
  <2>1. ASSUME NEW z \in Node, tree'[z].exists, z # root
        PROVE  \E y \in Node : Hangs(z, y)' /\ \E i \in 1 .. Len(tree'[y].lines) :
                                                   tree'[y].lines[i].id = z
    <3>1. CASE z = x
      <4>1. tree'[n] = tree[n]
        BY <1>7, <1>12
      <4>. QED  BY <1>3, <1>12, <3>1, <4>1
    <3>2. CASE z # x
      <4>1. tree[z].exists
        BY <1>7, <2>1, <3>2
      <4>2. PICK y \in Node : Hangs(z, y) /\ \E i \in 1 .. Len(tree[y].lines) :
                                                 tree[y].lines[i].id = z
        BY <1>1, <2>1, <4>1 DEF ListedOnce, NamedAbove
      <4>3. y # x
        BY <1>1, <4>2 DEF Hangs
      <4>. QED  BY <1>7, <1>11, <3>2, <4>2, <4>3
    <3>. QED  BY <3>1, <3>2
  <2>. QED  BY <2>1 DEF NamedAbove
<1>. QED  BY <1>15, <1>16, <1>17 DEF ListedOnce

\* The first tree has nothing below it, and its file has not been read.
LEMMA CleanedListed == Inductive /\ cleaned => ListedOnce'
<1>. SUFFICES ASSUME Inductive, cleaned PROVE ListedOnce'
  OBVIOUS
<1>. DEFINE e == <<1>>
            T == Tree(e, e, dep[root].lines)
            f == Frame(root, 1)
<1>1. /\ tree = [x \in Node |-> NoFile] /\ tree' = [tree EXCEPT ![root] = T]
      /\ stack' = <<f>> /\ root \in Node
  BY Names DEF Inductive, Cleaning, Unplanted, cleaned
<1>2. T.exists /\ T.link = e /\ ~NoFile.exists /\ Len(e) = 1
  <2>1. Len(e) = 1
    OBVIOUS
  <2>. HIDE DEF e
  <2>. QED  BY <2>1, TreesAre, FilesAre
<1>3. f.node = root /\ f.count = 0 /\ f.remove = <<>>
  BY <1>1, NewCall
<1>. HIDE DEF T, e, f
<1>4. tree'[root] = T /\ \A y \in Node : y # root => ~tree'[y].exists
  BY <1>1, <1>2
<1>5. \A z \in Node : ~Hangs(z, root)'
  BY <1>2, <1>4 DEF Hangs
<1>6. Len(stack') = 1 /\ stack'[1] = f
  BY <1>1
<1>7. Counted'
  <2>1. ASSUME NEW z \in Node PROVE Balanced(1, z)'
    <3>1. \A a : a = <<>> => Len(a) = 0
      OBVIOUS
    <3>2. Len(stack'[1].remove) = 0
      BY <1>3, <1>6, <3>1
    <3>3. Occurs(tree'[root].lines, 0, z) = 0 /\ Flagged(stack'[1].remove, 0, z) = 0
      BY CountNone
    <3>. QED  BY <1>3, <1>5, <1>6, <3>2, <3>3 DEF Balanced
  <2>. QED  BY <1>6, <2>1 DEF Counted
<1>8. Finished'
  <2>1. ASSUME NEW y \in Node, tree'[y].exists PROVE Active(y)'
    <3>1. y = root /\ 1 \in 1 .. Len(stack')
      BY <1>4, <1>6, <2>1
    <3>. QED  BY <1>3, <1>6, <3>1 DEF Active
  <2>. QED  BY <2>1 DEF Finished
<1>9. NamedAbove'
  BY <1>4 DEF NamedAbove
<1>. QED  BY <1>7, <1>8, <1>9 DEF ListedOnce

\* What lies below the trees that are erased is erased.
LEMMA ErasedIsClosed ==
    ASSUME Inductive, NEW x \in Node, tree[x].exists
    PROVE  x \in Erased(x) /\ \A y \in Erased(x) : Below(y) \subseteq Erased(x)
<1>. DEFINE N == Cardinality(Node)
            C == {y \in Node : tree[y].exists}
            first == {x}
            under == [y \in Node |-> IF y \in C THEN Below(y) ELSE {}]
<1>1. ASSUME NEW y \in C, NEW z \in Below(y) PROVE z \in C
  <2>1. PICK l \in ToSet(tree[y].lines) : z = l.id /\ tree[z].exists
    BY <1>1 DEF Below
  <2>2. tree[y].lines \in Seq(Line)
    BY TreesAre DEF Inductive, Typed
  <2>3. PICK i \in DOMAIN tree[y].lines : l = tree[y].lines[i]
    BY <2>1 DEF ToSet
  <2>4. l \in Line
    BY <2>2, <2>3, LenProperties, ElementOfSeq
  <2>. QED  BY <2>1, <2>4, Names
<1>2. x \in C /\ \A y \in C : Below(y) \subseteq C
  BY <1>1
<1>3. under \in [Node -> SUBSET Node] /\ first \in SUBSET Node /\ IsFiniteSet(Node)
      /\ \A y \in C : under[y] = Below(y)
  BY <1>2, Names
<1>. HIDE DEF C
<1>a. PICK r : /\ ErasedBy(r, x) /\ Erased(x) = r[Cardinality(Node)]
                /\ \A n \in 0 .. Cardinality(Node) : r[n] \subseteq C
  BY <1>2, ErasedSteps
<1>4. /\ Erased(x) = r[N] /\ \A n \in 0 .. N : r[n] \subseteq C
      /\ r = [n \in 0 .. N |-> {x} \cup IF n = 0 THEN {} ELSE UNION {Below(y) : y \in r[n - 1]}]
  BY <1>a DEF ErasedBy
<1>5. N \in Nat
  BY Names, FS_CardinalityType
<1>. HIDE DEF under, N
<1>6. ASSUME NEW n \in 0 .. N
      PROVE  r[n] = first \cup IF n = 0 THEN {} ELSE UNION {under[y] : y \in r[n - 1]}
  <2>1. CASE n = 0
    BY <1>4, <2>1
  <2>2. CASE n # 0
    <3>1. n - 1 \in 0 .. N
      BY <1>5, <2>2
    <3>2. r[n - 1] \subseteq C
      BY <1>4, <3>1
    <3>3. {under[y] : y \in r[n - 1]} = {Below(y) : y \in r[n - 1]}
      BY <1>3, <3>2
    <3>4. r[n] = {x} \cup UNION {Below(y) : y \in r[n - 1]}
      BY <1>4, <2>2
    <3>. QED  BY <2>2, <3>3, <3>4
  <2>. QED  BY <2>1, <2>2
<1>7. Steps(r, N, first, under)
  <2>1. r = [n \in 0 .. N |-> first \cup IF n = 0 THEN {} ELSE UNION {under[y] : y \in r[n - 1]}]
    <3>1. r = [n \in 0 .. N |-> r[n]]
      BY <1>4
    <3>. HIDE DEF first
    <3>. QED  BY <1>6, <3>1
  <2>. QED  BY <2>1 DEF Steps
<1>8. first \subseteq r[N] /\ \A y \in r[N] : under[y] \subseteq r[N]
  <2>. HIDE DEF first
  <2>. QED  BY <1>3, <1>7, ClosureIsClosed DEF N
<1>9. r[N] \subseteq C
  BY <1>4, <1>5
<1>10. ASSUME NEW y \in r[N] PROVE Below(y) \subseteq r[N]
  BY <1>3, <1>8, <1>9
<1>11. x \in r[N]
  BY <1>8
<1>. QED  BY <1>4, <1>10, <1>11

\* All that is below the tree that a call comes back to is erased with it.
LEMMA ErasedWhole ==
    ASSUME Inductive, ListedOnce, pc = "tree", returned # 0, NEW k, k = Len(stack)
    PROVE  Erased(called(k).id) = {y \in Node : tree[y].exists /\ Through(tree[y].link, k + 1)}
<1>0. PICK x : x = called(k).id
  OBVIOUS
<1>. DEFINE C == {y \in Node : tree[y].exists /\ Through(tree[y].link, k + 1)}
            E == Erased(x)
            Out == {y \in C : y \notin E}
            Lengths == {Len(tree[y].link) : y \in Out}
            Less == OpToRel(<, Nat)
<1>1. E \subseteq C
  BY <1>0, ErasedBelow
<1>2. k \in Nat \ {0}
  BY InTree
<1>3. /\ tree[x].exists /\ Len(tree[x].link) = k + 1 /\ Through(tree[x].link, k + 1)
      /\ x \in Node
  <2>1. /\ tree[x].exists /\ Len(tree[x].link) = k + 1 /\ Through(tree[x].link, k + 1)
        /\ stack[k].count >= 1
    BY <1>0 DEF Inductive, Returning
  <2>2. x \in Node
    <3>1. k \in 1 .. k /\ stack[k].node \in Node /\ tree[stack[k].node].exists
          /\ stack[k].count \in Nat
      <4>1. k \in 1 .. Len(stack)
        BY <1>2
      <4>. QED  BY <4>1, InTree
    <3>2. stack[k].count <= Len(tree[stack[k].node].lines)
      BY <3>1 DEF Inductive, Way, OnWay
    <3>3. stack[k].count \in 1 .. Len(tree[stack[k].node].lines)
      <4>1. Len(tree[stack[k].node].lines) \in Nat
        BY <3>1, Planks
      <4>. QED  BY <2>1, <3>1, <3>2, <4>1
    <3>. QED  BY <1>0, <3>1, <3>3, Planks DEF called
  <2>. QED  BY <2>1, <2>2
<1>4. x \in E /\ \A y \in E : Below(y) \subseteq E
  BY <1>3, ErasedIsClosed
<1>. HIDE DEF E
<1>5. Out = {}
  <2>. SUFFICES ASSUME Out # {} PROVE FALSE
    OBVIOUS
  <2>1. \A y \in Out : Len(tree[y].link) \in Nat
    BY Planks
  <2>2. PICK m \in Lengths : \A u \in Lengths : <<u, m>> \notin Less
    <3>1. Lengths \in SUBSET Nat /\ Lengths # {}
      BY <2>1
    <3>. HIDE DEF Lengths
    <3>. QED  BY <3>1, WFMin, NatLessThanWellFounded
  <2>3. PICK y \in Out : m = Len(tree[y].link)
    OBVIOUS
  <2>4. \A z \in Out : ~(Len(tree[z].link) < m)
    <3>1. ASSUME NEW z \in Out, Len(tree[z].link) < m PROVE FALSE
      <4>1. Len(tree[z].link) \in Lengths /\ Len(tree[z].link) \in Nat /\ m \in Nat
        BY <2>1, <2>3
      <4>2. <<Len(tree[z].link), m>> \in Less
        BY <3>1, <4>1 DEF OpToRel
      <4>. HIDE DEF Lengths
      <4>. QED  BY <2>2, <4>1, <4>2
    <3>. QED  BY <3>1
  <2>5. /\ y \in Node /\ y \notin E /\ tree[y].exists /\ Through(tree[y].link, k + 1)
        /\ m \in Nat /\ tree[y].link \in Seq(Nat) /\ m >= k + 1
    BY <2>1, <2>3, Planks DEF Through
  <2>. HIDE DEF Lengths
  <2>6. m # k + 1
    <3>. SUFFICES ASSUME m = k + 1 PROVE FALSE
      OBVIOUS
    <3>1. \A i \in 1 .. k + 1 : tree[y].link[i] = tree[x].link[i]
      BY <1>3, <2>5 DEF Through
    <3>2. y = x
      BY <1>3, <2>3, <2>5, <3>1, SamePlace
    <3>. QED  BY <1>4, <2>5, <3>2
  <2>7. y # root
    <3>1. tree[root].link = <<1>>
      BY DEF Inductive, Planted
    <3>2. Len(<<1>>) = 1
      OBVIOUS
    <3>3. y = root => m = 1
      BY <2>3, <3>1, <3>2
    <3>. QED  BY <1>2, <2>5, <3>3
  <2>8. PICK p \in Node : Hangs(y, p) /\ \E i \in 1 .. Len(tree[p].lines) : tree[p].lines[i].id = y
    BY <2>5, <2>7 DEF ListedOnce, NamedAbove
  <2>9. /\ tree[p].exists /\ tree[p].link \in Seq(Nat) /\ Len(tree[p].link) = m - 1
        /\ \A j \in 1 .. m - 1 : tree[p].link[j] = tree[y].link[j]
        /\ tree[p].lines \in Seq(Line)
    <3>1. /\ tree[p].exists /\ m = Len(tree[p].link) + 1
          /\ \A j \in 1 .. Len(tree[p].link) : tree[y].link[j] = tree[p].link[j]
      BY <2>3, <2>8 DEF Hangs
    <3>2. tree[p].link \in Seq(Nat) /\ Len(tree[p].link) \in Nat /\ tree[p].lines \in Seq(Line)
      BY <3>1, Planks
    <3>3. Len(tree[p].link) = m - 1
      BY <3>1, <3>2
    <3>. QED  BY <3>1, <3>2, <3>3
  <2>10. Through(tree[p].link, k + 1)
    <3>1. m - 1 >= k + 1 /\ \A j \in 1 .. k + 1 : j \in 1 .. m - 1
      BY <1>2, <2>5, <2>6
    <3>. QED  BY <2>5, <2>9, <3>1 DEF Through
  <2>11. p \in E
    <3>1. p \in C
      BY <2>9, <2>10
    <3>2. Len(tree[p].link) < m
      BY <2>5, <2>9
    <3>. QED  BY <2>4, <3>1, <3>2
  <2>12. IsStrictPrefix(tree[p].link, tree[y].link)
    <3>. DEFINE a == tree[p].link
                b == tree[y].link
    <3>1. /\ a \in Seq(Nat) /\ b \in Seq(Nat) /\ Len(a) = m - 1 /\ Len(b) = m
          /\ \A j \in 1 .. m - 1 : a[j] = b[j]
      BY <2>3, <2>5, <2>9
    <3>. HIDE DEF a, b
    <3>2. m - 1 \in Nat /\ m - 1 <= Len(a) /\ m - 1 <= Len(b)
      BY <2>5, <3>1, LenProperties
    <3>3. /\ SubSeq(a, 1, m - 1) \in Seq(Nat) /\ Len(SubSeq(a, 1, m - 1)) = m - 1
          /\ \A j \in 1 .. m - 1 : SubSeq(a, 1, m - 1)[j] = a[j]
      BY <3>1, <3>2, Beginnings
    <3>4. /\ SubSeq(b, 1, m - 1) \in Seq(Nat) /\ Len(SubSeq(b, 1, m - 1)) = m - 1
          /\ \A j \in 1 .. m - 1 : SubSeq(b, 1, m - 1)[j] = b[j]
      BY <3>1, <3>2, Beginnings
    <3>5. SubSeq(a, 1, m - 1) = SubSeq(b, 1, m - 1)
      <4>. DEFINE u == SubSeq(a, 1, m - 1)
                  v == SubSeq(b, 1, m - 1)
      <4>1. u \in Seq(Nat) /\ v \in Seq(Nat) /\ Len(u) = Len(v) /\ \A j \in 1 .. Len(u) : u[j] = v[j]
        BY <3>1, <3>3, <3>4
      <4>. HIDE DEF u, v
      <4>2. u = v
        BY <4>1, SeqEqual
      <4>. QED  BY <4>2 DEF u, v
    <3>6. IsStrictPrefix(a, b)
      BY <3>1, <3>2, <3>5 DEF IsStrictPrefix, IsPrefix
    <3>. QED  BY <3>6 DEF a, b
  <2>13. y \in Below(p)
    <3>0. PICK i \in 1 .. Len(tree[p].lines) : tree[p].lines[i].id = y
      BY <2>8
    <3>1. tree[p].lines[i] \in ToSet(tree[p].lines)
      BY <2>9, LenProperties DEF ToSet
    <3>. QED  BY <2>5, <2>12, <3>0, <3>1 DEF Below
  <2>. QED  BY <1>4, <2>5, <2>11, <2>13
<1>. QED  BY <1>0, <1>1, <1>5 DEF E

\* What putting a dependency off does to the trees and to the calls.
LEMMA PutOffDoes ==
    ASSUME Inductive, put_off, NEW k, k = Len(stack), NEW line, line = called(k)
    PROVE  /\ pc = "tree" /\ pc' = "tree" /\ returned # 0 /\ returned' = 0
           /\ line \in Line /\ line.id \in Node
           /\ \A y \in Node : tree'[y].exists <=> tree[y].exists /\ y \notin Erased(line.id)
           /\ \A y \in Node : tree'[y].exists =>
                 /\ tree'[y].link = tree[y].link
                 /\ \/ tree'[y].lines = tree[y].lines
                    \/ Active(y) /\ tree'[y].lines = Append(tree[y].lines, line)
           /\ \A i \in 1 .. k : stack[i].node \notin Erased(line.id)
           /\ Len(stack') = k
           /\ \A i \in 1 .. k : stack'[i].node = stack[i].node /\ stack'[i].count = stack[i].count
           /\ \A i \in 1 .. k : i # k => stack'[i].remove = stack[i].remove
           /\ stack'[k].remove = Append(stack[k].remove, line.id)
<1>0. PICK n : k = Len(stack) /\ n = stack[k].node /\ line = called(k)
  OBVIOUS
<1>. DEFINE kept == [y \in Node |-> IF y \in Erased(line.id) THEN NoFile ELSE tree[y]]
            lone == Cardinality(parentNode) = 1
            q    == CHOOSE y \in parentNode : TRUE
<1>1. /\ Typed /\ Planted /\ Way /\ Returning /\ pc = "tree" /\ stack # <<>>
      /\ returned \in Priority /\ returned # 0
  BY DEF Inductive, put_off, Typed, Priority
<1>2. /\ k \in Nat \ {0} /\ k \in 1 .. k /\ call = stack[k]
      /\ \A i \in 1 .. k : LET m == stack[i].node
                           IN  /\ m \in Node /\ stack[i].count \in Nat /\ stack[i].depth = i
                               /\ tree[m].exists /\ dep[m].exists
                               /\ tree[m].lines \in Seq(Line) /\ Len(tree[m].lines) \in Nat
  <2>1. k \in Nat \ {0} /\ k \in 1 .. k /\ call = stack[k]
    BY <1>0, <1>1, InTree
  <2>. QED  BY <1>0, <1>1, <2>1, InTree
<1>3. line_called = line
  BY <1>0, <1>2 DEF line_called, called, here
<1>4. /\ lone => tree' = [kept EXCEPT ![q].lines = Append(@, line)]
      /\ ~lone => tree' = kept
      /\ stack' = [stack EXCEPT ![Len(stack)].remove = Append(@, line.id)]
      /\ returned' = 0 /\ UNCHANGED pc
  BY <1>0, <1>2, <1>3 DEF put_off
<1>5. PICK a \in 1 .. k : stack[a].node \in parentNode
  BY <1>0, <1>1 DEF Returning
<1>6. line \in Line /\ line.id \in Name /\ line.id \in Node /\ dep[line.id].exists
  BY <1>0, <1>1, LineCalled
<1>9. \A i \in 1 .. k : stack[i].node \notin Erased(line.id)
  BY <1>0, <1>1, LineCalled
<1>10. /\ kept \in [Node -> Trees]
       /\ \A y \in Node : kept[y].exists => kept[y] = tree[y]
       /\ \A i \in 1 .. k : kept[stack[i].node] = tree[stack[i].node]
  <2>1. kept \in [Node -> Trees]
    BY <1>1, FilesAre DEF Typed
  <2>2. \A y \in Node : kept[y].exists => kept[y] = tree[y]
    BY FilesAre
  <2>3. \A i \in 1 .. k : kept[stack[i].node] = tree[stack[i].node]
    BY <1>2, <1>9
  <2>. QED  BY <2>1, <2>2, <2>3
<1>12. lone => q = stack[a].node
  <2>1. IsFiniteSet(parentNode)
    BY <1>1, Names, FS_Subset DEF Typed
  <2>2. lone => \E y : parentNode = {y}
    BY <2>1, FS_Singleton
  <2>. QED  BY <1>5, <2>2
<1>. HIDE DEF kept, lone, q
<1>13. /\ \A y \in Node : kept[y].exists <=> tree[y].exists /\ y \notin Erased(line.id)
  BY FilesAre DEF kept
<1>14. /\ \A y \in Node : tree'[y].exists <=> kept[y].exists
       /\ \A y \in Node : tree'[y].exists =>
              /\ tree'[y].link = tree[y].link
              /\ \/ tree'[y].lines = tree[y].lines
                 \/ Active(y) /\ tree'[y].lines = Append(tree[y].lines, line)
  <2>1. CASE ~lone
    <3>1. tree' = kept
      BY <1>4, <2>1
    <3>. QED  BY <1>10, <3>1
  <2>2. CASE lone
    <3>0. q \in Node /\ tree[q].exists /\ tree[q].lines \in Seq(Line) /\ kept[q] = tree[q]
          /\ tree[q] \in Trees /\ Active(q)
      BY <1>0, <1>1, <1>2, <1>10, <1>12, <2>2 DEF Typed, Active
    <3>. DEFINE l == Append(tree[q].lines, line)
                t == [tree[q] EXCEPT !.lines = l]
    <3>1. tree' = [kept EXCEPT ![q] = t]
      BY <1>4, <2>2, <3>0
    <3>2. l \in Seq(Line)
      BY <1>6, <3>0, AppendProperties
    <3>. HIDE DEF l
    <3>3. t.exists /\ t.link = tree[q].link /\ t.lines = l
      BY <3>0, <3>2, TreeWithLines
    <3>. HIDE DEF t
    <3>4. \A y \in Node : tree'[y] = IF y = q THEN t ELSE kept[y]
      BY <1>10, <3>0, <3>1
    <3>5. ASSUME NEW y \in Node
          PROVE  /\ tree'[y].exists <=> kept[y].exists
                 /\ tree'[y].exists =>
                       /\ tree'[y].link = tree[y].link
                       /\ \/ tree'[y].lines = tree[y].lines
                          \/ Active(y) /\ tree'[y].lines = Append(tree[y].lines, line)
      <4>1. CASE y = q
        BY <3>0, <3>3, <3>4, <4>1 DEF l
      <4>2. CASE y # q
        BY <1>10, <3>4, <4>2
      <4>. QED  BY <4>1, <4>2
    <3>. QED  BY <3>5
  <2>. QED  BY <2>1, <2>2
<1>15. /\ Len(stack') = k
       /\ \A i \in 1 .. k : stack'[i].node = stack[i].node /\ stack'[i].count = stack[i].count
       /\ \A i \in 1 .. k : i # k => stack'[i].remove = stack[i].remove
       /\ stack'[k].remove = Append(stack[k].remove, line.id)
  <2>1. stack \in Seq(Frames) /\ stack # <<>> /\ line.id \in Name
    BY <1>1, <1>6 DEF Typed
  <2>2. stack' = [stack EXCEPT ![Len(stack)].remove = Append(@, line.id)]
    BY <1>4
  <2>. QED  BY <1>0, <2>1, <2>2, FlagsCalled
<1>. QED  BY <1>1, <1>4, <1>6, <1>9, <1>13, <1>14, <1>15

\* What is put off is flagged where it was called for, and all below it goes.
LEMMA PutOffListed == Inductive /\ Inductive' /\ ListedOnce /\ put_off => ListedOnce'
<1>. SUFFICES ASSUME Inductive, Inductive', ListedOnce, put_off PROVE ListedOnce'
  OBVIOUS
<1>0. PICK k, n, line, x, E : /\ k = Len(stack) /\ n = stack[k].node /\ line = called(k)
                              /\ x = line.id /\ E = Erased(x)
  OBVIOUS
<1>1. /\ pc = "tree" /\ pc' = "tree" /\ returned # 0 /\ returned' = 0 /\ x \in Node
      /\ line \in Line
      /\ \A y \in Node : tree'[y].exists <=> tree[y].exists /\ y \notin E
      /\ \A y \in Node : tree'[y].exists =>
            /\ tree'[y].link = tree[y].link
            /\ \/ tree'[y].lines = tree[y].lines
               \/ Active(y) /\ tree'[y].lines = Append(tree[y].lines, line)
      /\ \A i \in 1 .. k : stack[i].node \notin E
      /\ Len(stack') = k
      /\ \A i \in 1 .. k : stack'[i].node = stack[i].node /\ stack'[i].count = stack[i].count
      /\ \A i \in 1 .. k : i # k => stack'[i].remove = stack[i].remove
      /\ stack'[k].remove = Append(stack[k].remove, x)
  BY <1>0, PutOffDoes
<1>2. /\ k \in Nat \ {0} /\ k \in 1 .. k /\ stack # <<>> /\ stack \in Seq(Frames)
      /\ \A i \in 1 .. k : LET m == stack[i].node
                           IN  /\ m \in Node /\ stack[i].count \in Nat /\ tree[m].exists
                               /\ tree[m].lines \in Seq(Line) /\ Len(tree[m].lines) \in Nat
                               /\ Len(tree[m].link) = i /\ stack[i].count <= Len(tree[m].lines)
                               /\ Through(tree[m].link, i)
  <2>1. k \in Nat \ {0} /\ k \in 1 .. k /\ stack # <<>> /\ stack \in Seq(Frames)
    BY <1>0, <1>1, InTree DEF Inductive, Typed
  <2>2. \A i \in 1 .. k : LET m == stack[i].node
                          IN  /\ m \in Node /\ stack[i].count \in Nat /\ tree[m].exists
                              /\ tree[m].lines \in Seq(Line) /\ Len(tree[m].lines) \in Nat
    BY <1>0, <1>1, InTree
  <2>3. \A i \in 1 .. k : LET m == stack[i].node
                          IN  /\ Len(tree[m].link) = i /\ stack[i].count <= Len(tree[m].lines)
                              /\ Through(tree[m].link, i)
    BY <1>0, <1>1 DEF Inductive, Way, OnWay
  <2>. QED  BY <2>1, <2>2, <2>3
<1>3. /\ tree[x].exists /\ Len(tree[x].link) = k + 1 /\ Through(tree[x].link, k + 1)
      /\ x \in E /\ \A y \in E : Below(y) \subseteq E
      /\ E = {y \in Node : tree[y].exists /\ Through(tree[y].link, k + 1)}
  <2>1. tree[x].exists /\ Len(tree[x].link) = k + 1 /\ Through(tree[x].link, k + 1)
    BY <1>0, <1>1 DEF Inductive, Returning
  <2>2. x \in E /\ \A y \in E : Below(y) \subseteq E
    BY <1>0, <1>1, <2>1, ErasedIsClosed
  <2>3. E = {y \in Node : tree[y].exists /\ Through(tree[y].link, k + 1)}
    BY <1>0, <1>1, ErasedWhole
  <2>. QED  BY <2>1, <2>2, <2>3
<1>4. ASSUME NEW y \in Node, NEW z \in Node
      PROVE  Hangs(z, y)' <=> Hangs(z, y) /\ z \notin E /\ y \notin E
  BY <1>1 DEF Hangs
\* The tree that was called for is below the innermost call, and no other that
\* is erased is below any.
<1>5. Hangs(x, n)
  <2>1. /\ tree[n].exists /\ Len(tree[n].link) = k /\ Through(tree[n].link, k)
    BY <1>0, <1>2
  <2>2. \A i \in 1 .. k : i \in 1 .. k + 1
    BY <1>2
  <2>. QED  BY <1>3, <2>1, <2>2 DEF Hangs, Through
<1>6. ASSUME NEW z \in E, NEW i \in 1 .. k, Hangs(z, stack[i].node) PROVE z = x /\ i = k
  <2>1. z \in Node /\ tree[z].exists /\ Through(tree[z].link, k + 1)
    BY <1>3
  <2>2. Len(tree[z].link) = i + 1
    BY <1>2, <1>6 DEF Hangs
  <2>3. i = k
    BY <1>2, <2>1, <2>2 DEF Through
  <2>4. \A j \in 1 .. k + 1 : tree[z].link[j] = tree[x].link[j]
    BY <1>3, <2>1 DEF Through
  <2>5. z = x
    BY <1>1, <1>3, <2>1, <2>2, <2>3, <2>4, SamePlace
  <2>. QED  BY <2>3, <2>5
<1>7. ASSUME NEW i \in 1 .. k
      PROVE  \A j \in 1 .. stack[i].count : tree'[stack[i].node].lines[j] = tree[stack[i].node].lines[j]
  <2>. DEFINE m == stack[i].node
              s == tree[m].lines
              u == tree'[m].lines
  <2>1. m \in Node /\ tree'[m].exists /\ s \in Seq(Line) /\ Len(s) \in Nat /\ stack[i].count \in Nat
        /\ stack[i].count <= Len(s)
    BY <1>1, <1>2
  <2>2. u = s \/ u = Append(s, line)
    BY <1>1, <2>1
  <2>. HIDE DEF s, u, m
  <2>3. \A j \in 1 .. Len(s) : Append(s, line)[j] = s[j]
    BY <1>1, <2>1, AppendProperties
  <2>4. \A j \in 1 .. Len(s) : u[j] = s[j]
    BY <2>2, <2>3
  <2>5. \A j \in 1 .. stack[i].count : j \in 1 .. Len(s)
    BY <2>1
  <2>. QED  BY <2>4, <2>5 DEF s, u, m
<1>8. ASSUME NEW i \in 1 .. k, NEW z \in Node PROVE Balanced(i, z)'
  <2>0. PICK m, c, s, u, r, q : /\ m = stack[i].node /\ c = stack[i].count
                                /\ s = tree[m].lines /\ u = tree'[m].lines
                                /\ r = stack[i].remove /\ q = stack'[i].remove
    OBVIOUS
  <2>1. Occurs(s, c, z) = Flagged(r, Len(r), z) + IF Hangs(z, m) THEN 1 ELSE 0
    BY <1>0, <1>1, <2>0 DEF ListedOnce, Counted, Balanced
  <2>2. Occurs(u, c, z) = Occurs(s, c, z)
    <3>1. \A j \in 1 .. c : u[j] = s[j]
      BY <1>7, <2>0
    <3>2. c \in Nat
      BY <1>2, <2>0
    <3>. QED  BY <3>1, <3>2, OccursAgree
  <2>3. m \in Node /\ m \notin E
    BY <1>1, <1>2, <2>0
  <2>4. r \in Seq(Name) /\ Len(r) \in Nat /\ Flagged(r, Len(r), z) \in Nat
    <3>1. r \in Seq(Name)
      BY <1>0, <1>2, <2>0, Calls
    <3>2. Len(r) \in Nat
      BY <3>1, LenProperties
    <3>3. Flagged(r, Len(r), z) \in 0 .. Len(r)
      BY <3>2, FlaggedNext
    <3>. QED  BY <3>1, <3>2, <3>3
  <2>5. Occurs(u, c, z) = Flagged(q, Len(q), z) + IF Hangs(z, m)' THEN 1 ELSE 0
    <3>1. CASE i # k
      <4>1. q = r
        BY <1>1, <2>0, <3>1
      <4>2. Hangs(z, m)' <=> Hangs(z, m)
        BY <1>4, <1>6, <2>0, <2>3, <3>1
      <4>. QED  BY <2>1, <2>2, <4>1, <4>2
    <3>2. CASE i = k
      <4>1. q = Append(r, x) /\ m = n
        BY <1>0, <1>1, <2>0, <3>2
      <4>2. Len(q) = Len(r) + 1 /\ q[Len(r) + 1] = x /\ \A j \in 1 .. Len(r) : q[j] = r[j]
        <5>1. x \in Name
          BY <1>0, <1>1, Names
        <5>. QED  BY <2>4, <4>1, <5>1, AppendProperties
      <4>3. Flagged(q, Len(q), z) = Flagged(r, Len(r), z) + IF x = z THEN 1 ELSE 0
        <5>1. Flagged(q, Len(r), z) = Flagged(r, Len(r), z)
          BY <2>4, <4>2, FlaggedAgree
        <5>2. Flagged(q, Len(r) + 1, z) = Flagged(q, Len(r), z) + IF q[Len(r) + 1] = z THEN 1 ELSE 0
          BY <2>4, FlaggedNext
        <5>. QED  BY <4>2, <5>1, <5>2
      <4>4. CASE z = x
        <5>1. Hangs(z, m) /\ ~Hangs(z, m)'
          BY <1>3, <1>4, <1>5, <2>3, <4>1, <4>4
        <5>. QED  BY <2>1, <2>2, <2>4, <4>3, <4>4, <5>1
      <4>5. CASE z # x
        <5>1. Hangs(z, m)' <=> Hangs(z, m)
          BY <1>4, <1>6, <2>0, <2>3, <4>5
        <5>. QED  BY <2>1, <2>2, <2>4, <4>3, <4>5, <5>1
      <4>. QED  BY <4>4, <4>5
    <3>. QED  BY <3>1, <3>2
  <2>6. stack'[i].node = m /\ stack'[i].count = c
    BY <1>1, <2>0
  <2>. QED  BY <2>0, <2>5, <2>6 DEF Balanced
<1>9. Counted'
  BY <1>1, <1>8 DEF Counted
<1>10. Finished'
  <2>1. ASSUME NEW y \in Node, tree'[y].exists, ~Active(y)' PROVE Settled(y)'
    <3>1. ~Active(y) /\ tree[y].exists /\ y \notin E /\ tree'[y].link = tree[y].link
      BY <1>0, <1>1, <2>1 DEF Active
    <3>2. tree'[y].lines = tree[y].lines
      BY <1>1, <2>1, <3>1
    <3>3. ~Through(tree[y].link, k + 1)
      BY <1>3, <3>1
    <3>4. Settled(y)
      BY <1>0, <1>1, <3>1, <3>3 DEF ListedOnce, Finished, Given_up
    <3>5. ASSUME NEW i \in 1 .. Len(tree[y].lines), NEW z, z = tree[y].lines[i].id
          PROVE  Hangs(z, y)'
      <4>1. z \in Node /\ Hangs(z, y)
        BY <1>1, <3>1, <3>4, <3>5, Planks DEF Settled
      \* If it were erased, y would be, or be an active call.
      <4>2. z \notin E
        <5>. SUFFICES ASSUME z \in E PROVE FALSE
          OBVIOUS
        <5>1. Through(tree[z].link, k + 1) /\ Len(tree[z].link) = Len(tree[y].link) + 1
              /\ \A j \in 1 .. Len(tree[y].link) : tree[z].link[j] = tree[y].link[j]
          BY <1>3, <4>1 DEF Hangs
        <5>2. Len(tree[y].link) \in Nat
          BY <1>1, <3>1, Planks
        <5>3. CASE Len(tree[y].link) >= k + 1
          <6>1. \A j \in 1 .. k + 1 : j \in 1 .. Len(tree[y].link)
            BY <1>2, <5>2, <5>3
          <6>. QED  BY <3>3, <5>1, <5>3, <6>1 DEF Through
        <5>4. CASE ~(Len(tree[y].link) >= k + 1)
          <6>1. Len(tree[y].link) = k
            BY <1>2, <5>1, <5>2, <5>4 DEF Through
          <6>2. n \in Node /\ tree[n].exists /\ Len(tree[n].link) = k /\ Through(tree[n].link, k)
            BY <1>0, <1>2
          <6>3. \A j \in 1 .. k : tree[y].link[j] = tree[n].link[j]
            <7>1. \A j \in 1 .. k : j \in 1 .. k + 1
              BY <1>2
            <7>. QED  BY <5>1, <6>1, <6>2, <7>1 DEF Through
          <6>4. y = n
            BY <1>1, <3>1, <6>1, <6>2, <6>3, SamePlace
          <6>5. Active(y)
            BY <1>0, <1>2, <6>4 DEF Active
          <6>. QED  BY <3>1, <6>5
        <5>. QED  BY <5>3, <5>4
      <4>. QED  BY <1>4, <3>1, <4>1, <4>2
    <3>. QED  BY <3>2, <3>4, <3>5 DEF Settled
  <2>. QED  BY <2>1 DEF Finished
<1>11. NamedAbove'
  <2>1. ASSUME NEW z \in Node, tree'[z].exists, z # root
        PROVE  \E y \in Node : Hangs(z, y)' /\ \E i \in 1 .. Len(tree'[y].lines) :
                                                   tree'[y].lines[i].id = z
    <3>1. tree[z].exists /\ z \notin E
      BY <1>1, <2>1
    <3>2. PICK y \in Node : Hangs(z, y) /\ \E i \in 1 .. Len(tree[y].lines) :
                                               tree[y].lines[i].id = z
      BY <1>1, <2>1, <3>1 DEF ListedOnce, NamedAbove
    <3>3. PICK i \in 1 .. Len(tree[y].lines) : tree[y].lines[i].id = z
      BY <3>2
    <3>4. y \notin E
      <4>. SUFFICES ASSUME y \in E PROVE FALSE
        OBVIOUS
      <4>1. z \in E
        <5>1. Through(tree[y].link, k + 1) /\ Len(tree[y].link) \in Nat
          BY <1>1, <1>3, Planks
        <5>2. \A j \in 1 .. k + 1 : j \in 1 .. Len(tree[y].link)
          BY <1>2, <5>1 DEF Through
        <5>3. /\ Len(tree[z].link) = Len(tree[y].link) + 1
              /\ \A j \in 1 .. Len(tree[y].link) : tree[z].link[j] = tree[y].link[j]
          BY <3>2 DEF Hangs
        <5>4. Len(tree[y].link) >= k + 1 /\ \A j \in 1 .. k + 1 : tree[y].link[j] = place(j)
          BY <5>1 DEF Through
        <5>5. Len(tree[z].link) >= k + 1
          BY <1>2, <5>1, <5>3, <5>4
        <5>6. Through(tree[z].link, k + 1)
          BY <5>2, <5>3, <5>4, <5>5 DEF Through
        <5>. QED  BY <1>3, <3>1, <5>6
      <4>. QED  BY <3>1, <4>1
    <3>5. Hangs(z, y)'
      BY <1>4, <3>1, <3>2, <3>4
    <3>6. tree'[y].exists
      BY <1>1, <3>2, <3>4 DEF Hangs
    <3>7. \E j \in 1 .. Len(tree'[y].lines) : tree'[y].lines[j].id = z
      <4>. DEFINE s == tree[y].lines
                  u == tree'[y].lines
      <4>1. s \in Seq(Line) /\ Len(s) \in Nat
        BY <1>1, <3>2, Planks DEF Hangs
      <4>2. u = s \/ u = Append(s, line)
        BY <1>1, <3>6
      <4>3. i \in 1 .. Len(s) /\ s[i].id = z
        BY <3>3
      <4>. HIDE DEF s, u
      <4>4. i \in 1 .. Len(Append(s, line)) /\ Append(s, line)[i] = s[i]
        <5>1. Len(Append(s, line)) = Len(s) + 1 /\ Append(s, line)[i] = s[i]
          BY <1>1, <4>1, <4>3, AppendProperties
        <5>. QED  BY <4>1, <4>3, <5>1
      <4>5. i \in 1 .. Len(u) /\ u[i].id = z
        BY <4>2, <4>3, <4>4
      <4>. QED  BY <4>5 DEF u
    <3>. QED  BY <3>5, <3>7
  <2>. QED  BY <2>1 DEF NamedAbove
<1>. QED  BY <1>9, <1>10, <1>11 DEF ListedOnce

\* Before there are trees there is nothing to be listed.
LEMMA NotYetListed == pc' \notin {"tree", "done"} => ListedOnce'
BY DEF ListedOnce, Counted, Finished, NamedAbove

\* Every step leaves what has been read either flagged or planted.
LEMMA StepListed == Inductive /\ Inductive' /\ ListedOnce /\ [Next]_vars => ListedOnce'
<1>. SUFFICES ASSUME Inductive, Inductive', ListedOnce, [Next]_vars PROVE ListedOnce'
  OBVIOUS
<1>1. CASE follow \/ followed \/ clean_subgraph \/ make_group
  <2>1. pc' \notin {"tree", "done"}
    BY <1>1 DEF follow, followed, clean_subgraph, make_group
  <2>. QED  BY <2>1, NotYetListed
<1>2. CASE cleaned
  BY <1>2, CleanedListed
<1>3. CASE prune \/ already_there
  <2>1. reading /\ UNCHANGED <<tree, pc, returned>> /\ stack' = flagged(line_read.id)
    BY <1>3 DEF prune, already_there
  <2>. QED  BY <2>1, FlaggedListed
<1>4. CASE back_up
  <2>1. pc = "tree" /\ pc' = "tree" /\ stack' = caller /\ UNCHANGED tree
    BY <1>4 DEF back_up, reading
  <2>2. returned' # 0
    <3>1. PICK m \in 2 .. Len(stack) : Len(tree[line_read.id].link) = m
      BY <1>4, CircularIsActive DEF back_up
    <3>2. line_read.prio \in Priority
      BY <1>4, LineRead DEF back_up
    <3>3. returned' = weakest(line_read.id) /\ line_read.prio < weakest(line_read.id)
      BY <1>4 DEF back_up
    <3>4. weakest(line_read.id) # 0
      <4>. SUFFICES ASSUME weakest(line_read.id) = 0 PROVE FALSE
        OBVIOUS
      <4>. QED  BY <3>2, <3>3 DEF Priority
    <3>. QED  BY <3>3, <3>4
  <2>. QED  BY <2>1, <2>2, GivenUpListed
<1>5. CASE return_further
  <2>1. pc = "tree" /\ pc' = "tree" /\ stack' = caller /\ UNCHANGED tree
    BY <1>5 DEF return_further
  <2>2. returned' # 0
    BY <1>5 DEF return_further, Priority
  <2>. QED  BY <2>1, <2>2, GivenUpListed
<1>6. CASE descend
  BY <1>6, DescendListed
<1>7. CASE end_of_file
  BY <1>7, EndOfFileListed
<1>8. CASE put_off
  BY <1>8, PutOffListed
<1>9. CASE UNCHANGED vars
  <2>1. UNCHANGED <<tree, stack, returned, pc>>
    BY <1>9 DEF vars
  <2>2. \A m : place(m)' = place(m)
    BY <2>1 DEF place
  <2>3. \A y, z : Hangs(z, y)' <=> Hangs(z, y)
    BY <2>1 DEF Hangs
  <2>4. Counted'
    BY <2>1, <2>3 DEF ListedOnce, Counted, Balanced
  <2>5. Finished'
    BY <2>1, <2>2, <2>3 DEF ListedOnce, Finished, Active, Given_up, Settled, Through
  <2>6. NamedAbove'
    BY <2>1, <2>3 DEF ListedOnce, NamedAbove
  <2>. QED  BY <2>4, <2>5, <2>6 DEF ListedOnce
<1>. QED
  BY <1>1, <1>2, <1>3, <1>4, <1>5, <1>6, <1>7, <1>8, <1>9 DEF Next

\* Lists without repetitions that have nothing in common.
LEMMA JoinedOnce ==
    ASSUME NEW S, NEW s \in Seq(S), NEW t \in Seq(S), IsInjective(s), IsInjective(t),
           ToSet(s) \cap ToSet(t) = {}
    PROVE  /\ s \o t \in Seq(S) /\ IsInjective(s \o t)
           /\ ToSet(s \o t) \subseteq ToSet(s) \cup ToSet(t)
<1>. DEFINE u == s \o t
<1>1. /\ Len(s) \in Nat /\ Len(t) \in Nat /\ DOMAIN s = 1 .. Len(s) /\ DOMAIN t = 1 .. Len(t)
  BY LenProperties
<1>2. /\ u \in Seq(S) /\ Len(u) = Len(s) + Len(t)
      /\ \A i \in 1 .. Len(s) + Len(t) : u[i] = IF i <= Len(s) THEN s[i] ELSE t[i - Len(s)]
  BY ConcatProperties
<1>3. DOMAIN u = 1 .. Len(s) + Len(t)
  <2>. HIDE DEF u
  <2>. QED  BY <1>2, LenProperties
<1>. HIDE DEF u
<1>4. ASSUME NEW i \in DOMAIN u
      PROVE  \/ i \in DOMAIN s /\ u[i] = s[i]
             \/ i - Len(s) \in DOMAIN t /\ u[i] = t[i - Len(s)]
  <2>1. i \in 1 .. Len(s) + Len(t)
    BY <1>3
  <2>2. CASE i <= Len(s)
    BY <1>1, <1>2, <2>1, <2>2
  <2>3. CASE ~(i <= Len(s))
    <3>1. i - Len(s) \in 1 .. Len(t)
      BY <1>1, <2>1, <2>3
    <3>. QED  BY <1>1, <1>2, <2>1, <2>3, <3>1
  <2>. QED  BY <2>2, <2>3
<1>5. IsInjective(u)
  <2>1. ASSUME NEW i \in DOMAIN u, NEW j \in DOMAIN u, u[i] = u[j] PROVE i = j
    <3>1. CASE i \in DOMAIN s /\ u[i] = s[i] /\ j \in DOMAIN s /\ u[j] = s[j]
      BY <2>1, <3>1 DEF IsInjective
    <3>2. CASE /\ i - Len(s) \in DOMAIN t /\ u[i] = t[i - Len(s)]
               /\ j - Len(s) \in DOMAIN t /\ u[j] = t[j - Len(s)]
      <4>1. i - Len(s) = j - Len(s)
        BY <2>1, <3>2 DEF IsInjective
      <4>2. i \in Nat /\ j \in Nat
        BY <1>1, <1>3
      <4>. QED  BY <1>1, <4>1, <4>2
    <3>3. CASE \/ i \in DOMAIN s /\ u[i] = s[i] /\ j - Len(s) \in DOMAIN t /\ u[j] = t[j - Len(s)]
               \/ j \in DOMAIN s /\ u[j] = s[j] /\ i - Len(s) \in DOMAIN t /\ u[i] = t[i - Len(s)]
      <4>1. u[i] \in ToSet(s) /\ u[i] \in ToSet(t)
        BY <2>1, <3>3 DEF ToSet
      <4>. QED  BY <4>1
    <3>. QED  BY <1>4, <3>1, <3>2, <3>3
  <2>. QED  BY <2>1 DEF IsInjective
<1>6. ToSet(u) \subseteq ToSet(s) \cup ToSet(t)
  BY <1>4 DEF ToSet
<1>. QED  BY <1>2, <1>5, <1>6 DEF u

\* How the list of a file grows.
LineByLine(part, S, lines, listings) ==
    /\ part \in [0 .. Len(lines) -> Seq(S)]
    /\ part[0] = <<>>
    /\ \A n \in 1 .. Len(lines) :
           part[n] = part[n - 1] \o listings[lines[n].id] \o <<lines[n].id>>
    /\ named(lines, listings) = part[Len(lines)]

\* The list of a file is made line by line.
LEMMA NamedIs ==
    ASSUME NEW S, NEW L, NEW lines \in Seq(L), NEW listings,
           \A i \in 1 .. Len(lines) : /\ lines[i].id \in S
                                      /\ listings[lines[i].id] \in Seq(S)
    PROVE  \E part : LineByLine(part, S, lines, listings)
<1>. DEFINE N == Len(lines)
            V == Seq(S)
            next(n, v) == v \o listings[lines[n].id] \o <<lines[n].id>>
            step == [n \in 1 .. N |-> [v \in V |-> next(n, v)]]
            Part(k) == k = [i \in 0 .. N |-> IF i = 0 THEN <<>>
                               ELSE k[i - 1] \o listings[lines[i].id] \o <<lines[i].id>>]
<1>1. N \in Nat
  BY LenProperties
<1>2. <<>> \in V
  BY EmptySeq
<1>3. ASSUME NEW n \in 1 .. N, NEW v \in V PROVE next(n, v) \in V
  <2>1. listings[lines[n].id] \in Seq(S) /\ <<lines[n].id>> \in Seq(S)
    OBVIOUS
  <2>2. v \o listings[lines[n].id] \in Seq(S)
    BY <2>1, ConcatProperties
  <2>. QED  BY <2>1, <2>2, ConcatProperties
<1>4. step \in [1 .. N -> [V -> V]]
  <2>. HIDE DEF V, N, next
  <2>. QED  BY <1>3
<1>5. PICK f : Follows(f, N, V, <<>>, step)
  <2>. HIDE DEF V, N, step
  <2>. QED  BY <1>1, <1>2, <1>4, StepByStep
<1>6. \A n \in 1 .. N : f[n] = next(n, f[n - 1])
  <2>. HIDE DEF V, N, next
  <2>1. \A n \in 1 .. N : n - 1 \in 0 .. N
    BY <1>1
  <2>2. \A n \in 1 .. N : f[n - 1] \in V
    BY <1>5, <2>1 DEF Follows
  <2>. QED  BY <1>5, <2>2 DEF Follows
<1>7. Part(f)
  <2>. HIDE DEF N, V
  <2>1. ASSUME NEW n \in 0 .. N PROVE f[n] = IF n = 0 THEN <<>> ELSE next(n, f[n - 1])
    <3>1. n = 0 \/ n \in 1 .. N
      BY <1>1
    <3>. HIDE DEF next
    <3>. QED  BY <1>1, <1>5, <1>6, <3>1 DEF Follows
  <2>2. f = [n \in 0 .. N |-> f[n]]
    BY <1>5 DEF Follows
  <2>3. f = [n \in 0 .. N |-> IF n = 0 THEN <<>> ELSE next(n, f[n - 1])]
    <3>. HIDE DEF next
    <3>. QED  BY <2>1, <2>2
  <2>. QED  BY <2>3
<1>. DEFINE k == CHOOSE k : Part(k)
<1>8. Part(k)
  <2>. HIDE DEF Part
  <2>. QED  BY <1>7
<1>9. named(lines, listings) = k[N]
  BY DEF named
<1>. HIDE DEF k
<1>10. k[0] = <<>> /\ \A n \in 1 .. N : k[n] = next(n, k[n - 1])
  <2>. HIDE DEF N
  <2>1. k = [n \in 0 .. N |-> IF n = 0 THEN <<>> ELSE next(n, k[n - 1])]
    BY <1>8
  <2>. HIDE DEF next
  <2>. QED  BY <1>1, <2>1
<1>11. \A n \in 0 .. N : k[n] \in V
  <2>. DEFINE T == {n \in 0 .. N : k[n] \in V}
  <2>. HIDE DEF N, V, next
  <2>1. 0 \in T
    BY <1>1, <1>2, <1>10
  <2>2. ASSUME NEW n \in 1 .. N, n - 1 \in T PROVE n \in T
    BY <1>1, <1>3, <1>10, <2>2
  <2>3. T = 0 .. N
    <3>1. T \in SUBSET (0 .. N)
      OBVIOUS
    <3>. HIDE DEF T
    <3>. QED  BY <1>1, <2>1, <2>2, <3>1, UpTo
  <2>. QED  BY <2>3
<1>12. k \in [0 .. N -> V]
  <2>. HIDE DEF N, V
  <2>1. k = [n \in 0 .. N |-> k[n]]
    BY <1>8
  <2>. QED  BY <1>11, <2>1
<1>13. LineByLine(k, S, lines, listings)
  BY <1>9, <1>10, <1>12 DEF LineByLine
<1>. QED  BY <1>13

\* What a file names, with what is listed for it, is in sets that are apart.
ApartIn(W, S, lines, listings) ==
    /\ W \in [1 .. Len(lines) -> SUBSET S]
    /\ \A i \in 1 .. Len(lines) :
           /\ lines[i].id \in S /\ listings[lines[i].id] \in Seq(S)
           /\ IsInjective(listings[lines[i].id])
           /\ lines[i].id \notin ToSet(listings[lines[i].id])
           /\ lines[i].id \in W[i] /\ ToSet(listings[lines[i].id]) \subseteq W[i]
    /\ \A i, j \in 1 .. Len(lines) : i # j => W[i] \cap W[j] = {}

\* The list of a file repeats nothing if the lists of what it names do not, and
\* have nothing in common.
LEMMA NamedOnce ==
    ASSUME NEW S, NEW L, NEW lines \in Seq(L), NEW listings, NEW W,
           ApartIn(W, S, lines, listings)
    PROVE  /\ named(lines, listings) \in Seq(S) /\ IsInjective(named(lines, listings))
           /\ \A w \in ToSet(named(lines, listings)) : \E i \in 1 .. Len(lines) : w \in W[i]
<1>. DEFINE N == Len(lines)
<1>1. PICK part \in [0 .. N -> Seq(S)] :
          /\ part[0] = <<>>
          /\ \A n \in 1 .. N : part[n] = part[n - 1] \o listings[lines[n].id] \o <<lines[n].id>>
          /\ named(lines, listings) = part[N]
  <2>1. \A i \in 1 .. Len(lines) : lines[i].id \in S /\ listings[lines[i].id] \in Seq(S)
    BY DEF ApartIn
  <2>2. PICK part : LineByLine(part, S, lines, listings)
    BY <2>1, NamedIs
  <2>. QED  BY <2>2 DEF LineByLine
<1>2. N \in Nat
  BY LenProperties
<1>. DEFINE T == {n \in 0 .. N : /\ IsInjective(part[n])
                                 /\ ToSet(part[n]) \subseteq UNION {W[i] : i \in 1 .. n}}
<1>3. 0 \in T
  <2>1. DOMAIN part[0] = {}
    BY <1>1
  <2>. QED  BY <1>2, <2>1 DEF IsInjective, ToSet
<1>4. ASSUME NEW n \in 1 .. N, n - 1 \in T PROVE n \in T
  <2>. DEFINE p == part[n - 1]
              x == lines[n].id
              q == listings[x]
              U == UNION {W[i] : i \in 1 .. n - 1}
  <2>1. n - 1 \in 0 .. N /\ p \in Seq(S) /\ IsInjective(p) /\ ToSet(p) \subseteq U
    BY <1>1, <1>4
  <2>2. /\ x \in S /\ q \in Seq(S) /\ IsInjective(q) /\ x \notin ToSet(q) /\ x \in W[n]
        /\ ToSet(q) \subseteq W[n]
    BY DEF ApartIn
  <2>3. U \cap W[n] = {}
    <3>1. ASSUME NEW i \in 1 .. n - 1 PROVE W[i] \cap W[n] = {}
      <4>1. i \in 1 .. N /\ n \in 1 .. N /\ i # n
        BY <1>2
      <4>. HIDE DEF N
      <4>. QED  BY <4>1 DEF N, ApartIn
    <3>. QED  BY <3>1
  <2>4. part[n] = p \o q \o <<x>>
    BY <1>1
  <2>5. U \cup W[n] \subseteq UNION {W[i] : i \in 1 .. n}
    BY <1>2
  <2>. HIDE DEF p, q, x, U, T
  <2>6. /\ p \o q \in Seq(S) /\ IsInjective(p \o q)
        /\ ToSet(p \o q) \subseteq ToSet(p) \cup ToSet(q)
    <3>1. ToSet(p) \cap ToSet(q) = {}
      BY <2>1, <2>2, <2>3
    <3>. QED  BY <2>1, <2>2, <3>1, JoinedOnce
  <2>7. <<x>> \in Seq(S) /\ IsInjective(<<x>>) /\ ToSet(<<x>>) = {x}
    BY <2>2 DEF IsInjective, ToSet
  <2>8. /\ IsInjective((p \o q) \o <<x>>)
        /\ ToSet((p \o q) \o <<x>>) \subseteq ToSet(p \o q) \cup {x}
    <3>1. ToSet(p \o q) \cap ToSet(<<x>>) = {}
      BY <2>1, <2>2, <2>3, <2>6, <2>7
    <3>2. /\ IsInjective((p \o q) \o <<x>>)
          /\ ToSet((p \o q) \o <<x>>) \subseteq ToSet(p \o q) \cup ToSet(<<x>>)
      <4>. DEFINE a == p \o q
                  b == <<x>>
      <4>. HIDE DEF a, b
      <4>1. /\ IsInjective(a \o b) /\ ToSet(a \o b) \subseteq ToSet(a) \cup ToSet(b)
        BY <2>6, <2>7, <3>1, JoinedOnce DEF a, b
      <4>. QED  BY <4>1 DEF a, b
    <3>. QED  BY <2>7, <3>2
  <2>9. n \in 0 .. N
    BY <1>2
  <2>10. ToSet((p \o q) \o <<x>>) \subseteq U \cup W[n]
    BY <2>1, <2>2, <2>6, <2>8
  <2>11. IsInjective(part[n]) /\ ToSet(part[n]) \subseteq UNION {W[i] : i \in 1 .. n}
    BY <2>4, <2>5, <2>8, <2>10
  <2>. QED  BY <2>9, <2>11 DEF T
<1>5. T = 0 .. N
  <2>1. T \in SUBSET (0 .. N)
    OBVIOUS
  <2>. HIDE DEF T, N
  <2>. QED  BY <1>2, <1>3, <1>4, <2>1, UpTo
<1>6. N \in T
  <2>1. N \in 0 .. N
    BY <1>2
  <2>. HIDE DEF T, N
  <2>. QED  BY <1>5, <2>1
<1>7. /\ part[N] \in Seq(S) /\ IsInjective(part[N])
      /\ ToSet(part[N]) \subseteq UNION {W[i] : i \in 1 .. N}
  <2>1. N \in 0 .. N
    BY <1>2
  <2>. HIDE DEF N
  <2>. QED  BY <1>1, <1>6, <2>1
<1>. QED  BY <1>1, <1>7

\* The tree of one package is that of another, or below it.
Within(w, z) ==
    /\ tree[w].exists /\ tree[z].exists
    /\ Len(tree[w].link) >= Len(tree[z].link)
    /\ \A i \in 1 .. Len(tree[z].link) : tree[w].link[i] = tree[z].link[i]

Beneath(w, z) == Within(w, z) /\ Len(tree[w].link) > Len(tree[z].link)

\* What is within a child is beneath its parent, and within no other child.
LEMMA ChildrenApart ==
    ASSUME Inductive, pc \in {"tree", "done"}, NEW x \in Node, NEW y \in Node, NEW w \in Node,
           Hangs(y, x), Within(w, y)
    PROVE  /\ Within(y, y) /\ ~Beneath(y, y) /\ Beneath(w, x)
           /\ \A z \in Node : Hangs(z, x) /\ Within(w, z) => z = y
<1>1. /\ tree[x].exists /\ tree[y].exists /\ tree[w].exists
      /\ Len(tree[x].link) \in Nat /\ Len(tree[y].link) \in Nat /\ Len(tree[w].link) \in Nat
  BY Planks DEF Hangs, Within
<1>2. /\ Len(tree[y].link) = Len(tree[x].link) + 1
      /\ \A i \in 1 .. Len(tree[x].link) : tree[y].link[i] = tree[x].link[i]
  BY DEF Hangs
<1>3. /\ Len(tree[w].link) >= Len(tree[y].link)
      /\ \A i \in 1 .. Len(tree[y].link) : tree[w].link[i] = tree[y].link[i]
  BY DEF Within
<1>4. Within(y, y) /\ ~Beneath(y, y)
  BY <1>1 DEF Within, Beneath
<1>5. Beneath(w, x)
  <2>1. \A i \in 1 .. Len(tree[x].link) : i \in 1 .. Len(tree[y].link)
    BY <1>1, <1>2
  <2>2. Len(tree[w].link) > Len(tree[x].link)
    BY <1>1, <1>2, <1>3
  <2>3. \A i \in 1 .. Len(tree[x].link) : tree[w].link[i] = tree[x].link[i]
    BY <1>2, <1>3, <2>1
  <2>. QED  BY <1>1, <2>2, <2>3 DEF Within, Beneath
<1>6. ASSUME NEW z \in Node, Hangs(z, x), Within(w, z) PROVE z = y
  <2>1. tree[z].exists /\ Len(tree[z].link) = Len(tree[y].link)
    BY <1>2, <1>6 DEF Hangs
  <2>2. \A i \in 1 .. Len(tree[z].link) : tree[z].link[i] = tree[y].link[i]
    BY <1>3, <1>6, <2>1 DEF Within
  <2>. QED  BY <1>1, <2>1, <2>2, SamePlace
<1>. QED  BY <1>4, <1>5, <1>6

\* The lists of all trees, by the number of active calls.
Browsed(v) ==
    [x \in Node |-> IF tree[x].exists THEN named(tree[x].lines, v) ELSE <<>>]

\* The lists of calls within calls.
LEMMA BrowseIs ==
    ASSUME Inductive, pc \in {"tree", "done"}
    PROVE  /\ tree_browse \in [0 .. Cardinality(Node) -> [Node -> Seq(Node)]]
           /\ tree_browse[0] = [x \in Node |-> <<>>]
           /\ \A n \in 1 .. Cardinality(Node) : tree_browse[n] = Browsed(tree_browse[n - 1])
<1>. DEFINE N == Cardinality(Node)
            V == [Node -> Seq(Node)]
            first == [x \in Node |-> <<>>]
            step == [n \in 1 .. N |-> [v \in V |-> Browsed(v)]]
            Browse(k) == k = [n \in 0 .. N |->
                IF n = 0 THEN [x \in Node |-> <<>>]
                ELSE LET listings == k[n - 1]
                     IN  [x \in Node |-> IF tree[x].exists THEN named(tree[x].lines, listings)
                                         ELSE <<>>]]
<1>1. N \in Nat
  BY Names, FS_CardinalityType
<1>2. first \in V
  BY EmptySeq
<1>3. ASSUME NEW v \in V PROVE Browsed(v) \in V
  <2>1. ASSUME NEW x \in Node, tree[x].exists PROVE named(tree[x].lines, v) \in Seq(Node)
    <3>. DEFINE s == tree[x].lines
    <3>1. /\ s \in Seq(Line) /\ Len(s) \in Nat
          /\ \A i \in 1 .. Len(s) : s[i].id \in Node
      BY <2>1, Planks
    <3>. HIDE DEF s
    <3>2. \A i \in 1 .. Len(s) : s[i].id \in Node /\ v[s[i].id] \in Seq(Node)
      BY <3>1
    <3>3. PICK part : LineByLine(part, Node, s, v)
      BY <3>1, <3>2, NamedIs
    <3>4. Len(s) \in 0 .. Len(s)
      BY <3>1
    <3>5. named(s, v) \in Seq(Node)
      BY <3>3, <3>4 DEF LineByLine
    <3>. QED  BY <3>5 DEF s
  <2>2. <<>> \in Seq(Node)
    BY EmptySeq
  <2>. QED  BY <2>1, <2>2 DEF Browsed
<1>4. step \in [1 .. N -> [V -> V]]
  <2>. HIDE DEF V, N
  <2>. QED  BY <1>3
<1>5. PICK f : Follows(f, N, V, first, step)
  <2>. HIDE DEF V, N, step, first
  <2>. QED  BY <1>1, <1>2, <1>4, StepByStep
<1>6. f \in [0 .. N -> V] /\ f[0] = first /\ \A n \in 1 .. N : f[n] = Browsed(f[n - 1])
  <2>. HIDE DEF V, N, first
  <2>1. \A n \in 1 .. N : n - 1 \in 0 .. N
    BY <1>1
  <2>2. \A n \in 1 .. N : f[n - 1] \in V
    BY <1>5, <2>1 DEF Follows
  <2>. QED  BY <1>5, <2>2 DEF Follows
<1>7. \A k : Browse(k) <=> k = [n \in 0 .. N |-> IF n = 0 THEN first ELSE Browsed(k[n - 1])]
  BY DEF Browsed
<1>8. Browse(f)
  <2>. HIDE DEF N, V, first, Browse
  <2>1. \A n \in 0 .. N : f[n] = IF n = 0 THEN first ELSE Browsed(f[n - 1])
    BY <1>1, <1>6
  <2>2. f = [n \in 0 .. N |-> f[n]]
    BY <1>6
  <2>3. f = [n \in 0 .. N |-> IF n = 0 THEN first ELSE Browsed(f[n - 1])]
    BY <2>1, <2>2
  <2>. QED  BY <1>7, <2>3
<1>. DEFINE k == CHOOSE k : Browse(k)
<1>9. Browse(k)
  <2>. HIDE DEF Browse
  <2>. QED  BY <1>8
<1>10. tree_browse = k
  BY DEF tree_browse
<1>. HIDE DEF k
<1>11. k = [n \in 0 .. N |-> IF n = 0 THEN first ELSE Browsed(k[n - 1])]
  <2>. HIDE DEF Browse, N, first
  <2>. QED  BY <1>7, <1>9
<1>12. k[0] = first /\ \A n \in 1 .. N : k[n] = Browsed(k[n - 1])
  <2>. HIDE DEF N, first
  <2>. QED  BY <1>1, <1>11
<1>13. \A n \in 0 .. N : k[n] \in V
  <2>. DEFINE T == {n \in 0 .. N : k[n] \in V}
  <2>. HIDE DEF N, V, first
  <2>1. 0 \in T
    BY <1>1, <1>2, <1>12
  <2>2. ASSUME NEW n \in 1 .. N, n - 1 \in T PROVE n \in T
    BY <1>1, <1>3, <1>12, <2>2
  <2>3. T = 0 .. N
    <3>1. T \in SUBSET (0 .. N)
      OBVIOUS
    <3>. HIDE DEF T
    <3>. QED  BY <1>1, <2>1, <2>2, <3>1, UpTo
  <2>. QED  BY <2>3
<1>14. k \in [0 .. N -> V]
  <2>. HIDE DEF N, V, first
  <2>. QED  BY <1>11, <1>13
<1>. QED  BY <1>10, <1>12, <1>14

\* When all files name their children once, nothing is listed twice.
LEMMA BrowsedOnce ==
    ASSUME Inductive, pc \in {"tree", "done"}, \A x \in Node : tree[x].exists => Settled(x)
    PROVE  IsInjective(Listing)
<1>. DEFINE N == Cardinality(Node)
            Once(n, x) == /\ IsInjective(tree_browse[n][x])
                          /\ \A w \in ToSet(tree_browse[n][x]) : w \in Node /\ Beneath(w, x)
            T == {n \in 0 .. N : \A x \in Node : Once(n, x)}
<1>1. N \in Nat
  BY Names, FS_CardinalityType
<1>2. /\ tree_browse \in [0 .. N -> [Node -> Seq(Node)]]
      /\ tree_browse[0] = [x \in Node |-> <<>>]
      /\ \A n \in 1 .. N : tree_browse[n] = Browsed(tree_browse[n - 1])
  BY BrowseIs
<1>. HIDE DEF N
<1>3. IsInjective(<<>>) /\ ToSet(<<>>) = {}
  BY DEF IsInjective, ToSet
<1>4. 0 \in T
  BY <1>1, <1>2, <1>3
<1>5. ASSUME NEW n \in 1 .. N, n - 1 \in T PROVE n \in T
  <2>. DEFINE v == tree_browse[n - 1]
  <2>1. n - 1 \in 0 .. N /\ n \in 0 .. N
    BY <1>1
  <2>2. v \in [Node -> Seq(Node)] /\ tree_browse[n] = Browsed(v)
    BY <1>2, <2>1
  <2>3. \A x \in Node : /\ IsInjective(v[x])
                        /\ \A w \in ToSet(v[x]) : w \in Node /\ Beneath(w, x)
    BY <1>5
  <2>. HIDE DEF v
  <2>4. ASSUME NEW x \in Node PROVE Once(n, x)
    <3>1. CASE ~tree[x].exists
      BY <1>3, <2>2, <3>1 DEF Browsed
    <3>2. CASE tree[x].exists
      <4>. DEFINE s == tree[x].lines
                  W == [i \in 1 .. Len(s) |-> {w \in Node : Within(w, s[i].id)}]
      <4>1. /\ s \in Seq(Line) /\ Len(s) \in Nat /\ tree_browse[n][x] = named(s, v)
            /\ \A i \in 1 .. Len(s) : s[i].id \in Node
        BY <2>2, <3>2, Planks DEF Browsed
      <4>2. /\ \A i \in 1 .. Len(s) : Hangs(s[i].id, x)
            /\ \A i, j \in 1 .. Len(s) : s[i].id = s[j].id => i = j
        BY <3>2 DEF Settled
      <4>. HIDE DEF s
      <4>3. ASSUME NEW i \in 1 .. Len(s)
            PROVE  /\ s[i].id \in Node /\ v[s[i].id] \in Seq(Node)
                   /\ IsInjective(v[s[i].id])
                   /\ s[i].id \notin ToSet(v[s[i].id])
                   /\ s[i].id \in W[i] /\ ToSet(v[s[i].id]) \subseteq W[i]
        <5>. DEFINE z == s[i].id
        <5>1. z \in Node /\ Hangs(z, x)
          BY <4>1, <4>2
        <5>. HIDE DEF z
        <5>2. Within(z, z)
          <6>1. tree[z].exists /\ Len(tree[z].link) \in Nat
            BY <5>1, Planks DEF Hangs
          <6>. QED  BY <6>1 DEF Within
        <5>3. ~Beneath(z, z)
          BY <5>1, <5>2, ChildrenApart
        <5>4. v[z] \in Seq(Node) /\ IsInjective(v[z]) /\ z \notin ToSet(v[z])
          BY <2>2, <2>3, <5>1, <5>3
        <5>5. W[i] = {w \in Node : Within(w, z)}
          BY DEF z
        <5>6. z \in W[i] /\ ToSet(v[z]) \subseteq W[i]
          <6>1. \A w \in ToSet(v[z]) : w \in Node /\ Within(w, z)
            BY <2>3, <5>1 DEF Beneath
          <6>. QED  BY <5>1, <5>2, <5>5, <6>1
        <5>. QED  BY <5>1, <5>4, <5>6 DEF z
      <4>4. ASSUME NEW i \in 1 .. Len(s), NEW j \in 1 .. Len(s), i # j PROVE W[i] \cap W[j] = {}
        <5>. SUFFICES ASSUME NEW w \in W[i], w \in W[j] PROVE FALSE
          OBVIOUS
        <5>1. s[i].id \in Node /\ s[j].id \in Node /\ Hangs(s[i].id, x) /\ Hangs(s[j].id, x)
          BY <4>1, <4>2
        <5>2. w \in Node /\ Within(w, s[i].id) /\ Within(w, s[j].id)
          OBVIOUS
        <5>3. s[j].id = s[i].id
          BY <5>1, <5>2, ChildrenApart
        <5>. QED  BY <4>2, <4>4, <5>3
      <4>5. W \in [1 .. Len(s) -> SUBSET Node]
        OBVIOUS
      <4>6. ASSUME NEW i \in 1 .. Len(s), NEW w \in W[i] PROVE w \in Node /\ Beneath(w, x)
        <5>1. w \in Node /\ Within(w, s[i].id) /\ s[i].id \in Node /\ Hangs(s[i].id, x)
          BY <4>1, <4>2
        <5>. QED  BY <5>1, ChildrenApart
      <4>. HIDE DEF W
      <4>7. /\ IsInjective(named(s, v))
            /\ \A w \in ToSet(named(s, v)) : \E i \in 1 .. Len(s) : w \in W[i]
        <5>1. ApartIn(W, Node, s, v)
          BY <4>3, <4>4, <4>5 DEF ApartIn
        <5>. QED  BY <4>1, <5>1, NamedOnce
      <4>. QED  BY <4>1, <4>6, <4>7
    <3>. QED  BY <3>1, <3>2
  <2>. QED  BY <2>1, <2>4
<1>6. T = 0 .. N
  <2>1. T \in SUBSET (0 .. N)
    OBVIOUS
  <2>. HIDE DEF T
  <2>. QED  BY <1>1, <1>4, <1>5, <2>1, UpTo
<1>7. Listing = tree_browse[N][root] /\ root \in Node /\ N \in 0 .. N
  BY <1>1, Names DEF Listing, N
<1>. QED  BY <1>6, <1>7

\* The last call to end returns 0.
AtRest == pc = "done" => returned = 0

\* No package is built twice, however often its tree is erased and planted
\* again: what tree_browse() lists is without repetitions for every book and
\* every request.
THEOREM BuiltOnce == Spec => []NothingTwice
<1>1. Init => ListedOnce /\ AtRest
  BY DEF Init, ListedOnce, Counted, Finished, NamedAbove, AtRest
<1>2. Inductive /\ Inductive' /\ ListedOnce /\ AtRest /\ [Next]_vars => ListedOnce' /\ AtRest'
  <2>1. AtRest /\ [Next]_vars => AtRest'
    BY DEF AtRest, Next, vars, follow, followed, clean_subgraph, make_group, cleaned, prune, back_up,
           already_there, descend, end_of_file, put_off, return_further, reading
  <2>. QED  BY <2>1, StepListed
<1>3. Inductive /\ ListedOnce /\ AtRest => NothingTwice
  <2>. SUFFICES ASSUME Inductive, ListedOnce, AtRest, pc = "done" PROVE IsInjective(Listing)
    BY DEF NothingTwice
  <2>1. stack = <<>> /\ returned = 0
    BY DEF Inductive, Typed, AtRest
  <2>2. \A x \in Node : ~Active(x) /\ ~Given_up(x)
    BY <2>1 DEF Active, Given_up
  <2>3. \A x \in Node : tree[x].exists => Settled(x)
    BY <2>2 DEF ListedOnce, Finished
  <2>. QED  BY <2>3, BrowsedOnce
<1>. QED  BY <1>1, <1>2, <1>3, DependenciesInductive, PTL DEF Spec
=============================================================================
