------------------------- MODULE ExecutionRunProofs -------------------------
(***************************************************************************)
(* What the frontend shows of a run, for every tree, with processes forked *)
(* in forked ones, stopped and killed at any moment.                       *)
(*                                                                         *)
(* The argument: of the processes of a run at most one goes on walking the *)
(* tree (Walker); all others wait or fail, each at an element around those *)
(* of the others (Family).  So when a process starts an element, whatever  *)
(* may still be marked as running when the frontend reads of it lies       *)
(* around that element (Settled).                                          *)
(***************************************************************************)
EXTENDS ExecutionProofs

Around(e) == Ancestors[e] \cup {e}

-----------------------------------------------------------------------------
(***************************************************************************)
(* The processes of a run.                                                 *)
(***************************************************************************)

\* A process of the current run that may still start an element, or whose
\* success will let its parent do so.
Walker(r) ==
    /\ r.current
    /\ \/ r.pc \in {"start", "begin", "element", "handler"}
       \/ r.pc \in {"finish", "exit", "zombie"} /\ r.ok

Inside(r) ==
    /\ r.current
    /\ r.pc # "free"
    /\ r.pc \in {"exit", "zombie"} => r.ok

\* Process s works below an element that r has begun and will not go on from.
Holds(r, s) ==
    /\ ~Walker(r)
    /\ r.pc \in {"waiting", "finish"}
    /\ r.at \in Around(s.base)

\* A forked process is waited for at the element it was forked for.
ForkedAreWaitedFor ==
    \A p \in Procs : proc[p].parent # NoProc =>
        LET q == proc[p].parent
        IN  /\ ~Free(p)
            /\ proc[q].pc \in {"waiting", "exit"}
            /\ proc[q].current = proc[p].current
            /\ proc[q].base \in Ancestors[proc[p].base]
            /\ proc[q].pc = "waiting" => proc[p].base = proc[q].at
            /\ \A o \in Procs : proc[o].parent = q => o = p

OneBelowTheOther ==
    \A p, q \in Procs :
        p # q /\ Inside(proc[p]) /\ Inside(proc[q]) =>
            Holds(proc[p], proc[q]) \/ Holds(proc[q], proc[p])

FirstIsAtTheRoot ==
    Backend_exists =>
        /\ proc[backend_pid].current
        /\ proc[backend_pid].base = Root
        /\ proc[backend_pid].parent = NoProc

Family == ForkedAreWaitedFor /\ OneBelowTheOther /\ FirstIsAtTheRoot

\* What may be unfinished while r goes on.
Room(r) ==
    IF r.pc = "element" THEN Ancestors[r.at]
    ELSE IF r.pc \in {"handler", "finish"} THEN Around(r.at)
    ELSE Around(r.base)

-----------------------------------------------------------------------------
(***************************************************************************)
(* The messages that wait.  After message a of q, and with a = 0 now, the  *)
(* elements of MayRun can be marked as running, or have something below    *)
(* them that is.  Up to message i all of them but those in X have ended.   *)
(***************************************************************************)
IsEnd(m) == m.type # "ELEMENT_STARTED"

MayRun(rs, q, a) ==
    IF a = 0 THEN {e \in Displayed : \E d \in Subtree[e] : rs[d] = "RUNNING"}
    ELSE IF IsEnd(q[a]) THEN {}
    ELSE Around(q[a].el) \ {Root}

\* e ends between a and i, and nothing below it does so later.
Ended(q, a, i, e) ==
    \E j \in Nat :
        /\ a < j /\ j < i
        /\ IsEnd(q[j]) /\ q[j].el = e
        /\ \A k \in Nat : j <= k /\ k < i /\ IsEnd(q[k]) => e \notin Ancestors[q[k].el]

Settled(rs, q, a, i, X) == \A e \in MayRun(rs, q, a) \ X : Ended(q, a, i, e)

NotBelow(x) == {e \in Element : x \notin Ancestors[e]}

\* When message i is read everything has ended that is not around its element,
\* or below it.
ReadAt(rs, q, i) ==
    \A a \in 0 .. i - 1 :
        /\ q[i].type = "ELEMENT_STARTED" => Settled(rs, q, a, i, Ancestors[q[i].el])
        /\ q[i].type = "ELEMENT_ENDED" => Settled(rs, q, a, i, NotBelow(q[i].el))

InOrder == \A i \in 1 .. Len(to_front) : ReadAt(run_status, to_front, i)

\* What has started and not ended when a process goes on is around it.
GoesOn(rs, q, X) == \A a \in 0 .. Len(q) : Settled(rs, q, a, Len(q) + 1, X)

WalkersInOrder ==
    \A p \in Procs : Walker(proc[p]) => GoesOn(run_status, to_front, Room(proc[p]))

\* What is marked as running is the last element that started, or around it.
RunningOnPath ==
    \A e \in Displayed : run_status[e] = "RUNNING" =>
        Can_run(e) /\ Backend_exists /\ current_running \in Subtree[e]

Marks == InOrder /\ WalkersInOrder /\ RunningOnPath

-----------------------------------------------------------------------------
(***************************************************************************)
(* Lemmas about the tree.                                                  *)
(***************************************************************************)

LEMMA Order ==
    /\ \A a, b, c \in Element :
         a \in Ancestors[b] /\ b \in Ancestors[c] => a \in Ancestors[c]
    /\ \A a \in Element : a \notin Ancestors[a] /\ Ancestors[a] \subseteq Element
    /\ \A d, e \in Element : d \in Subtree[e] <=> d = e \/ e \in Ancestors[d]
    /\ Ancestors[Root] = {}
    /\ Root \in Element
<1>1. ASSUME NEW a \in Element, NEW b \in Element, NEW c \in Element,
             a \in Ancestors[b], b \in Ancestors[c]
      PROVE  a \in Ancestors[c]
  <2>1. a < b /\ b <= Last[a] /\ b < c /\ c <= Last[b]
    BY <1>1 DEF Ancestors
  <2>2. Last[b] <= Last[a] /\ Last[a] \in Element /\ Last[b] \in Element
    BY <2>1, TreeAssumption
  <2>3. a < c /\ c <= Last[a]
    BY <2>1, <2>2 DEF Element
  <2>. QED  BY <2>3 DEF Ancestors
<1>2. \A a \in Element : a \notin Ancestors[a] /\ Ancestors[a] \subseteq Element
  BY DEF Ancestors, Element
<1>3. ASSUME NEW d \in Element, NEW e \in Element
      PROVE  d \in Subtree[e] <=> d = e \/ e \in Ancestors[d]
  <2>1. e <= Last[e] /\ Last[e] \in Element
    BY TreeAssumption
  <2>2. d \in Subtree[e] <=> e <= d /\ d <= Last[e]
    BY DEF Subtree
  <2>3. e \in Ancestors[d] <=> e < d /\ d <= Last[e]
    BY DEF Ancestors
  <2>. QED  BY <2>1, <2>2, <2>3 DEF Element
<1>4. Root \in Element /\ \A a \in Element : ~(a < Root)
  BY TreeAssumption DEF Element, Root
<1>5. Ancestors[Root] = {}
  BY <1>4 DEF Ancestors
<1>. QED  BY <1>1, <1>2, <1>3, <1>4, <1>5

\* A set of elements with everything around each of them.
Closed(X) == \A e \in X \cap Element : Ancestors[e] \subseteq X

LEMMA ClosedSets ==
    ASSUME NEW x \in Element
    PROVE  Closed(Ancestors[x]) /\ Closed(Around(x)) /\ Closed(NotBelow(x))
BY Order DEF Closed, Around, NotBelow

LEMMA RoomClosed == ASSUME NEW r \in ProcState PROVE Closed(Room(r))
<1>1. r.at \in Element /\ r.base \in Element
  BY DEF ProcState
<1>. QED  BY <1>1, ClosedSets DEF Room

-----------------------------------------------------------------------------
(***************************************************************************)
(* Lemmas about the messages.                                              *)
(***************************************************************************)

LEMMA MessagesOf ==
    ASSUME NEW q \in Seq(FrontMessage)
    PROVE  /\ Len(q) \in Nat
           /\ \A i \in 1 .. Len(q) : q[i] \in FrontMessage /\ q[i].el \in Element
<1>1. Len(q) \in Nat /\ \A i \in 1 .. Len(q) : q[i] \in FrontMessage
  BY LenProperties, ElementOfSeq
<1>. QED  BY <1>1 DEF FrontMessage

LEMMA MayRunType ==
    ASSUME NEW rs, NEW q \in Seq(FrontMessage), NEW a \in 0 .. Len(q)
    PROVE  MayRun(rs, q, a) \subseteq Displayed
<1>1. a # 0 => a \in 1 .. Len(q) /\ q[a].el \in Element
  BY MessagesOf
<1>. QED  BY <1>1, Order DEF MayRun, Around, Displayed

\* A message is added to q.
LEMMA Added ==
    ASSUME NEW rs, NEW q \in Seq(FrontMessage), NEW m \in FrontMessage
    PROVE  LET longer == Append(q, m)
           IN  /\ longer \in Seq(FrontMessage)
               /\ Len(longer) = Len(q) + 1 /\ Len(q) \in Nat
               /\ longer[Len(q) + 1] = m
               /\ \A a \in 0 .. Len(q) : MayRun(rs, longer, a) = MayRun(rs, q, a)
               /\ \A a \in 0 .. Len(q), i \in 1 .. Len(q) + 1, e \in Element :
                    Ended(q, a, i, e) => Ended(longer, a, i, e)
               /\ \A i \in 1 .. Len(q) : ReadAt(rs, q, i) => ReadAt(rs, longer, i)
<1>. DEFINE longer == Append(q, m)
<1>1. /\ longer \in Seq(FrontMessage) /\ Len(longer) = Len(q) + 1 /\ Len(q) \in Nat
      /\ longer[Len(q) + 1] = m /\ \A i \in 1 .. Len(q) : longer[i] = q[i]
  BY AppendProperties, LenProperties
<1>. HIDE DEF longer
<1>2. ASSUME NEW a \in 0 .. Len(q) PROVE MayRun(rs, longer, a) = MayRun(rs, q, a)
  <2>1. a # 0 => longer[a] = q[a]
    BY <1>1
  <2>. QED  BY <2>1 DEF MayRun
<1>3. ASSUME NEW a \in 0 .. Len(q), NEW i \in 1 .. Len(q) + 1, NEW e \in Element, Ended(q, a, i, e)
      PROVE  Ended(longer, a, i, e)
  <2>1. PICK j \in Nat : /\ a < j /\ j < i /\ IsEnd(q[j]) /\ q[j].el = e
                         /\ \A k \in Nat : j <= k /\ k < i /\ IsEnd(q[k]) => e \notin Ancestors[q[k].el]
    BY <1>3 DEF Ended
  <2>2. \A k \in Nat : a < k /\ k < i => longer[k] = q[k]
    BY <1>1
  <2>3. \A k \in Nat : j <= k /\ k < i => longer[k] = q[k]
    BY <2>1, <2>2
  <2>. QED  BY <2>1, <2>2, <2>3 DEF Ended
<1>4. ASSUME NEW i \in 1 .. Len(q), ReadAt(rs, q, i) PROVE ReadAt(rs, longer, i)
  <2>1. longer[i] = q[i] /\ i \in 1 .. Len(q) + 1 /\ 0 .. i - 1 \subseteq 0 .. Len(q)
    BY <1>1
  <2>2. ASSUME NEW a \in 0 .. i - 1, NEW X, Settled(rs, q, a, i, X)
        PROVE  Settled(rs, longer, a, i, X)
    <3>1. a \in 0 .. Len(q) /\ MayRun(rs, q, a) \subseteq Displayed
      BY <2>1, MayRunType
    <3>. QED  BY <1>2, <1>3, <2>1, <2>2, <3>1 DEF Settled, Displayed
  <2>. QED  BY <1>4, <2>1, <2>2 DEF ReadAt
<1>. QED  BY <1>1, <1>2, <1>3, <1>4 DEF longer

\* Going on after a message x that is added: what has not ended before is not
\* around another end, and the new one's element may have ended with it.
LEMMA GoesOnAfter ==
    ASSUME NEW rs, NEW q \in Seq(FrontMessage), NEW m \in FrontMessage, NEW X, NEW Y,
           GoesOn(rs, q, X), (IF IsEnd(m) THEN X \ {m.el} ELSE X) \subseteq Y,
           (IF IsEnd(m) THEN Ancestors[m.el] ELSE Around(m.el)) \subseteq Y
    PROVE  GoesOn(rs, Append(q, m), Y)
<1>. DEFINE longer == Append(q, m)
            n == Len(q) + 1
<1>1. /\ longer \in Seq(FrontMessage) /\ Len(longer) = n /\ Len(q) \in Nat /\ longer[n] = m
      /\ \A a \in 0 .. Len(q) : MayRun(rs, longer, a) = MayRun(rs, q, a)
      /\ \A a \in 0 .. Len(q), i \in 1 .. Len(q) + 1, e \in Element :
            Ended(q, a, i, e) => Ended(longer, a, i, e)
  BY Added
<1>2. n \in Nat /\ n # 0 /\ n \in 1 .. Len(q) + 1
  BY <1>1
<1>2a. m.el \in Element
  BY DEF FrontMessage
<1>. HIDE DEF longer
<1>3. ASSUME NEW a \in 0 .. Len(q), NEW e \in MayRun(rs, longer, a) \ Y PROVE Ended(longer, a, n + 1, e)
  <2>1. e \in MayRun(rs, q, a) /\ e \in Element
    BY <1>1, MayRunType DEF Displayed
  <2>2. CASE e \notin X
    <3>1. Ended(longer, a, n, e)
      BY <1>1, <1>2, <2>1, <2>2 DEF GoesOn, Settled
    <3>2. PICK j \in Nat : /\ a < j /\ j < n /\ IsEnd(longer[j]) /\ longer[j].el = e
                           /\ \A k \in Nat : j <= k /\ k < n /\ IsEnd(longer[k]) => e \notin Ancestors[longer[k].el]
      BY <3>1 DEF Ended
    <3>3. IsEnd(m) => e \notin Ancestors[m.el]
      OBVIOUS
    <3>4. \A k \in Nat : k < n + 1 => k < n \/ k = n
      BY <1>2
    <3>5. \A k \in Nat : j <= k /\ k < n + 1 /\ IsEnd(longer[k]) => e \notin Ancestors[longer[k].el]
      BY <1>1, <3>2, <3>3, <3>4
    <3>6. j < n + 1
      BY <1>2, <3>2
    <3>. QED  BY <3>2, <3>5, <3>6 DEF Ended
  <2>3. CASE e \in X
    <3>1. IsEnd(m) /\ e = m.el
      BY <2>3
    <3>2. \A k \in Nat : n <= k /\ k < n + 1 => k = n
      BY <1>2
    <3>3. a < n /\ n < n + 1
      BY <1>1, <1>2
    <3>4. e \notin Ancestors[longer[n].el]
      BY <1>1, <2>1, <3>1, Order
    <3>. QED  BY <1>1, <1>2, <3>1, <3>2, <3>3, <3>4 DEF Ended
  <2>. QED  BY <2>2, <2>3
<1>4. MayRun(rs, longer, n) \ Y = {}
  BY <1>1, <1>2 DEF MayRun
<1>5. \A a \in 0 .. n : a \in 0 .. Len(q) \/ a = n
  BY <1>1
<1>6. \A a \in 0 .. n : Settled(rs, longer, a, n + 1, Y)
  BY <1>3, <1>4, <1>5 DEF Settled
<1>. QED  BY <1>1, <1>6 DEF GoesOn, longer

\* The message added is one that may be read.
LEMMA ReadsAdded ==
    ASSUME NEW rs, NEW q \in Seq(FrontMessage), NEW m \in FrontMessage, NEW X, GoesOn(rs, q, X),
           m.type = "ELEMENT_STARTED" => X \subseteq Ancestors[m.el],
           m.type = "ELEMENT_ENDED" => X \subseteq NotBelow(m.el)
    PROVE  ReadAt(rs, Append(q, m), Len(q) + 1)
<1>. DEFINE longer == Append(q, m)
            n == Len(q) + 1
<1>1. /\ longer \in Seq(FrontMessage) /\ Len(q) \in Nat /\ longer[n] = m
      /\ \A a \in 0 .. Len(q) : MayRun(rs, longer, a) = MayRun(rs, q, a)
      /\ \A a \in 0 .. Len(q), i \in 1 .. Len(q) + 1, e \in Element :
            Ended(q, a, i, e) => Ended(longer, a, i, e)
  BY Added
<1>2. n \in 1 .. Len(q) + 1 /\ 0 .. n - 1 = 0 .. Len(q)
  BY <1>1
<1>. HIDE DEF longer
<1>3. ASSUME NEW a \in 0 .. Len(q), NEW Y, X \subseteq Y PROVE Settled(rs, longer, a, n, Y)
  <2>1. MayRun(rs, q, a) \subseteq Element
    BY MayRunType DEF Displayed
  <2>2. Settled(rs, q, a, n, X)
    BY DEF GoesOn
  <2>. HIDE DEF n
  <2>. QED  BY <1>1, <1>2, <1>3, <2>1, <2>2 DEF Settled
<1>. QED  BY <1>1, <1>2, <1>3 DEF ReadAt, longer

\* The first message is read, by which rs becomes st: what has started is around
\* the element of the next one that starts, as before.
Reads(rs, st, q) ==
    /\ q # <<>>
    /\ q[1].type = "ELEMENT_STARTED" =>
         /\ MayRun(rs, q, 0) \subseteq Ancestors[q[1].el]
         /\ \A d \in Element : st[d] = "RUNNING" => rs[d] = "RUNNING" \/ d = q[1].el
    /\ IsEnd(q[1]) =>
         \A d \in Element : st[d] = "RUNNING" => rs[d] = "RUNNING" /\ d # q[1].el

LEMMA Taken ==
    ASSUME NEW rs, NEW st, NEW q \in Seq(FrontMessage), Reads(rs, st, q), NEW X, Closed(X),
           NEW i \in 1 .. Len(q), NEW a \in 0 .. i - 1,
           \A b \in 0 .. i : Settled(rs, q, b, i + 1, X)
    PROVE  Settled(st, Tail(q), a, i, X)
<1>. DEFINE t == Tail(q)
<1>1. /\ t \in Seq(FrontMessage) /\ Len(q) \in Nat \ {0} /\ Len(t) = Len(q) - 1
      /\ \A j \in 1 .. Len(q) - 1 : t[j] = q[j + 1]
  <2>1. q # <<>>
    BY DEF Reads
  <2>2. Len(q) \in Nat \ {0}
    BY <2>1, EmptySeq, LenProperties
  <2>. QED  BY <2>1, <2>2, HeadTailProperties
<1>. HIDE DEF t
<1>2. ASSUME NEW b \in 1 .. i, NEW e, Ended(q, b, i + 1, e)
      PROVE  Ended(t, b - 1, i, e)
  <2>1. PICK j \in Nat : /\ b < j /\ j < i + 1 /\ IsEnd(q[j]) /\ q[j].el = e
                         /\ \A k \in Nat : j <= k /\ k < i + 1 /\ IsEnd(q[k]) => e \notin Ancestors[q[k].el]
    BY <1>2 DEF Ended
  <2>2. j - 1 \in Nat /\ b - 1 < j - 1 /\ j - 1 < i
    BY <2>1
  <2>3. \A k \in Nat : b - 1 < k /\ k < i => k \in 1 .. Len(q) - 1 /\ t[k] = q[k + 1]
    BY <1>1
  <2>4. t[j - 1] = q[j]
    BY <2>1, <2>2, <2>3
  <2>5. \A k \in Nat : j - 1 <= k /\ k < i /\ IsEnd(t[k]) => e \notin Ancestors[t[k].el]
    <3>1. SUFFICES ASSUME NEW k \in Nat, j - 1 <= k, k < i, IsEnd(t[k]) PROVE e \notin Ancestors[t[k].el]
      OBVIOUS
    <3>2. k + 1 \in Nat /\ j <= k + 1 /\ k + 1 < i + 1 /\ b - 1 < k
      BY <2>1, <2>2, <3>1
    <3>3. t[k] = q[k + 1]
      BY <2>3, <3>1, <3>2
    <3>. QED  BY <2>1, <3>1, <3>2, <3>3
  <2>. QED  BY <2>1, <2>2, <2>4, <2>5 DEF Ended
<1>3. ASSUME NEW b \in 1 .. i, NEW e, e \in MayRun(rs, q, b) \ X PROVE Ended(t, b - 1, i, e)
  <2>1. Settled(rs, q, b, i + 1, X)
    OBVIOUS
  <2>. QED  BY <1>2, <1>3, <2>1 DEF Settled
<1>4. CASE a # 0
  <2>1. a + 1 \in 1 .. i /\ (a + 1) - 1 = a /\ a + 1 # 0 /\ t[a] = q[a + 1]
    BY SMTT(30), <1>1, <1>4
  <2>2. MayRun(st, t, a) = MayRun(rs, q, a + 1)
    BY <1>4, <2>1 DEF MayRun
  <2>3. \A e \in MayRun(st, t, a) \ X : Ended(t, a, i, e)
    BY <1>3, <2>1, <2>2
  <2>. QED  BY <2>3 DEF Settled, t
<1>5. CASE a = 0
  <2>. DEFINE x == q[1].el
  <2>1. SUFFICES ASSUME NEW e \in MayRun(st, t, 0), e \notin X PROVE Ended(t, 0, i, e)
    BY <1>5 DEF Settled, t
  <2>2. PICK d \in Subtree[e] : e \in Displayed /\ st[d] = "RUNNING"
    BY DEF MayRun
  <2>3. d \in Element /\ e \in Element /\ x \in Element /\ (d = e \/ e \in Ancestors[d]) /\ d \in Displayed
    <3>1. d \in Element /\ e \in Element
      BY <2>2 DEF Displayed, Subtree
    <3>2. x \in Element
      BY <1>1, MessagesOf
    <3>3. d = e \/ e \in Ancestors[d]
      BY <2>2, <3>1, Order
    <3>4. d # Root
      BY <2>2, <3>1, <3>3, Order DEF Displayed
    <3>. QED  BY <3>1, <3>2, <3>3, <3>4 DEF Displayed
  <2>4. \A y \in Displayed : rs[y] = "RUNNING" => y \in MayRun(rs, q, 0)
    BY Order DEF MayRun, Displayed
  <2>5. CASE ~IsEnd(q[1])
    <3>1. e \in Around(x)
      <4>1. CASE d = x
        BY <2>3, <4>1 DEF Around
      <4>2. CASE d # x
        <5>1. d \in Ancestors[x]
          BY <2>2, <2>3, <2>4, <2>5, <4>2 DEF Reads, IsEnd
        <5>. QED  BY <2>3, <5>1, Order DEF Around
      <4>. QED  BY <4>1, <4>2
    <3>2. e \in MayRun(rs, q, 1)
      BY <2>2, <2>5, <3>1 DEF MayRun, Displayed
    <3>. QED  BY <1>3, <2>1, <3>2
  <2>6. CASE IsEnd(q[1])
    <3>1. rs[d] = "RUNNING" /\ d # x
      BY <2>2, <2>3, <2>6 DEF Reads
    <3>2. e \in MayRun(rs, q, 0) /\ d \in MayRun(rs, q, 0) /\ d \notin X
      BY <2>1, <2>2, <2>3, <2>4, <3>1 DEF MayRun, Closed
    <3>3. Ended(q, 0, i + 1, e) /\ Ended(q, 0, i + 1, d)
      <4>1. Settled(rs, q, 0, i + 1, X)
        OBVIOUS
      <4>. QED  BY <2>1, <3>2, <4>1 DEF Settled
    <3>4. \A y : Ended(q, 0, i + 1, y) /\ y # x => Ended(t, 0, i, y)
      <4>1. ASSUME NEW y, Ended(q, 0, i + 1, y), y # x PROVE Ended(q, 1, i + 1, y)
        <5>1. PICK j \in Nat : /\ 0 < j /\ j < i + 1 /\ IsEnd(q[j]) /\ q[j].el = y
                               /\ \A k \in Nat : j <= k /\ k < i + 1 /\ IsEnd(q[k]) => y \notin Ancestors[q[k].el]
          BY <4>1 DEF Ended
        <5>2. 1 < j
          BY <4>1, <5>1
        <5>. QED  BY <5>1, <5>2 DEF Ended
      <4>2. 1 \in 1 .. i /\ 1 - 1 = 0
        OBVIOUS
      <4>. QED  BY <1>2, <4>1, <4>2
    <3>5. CASE e # x
      BY <3>3, <3>4, <3>5
    <3>6. CASE e = x
      <4>1. e \in Ancestors[d]
        BY <2>3, <3>1, <3>6
      <4>2. PICK j \in Nat : /\ 0 < j /\ j < i + 1 /\ IsEnd(q[j]) /\ q[j].el = d
        BY <3>3 DEF Ended
      <4>3. PICK h \in Nat : /\ 0 < h /\ h < i + 1 /\ IsEnd(q[h]) /\ q[h].el = e
                             /\ \A k \in Nat : h <= k /\ k < i + 1 /\ IsEnd(q[k]) => e \notin Ancestors[q[k].el]
        BY <3>3 DEF Ended
      <4>4. j < h
        <5>1. ~(h <= j)
          BY <4>1, <4>2, <4>3
        <5>. QED  BY <5>1, <4>2, <4>3
      <4>5. 1 < h
        BY <4>2, <4>3, <4>4
      <4>6. Ended(q, 1, i + 1, e)
        BY <4>3, <4>5 DEF Ended
      <4>7. 1 \in 1 .. i /\ 1 - 1 = 0
        OBVIOUS
      <4>. QED  BY <1>2, <4>6, <4>7
    <3>. QED  BY <3>5, <3>6
  <2>. QED  BY <2>5, <2>6
<1>. QED  BY <1>4, <1>5

LEMMA Shortened ==
    ASSUME NEW rs, NEW st, NEW q \in Seq(FrontMessage), Reads(rs, st, q)
    PROVE  /\ (\A i \in 1 .. Len(q) : ReadAt(rs, q, i)) =>
                \A i \in 1 .. Len(Tail(q)) : ReadAt(st, Tail(q), i)
           /\ \A X : Closed(X) /\ GoesOn(rs, q, X) => GoesOn(st, Tail(q), X)
<1>. DEFINE t == Tail(q)
<1>1. /\ t \in Seq(FrontMessage) /\ Len(q) \in Nat \ {0} /\ Len(t) = Len(q) - 1
      /\ \A j \in 1 .. Len(t) : t[j] = q[j + 1]
  <2>1. q # <<>>
    BY DEF Reads
  <2>2. Len(q) \in Nat \ {0}
    BY <2>1, EmptySeq, LenProperties
  <2>. QED  BY <2>1, <2>2, HeadTailProperties
<1>2. ASSUME NEW i \in 1 .. Len(t), ReadAt(rs, q, i + 1) PROVE ReadAt(st, t, i)
  <2>1. i + 1 \in 1 .. Len(q) /\ i \in 1 .. Len(q) /\ t[i] = q[i + 1] /\ (i + 1) - 1 = i
    BY <1>1
  <2>2. q[i + 1].el \in Element
    BY <2>1, MessagesOf
  <2>3. ASSUME NEW X, Closed(X), \A b \in 0 .. i : Settled(rs, q, b, i + 1, X), NEW a \in 0 .. i - 1
        PROVE  Settled(st, t, a, i, X)
    BY <2>1, <2>3, Taken
  <2>4. Closed(Ancestors[q[i + 1].el]) /\ Closed(NotBelow(q[i + 1].el))
    BY <2>2, ClosedSets
  <2>. QED  BY <1>2, <2>1, <2>3, <2>4 DEF ReadAt
<1>3. ASSUME NEW X, Closed(X), GoesOn(rs, q, X) PROVE GoesOn(st, t, X)
  <2>1. Len(q) \in 1 .. Len(q) /\ Len(t) + 1 = Len(q) /\ 0 .. Len(t) = 0 .. Len(q) - 1
    BY <1>1
  <2>2. \A b \in 0 .. Len(q) : Settled(rs, q, b, Len(q) + 1, X)
    BY <1>3 DEF GoesOn
  <2>3. \A a \in 0 .. Len(q) - 1 : Settled(st, t, a, Len(q), X)
    BY <1>3, <2>1, <2>2, Taken
  <2>. QED  BY <2>1, <2>3 DEF GoesOn
<1>4. \A i \in 1 .. Len(t) : i + 1 \in 1 .. Len(q)
  BY <1>1
<1>. QED  BY <1>2, <1>3, <1>4 DEF t

\* Less is marked as running than before, and nothing is read.
LEMMA LessMarked ==
    ASSUME NEW rs, NEW st, NEW q, MayRun(st, q, 0) \subseteq MayRun(rs, q, 0)
    PROVE  /\ \A i : ReadAt(rs, q, i) => ReadAt(st, q, i)
           /\ \A X : GoesOn(rs, q, X) => GoesOn(st, q, X)
<1>1. ASSUME NEW a PROVE MayRun(st, q, a) \subseteq MayRun(rs, q, a)
  BY DEF MayRun
<1>2. ASSUME NEW a, NEW i, NEW X, Settled(rs, q, a, i, X) PROVE Settled(st, q, a, i, X)
  BY <1>1, <1>2 DEF Settled
<1>. QED  BY <1>2 DEF ReadAt, GoesOn

\* There is room for more.
LEMMA MoreRoom ==
    ASSUME NEW rs, NEW q, NEW X, NEW Y, X \subseteq Y, GoesOn(rs, q, X)
    PROVE  GoesOn(rs, q, Y)
BY DEF GoesOn, Settled

-----------------------------------------------------------------------------
(***************************************************************************)
(* Lemmas about the processes.                                             *)
(***************************************************************************)
Running == Inductive /\ Family /\ Marks

LEMMA ProcType ==
    ASSUME Inductive
    PROVE  /\ proc \in [Procs -> ProcState] /\ to_front \in Seq(FrontMessage)
           /\ \A p \in Procs : proc[p] \in ProcState /\ Walks(proc[p])
           /\ NoProc \notin Procs /\ backend_pid \in Procs \cup {NoProc}
           /\ run_status \in [Element -> RunStatus]
BY DEF Inductive, TypeOK, WalkIsBelowBase, Walks, NoProc, Procs

\* What is around its base is around the element a process is at.
LEMMA RoomHasBase ==
    ASSUME NEW r \in ProcState, Walks(r)
    PROVE  /\ Around(r.base) \subseteq Room(r)
           /\ r.pc \in {"element", "handler", "waiting", "finish"} =>
                r.at \in Displayed /\ Around(r.base) \subseteq Ancestors[r.at]
<1>1. r.at \in Element /\ r.base \in Element
  BY DEF ProcState
<1>2. ASSUME r.pc \in {"element", "handler", "waiting", "finish"}
      PROVE  r.at \in Displayed /\ Around(r.base) \subseteq Ancestors[r.at]
  <2>1. r.base \in Ancestors[r.at]
    BY <1>2 DEF Walks
  <2>. QED  BY <1>1, <2>1, Order DEF Around, Displayed
<1>. QED  BY <1>2 DEF Room, Around

LEMMA OneWalker ==
    ASSUME OneBelowTheOther, NEW p \in Procs, NEW o \in Procs, p # o, Walker(proc[p]), Inside(proc[o])
    PROVE  ~Walker(proc[o]) /\ Holds(proc[o], proc[p])
<1>1. Inside(proc[p])
  BY DEF Walker, Inside
<1>. QED  BY <1>1 DEF OneBelowTheOther, Holds

\* How a process moves that neither forks nor exits.
Moves(r, s) ==
    /\ s.base = r.base /\ s.current = r.current /\ s.parent = r.parent
    /\ r.pc \notin {"free", "exit", "zombie"} /\ s.pc \notin {"free", "zombie"}
    /\ r.pc = "waiting" => s.pc \in {"waiting", "exit"} /\ s.at = r.at
    /\ Walker(s) => Walker(r)
    /\ ~Walker(r) /\ Inside(s) => s.pc \in {"waiting", "finish"} /\ s.at \in Around(r.at)

LEMMA FamilyMoves ==
    ASSUME Inductive, Family, NEW p \in Procs, NEW s \in ProcState, Moves(proc[p], s),
           proc' = [proc EXCEPT ![p] = s], UNCHANGED backend_pid
    PROVE  Family'
<1>. DEFINE r == proc[p]
<1>1. proc' \in [Procs -> ProcState] /\ proc'[p] = s /\ (\A o \in Procs \ {p} : proc'[o] = proc[o])
  BY ProcType
<1>2. r \in ProcState /\ NoProc \notin Procs
  BY ProcType
<1>3. ForkedAreWaitedFor'
  <2>1. SUFFICES ASSUME NEW c \in Procs, proc'[c].parent # NoProc
                 PROVE  /\ ~Free(c)'
                        /\ proc'[proc'[c].parent].pc \in {"waiting", "exit"}
                        /\ proc'[proc'[c].parent].current = proc'[c].current
                        /\ proc'[proc'[c].parent].base \in Ancestors[proc'[c].base]
                        /\ proc'[proc'[c].parent].pc = "waiting" => proc'[c].base = proc'[proc'[c].parent].at
                        /\ \A o \in Procs : proc'[o].parent = proc'[c].parent => o = c
    BY DEF ForkedAreWaitedFor
  <2>2. \A o \in Procs : /\ proc'[o].parent = proc[o].parent /\ proc'[o].base = proc[o].base
                         /\ proc'[o].current = proc[o].current
                         /\ proc[o].pc # "free" => proc'[o].pc # "free"
                         /\ proc[o].pc = "waiting" => proc'[o].pc \in {"waiting", "exit"} /\ proc'[o].at = proc[o].at
                         /\ proc[o].pc = "exit" => proc'[o].pc = "exit"
    BY <1>1 DEF Moves
  <2>. DEFINE q == proc[c].parent
  <2>3. /\ ~Free(c) /\ proc[q].pc \in {"waiting", "exit"} /\ proc[q].current = proc[c].current
        /\ proc[q].base \in Ancestors[proc[c].base]
        /\ proc[q].pc = "waiting" => proc[c].base = proc[q].at
        /\ \A o \in Procs : proc[o].parent = q => o = c
    BY <2>1, <2>2 DEF Family, ForkedAreWaitedFor
  <2>4. q \in Procs /\ proc'[c].parent = q
    <3>1. proc[c] \in ProcState
      BY ProcType
    <3>. QED  BY <2>1, <2>2, <3>1 DEF ProcState
  <2>. HIDE DEF q
  <2>. QED  BY <2>2, <2>3, <2>4 DEF Free
<1>4. OneBelowTheOther'
  <2>1. ASSUME NEW o \in Procs, o # p, Inside(s), Inside(proc[o])
        PROVE  Holds(s, proc[o]) \/ Holds(proc[o], s)
    <3>1. Inside(r)
      BY <2>1 DEF Moves, Inside
    <3>2. CASE Holds(proc[o], r)
      BY <3>2 DEF Holds, Moves
    <3>3. CASE Holds(r, proc[o])
      <4>1. s.pc \in {"waiting", "finish"} /\ s.at \in Around(r.at) /\ ~Walker(s)
        BY <2>1, <3>3 DEF Holds, Moves
      <4>2. proc[o].base \in Element /\ r.at \in Element
        BY ProcType DEF ProcState
      <4>3. s.at \in Around(proc[o].base)
        BY <3>3, <4>1, <4>2, Order DEF Holds, Around
      <4>. QED  BY <4>1, <4>3 DEF Holds
    <3>. QED  BY <2>1, <3>1, <3>2, <3>3 DEF Family, OneBelowTheOther
  <2>2. ASSUME NEW o \in Procs, NEW c \in Procs, o # c, Inside(proc'[o]), Inside(proc'[c])
        PROVE  Holds(proc'[o], proc'[c]) \/ Holds(proc'[c], proc'[o])
    <3>1. CASE o = p
      BY <1>1, <2>1, <2>2, <3>1
    <3>2. CASE c = p
      BY <1>1, <2>1, <2>2, <3>2
    <3>3. CASE o # p /\ c # p
      BY <1>1, <2>2, <3>3 DEF Family, OneBelowTheOther
    <3>. QED  BY <3>1, <3>2, <3>3
  <2>. QED  BY <2>2 DEF OneBelowTheOther
<1>5. FirstIsAtTheRoot'
  <2>1. Backend_exists => backend_pid \in Procs
    BY ProcType DEF Backend_exists
  <2>. QED  BY <1>1, <2>1 DEF Family, FirstIsAtTheRoot, Backend_exists, Moves
<1>. QED  BY <1>3, <1>4, <1>5 DEF Family

\* Nothing is sent, and every walker has the room of one before.
LEMMA MarksKept ==
    ASSUME Marks, UNCHANGED <<run_status, to_front, current_running, backend_pid>>,
           \A p \in Procs : Walker(proc'[p]) =>
              \E o \in Procs : Walker(proc[o]) /\ Room(proc[o]) \subseteq Room(proc'[p])
    PROVE  Marks'
<1>1. InOrder' /\ RunningOnPath'
  BY DEF Marks, InOrder, RunningOnPath, Backend_exists
<1>2. ASSUME NEW p \in Procs, Walker(proc'[p]) PROVE GoesOn(run_status, to_front, Room(proc'[p]))
  <2>1. PICK o \in Procs : Walker(proc[o]) /\ Room(proc[o]) \subseteq Room(proc'[p])
    BY <1>2
  <2>. QED  BY <2>1, MoreRoom DEF Marks, WalkersInOrder
<1>3. WalkersInOrder'
  BY <1>2 DEF WalkersInOrder
<1>. QED  BY <1>1, <1>3 DEF Marks

LEMMA MarksSent ==
    ASSUME Running, NEW p \in Procs, NEW s \in ProcState, Moves(proc[p], s), NEW m \in FrontMessage,
           m.el = proc[p].at, proc[p].current, proc[p].pc \in {"element", "finish"},
           m.type = "ELEMENT_STARTED" => proc[p].pc = "element" /\ s.pc = "handler" /\ s.at = m.el,
           IsEnd(m) => proc[p].pc = "finish",
           m.type = "ELEMENT_ENDED" => proc[p].ok,
           m.type = "ELEMENT_FAILED" => ~proc[p].ok,
           IsEnd(m) /\ Walker(s) => Ancestors[m.el] \subseteq Room(s),
           proc' = [proc EXCEPT ![p] = s], to_front' = Append(to_front, m),
           UNCHANGED <<run_status, current_running, backend_pid>>
    PROVE  Marks'
<1>. DEFINE r == proc[p]
            rs == run_status
            q == to_front
<1>1. proc'[p] = s /\ (\A o \in Procs \ {p} : proc'[o] = proc[o])
  BY ProcType DEF Running
<1>2. q \in Seq(FrontMessage) /\ r \in ProcState /\ Walks(r)
  BY ProcType DEF Running
<1>3. /\ Len(to_front') = Len(q) + 1 /\ Len(q) \in Nat
      /\ \A i \in 1 .. Len(q) : ReadAt(rs, q, i) => ReadAt(rs, to_front', i)
  BY <1>2, Added
<1>4. m.type \in {"ELEMENT_STARTED", "ELEMENT_ENDED", "ELEMENT_FAILED"} /\ m.el \in Element
  BY DEF FrontMessage
<1>5. Walker(r) <=> m.type # "ELEMENT_FAILED"
  BY <1>4 DEF Walker, IsEnd
<1>6. Walker(r) => GoesOn(rs, q, Room(r))
  BY DEF Running, Marks, WalkersInOrder
<1>7. /\ m.type = "ELEMENT_STARTED" => Room(r) = Ancestors[m.el] /\ Room(s) = Around(m.el)
      /\ IsEnd(m) => Room(r) = Around(m.el)
  BY DEF Room, IsEnd
<1>. HIDE DEF q, rs
<1>8. ReadAt(rs, to_front', Len(q) + 1)
  <2>1. CASE m.type = "ELEMENT_FAILED"
    <3>1. to_front'[Len(q) + 1] = m
      BY <1>2, Added DEF q
    <3>. QED  BY <2>1, <3>1 DEF ReadAt
  <2>2. CASE m.type = "ELEMENT_STARTED"
    <3>1. GoesOn(rs, q, Ancestors[m.el])
      BY <1>5, <1>6, <1>7, <2>2
    <3>. QED  BY <1>2, <2>2, <3>1, ReadsAdded DEF q
  <2>3. CASE m.type = "ELEMENT_ENDED"
    <3>1. GoesOn(rs, q, Around(m.el))
      BY <1>5, <1>6, <1>7, <2>3 DEF IsEnd
    <3>2. Around(m.el) \subseteq NotBelow(m.el)
      BY <1>4, Order DEF Around, NotBelow
    <3>. QED  BY <1>2, <2>3, <3>1, <3>2, ReadsAdded DEF q
  <2>. QED  BY <1>4, <2>1, <2>2, <2>3
<1>9. InOrder'
  <2>1. \A i \in 1 .. Len(to_front') : i \in 1 .. Len(q) \/ i = Len(q) + 1
    BY <1>3
  <2>2. \A i \in 1 .. Len(q) : ReadAt(rs, q, i)
    BY DEF Running, Marks, InOrder, q, rs
  <2>3. rs' = rs
    BY DEF rs
  <2>. QED  BY <1>3, <1>8, <2>1, <2>2, <2>3 DEF InOrder, rs
<1>10. ASSUME NEW w \in Procs, Walker(proc'[w]) PROVE GoesOn(rs, to_front', Room(proc'[w]))
  <2>1. CASE w = p
    <3>1. Walker(s) /\ Walker(r) /\ proc'[w] = s
      BY <1>1, <1>10, <2>1 DEF Moves
    <3>2. /\ (IF IsEnd(m) THEN Room(r) \ {m.el} ELSE Room(r)) \subseteq Room(s)
          /\ (IF IsEnd(m) THEN Ancestors[m.el] ELSE Around(m.el)) \subseteq Room(s)
      BY <1>4, <1>7, <3>1 DEF IsEnd, Around
    <3>3. GoesOn(rs, Append(q, m), Room(s))
      BY <1>2, <1>6, <3>1, <3>2, GoesOnAfter DEF q
    <3>. QED  BY <3>1, <3>3 DEF q
  <2>2. CASE w # p
    <3>1. proc'[w] = proc[w] /\ Walker(proc[w])
      BY <1>1, <1>10, <2>2
    <3>2. Inside(r)
      BY DEF Inside
    <3>3. ~Walker(r) /\ Holds(r, proc[w])
      BY <2>2, <3>1, <3>2, OneWalker DEF Running, Family
    <3>4. m.type = "ELEMENT_FAILED" /\ IsEnd(m)
      BY <1>5, <3>3 DEF IsEnd
    <3>5. GoesOn(rs, q, Room(proc[w]))
      BY <3>1 DEF Running, Marks, WalkersInOrder, q, rs
    <3>6. Ancestors[m.el] \subseteq Room(proc[w])
      <4>1. proc[w] \in ProcState /\ Walks(proc[w]) /\ proc[w].base \in Element
        BY ProcType DEF Running, ProcState
      <4>2. m.el \in Around(proc[w].base) /\ Around(proc[w].base) \subseteq Room(proc[w])
        BY <3>3, <4>1, RoomHasBase DEF Holds
      <4>3. Ancestors[m.el] \subseteq Around(proc[w].base)
        BY <1>4, <4>1, <4>2, Order DEF Around
      <4>. QED  BY <4>2, <4>3
    <3>7. Room(proc[w]) \ {m.el} \subseteq Room(proc[w])
      OBVIOUS
    <3>8. GoesOn(rs, Append(q, m), Room(proc[w]))
      BY <1>2, <3>4, <3>5, <3>6, <3>7, GoesOnAfter DEF q
    <3>. QED  BY <3>1, <3>8 DEF q
  <2>. QED  BY <2>1, <2>2
<1>11. WalkersInOrder' /\ RunningOnPath'
  BY <1>10 DEF WalkersInOrder, rs, Running, Marks, RunningOnPath, Backend_exists
<1>. QED  BY <1>9, <1>11 DEF Marks

\* Nothing is sent.
LEMMA QuietMove ==
    ASSUME Running, NEW p \in Procs, NEW s \in ProcState, Moves(proc[p], s),
           Walker(s) => Room(proc[p]) \subseteq Room(s),
           proc' = [proc EXCEPT ![p] = s], UNCHANGED to_front,
           UNCHANGED <<run_status, current_running, backend_pid>>
    PROVE  (Family /\ Marks)'
<1>1. proc'[p] = s /\ (\A o \in Procs \ {p} : proc'[o] = proc[o])
  BY ProcType DEF Running
<1>2. \A w \in Procs : Walker(proc'[w]) =>
        \E o \in Procs : Walker(proc[o]) /\ Room(proc[o]) \subseteq Room(proc'[w])
  BY <1>1 DEF Moves
<1>. QED  BY <1>2, FamilyMoves, MarksKept DEF Running

-----------------------------------------------------------------------------
(***************************************************************************)
(* The steps of the backend.                                               *)
(***************************************************************************)

\* Entering the children of el, from its begin or its handler.
LEMMA Enters ==
    ASSUME NEW r \in ProcState, Walks(r), NEW el \in Element,
           (r.pc = "begin" /\ el = r.base) \/ (r.pc = "handler" /\ el = r.at)
    PROVE  LET s == EnterChildren(r, el)
           IN  s \in ProcState /\ Moves(r, s) /\ (Walker(s) => Room(r) \subseteq Room(s))
<1>. DEFINE s == EnterChildren(r, el)
<1>1. Room(r) = Around(el) /\ (r.pc = "handler" => el # r.base)
  <2>1. r.pc = "handler" => r.base \in Ancestors[r.at]
    BY DEF Walks
  <2>2. r.base \in Element
    BY DEF ProcState
  <2>. QED  BY <2>1, <2>2, Order DEF Room
<1>2. s \in ProcState /\ s.base = r.base /\ s.current = r.current /\ s.parent = r.parent
  <2>1. s \in ProcState
    BY EnterChildrenStaysBelow DEF Walks
  <2>. QED  BY <2>1 DEF EnterChildren, ProcState
<1>3. CASE HasChildren(el)
  <2>1. s.pc = "element" /\ s.at = el + 1 /\ Around(el) \subseteq Ancestors[el + 1]
    BY <1>3, FirstChildBelow DEF EnterChildren, ProcState, Around
  <2>. QED  BY <1>1, <1>2, <2>1 DEF Moves, Walker, Inside, Room
<1>4. CASE ~HasChildren(el)
  <2>1. /\ s.pc = (IF el = r.base THEN "exit" ELSE "finish") /\ s.ok /\ s.at = r.at
    BY <1>4 DEF EnterChildren, ProcState
  <2>. QED  BY <1>1, <1>2, <2>1 DEF Moves, Walker, Inside, Room
<1>. QED  BY <1>3, <1>4

\* Leaving the element at which it is.
LEMMA Leaves ==
    ASSUME NEW r \in ProcState, Walks(r), r.pc \in {"element", "finish"}, NEW good \in BOOLEAN,
           r.pc = "finish" => good = r.ok, r.pc = "element" => good
    PROVE  LET s == LeaveElement(r, good)
           IN  s \in ProcState /\ Moves(r, s) /\ (Walker(s) => Ancestors[r.at] \subseteq Room(s))
<1>. DEFINE s == LeaveElement(r, good)
<1>1. r.base \in Ancestors[r.at] /\ r.at \in Element \ {Root}
  BY AncestorsType DEF Walks, ProcState
<1>2. s \in ProcState /\ s.base = r.base /\ s.current = r.current /\ s.parent = r.parent
  <2>1. s \in ProcState
    BY <1>1, LeaveElementStaysBelow
  <2>. QED  BY <2>1 DEF LeaveElement, ProcState
<1>3. Parent[r.at] \in Ancestors[r.at] /\ Ancestors[r.at] \subseteq Around(Parent[r.at])
  BY <1>1, ParentIsInnermost DEF Around
<1>4. Walker(s) => Walker(r)
  <2>1. r.pc = "finish" /\ ~r.ok => s.pc \in {"finish", "exit"} /\ ~s.ok
    BY DEF LeaveElement, ProcState
  <2>. QED  BY <1>2, <2>1 DEF Walker
<1>5. CASE good /\ HasNext(r.at)
  <2>1. s.pc = "element" /\ s.at = Next_el(r.at) /\ Ancestors[r.at] \subseteq Ancestors[Next_el(r.at)]
    BY <1>1, <1>5, NextSiblingBelow DEF LeaveElement, ProcState
  <2>2. Walker(r) \/ ~r.current
    BY <1>5 DEF Walker
  <2>. QED  BY <1>2, <1>4, <2>1, <2>2 DEF Moves, Inside, Room
<1>6. CASE ~(good /\ HasNext(r.at)) /\ Parent[r.at] = r.base
  <2>1. s.pc = "exit" /\ s.ok = good
    BY <1>6 DEF LeaveElement, ProcState
  <2>2. Walker(r) \/ ~r.current \/ ~good
    BY DEF Walker
  <2>. QED  BY <1>2, <1>3, <1>4, <1>6, <2>1, <2>2 DEF Moves, Inside, Room
<1>7. CASE ~(good /\ HasNext(r.at)) /\ Parent[r.at] # r.base
  <2>1. s.pc = "finish" /\ s.ok = good /\ s.at = Parent[r.at]
    BY <1>7 DEF LeaveElement, ProcState
  <2>. QED  BY <1>2, <1>3, <1>4, <2>1 DEF Moves, Inside, Room, Around
<1>. QED  BY <1>5, <1>6, <1>7

\* Giving up, and returning from a handler.
LEMMA GivesUp ==
    ASSUME NEW r \in ProcState, r.pc \notin {"free", "exit", "zombie"},
           NEW s \in ProcState, s.pc = "exit", ~s.ok,
           s.base = r.base, s.current = r.current, s.parent = r.parent, s.at = r.at
    PROVE  Moves(r, s) /\ ~Walker(s)
BY DEF Moves, Walker, Inside

LEMMA Returns ==
    ASSUME NEW r \in ProcState, r.pc = "handler",
           NEW s \in ProcState, s.pc = "finish",
           s.base = r.base, s.current = r.current, s.parent = r.parent, s.at = r.at
    PROVE  Moves(r, s) /\ Room(r) = Room(s)
BY DEF Moves, Room, Walker, Inside

LEMMA begin_childrenRuns ==
    ASSUME Running, NEW p \in Procs, begin_children(p)
    PROVE  (Family /\ Marks)'
<1>. DEFINE r == proc[p]
<1>1. r \in ProcState /\ Walks(r) /\ r.pc = "begin" /\ r.base \in Element
  BY ProcType DEF Running, begin_children, ProcState
<1>2. PICK good \in BOOLEAN :
        proc' = [proc EXCEPT ![p] =
                   IF good THEN EnterChildren(@, @.base)
                   ELSE [@ EXCEPT !.pc = "exit", !.ok = FALSE]]
  BY DEF begin_children
<1>. DEFINE s == IF good THEN EnterChildren(r, r.base)
                 ELSE [r EXCEPT !.pc = "exit", !.ok = FALSE]
<1>3. s \in ProcState /\ Moves(r, s) /\ (Walker(s) => Room(r) \subseteq Room(s))
  <2>1. CASE good
    BY <1>1, <2>1, Enters
  <2>2. CASE ~good
    <3>1. s = [r EXCEPT !.pc = "exit", !.ok = FALSE]
      BY <2>2
    <3>2. /\ s \in ProcState /\ s.pc = "exit" /\ ~s.ok
          /\ s.base = r.base /\ s.current = r.current /\ s.parent = r.parent /\ s.at = r.at
      BY <1>1, <3>1 DEF ProcState
    <3>. QED  BY <1>1, <3>2, GivesUp
  <2>. QED  BY <2>1, <2>2
<1>4. /\ proc' = [proc EXCEPT ![p] = s] /\ UNCHANGED to_front
      /\ UNCHANGED <<run_status, current_running, backend_pid>>
  BY <1>2 DEF begin_children, walk_vars, frontend_vars
<1>. HIDE DEF s
<1>. QED  BY <1>3, <1>4, QuietMove

LEMMA do_execute_elementRuns ==
    ASSUME Running, NEW p \in Procs, do_execute_element(p)
    PROVE  (Family /\ Marks)'
<1>. DEFINE r == proc[p]
            e == r.at
<1>1. r \in ProcState /\ Walks(r) /\ r.pc = "element" /\ e \in Element
  BY ProcType DEF Running, do_execute_element, ProcState
<1>2. UNCHANGED <<run_status, current_running, backend_pid>>
  BY DEF do_execute_element, walk_vars, frontend_vars
<1>3. CASE Can_run(e) /\ e \in r.todo
  <2>. DEFINE s == [r EXCEPT !.pc = "handler"]
              m == [type |-> "ELEMENT_STARTED", el |-> e]
  <2>1. /\ proc' = [proc EXCEPT ![p] = s]
        /\ to_front' = IF r.current THEN Append(to_front, m) ELSE to_front
    BY <1>1, <1>3 DEF do_execute_element, send_to_front
  <2>2. /\ s \in ProcState /\ s.pc = "handler" /\ s.at = e
        /\ s.base = r.base /\ s.current = r.current /\ s.parent = r.parent
    BY <1>1 DEF ProcState
  <2>3. m \in FrontMessage /\ m.type = "ELEMENT_STARTED" /\ m.el = e
    BY <1>1 DEF FrontMessage
  <2>. HIDE DEF s, m
  <2>4. Moves(r, s) /\ (Walker(s) <=> r.current)
    BY <1>1, <2>2 DEF Moves, Walker, Inside
  <2>5. CASE r.current
    <3>1. Family'
      BY <1>2, <2>1, <2>2, <2>4, FamilyMoves DEF Running
    <3>2. Marks'
      BY <1>1, <1>2, <2>1, <2>2, <2>3, <2>4, <2>5, MarksSent DEF IsEnd
    <3>. QED  BY <3>1, <3>2
  <2>6. CASE ~r.current
    BY <1>2, <2>1, <2>2, <2>4, <2>6, QuietMove
  <2>. QED  BY <2>5, <2>6
<1>4. CASE ~(Can_run(e) /\ e \in r.todo)
  <2>. DEFINE s == LeaveElement(r, TRUE)
  <2>1. proc' = [proc EXCEPT ![p] = s] /\ UNCHANGED to_front
    BY <1>1, <1>4 DEF do_execute_element
  <2>2. s \in ProcState /\ Moves(r, s) /\ (Walker(s) => Ancestors[e] \subseteq Room(s))
    BY <1>1, Leaves
  <2>3. Room(r) = Ancestors[e]
    BY <1>1 DEF Room
  <2>. HIDE DEF s
  <2>. QED  BY <1>2, <2>1, <2>2, <2>3, QuietMove
<1>. QED  BY <1>3, <1>4

LEMMA finish_elementRuns ==
    ASSUME Running, NEW p \in Procs, finish_element(p)
    PROVE  (Family /\ Marks)'
<1>. DEFINE r == proc[p]
            e == r.at
            s == LeaveElement(r, r.ok)
            m == [type |-> IF r.ok THEN "ELEMENT_ENDED" ELSE "ELEMENT_FAILED", el |-> e]
<1>1. r \in ProcState /\ Walks(r) /\ r.pc = "finish" /\ e \in Element /\ r.ok \in BOOLEAN
  BY ProcType DEF Running, finish_element, ProcState
<1>2. /\ proc' = [proc EXCEPT ![p] = s]
      /\ to_front' = IF r.current THEN Append(to_front, m) ELSE to_front
      /\ UNCHANGED <<run_status, current_running, backend_pid>>
  BY DEF finish_element, send_to_front, walk_vars, frontend_vars
<1>3. s \in ProcState /\ Moves(r, s) /\ (Walker(s) => Ancestors[e] \subseteq Room(s))
  BY <1>1, Leaves
<1>4. /\ m \in FrontMessage /\ m.el = e
      /\ m.type = IF r.ok THEN "ELEMENT_ENDED" ELSE "ELEMENT_FAILED"
  BY <1>1 DEF FrontMessage
<1>. HIDE DEF s, m
<1>5. CASE r.current
  <2>1. Family'
    BY <1>2, <1>3, FamilyMoves DEF Running
  <2>2. Marks'
    BY <1>1, <1>2, <1>3, <1>4, <1>5, MarksSent DEF IsEnd
  <2>. QED  BY <2>1, <2>2
<1>6. CASE ~r.current
  <2>1. ~Walker(s)
    BY <1>3, <1>6 DEF Moves, Walker
  <2>. QED  BY <1>2, <1>3, <1>6, <2>1, QuietMove
<1>. QED  BY <1>5, <1>6

LEMMA run_containerRuns ==
    ASSUME Running, NEW p \in Procs, run_container(p)
    PROVE  (Family /\ Marks)'
<1>. DEFINE r == proc[p]
<1>1. r \in ProcState /\ Walks(r) /\ r.pc = "handler" /\ r.at \in Element
  BY ProcType DEF Running, run_container, ProcState
<1>2. PICK good \in BOOLEAN :
        proc' = [proc EXCEPT ![p] =
                   IF good THEN EnterChildren(@, @.at)
                   ELSE [@ EXCEPT !.pc = "finish", !.ok = FALSE]]
  BY DEF run_container
<1>. DEFINE s == IF good THEN EnterChildren(r, r.at)
                 ELSE [r EXCEPT !.pc = "finish", !.ok = FALSE]
<1>3. s \in ProcState /\ Moves(r, s) /\ (Walker(s) => Room(r) \subseteq Room(s))
  <2>1. CASE good
    BY <1>1, <2>1, Enters
  <2>2. CASE ~good
    <3>1. s = [r EXCEPT !.pc = "finish", !.ok = FALSE]
      BY <2>2
    <3>2. /\ s \in ProcState /\ s.pc = "finish"
          /\ s.base = r.base /\ s.current = r.current /\ s.parent = r.parent /\ s.at = r.at
      BY <1>1, <3>1 DEF ProcState
    <3>. QED  BY <1>1, <3>2, Returns
  <2>. QED  BY <2>1, <2>2
<1>4. /\ proc' = [proc EXCEPT ![p] = s] /\ UNCHANGED to_front
      /\ UNCHANGED <<run_status, current_running, backend_pid>>
  BY <1>2 DEF run_container, walk_vars, frontend_vars
<1>. HIDE DEF s
<1>. QED  BY <1>3, <1>4, QuietMove

LEMMA run_actionRuns ==
    ASSUME Running, NEW p \in Procs, run_action(p)
    PROVE  (Family /\ Marks)'
<1>. DEFINE r == proc[p]
<1>1. r \in ProcState /\ r.pc = "handler" /\ proc \in [Procs -> ProcState]
  BY ProcType DEF Running, run_action
<1>2. PICK good \in BOOLEAN : proc' = [proc EXCEPT ![p].pc = "finish", ![p].ok = good]
  BY DEF run_action
<1>. DEFINE s == [r EXCEPT !.pc = "finish", !.ok = good]
<1>3. s \in ProcState /\ Moves(r, s) /\ Room(r) = Room(s)
  <2>1. /\ s \in ProcState /\ s.pc = "finish"
        /\ s.base = r.base /\ s.current = r.current /\ s.parent = r.parent /\ s.at = r.at
    BY <1>1 DEF ProcState
  <2>. QED  BY <1>1, <2>1, Returns
<1>4. /\ proc' = [proc EXCEPT ![p] = s] /\ UNCHANGED to_front
      /\ UNCHANGED <<run_status, current_running, backend_pid>>
  BY <1>1, <1>2 DEF run_action, walk_vars, frontend_vars
<1>. HIDE DEF s
<1>. QED  BY <1>3, <1>4, QuietMove

LEMMA fatal_backend_errorRuns ==
    ASSUME Running, NEW p \in Procs, fatal_backend_error(p)
    PROVE  (Family /\ Marks)'
<1>. DEFINE r == proc[p]
            s == [r EXCEPT !.pc = "exit", !.ok = FALSE]
<1>1. r \in ProcState /\ r.pc \notin {"free", "exit", "zombie"} /\ proc \in [Procs -> ProcState]
  BY ProcType DEF Running, fatal_backend_error
<1>2. /\ s \in ProcState /\ s.pc = "exit" /\ ~s.ok
      /\ s.base = r.base /\ s.current = r.current /\ s.parent = r.parent /\ s.at = r.at
  BY <1>1 DEF ProcState
<1>3. /\ proc' = [proc EXCEPT ![p] = s] /\ UNCHANGED to_front
      /\ UNCHANGED <<run_status, current_running, backend_pid>>
  BY <1>1 DEF fatal_backend_error, walk_vars, frontend_vars
<1>. HIDE DEF s
<1>4. Moves(r, s) /\ ~Walker(s)
  BY <1>1, <1>2, GivesUp
<1>. QED  BY <1>2, <1>3, <1>4, QuietMove

\* What the commands make of a process does not start anything.
LEMMA ReadingMoves ==
    ASSUME Inductive, NEW p \in Procs, CanHandle(p), NEW next \in PCs,
           next = proc[p].pc \/ (proc[p].pc = "start" /\ next = "begin"),
           read_commands(p, next)
    PROVE  \E s \in ProcState :
              /\ proc' = [proc EXCEPT ![p] = s]
              /\ Moves(proc[p], s) /\ (Walker(s) => Room(proc[p]) \subseteq Room(s))
<1>. DEFINE r == proc[p]
            stopped == [proc[p] EXCEPT !.pc = "exit", !.ok = FALSE, !.sigio = FALSE]
            going(t) == [proc[p] EXCEPT !.pc = next, !.sigio = FALSE,
                           !.pause_now = toggle_pause(proc[p].pause_now, t)]
            Result(s) == s \in ProcState /\ Moves(r, s) /\ (Walker(s) => Room(r) \subseteq Room(s))
<1>1. r \in ProcState /\ r.pc \notin {"free", "exit", "zombie"} /\ r.current \in BOOLEAN
  BY ProcType DEF CanHandle, ProcState
<1>2. Result(stopped)
  <2>. DEFINE s == stopped
  <2>1. /\ s \in ProcState /\ s.pc = "exit" /\ ~s.ok
        /\ s.base = r.base /\ s.current = r.current /\ s.parent = r.parent /\ s.at = r.at
    BY <1>1 DEF ProcState
  <2>. HIDE DEF s
  <2>2. Moves(r, s) /\ ~Walker(s)
    BY <1>1, <2>1, GivesUp
  <2>. QED  BY <2>1, <2>2 DEF s
<1>3. ASSUME NEW t \in BOOLEAN PROVE Result(going(t))
  <2>. DEFINE s == going(t)
  <2>1. /\ s \in ProcState /\ s.pc = next /\ s.ok = r.ok
        /\ s.base = r.base /\ s.current = r.current /\ s.parent = r.parent /\ s.at = r.at
    BY <1>1 DEF ProcState, PCs, toggle_pause
  <2>. HIDE DEF s
  <2>2. CASE next = r.pc
    <3>1. s.at \in Around(r.at)
      BY <2>1 DEF Around
    <3>2. (Walker(s) <=> Walker(r)) /\ (Inside(s) <=> Inside(r)) /\ Room(r) = Room(s)
      BY <2>1, <2>2 DEF Walker, Inside, Room
    <3>2a. ~Walker(r) /\ Inside(r) => r.pc \in {"waiting", "finish"}
      BY <1>1 DEF Walker, Inside, ProcState
    <3>2b. Moves(r, s)
      BY <1>1, <2>1, <2>2, <3>1, <3>2, <3>2a DEF Moves
    <3>. QED  BY <2>1, <3>2, <3>2b DEF s
  <2>3. CASE r.pc = "start" /\ next = "begin"
    <3>1. Moves(r, s) /\ Room(r) = Room(s)
      BY <1>1, <2>1, <2>3 DEF Moves, Walker, Inside, Room
    <3>. QED  BY <2>1, <3>1 DEF s
  <2>. QED  BY <2>2, <2>3
<1>4. CASE ~r.current
  <2>1. \E new \in {stopped} \cup {going(t) : t \in BOOLEAN} : proc' = [proc EXCEPT ![p] = new]
    BY <1>4 DEF read_commands
  <2>. HIDE DEF stopped, going, Result
  <2>2. \A new \in {stopped} \cup {going(t) : t \in BOOLEAN} : Result(new)
    BY <1>2, <1>3
  <2>3. \E new : proc' = [proc EXCEPT ![p] = new] /\ Result(new)
    BY <2>1, <2>2
  <2>. QED  BY <2>3 DEF Result
<1>5. CASE r.current /\ Stops(to_back) = {}
  <2>1. Odd(Pauses(to_back)) \in BOOLEAN
    BY DEF Odd
  <2>2. proc' = [proc EXCEPT ![p] = going(Odd(Pauses(to_back)))]
    BY <1>5 DEF read_commands
  <2>. HIDE DEF stopped, going, Result
  <2>3. Result(going(Odd(Pauses(to_back))))
    BY <1>3, <2>1
  <2>4. \E new : proc' = [proc EXCEPT ![p] = new] /\ Result(new)
    BY <2>2, <2>3
  <2>. QED  BY <2>4 DEF Result
<1>6. CASE r.current /\ Stops(to_back) # {}
  <2>1. proc' = [proc EXCEPT ![p] = stopped]
    BY <1>6 DEF read_commands
  <2>. HIDE DEF stopped, going, Result
  <2>2. \E new : proc' = [proc EXCEPT ![p] = new] /\ Result(new)
    BY <1>2, <2>1
  <2>. QED  BY <2>2 DEF Result
<1>. QED  BY <1>1, <1>4, <1>5, <1>6

LEMMA ReadsCommands ==
    ASSUME Running, NEW p \in Procs, CanHandle(p), NEW next \in PCs,
           next = proc[p].pc \/ (proc[p].pc = "start" /\ next = "begin"),
           read_commands(p, next),
           UNCHANGED <<to_front, run_status, current_running, backend_pid>>
    PROVE  (Family /\ Marks)'
<1>1. PICK s \in ProcState :
              /\ proc' = [proc EXCEPT ![p] = s]
              /\ Moves(proc[p], s) /\ (Walker(s) => Room(proc[p]) \subseteq Room(s))
  BY ReadingMoves DEF Running
<1>. QED  BY <1>1, QuietMove

LEMMA signal_ioRuns ==
    ASSUME Running, NEW p \in Procs, signal_io(p)
    PROVE  (Family /\ Marks)'
<1>1. CanHandle(p) /\ read_commands(p, proc[p].pc)
      /\ UNCHANGED <<to_front, run_status, current_running, backend_pid>>
  BY DEF signal_io, frontend_vars
<1>2. proc[p].pc \in PCs
  BY ProcType DEF Running, ProcState, PCs
<1>. QED  BY <1>1, <1>2, ReadsCommands

LEMMA Start_receiving_sigioRuns ==
    ASSUME Running, NEW p \in Procs, Start_receiving_sigio(p)
    PROVE  (Family /\ Marks)'
<1>1. CanHandle(p) /\ proc[p].pc = "start" /\ read_commands(p, "begin")
      /\ UNCHANGED <<to_front, run_status, current_running, backend_pid>>
  BY DEF Start_receiving_sigio, frontend_vars, CanHandle
<1>2. "begin" \in PCs
  BY DEF PCs
<1>. QED  BY <1>1, <1>2, ReadsCommands

\* The handler that forks waits, and the new process goes on in its place.
LEMMA Forks ==
    ASSUME Running, NEW p \in Procs, NEW c \in Procs, proc[p].pc = "handler", Free(c),
           NEW waits \in ProcState, NEW child \in ProcState,
           waits.pc = "waiting", waits.at = proc[p].at, waits.base = proc[p].base,
           waits.current = proc[p].current, waits.parent = proc[p].parent,
           child.pc = "start", child.base = proc[p].at,
           child.current = proc[p].current, child.parent = p,
           proc' \in [Procs -> ProcState], proc'[p] = waits, proc'[c] = child,
           \A q \in Procs \ {p, c} : proc'[q] = proc[q],
           UNCHANGED <<to_front, run_status, current_running, backend_pid>>
    PROVE  (Family /\ Marks)'
<1>. DEFINE r == proc[p]
<1>1. /\ r \in ProcState /\ Walks(r) /\ c # p /\ proc[c].pc = "free" /\ p # NoProc
      /\ \A o \in Procs : proc[o] \in ProcState /\ Walks(proc[o])
  BY ProcType DEF Running, Free
<1>2. r.at \in Element /\ r.base \in Ancestors[r.at] /\ Around(r.base) \subseteq Ancestors[r.at]
  BY <1>1, RoomHasBase DEF ProcState, Walks
<1>3. r.current => Walker(r)
  BY DEF Walker
<1>4. \A o \in Procs : proc[o].parent # NoProc =>
        /\ proc[o].parent \in Procs \ {p, c} /\ ~Free(o)
        /\ proc[proc[o].parent].pc \in {"waiting", "exit"}
        /\ proc[proc[o].parent].current = proc[o].current
        /\ proc[proc[o].parent].base \in Ancestors[proc[o].base]
        /\ proc[proc[o].parent].pc = "waiting" => proc[o].base = proc[proc[o].parent].at
        /\ \A u \in Procs : proc[u].parent = proc[o].parent => u = o
  <2>1. \A o \in Procs : proc[o].parent \in Procs \cup {NoProc}
    BY <1>1 DEF ProcState
  <2>. QED  BY <1>1, <2>1 DEF Running, Family, ForkedAreWaitedFor
<1>5. ForkedAreWaitedFor'
  <2>1. \A o \in Procs : /\ proc'[o].parent = IF o = c THEN p ELSE proc[o].parent
                         /\ o # c => proc'[o].base = proc[o].base /\ proc'[o].current = proc[o].current
                         /\ Free(o)' => Free(o)
    BY <1>1 DEF Free
  <2>2. ASSUME NEW o \in Procs, o # c, proc[o].parent # NoProc
        PROVE  /\ ~Free(o)' /\ proc'[o].parent = proc[o].parent
               /\ proc'[proc[o].parent].pc \in {"waiting", "exit"}
               /\ proc'[proc[o].parent].current = proc'[o].current
               /\ proc'[proc[o].parent].base \in Ancestors[proc'[o].base]
               /\ proc'[proc[o].parent].pc = "waiting" => proc'[o].base = proc'[proc[o].parent].at
               /\ \A u \in Procs : proc'[u].parent = proc[o].parent => u = o
    <3>1. proc[o].parent \in Procs \ {p, c} /\ proc'[proc[o].parent] = proc[proc[o].parent]
      BY <1>4, <2>2
    <3>. QED  BY <1>4, <2>1, <2>2, <3>1
  <2>3. /\ proc'[c].parent = p /\ ~Free(c)' /\ proc'[p].pc = "waiting"
        /\ proc'[p].current = proc'[c].current /\ proc'[p].base \in Ancestors[proc'[c].base]
        /\ proc'[c].base = proc'[p].at
        /\ \A u \in Procs : proc'[u].parent = p => u = c
    BY <1>1, <1>2, <1>4, <2>1 DEF Free
  <2>4. \A o \in Procs : proc'[o].parent # NoProc => o = c \/ proc[o].parent # NoProc
    BY <2>1
  <2>. QED  BY <2>2, <2>3, <2>4 DEF ForkedAreWaitedFor
<1>6. OneBelowTheOther'
  <2>1. Holds(waits, child)
    BY <1>2 DEF Holds, Walker, Around
  <2>2. ASSUME NEW o \in Procs \ {p, c}, Inside(proc[o]), Inside(waits) \/ Inside(child)
        PROVE  Holds(proc[o], waits) /\ Holds(proc[o], child)
    <3>1. Walker(r)
      BY <1>3, <2>2 DEF Inside
    <3>2. Holds(proc[o], r)
      BY <2>2, <3>1, OneWalker DEF Running, Family
    <3>3. proc[o].at \in Around(child.base)
      BY <1>2, <3>2 DEF Holds, Around
    <3>. QED  BY <3>2, <3>3 DEF Holds
  <2>3. ASSUME NEW o \in Procs, NEW u \in Procs, o # u, Inside(proc'[o]), Inside(proc'[u])
        PROVE  Holds(proc'[o], proc'[u]) \/ Holds(proc'[u], proc'[o])
    <3>1. CASE {o, u} \cap {p, c} = {}
      BY ZenonT(60), <2>3, <3>1 DEF Running, Family, OneBelowTheOther
    <3>2. CASE o \in {p, c} /\ u \notin {p, c}
      BY <2>2, <2>3, <3>2
    <3>3. CASE u \in {p, c} /\ o \notin {p, c}
      BY <2>2, <2>3, <3>3
    <3>4. CASE o \in {p, c} /\ u \in {p, c}
      BY <1>1, <2>1, <2>3, <3>4
    <3>. QED  BY <3>1, <3>2, <3>3, <3>4
  <2>. QED  BY <2>3 DEF OneBelowTheOther
<1>7. FirstIsAtTheRoot'
  <2>1. Backend_exists => backend_pid \in Procs /\ backend_pid # c
    BY <1>1, ProcType DEF Running, Inductive, Backend_exists, BackendIsThere, Free
  <2>2. Backend_exists => /\ proc'[backend_pid].current = proc[backend_pid].current
                          /\ proc'[backend_pid].base = proc[backend_pid].base
                          /\ proc'[backend_pid].parent = proc[backend_pid].parent
    BY <2>1
  <2>. QED  BY <2>2 DEF Running, Family, FirstIsAtTheRoot, Backend_exists
<1>8. Marks'
  <2>1. ASSUME NEW o \in Procs, Walker(proc'[o])
        PROVE  \E w \in Procs : Walker(proc[w]) /\ Room(proc[w]) \subseteq Room(proc'[o])
    <3>1. o # p
      BY <2>1 DEF Walker
    <3>2. CASE o = c
      <4>1. Walker(r) /\ Room(r) = Room(child)
        BY <1>3, <2>1, <3>2 DEF Walker, Room
      <4>. QED  BY <3>2, <4>1
    <3>3. CASE o # c
      BY <2>1, <3>1, <3>3
    <3>. QED  BY <3>2, <3>3
  <2>. QED  BY <2>1, MarksKept DEF Running
<1>. QED  BY <1>5, <1>6, <1>7, <1>8 DEF Family

LEMMA run_forkRuns ==
    ASSUME Running, NEW p \in Procs, run_fork(p)
    PROVE  (Family /\ Marks)'
<1>. DEFINE r == proc[p]
<1>1. r \in ProcState /\ r.pc = "handler" /\ proc \in [Procs -> ProcState] /\ r.at \in Element
  BY ProcType DEF Running, run_fork, ProcState
<1>2. UNCHANGED <<to_front, run_status, current_running, backend_pid>>
  BY DEF run_fork, walk_vars, frontend_vars
<1>3. CASE proc' = [proc EXCEPT ![p].pc = "finish", ![p].ok = FALSE]
  <2>. DEFINE s == [r EXCEPT !.pc = "finish", !.ok = FALSE]
  <2>1. /\ s \in ProcState /\ s.pc = "finish"
        /\ s.base = r.base /\ s.current = r.current /\ s.parent = r.parent /\ s.at = r.at
    BY <1>1 DEF ProcState
  <2>2. proc' = [proc EXCEPT ![p] = s]
    BY <1>1, <1>3
  <2>. HIDE DEF s
  <2>3. Moves(r, s) /\ Room(r) = Room(s)
    BY <1>1, <2>1, Returns
  <2>. QED  BY <1>2, <2>1, <2>2, <2>3, QuietMove
<1>4. ASSUME NEW c \in Procs, Free(c),
             proc' = [proc EXCEPT
                  ![p].pc = "waiting",
                  ![c] = [proc[p] EXCEPT !.pc = "start", !.base = proc[p].at,
                                         !.sigio = FALSE, !.parent = p]]
      PROVE  (Family /\ Marks)'
  <2>. DEFINE child == [r EXCEPT !.pc = "start", !.base = r.at, !.sigio = FALSE, !.parent = p]
              waits == [r EXCEPT !.pc = "waiting"]
  <2>1. /\ child \in ProcState /\ child.pc = "start" /\ child.base = r.at
        /\ child.current = r.current /\ child.parent = p
        /\ waits \in ProcState /\ waits.pc = "waiting" /\ waits.at = r.at /\ waits.base = r.base
        /\ waits.current = r.current /\ waits.parent = r.parent
    BY <1>1 DEF ProcState
  <2>2. c # p
    BY <1>1, <1>4 DEF Free
  <2>3. proc' = [[proc EXCEPT ![p] = waits] EXCEPT ![c] = child]
    BY <1>1, <1>4
  <2>. HIDE DEF child, waits
  <2>4. /\ proc' \in [Procs -> ProcState] /\ proc'[p] = waits /\ proc'[c] = child
        /\ \A q \in Procs \ {p, c} : proc'[q] = proc[q]
    BY <1>1, <2>1, <2>2, <2>3
  <2>5. Free(c)
    BY <1>4
  <2>. QED  BY <1>1, <1>2, <2>1, <2>4, <2>5, Forks
<1>. QED  BY <1>3, <1>4 DEF run_fork

\* The handler of c waits for p.
Wakes(p, c) == c = proc[p].parent /\ proc[c].pc = "waiting"

\* What an exit leaves.
LEMMA ExitLeaves ==
    ASSUME Running, NEW p \in Procs, exit_process(p)
    PROVE  /\ proc'[p].pc = (IF p = backend_pid THEN "zombie" ELSE "free")
           /\ proc'[p].parent = NoProc
           /\ p = backend_pid =>
                /\ proc'[p].base = proc[p].base /\ proc'[p].ok = proc[p].ok
                /\ proc'[p].current = proc[p].current /\ proc'[p].todo = proc[p].todo
                /\ proc[p].parent = NoProc
           /\ \A c \in Procs \ {p} :
                /\ proc'[c].base = proc[c].base /\ proc'[c].at = proc[c].at
                /\ proc'[c].current = proc[c].current /\ proc'[c].todo = proc[c].todo
                /\ proc'[c].parent = IF proc[c].parent = p THEN NoProc ELSE proc[c].parent
                /\ IF Wakes(p, c) THEN proc'[c].pc = "finish" /\ proc'[c].ok = proc[p].ok
                   ELSE proc'[c].pc = proc[c].pc /\ proc'[c].ok = proc[c].ok
           /\ \A c \in Procs : Wakes(p, c) =>
                /\ c # p /\ p # backend_pid /\ proc'[c].current = proc[p].current
                /\ proc'[c].at = proc[p].base /\ proc[c].current = proc[p].current
<1>. DEFINE r == proc[p]
            q == r.parent
<1>1. /\ r \in ProcState /\ r.pc = "exit" /\ r.ok \in BOOLEAN /\ q \in Procs \cup {NoProc}
      /\ \A o \in Procs : proc[o] \in ProcState /\ Walks(proc[o]) /\ proc[o].base \in Element
      /\ NoProc \notin Procs
      /\ UNCHANGED <<to_front, run_status, current_running, backend_pid>>
  BY ProcType DEF Running, exit_process, ProcState
<1>2. \A o \in Procs : proc[o].parent # NoProc =>
        /\ proc[o].parent \in Procs /\ ~Free(o)
        /\ proc[proc[o].parent].pc \in {"waiting", "exit"}
        /\ proc[proc[o].parent].current = proc[o].current
        /\ proc[proc[o].parent].base \in Ancestors[proc[o].base]
        /\ proc[proc[o].parent].pc = "waiting" => proc[o].base = proc[proc[o].parent].at
        /\ \A u \in Procs : proc[u].parent = proc[o].parent => u = o
  <2>1. \A o \in Procs : proc[o].parent \in Procs \cup {NoProc}
    BY <1>1 DEF ProcState
  <2>. QED  BY <2>1 DEF Running, Family, ForkedAreWaitedFor
<1>3. /\ proc'[p].pc = (IF p = backend_pid THEN "zombie" ELSE "free")
      /\ proc'[p].parent = NoProc
      /\ p = backend_pid => /\ proc'[p].base = r.base /\ proc'[p].ok = r.ok
                            /\ proc'[p].current = r.current /\ proc'[p].todo = r.todo
                            /\ q = NoProc
  <2>1. proc'[p] = IF p = backend_pid THEN [r EXCEPT !.pc = "zombie"] ELSE FreeProc
    BY DEF exit_process
  <2>2. FreeProc.pc = "free" /\ FreeProc.parent = NoProc
    BY DEF FreeProc
  <2>3. p = backend_pid => q = NoProc
    BY <1>1 DEF Running, Family, FirstIsAtTheRoot, Backend_exists
  <2>. QED  BY <1>1, <2>1, <2>2, <2>3 DEF ProcState
<1>4. ASSUME NEW c \in Procs \ {p}
      PROVE  /\ proc'[c].base = proc[c].base /\ proc'[c].at = proc[c].at
             /\ proc'[c].current = proc[c].current /\ proc'[c].todo = proc[c].todo
             /\ proc'[c].parent = IF proc[c].parent = p THEN NoProc ELSE proc[c].parent
             /\ IF Wakes(p, c) THEN proc'[c].pc = "finish" /\ proc'[c].ok = r.ok
                ELSE proc'[c].pc = proc[c].pc /\ proc'[c].ok = proc[c].ok
  <2>1. CASE Wakes(p, c)
    <3>1. c = q /\ q # NoProc /\ proc[q].pc = "waiting"
      BY <1>1, <2>1 DEF Wakes
    <3>2. proc'[c] = [proc[c] EXCEPT !.pc = "finish", !.ok = r.ok]
      BY <3>1 DEF exit_process, child_status
    <3>3. proc[c].parent # p
      <4>1. q = p => FALSE
        BY <3>1
      <4>2. proc[q].base \in Ancestors[r.base]
        BY <1>2, <3>1
      <4>3. proc[q].parent = p => r.base \in Ancestors[proc[q].base]
        BY <1>1, <1>2, <3>1
      <4>4. r.base \in Element /\ proc[q].base \in Element
        BY <1>1, <3>1
      <4>. QED  BY <3>1, <4>2, <4>3, <4>4, Order
    <3>4. proc[c] \in ProcState
      BY <1>1
    <3>. QED  BY <2>1, <3>2, <3>3, <3>4 DEF ProcState
  <2>2. CASE ~Wakes(p, c)
    <3>1. proc'[c] = [proc[c] EXCEPT !.parent = IF @ = p THEN NoProc ELSE @]
      BY <2>2 DEF exit_process, Wakes
    <3>2. proc[c] \in ProcState
      BY <1>1
    <3>. QED  BY <2>2, <3>1, <3>2 DEF ProcState
  <2>. QED  BY <2>1, <2>2
<1>5. \A c \in Procs : Wakes(p, c) => /\ c # p /\ p # backend_pid /\ proc'[c].current = r.current
                                  /\ proc'[c].at = r.base /\ proc[c].current = r.current
  <2>1. ASSUME NEW c \in Procs, Wakes(p, c)
        PROVE  /\ c # p /\ p # backend_pid /\ proc'[c].current = r.current
               /\ proc'[c].at = r.base /\ proc[c].current = r.current
    <3>1. c = q /\ q # NoProc /\ proc[q].pc = "waiting" /\ q # p
      BY <1>1, <2>1 DEF Wakes
    <3>2. proc[q].current = r.current /\ r.base = proc[q].at
      BY <1>2, <3>1
    <3>. QED  BY <1>3, <1>4, <3>1, <3>2
  <2>. QED  BY <2>1
<1>. QED  BY <1>3, <1>4, <1>5

\* An exit lets the handler that waits for it go on where the process was.
LEMMA exit_processRuns ==
    ASSUME Running, NEW p \in Procs, exit_process(p)
    PROVE  (Family /\ Marks)'
<1>. DEFINE r == proc[p]
            q == r.parent
<1>1. /\ r \in ProcState /\ r.pc = "exit" /\ r.ok \in BOOLEAN /\ q \in Procs \cup {NoProc}
      /\ \A o \in Procs : proc[o] \in ProcState /\ Walks(proc[o]) /\ proc[o].base \in Element
      /\ NoProc \notin Procs
      /\ UNCHANGED <<to_front, run_status, current_running, backend_pid>>
  BY ProcType DEF Running, exit_process, ProcState
<1>2. \A o \in Procs : proc[o].parent # NoProc =>
        /\ proc[o].parent \in Procs /\ ~Free(o)
        /\ proc[proc[o].parent].pc \in {"waiting", "exit"}
        /\ proc[proc[o].parent].current = proc[o].current
        /\ proc[proc[o].parent].base \in Ancestors[proc[o].base]
        /\ proc[proc[o].parent].pc = "waiting" => proc[o].base = proc[proc[o].parent].at
        /\ \A u \in Procs : proc[u].parent = proc[o].parent => u = o
  <2>1. \A o \in Procs : proc[o].parent \in Procs \cup {NoProc}
    BY <1>1 DEF ProcState
  <2>. QED  BY <2>1 DEF Running, Family, ForkedAreWaitedFor
<1>3. /\ proc'[p].pc = (IF p = backend_pid THEN "zombie" ELSE "free")
      /\ proc'[p].parent = NoProc
      /\ p = backend_pid => /\ proc'[p].base = r.base /\ proc'[p].ok = r.ok
                            /\ proc'[p].current = r.current /\ proc'[p].todo = r.todo
                            /\ q = NoProc
  BY ExitLeaves
<1>4. ASSUME NEW c \in Procs \ {p}
      PROVE  /\ proc'[c].base = proc[c].base /\ proc'[c].at = proc[c].at
             /\ proc'[c].current = proc[c].current /\ proc'[c].todo = proc[c].todo
             /\ proc'[c].parent = IF proc[c].parent = p THEN NoProc ELSE proc[c].parent
             /\ IF Wakes(p, c) THEN proc'[c].pc = "finish" /\ proc'[c].ok = r.ok
                ELSE proc'[c].pc = proc[c].pc /\ proc'[c].ok = proc[c].ok
  BY ExitLeaves
<1>5. \A c \in Procs : Wakes(p, c) => /\ c # p /\ p # backend_pid /\ proc'[c].current = r.current
                                  /\ proc'[c].at = r.base /\ proc[c].current = r.current
  BY ExitLeaves
<1>. HIDE DEF q, r
<1>6. ForkedAreWaitedFor'
  <2>1. ASSUME NEW o \in Procs, proc'[o].parent # NoProc
        PROVE  /\ ~Free(o)'
               /\ proc'[proc'[o].parent].pc \in {"waiting", "exit"}
               /\ proc'[proc'[o].parent].current = proc'[o].current
               /\ proc'[proc'[o].parent].base \in Ancestors[proc'[o].base]
               /\ proc'[proc'[o].parent].pc = "waiting" => proc'[o].base = proc'[proc'[o].parent].at
               /\ \A u \in Procs : proc'[u].parent = proc'[o].parent => u = o
    <3>. DEFINE w == proc[o].parent
    <3>1. o # p /\ w # NoProc /\ w # p /\ proc'[o].parent = w
      BY <1>3, <1>4, <2>1
    <3>2. /\ w \in Procs /\ ~Free(o) /\ proc[w].pc \in {"waiting", "exit"}
          /\ proc[w].current = proc[o].current /\ proc[w].base \in Ancestors[proc[o].base]
          /\ proc[w].pc = "waiting" => proc[o].base = proc[w].at
          /\ \A u \in Procs : proc[u].parent = w => u = o
      BY <1>2, <3>1
    <3>. HIDE DEF w
    <3>3. w # q
      BY <3>1, <3>2 DEF q, r
    <3>4. /\ proc'[w].pc = proc[w].pc /\ proc'[w].at = proc[w].at
          /\ proc'[w].base = proc[w].base /\ proc'[w].current = proc[w].current
      BY <1>4, <3>1, <3>2, <3>3 DEF Wakes, q, r
    <3>5. /\ proc'[o].pc # "free" /\ proc'[o].base = proc[o].base /\ proc'[o].current = proc[o].current
      BY <1>4, <3>1, <3>2 DEF Free
    <3>6. \A u \in Procs : proc'[u].parent = w => u = o
      <4>1. ASSUME NEW u \in Procs, proc'[u].parent = w PROVE u = o
        <5>1. u # p
          BY <1>3, <3>1, <4>1
        <5>2. proc[u].parent = w
          BY <1>4, <3>1, <4>1, <5>1
        <5>. QED  BY <3>2, <5>2
      <4>. QED  BY <4>1
    <3>. QED  BY <3>1, <3>2, <3>4, <3>5, <3>6 DEF Free
  <2>. QED  BY <2>1 DEF ForkedAreWaitedFor
<1>7. OneBelowTheOther'
  <2>1. \A o \in Procs : Inside(proc'[o]) => Inside(proc[o]) /\ (o = p => p = backend_pid)
    <3>1. ASSUME NEW o \in Procs, Inside(proc'[o]) PROVE Inside(proc[o]) /\ (o = p => p = backend_pid)
      <4>1. CASE o = p
        BY <1>1, <1>3, <3>1, <4>1 DEF Inside, r
      <4>2. CASE o # p /\ Wakes(p, o)
        BY <1>4, <1>5, <3>1, <4>2 DEF Inside, Wakes
      <4>3. CASE o # p /\ ~Wakes(p, o)
        BY <1>4, <3>1, <4>3 DEF Inside
      <4>. QED  BY <4>1, <4>2, <4>3
    <3>. QED  BY <3>1
  <2>2. ASSUME NEW o \in Procs, NEW u \in Procs, o # u, Inside(proc'[o]), Inside(proc'[u]),
               Holds(proc[o], proc[u])
        PROVE  Holds(proc'[o], proc'[u]) \/ Holds(proc'[u], proc'[o])
    <3>1. Inside(proc[o]) /\ Inside(proc[u]) /\ (p \in {o, u} => p = backend_pid)
      BY <2>1, <2>2
    <3>2. proc[o].pc \in {"waiting", "finish"} /\ o # p
      BY <1>1, <2>2 DEF Holds, r
    <3>3. proc'[u].base = proc[u].base
      BY <1>3, <1>4, <3>1 DEF r
    <3>4. CASE ~Wakes(p, o)
      <4>1. /\ proc'[o].pc = proc[o].pc /\ proc'[o].ok = proc[o].ok
            /\ proc'[o].at = proc[o].at /\ proc'[o].current = proc[o].current
        BY <1>4, <3>2, <3>4
      <4>. QED  BY <2>2, <3>3, <4>1 DEF Holds, Walker
    <3>5. CASE Wakes(p, o) /\ ~r.ok
      <4>1. /\ proc'[o].pc = "finish" /\ ~proc'[o].ok /\ proc'[o].at = proc[o].at
        BY <1>4, <3>2, <3>5
      <4>. QED  BY <2>2, <3>3, <4>1 DEF Holds, Walker
    <3>6. CASE Wakes(p, o) /\ r.ok
      <4>1. u # p /\ proc[o].at = r.base /\ Walker(r)
        <5>1. u # p
          BY <1>5, <3>1, <3>6
        <5>2. proc[o].at = r.base
          BY <1>4, <1>5, <3>2, <3>6
        <5>3. r.current
          BY <1>5, <3>1, <3>6 DEF Inside
        <5>. QED  BY <1>1, <3>6, <5>1, <5>2, <5>3 DEF Walker
      <4>2. Holds(proc[u], r)
        BY <3>1, <4>1, OneWalker DEF Running, Family, r
      <4>3. FALSE
        <5>1. proc[u].base \in Ancestors[proc[u].at] /\ proc[u].at \in Around(proc[o].at)
              /\ proc[o].at \in Around(proc[u].base)
          BY <1>1, <2>2, <4>1, <4>2 DEF Holds, Walks
        <5>2. proc[u].base \in Element /\ proc[u].at \in Element /\ proc[o].at \in Element
          BY <1>1 DEF ProcState
        <5>. QED  BY <5>1, <5>2, Order DEF Around
      <4>. QED  BY <4>3
    <3>. QED  BY <1>1, <3>4, <3>5, <3>6
  <2>3. ASSUME NEW o \in Procs, NEW u \in Procs, o # u, Inside(proc'[o]), Inside(proc'[u])
        PROVE  Holds(proc'[o], proc'[u]) \/ Holds(proc'[u], proc'[o])
    <3>1. Holds(proc[o], proc[u]) \/ Holds(proc[u], proc[o])
      BY <2>1, <2>3 DEF Running, Family, OneBelowTheOther
    <3>. QED  BY <2>2, <2>3, <3>1
  <2>. QED  BY <2>3 DEF OneBelowTheOther
<1>8. FirstIsAtTheRoot'
  <2>1. Backend_exists => backend_pid \in Procs
    BY <1>1, ProcType DEF Running, Backend_exists
  <2>2. Backend_exists => /\ proc[backend_pid].current /\ proc[backend_pid].base = Root
                          /\ proc[backend_pid].parent = NoProc
    BY DEF Running, Family, FirstIsAtTheRoot
  <2>3. Backend_exists => /\ proc'[backend_pid].current /\ proc'[backend_pid].base = Root
                          /\ proc'[backend_pid].parent = NoProc
    BY <1>3, <1>4, <2>1, <2>2 DEF r
  <2>. QED  BY <1>1, <2>3 DEF FirstIsAtTheRoot, Backend_exists
<1>9. Marks'
  <2>1. ASSUME NEW o \in Procs, Walker(proc'[o])
        PROVE  \E w \in Procs : Walker(proc[w]) /\ Room(proc[w]) \subseteq Room(proc'[o])
    <3>1. CASE o = p
      <4>1. p = backend_pid /\ proc'[p].ok /\ proc'[p].current
        BY <1>3, <2>1, <3>1 DEF Walker
      <4>2. Walker(r) /\ Room(r) = Room(proc'[p])
        BY <1>1, <1>3, <4>1 DEF Walker, Room
      <4>. QED  BY <3>1, <4>2 DEF r
    <3>2. CASE o # p /\ Wakes(p, o)
      <4>1. proc'[o].pc = "finish" /\ proc'[o].ok = r.ok /\ proc'[o].at = r.base /\ proc'[o].current = r.current
        BY <1>4, <1>5, <3>2
      <4>2. Walker(r) /\ Room(r) = Room(proc'[o])
        BY <1>1, <2>1, <4>1 DEF Walker, Room
      <4>. QED  BY <4>2 DEF r
    <3>3. CASE o # p /\ ~Wakes(p, o)
      <4>1. /\ proc'[o].base = proc[o].base /\ proc'[o].at = proc[o].at
            /\ proc'[o].current = proc[o].current
            /\ proc'[o].pc = proc[o].pc /\ proc'[o].ok = proc[o].ok
        BY <1>4, <3>3
      <4>2. Walker(proc[o]) /\ Room(proc[o]) = Room(proc'[o])
        BY <2>1, <4>1 DEF Walker, Room
      <4>. QED  BY <4>2
    <3>. QED  BY <3>1, <3>2, <3>3
  <2>. QED  BY <1>1, <2>1, MarksKept DEF Running
<1>. QED  BY <1>6, <1>7, <1>8, <1>9 DEF Family

-----------------------------------------------------------------------------
(***************************************************************************)
(* The frontend.                                                           *)
(***************************************************************************)

LEMMA ChildrenBelow ==
    ASSUME NEW x \in Element, NEW c \in Children[x]
    PROVE  /\ c \in Displayed /\ x < c /\ x \in Ancestors[c]
           /\ Subtree[c] \subseteq Subtree[x]
<1>1. c \in Element \ {Root} /\ Parent[c] = x
  BY DEF Children
<1>2. x \in Ancestors[c]
  BY <1>1, ParentIsInnermost
<1>3. Subtree[c] \subseteq Element
  BY <1>1 DEF Subtree
<1>4. \A d \in Subtree[c] : d \in Subtree[x]
  BY <1>1, <1>2, <1>3, Order
<1>. QED  BY <1>1, <1>2, <1>4 DEF Displayed, Ancestors

\* What is marked as running after 'm' has something below it that was before.
LEMMA MarksOfRunning ==
    ASSUME NEW rs \in [Element -> RunStatus], NEW e \in Element, NEW s \in RunStatus \ {"RUNNING"},
           \A x \in Displayed : rs[x] = "RUNNING" => Can_run(x),
           NEW x \in Displayed, ChangedStatuses(rs, e, s)[x] = "RUNNING"
    PROVE  Can_run(x) /\ \E d \in Subtree[x] : d \in Displayed /\ rs[d] = "RUNNING"
<1>. DEFINE st == ChangedStatuses(rs, e, s)
            Below(y) == \E d \in Subtree[y] : d \in Displayed /\ rs[d] = "RUNNING"
            Wrong == {y \in Displayed : st[y] = "RUNNING" /\ ~(Can_run(y) /\ Below(y))}
<1>1. \A y \in Element : st[y] = ChangedStatus(rs, e, s, st, y)
  BY ChangedStatusesAre
<1>. HIDE DEF st
<1>2. \A y \in Displayed : y \in Subtree[y]
  BY Order DEF Displayed
<1>3. ASSUME NEW y \in Wrong, \A z \in Wrong : z <= y PROVE FALSE
  <2>1. y \in Element /\ y \in Displayed /\ st[y] = "RUNNING" /\ st[y] = ChangedStatus(rs, e, s, st, y)
        /\ ~(Can_run(y) /\ Below(y))
    BY <1>1 DEF Displayed
  <2>2. rs[y] # "RUNNING"
    BY <1>2, <2>1
  <2>3. Can_run(y) /\ get_element_status(st, y) = "RUNNING"
    BY <2>1, <2>2 DEF ChangedStatus
  <2>4. has_child_with_run_status(st, y, "RUNNING")
    BY <2>3 DEF get_element_status
  <2>5. PICK c \in Children[y] : Can_run(c) /\ st[c] = "RUNNING"
    BY <2>4 DEF has_child_with_run_status
  <2>6. c \in Displayed /\ y < c /\ Subtree[c] \subseteq Subtree[y]
    BY <2>1, <2>5, ChildrenBelow
  <2>7. c \notin Wrong
    BY <1>3, <2>1, <2>6 DEF Displayed, Element
  <2>8. Below(c)
    BY <2>5, <2>6, <2>7
  <2>. QED  BY <2>1, <2>3, <2>6, <2>8
<1>4. Wrong = {}
  <2>1. Wrong \in SUBSET Element
    BY DEF Displayed
  <2>2. Wrong # {} => \E y \in Wrong : \A z \in Wrong : z <= y
    BY <2>1, LastOfElements
  <2>. QED  BY <1>3, <2>2
<1>. QED  BY <1>4 DEF st

\* Nothing moves and nothing is sent; fewer marks say "running".
LEMMA MarkedLess ==
    ASSUME Running, UNCHANGED <<to_front, current_running, backend_pid, proc>>,
           \A x \in Displayed : run_status'[x] = "RUNNING" =>
              Can_run(x) /\ \E d \in Subtree[x] : d \in Displayed /\ run_status[d] = "RUNNING"
    PROVE  (Family /\ Marks)'
<1>1. Family'
  BY DEF Running, Family, ForkedAreWaitedFor, OneBelowTheOther, FirstIsAtTheRoot, Backend_exists, Free
<1>2. \A x, d \in Element : d \in Subtree[x] => Subtree[d] \subseteq Subtree[x]
  <2>1. \A x, d, y \in Element : d \in Subtree[x] /\ y \in Subtree[d] => y \in Subtree[x]
    BY Order
  <2>2. \A d \in Element : Subtree[d] \subseteq Element
    BY DEF Subtree
  <2>. QED  BY <2>1, <2>2
<1>3. MayRun(run_status', to_front, 0) \subseteq MayRun(run_status, to_front, 0)
  <2>1. ASSUME NEW x \in Displayed, NEW d \in Subtree[x], run_status'[d] = "RUNNING"
        PROVE  \E y \in Subtree[x] : run_status[y] = "RUNNING"
    <3>1. d \in Displayed
      <4>1. d \in Element /\ x \in Element /\ x # Root
        BY DEF Displayed, Subtree
      <4>2. d # Root
        BY <4>1, Order
      <4>. QED  BY <4>1, <4>2 DEF Displayed
    <3>. QED  BY <1>2, <2>1, <3>1 DEF Displayed
  <2>. QED  BY <2>1 DEF MayRun
<1>4. InOrder' /\ WalkersInOrder'
  BY <1>3, LessMarked DEF Running, Marks, InOrder, WalkersInOrder
<1>5. RunningOnPath'
  BY <1>2 DEF Running, Marks, RunningOnPath, Backend_exists, Displayed
<1>. QED  BY <1>1, <1>4, <1>5 DEF Marks

LEMMA change_run_status_marksRuns ==
    ASSUME Running, NEW e \in Cursor, NEW s \in {"DONE", "FAILED", "NONE"}, change_run_status_marks(e, s)
    PROVE  (Family /\ Marks)'
<1>1. /\ run_status \in [Element -> RunStatus] /\ e \in Element /\ s \in RunStatus \ {"RUNNING"}
      /\ \A x \in Displayed : run_status[x] = "RUNNING" => Can_run(x)
  BY ProcType, CursorType DEF Running, RunStatus, Marks, RunningOnPath
<1>2. /\ run_status' = ChangedStatuses(run_status, e, s)
      /\ UNCHANGED <<to_front, current_running, backend_pid, proc>>
  BY DEF change_run_status_marks, socket_vars, backend_vars
<1>3. \A x \in Displayed : run_status'[x] = "RUNNING" =>
              Can_run(x) /\ \E d \in Subtree[x] : d \in Displayed /\ run_status[d] = "RUNNING"
  BY <1>1, <1>2, MarksOfRunning
<1>. QED  BY <1>2, <1>3, MarkedLess

\* Processes get a signal, if anything.
LEMMA OnlySignals ==
    ASSUME Running, UNCHANGED <<to_front, run_status, current_running, backend_pid>>,
           \A p \in Procs : /\ proc'[p].pc = proc[p].pc /\ proc'[p].at = proc[p].at
                            /\ proc'[p].base = proc[p].base /\ proc'[p].ok = proc[p].ok
                            /\ proc'[p].current = proc[p].current
                            /\ proc'[p].parent = proc[p].parent
    PROVE  (Family /\ Marks)'
<1>1. \A p \in Procs : proc[p].parent \in Procs \cup {NoProc}
  BY ProcType DEF Running, ProcState
<1>2. backend_pid \in Procs \cup {NoProc}
  BY ProcType DEF Running
<1>3. \A p \in Procs : /\ Walker(proc'[p]) <=> Walker(proc[p])
                       /\ Inside(proc'[p]) <=> Inside(proc[p])
                       /\ Room(proc'[p]) = Room(proc[p])
  BY DEF Walker, Inside, Room
<1>4. \A p, q \in Procs : Holds(proc'[p], proc'[q]) <=> Holds(proc[p], proc[q])
  BY <1>3 DEF Holds
<1>5. ForkedAreWaitedFor'
  BY <1>1 DEF Running, Family, ForkedAreWaitedFor, Free
<1>6. OneBelowTheOther'
  BY <1>3, <1>4 DEF Running, Family, OneBelowTheOther
<1>7. FirstIsAtTheRoot'
  BY <1>2 DEF Running, Family, FirstIsAtTheRoot, Backend_exists
<1>8. Marks'
  BY <1>3, MarksKept DEF Running
<1>. QED  BY <1>5, <1>6, <1>7, <1>8 DEF Family

LEMMA send_commandRuns ==
    ASSUME Running, NEW c, send_command(c)
    PROVE  (Family /\ Marks)'
<1>1. /\ UNCHANGED <<to_front, run_status, current_running, backend_pid>>
      /\ proc \in [Procs -> ProcState] /\ sigio_owner \in Procs \cup {NoProc}
  BY ProcType DEF send_command, Running, Inductive, TypeOK
<1>2. CASE sigio_owner = NoProc
  BY <1>1, <1>2, OnlySignals DEF send_command
<1>3. CASE sigio_owner # NoProc
  <2>. DEFINE s == [proc[sigio_owner] EXCEPT !.sigio = TRUE]
              r == proc[sigio_owner]
  <2>1. proc' = [proc EXCEPT ![sigio_owner] = s]
    BY <1>1, <1>3 DEF send_command
  <2>2. s.pc = r.pc /\ s.at = r.at /\ s.base = r.base /\ s.ok = r.ok /\ s.current = r.current
        /\ s.parent = r.parent
    BY <1>1, <1>3 DEF ProcState
  <2>. HIDE DEF s
  <2>3. \A p \in Procs : /\ proc'[p].pc = proc[p].pc /\ proc'[p].at = proc[p].at
                         /\ proc'[p].base = proc[p].base /\ proc'[p].ok = proc[p].ok
                         /\ proc'[p].current = proc[p].current
                         /\ proc'[p].parent = proc[p].parent
    BY <1>1, <2>1, <2>2
  <2>. QED  BY <1>1, <2>3, OnlySignals
<1>. QED  BY <1>2, <1>3

LEMMA StandStill ==
    ASSUME Running, UNCHANGED <<to_front, run_status, current_running, backend_pid, proc>>
    PROVE  (Family /\ Marks)'
BY OnlySignals

\* Nothing is marked as running and nothing was sent.
LEMMA NothingMarked ==
    ASSUME NEW st, \A x \in Displayed : st[x] # "RUNNING", NEW X
    PROVE  GoesOn(st, <<>>, X)
<1>1. ASSUME NEW x \in Displayed, NEW d \in Subtree[x] PROVE st[d] # "RUNNING"
  <2>1. d \in Element /\ x \in Element /\ x # Root
    BY DEF Displayed, Subtree
  <2>2. d # Root
    BY <2>1, Order
  <2>. QED  BY <2>1, <2>2 DEF Displayed
<1>2. MayRun(st, <<>>, 0) = {}
  BY <1>1 DEF MayRun
<1>3. \A a \in 0 .. Len(<<>>) : a = 0
  OBVIOUS
<1>. QED  BY <1>2, <1>3 DEF GoesOn, Settled

\* A run begins with one process, at the root.
LEMMA start_executingRuns ==
    ASSUME Running, ~Backend_exists, NEW scheduled, NEW statuses,
           \A x \in Displayed : statuses[x] = "RUNNING" => run_status[x] = "RUNNING",
           start_executing(scheduled, statuses)
    PROVE  (Family /\ Marks)'
<1>. DEFINE first == [FreeProc EXCEPT !.pc = "start", !.todo = scheduled, !.current = TRUE]
<1>1. PICK p \in Procs :
        /\ Free(p)
        /\ run_status' = statuses
        /\ backend_pid' = p
        /\ to_front' = <<>>
        /\ proc' = [q \in Procs |-> IF q = p THEN first ELSE [proc[q] EXCEPT !.current = FALSE]]
  BY DEF start_executing
<1>2. first.pc = "start" /\ first.base = Root /\ first.current /\ first.parent = NoProc
  BY DEF FreeProc
<1>3. /\ \A q \in Procs : proc[q] \in ProcState
      /\ proc'[p] = first /\ (\A q \in Procs \ {p} : proc'[q] = [proc[q] EXCEPT !.current = FALSE])
  BY <1>1, ProcType DEF Running
<1>. HIDE DEF first
<1>4. \A q \in Procs \ {p} :
        /\ proc'[q].pc = proc[q].pc /\ proc'[q].at = proc[q].at /\ proc'[q].base = proc[q].base
        /\ proc'[q].parent = proc[q].parent /\ ~proc'[q].current
  BY ZenonT(60), <1>3 DEF ProcState
<1>5. ForkedAreWaitedFor'
  <2>1. \A o \in Procs : proc[o].parent \in Procs \cup {NoProc}
    BY <1>3 DEF ProcState
  <2>2. ASSUME NEW o \in Procs, proc'[o].parent # NoProc
        PROVE  /\ o # p /\ proc[o].parent # NoProc /\ proc'[o].parent = proc[o].parent
               /\ proc[o].parent \in Procs /\ proc[o].parent # p
    <3>1. o # p /\ proc[o].parent # NoProc /\ proc'[o].parent = proc[o].parent
      BY <1>2, <1>3, <1>4, <2>2
    <3>2. proc[proc[o].parent].pc \in {"waiting", "exit"}
      BY <3>1 DEF Running, Family, ForkedAreWaitedFor
    <3>. QED  BY <1>1, <2>1, <3>1, <3>2 DEF Free
  <2>3. ASSUME NEW o \in Procs, proc'[o].parent # NoProc
        PROVE  LET q == proc'[o].parent
               IN  /\ ~Free(o)'
                   /\ proc'[q].pc \in {"waiting", "exit"}
                   /\ proc'[q].current = proc'[o].current
                   /\ proc'[q].base \in Ancestors[proc'[o].base]
                   /\ proc'[q].pc = "waiting" => proc'[o].base = proc'[q].at
                   /\ \A u \in Procs : proc'[u].parent = q => u = o
    <3>. DEFINE q == proc[o].parent
    <3>1. q \in Procs \ {p} /\ o \in Procs \ {p} /\ proc'[o].parent = q /\ q # NoProc
      BY <2>2, <2>3
    <3>2. /\ ~Free(o) /\ proc[q].pc \in {"waiting", "exit"}
          /\ proc[q].base \in Ancestors[proc[o].base]
          /\ proc[q].pc = "waiting" => proc[o].base = proc[q].at
          /\ \A u \in Procs : proc[u].parent = q => u = o
      BY <3>1 DEF Running, Family, ForkedAreWaitedFor
    <3>3. \A u \in Procs : proc'[u].parent = q => u = o
      BY <2>2, <3>1, <3>2
    <3>4. (proc'[q].current = proc'[o].current) /\ proc'[o].pc # "free"
      <4>1. proc'[q].current = FALSE /\ proc'[o].current = FALSE
        BY <1>3, <3>1 DEF ProcState
      <4>. QED  BY <1>4, <3>1, <3>2, <4>1 DEF Free
    <3>. QED  BY <1>4, <3>1, <3>2, <3>3, <3>4 DEF Free
  <2>. QED  BY <2>3 DEF ForkedAreWaitedFor
<1>6. OneBelowTheOther'
  BY <1>4 DEF OneBelowTheOther, Inside
<1>7. FirstIsAtTheRoot'
  BY <1>1, <1>2, <1>3 DEF FirstIsAtTheRoot
<1>8. \A x \in Displayed : statuses[x] # "RUNNING"
  BY DEF Running, Marks, RunningOnPath
<1>9. Marks'
  <2>1. \A X : GoesOn(statuses, <<>>, X)
    BY <1>8, NothingMarked
  <2>2. InOrder' /\ WalkersInOrder' /\ RunningOnPath'
    BY <1>1, <1>8, <2>1 DEF InOrder, WalkersInOrder, RunningOnPath
  <2>. QED  BY <2>2 DEF Marks
<1>. QED  BY <1>5, <1>6, <1>7, <1>9 DEF Family

LEMMA startRuns ==
    ASSUME Running,
           \/ start_executing_marked
           \/ \E e \in Cursor :
                 \/ start_executing_children(e)
                 \/ start_executing_next(e)
                 \/ force_executing(e)
    PROVE  (Family /\ Marks)'
<1>1. run_status \in [Element -> RunStatus]
  BY ProcType DEF Running
<1>2. CASE start_executing_marked
  <2>. DEFINE rs == [e \in Element |-> IF e \in marked THEN "NONE" ELSE run_status[e]]
  <2>1. ~Backend_exists /\ start_executing(should_run \cup marked, rs)
    BY <1>2 DEF start_executing_marked
  <2>2. \A x \in Displayed : rs[x] = "RUNNING" => run_status[x] = "RUNNING"
    BY DEF Displayed
  <2>. HIDE DEF rs
  <2>. QED  BY <2>1, <2>2, start_executingRuns
<1>3. ASSUME NEW e \in Cursor, NEW rs, ~Backend_exists, executing_children(e, rs),
             \A x \in Displayed : rs[x] = "RUNNING" => run_status[x] = "RUNNING"
      PROVE  (Family /\ Marks)'
  BY <1>3, start_executingRuns DEF executing_children
<1>4. ASSUME NEW e \in Cursor, start_executing_children(e) PROVE (Family /\ Marks)'
  BY <1>3, <1>4 DEF start_executing_children
<1>5. ASSUME NEW e \in Cursor, start_executing_next(e) PROVE (Family /\ Marks)'
  BY <1>5, start_executingRuns DEF start_executing_next
<1>6. ASSUME NEW e \in Cursor, force_executing(e) PROVE (Family /\ Marks)'
  <2>. DEFINE rs == [x \in Element |-> IF x \in Subtree[e] /\ run_status[x] = "DONE"
                                       THEN "NONE" ELSE run_status[x]]
  <2>1. ~Backend_exists /\ executing_children(e, rs)
    BY <1>6 DEF force_executing
  <2>2. \A x \in Displayed : rs[x] = "RUNNING" => run_status[x] = "RUNNING"
    BY DEF Displayed
  <2>. HIDE DEF rs
  <2>. QED  BY <1>3, <2>1, <2>2
<1>. QED  BY <1>2, <1>4, <1>5, <1>6

LEMMA MessageRead ==
    ASSUME Running, Backend_exists, to_front \in Seq(FrontMessage), to_front' = Tail(to_front),
           UNCHANGED <<backend_pid, proc>>, Reads(run_status, run_status', to_front),
           \A e \in Displayed : run_status'[e] = "RUNNING" => Can_run(e) /\ current_running' \in Subtree[e]
    PROVE  (Family /\ Marks)'
<1>1. Family'
  BY DEF Running, Family, ForkedAreWaitedFor, OneBelowTheOther, FirstIsAtTheRoot, Backend_exists, Free
<1>2. InOrder'
  BY Shortened DEF Running, Marks, InOrder
<1>3. WalkersInOrder'
  <2>1. \A p \in Procs : Closed(Room(proc[p]))
    BY ProcType, RoomClosed DEF Running
  <2>. QED  BY <2>1, Shortened DEF Running, Marks, WalkersInOrder
<1>4. RunningOnPath'
  BY DEF RunningOnPath, Backend_exists
<1>. QED  BY <1>1, <1>2, <1>3, <1>4 DEF Marks

\* One message is handled.
LEMMA MessageHandled ==
    ASSUME Inductive, handle_ctrl_msg
    PROVE  LET m == to_front[1]
           IN  /\ to_front \in Seq(FrontMessage) /\ Len(to_front) \in Nat \ {0} /\ to_front # <<>>
               /\ Backend_exists /\ to_front' = Tail(to_front) /\ UNCHANGED <<backend_pid, proc>>
               /\ m.el \in Element
               /\ m.type \in {"ELEMENT_STARTED", "ELEMENT_ENDED", "ELEMENT_FAILED"}
               /\ \/ m.type = "ELEMENT_STARTED" /\ element_started(m.el)
                  \/ m.type = "ELEMENT_ENDED" /\ element_ended(m.el)
                  \/ m.type = "ELEMENT_FAILED" /\ element_failed(m.el)
<1>. DEFINE m == to_front[1]
            x == m.el
            q == to_front
<1>1. /\ q \in Seq(FrontMessage) /\ q # <<>> /\ Backend_exists
      /\ to_front' = Tail(q) /\ UNCHANGED <<backend_pid, proc>>
  BY ProcType DEF handle_ctrl_msg, backend_vars
<1>2. Len(q) \in Nat \ {0} /\ Head(q) = m
  BY <1>1, EmptySeq, LenProperties, HeadTailProperties
<1>3. /\ x \in Element /\ 1 \in 1 .. Len(q)
      /\ m.type \in {"ELEMENT_STARTED", "ELEMENT_ENDED", "ELEMENT_FAILED"}
  <2>1. 1 \in 1 .. Len(q)
    BY <1>2
  <2>2. m \in FrontMessage
    BY <1>1, <2>1, MessagesOf
  <2>. QED  BY <2>1, <2>2 DEF FrontMessage
<1>4. \/ m.type = "ELEMENT_STARTED" /\ element_started(x)
      \/ m.type = "ELEMENT_ENDED" /\ element_ended(x)
      \/ m.type = "ELEMENT_FAILED" /\ element_failed(x)
  <2>1. CASE m.type = "ELEMENT_STARTED"
    <3>1. Head(q).type = "ELEMENT_STARTED"
      BY <1>2, <2>1
    <3>2. element_started(Head(q).el)
      BY <3>1 DEF handle_ctrl_msg
    <3>. QED  BY <1>2, <2>1, <3>2
  <2>2. CASE m.type = "ELEMENT_ENDED"
    <3>1. Head(q).type = "ELEMENT_ENDED"
      BY <1>2, <2>2
    <3>2. element_ended(Head(q).el)
      BY <3>1 DEF handle_ctrl_msg
    <3>. QED  BY <1>2, <2>2, <3>2
  <2>3. CASE m.type = "ELEMENT_FAILED"
    <3>1. Head(q).type = "ELEMENT_FAILED"
      BY <1>2, <2>3
    <3>2. element_failed(Head(q).el)
      BY <3>1 DEF handle_ctrl_msg
    <3>. QED  BY <1>2, <2>3, <3>2
  <2>. QED  BY <1>3, <2>1, <2>2, <2>3
<1>. QED  BY <1>1, <1>2, <1>3, <1>4

\* A message is read: what it says agrees with what was read before.
LEMMA handle_ctrl_msgRuns ==
    ASSUME Running, handle_ctrl_msg
    PROVE  (Family /\ Marks)'
<1>. DEFINE m == to_front[1]
            x == m.el
            rs == run_status
            q == to_front
<1>1. /\ q \in Seq(FrontMessage) /\ q # <<>> /\ Backend_exists
      /\ to_front' = Tail(q) /\ UNCHANGED <<backend_pid, proc>>
  BY MessageHandled DEF Running
<1>2. Len(q) \in Nat \ {0}
  BY MessageHandled DEF Running
<1>3. /\ x \in Element /\ 1 \in 1 .. Len(q)
      /\ m.type \in {"ELEMENT_STARTED", "ELEMENT_ENDED", "ELEMENT_FAILED"}
  BY <1>2, MessageHandled DEF Running
<1>4. \/ m.type = "ELEMENT_STARTED" /\ element_started(x)
      \/ m.type = "ELEMENT_ENDED" /\ element_ended(x)
      \/ m.type = "ELEMENT_FAILED" /\ element_failed(x)
  BY MessageHandled DEF Running
<1>5. \A X : Settled(rs, q, 0, 1, X) => MayRun(rs, q, 0) \subseteq X
  BY DEF Settled, Ended
<1>6. /\ m.type = "ELEMENT_STARTED" => MayRun(rs, q, 0) \subseteq Ancestors[x]
      /\ m.type = "ELEMENT_ENDED" => MayRun(rs, q, 0) \subseteq NotBelow(x)
  <2>1. ReadAt(rs, q, 1) /\ 0 \in 0 .. 1 - 1
    BY <1>3 DEF Running, Marks, InOrder
  <2>. QED  BY <1>5, <2>1 DEF ReadAt
<1>7. \A e \in Displayed : rs[e] = "RUNNING" =>
        e \in MayRun(rs, q, 0) /\ Can_run(e) /\ current_running \in Subtree[e]
  BY Order DEF Running, Marks, RunningOnPath, MayRun, Displayed
<1>8. \A e \in Element : ~Can_run(e) => e \in Displayed
  BY TreeAssumption DEF Can_run, Displayed, Root
<1>9. rs \in [Element -> RunStatus]
  BY ProcType DEF Running
<1>. HIDE DEF m, q, rs
<1>10. CASE m.type = "ELEMENT_STARTED"
  <2>1. current_running' = x /\ run_status' = IF Can_run(x) THEN [rs EXCEPT ![x] = "RUNNING"] ELSE rs
    BY <1>4, <1>10 DEF element_started, set_run_status, rs
  <2>2. \A d \in Element : run_status'[d] = "RUNNING" => rs[d] = "RUNNING" \/ (d = x /\ Can_run(x))
    BY <1>9, <2>1
  <2>3. \A e \in Displayed : run_status'[e] = "RUNNING" => Can_run(e) /\ x \in Subtree[e]
    BY <1>3, <1>6, <1>7, <1>10, <2>2, Order DEF Displayed
  <2>4. Reads(rs, run_status', q)
    BY <1>1, <1>6, <1>10, <2>2 DEF Reads, IsEnd, m, q
  <2>. QED  BY <1>1, <2>1, <2>3, <2>4, MessageRead DEF q, rs
<1>11. CASE m.type # "ELEMENT_STARTED"
  <2>1. PICK s \in RunStatus :
          /\ run_status' = IF Can_run(x) THEN [rs EXCEPT ![x] = s] ELSE rs
          /\ s = "RUNNING" => m.type = "ELEMENT_ENDED" /\ s = get_element_status(rs, x)
          /\ UNCHANGED current_running
    BY <1>4, <1>11, ElementStatusType
       DEF element_ended, element_failed, set_run_status, rs, RunStatus
  <2>2. s # "RUNNING"
    <3>. SUFFICES ASSUME s = "RUNNING" PROVE FALSE
      OBVIOUS
    <3>1. PICK c \in Children[x] : Can_run(c) /\ rs[c] = "RUNNING"
      BY <2>1 DEF get_element_status, has_child_with_run_status
    <3>2. c \in Displayed /\ x \in Ancestors[c]
      BY <1>3, ChildrenBelow
    <3>. QED  BY <1>6, <1>7, <2>1, <3>1, <3>2 DEF NotBelow
  <2>3. \A d \in Element : run_status'[d] = "RUNNING" => rs[d] = "RUNNING" /\ d # x
    BY <1>3, <1>7, <1>8, <1>9, <2>1, <2>2
  <2>4. Reads(rs, run_status', q)
    BY <1>1, <1>11, <2>3 DEF Reads, IsEnd, m, q
  <2>5. \A e \in Displayed : run_status'[e] = "RUNNING" => Can_run(e) /\ current_running \in Subtree[e]
    BY <1>7, <2>3 DEF Displayed
  <2>. QED  BY <1>1, <2>1, <2>4, <2>5, MessageRead DEF q, rs
<1>. QED  BY <1>10, <1>11

\* The backend has died and everything it sent was read.
LEMMA wait_for_the_backendRuns ==
    ASSUME Running, wait_for_the_backend
    PROVE  (Family /\ Marks)'
<1>. DEFINE b == backend_pid
<1>1. /\ b \in Procs /\ proc[b] \in ProcState /\ proc[b].pc = "zombie" /\ b # NoProc
      /\ to_front = <<>> /\ to_front' = <<>> /\ backend_pid' = NoProc
      /\ proc'[b] = FreeProc /\ (\A p \in Procs \ {b} : proc'[p] = proc[p])
      /\ proc[b].current /\ proc[b].base = Root
  <2>1. b \in Procs /\ proc \in [Procs -> ProcState] /\ b # NoProc
    BY ProcType DEF wait_for_the_backend, Running
  <2>2. proc[b].current /\ proc[b].base = Root
    BY <2>1 DEF Running, Family, FirstIsAtTheRoot, Backend_exists
  <2>. QED  BY <2>1, <2>2 DEF wait_for_the_backend, socket_vars
<1>2. FreeProc.pc = "free" /\ FreeProc.parent = NoProc
  BY DEF FreeProc
<1>3. ForkedAreWaitedFor'
  <2>1. ASSUME NEW o \in Procs, proc'[o].parent # NoProc
        PROVE  /\ o # b /\ proc'[o] = proc[o] /\ proc[o].parent \in Procs \ {b}
               /\ proc'[proc[o].parent] = proc[proc[o].parent]
    <3>1. o # b /\ proc'[o] = proc[o]
      BY <1>1, <1>2, <2>1
    <3>2. proc[o].parent \in Procs
      BY <2>1, <3>1, ProcType DEF Running, ProcState
    <3>3. proc[proc[o].parent].pc \in {"waiting", "exit"}
      BY <2>1, <3>1 DEF Running, Family, ForkedAreWaitedFor
    <3>. QED  BY <1>1, <3>1, <3>2, <3>3
  <2>. QED  BY <2>1 DEF Running, Family, ForkedAreWaitedFor, Free
<1>4. OneBelowTheOther'
  BY <1>1, <1>2 DEF Running, Family, OneBelowTheOther, Inside
<1>5. FirstIsAtTheRoot'
  BY <1>1 DEF FirstIsAtTheRoot, Backend_exists
<1>6. \A x \in Displayed : run_status'[x] # "RUNNING"
  <2>1. CASE proc[b].ok
    <3>1. run_status' = run_status
      BY <2>1 DEF wait_for_the_backend
    <3>2. Walker(proc[b]) /\ Room(proc[b]) = {Root}
      BY <1>1, <2>1, Order DEF Walker, Room, Around
    <3>3. GoesOn(run_status, <<>>, {Root})
      BY <1>1, <3>2 DEF Running, Marks, WalkersInOrder
    <3>4. Settled(run_status, <<>>, 0, 1, {Root})
      <4>1. 0 \in 0 .. Len(<<>>) /\ Len(<<>>) + 1 = 1
        OBVIOUS
      <4>2. Settled(run_status, <<>>, 0, Len(<<>>) + 1, {Root})
        BY <3>3, <4>1 DEF GoesOn
      <4>. QED  BY <4>1, <4>2
    <3>5. MayRun(run_status, <<>>, 0) \subseteq {Root}
      BY <3>4 DEF Settled, Ended
    <3>6. \A x \in Displayed : run_status[x] = "RUNNING" => x \in MayRun(run_status, <<>>, 0)
      BY Order DEF MayRun, Displayed
    <3>. QED  BY <3>1, <3>5, <3>6 DEF Displayed
  <2>2. CASE ~proc[b].ok
    <3>1. run_status' = change_run_status_to_failed
      BY <2>2 DEF wait_for_the_backend
    <3>2. \A x \in Displayed : run_status[x] = "RUNNING" => Can_run(x) /\ current_running \in Subtree[x]
      BY DEF Running, Marks, RunningOnPath
    <3>. QED  BY <3>1, <3>2 DEF change_run_status_to_failed, Displayed
  <2>. QED  BY <2>1, <2>2
<1>7. Marks'
  <2>1. \A X : GoesOn(run_status', <<>>, X)
    BY <1>6, NothingMarked
  <2>2. InOrder' /\ WalkersInOrder' /\ RunningOnPath'
    BY <1>1, <1>6, <2>1 DEF InOrder, WalkersInOrder, RunningOnPath
  <2>. QED  BY <2>2 DEF Marks
<1>. QED  BY <1>3, <1>4, <1>5, <1>7 DEF Family

-----------------------------------------------------------------------------
(***************************************************************************)
(* The theorem.                                                            *)
(***************************************************************************)

LEMMA InitRunning == Init => Running
<1>. SUFFICES ASSUME Init PROVE Family /\ Marks
  BY InitInductive DEF Running
<1>1. \A p \in Procs : proc[p].pc = "free" /\ proc[p].parent = NoProc
  BY DEF Init, FreeProc
<1>2. Family
  BY <1>1 DEF Init, Family, ForkedAreWaitedFor, OneBelowTheOther, FirstIsAtTheRoot, Inside, Backend_exists
<1>3. \A x \in Displayed : run_status[x] # "RUNNING"
  BY DEF Init, Displayed
<1>4. InOrder /\ WalkersInOrder /\ RunningOnPath
  BY <1>1, <1>3 DEF Init, InOrder, WalkersInOrder, RunningOnPath, Walker
<1>. QED  BY <1>2, <1>4 DEF Marks

LEMMA NextRunning == Running /\ [Next]_vars => Running'
<1>. SUFFICES ASSUME Running, [Next]_vars PROVE (Family /\ Marks)'
  BY NextInductive DEF Running
<1>1. CASE UserKey
  <2>1. CASE stop_key \/ pause_key
    BY <2>1, send_commandRuns DEF stop_key, pause_key
  <2>2. ASSUME NEW all \in BOOLEAN, clear_marks(all) PROVE (Family /\ Marks)'
    BY <2>2, StandStill DEF clear_marks, mark_vars, socket_vars, backend_vars
  <2>3. ASSUME NEW e \in Cursor, mark_element(e) PROVE (Family /\ Marks)'
    BY <2>3, StandStill DEF mark_element, mark_vars, socket_vars, backend_vars
  <2>4. ASSUME NEW e \in Cursor, NEW s \in {"DONE", "FAILED", "NONE"}, change_run_status_marks(e, s)
        PROVE  (Family /\ Marks)'
    BY <2>4, change_run_status_marksRuns
  <2>. QED  BY <1>1, <2>1, <2>2, <2>3, <2>4, startRuns DEF UserKey
<1>2. CASE Frontend
  <2>1. CASE read_all_messages
    BY <2>1, StandStill DEF read_all_messages, socket_vars, backend_vars
  <2>. QED  BY <1>2, <2>1, handle_ctrl_msgRuns, wait_for_the_backendRuns DEF Frontend
<1>3. ASSUME NEW p \in Procs, signal_io(p) \/ run_action(p) \/ fatal_backend_error(p)
      PROVE  (Family /\ Marks)'
  BY <1>3, signal_ioRuns, run_actionRuns, fatal_backend_errorRuns
<1>4. ASSUME NEW p \in Procs, Backend(p) PROVE (Family /\ Marks)'
  BY <1>4, Start_receiving_sigioRuns, begin_childrenRuns, do_execute_elementRuns,
     run_containerRuns, run_forkRuns, finish_elementRuns, exit_processRuns DEF Backend
<1>5. CASE UNCHANGED vars
  BY <1>5, StandStill DEF vars, frontend_vars, socket_vars, backend_vars
<1>. QED  BY <1>1, <1>2, <1>3, <1>4, <1>5 DEF Next

\* Once the frontend has dealt with the end of a run nothing on the screen is
\* marked as running, for every tree and however many processes forked in
\* forked ones were stopped, killed or left behind: wait_for_the_backend()
\* marks what the messages did not cover, and they cover everything when the
\* run succeeded.
THEOREM NothingShownRunning == Spec => []NoneRunningWhenStopped
<1>1. Running => NoneRunningWhenStopped
  BY DEF Running, Marks, RunningOnPath, NoneRunningWhenStopped
<1>. QED  BY <1>1, InitRunning, NextRunning, PTL DEF Spec
=============================================================================
