-------------------------- MODULE ExecutionProofs --------------------------
(***************************************************************************)
(* Safety of Execution for every tree, every set of keys and every number  *)
(* of processes and of waiting commands: Inductive is an invariant, and    *)
(* with it the types, the record of the backend's death and the pending    *)
(* signal for every waiting command.                                       *)
(*                                                                         *)
(* Most of the backend's actions move one process and leave the frontend   *)
(* and the socket alone: lemma ProcessMoves treats them together, and the  *)
(* lemmas before it say where the walk of the tree takes the process.      *)
(***************************************************************************)
EXTENDS Execution, SequenceTheorems, WellFoundedInduction, TLAPS

-----------------------------------------------------------------------------
(***************************************************************************)
(* What the walk of the backend and the marks of the frontend need to know *)
(* of the element tree, for every tree.                                    *)
(***************************************************************************)
\* A nonempty set of elements has a last one: `Parent' is well defined.
LEMMA LastOfElements ==
    ASSUME NEW S \in SUBSET Element, S # {}
    PROVE  \E m \in S : \A x \in S : x <= m
<1> DEFINE T == {NumElements - x : x \in S}
           Less == OpToRel(<, Nat)
<1>1. T \in SUBSET Nat /\ T # {}
  <2>1. ASSUME NEW x \in S PROVE NumElements - x \in Nat
    <3>1. x \in 0 .. NumElements - 1 /\ NumElements \in Nat
      BY TreeAssumption DEF Element
    <3> QED BY <3>1
  <2> QED BY <2>1
<1>2. IsWellFoundedOn(Less, Nat)
  BY NatLessThanWellFounded
<1> HIDE DEF Less
<1>3. PICK t \in T : \A u \in T : <<u, t>> \notin Less
  BY <1>1, <1>2, WFMin
<1>4. \A u \in T : ~(u < t)
  <2> SUFFICES ASSUME NEW u \in T, u < t PROVE FALSE
    OBVIOUS
  <2>1. u \in Nat /\ t \in Nat
    BY <1>1, <1>3
  <2>2. <<u, t>> \in Less
    BY <2>1 DEF Less, OpToRel
  <2> QED BY <2>2, <1>3
<1>5. PICK m \in S : t = NumElements - m
  BY <1>3
<1>6. ASSUME NEW x \in S PROVE x <= m
  <2>1. ~(NumElements - x < NumElements - m)
    BY <1>4, <1>5
  <2> QED BY <2>1, TreeAssumption DEF Element
<1> QED BY <1>6

\* The root is around every other element.
LEMMA RootAround ==
    ASSUME NEW e \in Element \ {Root}
    PROVE  Root \in Ancestors[e]
BY TreeAssumption DEF Element, Ancestors, Root

\* el->parent is around el, and everything else that is around el is around
\* el->parent or is el->parent.
LEMMA ParentIsInnermost ==
    ASSUME NEW e \in Element \ {Root}
    PROVE  /\ Parent[e] \in Ancestors[e]
           /\ \A a \in Ancestors[e] : a # Parent[e] => a \in Ancestors[Parent[e]]
<1> DEFINE p == Parent[e]
<1>1. Ancestors[e] \in SUBSET Element /\ Ancestors[e] # {}
  BY RootAround DEF Ancestors
<1>2. \E m \in Ancestors[e] : \A a \in Ancestors[e] : a <= m
  BY <1>1, LastOfElements
<1>3. p = CHOOSE q \in Ancestors[e] : \A a \in Ancestors[e] : a <= q
  BY DEF Parent
<1> HIDE DEF p
<1>4. p \in Ancestors[e] /\ \A a \in Ancestors[e] : a <= p
  BY <1>2, <1>3
<1>5. ASSUME NEW a \in Ancestors[e], a # p PROVE a \in Ancestors[p]
  <2>1. a \in Element /\ p \in Element /\ e \in Element
    BY <1>1, <1>4
  <2>2. a <= p /\ e <= Last[a] /\ p < e /\ Last[a] \in Element
    BY <1>4, <2>1, TreeAssumption DEF Ancestors
  <2> QED BY <1>5, <2>1, <2>2 DEF Ancestors, Element
<1> QED BY <1>4, <1>5 DEF p

\* The first child of e is an element, and what is around e, and e itself, is
\* around it.
LEMMA FirstChildBelow ==
    ASSUME NEW e \in Element, HasChildren(e)
    PROVE  /\ e + 1 \in Element
           /\ Ancestors[e] \cup {e} \subseteq Ancestors[e + 1]
<1>1. e + 1 \in Element /\ e \in Ancestors[e + 1]
  BY TreeAssumption DEF HasChildren, Element, Ancestors
<1>2. ASSUME NEW a \in Ancestors[e] PROVE a \in Ancestors[e + 1]
  <2>1. a \in Element /\ a < e /\ e <= Last[a]
    BY DEF Ancestors
  <2>2. Last[e] <= Last[a] /\ Last[e] \in Element /\ Last[a] \in Element
    BY <2>1, TreeAssumption
  <2> QED BY <1>1, <2>1, <2>2 DEF Ancestors, HasChildren, Element
<1> QED BY <1>1, <1>2

\* The next sibling of e is an element, and what is around e is around it.
LEMMA NextSiblingBelow ==
    ASSUME NEW e \in Element \ {Root}, HasNext(e)
    PROVE  /\ Next_el(e) \in Element
           /\ Ancestors[e] \subseteq Ancestors[Next_el(e)]
<1> DEFINE p == Parent[e]
<1>1. p \in Ancestors[e] /\ \A a \in Ancestors[e] : a # p => a \in Ancestors[p]
  BY ParentIsInnermost
<1>2. Last[e] < Last[p]
  BY DEF HasNext
<1> HIDE DEF p
<1>3. p \in Element /\ Last[e] \in Element /\ Last[p] \in Element /\ e <= Last[e]
  BY <1>1, TreeAssumption DEF Ancestors
<1>4. Next_el(e) \in Element /\ e < Next_el(e) /\ Next_el(e) <= Last[p]
  <2>1. /\ NumElements \in Nat /\ e \in 0 .. NumElements - 1
        /\ Last[e] \in 0 .. NumElements - 1 /\ Last[p] \in 0 .. NumElements - 1
    BY <1>3, TreeAssumption DEF Element
  <2> QED BY <1>2, <1>3, <2>1 DEF Next_el, Element
<1>5. ASSUME NEW a \in Ancestors[e] PROVE a \in Ancestors[Next_el(e)]
  <2>1. a \in Element /\ a < e /\ Last[a] \in Element
    BY TreeAssumption DEF Ancestors
  <2>2. Last[p] <= Last[a]
    <3>1. CASE a = p
      BY <3>1, <1>3 DEF Element
    <3>2. CASE a # p
      BY <3>2, <1>1, <1>3, <2>1, TreeAssumption DEF Ancestors
    <3> QED BY <3>1, <3>2
  <2> QED BY <1>3, <1>4, <2>1, <2>2 DEF Ancestors, Element
<1> QED BY <1>4, <1>5

\* What get_element_status() returns is a status, whatever it is given.
LEMMA ElementStatusType ==
    ASSUME NEW rs, NEW e
    PROVE  get_element_status(rs, e) \in RunStatus
BY DEF get_element_status, RunStatus

\* change_run_status_marks() gives every element a status.
LEMMA ChangedStatusesType ==
    ASSUME NEW rs \in [Element -> RunStatus], NEW e \in Element, NEW s \in RunStatus
    PROVE  ChangedStatuses(rs, e, s) \in [Element -> RunStatus]
<1>1. ASSUME NEW new, NEW x \in Element
      PROVE  ChangedStatus(rs, e, s, new, x) \in RunStatus
  BY ElementStatusType DEF ChangedStatus
<1> QED BY <1>1 DEF ChangedStatuses

\* The status of x depends on those of the elements behind x only.
LEMMA StatusOfLaterOnes ==
    ASSUME NEW rs, NEW e, NEW s, NEW x \in Element, NEW f, NEW g,
           \A y \in Element : x < y => f[y] = g[y]
    PROVE  ChangedStatus(rs, e, s, f, x) = ChangedStatus(rs, e, s, g, x)
<1>1. \A c \in Children[x] : c \in Element /\ x < c
  <2>1. ASSUME NEW c \in Children[x] PROVE c \in Element /\ x < c
    <3>1. c \in Element \ {Root} /\ Parent[c] = x
      BY DEF Children
    <3>2. x \in Ancestors[c]
      BY <3>1, ParentIsInnermost
    <3>. QED  BY <3>1, <3>2 DEF Ancestors
  <2>. QED  BY <2>1
<1>2. \A t : has_child_with_run_status(f, x, t) <=> has_child_with_run_status(g, x, t)
  BY <1>1 DEF has_child_with_run_status
<1>3. get_element_status(f, x) = get_element_status(g, x)
  BY <1>2 DEF get_element_status
<1>. QED  BY <1>3 DEF ChangedStatus

\* The recursion of change_run_status_marks() ends: its result is what the
\* statuses of the result say.
LEMMA ChangedStatusesAre ==
    ASSUME NEW rs \in [Element -> RunStatus], NEW e \in Element, NEW s \in RunStatus
    PROVE  \A x \in Element : ChangedStatuses(rs, e, s)[x]
                                = ChangedStatus(rs, e, s, ChangedStatuses(rs, e, s), x)
<1>. DEFINE Solves(f, n) == \A x \in Element : n <= x => f[x] = ChangedStatus(rs, e, s, f, x)
            Open == {n \in 0 .. NumElements : \E f \in [Element -> RunStatus] : Solves(f, n)}
            Less == OpToRel(<, Nat)
<1>1. NumElements \in Nat /\ Element = 0 .. NumElements - 1 /\ Open \in SUBSET Nat
  BY TreeAssumption DEF Element
<1>2. NumElements \in Open
  <2>1. \A x \in Element : ~(NumElements <= x)
    BY <1>1
  <2>. QED  BY <1>1, <2>1
<1>3. PICK n \in Open : \A m \in Open : ~(m < n)
  <2>. HIDE DEF Open
  <2>1. PICK n \in Open : \A m \in Open : <<m, n>> \notin Less
    BY <1>1, <1>2, WFMin, NatLessThanWellFounded
  <2>2. \A m \in Open : m < n => <<m, n>> \in Less
    BY <1>1 DEF OpToRel
  <2>. QED  BY <2>1, <2>2
<1>4. PICK f \in [Element -> RunStatus] : Solves(f, n)
  OBVIOUS
<1>5. n = 0
  <2>. SUFFICES ASSUME n # 0 PROVE FALSE
    OBVIOUS
  <2>. DEFINE y == n - 1
              g == [f EXCEPT ![y] = ChangedStatus(rs, e, s, f, y)]
  <2>1. y \in Element /\ n \in Nat /\ y < n /\ n <= NumElements
    BY <1>1
  <2>2. ChangedStatus(rs, e, s, f, y) \in RunStatus
    BY <2>1, ElementStatusType DEF ChangedStatus
  <2>3. g \in [Element -> RunStatus] /\ g[y] = ChangedStatus(rs, e, s, f, y)
        /\ \A x \in Element : y < x => g[x] = f[x]
    BY <1>1, <2>1, <2>2
  <2>. HIDE DEF g
  <2>4. \A x \in Element : y <= x => ChangedStatus(rs, e, s, g, x) = ChangedStatus(rs, e, s, f, x)
    <3>1. ASSUME NEW x \in Element, y <= x
          PROVE  ChangedStatus(rs, e, s, g, x) = ChangedStatus(rs, e, s, f, x)
      <4>1. \A z \in Element : x < z => g[z] = f[z]
        BY <1>1, <2>1, <2>3, <3>1
      <4>. QED  BY <4>1, StatusOfLaterOnes
    <3>. QED  BY <3>1
  <2>5. \A x \in Element : y <= x => x = y \/ (y < x /\ n <= x)
    BY <1>1, <2>1
  <2>6. Solves(g, y)
    BY <1>4, <2>3, <2>4, <2>5
  <2>7. y \in Open
    BY <1>1, <2>1, <2>3, <2>6
  <2>. QED  BY <1>3, <2>1, <2>7
<1>6. f = [x \in Element |-> ChangedStatus(rs, e, s, f, x)]
  BY <1>1, <1>4, <1>5
<1>. DEFINE new == CHOOSE h : h = [x \in Element |-> ChangedStatus(rs, e, s, h, x)]
<1>7. new = [x \in Element |-> ChangedStatus(rs, e, s, new, x)]
  BY <1>6
<1>8. ChangedStatuses(rs, e, s) = [x \in Element |-> ChangedStatus(rs, e, s, new, x)]
  BY DEF ChangedStatuses
<1>. HIDE DEF new
<1>9. ChangedStatuses(rs, e, s) = new
  BY <1>7, <1>8
<1>. QED  BY <1>7, <1>9

-----------------------------------------------------------------------------

PCs == {"free", "start", "begin", "element", "handler", "waiting", "finish",
        "exit", "zombie"}

\* WalkIsBelowBase for one process.
Walks(r) ==
    r.pc \in {"element", "handler", "waiting", "finish"} => r.base \in Ancestors[r.at]

\* What a step of the walk leaves alone in the process.
SamePlace(r, s) ==
    /\ s.base = r.base
    /\ s.current = r.current
    /\ s.sigio = r.sigio

-----------------------------------------------------------------------------
(***************************************************************************)
(* The walk of the tree.                                                   *)
(***************************************************************************)

LEMMA AncestorsType ==
    ASSUME NEW e \in Element
    PROVE  /\ Ancestors[e] \subseteq Element
           /\ Ancestors[e] # {} => e # Root
BY TreeAssumption DEF Ancestors, Element, Root

\* execute_children() of an element at or below the base stays below the base.
LEMMA EnterChildrenStaysBelow ==
    ASSUME NEW r \in ProcState, NEW el \in Element,
           el = r.base \/ (el = r.at /\ r.base \in Ancestors[el])
    PROVE  /\ EnterChildren(r, el) \in ProcState
           /\ EnterChildren(r, el).pc \in {"element", "finish", "exit"}
           /\ Walks(EnterChildren(r, el))
           /\ SamePlace(r, EnterChildren(r, el))
<1>1. CASE HasChildren(el)
  <2>1. el + 1 \in Element /\ r.base \in Ancestors[el + 1]
    BY <1>1, FirstChildBelow
  <2>2. EnterChildren(r, el) = [r EXCEPT !.pc = "element", !.at = el + 1]
    BY <1>1 DEF EnterChildren
  <2> QED BY <2>1, <2>2 DEF ProcState, Walks, SamePlace
<1>2. CASE ~HasChildren(el) /\ el = r.base
  <2>1. EnterChildren(r, el) = [r EXCEPT !.pc = "exit", !.ok = TRUE]
    BY <1>2 DEF EnterChildren
  <2> QED BY <2>1 DEF ProcState, Walks, SamePlace
<1>3. CASE ~HasChildren(el) /\ el # r.base
  <2>1. EnterChildren(r, el) = [r EXCEPT !.pc = "finish", !.ok = TRUE]
    BY <1>3 DEF EnterChildren
  <2> QED BY <1>3, <2>1 DEF ProcState, Walks, SamePlace
<1> QED BY <1>1, <1>2, <1>3

\* Leaving an element below the base, the process goes to one below the base
\* or exits.
LEMMA LeaveElementStaysBelow ==
    ASSUME NEW r \in ProcState, r.base \in Ancestors[r.at], NEW good \in BOOLEAN
    PROVE  /\ LeaveElement(r, good) \in ProcState
           /\ LeaveElement(r, good).pc \in {"element", "finish", "exit"}
           /\ Walks(LeaveElement(r, good))
           /\ SamePlace(r, LeaveElement(r, good))
<1>1. r.at \in Element \ {Root}
  BY AncestorsType DEF ProcState
<1>2. CASE good /\ HasNext(r.at)
  <2>1. Next_el(r.at) \in Element /\ r.base \in Ancestors[Next_el(r.at)]
    BY <1>1, <1>2, NextSiblingBelow
  <2>2. LeaveElement(r, good) = [r EXCEPT !.pc = "element", !.at = Next_el(r.at)]
    BY <1>2 DEF LeaveElement
  <2> QED BY <2>1, <2>2 DEF ProcState, Walks, SamePlace
<1>3. CASE ~(good /\ HasNext(r.at)) /\ Parent[r.at] = r.base
  <2>1. LeaveElement(r, good) = [r EXCEPT !.pc = "exit", !.ok = good]
    BY <1>3 DEF LeaveElement
  <2> QED BY <2>1 DEF ProcState, Walks, SamePlace
<1>4. CASE ~(good /\ HasNext(r.at)) /\ Parent[r.at] # r.base
  <2>1. Parent[r.at] \in Element /\ r.base \in Ancestors[Parent[r.at]]
    BY <1>1, <1>4, ParentIsInnermost, AncestorsType
  <2>2. LeaveElement(r, good) = [r EXCEPT !.pc = "finish", !.at = Parent[r.at],
                                          !.ok = good]
    BY <1>4 DEF LeaveElement
  <2> QED BY <2>1, <2>2 DEF ProcState, Walks, SamePlace
<1> QED BY <1>2, <1>3, <1>4

-----------------------------------------------------------------------------
(***************************************************************************)
(* The backend's actions.                                                  *)
(***************************************************************************)

\* A step that only moves one process, within its run, and may send to the
\* frontend.
LEMMA ProcessMoves ==
    ASSUME Inductive,
           NEW p \in Procs, proc[p].pc \notin {"free", "exit", "zombie"},
           NEW r \in ProcState, SamePlace(proc[p], r), Walks(r),
           r.pc \notin {"free", "start", "zombie"},
           proc' = [proc EXCEPT ![p] = r],
           to_front' \in Seq(FrontMessage), started' \in Seq(Element),
           UNCHANGED walk_vars
    PROVE  Inductive'
<1> USE DEF Inductive, walk_vars, frontend_vars
<1>1. proc \in [Procs -> ProcState] /\ proc'[p] = r
        /\ \A q \in Procs \ {p} : proc'[q] = proc[q]
  BY DEF TypeOK
<1>2. TypeOK'
  BY DEF TypeOK
<1>3. WalkIsBelowBase'
  BY <1>1 DEF WalkIsBelowBase, Walks
<1>4. BackendIsThere'
  BY <1>1 DEF BackendIsThere, TypeOK, Backend_exists, Free
<1>5. DeathIsOnRecord'
  BY <1>1 DEF DeathIsOnRecord, TypeOK, Backend_exists
<1>6. OwnerIsOfThisRun'
  BY <1>1 DEF OwnerIsOfThisRun, TypeOK, SamePlace
<1>7. CommandsAreSignalled'
  BY <1>1 DEF CommandsAreSignalled, TypeOK, SamePlace, CanHandle
<1> QED BY <1>2, <1>3, <1>4, <1>5, <1>6, <1>7

\* What is sent is a message, whichever run it belongs to.
LEMMA SendType ==
    ASSUME TypeOK, NEW p, NEW e \in Element,
           NEW type \in {"ELEMENT_STARTED", "ELEMENT_ENDED", "ELEMENT_FAILED"},
           send_to_front(p, type, e)
    PROVE  to_front' \in Seq(FrontMessage)
<1>1. [type |-> type, el |-> e] \in FrontMessage
  BY DEF FrontMessage
<1>2. Append(to_front, [type |-> type, el |-> e]) \in Seq(FrontMessage)
  BY <1>1 DEF TypeOK
<1> QED BY <1>2 DEF send_to_front, TypeOK

LEMMA begin_childrenSafe ==
    ASSUME Inductive, NEW p \in Procs, begin_children(p)
    PROVE  Inductive'
<1>1. PICK good \in BOOLEAN :
        proc' = [proc EXCEPT ![p] =
                   IF good THEN EnterChildren(proc[p], proc[p].base)
                   ELSE [proc[p] EXCEPT !.pc = "exit", !.ok = FALSE]]
  BY DEF begin_children
<1>2. proc[p] \in ProcState /\ proc[p].base \in Element /\ proc[p].pc = "begin"
  BY DEF Inductive, TypeOK, ProcState, begin_children
<1> DEFINE r == IF good THEN EnterChildren(proc[p], proc[p].base)
                ELSE [proc[p] EXCEPT !.pc = "exit", !.ok = FALSE]
<1>3. r \in ProcState /\ SamePlace(proc[p], r) /\ Walks(r)
        /\ r.pc \notin {"free", "start", "zombie"}
  <2>1. CASE good
    BY <1>2, <2>1, EnterChildrenStaysBelow
  <2>2. CASE ~good
    BY <1>2, <2>2 DEF ProcState, SamePlace, Walks
  <2> QED BY <2>1, <2>2
<1>4. /\ proc' = [proc EXCEPT ![p] = r]
      /\ to_front' \in Seq(FrontMessage) /\ started' \in Seq(Element)
      /\ UNCHANGED walk_vars
  BY <1>1 DEF begin_children, Inductive, TypeOK
<1> HIDE DEF r
<1> QED BY <1>2, <1>3, <1>4, ProcessMoves

LEMMA do_execute_elementSafe ==
    ASSUME Inductive, NEW p \in Procs, do_execute_element(p)
    PROVE  Inductive'
<1> DEFINE e == proc[p].at
           goes == Can_run(e) /\ e \in proc[p].todo
           r == IF goes THEN [proc[p] EXCEPT !.pc = "handler"]
                ELSE LeaveElement(proc[p], TRUE)
<1>1. /\ proc[p] \in ProcState /\ e \in Element /\ proc[p].pc = "element"
      /\ proc[p].base \in Ancestors[e] /\ proc \in [Procs -> ProcState]
  BY DEF Inductive, TypeOK, ProcState, do_execute_element, WalkIsBelowBase
<1>2. r \in ProcState /\ SamePlace(proc[p], r) /\ Walks(r)
        /\ r.pc \notin {"free", "start", "zombie"}
  <2>1. CASE goes
    BY <1>1, <2>1 DEF ProcState, SamePlace, Walks
  <2>2. CASE ~goes
    BY <1>1, <2>2, LeaveElementStaysBelow
  <2> QED BY <2>1, <2>2
<1>3. proc' = [proc EXCEPT ![p] = r] /\ UNCHANGED walk_vars
  BY <1>1 DEF do_execute_element
<1>4. to_front' \in Seq(FrontMessage) /\ started' \in Seq(Element)
  <2>1. to_front' \in Seq(FrontMessage)
    BY <1>1, SendType DEF do_execute_element, Inductive, TypeOK
  <2>2. started \in Seq(Element)
    BY DEF Inductive, TypeOK
  <2>3. started' \in {started, Append(started, e)}
    BY DEF do_execute_element
  <2> QED BY <1>1, <2>1, <2>2, <2>3
<1> HIDE DEF r
<1> QED BY <1>1, <1>2, <1>3, <1>4, ProcessMoves

LEMMA run_containerSafe ==
    ASSUME Inductive, NEW p \in Procs, run_container(p)
    PROVE  Inductive'
<1>1. PICK good \in BOOLEAN :
        proc' = [proc EXCEPT ![p] =
                   IF good THEN EnterChildren(proc[p], proc[p].at)
                   ELSE [proc[p] EXCEPT !.pc = "finish", !.ok = FALSE]]
  BY DEF run_container
<1>2. /\ proc[p] \in ProcState /\ proc[p].at \in Element /\ proc[p].pc = "handler"
      /\ proc[p].base \in Ancestors[proc[p].at]
  BY DEF Inductive, TypeOK, ProcState, run_container, WalkIsBelowBase
<1> DEFINE r == IF good THEN EnterChildren(proc[p], proc[p].at)
                ELSE [proc[p] EXCEPT !.pc = "finish", !.ok = FALSE]
<1>3. r \in ProcState /\ SamePlace(proc[p], r) /\ Walks(r)
        /\ r.pc \notin {"free", "start", "zombie"}
  <2>1. CASE good
    BY <1>2, <2>1, EnterChildrenStaysBelow
  <2>2. CASE ~good
    BY <1>2, <2>2 DEF ProcState, SamePlace, Walks
  <2> QED BY <2>1, <2>2
<1>4. /\ proc' = [proc EXCEPT ![p] = r]
      /\ to_front' \in Seq(FrontMessage) /\ started' \in Seq(Element)
      /\ UNCHANGED walk_vars
  BY <1>1 DEF run_container, Inductive, TypeOK
<1> HIDE DEF r
<1> QED BY <1>2, <1>3, <1>4, ProcessMoves

LEMMA run_actionSafe ==
    ASSUME Inductive, NEW p \in Procs, run_action(p)
    PROVE  Inductive'
<1>1. PICK good \in BOOLEAN :
        proc' = [proc EXCEPT ![p].pc = "finish", ![p].ok = good]
  BY DEF run_action
<1>2. /\ proc[p] \in ProcState /\ proc[p].pc = "handler"
      /\ proc[p].base \in Ancestors[proc[p].at] /\ proc \in [Procs -> ProcState]
  BY DEF Inductive, TypeOK, run_action, WalkIsBelowBase
<1> DEFINE r == [proc[p] EXCEPT !.pc = "finish", !.ok = good]
<1>3. r \in ProcState /\ SamePlace(proc[p], r) /\ Walks(r)
        /\ r.pc \notin {"free", "start", "zombie"}
  BY <1>2 DEF ProcState, SamePlace, Walks
<1>4. /\ proc' = [proc EXCEPT ![p] = r]
      /\ to_front' \in Seq(FrontMessage) /\ started' \in Seq(Element)
      /\ UNCHANGED walk_vars
  BY <1>1, <1>2 DEF run_action, Inductive, TypeOK
<1> HIDE DEF r
<1> QED BY <1>2, <1>3, <1>4, ProcessMoves

LEMMA finish_elementSafe ==
    ASSUME Inductive, NEW p \in Procs, finish_element(p)
    PROVE  Inductive'
<1>1. /\ proc[p] \in ProcState /\ proc[p].pc = "finish" /\ proc[p].ok \in BOOLEAN
      /\ proc[p].at \in Element /\ proc[p].base \in Ancestors[proc[p].at]
  BY DEF Inductive, TypeOK, ProcState, finish_element, WalkIsBelowBase
<1> DEFINE r == LeaveElement(proc[p], proc[p].ok)
<1>2. r \in ProcState /\ SamePlace(proc[p], r) /\ Walks(r)
        /\ r.pc \notin {"free", "start", "zombie"}
  BY <1>1, LeaveElementStaysBelow
<1>3. /\ proc' = [proc EXCEPT ![p] = r]
      /\ started' \in Seq(Element) /\ UNCHANGED walk_vars
  BY DEF finish_element, Inductive, TypeOK
<1>4. to_front' \in Seq(FrontMessage)
  BY <1>1, SendType DEF finish_element, Inductive
<1> HIDE DEF r
<1> QED BY <1>1, <1>2, <1>3, <1>4, ProcessMoves

LEMMA fatal_backend_errorSafe ==
    ASSUME Inductive, NEW p \in Procs, fatal_backend_error(p)
    PROVE  Inductive'
<1>1. /\ proc[p] \in ProcState /\ proc[p].pc \notin {"free", "exit", "zombie"}
      /\ proc \in [Procs -> ProcState]
  BY DEF Inductive, TypeOK, fatal_backend_error
<1> DEFINE r == [proc[p] EXCEPT !.pc = "exit", !.ok = FALSE]
<1>2. r \in ProcState /\ SamePlace(proc[p], r) /\ Walks(r)
        /\ r.pc \notin {"free", "start", "zombie"}
  BY <1>1 DEF ProcState, SamePlace, Walks
<1>3. /\ proc' = [proc EXCEPT ![p] = r]
      /\ to_front' \in Seq(FrontMessage) /\ started' \in Seq(Element)
      /\ UNCHANGED walk_vars
  BY <1>1 DEF fatal_backend_error, Inductive, TypeOK
<1> HIDE DEF r
<1> QED BY <1>1, <1>2, <1>3, ProcessMoves

\* A forked process is a new one: not the one the frontend waits for, and not
\* the owner of the socket.
LEMMA run_forkSafe ==
    ASSUME Inductive, NEW p \in Procs, run_fork(p)
    PROVE  Inductive'
<1>1. /\ proc[p] \in ProcState /\ proc[p].pc = "handler"
      /\ proc[p].base \in Ancestors[proc[p].at] /\ proc \in [Procs -> ProcState]
  BY DEF Inductive, TypeOK, run_fork, WalkIsBelowBase
<1>2. CASE proc' = [proc EXCEPT ![p].pc = "finish", ![p].ok = FALSE]
  <2> DEFINE r == [proc[p] EXCEPT !.pc = "finish", !.ok = FALSE]
  <2>1. r \in ProcState /\ SamePlace(proc[p], r) /\ Walks(r)
          /\ r.pc \notin {"free", "start", "zombie"}
    BY <1>1 DEF ProcState, SamePlace, Walks
  <2>2. /\ proc' = [proc EXCEPT ![p] = r]
        /\ to_front' \in Seq(FrontMessage) /\ started' \in Seq(Element)
        /\ UNCHANGED walk_vars
    BY <1>1, <1>2 DEF run_fork, Inductive, TypeOK
  <2> HIDE DEF r
  <2> QED BY <1>1, <2>1, <2>2, ProcessMoves
<1>3. CASE \E c \in Procs :
             /\ Free(c)
             /\ proc' = [proc EXCEPT
                  ![p].pc = "waiting",
                  ![c] = [proc[p] EXCEPT !.pc = "start", !.base = proc[p].at,
                                         !.sigio = FALSE, !.parent = p]]
  <2>1. PICK c \in Procs :
             /\ Free(c)
             /\ proc' = [proc EXCEPT
                  ![p].pc = "waiting",
                  ![c] = [proc[p] EXCEPT !.pc = "start", !.base = proc[p].at,
                                         !.sigio = FALSE, !.parent = p]]
    BY <1>3
  <2> DEFINE child == [proc[p] EXCEPT !.pc = "start", !.base = proc[p].at,
                                      !.sigio = FALSE, !.parent = p]
             waits == [proc[p] EXCEPT !.pc = "waiting"]
  <2>2. c # p /\ proc[c].pc = "free"
    BY <1>1, <2>1 DEF Free
  <2>3. /\ proc'[p] = waits /\ proc'[c] = child
        /\ \A q \in Procs \ {p, c} : proc'[q] = proc[q]
        /\ proc' \in [Procs -> ProcState]
    <3>1. child \in ProcState /\ waits \in ProcState
      BY <1>1 DEF ProcState
    <3>2. proc' = [[proc EXCEPT ![p] = waits] EXCEPT ![c] = child]
      BY <1>1, <2>1
    <3> HIDE DEF child, waits
    <3> QED BY <1>1, <2>2, <3>1, <3>2
  <2>4. /\ waits.pc = "waiting" /\ SamePlace(proc[p], waits) /\ Walks(waits)
        /\ child.pc = "start"
    BY <1>1 DEF SamePlace, Walks, ProcState
  <2>5. UNCHANGED <<walk_vars, to_front, started>>
    BY DEF run_fork
  <2> HIDE DEF child, waits
  <2> USE DEF Inductive, walk_vars, frontend_vars
  <2>6. TypeOK'
    BY <2>3, <2>5 DEF TypeOK
  <2>7. WalkIsBelowBase'
    BY <2>3, <2>4 DEF WalkIsBelowBase, Walks
  <2>8. BackendIsThere'
    BY <1>1, <2>2, <2>3, <2>4, <2>5 DEF BackendIsThere, TypeOK, Backend_exists, Free
  <2>9. DeathIsOnRecord'
    BY <1>1, <2>2, <2>3, <2>4, <2>5
       DEF DeathIsOnRecord, TypeOK, Backend_exists, BackendIsThere, Free
  <2>10. OwnerIsOfThisRun'
    BY <1>1, <2>2, <2>3, <2>4, <2>5 DEF OwnerIsOfThisRun, TypeOK, SamePlace
  <2>11. CommandsAreSignalled'
    BY <1>1, <2>2, <2>3, <2>4, <2>5
       DEF CommandsAreSignalled, OwnerIsOfThisRun, TypeOK, SamePlace, CanHandle
  <2> QED BY <2>6, <2>7, <2>8, <2>9, <2>10, <2>11
<1> QED BY <1>2, <1>3 DEF run_fork

\* An exit puts the death of the frontend's child on record, wakes the handler
\* that waits for the process, and takes the socket from nobody else.
LEMMA exit_processSafe ==
    ASSUME Inductive, NEW p \in Procs, exit_process(p)
    PROVE  Inductive'
<1> USE DEF Inductive
<1>1. /\ proc \in [Procs -> ProcState] /\ proc[p].pc = "exit"
      /\ backend_pid' = backend_pid /\ frontend' = frontend
      /\ got_sigchld' = (got_sigchld \/ p = backend_pid)
      /\ sigio_owner' = IF sigio_owner = p THEN NoProc ELSE sigio_owner
      /\ to_back' = to_back
  BY DEF exit_process, TypeOK
<1>2. proc' \in [Procs -> ProcState]
  <2>1. FreeProc \in ProcState
    BY TreeAssumption, ExecutionAssumption DEF FreeProc, ProcState, Element, Root, NoProc
  <2>2. ASSUME NEW c \in Procs PROVE proc'[c] \in ProcState
    BY ZenonT(60), <1>1, <2>1 DEF exit_process, ProcState, child_status
  <2> QED BY <2>2 DEF exit_process
<1>3. proc'[p] = IF p = backend_pid THEN [proc[p] EXCEPT !.pc = "zombie"] ELSE FreeProc
  BY DEF exit_process
<1>4. ASSUME NEW c \in Procs \ {p}
      PROVE  /\ SamePlace(proc[c], proc'[c])
             /\ proc'[c].at = proc[c].at
             /\ \/ proc'[c].pc = proc[c].pc
                \/ proc[c].pc = "waiting" /\ proc'[c].pc = "finish"
  <2>1. proc[c] \in ProcState
    BY <1>1
  <2>2. \/ proc'[c] = [proc[c] EXCEPT !.pc = "finish", !.ok = child_status(p)]
             /\ proc[c].pc = "waiting"
        \/ proc'[c] = [proc[c] EXCEPT !.parent = IF @ = p THEN NoProc ELSE @]
    BY DEF exit_process
  <2> QED BY <2>1, <2>2 DEF ProcState, SamePlace
<1>5. FreeProc.pc = "free" /\ (p = backend_pid => proc'[p].pc = "zombie")
  BY <1>1, <1>3 DEF FreeProc, ProcState
<1>6. TypeOK'
  BY <1>1, <1>2 DEF TypeOK, exit_process
<1>7. WalkIsBelowBase'
  BY ZenonT(60), <1>3, <1>4, <1>5 DEF WalkIsBelowBase, SamePlace
<1>8. BackendIsThere'
  BY <1>1, <1>3, <1>4, <1>5 DEF BackendIsThere, Backend_exists, Free, TypeOK
<1>9. DeathIsOnRecord'
  <2>1. CASE p = backend_pid
    <3>1. ~got_sigchld /\ frontend # "reading"
      BY <1>1, <2>1 DEF DeathIsOnRecord
    <3>2. got_sigchld'
      BY <1>1, <2>1
    <3>3. Backend_exists'
      BY <1>1, <2>1 DEF Backend_exists, Procs, NoProc
    <3>4. proc'[backend_pid'].pc = "zombie" /\ frontend' # "reading"
      BY <1>1, <1>5, <2>1, <3>1
    <3> QED BY <3>2, <3>3, <3>4 DEF DeathIsOnRecord
  <2>2. CASE p # backend_pid
    <3>1. got_sigchld' = got_sigchld
      BY <1>1, <2>2 DEF TypeOK
    <3>2. Backend_exists => (proc'[backend_pid].pc = "zombie"
                               <=> proc[backend_pid].pc = "zombie")
      BY <1>4, <2>2 DEF Backend_exists, TypeOK
    <3> QED BY <1>1, <3>1, <3>2 DEF DeathIsOnRecord, Backend_exists
  <2> QED BY <2>1, <2>2
<1>10. OwnerIsOfThisRun'
  BY <1>1, <1>4 DEF OwnerIsOfThisRun, SamePlace, TypeOK
<1>11. CommandsAreSignalled'
  BY <1>1, <1>4 DEF CommandsAreSignalled, SamePlace, CanHandle, TypeOK
<1> QED BY <1>6, <1>7, <1>8, <1>9, <1>10, <1>11

-----------------------------------------------------------------------------
(***************************************************************************)
(* Reading commands.                                                       *)
(***************************************************************************)

\* A queue with a stop in it has a first one.
LEMMA FirstStop ==
    ASSUME NEW q \in Seq(Command), Stops(q) # {}
    PROVE  (CHOOSE i \in Stops(q) : \A j \in Stops(q) : i <= j) \in 1 .. Len(q)
<1> DEFINE Less == OpToRel(<, Nat)
<1>1. Stops(q) \subseteq 1 .. Len(q) /\ Len(q) \in Nat
  BY LenProperties DEF Stops
<1>2. IsWellFoundedOn(Less, Nat)
  BY NatLessThanWellFounded
<1>3. Stops(q) \subseteq Nat
  BY <1>1
<1> HIDE DEF Less
<1>4. PICK i \in Stops(q) : \A j \in Stops(q) : <<j, i>> \notin Less
  BY <1>2, <1>3, WFMin
<1>5. \A j \in Stops(q) : i <= j
  <2> SUFFICES ASSUME NEW j \in Stops(q), ~(i <= j) PROVE FALSE
    OBVIOUS
  <2>1. i \in Nat /\ j \in Nat /\ j < i
    BY <1>3
  <2>2. <<j, i>> \in Less
    BY <2>1 DEF Less, OpToRel
  <2> QED BY <2>2, <1>4
<1> QED BY <1>1, <1>5

\* Reading leaves the process where it is, or takes it to its exit; it takes
\* nothing from the socket of another run, leaves nothing in its own unless it
\* stops, and puts nothing in.
LEMMA CommandsRead ==
    ASSUME TypeOK, NEW p \in Procs, NEW next \in PCs, read_commands(p, next)
    PROVE  \E r \in ProcState :
              /\ proc' = [proc EXCEPT ![p] = r]
              /\ r.pc \in {next, "exit"}
              /\ r.at = proc[p].at /\ r.base = proc[p].base
              /\ r.current = proc[p].current
              /\ to_back' \in Seq(Command)
              /\ to_back' # <<>> => to_back # <<>>
              /\ IF r.current THEN r.pc = "exit" \/ to_back' = <<>>
                 ELSE to_back' = to_back
<1> DEFINE stopped == [proc[p] EXCEPT !.pc = "exit", !.ok = FALSE, !.sigio = FALSE]
           going(t) == [proc[p] EXCEPT !.pc = next, !.sigio = FALSE,
                          !.pause_now = toggle_pause(proc[p].pause_now, t)]
<1>1. /\ proc[p] \in ProcState /\ to_back \in Seq(Command)
      /\ proc[p].current \in BOOLEAN
  BY DEF TypeOK, ProcState
<1>2. /\ stopped \in ProcState /\ stopped.pc = "exit"
      /\ stopped.at = proc[p].at /\ stopped.base = proc[p].base
      /\ stopped.current = proc[p].current
  BY <1>1 DEF ProcState
<1>3. ASSUME NEW t \in BOOLEAN
      PROVE  /\ going(t) \in ProcState /\ going(t).pc = next
             /\ going(t).at = proc[p].at /\ going(t).base = proc[p].base
             /\ going(t).current = proc[p].current
  <2>1. toggle_pause(proc[p].pause_now, t) \in BOOLEAN
    BY DEF toggle_pause
  <2> QED BY <1>1, <2>1 DEF ProcState, PCs
<1>4. CASE ~proc[p].current
  <2>1. /\ \E new \in {stopped} \cup {going(t) : t \in BOOLEAN} :
              proc' = [proc EXCEPT ![p] = new]
        /\ to_back' = to_back
    BY <1>4 DEF read_commands
  <2> HIDE DEF stopped, going
  <2> QED BY <1>1, <1>2, <1>3, <1>4, <2>1
<1>5. CASE proc[p].current /\ Stops(to_back) = {}
  <2>1. /\ proc' = [proc EXCEPT ![p] = going(Odd(Pauses(to_back)))]
        /\ to_back' = <<>>
    BY <1>5 DEF read_commands
  <2>2. Odd(Pauses(to_back)) \in BOOLEAN
    BY DEF Odd
  <2>3. to_back' \in Seq(Command)
    BY <2>1
  <2> HIDE DEF stopped, going
  <2> QED BY <1>3, <1>5, <2>1, <2>2, <2>3
<1>6. CASE proc[p].current /\ Stops(to_back) # {}
  <2> DEFINE first == CHOOSE i \in Stops(to_back) : \A j \in Stops(to_back) : i <= j
  <2>1. /\ proc' = [proc EXCEPT ![p] = stopped]
        /\ to_back' = SubSeq(to_back, first + 1, Len(to_back))
    BY <1>6 DEF read_commands
  <2>2. first \in 1 .. Len(to_back) /\ Len(to_back) \in Nat
    BY <1>1, <1>6, FirstStop, LenProperties
  <2> HIDE DEF first, stopped, going
  <2>3. \A i \in first + 1 .. Len(to_back) : to_back[i] \in Command
    BY <1>1, <2>2, ElementOfSeq
  <2>4. first + 1 \in Int /\ Len(to_back) \in Int
    BY <2>2
  <2>5. to_back' \in Seq(Command)
    BY <2>1, <2>3, <2>4, SubSeqProperties
  <2>6. to_back # <<>>
    BY <2>2
  <2> QED BY <1>2, <1>6, <2>1, <2>5, <2>6
<1> QED BY <1>1, <1>4, <1>5, <1>6

\* The process that reads is alive and its run's socket is empty or it exits;
\* if it is not the owner, the owner's signal is as it was.
LEMMA ReadingSafe ==
    ASSUME Inductive, NEW p \in Procs, NEW next \in PCs, read_commands(p, next),
           proc[p].pc \notin {"free", "exit", "zombie"},
           \/ next = proc[p].pc /\ sigio_owner' = sigio_owner
           \/ /\ proc[p].pc = "start" /\ next = "begin"
              /\ sigio_owner' = IF proc[p].current THEN p ELSE sigio_owner,
           UNCHANGED <<frontend_vars, to_front, started>>
    PROVE  Inductive'
<1> USE DEF Inductive, frontend_vars
<1>1. PICK r \in ProcState :
              /\ proc' = [proc EXCEPT ![p] = r]
              /\ r.pc \in {next, "exit"}
              /\ r.at = proc[p].at /\ r.base = proc[p].base
              /\ r.current = proc[p].current
              /\ to_back' \in Seq(Command)
              /\ to_back' # <<>> => to_back # <<>>
              /\ IF r.current THEN r.pc = "exit" \/ to_back' = <<>>
                 ELSE to_back' = to_back
  BY CommandsRead
<1>2. proc \in [Procs -> ProcState] /\ proc'[p] = r
        /\ \A q \in Procs \ {p} : proc'[q] = proc[q]
  BY <1>1 DEF TypeOK
<1>3. r.pc \notin {"free", "zombie"}
  BY <1>1
<1>4. TypeOK'
  BY <1>1 DEF TypeOK
<1>5. WalkIsBelowBase'
  BY <1>1, <1>2 DEF WalkIsBelowBase
<1>6. BackendIsThere'
  BY <1>2, <1>3 DEF BackendIsThere, TypeOK, Backend_exists, Free
<1>7. DeathIsOnRecord'
  BY <1>2, <1>3 DEF DeathIsOnRecord, TypeOK, Backend_exists
<1>8. OwnerIsOfThisRun'
  BY <1>1, <1>2, <1>3 DEF OwnerIsOfThisRun, TypeOK
<1>9. CommandsAreSignalled'
  <2> SUFFICES ASSUME sigio_owner' # NoProc, CanHandle(sigio_owner)', to_back' # <<>>
               PROVE  proc'[sigio_owner'].sigio
    BY DEF CommandsAreSignalled
  <2>1. sigio_owner' # p
    <3> SUFFICES ASSUME sigio_owner' = p PROVE FALSE
      OBVIOUS
    <3>1. r.pc # "exit"
      BY <1>2 DEF CanHandle
    <3>2. r.current
      BY <1>1, <1>2 DEF OwnerIsOfThisRun, TypeOK
    <3> QED BY <1>1, <3>1, <3>2
  <2>2. sigio_owner' = sigio_owner /\ sigio_owner \in Procs
    BY <2>1 DEF TypeOK
  <2>3. proc'[sigio_owner] = proc[sigio_owner]
    BY <1>2, <2>1, <2>2
  <2>4. CanHandle(sigio_owner) /\ to_back # <<>>
    BY <1>1, <2>2, <2>3 DEF CanHandle
  <2> QED BY <2>2, <2>3, <2>4 DEF CommandsAreSignalled
<1> QED BY <1>4, <1>5, <1>6, <1>7, <1>8, <1>9

LEMMA signal_ioSafe ==
    ASSUME Inductive, NEW p \in Procs, signal_io(p)
    PROVE  Inductive'
<1>1. proc[p].pc \notin {"free", "exit", "zombie"} /\ read_commands(p, proc[p].pc)
        /\ UNCHANGED <<frontend_vars, to_front, sigio_owner, started>>
  BY DEF signal_io, CanHandle
<1>2. proc[p].pc \in PCs
  BY DEF Inductive, TypeOK, ProcState, PCs
<1> QED BY <1>1, <1>2, ReadingSafe

LEMMA Start_receiving_sigioSafe ==
    ASSUME Inductive, NEW p \in Procs, Start_receiving_sigio(p)
    PROVE  Inductive'
<1>1. /\ proc[p].pc = "start" /\ read_commands(p, "begin")
      /\ sigio_owner' = IF proc[p].current THEN p ELSE sigio_owner
      /\ UNCHANGED <<frontend_vars, to_front, started>>
  BY DEF Start_receiving_sigio
<1>2. "begin" \in PCs
  BY DEF PCs
<1> QED BY <1>1, <1>2, ReadingSafe

-----------------------------------------------------------------------------
(***************************************************************************)
(* The user's keys.                                                        *)
(***************************************************************************)

\* A new run has a process of its own, and no command of an earlier one.
LEMMA start_executingSafe ==
    ASSUME Inductive, ~Backend_exists,
           NEW scheduled \in SUBSET Element, NEW statuses \in [Element -> RunStatus],
           start_executing(scheduled, statuses)
    PROVE  Inductive'
<1> USE DEF Inductive
<1>1. PICK p \in Procs :
        /\ Free(p)
        /\ should_run' = scheduled
        /\ run_status' = statuses
        /\ current_running' = Root
        /\ backend_pid' = p
        /\ backend_status' = "RUNNING"
        /\ to_front' = <<>>
        /\ to_back' = <<>>
        /\ sigio_owner' = NoProc
        /\ started' = <<>>
        /\ proc' = [q \in Procs |->
                      IF q = p THEN [FreeProc EXCEPT !.pc = "start",
                                                     !.todo = scheduled,
                                                     !.current = TRUE]
                      ELSE [proc[q] EXCEPT !.current = FALSE]]
        /\ UNCHANGED <<marked, got_sigchld, frontend>>
  BY DEF start_executing
<1>2. /\ FreeProc \in ProcState /\ Root \in Element
      /\ p # NoProc
  BY TreeAssumption DEF FreeProc, ProcState, Element, Root, NoProc, Procs
<1>3. proc \in [Procs -> ProcState]
  BY DEF TypeOK
<1>4. proc'[p] \in ProcState /\ proc'[p].pc = "start"
  BY <1>1, <1>2 DEF ProcState
<1>5. ASSUME NEW q \in Procs \ {p}
      PROVE  /\ proc'[q] \in ProcState
             /\ proc'[q].pc = proc[q].pc
             /\ proc'[q].at = proc[q].at /\ proc'[q].base = proc[q].base
  BY <1>1, <1>3 DEF ProcState
<1>6. TypeOK'
  <2>1. proc' \in [Procs -> ProcState]
    BY <1>1, <1>4, <1>5
  <2>2. to_front' \in Seq(FrontMessage) /\ to_back' \in Seq(Command)
    BY <1>1
  <2>3. started' \in Seq(Element)
    BY <1>1
  <2> QED BY <1>1, <1>2, <2>1, <2>2, <2>3 DEF TypeOK
<1>7. WalkIsBelowBase'
  BY <1>4, <1>5 DEF WalkIsBelowBase
<1>8. BackendIsThere'
  BY <1>1, <1>4, <1>5 DEF BackendIsThere, Backend_exists, Free, TypeOK, Procs, NoProc
<1>9. DeathIsOnRecord'
  <2>1. ~got_sigchld /\ frontend # "reading"
    BY DEF DeathIsOnRecord
  <2> QED BY <1>1, <1>4, <2>1 DEF DeathIsOnRecord
<1>10. OwnerIsOfThisRun' /\ CommandsAreSignalled'
  BY <1>1 DEF OwnerIsOfThisRun, CommandsAreSignalled
<1> QED BY <1>6, <1>7, <1>8, <1>9, <1>10

LEMMA CursorType ==
    ASSUME NEW e \in Cursor
    PROVE  e \in Element
BY ExecutionAssumption DEF Displayed

\* The four ways to start a run schedule elements.
LEMMA startSafe ==
    ASSUME Inductive,
           \/ start_executing_marked
           \/ \E e \in Cursor :
                 \/ start_executing_children(e)
                 \/ start_executing_next(e)
                 \/ force_executing(e)
    PROVE  Inductive'
<1>1. /\ run_status \in [Element -> RunStatus]
      /\ should_run \subseteq Element /\ marked \subseteq Element
  BY DEF Inductive, TypeOK
<1>2. \A rs, e : MarkedForRunning(rs, e) \subseteq Subtree[e]
  BY DEF MarkedForRunning
<1>3. \A e \in Element : Subtree[e] \subseteq Element
  BY DEF Subtree
<1>4. ASSUME NEW e \in Cursor, NEW rs \in [Element -> RunStatus], ~Backend_exists,
             executing_children(e, rs)
      PROVE  Inductive'
  <2>1. e \in Element
    BY CursorType
  <2>2. should_run \cup Ancestors[e] \cup MarkedForRunning(rs, e) \in SUBSET Element
    BY <1>1, <1>2, <1>3, <2>1, AncestorsType
  <2> QED BY <1>4, <2>2, start_executingSafe DEF executing_children
<1>5. CASE start_executing_marked
  <2> DEFINE rs == [e \in Element |-> IF e \in marked THEN "NONE" ELSE run_status[e]]
  <2>1. rs \in [Element -> RunStatus] /\ should_run \cup marked \in SUBSET Element
    BY <1>1 DEF RunStatus
  <2>2. ~Backend_exists /\ start_executing(should_run \cup marked, rs)
    BY <1>5 DEF start_executing_marked
  <2> HIDE DEF rs
  <2> QED BY <2>1, <2>2, start_executingSafe
<1>6. ASSUME NEW e \in Cursor, start_executing_children(e) PROVE Inductive'
  BY <1>1, <1>4, <1>6 DEF start_executing_children
<1>7. ASSUME NEW e \in Cursor, start_executing_next(e) PROVE Inductive'
  <2> DEFINE below == UNION {MarkedForRunning(run_status, x) : x \in FromHere(e)}
             scheduled == should_run \cup Ancestors[e] \cup below
  <2>1. e \in Element
    BY CursorType
  <2>2. below \subseteq Element
    <3>1. e \in Element \ {Root}
      BY ExecutionAssumption DEF Displayed
    <3>2. Parent[e] \in Element
      BY <3>1, ParentIsInnermost DEF Ancestors
    <3>3. FromHere(e) \subseteq Element
      BY <3>2 DEF FromHere, Children
    <3> QED BY <1>2, <1>3, <3>3
  <2>3. ~Backend_exists /\ start_executing(scheduled, run_status)
    BY <1>7 DEF start_executing_next
  <2> HIDE DEF below
  <2>4. scheduled \in SUBSET Element
    BY <1>1, <2>1, <2>2, AncestorsType
  <2> HIDE DEF scheduled
  <2> QED BY <1>1, <2>3, <2>4, start_executingSafe
<1>8. ASSUME NEW e \in Cursor, force_executing(e) PROVE Inductive'
  <2> DEFINE rs == [x \in Element |-> IF x \in Subtree[e] /\ run_status[x] = "DONE"
                                      THEN "NONE" ELSE run_status[x]]
  <2>1. rs \in [Element -> RunStatus]
    BY <1>1 DEF RunStatus
  <2>2. ~Backend_exists /\ executing_children(e, rs)
    BY <1>8 DEF force_executing
  <2> HIDE DEF rs
  <2> QED BY <1>4, <2>1, <2>2
<1> QED BY <1>5, <1>6, <1>7, <1>8

\* A command comes with a signal for the owner of the socket.
LEMMA send_commandSafe ==
    ASSUME Inductive, stop_key \/ pause_key
    PROVE  Inductive'
<1> USE DEF Inductive
<1>1. PICK c \in Command : send_command(c)
  BY DEF stop_key, pause_key, Command
<1>2. /\ to_back' \in Seq(Command)
      /\ UNCHANGED <<run_status, marked, should_run, current_running, backend_pid,
                     got_sigchld, frontend, to_front, sigio_owner, started>>
      /\ proc \in [Procs -> ProcState] /\ sigio_owner \in Procs \cup {NoProc}
  BY <1>1 DEF send_command, TypeOK
<1>3. backend_status' \in {"RUNNING", "PAUSED", "STOPPED"}
  BY DEF stop_key, pause_key, TypeOK
<1>4. /\ proc' \in [Procs -> ProcState]
      /\ \A q \in Procs : /\ proc'[q].pc = proc[q].pc
                          /\ proc'[q].at = proc[q].at /\ proc'[q].base = proc[q].base
                          /\ proc'[q].current = proc[q].current
      /\ sigio_owner # NoProc => proc'[sigio_owner].sigio
  <2>1. CASE sigio_owner = NoProc
    BY <1>1, <1>2, <2>1 DEF send_command
  <2>2. CASE sigio_owner # NoProc
    <3>1. proc' = [proc EXCEPT ![sigio_owner] =
                     [proc[sigio_owner] EXCEPT !.sigio = TRUE]]
      BY <1>1, <1>2, <2>2 DEF send_command
    <3>2. /\ sigio_owner \in Procs
          /\ [proc[sigio_owner] EXCEPT !.sigio = TRUE] \in ProcState
      BY <1>2, <2>2 DEF ProcState
    <3> QED BY <1>2, <3>1, <3>2 DEF ProcState
  <2> QED BY <2>1, <2>2
<1>5. TypeOK'
  BY <1>2, <1>3, <1>4 DEF TypeOK
<1>6. WalkIsBelowBase'
  BY <1>4 DEF WalkIsBelowBase
<1>7. BackendIsThere'
  BY <1>2, <1>4 DEF BackendIsThere, Backend_exists, Free, TypeOK
<1>8. DeathIsOnRecord'
  BY <1>2, <1>4 DEF DeathIsOnRecord, Backend_exists, TypeOK
<1>9. OwnerIsOfThisRun'
  BY <1>2, <1>4 DEF OwnerIsOfThisRun, TypeOK
<1>10. CommandsAreSignalled'
  BY <1>2, <1>4 DEF CommandsAreSignalled
<1> QED BY <1>5, <1>6, <1>7, <1>8, <1>9, <1>10

\* The marks are the frontend's own.
LEMMA MarksSafe ==
    ASSUME Inductive,
           run_status' \in [Element -> RunStatus], marked' \subseteq Element,
           current_running' \in Element, to_front' \in Seq(FrontMessage),
           UNCHANGED <<should_run, backend_status, backend_pid, got_sigchld,
                       frontend, to_back, sigio_owner, backend_vars>>
    PROVE  Inductive'
<1> USE DEF Inductive, backend_vars
<1>1. TypeOK'
  BY DEF TypeOK
<1>2. WalkIsBelowBase' /\ BackendIsThere'
  BY DEF WalkIsBelowBase, BackendIsThere, Backend_exists, Free
<1>3. DeathIsOnRecord'
  BY DEF DeathIsOnRecord, Backend_exists
<1>4. OwnerIsOfThisRun' /\ CommandsAreSignalled'
  BY DEF OwnerIsOfThisRun, CommandsAreSignalled, CanHandle
<1> QED BY <1>1, <1>2, <1>3, <1>4

LEMMA mark_keysSafe ==
    ASSUME Inductive,
           \/ \E all \in BOOLEAN : clear_marks(all)
           \/ \E e \in Cursor :
                 \/ mark_element(e)
                 \/ \E s \in {"DONE", "FAILED", "NONE"} : change_run_status_marks(e, s)
    PROVE  Inductive'
<1>1. TypeOK
  BY DEF Inductive
<1>2. ASSUME NEW all \in BOOLEAN, clear_marks(all) PROVE Inductive'
  <2>1. marked' \subseteq Element
    BY <1>1, <1>2 DEF clear_marks, TypeOK
  <2> QED BY <1>1, <1>2, <2>1, MarksSafe
          DEF clear_marks, mark_vars, socket_vars, TypeOK
<1>3. ASSUME NEW e \in Cursor, mark_element(e) PROVE Inductive'
  <2>1. e \in Element /\ Ancestors[e] \subseteq Element /\ Subtree[e] \subseteq Element
    BY CursorType, AncestorsType DEF Subtree
  <2>2. marked' \subseteq Element
    BY <1>1, <1>3, <2>1 DEF mark_element, WithParents, TypeOK
  <2> QED BY <1>1, <1>3, <2>2, MarksSafe
          DEF mark_element, mark_vars, socket_vars, TypeOK
<1>4. ASSUME NEW e \in Cursor, NEW s \in {"DONE", "FAILED", "NONE"},
             change_run_status_marks(e, s)
      PROVE  Inductive'
  <2>1. run_status' \in [Element -> RunStatus]
    BY <1>1, <1>4, CursorType, ChangedStatusesType
       DEF change_run_status_marks, TypeOK, RunStatus
  <2> QED BY <1>1, <1>4, <2>1, MarksSafe
          DEF change_run_status_marks, socket_vars, TypeOK
<1> QED BY <1>2, <1>3, <1>4

-----------------------------------------------------------------------------
(***************************************************************************)
(* The frontend's side of a run.                                           *)
(***************************************************************************)

LEMMA handle_ctrl_msgSafe ==
    ASSUME Inductive, handle_ctrl_msg
    PROVE  Inductive'
<1>1. TypeOK
  BY DEF Inductive
<1>2. Head(to_front) \in FrontMessage /\ to_front' \in Seq(FrontMessage)
  BY <1>1, HeadTailProperties DEF handle_ctrl_msg, TypeOK
<1> DEFINE msg == Head(to_front)
<1>3. /\ msg.el \in Element
      /\ msg.type \in {"ELEMENT_STARTED", "ELEMENT_ENDED", "ELEMENT_FAILED"}
  BY <1>2 DEF FrontMessage
<1>4. ASSUME NEW s \in RunStatus, set_run_status(msg.el, s)
      PROVE  run_status' \in [Element -> RunStatus]
  BY <1>1, <1>4 DEF set_run_status, TypeOK
<1>5. \/ element_started(msg.el)
      \/ element_ended(msg.el)
      \/ element_failed(msg.el)
  BY <1>3 DEF handle_ctrl_msg
<1> HIDE DEF msg
<1>6. run_status' \in [Element -> RunStatus] /\ current_running' \in Element
  BY <1>1, <1>3, <1>4, <1>5, ElementStatusType
     DEF element_started, element_ended, element_failed, RunStatus, TypeOK
<1> QED BY <1>1, <1>2, <1>6, MarksSafe DEF handle_ctrl_msg, TypeOK

LEMMA read_all_messagesSafe ==
    ASSUME Inductive, read_all_messages
    PROVE  Inductive'
<1> USE DEF Inductive, read_all_messages, socket_vars, backend_vars
<1>1. TypeOK'
  BY DEF TypeOK
<1>2. WalkIsBelowBase' /\ BackendIsThere'
  BY DEF WalkIsBelowBase, BackendIsThere, Backend_exists, Free
<1>3. DeathIsOnRecord'
  BY DEF DeathIsOnRecord, Backend_exists
<1>4. OwnerIsOfThisRun' /\ CommandsAreSignalled'
  BY DEF OwnerIsOfThisRun, CommandsAreSignalled, CanHandle
<1> QED BY <1>1, <1>2, <1>3, <1>4

LEMMA wait_for_the_backendSafe ==
    ASSUME Inductive, wait_for_the_backend
    PROVE  Inductive'
<1> USE DEF Inductive, socket_vars
<1>1. /\ frontend = "reading" /\ backend_pid \in Procs
      /\ proc[backend_pid].pc = "zombie"
      /\ proc' = [proc EXCEPT ![backend_pid] = FreeProc]
      /\ should_run' = {} /\ backend_pid' = NoProc
      /\ backend_status' = "STOPPED" /\ frontend' = "loop"
      /\ UNCHANGED <<marked, current_running, got_sigchld, socket_vars, started>>
  BY DEF wait_for_the_backend
<1>2. FreeProc \in ProcState /\ FreeProc.pc = "free"
  BY TreeAssumption DEF FreeProc, ProcState, Element, Root, NoProc
<1>3. /\ proc' \in [Procs -> ProcState] /\ proc'[backend_pid].pc = "free"
      /\ \A q \in Procs \ {backend_pid} : proc'[q] = proc[q]
  BY <1>1, <1>2 DEF TypeOK
<1>4. run_status' \in [Element -> RunStatus]
  BY DEF wait_for_the_backend, change_run_status_to_failed, TypeOK, RunStatus
<1>5. TypeOK'
  BY <1>1, <1>3, <1>4 DEF TypeOK
<1>6. WalkIsBelowBase'
  BY <1>3 DEF WalkIsBelowBase
<1>7. BackendIsThere'
  BY <1>1, <1>3 DEF BackendIsThere, Backend_exists
<1>8. DeathIsOnRecord'
  BY <1>1 DEF DeathIsOnRecord, Backend_exists
<1>9. sigio_owner # backend_pid
  BY <1>1 DEF OwnerIsOfThisRun, NoProc, Procs
<1>10. OwnerIsOfThisRun' /\ CommandsAreSignalled'
  BY <1>1, <1>3, <1>9
     DEF OwnerIsOfThisRun, CommandsAreSignalled, CanHandle, TypeOK
<1> QED BY <1>5, <1>6, <1>7, <1>8, <1>10

-----------------------------------------------------------------------------
(***************************************************************************)
(* The theorems.                                                           *)
(***************************************************************************)

LEMMA InitInductive == Init => Inductive
<1> SUFFICES ASSUME Init PROVE Inductive
  OBVIOUS
<1> USE DEF Init
<1>1. FreeProc \in ProcState /\ FreeProc.pc = "free" /\ Root \in Element
  BY TreeAssumption DEF FreeProc, ProcState, Element, Root, NoProc
<1>2. \A p \in Procs : proc[p].pc = "free"
  BY <1>1
<1>3. TypeOK
  <2>1. to_front \in Seq(FrontMessage) /\ to_back \in Seq(Command)
    OBVIOUS
  <2>2. started \in Seq(Element)
    OBVIOUS
  <2> QED BY <1>1, <2>1, <2>2 DEF TypeOK, RunStatus
<1>4. WalkIsBelowBase /\ BackendIsThere /\ DeathIsOnRecord
  BY <1>2 DEF WalkIsBelowBase, BackendIsThere, DeathIsOnRecord, Backend_exists
<1>5. OwnerIsOfThisRun /\ CommandsAreSignalled
  BY DEF OwnerIsOfThisRun, CommandsAreSignalled
<1> QED BY <1>3, <1>4, <1>5 DEF Inductive

\* One step per action of the frontend, the user and the backend.
LEMMA NextInductive == Inductive /\ [Next]_vars => Inductive'
<1> SUFFICES ASSUME Inductive, [Next]_vars PROVE Inductive'
  OBVIOUS
<1>1. CASE UserKey
  BY <1>1, startSafe, send_commandSafe, mark_keysSafe DEF UserKey
<1>2. CASE Frontend
  BY <1>2, handle_ctrl_msgSafe, read_all_messagesSafe, wait_for_the_backendSafe
     DEF Frontend
<1>3. ASSUME NEW p \in Procs, signal_io(p) \/ run_action(p) \/ fatal_backend_error(p)
      PROVE  Inductive'
  BY <1>3, signal_ioSafe, run_actionSafe, fatal_backend_errorSafe
<1>4. ASSUME NEW p \in Procs, Backend(p) PROVE Inductive'
  BY <1>4, Start_receiving_sigioSafe, begin_childrenSafe, do_execute_elementSafe,
     run_containerSafe, run_forkSafe, finish_elementSafe, exit_processSafe DEF Backend
<1>5. CASE UNCHANGED vars
  <2>1. TypeOK' /\ WalkIsBelowBase'
    BY <1>5 DEF vars, frontend_vars, socket_vars, backend_vars, Inductive, TypeOK,
                WalkIsBelowBase
  <2>2. BackendIsThere' /\ DeathIsOnRecord'
    BY <1>5 DEF vars, frontend_vars, socket_vars, backend_vars, Inductive,
                BackendIsThere, DeathIsOnRecord, Backend_exists, Free
  <2>3. OwnerIsOfThisRun' /\ CommandsAreSignalled'
    BY <1>5 DEF vars, frontend_vars, socket_vars, backend_vars, Inductive,
                OwnerIsOfThisRun, CommandsAreSignalled, CanHandle
  <2> QED BY <2>1, <2>2, <2>3 DEF Inductive
<1> QED BY <1>1, <1>2, <1>3, <1>4, <1>5 DEF Next

\* Whatever the tree and the keys, every variable keeps its type: no process
\* ever walks off the tree, in particular.
THEOREM TypeCorrect == Spec => []TypeOK
<1>1. Inductive => TypeOK
  BY DEF Inductive
<1> QED BY <1>1, InitInductive, NextInductive, PTL DEF Spec

\* The waitpid() of wait_for_the_backend() is only called for a process that
\* has died, and no death goes unnoticed, in any run.
THEOREM DeathRecorded == Spec => []DeathIsOnRecord
<1>1. Inductive => DeathIsOnRecord
  BY DEF Inductive
<1> QED BY <1>1, InitInductive, NextInductive, PTL DEF Spec

\* No 'S' or 'p' is stranded in the socket while its owner lives, however many
\* processes are forked and however many commands wait.
THEOREM CommandsSignalled == Spec => []CommandsAreSignalled
<1>1. Inductive => CommandsAreSignalled
  BY DEF Inductive
<1> QED BY <1>1, InitInductive, NextInductive, PTL DEF Spec
=============================================================================
