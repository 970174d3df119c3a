------------------------- MODULE ExecutionWalkProofs -------------------------
(***************************************************************************)
(* For every tree and every number of processes, how the backend's walk    *)
(* keeps to the plan of the run: Execution implements SequentialRun, a run *)
(* that ends with status 0 leaves no action behind, and the status line is *)
(* right about pausing as long as nothing forks.  And the marks: what is   *)
(* marked with '*' is what a run would reach, and between runs the marks   *)
(* of the tree agree with each other.                                      *)
(*                                                                         *)
(* ExecutionRunProofs has it that at most one process of a run can go on.  *)
(* What that process has behind it is exactly what was started; what it    *)
(* holds open has not ended, and the last start the frontend knows of is   *)
(* in it.                                                                  *)
(***************************************************************************)
EXTENDS ExecutionRunProofs, ExecutionRefinement, FiniteSetTheorems

-----------------------------------------------------------------------------
(***************************************************************************)
(* The plan, and where a process is in it.                                 *)
(***************************************************************************)
Plan  == Reachable(should_run)
Begun == {started[i] : i \in DOMAIN started}

\* What r has behind it when it goes on: the elements before this position.
StartedTo(r) ==
    IF r.pc \in {"start", "begin"} THEN r.base + 1
    ELSE IF r.pc = "element" THEN r.at
    ELSE IF r.pc = "handler" THEN r.at + 1
    ELSE IF r.pc = "finish" THEN Last[r.at] + 1
    ELSE Last[r.base] + 1

Behind(r) == {e \in Plan : e < StartedTo(r)}

\* The elements r has been let into.
Entered(r) == IF r.pc \in {"element", "handler", "finish"} THEN Ancestors[r.at]
              ELSE Around(r.base)

\* What r works in is scheduled and executes what is below it.
OnPlan(r) ==
    /\ \A a \in Room(r) \ {Root} : Can_run(a) /\ a \in should_run
    /\ \A a \in Entered(r) : Kind[a] # "action"

WalksThePlan ==
    Backend_exists =>
        \A p \in Procs :
            /\ proc[p].current /\ ~Free(p) => proc[p].todo = should_run
            /\ Walker(proc[p]) => OnPlan(proc[p]) /\ Begun = Behind(proc[p])

-----------------------------------------------------------------------------
(***************************************************************************)
(* The shapes of the steps.                                                *)
(***************************************************************************)
SameRun(r, s) ==
    /\ s.base = r.base /\ s.current = r.current
    /\ s.parent = r.parent /\ s.todo = r.todo

\* From r to s without a message.
Quiet(r, s) ==
    /\ SameRun(r, s)
    /\ \/ s.pc \in {r.pc} \cup (IF r.pc = "start" THEN {"begin"} ELSE {}) /\ s.at = r.at /\ s.ok = r.ok
       \/ r.pc \notin {"free", "exit", "zombie"} /\ s.pc = "exit" /\ ~s.ok /\ s.at = r.at
       \/ r.pc = "begin" /\ s = EnterChildren(r, r.base)
       \/ r.pc = "handler" /\ Kind[r.at] # "action" /\ s = EnterChildren(r, r.at)
       \/ r.pc = "handler" /\ s.pc = "finish" /\ s.at = r.at /\ (s.ok => Kind[r.at] = "action")
       \/ r.pc = "element" /\ ~(Can_run(r.at) /\ r.at \in r.todo) /\ s = LeaveElement(r, TRUE)

run_vars == <<should_run, backend_pid, run_status>>

QuietStep(p) ==
    \E s \in ProcState :
        /\ proc' = [proc EXCEPT ![p] = s]
        /\ Quiet(proc[p], s)
        /\ proc[p].pc \notin {"free", "exit", "zombie"}
        /\ proc[p].pc = "waiting" /\ s.pc = "exit" => ~proc[p].current \/ Stops(to_back) # {}
        /\ UNCHANGED <<run_vars, to_front, started>>

StartStep(p) ==
    /\ proc[p].pc = "element"
    /\ Can_run(proc[p].at) /\ proc[p].at \in proc[p].todo
    /\ proc' = [proc EXCEPT ![p] = [proc[p] EXCEPT !.pc = "handler"]]
    /\ to_front' = (IF proc[p].current
                     THEN Append(to_front, [type |-> "ELEMENT_STARTED", el |-> proc[p].at])
                     ELSE to_front)
    /\ started' = (IF proc[p].current THEN Append(started, proc[p].at) ELSE started)
    /\ UNCHANGED run_vars

FinishStep(p) ==
    /\ proc[p].pc = "finish"
    /\ proc' = [proc EXCEPT ![p] = LeaveElement(proc[p], proc[p].ok)]
    /\ to_front' = (IF proc[p].current
                     THEN Append(to_front, [type |-> IF proc[p].ok THEN "ELEMENT_ENDED" ELSE "ELEMENT_FAILED",
                                            el |-> proc[p].at])
                     ELSE to_front)
    /\ UNCHANGED <<run_vars, started>>

ForkStep(p, c) ==
    /\ proc[p].pc = "handler" /\ Kind[proc[p].at] = "fork"
    /\ Free(c) /\ c # p
    /\ proc' = [[proc EXCEPT ![p] = [proc[p] EXCEPT !.pc = "waiting"]]
                  EXCEPT ![c] = [proc[p] EXCEPT !.pc = "start", !.base = proc[p].at,
                                                !.sigio = FALSE, !.parent = p]]
    /\ UNCHANGED <<run_vars, to_front, started>>

Steps(p) ==
    \/ QuietStep(p)
    \/ StartStep(p)
    \/ FinishStep(p)
    \/ \E c \in Procs : ForkStep(p, c)
    \/ exit_process(p)

LEMMA CommandsQuiet ==
    ASSUME Inductive, NEW p \in Procs, proc[p].pc \notin {"free", "exit", "zombie"}, NEW next \in PCs,
           next = proc[p].pc \/ (proc[p].pc = "start" /\ next = "begin"),
           read_commands(p, next), UNCHANGED <<frontend_vars, to_front, started>>
    PROVE  QuietStep(p)
<1>. DEFINE r == proc[p]
            stopped == [r EXCEPT !.pc = "exit", !.ok = FALSE, !.sigio = FALSE]
            going(t) == [r EXCEPT !.pc = next, !.sigio = FALSE,
                                  !.pause_now = toggle_pause(r.pause_now, t)]
<1>1. r \in ProcState
  BY ProcType
<1>2. stopped \in ProcState /\ Quiet(r, stopped)
  BY <1>1 DEF ProcState, Quiet, SameRun
<1>3. ASSUME NEW t \in BOOLEAN PROVE going(t) \in ProcState /\ Quiet(r, going(t)) /\ going(t).pc = next
  <2>1. toggle_pause(r.pause_now, t) \in BOOLEAN
    BY DEF toggle_pause
  <2>2. going(t) \in ProcState
    BY <1>1, <2>1 DEF ProcState, PCs
  <2>3. /\ going(t).pc = next /\ going(t).at = r.at /\ going(t).ok = r.ok /\ SameRun(r, going(t))
    BY <1>1 DEF ProcState, SameRun
  <2>4. next \in {r.pc} \cup (IF r.pc = "start" THEN {"begin"} ELSE {})
    OBVIOUS
  <2>. HIDE DEF going, r
  <2>. QED  BY <2>2, <2>3, <2>4 DEF Quiet
<1>4. Odd(Pauses(to_back)) \in BOOLEAN
  BY DEF Odd
<1>5. \E s \in ProcState :
         /\ proc' = [proc EXCEPT ![p] = s] /\ Quiet(r, s)
         /\ s.pc = "exit" => ~r.current \/ Stops(to_back) # {}
  <2>1. CASE ~r.current
    <3>1. \E new \in {stopped} \cup {going(t) : t \in BOOLEAN} : proc' = [proc EXCEPT ![p] = new]
      BY <2>1 DEF read_commands
    <3>. QED  BY <1>2, <1>3, <2>1, <3>1
  <2>2. CASE r.current /\ Stops(to_back) = {}
    <3>1. proc' = [proc EXCEPT ![p] = going(Odd(Pauses(to_back)))]
      BY <2>2 DEF read_commands
    <3>2. next # "exit"
      BY <1>1
    <3>. HIDE DEF going, r, stopped
    <3>. QED  BY <1>3, <1>4, <3>1, <3>2
  <2>3. CASE r.current /\ Stops(to_back) # {}
    <3>1. proc' = [proc EXCEPT ![p] = stopped]
      BY <2>3 DEF read_commands
    <3>. QED  BY <1>2, <2>3, <3>1
  <2>. QED  BY <2>1, <2>2, <2>3
<1>. QED  BY <1>5 DEF QuietStep, run_vars, frontend_vars

\* Every step of a process has one of these shapes.
LEMMA ProcessSteps ==
    ASSUME Inductive, NEW p \in Procs,
           signal_io(p) \/ Backend(p) \/ run_action(p) \/ fatal_backend_error(p)
    PROVE  Steps(p)
<1>. DEFINE r == proc[p]
<1>1. r \in ProcState /\ Walks(r) /\ r.at \in Element /\ r.base \in Element /\ r.ok \in BOOLEAN
      /\ proc \in [Procs -> ProcState]
  BY ProcType DEF ProcState
<1>2. ASSUME signal_io(p) PROVE QuietStep(p)
  <2>1. r.pc \notin {"free", "exit", "zombie"} /\ r.pc \in PCs /\ read_commands(p, r.pc)
    BY <1>1, <1>2 DEF signal_io, CanHandle, ProcState, PCs
  <2>. QED  BY <1>2, <2>1, CommandsQuiet DEF signal_io
<1>3. ASSUME Start_receiving_sigio(p) PROVE QuietStep(p)
  <2>1. r.pc = "start" /\ "begin" \in PCs /\ read_commands(p, "begin")
    BY <1>3 DEF Start_receiving_sigio, PCs
  <2>. QED  BY <1>3, <2>1, CommandsQuiet DEF Start_receiving_sigio
<1>4. ASSUME begin_children(p) PROVE QuietStep(p)
  <2>1. PICK good \in BOOLEAN :
           proc' = [proc EXCEPT ![p] = IF good THEN EnterChildren(r, r.base)
                                       ELSE [r EXCEPT !.pc = "exit", !.ok = FALSE]]
    BY <1>1, <1>4 DEF begin_children
  <2>2. r.pc = "begin" /\ UNCHANGED <<run_vars, to_front, started>>
    BY <1>4 DEF begin_children, walk_vars, frontend_vars, run_vars
  <2>3. LET s == EnterChildren(r, r.base) IN s \in ProcState /\ Quiet(r, s)
    <3>1. EnterChildren(r, r.base) \in ProcState
      BY <1>1, <2>2, Enters
    <3>2. SameRun(r, EnterChildren(r, r.base))
      BY <1>1 DEF SameRun, EnterChildren, ProcState
    <3>. QED  BY <2>2, <3>1, <3>2 DEF Quiet
  <2>4. LET s == [r EXCEPT !.pc = "exit", !.ok = FALSE] IN s \in ProcState /\ Quiet(r, s)
    BY <1>1, <2>2 DEF Quiet, SameRun, ProcState
  <2>. QED  BY <2>1, <2>2, <2>3, <2>4 DEF QuietStep
<1>5. ASSUME do_execute_element(p) PROVE QuietStep(p) \/ StartStep(p)
  <2>1. r.pc = "element" /\ UNCHANGED run_vars
    BY <1>5 DEF do_execute_element, walk_vars, frontend_vars, run_vars
  <2>2. CASE Can_run(r.at) /\ r.at \in r.todo
    <3>1. proc' = [proc EXCEPT ![p] = [r EXCEPT !.pc = "handler"]]
      BY <1>1, <1>5, <2>2 DEF do_execute_element
    <3>. QED  BY <1>5, <2>1, <2>2, <3>1 DEF do_execute_element, StartStep, send_to_front
  <2>3. CASE ~(Can_run(r.at) /\ r.at \in r.todo)
    <3>. DEFINE s == LeaveElement(r, TRUE)
    <3>1. proc' = [proc EXCEPT ![p] = s] /\ UNCHANGED <<to_front, started>>
      BY <1>1, <1>5, <2>3 DEF do_execute_element
    <3>2. s \in ProcState
      BY <1>1, <2>1, Leaves
    <3>3. SameRun(r, s)
      BY <1>1 DEF LeaveElement, ProcState, SameRun
    <3>4. Quiet(r, s)
      BY <2>1, <2>3, <3>3 DEF Quiet
    <3>. HIDE DEF s
    <3>. QED  BY <2>1, <3>1, <3>2, <3>4 DEF QuietStep
  <2>. QED  BY <2>2, <2>3
<1>6. ASSUME run_container(p) PROVE QuietStep(p)
  <2>1. PICK good \in BOOLEAN :
           /\ proc' = [proc EXCEPT ![p] = IF good THEN EnterChildren(r, r.at)
                                          ELSE [r EXCEPT !.pc = "finish", !.ok = FALSE]]
    BY <1>1, <1>6 DEF run_container
  <2>2. r.pc = "handler" /\ Kind[r.at] # "action" /\ UNCHANGED <<run_vars, to_front, started>>
    BY <1>6 DEF run_container, walk_vars, frontend_vars, run_vars
  <2>3. LET s == EnterChildren(r, r.at) IN s \in ProcState /\ Quiet(r, s)
    <3>1. EnterChildren(r, r.at) \in ProcState
      BY <1>1, <2>2, Enters
    <3>2. SameRun(r, EnterChildren(r, r.at))
      BY <1>1 DEF SameRun, EnterChildren, ProcState
    <3>. QED  BY <2>2, <3>1, <3>2 DEF Quiet
  <2>4. LET s == [r EXCEPT !.pc = "finish", !.ok = FALSE] IN s \in ProcState /\ Quiet(r, s)
    BY <1>1, <2>2 DEF Quiet, SameRun, ProcState
  <2>. QED  BY <2>1, <2>2, <2>3, <2>4 DEF QuietStep
<1>7. ASSUME run_action(p) PROVE QuietStep(p)
  <2>1. PICK good \in BOOLEAN : proc' = [proc EXCEPT ![p].pc = "finish", ![p].ok = good]
    BY <1>7 DEF run_action
  <2>2. r.pc = "handler" /\ Kind[r.at] = "action" /\ UNCHANGED <<run_vars, to_front, started>>
    BY <1>7 DEF run_action, walk_vars, frontend_vars, run_vars
  <2>3. LET s == [r EXCEPT !.pc = "finish", !.ok = good]
        IN  s \in ProcState /\ Quiet(r, s) /\ proc' = [proc EXCEPT ![p] = s]
    BY <1>1, <2>1, <2>2 DEF Quiet, SameRun, ProcState
  <2>. QED  BY <2>2, <2>3 DEF QuietStep
<1>8. ASSUME run_fork(p) PROVE Steps(p)
  <2>1. r.pc = "handler" /\ Kind[r.at] = "fork" /\ UNCHANGED <<run_vars, to_front, started>>
    BY <1>8 DEF run_fork, walk_vars, frontend_vars, run_vars
  <2>2. CASE proc' = [proc EXCEPT ![p].pc = "finish", ![p].ok = FALSE]
    <3>1. LET s == [r EXCEPT !.pc = "finish", !.ok = FALSE]
          IN  s \in ProcState /\ Quiet(r, s) /\ proc' = [proc EXCEPT ![p] = s]
      BY <1>1, <2>1, <2>2 DEF Quiet, SameRun, ProcState
    <3>. QED  BY <2>1, <3>1 DEF QuietStep, Steps
  <2>3. ASSUME NEW c \in Procs, Free(c),
               proc' = [proc EXCEPT
                  ![p].pc = "waiting",
                  ![c] = [proc[p] EXCEPT !.pc = "start", !.base = proc[p].at,
                                         !.sigio = FALSE, !.parent = p]]
        PROVE  Steps(p)
    <3>1. c # p
      BY <2>1, <2>3 DEF Free
    <3>2. proc' = [[proc EXCEPT ![p] = [r EXCEPT !.pc = "waiting"]]
                     EXCEPT ![c] = [r EXCEPT !.pc = "start", !.base = r.at, !.sigio = FALSE, !.parent = p]]
      BY <1>1, <2>3
    <3>3. ForkStep(p, c)
      BY <2>1, <2>3, <3>1, <3>2 DEF ForkStep
    <3>. QED  BY <3>3 DEF Steps
  <2>. QED  BY <1>8, <2>2, <2>3 DEF run_fork
<1>9. ASSUME finish_element(p) PROVE FinishStep(p)
  <2>1. proc' = [proc EXCEPT ![p] = LeaveElement(r, r.ok)]
    BY <1>1, <1>9 DEF finish_element
  <2>. QED  BY <1>9, <2>1 DEF finish_element, FinishStep, send_to_front, walk_vars, frontend_vars, run_vars
<1>10. ASSUME fatal_backend_error(p) PROVE QuietStep(p)
  <2>1. r.pc \notin {"free", "exit", "zombie", "waiting"} /\ UNCHANGED <<run_vars, to_front, started>>
    BY <1>10 DEF fatal_backend_error, walk_vars, frontend_vars, run_vars
  <2>2. LET s == [r EXCEPT !.pc = "exit", !.ok = FALSE]
        IN  s \in ProcState /\ Quiet(r, s) /\ proc' = [proc EXCEPT ![p] = s]
    BY <1>1, <1>10, <2>1 DEF Quiet, SameRun, ProcState, fatal_backend_error
  <2>. QED  BY <2>1, <2>2 DEF QuietStep
<1>. QED  BY <1>2, <1>3, <1>4, <1>5, <1>6, <1>7, <1>8, <1>9, <1>10 DEF Backend, Steps

SameWalk(r, s) == SameRun(r, s) /\ s.pc = r.pc /\ s.at = r.at /\ s.ok = r.ok

\* The frontend and the user leave the walk alone.
MarkStep ==
    /\ UNCHANGED <<should_run, backend_pid, started>>
    /\ \A p \in Procs : SameWalk(proc[p], proc'[p])
    /\ \/ UNCHANGED <<run_status, to_front>>
       \/ handle_ctrl_msg
       \/ \E e \in Cursor, s \in {"DONE", "FAILED", "NONE"} : change_run_status_marks(e, s)

BeginStep ==
    /\ ~Backend_exists
    /\ \E scheduled \in SUBSET Element, statuses \in [Element -> RunStatus] :
          start_executing(scheduled, statuses)

LEMMA BeginSteps ==
    ASSUME Inductive,
           \/ start_executing_marked
           \/ \E e \in Cursor :
                 \/ start_executing_children(e)
                 \/ start_executing_next(e)
                 \/ force_executing(e)
    PROVE  BeginStep
<1>1. /\ run_status \in [Element -> RunStatus] /\ should_run \subseteq Element /\ marked \subseteq Element
      /\ \A e \in Element : Ancestors[e] \subseteq Element
      /\ \A rs, e : MarkedForRunning(rs, e) \subseteq Subtree[e]
      /\ \A e \in Element : Subtree[e] \subseteq Element
  BY DEF Inductive, TypeOK, Ancestors, MarkedForRunning, Subtree
<1>2. CASE start_executing_marked
  <2>1. start_executing(should_run \cup marked,
                        [e \in Element |-> IF e \in marked THEN "NONE" ELSE run_status[e]])
    BY <1>2 DEF start_executing_marked
  <2>2. [e \in Element |-> IF e \in marked THEN "NONE" ELSE run_status[e]] \in [Element -> RunStatus]
    BY <1>1 DEF RunStatus
  <2>3. should_run \cup marked \in SUBSET Element /\ ~Backend_exists
    BY <1>1, <1>2 DEF start_executing_marked
  <2>. QED  BY <2>1, <2>2, <2>3 DEF BeginStep
<1>3. ASSUME NEW e \in Cursor, NEW rs \in [Element -> RunStatus], executing_children(e, rs), ~Backend_exists
      PROVE  BeginStep
  <2>1. start_executing(should_run \cup Ancestors[e] \cup MarkedForRunning(rs, e), rs)
    BY <1>3 DEF executing_children
  <2>2. should_run \cup Ancestors[e] \cup MarkedForRunning(rs, e) \in SUBSET Element
    BY <1>1, <1>3, CursorType
  <2>. QED  BY <1>3, <2>1, <2>2 DEF BeginStep
<1>4. ASSUME NEW e \in Cursor, start_executing_next(e) PROVE BeginStep
  <2>. DEFINE scheduled == should_run \cup Ancestors[e]
                             \cup UNION {MarkedForRunning(run_status, x) : x \in FromHere(e)}
  <2>1. start_executing(scheduled, run_status) /\ ~Backend_exists
    BY <1>4 DEF start_executing_next
  <2>2. scheduled \in SUBSET Element
    <3>1. FromHere(e) \subseteq Element
      <4>1. e \in Element
        BY <1>4, CursorType
      <4>2. e \in Element \ {Root}
        BY <1>4, ExecutionAssumption DEF Displayed
      <4>3. Parent[e] \in Element
        BY <1>1, <4>2, ParentIsInnermost
      <4>. QED  BY <4>3 DEF FromHere, Children
    <3>. QED  BY <1>1, <1>4, <3>1, CursorType
  <2>. QED  BY <1>1, <2>1, <2>2 DEF BeginStep
<1>5. ASSUME NEW e \in Cursor, start_executing_children(e) PROVE BeginStep
  BY <1>1, <1>3, <1>5 DEF start_executing_children
<1>6. ASSUME NEW e \in Cursor, force_executing(e) PROVE BeginStep
  <2>. DEFINE rs == [x \in Element |-> IF x \in Subtree[e] /\ run_status[x] = "DONE"
                                      THEN "NONE" ELSE run_status[x]]
  <2>1. executing_children(e, rs) /\ ~Backend_exists
    BY <1>6 DEF force_executing
  <2>2. rs \in [Element -> RunStatus]
    BY <1>1 DEF RunStatus
  <2>. HIDE DEF rs
  <2>. QED  BY <1>3, <2>1, <2>2
<1>. QED  BY <1>2, <1>4, <1>5, <1>6

LEMMA OtherSteps ==
    ASSUME Inductive, UserKey \/ Frontend \/ UNCHANGED vars
    PROVE  BeginStep \/ wait_for_the_backend \/ MarkStep
<1>1. ASSUME UNCHANGED proc PROVE \A p \in Procs : SameWalk(proc[p], proc'[p])
  BY <1>1 DEF SameWalk, SameRun
<1>2. ASSUME NEW c, send_command(c) PROVE MarkStep
  <2>1. UNCHANGED <<should_run, backend_pid, started, run_status, to_front>>
    BY <1>2 DEF send_command
  <2>2. \A p \in Procs : SameWalk(proc[p], proc'[p])
    <3>1. CASE sigio_owner # NoProc
      <4>1. proc' = [proc EXCEPT ![sigio_owner].sigio = TRUE]
        BY <1>2, <3>1 DEF send_command
      <4>2. \A p \in Procs : proc'[p] \in {proc[p], [proc[p] EXCEPT !.sigio = TRUE]}
        BY <4>1, ProcType
      <4>3. \A p \in Procs : proc[p] \in ProcState
        BY ProcType
      <4>. QED  BY <4>2, <4>3 DEF SameWalk, SameRun, ProcState
    <3>2. CASE sigio_owner = NoProc
      BY <1>1, <1>2, <3>2 DEF send_command
    <3>. QED  BY <3>1, <3>2
  <2>. QED  BY <2>1, <2>2 DEF MarkStep
<1>3. CASE UserKey
  <2>1. CASE stop_key \/ pause_key
    BY <1>2, <2>1 DEF stop_key, pause_key
  <2>2. CASE \E all \in BOOLEAN : clear_marks(all)
    BY <1>1, <2>2 DEF clear_marks, mark_vars, MarkStep, backend_vars, socket_vars
  <2>3. ASSUME NEW e \in Cursor, mark_element(e) PROVE MarkStep
    BY <1>1, <2>3 DEF mark_element, mark_vars, MarkStep, backend_vars, socket_vars
  <2>4. ASSUME NEW e \in Cursor, NEW s \in {"DONE", "FAILED", "NONE"}, change_run_status_marks(e, s)
        PROVE  MarkStep
    BY <1>1, <2>4 DEF change_run_status_marks, MarkStep, backend_vars
  <2>. QED  BY <1>3, <2>1, <2>2, <2>3, <2>4, BeginSteps DEF UserKey
<1>4. CASE Frontend
  <2>1. CASE handle_ctrl_msg
    BY <1>1, <2>1 DEF handle_ctrl_msg, MarkStep, backend_vars
  <2>2. CASE read_all_messages
    BY <1>1, <2>2 DEF read_all_messages, MarkStep, backend_vars, socket_vars
  <2>. QED  BY <1>4, <2>1, <2>2 DEF Frontend
<1>5. CASE UNCHANGED vars
  BY <1>1, <1>5 DEF vars, MarkStep, backend_vars, frontend_vars, socket_vars
<1>. QED  BY <1>3, <1>4, <1>5

LEMMA AllSteps ==
    ASSUME Inductive, [Next]_vars
    PROVE  (\E p \in Procs : Steps(p)) \/ BeginStep \/ wait_for_the_backend \/ MarkStep
BY ProcessSteps, OtherSteps DEF Next

-----------------------------------------------------------------------------
(***************************************************************************)
(* The walk and the order of the tree.                                     *)
(***************************************************************************)

LEMMA Positions ==
    /\ \A e \in Element : e \in Nat /\ Last[e] \in Element /\ e <= Last[e]
    /\ \A a, e \in Element : a \in Ancestors[e] <=> a < e /\ e <= Last[a]
    /\ \A a, e \in Element : a < e /\ e <= Last[a] => Last[e] <= Last[a]
    /\ Root \in Element /\ \A e \in Element : Last[e] <= Last[Root]
<1>1. NumElements \in Nat /\ Element = 0 .. NumElements - 1
  BY TreeAssumption DEF Element
<1>2. \A e \in Element : e \in Nat /\ Last[e] \in Element /\ e <= Last[e]
  BY <1>1, TreeAssumption
<1>3. Root \in Element /\ \A e \in Element : Last[e] <= Last[Root]
  BY <1>1, <1>2, TreeAssumption DEF Root
<1>. QED  BY <1>2, <1>3, TreeAssumption DEF Ancestors

\* The last child ends where its parent does.
LEMMA LastChild ==
    ASSUME NEW e \in Displayed, ~HasNext(e)
    PROVE  Last[Parent[e]] = Last[e]
<1>1. Parent[e] \in Ancestors[e] /\ Parent[e] \in Element /\ e \in Element
  BY ParentIsInnermost, Order DEF Displayed
<1>2. Last[e] <= Last[Parent[e]]
  BY <1>1, Positions
<1>3. Last[e] \in Nat /\ Last[Parent[e]] \in Nat
  BY <1>1, Positions
<1>. QED  BY <1>2, <1>3 DEF HasNext

\* What is around the next sibling is around e.
LEMMA SiblingAround ==
    ASSUME NEW e \in Displayed, HasNext(e)
    PROVE  Ancestors[Next_el(e)] = Ancestors[e] /\ Next_el(e) \in Element
<1>1. Next_el(e) \in Element /\ Ancestors[e] \subseteq Ancestors[Next_el(e)] /\ e \in Element
  BY NextSiblingBelow DEF Displayed
<1>2. ASSUME NEW a \in Ancestors[Next_el(e)] PROVE a \in Ancestors[e]
  <2>1. a \in Element /\ a < Next_el(e) /\ Next_el(e) <= Last[a]
    BY <1>1, <1>2, Positions, Order
  <2>2. a \in Nat /\ e \in Nat /\ Last[e] \in Nat /\ Last[a] \in Nat /\ e <= Last[e]
    BY <1>1, <2>1, Positions
  <2>3. a <= Last[e] /\ Last[e] < Last[a]
    BY <2>1, <2>2 DEF Next_el
  <2>4. a < e
    <3>1. e < a => Last[a] <= Last[e]
      BY <1>1, <2>1, <2>3, Positions
    <3>2. a # e
      BY <2>2, <2>3
    <3>. QED  BY <2>2, <2>3, <3>1, <3>2
  <2>. QED  BY <1>1, <2>1, <2>2, <2>3, <2>4, Positions
<1>. QED  BY <1>1, <1>2

LEMMA FirstChildAround ==
    ASSUME NEW e \in Element, HasChildren(e)
    PROVE  Ancestors[e + 1] = Around(e) /\ e + 1 \in Element
<1>1. e + 1 \in Element /\ Around(e) \subseteq Ancestors[e + 1]
  BY FirstChildBelow DEF Around
<1>2. ASSUME NEW a \in Ancestors[e + 1] PROVE a \in Around(e)
  <2>1. a \in Element /\ a < e + 1 /\ e + 1 <= Last[a]
    BY <1>1, <1>2, Positions, Order
  <2>2. a \in Nat /\ e \in Nat /\ Last[a] \in Nat
    BY <2>1, Positions
  <2>. QED  BY <2>1, <2>2, Positions DEF Around
<1>. QED  BY <1>1, <1>2

\* A reachable element is scheduled, and so is what is around it, where no
\* action is.
LEMMA InPlan ==
    ASSUME NEW e \in Plan
    PROVE  /\ e \in should_run /\ e # Root
           /\ \A a \in Around(e) \ {Root} : Can_run(a) /\ a \in should_run
           /\ \A a \in Ancestors[e] : Kind[a] # "action"
BY DEF Plan, Reachable, Around

-----------------------------------------------------------------------------
(***************************************************************************)
(* A process of the run goes on.                                           *)
(***************************************************************************)

\* Leaving an element, everything planned below it is behind.
LEMMA LeavesBehind ==
    ASSUME should_run \subseteq Element,
           NEW r \in ProcState, Walks(r), r.pc \in {"element", "finish"}, OnPlan(r)
    PROVE  LET s == LeaveElement(r, TRUE)
           IN  OnPlan(s) /\ Behind(s) = {x \in Plan : x < Last[r.at] + 1}
<1>. DEFINE s == LeaveElement(r, TRUE)
            e == r.at
<1>. SUFFICES OnPlan(s) /\ Behind(s) = {x \in Plan : x < Last[e] + 1}
  OBVIOUS
<1>1. /\ e \in Displayed /\ e \in Element /\ r.base \in Element
      /\ r.base \in Ancestors[e] /\ Parent[e] \in Ancestors[e] /\ Parent[e] \in Element
      /\ Ancestors[e] = Around(Parent[e])
  <2>1. e \in Displayed /\ r.base \in Ancestors[e] /\ r.base \in Element
    BY RoomHasBase DEF Walks, ProcState
  <2>2. Parent[e] \in Ancestors[e] /\ Ancestors[e] \subseteq Around(Parent[e])
    BY <2>1, ParentIsInnermost DEF Around, Displayed
  <2>. QED  BY <2>1, <2>2, Order DEF Displayed, Around
<1>2. /\ \A a \in Ancestors[e] \ {Root} : Can_run(a) /\ a \in should_run
      /\ \A a \in Ancestors[e] : Kind[a] # "action"
  BY DEF OnPlan, Room, Entered, Around
<1>3. CASE HasNext(e)
  <2>1. s.pc = "element" /\ s.at = Next_el(e)
    BY <1>3 DEF LeaveElement, ProcState
  <2>2. Room(s) = Ancestors[e] /\ Entered(s) = Ancestors[e] /\ StartedTo(s) = Last[e] + 1
    BY <1>1, <1>3, <2>1, SiblingAround DEF Room, Entered, StartedTo, Next_el
  <2>. HIDE DEF s
  <2>. QED  BY <1>2, <2>2 DEF OnPlan, Behind
<1>4. CASE ~HasNext(e) /\ Parent[e] = r.base
  <2>1. s.pc = "exit" /\ s.base = r.base
    BY <1>4 DEF LeaveElement, ProcState
  <2>2. Room(s) = Ancestors[e] /\ Entered(s) = Ancestors[e] /\ StartedTo(s) = Last[e] + 1
    BY <1>1, <1>4, <2>1, LastChild DEF Room, Entered, StartedTo
  <2>. HIDE DEF s
  <2>. QED  BY <1>2, <2>2 DEF OnPlan, Behind
<1>5. CASE ~HasNext(e) /\ Parent[e] # r.base
  <2>1. s.pc = "finish" /\ s.at = Parent[e]
    BY <1>5 DEF LeaveElement, ProcState
  <2>2. Room(s) = Ancestors[e] /\ Entered(s) \subseteq Ancestors[e] /\ StartedTo(s) = Last[e] + 1
    BY <1>1, <1>5, <2>1, LastChild DEF Room, Entered, StartedTo, Around
  <2>. HIDE DEF s
  <2>. QED  BY <1>2, <2>2 DEF OnPlan, Behind
<1>. QED  BY <1>3, <1>4, <1>5

\* Entering one, nothing more is behind than before.
LEMMA EntersBehind ==
    ASSUME should_run \subseteq Element,
           NEW r \in ProcState, Walks(r), NEW el \in Element, OnPlan(r),
           \/ r.pc = "begin" /\ el = r.base
           \/ r.pc = "handler" /\ el = r.at /\ Kind[el] # "action"
    PROVE  LET s == EnterChildren(r, el)
           IN  OnPlan(s) /\ Behind(s) = Behind(r)
<1>. DEFINE s == EnterChildren(r, el)
<1>. SUFFICES OnPlan(s) /\ Behind(s) = Behind(r)
  OBVIOUS
<1>1. /\ Room(r) = Around(el) /\ (r.pc = "handler" => el # r.base) /\ StartedTo(r) = el + 1
      /\ \A a \in Around(el) : Kind[a] # "action"
  <2>1. r.pc = "handler" => r.base \in Ancestors[r.at]
    BY DEF Walks
  <2>2. r.base \in Element
    BY DEF ProcState
  <2>. QED  BY <2>1, <2>2, Order DEF Room, StartedTo, OnPlan, Entered, Around
<1>2. CASE HasChildren(el)
  <2>1. s.pc = "element" /\ s.at = el + 1
    BY <1>2 DEF EnterChildren, ProcState
  <2>2. Room(s) = Around(el) /\ Entered(s) = Around(el) /\ StartedTo(s) = el + 1
    BY <1>2, <2>1, FirstChildAround DEF Room, Entered, StartedTo
  <2>. HIDE DEF s
  <2>. QED  BY <1>1, <2>2 DEF OnPlan, Behind
<1>3. CASE ~HasChildren(el)
  <2>1. s.pc = (IF el = r.base THEN "exit" ELSE "finish") /\ s.at = r.at /\ s.base = r.base
    BY <1>3 DEF EnterChildren, ProcState
  <2>2. Last[el] = el
    <3>1. el \in Nat /\ Last[el] \in Nat /\ el <= Last[el]
      BY Positions
    <3>. QED  BY <1>3, <3>1 DEF HasChildren
  <2>3. Room(s) = Around(el) /\ Entered(s) \subseteq Around(el) /\ StartedTo(s) = el + 1
    BY <1>1, <2>1, <2>2 DEF Room, Entered, StartedTo, Around
  <2>. HIDE DEF s
  <2>. QED  BY <1>1, <2>3 DEF OnPlan, Behind
<1>. QED  BY <1>2, <1>3

\* Nothing planned lies below an element that is passed over, or an action.
LEMMA NothingBelow ==
    ASSUME should_run \subseteq Element, NEW e \in Displayed
    PROVE  /\ ~(Can_run(e) /\ e \in should_run) =>
                {x \in Plan : x < e} = {x \in Plan : x < Last[e] + 1}
           /\ Kind[e] = "action" =>
                {x \in Plan : x < e + 1} = {x \in Plan : x < Last[e] + 1}
<1>1. Plan \subseteq Element
  BY InPlan
<1>2. /\ e \in Nat /\ Last[e] \in Nat /\ e <= Last[e] /\ e \in Element
      /\ \A x \in Plan : x \in Nat
  BY <1>1, Positions DEF Displayed
<1>3. ASSUME NEW x \in Plan, e < x, x < Last[e] + 1 PROVE e \in Ancestors[x]
  BY <1>1, <1>2, <1>3, Positions
<1>4. ASSUME ~(Can_run(e) /\ e \in should_run), NEW x \in Plan, x < Last[e] + 1 PROVE x < e
  <2>1. e \notin Around(x)
    BY <1>4, InPlan DEF Displayed
  <2>. QED  BY <1>2, <1>3, <1>4, <2>1 DEF Around
<1>5. ASSUME Kind[e] = "action", NEW x \in Plan, x < Last[e] + 1 PROVE x < e + 1
  <2>1. e \notin Ancestors[x]
    BY <1>5, InPlan
  <2>. QED  BY <1>2, <1>3, <1>5, <2>1
<1>6. \A x \in Plan : x < e => x < e + 1 /\ x < Last[e] + 1
  BY <1>2
<1>7. \A x \in Plan : x < e + 1 => x < Last[e] + 1
  BY <1>2
<1>. QED  BY <1>4, <1>5, <1>6, <1>7

\* A step without a message.
LEMMA QuietBehind ==
    ASSUME should_run \subseteq Element,
           NEW r \in ProcState, Walks(r), NEW s \in ProcState, Quiet(r, s), Walker(s),
           r.pc \notin {"free", "exit", "zombie"}
    PROVE  /\ Walker(r)
           /\ r.todo = should_run /\ OnPlan(r) => OnPlan(s) /\ Behind(s) = Behind(r)
<1>1. CASE s.pc \in {r.pc} \cup (IF r.pc = "start" THEN {"begin"} ELSE {}) /\ s.at = r.at /\ s.ok = r.ok
  <2>1. Room(s) = Room(r) /\ Entered(s) = Entered(r) /\ StartedTo(s) = StartedTo(r) /\ Walker(r)
    BY <1>1 DEF Quiet, SameRun, Room, Entered, StartedTo, Walker
  <2>. QED  BY <2>1 DEF OnPlan, Behind
<1>2. CASE s.pc = "exit" /\ ~s.ok
  BY <1>2 DEF Walker
<1>3. CASE r.pc = "begin" /\ s = EnterChildren(r, r.base)
  <2>1. r.base \in Element /\ Walker(r)
    BY <1>3 DEF Quiet, SameRun, Walker, ProcState
  <2>. QED  BY <1>3, <2>1, EntersBehind
<1>4. CASE r.pc = "handler" /\ Kind[r.at] # "action" /\ s = EnterChildren(r, r.at)
  <2>1. r.at \in Element /\ Walker(r)
    BY <1>4 DEF Quiet, SameRun, Walker, ProcState
  <2>. QED  BY <1>4, <2>1, EntersBehind
<1>5. CASE r.pc = "handler" /\ s.pc = "finish" /\ s.at = r.at /\ (s.ok => Kind[r.at] = "action")
  <2>1. r.at \in Displayed /\ Kind[r.at] = "action" /\ Walker(r)
    <3>1. Kind[r.at] = "action" /\ Walker(r)
      BY <1>5 DEF Walker, Quiet, SameRun
    <3>. QED  BY <1>5, <3>1, RoomHasBase
  <2>2. Room(s) = Room(r) /\ Entered(s) = Entered(r)
    BY <1>5 DEF Room, Entered
  <2>3. Behind(s) = Behind(r)
    BY <1>5, <2>1, NothingBelow DEF Behind, StartedTo
  <2>. QED  BY <2>1, <2>2, <2>3 DEF OnPlan
<1>6. CASE r.pc = "element" /\ ~(Can_run(r.at) /\ r.at \in r.todo) /\ s = LeaveElement(r, TRUE)
  <2>1. r.at \in Displayed /\ Walker(r)
    BY <1>6, RoomHasBase DEF Quiet, SameRun, Walker
  <2>2. ASSUME r.todo = should_run, OnPlan(r) PROVE OnPlan(s) /\ Behind(s) = Behind(r)
    <3>1. OnPlan(s) /\ Behind(s) = {x \in Plan : x < Last[r.at] + 1}
      BY <1>6, <2>2, LeavesBehind
    <3>2. Behind(r) = {x \in Plan : x < r.at}
      BY <1>6 DEF Behind, StartedTo
    <3>. QED  BY <1>6, <2>1, <2>2, <3>1, <3>2, NothingBelow
  <2>. QED  BY <2>1, <2>2
<1>. QED  BY <1>1, <1>2, <1>3, <1>4, <1>5, <1>6 DEF Quiet

-----------------------------------------------------------------------------
(***************************************************************************)
(* The walk of all processes together.                                     *)
(***************************************************************************)
Walking == Running /\ WalksThePlan

LEMMA WalkType ==
    ASSUME Walking
    PROVE  /\ Inductive /\ Family /\ should_run \subseteq Element /\ started \in Seq(Element)
           /\ proc \in [Procs -> ProcState] /\ \A p \in Procs : proc[p] \in ProcState /\ Walks(proc[p])
           /\ NoProc \notin Procs /\ backend_pid \in Procs \cup {NoProc}
           /\ \A p \in Procs, o \in Procs : Walker(proc[p]) /\ Walker(proc[o]) => p = o
<1>1. Inductive /\ Family /\ OneBelowTheOther
  BY DEF Walking, Running, Family
<1>2. \A p \in Procs : Walker(proc[p]) => Inside(proc[p])
  BY DEF Walker, Inside
<1>. QED  BY <1>1, <1>2, ProcType, OneWalker DEF Inductive, TypeOK

LEMMA WalksOn ==
    ASSUME UNCHANGED <<should_run, backend_pid>>,
           ASSUME Backend_exists, NEW p \in Procs
           PROVE  /\ proc'[p].current /\ proc'[p].pc # "free" => proc'[p].todo = should_run
                  /\ Walker(proc'[p]) => OnPlan(proc'[p]) /\ Begun' = Behind(proc'[p])
    PROVE  WalksThePlan'
<1>1. Backend_exists' = Backend_exists /\ Plan' = Plan
  BY DEF Backend_exists, Plan
<1>2. \A p \in Procs : /\ Walker(proc[p])' = Walker(proc'[p])
                       /\ OnPlan(proc[p])' = OnPlan(proc'[p])
                       /\ Behind(proc[p])' = Behind(proc'[p])
                       /\ Free(p)' = (proc'[p].pc = "free")
  BY <1>1 DEF Walker, OnPlan, Behind, Room, Entered, StartedTo, Free
<1>. QED  BY <1>1, <1>2 DEF WalksThePlan

LEMMA QuietWalks ==
    ASSUME Walking, NEW p \in Procs, QuietStep(p)
    PROVE  WalksThePlan'
<1>. DEFINE r == proc[p]
<1>1. PICK s \in ProcState : proc' = [proc EXCEPT ![p] = s] /\ Quiet(r, s)
  BY DEF QuietStep
<1>2. /\ r.pc \notin {"free", "exit", "zombie"}
      /\ UNCHANGED <<should_run, backend_pid>> /\ Begun' = Begun
  BY DEF QuietStep, run_vars, Begun
<1>3. proc'[p] = s /\ \A o \in Procs \ {p} : proc'[o] = proc[o]
  BY <1>1, WalkType
<1>4. r \in ProcState /\ Walks(r) /\ should_run \subseteq Element
  BY WalkType
<1>5. s.current = r.current /\ s.todo = r.todo
  BY <1>1 DEF Quiet, SameRun
<1>6. ASSUME Backend_exists, NEW o \in Procs
      PROVE  /\ proc'[o].current /\ proc'[o].pc # "free" => proc'[o].todo = should_run
             /\ Walker(proc'[o]) => OnPlan(proc'[o]) /\ Begun' = Behind(proc'[o])
  <2>1. CASE o # p
    BY <1>2, <1>3, <1>6, <2>1 DEF Walking, WalksThePlan, Free
  <2>2. CASE o = p
    <3>1. r.current => r.todo = should_run
      BY <1>2, <1>6 DEF Walking, WalksThePlan, Free
    <3>2. Walker(r) => OnPlan(r) /\ Begun = Behind(r)
      BY <1>6 DEF Walking, WalksThePlan
    <3>3. Walker(s) => Walker(r) /\ r.current
      BY <1>1, <1>2, <1>4, QuietBehind DEF Walker
    <3>4. Walker(s) => OnPlan(s) /\ Behind(s) = Behind(r)
      BY <1>1, <1>2, <1>4, <3>1, <3>2, <3>3, QuietBehind
    <3>. HIDE DEF r
    <3>. QED  BY <1>2, <1>3, <1>5, <2>2, <3>1, <3>2, <3>3, <3>4
  <2>. QED  BY <2>1, <2>2
<1>. QED  BY <1>2, <1>6, WalksOn

\* What is started is the first element of the plan that was not.
LEMMA StartsNext ==
    ASSUME Walking, Backend_exists, NEW p \in Procs, StartStep(p), proc[p].current
    PROVE  LET e == proc[p].at
           IN  /\ e \in Plan \ Begun
               /\ \A u \in Plan : u < e => u \in Begun
               /\ started' = Append(started, e) /\ Begun' = Begun \cup {e}
               /\ Begun' = {x \in Plan : x < e + 1}
               /\ OnPlan([proc[p] EXCEPT !.pc = "handler"])
<1>. DEFINE r == proc[p]
            e == r.at
            s == [r EXCEPT !.pc = "handler"]
<1>1. r \in ProcState /\ Walks(r) /\ r.pc = "element" /\ Walker(r) /\ r.todo = should_run
      /\ OnPlan(r) /\ Begun = Behind(r)
  <2>1. r \in ProcState /\ Walks(r) /\ r.pc = "element" /\ Walker(r)
    BY WalkType DEF StartStep, Walker
  <2>. QED  BY <2>1 DEF Walking, WalksThePlan, Free
<1>2. e \in Displayed /\ e \in Element /\ Can_run(e) /\ e \in should_run
  BY <1>1, RoomHasBase DEF StartStep, Displayed
<1>3. /\ \A a \in Ancestors[e] \ {Root} : Can_run(a) /\ a \in should_run
      /\ \A a \in Ancestors[e] : Kind[a] # "action"
  BY <1>1 DEF OnPlan, Room, Entered
<1>4. e \in Plan
  BY <1>2, <1>3 DEF Plan, Reachable, Displayed
<1>5. Begun = {x \in Plan : x < e}
  BY <1>1 DEF Behind, StartedTo
<1>6. started' = Append(started, e)
  BY DEF StartStep
<1>7. Begun' = Begun \cup {e}
  <2>1. started \in Seq(Element)
    BY WalkType
  <2>2. /\ DOMAIN started = 1 .. Len(started) /\ Len(started) \in Nat
        /\ DOMAIN started' = 1 .. Len(started) + 1
        /\ \A i \in 1 .. Len(started) : started'[i] = started[i]
        /\ started'[Len(started) + 1] = e
    BY <1>2, <1>6, <2>1
  <2>3. \A x : x \in Begun' <=> \E i \in 1 .. Len(started) + 1 : x = started'[i]
    BY <2>2 DEF Begun
  <2>4. \A x : x \in Begun <=> \E i \in 1 .. Len(started) : x = started[i]
    BY <2>2 DEF Begun
  <2>. HIDE DEF e
  <2>5. \A x : x \in Begun' <=> x \in Begun \/ x = e
    BY <2>2, <2>3, <2>4
  <2>. QED  BY <2>5
<1>8. Plan \subseteq Element /\ \A x \in Element : x \in Nat
  BY WalkType, InPlan, Positions
<1>9. Begun' = {x \in Plan : x < e + 1}
  BY <1>2, <1>4, <1>5, <1>7, <1>8
<1>10. OnPlan(s)
  <2>1. s.pc = "handler" /\ s.at = e
    BY <1>1 DEF ProcState
  <2>2. Room(s) = Around(e) /\ Entered(s) = Ancestors[e]
    BY <2>1 DEF Room, Entered
  <2>. HIDE DEF s
  <2>. QED  BY <1>2, <1>3, <2>2 DEF OnPlan, Around
<1>11. e \notin Begun
  BY <1>2, <1>5, <1>8
<1>. QED  BY <1>4, <1>5, <1>6, <1>7, <1>9, <1>10, <1>11

LEMMA StartWalks ==
    ASSUME Walking, NEW p \in Procs, StartStep(p)
    PROVE  WalksThePlan'
<1>. DEFINE r == proc[p]
            s == [r EXCEPT !.pc = "handler"]
<1>1. r \in ProcState /\ r.pc = "element" /\ UNCHANGED <<should_run, backend_pid>>
  BY WalkType DEF StartStep, run_vars
<1>2. s.pc = "handler" /\ s.at = r.at /\ s.current = r.current /\ s.todo = r.todo
  BY <1>1 DEF ProcState
<1>3. proc'[p] = s /\ \A o \in Procs \ {p} : proc'[o] = proc[o]
  BY WalkType DEF StartStep
<1>4. ASSUME Backend_exists, NEW o \in Procs
      PROVE  /\ proc'[o].current /\ proc'[o].pc # "free" => proc'[o].todo = should_run
             /\ Walker(proc'[o]) => OnPlan(proc'[o]) /\ Begun' = Behind(proc'[o])
  <2>1. CASE o # p
    <3>1. Walker(proc[o]) => ~r.current
      BY <1>1, <2>1, WalkType DEF Walker
    <3>2. ~r.current => started' = started
      BY DEF StartStep
    <3>3. Walker(proc[o]) => Begun' = Begun
      BY <3>1, <3>2 DEF Begun
    <3>. QED  BY <1>3, <1>4, <2>1, <3>3 DEF Walking, WalksThePlan, Free
  <2>2. CASE o = p
    <3>1. r.current => r.todo = should_run
      BY <1>1, <1>4 DEF Walking, WalksThePlan, Free
    <3>2. r.current => OnPlan(s) /\ Begun' = {x \in Plan : x < r.at + 1}
      BY <1>4, StartsNext
    <3>3. Behind(s) = {x \in Plan : x < r.at + 1}
      BY <1>2 DEF Behind, StartedTo
    <3>. HIDE DEF s, r
    <3>. QED  BY <1>2, <1>3, <2>2, <3>1, <3>2, <3>3 DEF Walker
  <2>. QED  BY <2>1, <2>2
<1>. QED  BY <1>1, <1>4, WalksOn

LEMMA FinishWalks ==
    ASSUME Walking, NEW p \in Procs, FinishStep(p)
    PROVE  WalksThePlan'
<1>. DEFINE r == proc[p]
            s == LeaveElement(r, r.ok)
<1>1. r \in ProcState /\ Walks(r) /\ r.pc = "finish" /\ r.ok \in BOOLEAN
      /\ UNCHANGED <<should_run, backend_pid>> /\ Begun' = Begun
  BY WalkType DEF FinishStep, run_vars, ProcState, Begun
<1>2. s.current = r.current /\ s.todo = r.todo /\ (~r.ok => s.pc \in {"finish", "exit"} /\ ~s.ok)
  BY <1>1 DEF LeaveElement, ProcState
<1>3. proc'[p] = s /\ \A o \in Procs \ {p} : proc'[o] = proc[o]
  BY WalkType DEF FinishStep
<1>4. ASSUME Backend_exists, NEW o \in Procs
      PROVE  /\ proc'[o].current /\ proc'[o].pc # "free" => proc'[o].todo = should_run
             /\ Walker(proc'[o]) => OnPlan(proc'[o]) /\ Begun' = Behind(proc'[o])
  <2>1. CASE o # p
    BY <1>1, <1>3, <1>4, <2>1 DEF Walking, WalksThePlan, Free
  <2>2. CASE o = p
    <3>1. r.current => r.todo = should_run
      BY <1>1, <1>4 DEF Walking, WalksThePlan, Free
    <3>2. Walker(s) => Walker(r) /\ r.ok
      BY <1>1, <1>2 DEF Walker
    <3>3. Walker(r) => OnPlan(r) /\ Begun = Behind(r)
      BY <1>4 DEF Walking, WalksThePlan
    <3>4. Walker(s) => OnPlan(s) /\ Behind(s) = {x \in Plan : x < Last[r.at] + 1}
      <4>1. ASSUME Walker(s) PROVE OnPlan(s) /\ Behind(s) = {x \in Plan : x < Last[r.at] + 1}
        <5>1. s = LeaveElement(r, TRUE)
          BY <1>1, <3>2, <4>1
        <5>. QED  BY <1>1, <3>2, <3>3, <4>1, <5>1, WalkType, LeavesBehind
      <4>. QED  BY <4>1
    <3>5. Behind(r) = {x \in Plan : x < Last[r.at] + 1}
      BY <1>1 DEF Behind, StartedTo
    <3>. HIDE DEF s, r
    <3>. QED  BY <1>1, <1>2, <1>3, <2>2, <3>1, <3>2, <3>3, <3>4, <3>5
  <2>. QED  BY <2>1, <2>2
<1>. QED  BY <1>1, <1>4, WalksOn

LEMMA ForkWalks ==
    ASSUME Walking, NEW p \in Procs, NEW c \in Procs, ForkStep(p, c)
    PROVE  WalksThePlan'
<1>. DEFINE r == proc[p]
            w == [r EXCEPT !.pc = "waiting"]
            s == [r EXCEPT !.pc = "start", !.base = r.at, !.sigio = FALSE, !.parent = p]
<1>1. r \in ProcState /\ Walks(r) /\ r.pc = "handler" /\ Kind[r.at] = "fork" /\ c # p
      /\ UNCHANGED <<should_run, backend_pid>> /\ Begun' = Begun
  BY WalkType DEF ForkStep, run_vars, Begun
<1>2. /\ w.pc = "waiting" /\ w.current = r.current /\ w.todo = r.todo
      /\ s.pc = "start" /\ s.current = r.current /\ s.todo = r.todo /\ s.base = r.at
  BY <1>1 DEF ProcState
<1>3. proc'[p] = w /\ proc'[c] = s /\ \A o \in Procs \ {p, c} : proc'[o] = proc[o]
  BY <1>1, WalkType DEF ForkStep
<1>4. ASSUME Backend_exists, NEW o \in Procs
      PROVE  /\ proc'[o].current /\ proc'[o].pc # "free" => proc'[o].todo = should_run
             /\ Walker(proc'[o]) => OnPlan(proc'[o]) /\ Begun' = Behind(proc'[o])
  <2>1. r.current => r.todo = should_run
    BY <1>1, <1>4 DEF Walking, WalksThePlan, Free
  <2>2. CASE o \notin {p, c}
    BY <1>1, <1>3, <1>4, <2>2 DEF Walking, WalksThePlan, Free
  <2>3. CASE o = p
    <3>. HIDE DEF s, w, r
    <3>. QED  BY <1>2, <1>3, <2>1, <2>3 DEF Walker
  <2>4. CASE o = c
    <3>1. r.current => OnPlan(r) /\ Begun = Behind(r)
      BY <1>1, <1>4 DEF Walking, WalksThePlan, Walker
    <3>2. Room(s) = Room(r) /\ Entered(s) = Entered(r) \cup {r.at} /\ StartedTo(s) = StartedTo(r)
      BY <1>1, <1>2 DEF Room, Entered, StartedTo, Around
    <3>3. OnPlan(r) => OnPlan(s) /\ Behind(s) = Behind(r)
      BY <1>1, <3>2 DEF OnPlan, Behind
    <3>. HIDE DEF s, w, r
    <3>. QED  BY <1>1, <1>2, <1>3, <2>1, <2>4, <3>1, <3>3 DEF Walker
  <2>. QED  BY <2>2, <2>3, <2>4
<1>. QED  BY <1>1, <1>4, WalksOn

LEMMA ExitWalks ==
    ASSUME Walking, NEW p \in Procs, exit_process(p)
    PROVE  WalksThePlan'
<1>. DEFINE r == proc[p]
<1>1. r \in ProcState /\ r.pc = "exit" /\ UNCHANGED <<should_run, backend_pid>> /\ Begun' = Begun
  BY WalkType DEF exit_process, Begun
<1>2. /\ proc'[p].pc = (IF p = backend_pid THEN "zombie" ELSE "free")
      /\ p = backend_pid => /\ proc'[p].base = r.base /\ proc'[p].ok = r.ok
                            /\ proc'[p].current = r.current /\ proc'[p].todo = r.todo
      /\ \A c \in Procs \ {p} :
           /\ proc'[c].base = proc[c].base /\ proc'[c].at = proc[c].at
           /\ proc'[c].current = proc[c].current /\ proc'[c].todo = proc[c].todo
           /\ IF Wakes(p, c) THEN proc'[c].pc = "finish" /\ proc'[c].ok = r.ok
              ELSE proc'[c].pc = proc[c].pc /\ proc'[c].ok = proc[c].ok
      /\ \A c \in Procs : Wakes(p, c) => c # p /\ proc'[c].current = r.current /\ proc'[c].at = r.base
  BY ExitLeaves DEF Walking
<1>3. ASSUME Backend_exists, NEW o \in Procs
      PROVE  /\ proc'[o].current /\ proc'[o].pc # "free" => proc'[o].todo = should_run
             /\ Walker(proc'[o]) => OnPlan(proc'[o]) /\ Begun' = Behind(proc'[o])
  <2>1. Walker(r) => OnPlan(r) /\ Begun = Behind(r)
    BY <1>3 DEF Walking, WalksThePlan
  <2>2. \A u \in Procs : proc[u].current /\ proc[u].pc # "free" => proc[u].todo = should_run
    BY <1>3 DEF Walking, WalksThePlan, Free
  <2>3. CASE o = p
    <3>1. CASE p # backend_pid
      BY <1>2, <2>3, <3>1 DEF Walker
    <3>2. CASE p = backend_pid
      <4>1. /\ proc'[p].pc = "zombie" /\ proc'[p].base = r.base /\ proc'[p].ok = r.ok
            /\ proc'[p].current = r.current /\ proc'[p].todo = r.todo
        BY <1>2, <3>2
      <4>2. /\ Room(proc'[p]) = Room(r) /\ Entered(proc'[p]) = Entered(r)
            /\ StartedTo(proc'[p]) = StartedTo(r) /\ (Walker(proc'[p]) => Walker(r))
        BY <1>1, <4>1 DEF Room, Entered, StartedTo, Walker
      <4>3. /\ OnPlan(r) => OnPlan(proc'[p])
            /\ Behind(proc'[p]) = Behind(r)
        BY <4>2 DEF OnPlan, Behind
      <4>4. r.current => r.todo = should_run
        BY <1>1, <2>2
      <4>. QED  BY <1>1, <2>1, <2>3, <4>1, <4>2, <4>3, <4>4
    <3>. QED  BY <3>1, <3>2
  <2>4. CASE o # p /\ Wakes(p, o)
    <3>1. /\ proc'[o].pc = "finish" /\ proc'[o].ok = r.ok /\ proc'[o].at = r.base
          /\ proc'[o].current = r.current /\ proc'[o].todo = proc[o].todo
          /\ proc[o].current = r.current /\ proc[o].pc # "free"
      BY <1>2, <2>4 DEF Wakes
    <3>2. /\ Room(proc'[o]) = Room(r) /\ Entered(proc'[o]) \subseteq Entered(r)
          /\ StartedTo(proc'[o]) = StartedTo(r) /\ (Walker(proc'[o]) => Walker(r))
      BY <1>1, <3>1 DEF Room, Entered, StartedTo, Walker, Around
    <3>3. /\ OnPlan(r) => OnPlan(proc'[o])
          /\ Behind(proc'[o]) = Behind(r)
      BY <3>2 DEF OnPlan, Behind
    <3>4. proc[o].current => proc[o].todo = should_run
      BY <2>2, <3>1
    <3>. QED  BY <1>1, <2>1, <3>1, <3>2, <3>3, <3>4
  <2>5. CASE o # p /\ ~Wakes(p, o)
    <3>1. /\ proc'[o].pc = proc[o].pc /\ proc'[o].ok = proc[o].ok
          /\ proc'[o].at = proc[o].at /\ proc'[o].base = proc[o].base
          /\ proc'[o].current = proc[o].current /\ proc'[o].todo = proc[o].todo
      BY <1>2, <2>5
    <3>2. /\ Room(proc'[o]) = Room(proc[o]) /\ Entered(proc'[o]) = Entered(proc[o])
          /\ StartedTo(proc'[o]) = StartedTo(proc[o]) /\ Walker(proc'[o]) = Walker(proc[o])
      BY <3>1 DEF Room, Entered, StartedTo, Walker
    <3>3. /\ OnPlan(proc'[o]) = OnPlan(proc[o])
          /\ Behind(proc'[o]) = Behind(proc[o])
      BY <3>2 DEF OnPlan, Behind
    <3>4. Walker(proc[o]) => OnPlan(proc[o]) /\ Begun = Behind(proc[o])
      BY <1>3 DEF Walking, WalksThePlan
    <3>. QED  BY <1>1, <2>2, <3>1, <3>2, <3>3, <3>4
  <2>. QED  BY <2>3, <2>4, <2>5
<1>. QED  BY <1>1, <1>3, WalksOn

LEMMA MarkWalks ==
    ASSUME Walking, MarkStep
    PROVE  WalksThePlan'
<1>1. UNCHANGED <<should_run, backend_pid>> /\ Begun' = Begun
  BY DEF MarkStep, Begun
<1>2. ASSUME Backend_exists, NEW o \in Procs
      PROVE  /\ proc'[o].current /\ proc'[o].pc # "free" => proc'[o].todo = should_run
             /\ Walker(proc'[o]) => OnPlan(proc'[o]) /\ Begun' = Behind(proc'[o])
  <2>1. /\ proc'[o].pc = proc[o].pc /\ proc'[o].ok = proc[o].ok
        /\ proc'[o].at = proc[o].at /\ proc'[o].base = proc[o].base
        /\ proc'[o].current = proc[o].current /\ proc'[o].todo = proc[o].todo
    BY DEF MarkStep, SameWalk, SameRun
  <2>2. /\ Room(proc'[o]) = Room(proc[o]) /\ Entered(proc'[o]) = Entered(proc[o])
        /\ StartedTo(proc'[o]) = StartedTo(proc[o]) /\ Walker(proc'[o]) = Walker(proc[o])
    BY <2>1 DEF Room, Entered, StartedTo, Walker
  <2>3. /\ OnPlan(proc'[o]) = OnPlan(proc[o])
        /\ Behind(proc'[o]) = Behind(proc[o])
    BY <2>2 DEF OnPlan, Behind
  <2>. QED  BY <1>1, <1>2, <2>1, <2>2, <2>3 DEF Walking, WalksThePlan, Free
<1>. QED  BY <1>1, <1>2, WalksOn

\* The process a run begins with.
LEMMA BeginsAtRoot ==
    ASSUME Inductive, NEW scheduled, NEW statuses, start_executing(scheduled, statuses)
    PROVE  \E p \in Procs :
             /\ backend_pid' = p /\ should_run' = scheduled /\ started' = <<>>
             /\ to_front' = <<>> /\ to_back' = <<>> /\ run_status' = statuses
             /\ Free(p)
             /\ proc'[p].pc = "start" /\ proc'[p].base = Root /\ proc'[p].current
             /\ proc'[p].todo = scheduled /\ proc'[p].parent = NoProc
             /\ \A o \in Procs \ {p} : proc'[o] = [proc[o] EXCEPT !.current = FALSE]
             /\ \A o \in Procs \ {p} : ~proc'[o].current /\ proc'[o].pc = proc[o].pc
<1>. DEFINE s == [FreeProc EXCEPT !.pc = "start", !.todo = scheduled, !.current = TRUE]
<1>1. PICK p \in Procs :
         /\ Free(p) /\ backend_pid' = p /\ should_run' = scheduled /\ started' = <<>>
         /\ to_front' = <<>> /\ to_back' = <<>> /\ run_status' = statuses
         /\ proc' = [q \in Procs |-> IF q = p THEN s ELSE [proc[q] EXCEPT !.current = FALSE]]
  BY DEF start_executing
<1>2. /\ s.pc = "start" /\ s.base = Root /\ s.current /\ s.todo = scheduled /\ s.parent = NoProc
  BY DEF FreeProc
<1>. HIDE DEF s
<1>3. \A o \in Procs : proc[o] \in ProcState
  BY ProcType
<1>4. \A o \in Procs \ {p} : /\ proc'[o] = [proc[o] EXCEPT !.current = FALSE]
                            /\ ~proc'[o].current /\ proc'[o].pc = proc[o].pc
  BY <1>1, <1>3 DEF ProcState
<1>. QED  BY <1>1, <1>2, <1>4

LEMMA BeginWalks ==
    ASSUME Inductive, BeginStep
    PROVE  WalksThePlan'
<1>1. PICK scheduled \in SUBSET Element, statuses \in [Element -> RunStatus] : start_executing(scheduled, statuses)
  BY DEF BeginStep
<1>2. PICK p \in Procs :
         /\ should_run' = scheduled /\ started' = <<>>
         /\ proc'[p].pc = "start" /\ proc'[p].base = Root /\ proc'[p].todo = scheduled
         /\ \A o \in Procs \ {p} : ~proc'[o].current
  BY <1>1, BeginsAtRoot
<1>3. OnPlan(proc[p])'
  <2>1. Room(proc[p])' = {Root} /\ Entered(proc[p])' = {Root}
    BY <1>2, Order DEF Room, Entered, Around
  <2>2. Kind[Root] # "action"
    BY TreeAssumption, Order
  <2>. QED  BY <2>1, <2>2 DEF OnPlan
<1>4. Begun' = Behind(proc[p])'
  <2>1. Plan' \subseteq Element \ {Root}
    BY <1>2 DEF Plan, Reachable
  <2>2. StartedTo(proc[p])' = 1
    BY <1>2 DEF StartedTo, Root
  <2>3. \A x \in Plan' : ~(x < 1)
    BY <2>1, Positions DEF Root
  <2>4. Begun' = {}
    BY <1>2 DEF Begun
  <2>. QED  BY <2>2, <2>3, <2>4 DEF Behind
<1>. QED  BY <1>2, <1>3, <1>4 DEF WalksThePlan, Walker

LEMMA InitWalking == Init => Walking
<1>. SUFFICES ASSUME Init PROVE Walking
  OBVIOUS
<1>1. Running
  BY InitRunning
<1>2. WalksThePlan
  BY DEF Init, WalksThePlan, Backend_exists
<1>. QED  BY <1>1, <1>2 DEF Walking

LEMMA NextWalking == Walking /\ [Next]_vars => Walking'
<1>. SUFFICES ASSUME Walking, [Next]_vars PROVE Walking'
  OBVIOUS
<1>1. Running'
  BY NextRunning DEF Walking
<1>2. Inductive
  BY WalkType
<1>3. WalksThePlan'
  <2>1. ASSUME NEW p \in Procs, Steps(p) PROVE WalksThePlan'
    BY <2>1, QuietWalks, StartWalks, FinishWalks, ForkWalks, ExitWalks DEF Steps
  <2>2. CASE wait_for_the_backend
    BY <2>2 DEF wait_for_the_backend, WalksThePlan, Backend_exists
  <2>. QED  BY <1>2, <2>1, <2>2, BeginWalks, MarkWalks, AllSteps
<1>. QED  BY <1>1, <1>3 DEF Walking

-----------------------------------------------------------------------------
(***************************************************************************)
(* Unless the user stops a run, a process of it ends only when its own     *)
(* children have, so that nothing is left of the run but the process the   *)
(* frontend waits for when that has died.                                  *)
(***************************************************************************)
Waited(p) == proc[p].parent # NoProc /\ proc[proc[p].parent].pc = "waiting"

NoOrphans ==
    \A p \in Procs :
        proc[p].current /\ ~Free(p) => Backend_exists /\ (p = backend_pid \/ Waited(p))

NoStops == Stops(to_back) = {}

Stopless == Walking /\ NoOrphans /\ NoStops

LEMMA Parents ==
    ASSUME Walking, NEW o \in Procs, proc[o].parent # NoProc
    PROVE  LET w == proc[o].parent
           IN  /\ w \in Procs /\ ~Free(o)
               /\ proc[w].current = proc[o].current
               /\ proc[w].base \in Ancestors[proc[o].base]
               /\ \A u \in Procs : proc[u].parent = w => u = o
<1>1. proc[o].parent \in Procs \cup {NoProc}
  BY WalkType DEF ProcState
<1>. QED  BY <1>1, WalkType DEF Family, ForkedAreWaitedFor

\* A dead backend is all that is left of its run.
LEMMA AloneWhenDead ==
    ASSUME Walking, NoOrphans, Backend_exists, proc[backend_pid].pc = "zombie",
           NEW p \in Procs, proc[p].current, ~Free(p)
    PROVE  p = backend_pid
<1>. DEFINE Others == {o \in Procs : proc[o].current /\ ~Free(o) /\ o # backend_pid}
            T == {proc[o].base : o \in Others}
            Less == OpToRel(<, Nat)
<1>. SUFFICES ASSUME Others # {} PROVE FALSE
  OBVIOUS
<1>1. \A o \in Procs : proc[o].base \in Element /\ proc[o].base \in Nat
  BY WalkType, Positions DEF ProcState
<1>2. T \in SUBSET Nat /\ T # {}
  BY <1>1
<1>3. IsWellFoundedOn(Less, Nat)
  BY NatLessThanWellFounded
<1>. HIDE DEF Less
<1>4. PICK t \in T : \A u \in T : <<u, t>> \notin Less
  BY <1>2, <1>3, WFMin
<1>5. PICK o \in Others : t = proc[o].base
  BY <1>4
<1>6. Waited(o)
  BY <1>5 DEF NoOrphans
<1>. DEFINE w == proc[o].parent
<1>7. w \in Procs /\ proc[w].current /\ proc[w].base \in Ancestors[t] /\ proc[w].pc = "waiting"
  BY <1>5, <1>6, Parents DEF Waited
<1>. HIDE DEF w
<1>8. w \in Others
  BY <1>7 DEF Free
<1>9. proc[w].base < t /\ proc[w].base \in Nat /\ t \in Nat
  BY <1>1, <1>5, <1>7, <1>8, Positions
<1>10. <<proc[w].base, t>> \in Less
  BY <1>9 DEF Less, OpToRel
<1>. QED  BY <1>4, <1>8, <1>10

LEMMA MoveKeepsFamily ==
    ASSUME Walking, NoOrphans, NEW p \in Procs, NEW s, proc' = [proc EXCEPT ![p] = s],
           UNCHANGED backend_pid, proc[p].pc # "free",
           s.current = proc[p].current, s.parent = proc[p].parent,
           proc[p].pc = "waiting" /\ proc[p].current => s.pc = "waiting"
    PROVE  NoOrphans'
<1>1. proc'[p] = s /\ \A o \in Procs \ {p} : proc'[o] = proc[o]
  BY WalkType
<1>2. ASSUME NEW o \in Procs, proc'[o].current, proc'[o].pc # "free"
      PROVE  Backend_exists /\ (o = backend_pid \/ Waited(o)')
  <2>1. proc[o].current /\ ~Free(o) /\ proc'[o].parent = proc[o].parent
    BY <1>1, <1>2 DEF Free
  <2>2. Backend_exists /\ (o = backend_pid \/ Waited(o))
    BY <2>1 DEF NoOrphans
  <2>3. ASSUME Waited(o) PROVE Waited(o)'
    <3>1. /\ proc[o].parent \in Procs /\ proc[proc[o].parent].current
          /\ proc[o].parent # NoProc /\ proc[proc[o].parent].pc = "waiting"
      BY <2>1, <2>3, Parents DEF Waited
    <3>2. proc'[proc[o].parent].pc = "waiting"
      BY <1>1, <3>1
    <3>. QED  BY <2>1, <3>1, <3>2 DEF Waited
  <2>. QED  BY <2>2, <2>3
<1>. QED  BY <1>2 DEF NoOrphans, Backend_exists, Free

LEMMA StepKeepsFamily ==
    ASSUME Stopless, NEW p \in Procs, Steps(p)
    PROVE  NoOrphans'
<1>. DEFINE r == proc[p]
<1>1. Walking /\ NoOrphans /\ Stops(to_back) = {} /\ r \in ProcState
  BY WalkType DEF Stopless, NoStops
<1>2. CASE QuietStep(p)
  <2>1. PICK s \in ProcState :
           /\ proc' = [proc EXCEPT ![p] = s] /\ Quiet(r, s)
           /\ r.pc = "waiting" /\ s.pc = "exit" => ~r.current
    BY <1>1, <1>2 DEF QuietStep
  <2>2. r.pc # "free" /\ UNCHANGED backend_pid
    BY <1>2 DEF QuietStep, run_vars
  <2>3. s.current = r.current /\ s.parent = r.parent
    BY <2>1 DEF Quiet, SameRun
  <2>4. r.pc = "waiting" => s.pc \in {"waiting", "exit"}
    BY <2>1 DEF Quiet
  <2>. HIDE DEF r
  <2>5. r.pc = "waiting" /\ r.current => s.pc = "waiting"
    BY <2>1, <2>4
  <2>. QED  BY <1>1, <2>1, <2>2, <2>3, <2>5, MoveKeepsFamily DEF r
<1>3. CASE StartStep(p)
  <2>. DEFINE s == [r EXCEPT !.pc = "handler"]
  <2>1. /\ proc' = [proc EXCEPT ![p] = s] /\ UNCHANGED backend_pid /\ r.pc = "element"
    BY <1>3 DEF StartStep, run_vars
  <2>2. s.current = r.current /\ s.parent = r.parent
    BY <1>1 DEF ProcState
  <2>. HIDE DEF s
  <2>. QED  BY <1>1, <2>1, <2>2, MoveKeepsFamily
<1>4. CASE FinishStep(p)
  <2>. DEFINE s == LeaveElement(r, r.ok)
  <2>1. /\ proc' = [proc EXCEPT ![p] = s] /\ UNCHANGED backend_pid /\ r.pc = "finish"
    BY <1>4 DEF FinishStep, run_vars
  <2>2. s.current = r.current /\ s.parent = r.parent
    BY <1>1 DEF ProcState, LeaveElement
  <2>. HIDE DEF s
  <2>. QED  BY <1>1, <2>1, <2>2, MoveKeepsFamily
<1>5. ASSUME NEW c \in Procs, ForkStep(p, c) PROVE NoOrphans'
  <2>. DEFINE w == [r EXCEPT !.pc = "waiting"]
              s == [r EXCEPT !.pc = "start", !.base = r.at, !.sigio = FALSE, !.parent = p]
  <2>1. /\ proc'[p] = w /\ proc'[c] = s /\ \A o \in Procs \ {p, c} : proc'[o] = proc[o]
        /\ UNCHANGED backend_pid /\ r.pc = "handler" /\ Free(c) /\ c # p
    BY <1>5, WalkType, <1>1 DEF ForkStep, run_vars
  <2>2. /\ w.pc = "waiting" /\ w.current = r.current /\ w.parent = r.parent
        /\ s.current = r.current /\ s.parent = p
    BY <1>1 DEF ProcState
  <2>. HIDE DEF w, s
  <2>3. p # NoProc
    BY <1>1, WalkType
  <2>4. ASSUME NEW o \in Procs, proc'[o].current, proc'[o].pc # "free"
        PROVE  Backend_exists /\ (o = backend_pid \/ Waited(o)')
    <3>1. CASE o = c
      BY <1>1, <2>1, <2>2, <2>3, <2>4, <3>1 DEF NoOrphans, Waited, Free
    <3>2. CASE o # c
      <4>1. proc[o].current /\ ~Free(o) /\ proc'[o].parent = proc[o].parent
        BY <2>1, <2>2, <2>4, <3>2 DEF Free
      <4>2. Backend_exists /\ (o = backend_pid \/ Waited(o))
        BY <1>1, <4>1 DEF NoOrphans
      <4>3. ASSUME Waited(o) PROVE Waited(o)'
        <5>1. /\ proc[o].parent \in Procs /\ proc[o].parent # NoProc
              /\ proc[proc[o].parent].pc = "waiting"
          BY <1>1, <4>3, Parents DEF Waited
        <5>2. proc[o].parent \notin {p, c}
          BY <2>1, <5>1 DEF Free
        <5>3. proc'[proc[o].parent].pc = "waiting"
          BY <2>1, <5>1, <5>2
        <5>. QED  BY <4>1, <5>1, <5>3 DEF Waited
      <4>. QED  BY <4>2, <4>3
    <3>. QED  BY <3>1, <3>2
  <2>. QED  BY <2>1, <2>4 DEF NoOrphans, Backend_exists, Free
<1>6. CASE exit_process(p)
  <2>1. /\ proc'[p].pc = (IF p = backend_pid THEN "zombie" ELSE "free")
        /\ \A c \in Procs \ {p} :
             /\ proc'[c].current = proc[c].current
             /\ proc'[c].parent = IF proc[c].parent = p THEN NoProc ELSE proc[c].parent
             /\ IF Wakes(p, c) THEN proc'[c].pc = "finish" ELSE proc'[c].pc = proc[c].pc
        /\ p = backend_pid => proc'[p].current = r.current
        /\ UNCHANGED backend_pid /\ r.pc = "exit"
    <3>1. UNCHANGED backend_pid /\ r.pc = "exit"
      BY <1>6 DEF exit_process
    <3>2. Running
      BY <1>1 DEF Walking
    <3>. QED  BY <1>6, <3>1, <3>2, ExitLeaves
  <2>2. ASSUME NEW o \in Procs, proc'[o].current, proc'[o].pc # "free"
        PROVE  Backend_exists /\ (o = backend_pid \/ Waited(o)')
    <3>1. CASE o = p
      <4>1. o = backend_pid
        BY <2>1, <2>2, <3>1
      <4>. QED  BY <4>1, WalkType, <1>1 DEF Backend_exists
    <3>2. CASE o # p
      <4>1. proc[o].current /\ ~Free(o)
        BY <2>1, <2>2, <3>2 DEF Free, Wakes
      <4>2. Backend_exists /\ (o = backend_pid \/ Waited(o))
        BY <1>1, <4>1 DEF NoOrphans
      <4>3. ASSUME Waited(o) PROVE Waited(o)'
        <5>. DEFINE u == proc[o].parent
        <5>1. /\ u \in Procs /\ u # NoProc /\ proc[u].pc = "waiting"
              /\ \A x \in Procs : proc[x].parent = u => x = o
          BY <1>1, <4>3, Parents DEF Waited
        <5>. HIDE DEF u
        <5>2. u # p /\ ~Wakes(p, u)
          BY <2>1, <3>2, <5>1 DEF Wakes
        <5>3. proc'[u].pc = "waiting"
          BY <2>1, <5>1, <5>2
        <5>4. proc'[o].parent = u
          BY <2>1, <3>2, <5>2 DEF u
        <5>. QED  BY <5>1, <5>3, <5>4 DEF Waited
      <4>. QED  BY <4>2, <4>3
    <3>. QED  BY <3>1, <3>2
  <2>. QED  BY <2>1, <2>2 DEF NoOrphans, Backend_exists, Free
<1>. QED  BY <1>2, <1>3, <1>4, <1>5, <1>6 DEF Steps

LEMMA OthersKeepFamily ==
    ASSUME Stopless, BeginStep \/ wait_for_the_backend \/ MarkStep
    PROVE  NoOrphans'
<1>1. Walking /\ NoOrphans /\ Inductive
  BY WalkType DEF Stopless
<1>2. CASE BeginStep
  <2>1. PICK scheduled \in SUBSET Element, statuses \in [Element -> RunStatus] : start_executing(scheduled, statuses)
    BY <1>2 DEF BeginStep
  <2>2. PICK p \in Procs : backend_pid' = p /\ \A o \in Procs \ {p} : ~proc'[o].current
    BY <1>1, <2>1, BeginsAtRoot
  <2>3. p # NoProc
    BY <1>1, WalkType
  <2>. QED  BY <2>2, <2>3 DEF NoOrphans, Backend_exists
<1>3. CASE wait_for_the_backend
  <2>. DEFINE b == backend_pid
  <2>1. /\ b \in Procs /\ proc[b].pc = "zombie" /\ proc' = [proc EXCEPT ![b] = FreeProc]
    BY <1>3 DEF wait_for_the_backend
  <2>2. Backend_exists
    BY <1>1, <2>1, WalkType DEF Backend_exists
  <2>. HIDE DEF b
  <2>3. proc'[b] = FreeProc /\ \A o \in Procs \ {b} : proc'[o] = proc[o]
    BY <1>1, <2>1, WalkType
  <2>4. \A o \in Procs \ {b} : proc[o].current => Free(o)
    BY <1>1, <2>1, <2>2, AloneWhenDead DEF b
  <2>. QED  BY <2>3, <2>4 DEF NoOrphans, Free, FreeProc
<1>4. CASE MarkStep
  <2>1. UNCHANGED backend_pid /\ \A o \in Procs : /\ proc'[o].pc = proc[o].pc
                                                 /\ proc'[o].current = proc[o].current
                                                 /\ proc'[o].parent = proc[o].parent
    BY <1>4 DEF MarkStep, SameWalk, SameRun
  <2>2. \A o \in Procs : Waited(o) => Waited(o)'
    BY <1>1, <2>1, Parents DEF Waited
  <2>. QED  BY <1>1, <2>1, <2>2 DEF NoOrphans, Backend_exists, Free
<1>. QED  BY <1>2, <1>3, <1>4

\* Without 'S' no stop is ever sent.
LEMMA NoStopsSent ==
    ASSUME Inductive, NoStops, "S" \notin Keys, [Next]_vars
    PROVE  NoStops'
<1>1. to_back \in Seq(Command)
  BY DEF Inductive, TypeOK
<1>2. ASSUME to_back' = <<>> PROVE NoStops'
  BY <1>2 DEF NoStops, Stops
<1>3. ASSUME to_back' = to_back PROVE NoStops'
  BY <1>3 DEF NoStops, Stops
<1>4. ASSUME NEW p, NEW next, read_commands(p, next) PROVE to_back' \in {to_back, <<>>}
  BY <1>4 DEF read_commands, NoStops
<1>5. ASSUME NEW p \in Procs, signal_io(p) \/ Backend(p) \/ run_action(p) \/ fatal_backend_error(p)
      PROVE  NoStops'
  BY <1>2, <1>3, <1>4, <1>5 DEF signal_io, Backend, run_action, fatal_backend_error, Start_receiving_sigio,
     begin_children, do_execute_element, run_container, run_fork, finish_element, exit_process, walk_vars
<1>6. ASSUME BeginStep PROVE NoStops'
  <2>1. PICK scheduled \in SUBSET Element, statuses \in [Element -> RunStatus] : start_executing(scheduled, statuses)
    BY <1>6 DEF BeginStep
  <2>. QED  BY <1>2, <2>1, BeginsAtRoot
<1>7. ASSUME pause_key PROVE NoStops'
  <2>1. to_back' = Append(to_back, "CTRL_PAUSE")
    BY <1>7 DEF pause_key, send_command
  <2>2. /\ DOMAIN to_back' = 1 .. Len(to_back) + 1 /\ DOMAIN to_back = 1 .. Len(to_back)
        /\ \A i \in 1 .. Len(to_back) : to_back'[i] = to_back[i]
        /\ to_back'[Len(to_back) + 1] = "CTRL_PAUSE" /\ Len(to_back) \in Nat
    BY <1>1, <2>1 DEF Command
  <2>. QED  BY <2>2 DEF NoStops, Stops
<1>8. CASE UserKey
  <2>1. ~stop_key
    BY DEF stop_key, Pressed
  <2>2. CASE \E all \in BOOLEAN : clear_marks(all)
    BY <1>3, <2>2 DEF clear_marks, mark_vars, socket_vars
  <2>3. ASSUME NEW e \in Cursor, mark_element(e) PROVE NoStops'
    BY <1>3, <2>3 DEF mark_element, mark_vars, socket_vars
  <2>4. ASSUME NEW e \in Cursor, NEW s, change_run_status_marks(e, s) PROVE NoStops'
    BY <1>3, <2>4 DEF change_run_status_marks, socket_vars
  <2>. QED  BY <1>6, <1>7, <1>8, <2>1, <2>2, <2>3, <2>4, BeginSteps DEF UserKey
<1>9. CASE Frontend
  BY <1>3, <1>9 DEF Frontend, handle_ctrl_msg, read_all_messages, wait_for_the_backend, socket_vars
<1>10. CASE UNCHANGED vars
  BY <1>3, <1>10 DEF vars, socket_vars
<1>. QED  BY <1>5, <1>8, <1>9, <1>10 DEF Next

LEMMA InitStopless == Init => Stopless
<1>. SUFFICES ASSUME Init PROVE NoOrphans /\ NoStops
  BY InitWalking DEF Stopless
<1>1. NoOrphans
  BY DEF Init, NoOrphans, Free, FreeProc
<1>2. NoStops
  BY DEF Init, NoStops, Stops
<1>. QED  BY <1>1, <1>2

LEMMA NextStopless ==
    ASSUME "S" \notin Keys
    PROVE  Stopless /\ [Next]_vars => Stopless'
<1>. SUFFICES ASSUME Stopless, [Next]_vars PROVE Stopless'
  OBVIOUS
<1>1. Walking /\ Inductive
  BY WalkType DEF Stopless
<1>2. Walking'
  BY <1>1, NextWalking
<1>3. NoOrphans'
  BY <1>1, AllSteps, StepKeepsFamily, OthersKeepFamily
<1>4. NoStops'
  BY <1>1, NoStopsSent DEF Stopless
<1>. QED  BY <1>2, <1>3, <1>4 DEF Stopless

-----------------------------------------------------------------------------
(***************************************************************************)
(* The refinement, step by step.                                           *)
(***************************************************************************)

LEMMA SameOutcome ==
    ASSUME UNCHANGED <<backend_pid, should_run, started>>,
           Backend_exists =>
              /\ (proc'[backend_pid].pc = "zombie") = (proc[backend_pid].pc = "zombie")
              /\ proc[backend_pid].pc = "zombie" => proc'[backend_pid].ok = proc[backend_pid].ok
    PROVE  UNCHANGED Sequential!vars
<1>1. UNCHANGED Backend_exists /\ UNCHANGED Reachable(should_run)
  BY DEF Backend_exists
<1>2. UNCHANGED Outcome
  BY <1>1 DEF Outcome
<1>. QED  BY <1>1, <1>2 DEF Sequential!vars

\* The first process of a run, as long as the frontend has not waited for it.
LEMMA FirstProcess ==
    ASSUME Walking, Backend_exists
    PROVE  /\ backend_pid \in Procs /\ ~Free(backend_pid)
           /\ proc[backend_pid].current /\ proc[backend_pid].base = Root
BY WalkType DEF Family, FirstIsAtTheRoot, Backend_exists, Inductive, BackendIsThere

LEMMA QuietStutters ==
    ASSUME Walking, NEW p \in Procs, QuietStep(p)
    PROVE  UNCHANGED Sequential!vars
<1>1. PICK s \in ProcState : proc' = [proc EXCEPT ![p] = s] /\ Quiet(proc[p], s)
  BY DEF QuietStep
<1>2. /\ proc[p].pc \notin {"free", "exit", "zombie"} /\ UNCHANGED <<backend_pid, should_run, started>>
  BY DEF QuietStep, run_vars
<1>3. s.pc # "zombie"
  BY <1>1, <1>2 DEF Quiet, EnterChildren, LeaveElement, ProcState
<1>4. proc'[p] = s /\ \A o \in Procs \ {p} : proc'[o] = proc[o]
  BY <1>1, WalkType
<1>5. Backend_exists => backend_pid \in Procs
  BY FirstProcess
<1>. QED  BY <1>2, <1>3, <1>4, <1>5, SameOutcome

LEMMA FinishStutters ==
    ASSUME Walking, NEW p \in Procs, FinishStep(p)
    PROVE  UNCHANGED Sequential!vars
<1>. DEFINE s == LeaveElement(proc[p], proc[p].ok)
<1>1. proc[p] \in ProcState
  BY WalkType
<1>2. proc' = [proc EXCEPT ![p] = s] /\ proc[p].pc = "finish" /\ UNCHANGED <<backend_pid, should_run, started>>
  BY DEF FinishStep, run_vars
<1>3. s.pc # "zombie"
  BY <1>1 DEF LeaveElement, ProcState
<1>. HIDE DEF s
<1>4. proc'[p] = s /\ \A o \in Procs \ {p} : proc'[o] = proc[o]
  BY <1>2, WalkType
<1>5. Backend_exists => backend_pid \in Procs
  BY FirstProcess
<1>. QED  BY <1>2, <1>3, <1>4, <1>5, SameOutcome

LEMMA ForkStutters ==
    ASSUME Walking, NEW p \in Procs, NEW c \in Procs, ForkStep(p, c)
    PROVE  UNCHANGED Sequential!vars
<1>1. proc[p] \in ProcState
  BY WalkType
<1>2. /\ proc'[p] = [proc[p] EXCEPT !.pc = "waiting"] /\ proc[p].pc = "handler" /\ Free(c)
      /\ \A o \in Procs \ {p, c} : proc'[o] = proc[o]
      /\ UNCHANGED <<backend_pid, should_run, started>>
  BY WalkType DEF ForkStep, run_vars
<1>3. proc'[p].pc = "waiting"
  BY <1>1, <1>2 DEF ProcState
<1>4. Backend_exists => backend_pid \in Procs /\ backend_pid # c
  BY <1>2, FirstProcess
<1>. QED  BY <1>2, <1>3, <1>4, SameOutcome

LEMMA MarkStutters ==
    ASSUME Walking, MarkStep
    PROVE  UNCHANGED Sequential!vars
<1>1. UNCHANGED <<backend_pid, should_run, started>>
  BY DEF MarkStep
<1>2. Backend_exists => backend_pid \in Procs
  BY FirstProcess
<1>3. \A o \in Procs : proc'[o].pc = proc[o].pc /\ proc'[o].ok = proc[o].ok
  BY DEF MarkStep, SameWalk
<1>. QED  BY <1>1, <1>2, <1>3, SameOutcome

\* A process of the run starts the next element; one of an earlier run does
\* not do anything to this one.
LEMMA StartRefines ==
    ASSUME Stopless, NEW p \in Procs, StartStep(p)
    PROVE  [Sequential!Next]_Sequential!vars
<1>. DEFINE r == proc[p]
            e == r.at
            s == [r EXCEPT !.pc = "handler"]
<1>1. Walking /\ NoOrphans /\ r \in ProcState
  BY WalkType DEF Stopless
<1>2. r.pc = "element" /\ UNCHANGED <<backend_pid, should_run>>
  BY DEF StartStep, run_vars
<1>3. proc'[p] = s /\ (\A o \in Procs \ {p} : proc'[o] = proc[o]) /\ s.pc = "handler"
  BY <1>1, WalkType DEF StartStep, ProcState
<1>4. Backend_exists => backend_pid \in Procs /\ proc[backend_pid].current
  BY <1>1, FirstProcess
<1>5. CASE r.current
  <2>1. Backend_exists /\ ~Free(p)
    BY <1>1, <1>2, <1>5 DEF NoOrphans, Free
  <2>2. /\ e \in Plan \ Begun
        /\ \A u \in Plan : u < e => u \in Begun
        /\ started' = Append(started, e)
    BY <1>1, <1>5, <2>1, StartsNext
  <2>3. proc[backend_pid].pc # "zombie"
    <3>1. proc[backend_pid].pc = "zombie" => p = backend_pid
      BY <1>1, <1>5, <2>1, AloneWhenDead
    <3>. QED  BY <1>2, <3>1
  <2>4. Outcome = "none" /\ Outcome' = "none"
    <3>1. proc'[backend_pid].pc # "zombie"
      BY <1>3, <1>4, <2>1, <2>3
    <3>2. proc'[backend_pid'].pc # "zombie"
      BY <1>2, <3>1
    <3>. QED  BY <2>3, <3>2 DEF Outcome
  <2>5. e \in Displayed
    BY <1>1, <2>2, WalkType, InPlan DEF Displayed
  <2>6. Sequential!StartTask(e)
    <3>1. Sequential!Started = Begun /\ UNCHANGED Reachable(should_run) /\ UNCHANGED Backend_exists
      BY <1>2 DEF Sequential!Started, Begun, Backend_exists
    <3>. HIDE DEF e
    <3>. QED  BY <2>1, <2>2, <2>4, <3>1 DEF Sequential!StartTask, Plan
  <2>. QED  BY <2>5, <2>6 DEF Sequential!Next
<1>6. CASE ~r.current
  <2>1. started' = started
    BY <1>6 DEF StartStep
  <2>2. Backend_exists => backend_pid \in Procs \ {p}
    BY <1>4, <1>6
  <2>. QED  BY <1>2, <1>3, <2>1, <2>2, SameOutcome
<1>. QED  BY <1>5, <1>6

\* The end of the first process settles the outcome.
LEMMA ExitRefines ==
    ASSUME Walking, NEW p \in Procs, exit_process(p)
    PROVE  [Sequential!Next]_Sequential!vars
<1>. DEFINE r == proc[p]
<1>1. Running /\ r.pc = "exit" /\ UNCHANGED <<backend_pid, should_run, started>> /\ r.ok \in BOOLEAN
  BY WalkType DEF exit_process, Walking, ProcState
<1>2. /\ proc'[p].pc = (IF p = backend_pid THEN "zombie" ELSE "free")
      /\ p = backend_pid => proc'[p].ok = r.ok
      /\ \A c \in Procs \ {p} :
           IF Wakes(p, c) THEN proc'[c].pc = "finish"
           ELSE proc'[c].pc = proc[c].pc /\ proc'[c].ok = proc[c].ok
  BY <1>1, ExitLeaves
<1>3. CASE p = backend_pid
  <2>1. Backend_exists /\ r.current /\ r.base = Root
    BY <1>3, WalkType, FirstProcess DEF Backend_exists
  <2>2. Outcome = "none"
    BY <1>1, <1>3 DEF Outcome
  <2>3. Outcome' = (IF r.ok THEN "success" ELSE "failure")
    <3>1. Backend_exists' /\ backend_pid' = p
      BY <1>1, <1>3, <2>1 DEF Backend_exists
    <3>. QED  BY <1>2, <1>3, <3>1 DEF Outcome
  <2>4. r.ok => Begun = Plan
    <3>1. ASSUME r.ok PROVE Begun = Plan
      <4>1. Walker(r)
        BY <1>1, <2>1, <3>1 DEF Walker
      <4>2. Begun = Behind(r)
        BY <2>1, <4>1 DEF Walking, WalksThePlan
      <4>3. StartedTo(r) = Last[Root] + 1
        BY <1>1, <2>1 DEF StartedTo
      <4>4. \A x \in Plan : x < Last[Root] + 1
        <5>1. Plan \subseteq Element
          BY WalkType, InPlan
        <5>. QED  BY <5>1, Positions
      <4>. QED  BY <4>2, <4>3, <4>4 DEF Behind
    <3>. QED  BY <3>1
  <2>5. Sequential!Started = Begun /\ UNCHANGED Reachable(should_run) /\ UNCHANGED Backend_exists
    BY <1>1 DEF Sequential!Started, Begun, Backend_exists
  <2>6. Sequential!Finish
    BY <1>1, <2>1, <2>2, <2>3, <2>4, <2>5 DEF Sequential!Finish, Plan
  <2>. QED  BY <2>6 DEF Sequential!Next
<1>4. CASE p # backend_pid
  <2>1. Backend_exists => backend_pid \in Procs /\ proc[backend_pid].pc # "free"
    BY FirstProcess DEF Free
  <2>2. Backend_exists =>
          /\ (proc'[backend_pid].pc = "zombie") = (proc[backend_pid].pc = "zombie")
          /\ proc[backend_pid].pc = "zombie" => proc'[backend_pid].ok = proc[backend_pid].ok
    BY <1>2, <1>4, <2>1 DEF Wakes
  <2>. QED  BY <1>1, <2>2, SameOutcome
<1>. QED  BY <1>3, <1>4

LEMMA BeginRefines ==
    ASSUME Walking, BeginStep
    PROVE  Sequential!Begin
<1>1. PICK scheduled \in SUBSET Element, statuses \in [Element -> RunStatus] : start_executing(scheduled, statuses)
  BY DEF BeginStep
<1>2. PICK p \in Procs : /\ backend_pid' = p /\ should_run' = scheduled /\ started' = <<>>
                         /\ proc'[p].pc = "start"
  BY <1>1, WalkType, BeginsAtRoot
<1>3. ~Backend_exists /\ Backend_exists'
  BY <1>2, WalkType DEF BeginStep, Backend_exists
<1>4. Outcome = "none" /\ Outcome' = "none"
  BY <1>2, <1>3 DEF Outcome
<1>5. Reachable(should_run)' \in SUBSET Displayed
  BY <1>2 DEF Reachable, Displayed
<1>. QED  BY <1>2, <1>3, <1>4, <1>5 DEF Sequential!Begin

LEMMA CollectRefines ==
    ASSUME Walking, wait_for_the_backend
    PROVE  Sequential!Collect
<1>1. /\ backend_pid \in Procs /\ proc[backend_pid].pc = "zombie"
      /\ backend_pid' = NoProc /\ should_run' = {} /\ started' = started
  BY DEF wait_for_the_backend
<1>2. Backend_exists /\ ~Backend_exists'
  BY <1>1, WalkType DEF Backend_exists
<1>3. Outcome # "none" /\ Outcome' = "none"
  BY <1>1, <1>2 DEF Outcome
<1>4. Reachable(should_run)' = {}
  BY <1>1 DEF Reachable
<1>. QED  BY <1>1, <1>2, <1>3, <1>4 DEF Sequential!Collect

LEMMA InitRefines == Init => Sequential!Init
<1>. SUFFICES ASSUME Init PROVE Sequential!Init
  OBVIOUS
<1>1. ~Backend_exists /\ Reachable(should_run) = {} /\ started = <<>>
  BY DEF Init, Backend_exists, Reachable
<1>2. Outcome = "none"
  BY <1>1 DEF Outcome
<1>. QED  BY <1>1, <1>2 DEF Sequential!Init

LEMMA NextRefines == Stopless /\ [Next]_vars => [Sequential!Next]_Sequential!vars
<1>. SUFFICES ASSUME Stopless, [Next]_vars PROVE [Sequential!Next]_Sequential!vars
  OBVIOUS
<1>1. Walking /\ Inductive
  BY WalkType DEF Stopless
<1>2. ASSUME NEW p \in Procs, Steps(p) PROVE [Sequential!Next]_Sequential!vars
  BY <1>1, <1>2, QuietStutters, StartRefines, FinishStutters, ForkStutters, ExitRefines DEF Steps
<1>3. BeginStep => Sequential!Next
  BY <1>1, BeginRefines DEF Sequential!Next
<1>4. wait_for_the_backend => Sequential!Next
  BY <1>1, CollectRefines DEF Sequential!Next
<1>5. MarkStep => UNCHANGED Sequential!vars
  BY <1>1, MarkStutters
<1>. QED  BY <1>1, <1>2, <1>3, <1>4, <1>5, AllSteps

\* Unless the user presses 'S', whatever the tree, and however many processes
\* stages fork, fail in or are killed in: what the backend executes is what
\* was planned, element by element in document order, and its first process
\* ends with status 0 only when all of it was started.
THEOREM RunsSequentially ==
    ASSUME "S" \notin Keys
    PROVE  Spec => IsSequentialRun
<1>1. Stopless /\ [Next]_vars => Stopless'
  BY NextStopless
<1>. QED  BY <1>1, InitStopless, InitRefines, NextRefines, PTL
          DEF Spec, IsSequentialRun, Sequential!Spec

-----------------------------------------------------------------------------
(***************************************************************************)
(* A successful run leaves no action behind.                               *)
(***************************************************************************)

\* Below an action there is nothing that can run: what the syntax has there
\* are its parameters.
ActionsHoldParameters ==
    \A e \in Element : Kind[e] = "action" => \A d \in Subtree[e] \ {e} : ~Can_run(d)

\* e is done once the messages of q are read: its end is the last word about it.
Done(rs, q, e) ==
    \/ \E i \in 1 .. Len(q) :
          /\ q[i].el = e /\ q[i].type = "ELEMENT_ENDED"
          /\ \A j \in 1 .. Len(q) : i < j => q[j].el # e
    \/ rs[e] = "DONE" /\ \A j \in 1 .. Len(q) : q[j].el # e

\* The actions r has behind it, but for the one it is executing.
Finished(r) ==
    {e \in Behind(r) : Kind[e] = "action" /\ ~(r.pc \in {"handler", "finish"} /\ e = r.at)}

AllDone ==
    Backend_exists =>
        \A p \in Procs : Walker(proc[p]) =>
            \A e \in Finished(proc[p]) : Done(run_status, to_front, e)

LEMMA DoneWhenSent ==
    ASSUME NEW rs, NEW q \in Seq(FrontMessage), NEW m \in FrontMessage, NEW e,
           \/ m.el = e /\ m.type = "ELEMENT_ENDED"
           \/ m.el # e /\ Done(rs, q, e)
    PROVE  Done(rs, Append(q, m), e)
<1>. DEFINE longer == Append(q, m)
<1>1. /\ Len(q) \in Nat /\ Len(longer) = Len(q) + 1 /\ longer[Len(q) + 1] = m
      /\ \A i \in 1 .. Len(q) : longer[i] = q[i]
  BY LenProperties
<1>. HIDE DEF longer
<1>. SUFFICES Done(rs, longer, e)
  BY DEF longer
<1>2. CASE m.el = e /\ m.type = "ELEMENT_ENDED"
  <2>1. Len(q) + 1 \in 1 .. Len(longer) /\ \A j \in 1 .. Len(longer) : ~(Len(q) + 1 < j)
    BY <1>1
  <2>. QED  BY <1>1, <1>2, <2>1 DEF Done
<1>3. ASSUME m.el # e, NEW i \in 1 .. Len(q), q[i].el = e, q[i].type = "ELEMENT_ENDED",
             \A j \in 1 .. Len(q) : i < j => q[j].el # e
      PROVE  Done(rs, longer, e)
  <2>1. i \in 1 .. Len(longer) /\ longer[i] = q[i]
    BY <1>1
  <2>2. ASSUME NEW j \in 1 .. Len(longer), i < j PROVE longer[j].el # e
    <3>1. j \in 1 .. Len(q) \/ j = Len(q) + 1
      BY <1>1
    <3>. QED  BY <1>1, <1>3, <2>2, <3>1
  <2>. QED  BY <1>3, <2>1, <2>2 DEF Done
<1>4. ASSUME m.el # e, rs[e] = "DONE", \A j \in 1 .. Len(q) : q[j].el # e
      PROVE  Done(rs, longer, e)
  <2>1. ASSUME NEW j \in 1 .. Len(longer) PROVE longer[j].el # e
    <3>1. j \in 1 .. Len(q) \/ j = Len(q) + 1
      BY <1>1
    <3>. QED  BY <1>1, <1>4, <3>1
  <2>. QED  BY <1>4, <2>1 DEF Done
<1>. QED  BY <1>2, <1>3, <1>4 DEF Done

\* The end of an action makes it done.
LEMMA ActionStatus ==
    ASSUME ActionsHoldParameters, NEW rs, NEW e \in Element, Kind[e] = "action"
    PROVE  get_element_status(rs, e) = "DONE"
<1>1. ASSUME NEW c \in Children[e] PROVE ~Can_run(c)
  <2>1. c \in Element /\ e \in Ancestors[c] /\ e < c
    BY <1>1, ChildrenBelow DEF Displayed
  <2>2. c \in Subtree[e] \ {e}
    BY <2>1, Order, Positions
  <2>. QED  BY <2>2 DEF ActionsHoldParameters
<1>2. \A s : ~has_child_with_run_status(rs, e, s)
  BY <1>1 DEF has_child_with_run_status
<1>. QED  BY <1>2 DEF get_element_status

LEMMA DoneWhenRead ==
    ASSUME Inductive, ActionsHoldParameters, handle_ctrl_msg,
           NEW e \in Element, Kind[e] = "action", Done(run_status, to_front, e)
    PROVE  Done(run_status', to_front', e)
<1>. DEFINE q == to_front
            m == q[1]
            t == Tail(q)
<1>1. /\ q \in Seq(FrontMessage) /\ Len(q) \in Nat \ {0} /\ to_front' = t
      /\ run_status \in [Element -> RunStatus]
  BY MessageHandled, ProcType
<1>2. /\ Len(t) = Len(q) - 1
      /\ \A j \in 1 .. Len(t) : t[j] = q[j + 1] /\ j + 1 \in 1 .. Len(q)
  <2>1. Len(t) = Len(q) - 1 /\ \A j \in 1 .. Len(t) : t[j] = q[j + 1]
    BY <1>1, EmptySeq, HeadTailProperties, LenProperties
  <2>. QED  BY <1>1, <2>1
<1>3. m.el # e => run_status'[e] = run_status[e]
  BY <1>1, MessageHandled DEF element_started, element_ended, element_failed, set_run_status
<1>4. m.el = e /\ m.type = "ELEMENT_ENDED" => run_status'[e] = "DONE"
  <2>1. ASSUME m.el = e, m.type = "ELEMENT_ENDED" PROVE run_status'[e] = "DONE"
    <3>1. element_ended(e)
      BY <2>1, MessageHandled
    <3>2. Can_run(e)
      BY DEF Can_run
    <3>3. get_element_status(run_status, e) = "DONE"
      BY ActionStatus
    <3>. QED  BY <1>1, <3>1, <3>2, <3>3 DEF element_ended, set_run_status
  <2>. QED  BY <2>1
<1>. HIDE DEF t, m
<1>. SUFFICES Done(run_status', t, e)
  BY <1>1
<1>5. ASSUME NEW i \in 1 .. Len(q), q[i].el = e, q[i].type = "ELEMENT_ENDED",
             \A j \in 1 .. Len(q) : i < j => q[j].el # e
      PROVE  Done(run_status', t, e)
  <2>1. CASE i = 1
    <3>1. run_status'[e] = "DONE"
      BY <1>4, <1>5, <2>1 DEF m
    <3>2. ASSUME NEW j \in 1 .. Len(t) PROVE t[j].el # e
      <4>1. j + 1 \in 1 .. Len(q) /\ i < j + 1 /\ t[j] = q[j + 1]
        BY <1>1, <1>2, <2>1
      <4>. QED  BY <1>5, <4>1
    <3>. QED  BY <3>1, <3>2 DEF Done
  <2>2. CASE i # 1
    <3>1. i - 1 \in 1 .. Len(t) /\ t[i - 1] = q[i]
      <4>1. i - 1 \in 1 .. Len(t) /\ (i - 1) + 1 = i
        BY <1>1, <1>2, <2>2
      <4>. QED  BY <1>2, <4>1
    <3>2. ASSUME NEW j \in 1 .. Len(t), i - 1 < j PROVE t[j].el # e
      <4>1. j + 1 \in 1 .. Len(q) /\ i < j + 1 /\ t[j] = q[j + 1]
        BY <1>1, <1>2, <3>2
      <4>. QED  BY <1>5, <4>1
    <3>. QED  BY <1>5, <3>1, <3>2 DEF Done
  <2>. QED  BY <2>1, <2>2
<1>6. ASSUME run_status[e] = "DONE", \A j \in 1 .. Len(q) : q[j].el # e
      PROVE  Done(run_status', t, e)
  <2>1. m.el # e
    <3>1. 1 \in 1 .. Len(q)
      BY <1>1
    <3>. QED  BY <1>6, <3>1 DEF m
  <2>2. \A j \in 1 .. Len(t) : t[j].el # e
    BY <1>2, <1>6
  <2>. QED  BY <1>3, <1>6, <2>1, <2>2 DEF Done
<1>. QED  BY <1>5, <1>6 DEF Done

\* 'm' leaves the planned actions alone.
LEMMA DoneWhenMarked ==
    ASSUME Inductive, ActionsHoldParameters, NEW x \in Cursor, NEW s \in {"DONE", "FAILED", "NONE"},
           change_run_status_marks(x, s), NEW e \in Plan, Kind[e] = "action"
    PROVE  run_status'[e] = run_status[e]
<1>1. /\ x \in Displayed /\ x \in Element /\ s \in RunStatus /\ Can_run(x) /\ x \notin should_run
      /\ run_status' = ChangedStatuses(run_status, x, s)
      /\ run_status \in [Element -> RunStatus] /\ e \in Element
  <2>1. should_run \subseteq Element /\ run_status \in [Element -> RunStatus]
    BY DEF Inductive, TypeOK
  <2>. QED  BY <2>1, ExecutionAssumption, InPlan DEF change_run_status_marks, RunStatus, Displayed
<1>2. e \notin Subtree[x]
  <2>1. x \notin Around(e)
    BY <1>1, InPlan DEF Displayed
  <2>. QED  BY <1>1, <2>1, Order DEF Around
<1>3. e \notin Ancestors[x]
  <2>1. e \in Ancestors[x] => x \in Subtree[e] \ {e}
    BY <1>1, Order
  <2>. QED  BY <1>1, <2>1 DEF ActionsHoldParameters
<1>4. run_status'[e] = ChangedStatus(run_status, x, s, run_status', e)
  BY <1>1, ChangedStatusesAre
<1>. QED  BY <1>2, <1>3, <1>4 DEF ChangedStatus

LEMMA AllDoneStill ==
    ASSUME UNCHANGED <<should_run, backend_pid>>,
           ASSUME Backend_exists, NEW p \in Procs, Walker(proc'[p]), NEW e \in Finished(proc'[p])
           PROVE  Done(run_status', to_front', e)
    PROVE  AllDone'
<1>1. Backend_exists' = Backend_exists /\ Plan' = Plan
  BY DEF Backend_exists, Plan
<1>2. \A p \in Procs : Walker(proc[p])' = Walker(proc'[p]) /\ Finished(proc[p])' = Finished(proc'[p])
  BY <1>1 DEF Walker, Finished, Behind, StartedTo
<1>. QED  BY <1>1, <1>2 DEF AllDone

Completing == Walking /\ AllDone

LEMMA FinishedOf ==
    ASSUME NEW r, NEW e
    PROVE  e \in Finished(r) <=> /\ e \in Behind(r) /\ Kind[e] = "action"
                                 /\ ~(r.pc \in {"handler", "finish"} /\ e = r.at)
BY DEF Finished

LEMMA QuietDone ==
    ASSUME Completing, NEW p \in Procs, QuietStep(p)
    PROVE  AllDone'
<1>. DEFINE r == proc[p]
<1>1. PICK s \in ProcState : proc' = [proc EXCEPT ![p] = s] /\ Quiet(r, s)
  BY DEF QuietStep
<1>2. /\ r.pc \notin {"free", "exit", "zombie"}
      /\ UNCHANGED <<should_run, backend_pid, run_status, to_front>>
  BY DEF QuietStep, run_vars
<1>3. Walking /\ r \in ProcState /\ Walks(r) /\ should_run \subseteq Element
  BY WalkType DEF Completing
<1>4. proc'[p] = s /\ \A o \in Procs \ {p} : proc'[o] = proc[o]
  BY <1>1, <1>3, WalkType
<1>5. ASSUME Backend_exists, Walker(s), NEW e \in Finished(s) PROVE Done(run_status, to_front, e)
  <2>1. Walker(r) /\ r.todo = should_run /\ OnPlan(r)
    <3>1. Walker(r) /\ r.current
      BY <1>1, <1>2, <1>3, <1>5, QuietBehind DEF Walker
    <3>. QED  BY <1>2, <1>3, <1>5, <3>1 DEF Walking, WalksThePlan, Free
  <2>2. Behind(s) = Behind(r)
    BY <1>1, <1>2, <1>3, <1>5, <2>1, QuietBehind
  <2>3. e \in Behind(r) /\ Kind[e] = "action" /\ ~(s.pc \in {"handler", "finish"} /\ e = s.at)
    BY <1>5, <2>2, FinishedOf
  <2>4. ~(r.pc \in {"handler", "finish"} /\ e = r.at)
    <3>1. ASSUME r.pc \in {"handler", "finish"}, e = r.at PROVE FALSE
      <4>1. s.pc \in {"handler", "finish"} /\ s.at = r.at
        BY <1>1, <1>5, <2>3, <3>1 DEF Quiet, Walker
      <4>. QED  BY <2>3, <3>1, <4>1
    <3>. QED  BY <3>1
  <2>5. e \in Finished(r)
    BY <2>3, <2>4, FinishedOf
  <2>. QED  BY <1>5, <2>1, <2>5 DEF Completing, AllDone
<1>6. ASSUME Backend_exists, NEW o \in Procs, Walker(proc'[o]), NEW e \in Finished(proc'[o])
      PROVE  Done(run_status', to_front', e)
  <2>1. CASE o = p
    BY <1>2, <1>4, <1>5, <1>6, <2>1
  <2>2. CASE o # p
    BY <1>2, <1>4, <1>6, <2>2 DEF Completing, AllDone
  <2>. QED  BY <2>1, <2>2
<1>. QED  BY <1>2, <1>6, AllDoneStill

LEMMA StartDone ==
    ASSUME Completing, NEW p \in Procs, StartStep(p)
    PROVE  AllDone'
<1>. DEFINE r == proc[p]
            s == [r EXCEPT !.pc = "handler"]
            m == [type |-> "ELEMENT_STARTED", el |-> r.at]
<1>1. Walking /\ r \in ProcState /\ r.pc = "element" /\ UNCHANGED <<should_run, backend_pid, run_status>>
      /\ r.at \in Element
  BY WalkType DEF Completing, StartStep, run_vars, ProcState
<1>2. s.pc = "handler" /\ s.at = r.at /\ s.current = r.current
  BY <1>1 DEF ProcState
<1>3. proc'[p] = s /\ \A o \in Procs \ {p} : proc'[o] = proc[o]
  BY <1>1, WalkType DEF StartStep
<1>4. to_front' = IF r.current THEN Append(to_front, m) ELSE to_front
  BY DEF StartStep
<1>5. m \in FrontMessage /\ m.el = r.at /\ to_front \in Seq(FrontMessage)
  BY <1>1, WalkType, ProcType DEF FrontMessage
<1>. HIDE DEF s, m
<1>6. ASSUME Backend_exists, NEW o \in Procs, Walker(proc'[o]), NEW e \in Finished(proc'[o])
      PROVE  Done(run_status', to_front', e)
  <2>1. CASE o # p
    <3>1. Walker(proc[o]) /\ e \in Finished(proc[o])
      BY <1>3, <1>6, <2>1
    <3>2. ~r.current
      BY <1>1, <2>1, <3>1, WalkType DEF Walker
    <3>. QED  BY <1>1, <1>4, <1>6, <3>1, <3>2 DEF Completing, AllDone
  <2>2. CASE o = p
    <3>1. r.current /\ Walker(r)
      BY <1>1, <1>2, <1>3, <1>6, <2>2 DEF Walker
    <3>2. e \in Behind(s) /\ Kind[e] = "action" /\ e # r.at
      BY <1>2, <1>3, <1>6, <2>2, FinishedOf
    <3>3. Behind(s) = {x \in Plan : x < r.at + 1}
      BY <1>2 DEF Behind, StartedTo
    <3>4. e \in Plan /\ e < r.at + 1 /\ e \in Nat /\ r.at \in Nat
      <4>1. e \in Element
        BY <1>1, <3>2, <3>3, WalkType, InPlan
      <4>. QED  BY <1>1, <3>2, <3>3, <4>1, Positions
    <3>5. e \in Behind(r)
      BY <1>1, <3>2, <3>4 DEF Behind, StartedTo
    <3>6. e \in Finished(r)
      BY <1>1, <3>2, <3>5, FinishedOf
    <3>7. Done(run_status, to_front, e)
      BY <1>6, <3>1, <3>6 DEF Completing, AllDone
    <3>8. Done(run_status, Append(to_front, m), e)
      BY <1>5, <3>2, <3>7, DoneWhenSent
    <3>. QED  BY <1>1, <1>4, <3>1, <3>8
  <2>. QED  BY <2>1, <2>2
<1>. QED  BY <1>1, <1>6, AllDoneStill

LEMMA FinishDone ==
    ASSUME Completing, NEW p \in Procs, FinishStep(p)
    PROVE  AllDone'
<1>. DEFINE r == proc[p]
            s == LeaveElement(r, r.ok)
            m == [type |-> IF r.ok THEN "ELEMENT_ENDED" ELSE "ELEMENT_FAILED", el |-> r.at]
<1>1. /\ Walking /\ r \in ProcState /\ Walks(r) /\ r.pc = "finish"
      /\ UNCHANGED <<should_run, backend_pid, run_status>>
      /\ r.at \in Element /\ r.ok \in BOOLEAN /\ should_run \subseteq Element
  BY WalkType DEF Completing, FinishStep, run_vars, ProcState
<1>2. s.current = r.current /\ (~r.ok => s.pc \in {"finish", "exit"} /\ ~s.ok)
  BY <1>1 DEF LeaveElement, ProcState
<1>3. proc'[p] = s /\ \A o \in Procs \ {p} : proc'[o] = proc[o]
  BY <1>1, WalkType DEF FinishStep
<1>4. to_front' = IF r.current THEN Append(to_front, m) ELSE to_front
  BY DEF FinishStep
<1>5. m \in FrontMessage /\ m.el = r.at /\ (r.ok => m.type = "ELEMENT_ENDED")
  BY <1>1 DEF FrontMessage
<1>. HIDE DEF m
<1>6. ASSUME Backend_exists, NEW o \in Procs, Walker(proc'[o]), NEW e \in Finished(proc'[o])
      PROVE  Done(run_status', to_front', e)
  <2>1. CASE o # p
    <3>1. Walker(proc[o]) /\ e \in Finished(proc[o]) /\ Done(run_status, to_front, e)
      BY <1>3, <1>6, <2>1 DEF Completing, AllDone
    <3>2. r.current => Holds(r, proc[o])
      <4>1. r.current => Inside(r)
        BY <1>1 DEF Inside
      <4>. QED  BY <1>1, <2>1, <3>1, <4>1, OneWalker DEF Walking, Running, Family
    <3>3. r.current => m.el # e
      <4>1. proc[o] \in ProcState /\ Walks(proc[o]) /\ OnPlan(proc[o])
        BY <1>1, <1>6, <3>1, WalkType DEF Walking, WalksThePlan
      <4>2. Around(proc[o].base) \subseteq Entered(proc[o])
        BY <4>1, RoomHasBase DEF Entered
      <4>3. r.current => Kind[r.at] # "action"
        BY <3>2, <4>1, <4>2 DEF Holds, OnPlan
      <4>. QED  BY <1>5, <3>1, <4>3, FinishedOf
    <3>4. to_front \in Seq(FrontMessage)
      BY <1>1, WalkType, ProcType
    <3>5. CASE r.current
      <4>1. Done(run_status, Append(to_front, m), e)
        BY <1>5, <3>1, <3>3, <3>4, <3>5, DoneWhenSent
      <4>. QED  BY <1>1, <1>4, <3>5, <4>1
    <3>6. CASE ~r.current
      BY <1>1, <1>4, <3>1, <3>6
    <3>. QED  BY <3>5, <3>6
  <2>2. CASE o = p
    <3>1. Walker(s) /\ e \in Finished(s)
      BY <1>3, <1>6, <2>2
    <3>2. r.ok /\ r.current /\ Walker(r)
      BY <1>1, <1>2, <3>1 DEF Walker
    <3>3. OnPlan(r)
      BY <1>1, <1>6, <3>2 DEF Walking, WalksThePlan
    <3>4. Behind(s) = Behind(r)
      <4>1. s = LeaveElement(r, TRUE)
        BY <1>1, <3>2
      <4>2. Behind(s) = {x \in Plan : x < Last[r.at] + 1}
        BY <1>1, <3>3, <4>1, LeavesBehind
      <4>. QED  BY <1>1, <4>2 DEF Behind, StartedTo
    <3>5. e \in Behind(r) /\ Kind[e] = "action"
      BY <3>1, <3>4, FinishedOf
    <3>6. CASE e = r.at
      <4>1. Done(run_status, Append(to_front, m), e)
        BY <1>5, <3>2, <3>6, DoneWhenSent, <1>1, WalkType, ProcType
      <4>. QED  BY <1>1, <1>4, <3>2, <4>1
    <3>7. CASE e # r.at
      <4>1. e \in Finished(r)
        BY <3>5, <3>7, FinishedOf
      <4>2. Done(run_status, to_front, e)
        BY <1>6, <3>2, <4>1 DEF Completing, AllDone
      <4>3. Done(run_status, Append(to_front, m), e)
        BY <1>5, <3>7, <4>2, DoneWhenSent, <1>1, WalkType, ProcType
      <4>. QED  BY <1>1, <1>4, <3>2, <4>3
    <3>. QED  BY <3>6, <3>7
  <2>. QED  BY <2>1, <2>2
<1>. QED  BY <1>1, <1>6, AllDoneStill

LEMMA ForkDone ==
    ASSUME Completing, NEW p \in Procs, NEW c \in Procs, ForkStep(p, c)
    PROVE  AllDone'
<1>. DEFINE r == proc[p]
            w == [r EXCEPT !.pc = "waiting"]
            s == [r EXCEPT !.pc = "start", !.base = r.at, !.sigio = FALSE, !.parent = p]
<1>1. /\ Walking /\ r \in ProcState /\ r.pc = "handler" /\ Kind[r.at] = "fork" /\ c # p
      /\ UNCHANGED <<should_run, backend_pid, run_status, to_front>>
  BY WalkType DEF Completing, ForkStep, run_vars
<1>2. w.pc = "waiting" /\ s.pc = "start" /\ s.current = r.current /\ s.base = r.at
  BY <1>1 DEF ProcState
<1>3. proc'[p] = w /\ proc'[c] = s /\ \A o \in Procs \ {p, c} : proc'[o] = proc[o]
  BY <1>1, WalkType DEF ForkStep
<1>. HIDE DEF w, s
<1>4. ASSUME Backend_exists, NEW o \in Procs, Walker(proc'[o]), NEW e \in Finished(proc'[o])
      PROVE  Done(run_status', to_front', e)
  <2>1. o # p
    BY <1>2, <1>3, <1>4 DEF Walker
  <2>2. CASE o # c
    BY <1>1, <1>3, <1>4, <2>1, <2>2 DEF Completing, AllDone
  <2>3. CASE o = c
    <3>1. Walker(r)
      BY <1>1, <1>2, <1>3, <1>4, <2>3 DEF Walker
    <3>2. Behind(s) = Behind(r)
      BY <1>1, <1>2 DEF Behind, StartedTo
    <3>3. e \in Finished(r)
      BY <1>1, <1>3, <1>4, <2>3, <3>2, FinishedOf
    <3>. QED  BY <1>1, <1>4, <3>1, <3>3 DEF Completing, AllDone
  <2>. QED  BY <2>2, <2>3
<1>. QED  BY <1>1, <1>4, AllDoneStill

LEMMA ExitDone ==
    ASSUME Completing, NEW p \in Procs, exit_process(p)
    PROVE  AllDone'
<1>. DEFINE r == proc[p]
<1>1. /\ Running /\ r \in ProcState /\ r.pc = "exit"
      /\ UNCHANGED <<should_run, backend_pid, run_status, to_front>>
  BY WalkType DEF Completing, Walking, exit_process
<1>2. /\ proc'[p].pc = (IF p = backend_pid THEN "zombie" ELSE "free")
      /\ p = backend_pid => /\ proc'[p].base = r.base /\ proc'[p].ok = r.ok
                            /\ proc'[p].current = r.current
      /\ \A c \in Procs \ {p} :
           /\ proc'[c].base = proc[c].base /\ proc'[c].at = proc[c].at
           /\ proc'[c].current = proc[c].current
           /\ IF Wakes(p, c) THEN proc'[c].pc = "finish" /\ proc'[c].ok = r.ok
              ELSE proc'[c].pc = proc[c].pc /\ proc'[c].ok = proc[c].ok
      /\ \A c \in Procs : Wakes(p, c) => proc'[c].current = r.current /\ proc'[c].at = r.base
  BY <1>1, ExitLeaves
<1>3. ASSUME Backend_exists, NEW o \in Procs, Walker(proc'[o]), NEW e \in Finished(proc'[o])
      PROVE  Done(run_status', to_front', e)
  <2>1. e \in Behind(proc'[o]) /\ Kind[e] = "action"
    BY <1>3, FinishedOf
  <2>2. CASE o = p \/ Wakes(p, o)
    <3>1. Walker(r) /\ StartedTo(proc'[o]) = StartedTo(r)
      <4>1. CASE o = p
        BY <1>1, <1>2, <1>3, <4>1 DEF Walker, StartedTo
      <4>2. CASE o # p
        BY <1>1, <1>2, <1>3, <2>2, <4>2 DEF Walker, StartedTo
      <4>. QED  BY <4>1, <4>2
    <3>2. e \in Behind(r)
      BY <2>1, <3>1 DEF Behind
    <3>3. e \in Finished(r)
      BY <1>1, <2>1, <3>2, FinishedOf
    <3>. QED  BY <1>1, <1>3, <3>1, <3>3 DEF Completing, AllDone
  <2>3. CASE o # p /\ ~Wakes(p, o)
    <3>1. /\ proc'[o].pc = proc[o].pc /\ proc'[o].ok = proc[o].ok
          /\ proc'[o].at = proc[o].at /\ proc'[o].base = proc[o].base
          /\ proc'[o].current = proc[o].current
      BY <1>2, <2>3
    <3>2. Walker(proc[o]) /\ e \in Finished(proc[o])
      BY <1>3, <3>1 DEF Walker, Finished, Behind, StartedTo
    <3>. QED  BY <1>1, <1>3, <3>2 DEF Completing, AllDone
  <2>. QED  BY <2>2, <2>3
<1>. QED  BY <1>1, <1>3, AllDoneStill

LEMMA MarkDone ==
    ASSUME ActionsHoldParameters, Completing, MarkStep
    PROVE  AllDone'
<1>1. UNCHANGED <<should_run, backend_pid>> /\ Walking /\ Inductive
  BY WalkType DEF MarkStep, Completing
<1>2. ASSUME Backend_exists, NEW o \in Procs, Walker(proc'[o]), NEW e \in Finished(proc'[o])
      PROVE  Done(run_status', to_front', e)
  <2>1. /\ proc'[o].pc = proc[o].pc /\ proc'[o].ok = proc[o].ok
        /\ proc'[o].at = proc[o].at /\ proc'[o].base = proc[o].base
        /\ proc'[o].current = proc[o].current
    BY DEF MarkStep, SameWalk, SameRun
  <2>2. Walker(proc[o]) /\ e \in Finished(proc[o])
    BY <1>2, <2>1 DEF Walker, Finished, Behind, StartedTo
  <2>3. Done(run_status, to_front, e) /\ e \in Plan /\ e \in Element /\ Kind[e] = "action"
    <3>1. Done(run_status, to_front, e)
      BY <1>2, <2>2 DEF Completing, AllDone
    <3>2. e \in Plan /\ Kind[e] = "action"
      BY <2>2 DEF Finished, Behind
    <3>. QED  BY <1>1, <3>1, <3>2, WalkType, InPlan
  <2>4. CASE UNCHANGED <<run_status, to_front>>
    BY <2>3, <2>4
  <2>5. CASE handle_ctrl_msg
    BY <1>1, <2>3, <2>5, DoneWhenRead
  <2>6. ASSUME NEW x \in Cursor, NEW s \in {"DONE", "FAILED", "NONE"}, change_run_status_marks(x, s)
        PROVE  Done(run_status', to_front', e)
    <3>1. run_status'[e] = run_status[e]
      BY <1>1, <2>3, <2>6, DoneWhenMarked
    <3>2. to_front' = to_front
      BY <2>6 DEF change_run_status_marks, socket_vars
    <3>. QED  BY <2>3, <3>1, <3>2 DEF Done
  <2>. QED  BY <2>4, <2>5, <2>6 DEF MarkStep
<1>. QED  BY <1>1, <1>2, AllDoneStill

\* At the beginning of a run nothing is behind.
LEMMA BeginDone ==
    ASSUME Inductive, BeginStep
    PROVE  AllDone'
<1>1. PICK scheduled \in SUBSET Element, statuses \in [Element -> RunStatus] : start_executing(scheduled, statuses)
  BY DEF BeginStep
<1>2. PICK p \in Procs :
         /\ should_run' = scheduled /\ proc'[p].pc = "start" /\ proc'[p].base = Root
         /\ \A o \in Procs \ {p} : ~proc'[o].current
  BY <1>1, BeginsAtRoot
<1>3. Behind(proc[p])' = {}
  <2>1. Plan' \subseteq Element \ {Root}
    BY <1>2 DEF Plan, Reachable
  <2>2. StartedTo(proc[p])' = 1
    BY <1>2 DEF StartedTo, Root
  <2>3. \A x \in Plan' : ~(x < 1)
    BY <2>1, Positions DEF Root
  <2>. QED  BY <2>2, <2>3 DEF Behind
<1>4. Finished(proc[p])' = {}
  BY <1>3 DEF Finished
<1>. QED  BY <1>2, <1>4 DEF AllDone, Walker

LEMMA InitCompleting == Init => Completing
<1>. SUFFICES ASSUME Init PROVE AllDone
  BY InitWalking DEF Completing
<1>. QED  BY DEF Init, AllDone, Backend_exists

LEMMA NextCompleting ==
    ASSUME ActionsHoldParameters
    PROVE  Completing /\ [Next]_vars => Completing'
<1>. SUFFICES ASSUME Completing, [Next]_vars PROVE Completing'
  OBVIOUS
<1>1. Walking' /\ Inductive
  BY NextWalking, WalkType DEF Completing
<1>2. ASSUME NEW p \in Procs, Steps(p) PROVE AllDone'
  BY <1>2, QuietDone, StartDone, FinishDone, ForkDone, ExitDone DEF Steps
<1>3. ASSUME wait_for_the_backend PROVE AllDone'
  <2>1. ~Backend_exists'
    BY <1>3 DEF wait_for_the_backend, Backend_exists
  <2>. QED  BY <2>1 DEF AllDone
<1>4. AllDone'
  <2>1. BeginStep => AllDone'
    BY <1>1, BeginDone
  <2>2. MarkStep => AllDone'
    BY MarkDone
  <2>. QED  BY <1>1, <1>2, <1>3, <2>1, <2>2, AllSteps
<1>. QED  BY <1>1, <1>4 DEF Completing

\* The end of a successful run.
LEMMA CompleteWhenCollected ==
    ASSUME Completing, wait_for_the_backend, proc[backend_pid].ok,
           NEW e \in Plan, Kind[e] = "action"
    PROVE  run_status'[e] = "DONE"
<1>. DEFINE r == proc[backend_pid]
<1>1. /\ backend_pid \in Procs /\ r.pc = "zombie" /\ to_front = <<>> /\ run_status' = run_status
      /\ Walking
  BY DEF wait_for_the_backend, Completing
<1>2. Backend_exists /\ r.current /\ r.base = Root
  BY <1>1, WalkType, FirstProcess DEF Backend_exists
<1>3. Walker(r)
  BY <1>1, <1>2 DEF Walker
<1>4. e \in Behind(r)
  <2>1. StartedTo(r) = Last[Root] + 1
    BY <1>1, <1>2 DEF StartedTo
  <2>2. e \in Element
    BY <1>1, WalkType, InPlan
  <2>. QED  BY <2>1, <2>2, Positions DEF Behind
<1>5. e \in Finished(r)
  BY <1>1, <1>4, FinishedOf
<1>6. Done(run_status, <<>>, e)
  BY <1>1, <1>2, <1>3, <1>5 DEF Completing, AllDone
<1>7. 1 .. Len(<<>>) = {}
  OBVIOUS
<1>. QED  BY <1>1, <1>6, <1>7 DEF Done

\* Whatever the user presses, and whatever fails, is killed or is stopped in
\* whichever process: when the frontend collects exit status 0, it shows every
\* action that was planned as done.
THEOREM SuccessIsComplete ==
    ASSUME ActionsHoldParameters
    PROVE  Spec => CompleteWhenSuccessful
<1>1. Completing /\ [Next]_vars =>
        [Backend_exists /\ backend_pid' = NoProc /\ proc[backend_pid].ok =>
           \A e \in Reachable(should_run) : Kind[e] = "action" => run_status'[e] = "DONE"]_vars
  <2>. SUFFICES ASSUME Completing, [Next]_vars, Backend_exists, backend_pid' = NoProc,
                       proc[backend_pid].ok, NEW e \in Plan, Kind[e] = "action"
                PROVE  run_status'[e] = "DONE" \/ UNCHANGED vars
    BY DEF Plan
  <2>1. Inductive
    BY WalkType DEF Completing
  <2>2. CASE wait_for_the_backend
    BY <2>2, CompleteWhenCollected
  <2>3. CASE MarkStep
    BY <2>3 DEF MarkStep, Backend_exists
  <2>4. ASSUME NEW p \in Procs, Steps(p) PROVE FALSE
    BY <2>4 DEF Steps, QuietStep, StartStep, FinishStep, ForkStep, exit_process, run_vars, Backend_exists
  <2>. QED  BY <2>1, <2>2, <2>3, <2>4, AllSteps DEF BeginStep
<1>2. Completing /\ [Next]_vars => Completing'
  BY NextCompleting
<1>. QED  BY <1>1, <1>2, InitCompleting, PTL DEF Spec, CompleteWhenSuccessful

-----------------------------------------------------------------------------
(***************************************************************************)
(* The status line and pause_now.                                          *)
(***************************************************************************)
NoForkBegun == \A i \in DOMAIN started : Kind[started[i]] # "fork"

\* Until an element that forks is begun, the first process is the only one.
FirstIsAlone ==
    NoForkBegun => \A p \in Procs : proc[p].current /\ ~Free(p) => p = backend_pid

Alone == Backend_exists => backend_status \in {"RUNNING", "PAUSED"} /\ FirstIsAlone

Pausing == Walking /\ Alone /\ PauseIsShown

LEMMA PausesCounted ==
    ASSUME NEW q \in Seq(Command)
    PROVE  IsFiniteSet(Pauses(q)) /\ Cardinality(Pauses(q)) \in Nat
<1>1. Pauses(q) \subseteq 1 .. Len(q) /\ Len(q) \in Nat
  BY LenProperties DEF Pauses
<1>2. IsFiniteSet(1 .. Len(q))
  BY <1>1, FS_Interval
<1>. QED  BY <1>1, <1>2, FS_Subset, FS_CardinalityType

LEMMA EvenToOdd ==
    ASSUME NEW n \in Nat
    PROVE  (n + 1) % 2 = 1 <=> ~(n % 2 = 1)
OBVIOUS

\* A pause in the socket is one toggle more, a stop is none.
LEMMA PauseSent ==
    ASSUME NEW q \in Seq(Command), NEW c \in Command
    PROVE  Odd(Pauses(Append(q, c))) <=> IF c = "CTRL_PAUSE" THEN ~Odd(Pauses(q)) ELSE Odd(Pauses(q))
<1>1. /\ Len(q) \in Nat /\ DOMAIN q = 1 .. Len(q)
      /\ DOMAIN Append(q, c) = 1 .. Len(q) + 1
      /\ \A i \in 1 .. Len(q) : Append(q, c)[i] = q[i]
      /\ Append(q, c)[Len(q) + 1] = c
  BY LenProperties, AppendProperties
<1>2. 1 .. Len(q) + 1 = (1 .. Len(q)) \cup {Len(q) + 1} /\ Len(q) + 1 \notin 1 .. Len(q)
  BY <1>1
<1>3. CASE c = "CTRL_PAUSE"
  <2>1. Pauses(Append(q, c)) = Pauses(q) \cup {Len(q) + 1} /\ Len(q) + 1 \notin Pauses(q)
    BY <1>1, <1>2, <1>3 DEF Pauses
  <2>2. Cardinality(Pauses(Append(q, c))) = Cardinality(Pauses(q)) + 1
    BY <2>1, PausesCounted, FS_AddElement
  <2>. QED  BY <1>3, <2>2, PausesCounted, EvenToOdd DEF Odd
<1>4. CASE c # "CTRL_PAUSE"
  <2>1. Pauses(Append(q, c)) = Pauses(q)
    BY <1>1, <1>2, <1>4 DEF Pauses
  <2>. QED  BY <1>4, <2>1
<1>. QED  BY <1>3, <1>4

LEMMA NoPauses == Odd(Pauses(<<>>)) = FALSE
<1>1. Pauses(<<>>) = {}
  BY DEF Pauses
<1>2. Cardinality({}) = 0
  BY FS_EmptySet
<1>3. 0 % 2 # 1
  OBVIOUS
<1>. QED  BY <1>1, <1>2, <1>3 DEF Odd

\* What a step of process p does to those of the run that go on: it leaves
\* pause_now alone, or p reads what is in the socket.
PauseStep(p) ==
    \/ /\ to_back' = to_back
       /\ \A o \in Procs :
            proc[o].current /\ ~Free(o) /\ CanHandle(o)' =>
                CanHandle(o) /\ proc'[o].pause_now = proc[o].pause_now
    \/ /\ proc[p].current /\ CanHandle(p)
       /\ \A o \in Procs \ {p} : proc'[o] = proc[o]
       /\ CanHandle(p)' =>
            to_back' = <<>> /\ proc'[p].pause_now = (proc[p].pause_now # Odd(Pauses(to_back)))

LEMMA ReadingToggles ==
    ASSUME Inductive, NEW p \in Procs, CanHandle(p), NEW next \in PCs, read_commands(p, next)
    PROVE  PauseStep(p)
<1>. DEFINE r == proc[p]
            stopped == [r EXCEPT !.pc = "exit", !.ok = FALSE, !.sigio = FALSE]
            going(t) == [r EXCEPT !.pc = next, !.sigio = FALSE,
                                  !.pause_now = toggle_pause(r.pause_now, t)]
<1>1. r \in ProcState /\ proc \in [Procs -> ProcState] /\ r.current \in BOOLEAN
  BY ProcType DEF ProcState
<1>2. stopped.pc = "exit" /\ \A t \in BOOLEAN : going(t).pause_now = (r.pause_now # t)
  BY <1>1 DEF ProcState, toggle_pause
<1>3. CASE ~r.current
  <2>1. to_back' = to_back /\ \E new : proc' = [proc EXCEPT ![p] = new]
    BY <1>3 DEF read_commands
  <2>2. \A o \in Procs \ {p} : proc'[o] = proc[o]
    BY <1>1, <2>1
  <2>. QED  BY <1>3, <2>1, <2>2 DEF PauseStep, CanHandle
<1>4. CASE r.current /\ Stops(to_back) = {}
  <2>1. proc' = [proc EXCEPT ![p] = going(Odd(Pauses(to_back)))] /\ to_back' = <<>>
    BY <1>4 DEF read_commands
  <2>2. Odd(Pauses(to_back)) \in BOOLEAN
    BY DEF Odd
  <2>. HIDE DEF going
  <2>3. /\ proc'[p] = going(Odd(Pauses(to_back)))
        /\ \A o \in Procs \ {p} : proc'[o] = proc[o]
    BY <1>1, <2>1
  <2>. QED  BY <1>2, <1>4, <2>1, <2>2, <2>3 DEF PauseStep
<1>5. CASE r.current /\ Stops(to_back) # {}
  <2>1. proc' = [proc EXCEPT ![p] = stopped]
    BY <1>5 DEF read_commands
  <2>. HIDE DEF stopped
  <2>2. proc'[p] = stopped /\ \A o \in Procs \ {p} : proc'[o] = proc[o]
    BY <1>1, <2>1
  <2>. QED  BY <1>2, <1>5, <2>2 DEF PauseStep, CanHandle
<1>. QED  BY <1>1, <1>3, <1>4, <1>5

\* A step that takes p from r to s and reads nothing.
LEMMA WalkingOnToggles ==
    ASSUME Inductive, NEW p \in Procs, NEW s, proc' = [proc EXCEPT ![p] = s], UNCHANGED to_back,
           CanHandle(p), s.pause_now = proc[p].pause_now
    PROVE  PauseStep(p)
<1>1. proc'[p] = s /\ \A o \in Procs \ {p} : proc'[o] = proc[o]
  BY ProcType
<1>. QED  BY <1>1 DEF PauseStep, CanHandle

LEMMA PauseSteps ==
    ASSUME Inductive, NEW p \in Procs,
           signal_io(p) \/ Backend(p) \/ run_action(p) \/ fatal_backend_error(p)
    PROVE  PauseStep(p) /\ UNCHANGED <<backend_pid, backend_status>>
<1>. DEFINE r == proc[p]
<1>1. r \in ProcState /\ proc \in [Procs -> ProcState] /\ r.pc \in PCs
  BY ProcType DEF ProcState, PCs
<1>2. /\ \A el, x : EnterChildren(r, el).pause_now = r.pause_now
      /\ \A good : LeaveElement(r, good).pause_now = r.pause_now
  BY <1>1 DEF EnterChildren, LeaveElement, ProcState
<1>3. ASSUME signal_io(p) PROVE PauseStep(p) /\ UNCHANGED <<backend_pid, backend_status>>
  BY <1>1, <1>3, ReadingToggles DEF signal_io, frontend_vars
<1>4. ASSUME Start_receiving_sigio(p) PROVE PauseStep(p) /\ UNCHANGED <<backend_pid, backend_status>>
  <2>1. CanHandle(p) /\ "begin" \in PCs /\ read_commands(p, "begin")
    BY <1>4 DEF Start_receiving_sigio, CanHandle, PCs
  <2>. QED  BY <1>4, <2>1, ReadingToggles DEF Start_receiving_sigio, frontend_vars
<1>5. ASSUME begin_children(p) PROVE PauseStep(p) /\ UNCHANGED <<backend_pid, backend_status>>
  <2>1. PICK good \in BOOLEAN :
           proc' = [proc EXCEPT ![p] = IF good THEN EnterChildren(r, r.base)
                                       ELSE [r EXCEPT !.pc = "exit", !.ok = FALSE]]
    BY <1>1, <1>5 DEF begin_children
  <2>2. CanHandle(p) /\ UNCHANGED <<backend_pid, backend_status, to_back>>
    BY <1>5 DEF begin_children, CanHandle, walk_vars, frontend_vars
  <2>3. [r EXCEPT !.pc = "exit", !.ok = FALSE].pause_now = r.pause_now
    BY <1>1 DEF ProcState
  <2>. QED  BY <1>2, <2>1, <2>2, <2>3, WalkingOnToggles
<1>6. ASSUME do_execute_element(p) PROVE PauseStep(p) /\ UNCHANGED <<backend_pid, backend_status>>
  <2>1. CanHandle(p) /\ UNCHANGED <<backend_pid, backend_status, to_back>>
    BY <1>6 DEF do_execute_element, CanHandle, walk_vars, frontend_vars
  <2>2. \/ proc' = [proc EXCEPT ![p] = [r EXCEPT !.pc = "handler"]]
        \/ proc' = [proc EXCEPT ![p] = LeaveElement(r, TRUE)]
    BY <1>1, <1>6 DEF do_execute_element
  <2>3. [r EXCEPT !.pc = "handler"].pause_now = r.pause_now
    BY <1>1 DEF ProcState
  <2>. QED  BY <1>2, <2>1, <2>2, <2>3, WalkingOnToggles
<1>7. ASSUME run_container(p) PROVE PauseStep(p) /\ UNCHANGED <<backend_pid, backend_status>>
  <2>1. PICK good \in BOOLEAN :
           proc' = [proc EXCEPT ![p] = IF good THEN EnterChildren(r, r.at)
                                       ELSE [r EXCEPT !.pc = "finish", !.ok = FALSE]]
    BY <1>1, <1>7 DEF run_container
  <2>2. CanHandle(p) /\ UNCHANGED <<backend_pid, backend_status, to_back>>
    BY <1>7 DEF run_container, CanHandle, walk_vars, frontend_vars
  <2>3. [r EXCEPT !.pc = "finish", !.ok = FALSE].pause_now = r.pause_now
    BY <1>1 DEF ProcState
  <2>. QED  BY <1>2, <2>1, <2>2, <2>3, WalkingOnToggles
<1>8. ASSUME run_action(p) PROVE PauseStep(p) /\ UNCHANGED <<backend_pid, backend_status>>
  <2>1. PICK good \in BOOLEAN : proc' = [proc EXCEPT ![p] = [r EXCEPT !.pc = "finish", !.ok = good]]
    BY <1>1, <1>8 DEF run_action
  <2>2. CanHandle(p) /\ UNCHANGED <<backend_pid, backend_status, to_back>>
    BY <1>8 DEF run_action, CanHandle, walk_vars, frontend_vars
  <2>3. [r EXCEPT !.pc = "finish", !.ok = good].pause_now = r.pause_now
    BY <1>1 DEF ProcState
  <2>. QED  BY <2>1, <2>2, <2>3, WalkingOnToggles
<1>9. ASSUME fatal_backend_error(p) PROVE PauseStep(p) /\ UNCHANGED <<backend_pid, backend_status>>
  <2>1. proc' = [proc EXCEPT ![p] = [r EXCEPT !.pc = "exit", !.ok = FALSE]]
    BY <1>1, <1>9 DEF fatal_backend_error
  <2>2. CanHandle(p) /\ UNCHANGED <<backend_pid, backend_status, to_back>>
    BY <1>9 DEF fatal_backend_error, CanHandle, walk_vars, frontend_vars
  <2>3. [r EXCEPT !.pc = "exit", !.ok = FALSE].pause_now = r.pause_now
    BY <1>1 DEF ProcState
  <2>. QED  BY <2>1, <2>2, <2>3, WalkingOnToggles
<1>10. ASSUME finish_element(p) PROVE PauseStep(p) /\ UNCHANGED <<backend_pid, backend_status>>
  <2>1. proc' = [proc EXCEPT ![p] = LeaveElement(r, r.ok)]
    BY <1>1, <1>10 DEF finish_element
  <2>2. CanHandle(p) /\ UNCHANGED <<backend_pid, backend_status, to_back>>
    BY <1>10 DEF finish_element, CanHandle, walk_vars, frontend_vars
  <2>. QED  BY <1>2, <2>1, <2>2, WalkingOnToggles
<1>11. ASSUME run_fork(p) PROVE PauseStep(p) /\ UNCHANGED <<backend_pid, backend_status>>
  <2>1. CanHandle(p) /\ UNCHANGED <<backend_pid, backend_status, to_back>> /\ r.pc = "handler"
    BY <1>11 DEF run_fork, CanHandle, walk_vars, frontend_vars
  <2>2. CASE proc' = [proc EXCEPT ![p].pc = "finish", ![p].ok = FALSE]
    <3>1. proc' = [proc EXCEPT ![p] = [r EXCEPT !.pc = "finish", !.ok = FALSE]]
      BY <1>1, <2>2
    <3>2. [r EXCEPT !.pc = "finish", !.ok = FALSE].pause_now = r.pause_now
      BY <1>1 DEF ProcState
    <3>. QED  BY <2>1, <3>1, <3>2, WalkingOnToggles
  <2>3. ASSUME NEW c \in Procs, Free(c), NEW s,
               proc' = [proc EXCEPT ![p].pc = "waiting", ![c] = s]
        PROVE  PauseStep(p)
    <3>1. c # p
      BY <2>1, <2>3 DEF CanHandle, Free
    <3>2. proc'[p] = [r EXCEPT !.pc = "waiting"] /\ \A o \in Procs \ {p, c} : proc'[o] = proc[o]
      BY <1>1, <2>3, <3>1
    <3>3. proc'[p].pause_now = r.pause_now
      BY <1>1, <3>2 DEF ProcState
    <3>. QED  BY <2>1, <2>3, <3>2, <3>3 DEF PauseStep, CanHandle
  <2>. QED  BY <1>11, <2>1, <2>2, <2>3 DEF run_fork
<1>12. ASSUME exit_process(p) PROVE PauseStep(p) /\ UNCHANGED <<backend_pid, backend_status>>
  <2>1. UNCHANGED <<backend_pid, backend_status, to_back>> /\ r.pc = "exit"
    BY <1>12 DEF exit_process
  <2>2. \A o \in Procs : CanHandle(o)' => CanHandle(o) /\ proc'[o].pause_now = proc[o].pause_now
    <3>. SUFFICES ASSUME NEW o \in Procs, CanHandle(o)'
                  PROVE  CanHandle(o) /\ proc'[o].pause_now = proc[o].pause_now
      OBVIOUS
    <3>1. proc[o] \in ProcState
      BY ProcType
    <3>2. proc'[o] \in {[r EXCEPT !.pc = "zombie"], FreeProc}
            \/ (o # p /\ proc[o].pc = "waiting" /\ proc'[o] = [proc[o] EXCEPT !.pc = "finish", !.ok = child_status(p)])
            \/ (o # p /\ proc'[o] = [proc[o] EXCEPT !.parent = IF @ = p THEN NoProc ELSE @])
      BY <1>12 DEF exit_process
    <3>3. [r EXCEPT !.pc = "zombie"].pc = "zombie" /\ FreeProc.pc = "free"
      BY <1>1 DEF ProcState, FreeProc
    <3>. QED  BY <3>1, <3>2, <3>3 DEF CanHandle, ProcState
  <2>. QED  BY <2>1, <2>2 DEF PauseStep
<1>. QED  BY <1>3, <1>4, <1>5, <1>6, <1>7, <1>8, <1>9, <1>10, <1>11, <1>12 DEF Backend

\* A fork is begun before it happens.
LEMMA AloneAfter ==
    ASSUME Walking, Backend_exists, FirstIsAlone, NEW p \in Procs, Steps(p)
    PROVE  FirstIsAlone' /\ (NoForkBegun' => NoForkBegun)
<1>1. started \in Seq(Element) /\ \A o \in Procs : proc[o] \in ProcState
  BY WalkType
<1>2. UNCHANGED backend_pid
  BY DEF Steps, QuietStep, StartStep, FinishStep, ForkStep, exit_process, run_vars
<1>3. NoForkBegun' => NoForkBegun
  <2>1. CASE started' = started
    BY <2>1 DEF NoForkBegun
  <2>2. CASE started' = Append(started, proc[p].at)
    <3>1. /\ DOMAIN started = 1 .. Len(started) /\ Len(started) \in Nat
          /\ DOMAIN started' = 1 .. Len(started) + 1
          /\ \A i \in 1 .. Len(started) : started'[i] = started[i]
      <4>1. proc[p].at \in Element
        BY <1>1 DEF ProcState
      <4>. QED  BY <1>1, <2>2, <4>1, LenProperties, AppendProperties
    <3>. QED  BY <3>1 DEF NoForkBegun
  <2>. QED  BY <2>1, <2>2 DEF Steps, QuietStep, StartStep, FinishStep, ForkStep, exit_process
<1>4. ASSUME NoForkBegun,
             \A o \in Procs : proc'[o].current /\ proc'[o].pc # "free" =>
                                proc[o].current /\ proc[o].pc # "free"
      PROVE  FirstIsAlone'
  BY <1>2, <1>4 DEF FirstIsAlone, Free
<1>5. ASSUME NoForkBegun', NEW s, proc' = [proc EXCEPT ![p] = s],
             s.current = proc[p].current, proc[p].pc # "free"
      PROVE  FirstIsAlone'
  <2>1. proc'[p] = s /\ \A o \in Procs \ {p} : proc'[o] = proc[o]
    BY <1>5, WalkType
  <2>. QED  BY <1>3, <1>4, <1>5, <2>1
<1>6. ASSUME NoForkBegun' PROVE FirstIsAlone'
  <2>1. ASSUME QuietStep(p) PROVE FirstIsAlone'
    BY <1>5, <1>6, <2>1 DEF QuietStep, Quiet, SameRun
  <2>2. ASSUME StartStep(p) PROVE FirstIsAlone'
    <3>1. [proc[p] EXCEPT !.pc = "handler"].current = proc[p].current
      BY <1>1 DEF ProcState
    <3>. QED  BY <1>5, <1>6, <2>2, <3>1 DEF StartStep
  <2>3. ASSUME FinishStep(p) PROVE FirstIsAlone'
    <3>1. LeaveElement(proc[p], proc[p].ok).current = proc[p].current
      BY <1>1 DEF LeaveElement, ProcState
    <3>. QED  BY <1>5, <1>6, <2>3, <3>1 DEF FinishStep
  <2>4. ASSUME NEW c \in Procs, ForkStep(p, c) PROVE FirstIsAlone'
    <3>. DEFINE r == proc[p]
                w == [r EXCEPT !.pc = "waiting"]
                s == [r EXCEPT !.pc = "start", !.base = r.at, !.sigio = FALSE, !.parent = p]
    <3>1. r \in ProcState /\ r.pc = "handler" /\ Kind[r.at] = "fork" /\ c # p
      BY <1>1, <2>4 DEF ForkStep
    <3>2. w.current = r.current /\ s.current = r.current
      BY <3>1 DEF ProcState
    <3>3. proc'[p] = w /\ proc'[c] = s /\ \A o \in Procs \ {p, c} : proc'[o] = proc[o]
      BY <2>4, WalkType DEF ForkStep
    <3>. HIDE DEF w, s
    <3>4. ASSUME r.current PROVE FALSE
      <4>1. Walker(r) /\ OnPlan(r) /\ Begun = Behind(r)
        BY <3>1, <3>4 DEF Walker, Walking, WalksThePlan
      <4>2. r.at \in Plan
        <5>1. r.at \in Displayed
          BY <3>1, WalkType, RoomHasBase DEF Walks
        <5>2. \A a \in Around(r.at) \ {Root} : Can_run(a) /\ a \in should_run
          BY <3>1, <4>1 DEF OnPlan, Room
        <5>3. \A a \in Ancestors[r.at] : Kind[a] # "action"
          BY <3>1, <4>1 DEF OnPlan, Entered
        <5>. QED  BY <5>1, <5>2, <5>3, WalkType DEF Plan, Reachable, Around, Displayed
      <4>3. r.at \in Behind(r)
        <5>1. r.at \in Nat
          BY <3>1, Positions DEF ProcState
        <5>. QED  BY <3>1, <4>2, <5>1 DEF Behind, StartedTo
      <4>4. Kind[r.at] # "fork"
        BY <1>3, <1>6, <4>1, <4>3 DEF Begun, NoForkBegun
      <4>. QED  BY <3>1, <4>4
    <3>. QED  BY <1>3, <1>4, <1>6, <3>2, <3>3, <3>4
  <2>5. ASSUME exit_process(p) PROVE FirstIsAlone'
    <3>1. /\ proc'[p].pc = (IF p = backend_pid THEN "zombie" ELSE "free")
          /\ p = backend_pid => proc'[p].current = proc[p].current
          /\ \A c \in Procs \ {p} :
                /\ proc'[c].current = proc[c].current
                /\ IF Wakes(p, c) THEN proc'[c].pc = "finish"
                   ELSE proc'[c].pc = proc[c].pc
      BY <2>5, ExitLeaves DEF Walking
    <3>2. proc[p].pc = "exit" /\ \A c \in Procs : Wakes(p, c) => proc[c].pc = "waiting"
      BY <2>5 DEF exit_process, Wakes
    <3>. QED  BY <1>3, <1>4, <1>6, <3>1, <3>2
  <2>. QED  BY <2>1, <2>2, <2>3, <2>4, <2>5 DEF Steps
<1>7. ASSUME ~NoForkBegun' PROVE FirstIsAlone'
  BY <1>7 DEF FirstIsAlone
<1>. QED  BY <1>3, <1>6, <1>7

LEMMA ProcessPauses ==
    ASSUME Pausing, NEW p \in Procs,
           signal_io(p) \/ Backend(p) \/ run_action(p) \/ fatal_backend_error(p)
    PROVE  (Alone /\ PauseIsShown)'
<1>. DEFINE b == backend_pid
<1>1. Walking /\ Inductive /\ Steps(p)
  BY WalkType, ProcessSteps DEF Pausing
<1>2. PauseStep(p) /\ UNCHANGED <<backend_pid, backend_status>> /\ Backend_exists' = Backend_exists
  BY <1>1, PauseSteps DEF Backend_exists
<1>3. CASE ~Backend_exists
  BY <1>2, <1>3 DEF Alone, PauseIsShown
<1>4. CASE Backend_exists
  <2>1. Alone' /\ (NoForkBegun' => NoForkBegun)
    BY <1>1, <1>2, <1>4, AloneAfter DEF Pausing, Alone
  <2>2. b \in Procs /\ proc[b].current /\ ~Free(b)
    BY <1>1, <1>4, FirstProcess
  <2>3. ASSUME NoForkBegun', CanHandle(b)'
        PROVE  backend_status' = "PAUSED" <=> (proc'[b].pause_now # Odd(Pauses(to_back'))) 
    <3>1. CanHandle(b) => (backend_status = "PAUSED" <=> (proc[b].pause_now # Odd(Pauses(to_back))))
      BY <1>4, <2>1, <2>3 DEF Pausing, PauseIsShown, NoForkBegun
    <3>2. CASE /\ to_back' = to_back
               /\ CanHandle(b) /\ proc'[b].pause_now = proc[b].pause_now
      BY <1>2, <3>1, <3>2
    <3>3. CASE /\ proc[p].current /\ CanHandle(p)
               /\ CanHandle(p)' =>
                    to_back' = <<>> /\ proc'[p].pause_now = (proc[p].pause_now # Odd(Pauses(to_back)))
      <4>1. p = b
        BY <1>4, <2>1, <2>3, <3>3 DEF Pausing, Alone, FirstIsAlone, CanHandle, Free
      <4>2. /\ CanHandle(b) /\ to_back' = <<>>
            /\ proc'[b].pause_now = (proc[b].pause_now # Odd(Pauses(to_back)))
        BY <1>2, <2>3, <3>3, <4>1
      <4>3. proc[b].pause_now \in BOOLEAN /\ Odd(Pauses(to_back)) \in BOOLEAN
        BY <2>2, WalkType, <1>1 DEF ProcState, Odd
      <4>4. Odd(Pauses(to_back')) = FALSE
        BY <4>2, NoPauses
      <4>. QED  BY <1>2, <3>1, <4>2, <4>3, <4>4
    <3>. QED  BY <1>2, <2>2, <2>3, <3>2, <3>3 DEF PauseStep
  <2>4. PauseIsShown'
    BY <1>2, <2>3 DEF PauseIsShown, NoForkBegun
  <2>. QED  BY <2>1, <2>4
<1>. QED  BY <1>3, <1>4

LEMMA BeginPauses ==
    ASSUME Inductive, BeginStep
    PROVE  (Alone /\ PauseIsShown)'
<1>1. PICK scheduled \in SUBSET Element, statuses \in [Element -> RunStatus] : start_executing(scheduled, statuses)
  BY DEF BeginStep
<1>2. PICK p \in Procs :
         /\ backend_pid' = p /\ to_back' = <<>>
         /\ \A o \in Procs \ {p} : ~proc'[o].current
         /\ backend_status' = "RUNNING"
         /\ proc'[p].pause_now = FALSE
  BY <1>1 DEF start_executing, FreeProc
<1>3. Alone'
  BY <1>2 DEF Alone, FirstIsAlone
<1>4. PauseIsShown'
  <2>1. Odd(Pauses(to_back))' = FALSE
    BY <1>2, NoPauses
  <2>2. (backend_status = "PAUSED")' = FALSE /\ proc[backend_pid].pause_now' = FALSE
    BY <1>2
  <2>. QED  BY <2>1, <2>2 DEF PauseIsShown
<1>. QED  BY <1>3, <1>4

\* A key that sends c.
LEMMA CommandPauses ==
    ASSUME Pausing, Backend_exists, NEW c \in Command, send_command(c),
           \/ c = "CTRL_STOP" /\ UNCHANGED backend_status
           \/ c = "CTRL_PAUSE" /\ backend_status' = (IF backend_status = "PAUSED" THEN "RUNNING" ELSE "PAUSED")
    PROVE  (Alone /\ PauseIsShown)'
<1>1. /\ Walking /\ proc \in [Procs -> ProcState] /\ sigio_owner \in Procs \cup {NoProc}
      /\ to_back \in Seq(Command)
  BY WalkType DEF Pausing, Inductive, TypeOK
<1>2. /\ to_back' = Append(to_back, c)
      /\ UNCHANGED <<backend_pid, started>>
  BY DEF send_command
<1>3. \A o \in Procs : /\ proc'[o].pc = proc[o].pc /\ proc'[o].current = proc[o].current
                       /\ proc'[o].pause_now = proc[o].pause_now
  <2>1. CASE sigio_owner = NoProc
    BY <2>1 DEF send_command
  <2>2. CASE sigio_owner # NoProc
    <3>1. proc' = [proc EXCEPT ![sigio_owner] = [proc[sigio_owner] EXCEPT !.sigio = TRUE]]
      BY <1>1, <2>2 DEF send_command
    <3>. QED  BY <1>1, <3>1 DEF ProcState
  <2>. QED  BY <2>1, <2>2
<1>4. Alone'
  BY <1>2, <1>3 DEF Pausing, Alone, FirstIsAlone, Free, NoForkBegun
<1>5. Odd(Pauses(to_back')) <=> IF c = "CTRL_PAUSE" THEN ~Odd(Pauses(to_back)) ELSE Odd(Pauses(to_back))
  BY <1>1, <1>2, PauseSent
<1>6. backend_pid \in Procs /\ proc[backend_pid].pause_now \in BOOLEAN
  BY <1>1, FirstProcess DEF ProcState
<1>7. ASSUME CanHandle(backend_pid), NoForkBegun
      PROVE  backend_status' = "PAUSED" <=> (proc[backend_pid].pause_now # Odd(Pauses(to_back')))
  <2>1. backend_status = "PAUSED" <=> (proc[backend_pid].pause_now # Odd(Pauses(to_back)))
    BY <1>7 DEF Pausing, PauseIsShown, NoForkBegun
  <2>2. Odd(Pauses(to_back)) \in BOOLEAN /\ Odd(Pauses(to_back')) \in BOOLEAN
    BY DEF Odd
  <2>3. backend_status \in {"RUNNING", "PAUSED"}
    BY DEF Pausing, Alone
  <2>. QED  BY <1>5, <1>6, <2>1, <2>2, <2>3
<1>8. PauseIsShown'
  BY <1>2, <1>3, <1>6, <1>7 DEF PauseIsShown, CanHandle, NoForkBegun
<1>. QED  BY <1>4, <1>8

\* What leaves the backend, its socket and the status line alone.
LEMMA NothingToggled ==
    ASSUME Pausing, UNCHANGED <<backend_pid, backend_status, to_back, backend_vars>>
    PROVE  (Alone /\ PauseIsShown)'
<1>1. proc' = proc /\ started' = started
  BY DEF backend_vars
<1>2. Backend_exists' = Backend_exists /\ NoForkBegun' = NoForkBegun
      /\ \A o : CanHandle(o)' = CanHandle(o) /\ Free(o)' = Free(o)
  BY <1>1 DEF Backend_exists, NoForkBegun, CanHandle, Free
<1>. QED  BY <1>1, <1>2 DEF Pausing, Alone, FirstIsAlone, PauseIsShown

LEMMA KeysPause ==
    ASSUME Pausing, UserKey
    PROVE  (Alone /\ PauseIsShown)'
<1>1. Inductive
  BY WalkType DEF Pausing
<1>2. ASSUME stop_key PROVE (Alone /\ PauseIsShown)'
  BY <1>2, CommandPauses DEF stop_key, Command
<1>3. ASSUME pause_key PROVE (Alone /\ PauseIsShown)'
  <2>1. Backend_exists /\ send_command("CTRL_PAUSE")
    BY <1>3 DEF pause_key
  <2>2. backend_status \in {"RUNNING", "PAUSED"}
    BY <2>1 DEF Pausing, Alone
  <2>3. backend_status' = (IF backend_status = "PAUSED" THEN "RUNNING" ELSE "PAUSED")
    BY <1>3, <2>2 DEF pause_key
  <2>. QED  BY <2>1, <2>3, CommandPauses DEF Command
<1>4. ASSUME NEW all \in BOOLEAN, clear_marks(all) PROVE (Alone /\ PauseIsShown)'
  BY <1>4, NothingToggled DEF clear_marks, mark_vars, socket_vars
<1>5. ASSUME NEW e \in Cursor, mark_element(e) PROVE (Alone /\ PauseIsShown)'
  BY <1>5, NothingToggled DEF mark_element, mark_vars, socket_vars
<1>6. ASSUME NEW e \in Cursor, NEW s \in {"DONE", "FAILED", "NONE"}, change_run_status_marks(e, s)
      PROVE  (Alone /\ PauseIsShown)'
  BY <1>6, NothingToggled DEF change_run_status_marks, socket_vars
<1>. QED  BY <1>1, <1>2, <1>3, <1>4, <1>5, <1>6, BeginSteps, BeginPauses DEF UserKey

LEMMA InitPausing == Init => Pausing
<1>. SUFFICES ASSUME Init PROVE Pausing
  OBVIOUS
<1>1. ~Backend_exists
  BY DEF Init, Backend_exists
<1>. QED  BY <1>1, InitWalking DEF Pausing, Alone, PauseIsShown

LEMMA NextPausing == Pausing /\ [Next]_vars => Pausing'
<1>. SUFFICES ASSUME Pausing, [Next]_vars PROVE Pausing'
  OBVIOUS
<1>1. Walking'
  BY NextWalking DEF Pausing
<1>2. ASSUME Frontend PROVE (Alone /\ PauseIsShown)'
  <2>1. CASE handle_ctrl_msg
    BY <2>1, NothingToggled DEF handle_ctrl_msg
  <2>2. CASE read_all_messages
    BY <2>2, NothingToggled DEF read_all_messages, socket_vars
  <2>3. CASE wait_for_the_backend
    <3>1. ~Backend_exists'
      BY <2>3 DEF wait_for_the_backend, Backend_exists
    <3>. QED  BY <3>1 DEF Alone, PauseIsShown
  <2>. QED  BY <1>2, <2>1, <2>2, <2>3 DEF Frontend
<1>3. ASSUME UNCHANGED vars PROVE (Alone /\ PauseIsShown)'
  BY <1>3, NothingToggled DEF vars, frontend_vars, socket_vars
<1>4. (Alone /\ PauseIsShown)'
  BY <1>2, <1>3, KeysPause, ProcessPauses DEF Next
<1>. QED  BY <1>1, <1>4 DEF Pausing

\* Whatever is pressed, and however signals, reads and the end of the run fall
\* between the keys: until something forks, the status line says "PAUSED" just
\* when the backend is paused once it has read what the socket still holds.
THEOREM PauseShown == Spec => []PauseIsShown
<1>1. Pausing => PauseIsShown
  BY DEF Pausing
<1>. QED  BY <1>1, InitPausing, NextPausing, PTL DEF Spec

-----------------------------------------------------------------------------
(***************************************************************************)
(* The marks the user makes.                                               *)
(***************************************************************************)

\* What can run is below nothing that cannot, and below no action: what the
\* syntax has there are parameters.
RunnableIsBelowRunnable ==
    \A e \in Element : Can_run(e) =>
        \A a \in Ancestors[e] : Can_run(a) /\ Kind[a] # "action"

\* What is marked hangs off the root by marked elements.
MarkedToTheTop == \A e \in marked : Can_run(e) => Ancestors[e] \ {Root} \subseteq marked

\* A nonempty set of elements has a first one.
LEMMA FirstOfElements ==
    ASSUME NEW S \in SUBSET Element, S # {}
    PROVE  \E m \in S : \A x \in S : m <= x
<1>. DEFINE Less == OpToRel(<, Nat)
<1>1. S \in SUBSET Nat /\ S # {}
  BY Positions
<1>2. IsWellFoundedOn(Less, Nat)
  BY NatLessThanWellFounded
<1>. HIDE DEF Less
<1>3. PICK m \in S : \A x \in S : <<x, m>> \notin Less
  BY <1>1, <1>2, WFMin
<1>4. ASSUME NEW x \in S PROVE m <= x
  <2>1. x \in Nat /\ m \in Nat
    BY <1>1, <1>3
  <2>2. ~(x < m)
    BY <1>3, <2>1 DEF Less, OpToRel
  <2>. QED  BY <2>1, <2>2
<1>. QED  BY <1>3, <1>4

\* An element off the path to e hangs off it by one child of the path, below
\* everything that is around both.
LEMMA BranchesOff ==
    ASSUME NEW e \in Element, NEW x \in Element \ {Root}, x \notin Ancestors[e],
           NEW a \in Ancestors[x] \cap Ancestors[e]
    PROVE  \E b \in Ancestors[e] \cap Subtree[a] : \E c \in Children[b] \ Ancestors[e] : c \in Around(x)
<1>. DEFINE S == Around(x) \ Ancestors[e]
<1>1. S \subseteq Nat /\ S \subseteq Element /\ x \in S
  BY Order, Positions DEF Around
<1>2. PICK c \in S : \A y \in S : c <= y
  <2>. HIDE DEF S
  <2>. QED  BY <1>1, FirstOfElements
<1>3. c \in Element /\ c \in Around(x) /\ c \notin Ancestors[e] /\ a \in Element
  BY <1>1, <1>2, Order
<1>4. a \in Ancestors[c]
  <2>1. c # a /\ c \notin Ancestors[a]
    BY <1>3, Order
  <2>2. c = x \/ c \in Ancestors[x]
    BY <1>3 DEF Around
  <2>3. CASE c \in Ancestors[x]
    <3>1. a < x /\ x <= Last[a] /\ c < x /\ x <= Last[c]
      BY <1>3, <2>3, Positions
    <3>2. a \in Nat /\ c \in Nat /\ x \in Nat /\ Last[a] \in Nat /\ Last[c] \in Nat
      BY <1>3, Positions
    <3>3. c < a => c \in Ancestors[a]
      BY <1>3, <3>1, <3>2, Positions
    <3>4. a < c
      BY <2>1, <3>2, <3>3
    <3>. QED  BY <1>3, <3>1, <3>2, <3>4, Positions
  <2>. QED  BY <2>2, <2>3
<1>5. c \in Element \ {Root}
  BY <1>3, <1>4, Order
<1>. DEFINE b == Parent[c]
<1>6. b \in Ancestors[c] /\ b \in Element /\ (a = b \/ a \in Ancestors[b])
  BY <1>4, <1>5, ParentIsInnermost, Order
<1>7. b \in Subtree[a]
  BY <1>3, <1>6, Order
<1>8. b \in Ancestors[e]
  <2>1. b < c /\ b \in Nat /\ c \in Nat
    BY <1>3, <1>6, Positions
  <2>2. b \notin S
    BY <1>2, <2>1
  <2>3. b \in Around(x)
    BY <1>3, <1>6, Order DEF Around
  <2>. QED  BY <2>2, <2>3
<1>9. c \in Children[b]
  BY <1>5, <1>6 DEF Children
<1>. QED  BY <1>3, <1>7, <1>8, <1>9

\* '*' keeps what is marked together: a parent of e is marked if anything below
\* it is, by WithParents, and nothing else loses its mark before what is below it.
LEMMA MarksHangTogether ==
    ASSUME MarkedToTheTop, marked \subseteq Element,
           NEW e \in Element, mark_element(e)
    PROVE  MarkedToTheTop'
<1>. DEFINE flipped == IF ~Can_run(e) THEN marked
                       ELSE IF e \in marked THEN marked \ Subtree[e]
                       ELSE marked \cup Subtree[e]
<1>1. marked' = WithParents(e, flipped)
  BY DEF mark_element
<1>2. flipped \subseteq Element
  BY DEF Subtree
<1>3. ASSUME NEW x \in flipped, x \notin Ancestors[e], Can_run(x), NEW a \in Ancestors[x] \ {Root},
             a \notin Ancestors[e]
      PROVE  a \in flipped
  <2>1. x \in Element /\ a \in Element
    BY <1>2, <1>3, Order
  <2>2. x \in Subtree[e] => a \in Subtree[e]
    <3>1. CASE x = e
      BY <1>3, <3>1
    <3>2. CASE e \in Ancestors[x]
      <4>1. a < x /\ x <= Last[a] /\ e < x /\ x <= Last[e]
        BY <1>3, <2>1, <3>2, Positions
      <4>2. a \in Nat /\ e \in Nat /\ x \in Nat /\ Last[a] \in Nat /\ Last[e] \in Nat
        BY <2>1, Positions
      <4>3. a < e => a \in Ancestors[e]
        BY <2>1, <4>1, <4>2, Positions
      <4>4. e <= a /\ a <= Last[e]
        BY <1>3, <4>1, <4>2, <4>3
      <4>. QED  BY <2>1, <4>4 DEF Subtree
    <3>. QED  BY <2>1, <3>1, <3>2, Order
  <2>3. a \in Subtree[e] => x \in Subtree[e]
    BY <1>3, <2>1, Order
  <2>4. x \in marked => a \in marked
    BY <1>3 DEF MarkedToTheTop
  <2>. QED  BY <1>3, <2>2, <2>3, <2>4
<1>. HIDE DEF flipped
<1>4. ASSUME NEW x \in marked', Can_run(x), NEW a \in Ancestors[x] \ {Root}
      PROVE  a \in marked'
  <2>1. x \in Element /\ x # Root /\ a \in Element
    <3>1. x \in Element
      BY <1>1, <1>2, <1>4, Order DEF WithParents
    <3>. QED  BY <1>4, <3>1, Order
  <2>2. x \in Ancestors[e] \/ x \in flipped \ Ancestors[e]
    BY <1>1, <1>4 DEF WithParents
  <2>3. CASE x \in Ancestors[e]
    <3>1. PICK b \in Ancestors[e] \cap Subtree[x] : (Children[b] \ Ancestors[e]) \cap flipped # {}
      BY <1>1, <1>4, <2>3 DEF WithParents
    <3>2. a \in Ancestors[e] /\ b \in Subtree[a]
      BY <1>4, <2>1, <2>3, <3>1, Order
    <3>. QED  BY <1>1, <3>1, <3>2 DEF WithParents
  <2>4. CASE x \in flipped \ Ancestors[e] /\ a \notin Ancestors[e]
    <3>1. a \in flipped
      BY <1>3, <1>4, <2>4
    <3>. QED  BY <1>1, <2>4, <3>1 DEF WithParents
  <2>5. CASE x \in flipped \ Ancestors[e] /\ a \in Ancestors[e]
    <3>1. PICK b \in Ancestors[e] \cap Subtree[a] : \E c \in Children[b] \ Ancestors[e] : c \in Around(x)
      BY <1>4, <2>1, <2>5, BranchesOff
    <3>2. PICK c \in Children[b] \ Ancestors[e] : c \in Around(x)
      BY <3>1
    <3>3. c # Root
      <4>1. b \in Element
        BY <3>1, Order
      <4>. QED  BY <3>2, <4>1 DEF Children
    <3>4. c \in flipped
      BY <1>3, <1>4, <2>5, <3>2, <3>3 DEF Around
    <3>. QED  BY <1>1, <2>5, <3>1, <3>2, <3>4 DEF WithParents
  <2>. QED  BY <2>2, <2>3, <2>4, <2>5
<1>. QED  BY <1>4 DEF MarkedToTheTop

\* What is marked down from the root is what the backend would reach.
LEMMA MarkedIsReachable ==
    ASSUME RunnableIsBelowRunnable, MarkedToTheTop, marked \subseteq Element
    PROVE  MarkedWouldRun
<1>. SUFFICES ASSUME NEW e \in marked \ {Root}, Can_run(e) PROVE e \in Reachable(marked)
  BY DEF MarkedWouldRun
<1>1. \A a \in Ancestors[e] : Can_run(a) /\ Kind[a] # "action"
  BY DEF RunnableIsBelowRunnable
<1>2. Ancestors[e] \ {Root} \subseteq marked
  BY DEF MarkedToTheTop
<1>. QED  BY <1>1, <1>2 DEF Reachable

-----------------------------------------------------------------------------
(***************************************************************************)
(* Nothing is done that is still under way.                                *)
(***************************************************************************)

\* After the messages of q before number i, e is not marked as done.
NotDone(rs, q, i, e) ==
    /\ rs[e] # "DONE"
    /\ \A j \in 1 .. i - 1 : ~(q[j].type = "ELEMENT_ENDED" /\ q[j].el = e)

\* The elements whose end r has still to send, or is in the way of.
HeldOpen(r) ==
    IF r.pc = "waiting" THEN Around(r.at)
    ELSE IF r.pc \in {"start", "begin", "element", "handler", "finish"} THEN Room(r)
    ELSE {}

Held == {e \in Displayed : \E p \in Procs : proc[p].current /\ e \in HeldOpen(proc[p])}

\* What has not ended in the backend, or is still to come.
Pending == Held \cup (Plan \ Begun)

\* A message comes before the end of what is around its element.
SaidInside(rs, q) ==
    \A i \in 1 .. Len(q) : \A a \in Ancestors[q[i].el] \ {Root} : NotDone(rs, q, i, a)

UnderWay ==
    Backend_exists =>
        /\ SaidInside(run_status, to_front)
        /\ \A e \in Pending : NotDone(run_status, to_front, Len(to_front) + 1, e)

\* What execute_children() leaves open is around the element it is called for.
LEMMA HeldByEntering ==
    ASSUME NEW r \in ProcState, NEW el \in {r.base, r.at}
    PROVE  HeldOpen(EnterChildren(r, el)) \subseteq Around(el)
<1>. DEFINE s == EnterChildren(r, el)
<1>0. el \in Element
  BY DEF ProcState
<1>1. CASE HasChildren(el)
  <2>1. s.pc = "element" /\ s.at = el + 1
    BY <1>1 DEF EnterChildren, ProcState
  <2>. QED  BY <1>0, <1>1, <2>1, FirstChildAround DEF HeldOpen, Room
<1>2. CASE ~HasChildren(el)
  <2>1. s.pc \in {"exit", "finish"} /\ s.at = r.at /\ (s.pc = "finish" => el # r.base)
    BY <1>2 DEF EnterChildren, ProcState
  <2>. QED  BY <2>1 DEF HeldOpen, Room
<1>. QED  BY <1>1, <1>2

\* The end of an element.
LEMMA HeldByLeaving ==
    ASSUME NEW r \in ProcState, Walks(r), r.pc \in {"element", "finish"}, NEW good \in BOOLEAN
    PROVE  HeldOpen(LeaveElement(r, good)) \subseteq Ancestors[r.at]
<1>. DEFINE s == LeaveElement(r, good)
            e == r.at
<1>1. e \in Displayed /\ Parent[e] \in Ancestors[e] /\ Around(Parent[e]) \subseteq Ancestors[e]
  <2>1. e \in Displayed
    BY RoomHasBase
  <2>2. Parent[e] \in Ancestors[e]
    BY <2>1, ParentIsInnermost DEF Displayed
  <2>. QED  BY <2>1, <2>2, Order DEF Around, Displayed
<1>2. CASE s.pc = "element"
  <2>1. HasNext(e) /\ s.at = Next_el(e)
    BY <1>2 DEF LeaveElement, ProcState
  <2>. QED  BY <1>1, <1>2, <2>1, SiblingAround DEF HeldOpen, Room
<1>3. CASE s.pc = "finish"
  <2>1. s.at = Parent[e]
    BY <1>3 DEF LeaveElement, ProcState
  <2>. QED  BY <1>1, <1>3, <2>1 DEF HeldOpen, Room
<1>4. s.pc \in {"element", "finish", "exit"}
  BY DEF LeaveElement, ProcState
<1>. QED  BY <1>2, <1>3, <1>4 DEF HeldOpen

\* Any step without a message.
LEMMA HeldByMoving ==
    ASSUME NEW r \in ProcState, Walks(r), NEW s \in ProcState, Quiet(r, s)
    PROVE  HeldOpen(s) \subseteq HeldOpen(r)
<1>0. r.at \in Element /\ r.base \in Element /\ s.base = r.base
  BY DEF ProcState, Quiet, SameRun
<1>1. CASE s.pc \in {r.pc} \cup (IF r.pc = "start" THEN {"begin"} ELSE {}) /\ s.at = r.at /\ s.ok = r.ok
  BY <1>0, <1>1 DEF HeldOpen, Room
<1>2. CASE s.pc = "exit"
  BY <1>2 DEF HeldOpen
<1>3. CASE r.pc = "begin" /\ s = EnterChildren(r, r.base)
  <2>1. HeldOpen(s) \subseteq Around(r.base)
    <3>1. HeldOpen(EnterChildren(r, r.base)) \subseteq Around(r.base)
      BY HeldByEntering
    <3>. QED  BY <1>3, <3>1, Zenon
  <2>. QED  BY <1>3, <2>1 DEF HeldOpen, Room
<1>4. CASE r.pc = "handler" /\ s = EnterChildren(r, r.at)
  <2>1. HeldOpen(s) \subseteq Around(r.at)
    BY <1>4, HeldByEntering
  <2>. QED  BY <1>4, <2>1 DEF HeldOpen, Room
<1>5. CASE r.pc = "handler" /\ s.pc = "finish" /\ s.at = r.at
  BY <1>5 DEF HeldOpen, Room
<1>6. CASE r.pc = "element" /\ s = LeaveElement(r, TRUE)
  <2>1. \A good \in BOOLEAN : HeldOpen(LeaveElement(r, good)) \subseteq Ancestors[r.at]
    BY <1>6, HeldByLeaving
  <2>2. HeldOpen(s) \subseteq Ancestors[r.at]
    BY <1>6, <2>1, Zenon
  <2>. QED  BY <1>6, <2>2 DEF HeldOpen, Room
<1>. QED  BY <1>1, <1>2, <1>3, <1>4, <1>5, <1>6 DEF Quiet

\* A message more makes e done only if it is the end of e.
LEMMA NotDoneAfter ==
    ASSUME NEW rs, NEW q \in Seq(FrontMessage), NEW m \in FrontMessage, NEW e
    PROVE  /\ \A i \in 1 .. Len(q) + 1 : NotDone(rs, q, i, e) => NotDone(rs, Append(q, m), i, e)
           /\ NotDone(rs, q, Len(q) + 1, e) /\ ~(m.type = "ELEMENT_ENDED" /\ m.el = e) =>
                NotDone(rs, Append(q, m), Len(Append(q, m)) + 1, e)
<1>. DEFINE t == Append(q, m)
<1>1. Len(q) \in Nat /\ Len(t) = Len(q) + 1 /\ t[Len(q) + 1] = m /\ \A j \in 1 .. Len(q) : t[j] = q[j]
  BY LenProperties, AppendProperties
<1>. HIDE DEF t
<1>2. \A i \in 1 .. Len(q) + 1 : NotDone(rs, q, i, e) => NotDone(rs, t, i, e)
  BY <1>1 DEF NotDone
<1>3. ASSUME NotDone(rs, q, Len(q) + 1, e), ~(m.type = "ELEMENT_ENDED" /\ m.el = e)
      PROVE  NotDone(rs, t, Len(t) + 1, e)
  <2>1. ASSUME NEW j \in 1 .. Len(t) PROVE ~(t[j].type = "ELEMENT_ENDED" /\ t[j].el = e)
    <3>1. CASE j \in 1 .. Len(q)
      BY <1>1, <1>3, <3>1 DEF NotDone
    <3>2. CASE j = Len(q) + 1
      BY <1>1, <1>3, <3>2
    <3>. QED  BY <1>1, <3>1, <3>2
  <2>2. (Len(t) + 1) - 1 = Len(t)
    BY <1>1
  <2>. QED  BY <1>3, <2>1, <2>2 DEF NotDone
<1>. QED  BY <1>2, <1>3 DEF t

\* A step without a message, or with one.
LEMMA UnderWayStill ==
    ASSUME UnderWay, UNCHANGED <<run_status, backend_pid, to_front>>,
           Backend_exists => Pending' \subseteq Pending
    PROVE  UnderWay'
BY DEF UnderWay, Backend_exists

\* A step that sends m.
LEMMA UnderWaySent ==
    ASSUME UnderWay, to_front \in Seq(FrontMessage), UNCHANGED <<run_status, backend_pid>>,
           NEW m \in FrontMessage, to_front' = Append(to_front, m),
           Backend_exists => /\ Ancestors[m.el] \ {Root} \subseteq Pending
                             /\ Pending' \subseteq Pending
                             /\ m.type = "ELEMENT_ENDED" => m.el \notin Pending'
    PROVE  UnderWay'
<1>. DEFINE q == to_front
            t == Append(q, m)
<1>. SUFFICES ASSUME Backend_exists
              PROVE  SaidInside(run_status, t) /\ \A e \in Pending' : NotDone(run_status, t, Len(t) + 1, e)
  BY DEF UnderWay, Backend_exists
<1>1. SaidInside(run_status, q) /\ \A e \in Pending : NotDone(run_status, q, Len(q) + 1, e)
  BY DEF UnderWay
<1>2. ASSUME NEW e \in Pending' PROVE NotDone(run_status, t, Len(t) + 1, e)
  BY <1>1, <1>2, NotDoneAfter
<1>3. Len(q) \in Nat /\ Len(t) = Len(q) + 1 /\ t[Len(q) + 1] = m /\ \A j \in 1 .. Len(q) : t[j] = q[j]
  BY LenProperties, AppendProperties
<1>4. ASSUME NEW i \in 1 .. Len(t), NEW a \in Ancestors[t[i].el] \ {Root}
      PROVE  NotDone(run_status, t, i, a)
  <2>1. i \in 1 .. Len(q) + 1
    BY <1>3
  <2>2. NotDone(run_status, q, i, a)
    <3>1. CASE i \in 1 .. Len(q)
      BY <1>1, <1>3, <1>4, <3>1 DEF SaidInside
    <3>2. CASE i = Len(q) + 1
      <4>1. a \in Pending
        BY <1>3, <1>4, <3>2
      <4>. QED  BY <1>1, <3>2, <4>1
    <3>. QED  BY <2>1, <3>1, <3>2
  <2>. QED  BY <2>1, <2>2, NotDoneAfter
<1>. QED  BY <1>2, <1>4 DEF SaidInside

\* What is pending after a step of one process.
LEMMA PendingStill ==
    ASSUME Walking, Backend_exists, UNCHANGED <<should_run, started>>,
           ASSUME NEW o \in Procs, proc'[o].current
           PROVE  \/ HeldOpen(proc'[o]) = {}
                  \/ \E p \in Procs : proc[p].current /\ HeldOpen(proc'[o]) \subseteq HeldOpen(proc[p])
    PROVE  Pending' \subseteq Pending
<1>1. Plan' = Plan /\ Begun' = Begun
  BY DEF Plan, Begun
<1>2. \A o \in Procs : HeldOpen(proc[o])' = HeldOpen(proc'[o])
  BY DEF HeldOpen, Room
<1>. QED  BY <1>1, <1>2 DEF Pending, Held

\* A step of the backend without a message.
LEMMA QuietUnderWay ==
    ASSUME Walking, UnderWay, NEW p \in Procs, QuietStep(p)
    PROVE  UnderWay'
<1>. DEFINE r == proc[p]
<1>1. PICK s \in ProcState : proc' = [proc EXCEPT ![p] = s] /\ Quiet(r, s)
  BY DEF QuietStep
<1>2. UNCHANGED <<should_run, started, backend_pid, run_status, to_front>>
  BY DEF QuietStep, run_vars
<1>3. r \in ProcState /\ Walks(r) /\ proc'[p] = s /\ \A o \in Procs \ {p} : proc'[o] = proc[o]
  BY <1>1, WalkType
<1>4. HeldOpen(s) \subseteq HeldOpen(r) /\ s.current = r.current
  BY <1>1, <1>3, HeldByMoving DEF Quiet, SameRun
<1>5. ASSUME NEW o \in Procs, proc'[o].current
      PROVE  \E u \in Procs : proc[u].current /\ HeldOpen(proc'[o]) \subseteq HeldOpen(proc[u])
  BY <1>3, <1>4, <1>5
<1>6. Backend_exists => Pending' \subseteq Pending
  BY <1>2, <1>5, PendingStill
<1>. QED  BY <1>2, <1>6, UnderWayStill

\* A start.
LEMMA StartUnderWay ==
    ASSUME Walking, UnderWay, NEW p \in Procs, StartStep(p)
    PROVE  UnderWay'
<1>. DEFINE r == proc[p]
            s == [r EXCEPT !.pc = "handler"]
            m == [type |-> "ELEMENT_STARTED", el |-> r.at]
<1>1. /\ r \in ProcState /\ r.pc = "element" /\ r.at \in Displayed /\ r.at \in Element
      /\ UNCHANGED <<should_run, backend_pid, run_status>> /\ to_front \in Seq(FrontMessage)
      /\ proc'[p] = s /\ \A o \in Procs \ {p} : proc'[o] = proc[o]
  BY WalkType, ProcType, RoomHasBase DEF StartStep, run_vars, Displayed
<1>2. s.current = r.current /\ HeldOpen(s) = Around(r.at) /\ HeldOpen(r) = Ancestors[r.at]
  BY <1>1 DEF HeldOpen, Room, ProcState
<1>. HIDE DEF s
<1>3. CASE ~r.current
  <2>1. UNCHANGED <<started, to_front>>
    BY <1>3 DEF StartStep
  <2>2. ASSUME NEW o \in Procs, proc'[o].current
        PROVE  \E u \in Procs : proc[u].current /\ HeldOpen(proc'[o]) \subseteq HeldOpen(proc[u])
    BY <1>1, <1>2, <1>3, <2>2
  <2>3. Backend_exists => Pending' \subseteq Pending
    BY <1>1, <2>1, <2>2, PendingStill
  <2>. QED  BY <1>1, <2>1, <2>3, UnderWayStill
<1>4. CASE r.current
  <2>1. m \in FrontMessage /\ m.el = r.at /\ m.type # "ELEMENT_ENDED" /\ to_front' = Append(to_front, m)
    BY <1>1, <1>4 DEF FrontMessage, StartStep
  <2>. HIDE DEF m
  <2>2. ASSUME Backend_exists
        PROVE  Ancestors[r.at] \ {Root} \subseteq Pending /\ Pending' \subseteq Pending
    <3>1. r.at \in Plan \ Begun /\ Begun' = Begun \cup {r.at} /\ Plan' = Plan
      BY <1>1, <1>4, <2>2, StartsNext DEF Plan
    <3>2. Ancestors[r.at] \ {Root} \subseteq Pending
      BY <1>1, <1>2, <1>4, Order DEF Pending, Held, Displayed
    <3>3. Around(r.at) \ {Root} \subseteq Pending
      BY <3>1, <3>2 DEF Around, Pending, Held
    <3>4. \A o \in Procs : HeldOpen(proc[o])' = HeldOpen(proc'[o])
      BY DEF HeldOpen, Room
    <3>5. ASSUME NEW e \in Displayed, NEW o \in Procs, proc'[o].current, e \in HeldOpen(proc'[o])
          PROVE  e \in Pending
      <4>1. CASE o = p
        BY <1>1, <1>2, <3>3, <3>5, <4>1 DEF Displayed
      <4>2. CASE o # p
        BY <1>1, <3>5, <4>2 DEF Pending, Held
      <4>. QED  BY <4>1, <4>2
    <3>6. Plan' \ Begun' \subseteq Pending
      BY <3>1 DEF Pending, Held
    <3>7. Pending' \subseteq Pending
      BY <3>4, <3>5, <3>6 DEF Pending, Held
    <3>. QED  BY <3>2, <3>7
  <2>. QED  BY <1>1, <2>1, <2>2, UnderWaySent
<1>. QED  BY <1>3, <1>4

\* An end.
LEMMA FinishUnderWay ==
    ASSUME Walking, UnderWay, NEW p \in Procs, FinishStep(p)
    PROVE  UnderWay'
<1>. DEFINE r == proc[p]
            s == LeaveElement(r, r.ok)
            m == [type |-> IF r.ok THEN "ELEMENT_ENDED" ELSE "ELEMENT_FAILED", el |-> r.at]
<1>1. /\ r \in ProcState /\ Walks(r) /\ r.pc = "finish" /\ r.at \in Displayed /\ r.at \in Element /\ r.ok \in BOOLEAN
      /\ UNCHANGED <<should_run, backend_pid, run_status, started>> /\ to_front \in Seq(FrontMessage)
      /\ proc'[p] = s /\ \A o \in Procs \ {p} : proc'[o] = proc[o]
  BY WalkType, ProcType, RoomHasBase DEF FinishStep, run_vars, Displayed, ProcState
<1>2. s.current = r.current /\ HeldOpen(s) \subseteq Ancestors[r.at] /\ HeldOpen(r) = Around(r.at)
  <2>1. HeldOpen(s) \subseteq Ancestors[r.at]
    BY <1>1, HeldByLeaving
  <2>. QED  BY <1>1, <2>1 DEF LeaveElement, ProcState, HeldOpen, Room
<1>. HIDE DEF s
<1>3. HeldOpen(s) \subseteq HeldOpen(r)
  BY <1>2 DEF Around
<1>4. ASSUME NEW o \in Procs, proc'[o].current
      PROVE  \E u \in Procs : proc[u].current /\ HeldOpen(proc'[o]) \subseteq HeldOpen(proc[u])
  BY <1>1, <1>2, <1>3, <1>4
<1>5. Backend_exists => Pending' \subseteq Pending
  BY <1>1, <1>4, PendingStill
<1>6. CASE ~r.current
  <2>1. UNCHANGED to_front
    BY <1>6 DEF FinishStep
  <2>. QED  BY <1>1, <1>5, <2>1, UnderWayStill
<1>7. CASE r.current
  <2>1. /\ m \in FrontMessage /\ m.el = r.at /\ to_front' = Append(to_front, m)
        /\ m.type = "ELEMENT_ENDED" => r.ok
    BY <1>1, <1>7 DEF FrontMessage, FinishStep
  <2>. HIDE DEF m
  <2>2. Ancestors[r.at] \ {Root} \subseteq Pending
    BY <1>1, <1>2, <1>7, Order DEF Pending, Held, Displayed, Around
  <2>3. ASSUME Backend_exists, r.ok PROVE r.at \notin Pending'
    <3>1. Walker(r) /\ OneBelowTheOther
      BY <1>1, <1>7, <2>3 DEF Walker, Walking, Running, Family
    <3>2. Begun = Behind(r) /\ Plan' = Plan /\ Begun' = Begun
      BY <1>1, <2>3, <3>1 DEF Walking, WalksThePlan, Plan, Begun
    <3>3. r.at \notin Plan' \ Begun'
      <4>1. r.at \in Plan => r.at \in Behind(r)
        BY <1>1, Positions DEF Behind, StartedTo
      <4>. QED  BY <3>2, <4>1
    <3>4. ASSUME NEW o \in Procs \ {p}, proc[o].current PROVE r.at \notin HeldOpen(proc[o])
      <4>1. CASE Inside(proc[o])
        <5>1. Holds(proc[o], r)
          BY <3>1, <3>4, <4>1, OneWalker
        <5>2. proc[o].at \in Around(r.base) /\ proc[o].pc \in {"waiting", "finish"}
          BY <5>1 DEF Holds
        <5>3. HeldOpen(proc[o]) = Around(proc[o].at)
          BY <5>2 DEF HeldOpen, Room
        <5>4. Around(r.base) \subseteq Ancestors[r.at]
          BY <1>1, RoomHasBase
        <5>. QED  BY <1>1, <5>2, <5>3, <5>4, Order DEF Around
      <4>2. CASE ~Inside(proc[o])
        BY <3>4, <4>2 DEF Inside, HeldOpen
      <4>. QED  BY <4>1, <4>2
    <3>5. \A o \in Procs : HeldOpen(proc[o])' = HeldOpen(proc'[o])
      BY DEF HeldOpen, Room
    <3>6. ASSUME NEW o \in Procs, proc'[o].current PROVE r.at \notin HeldOpen(proc'[o])
      <4>1. CASE o = p
        BY <1>1, <1>2, <4>1, Order
      <4>2. CASE o # p
        BY <1>1, <3>4, <3>6, <4>2
      <4>. QED  BY <4>1, <4>2
    <3>. QED  BY <3>3, <3>5, <3>6 DEF Pending, Held
  <2>. QED  BY <1>1, <1>5, <2>1, <2>2, <2>3, UnderWaySent
<1>. QED  BY <1>6, <1>7

\* A fork.
LEMMA ForkUnderWay ==
    ASSUME Walking, UnderWay, NEW p \in Procs, NEW c \in Procs, ForkStep(p, c)
    PROVE  UnderWay'
<1>. DEFINE r == proc[p]
            w == [r EXCEPT !.pc = "waiting"]
            s == [r EXCEPT !.pc = "start", !.base = r.at, !.sigio = FALSE, !.parent = p]
<1>1. /\ r \in ProcState /\ r.pc = "handler" /\ c # p
      /\ UNCHANGED <<should_run, backend_pid, run_status, to_front, started>>
      /\ proc'[p] = w /\ proc'[c] = s /\ \A o \in Procs \ {p, c} : proc'[o] = proc[o]
  BY WalkType DEF ForkStep, run_vars
<1>2. /\ w.current = r.current /\ s.current = r.current
      /\ HeldOpen(w) = HeldOpen(r) /\ HeldOpen(s) = HeldOpen(r)
  BY <1>1 DEF ProcState, HeldOpen, Room
<1>. HIDE DEF w, s
<1>3. ASSUME NEW o \in Procs, proc'[o].current
      PROVE  \E u \in Procs : proc[u].current /\ HeldOpen(proc'[o]) \subseteq HeldOpen(proc[u])
  BY <1>1, <1>2, <1>3
<1>4. Backend_exists => Pending' \subseteq Pending
  BY <1>1, <1>3, PendingStill
<1>. QED  BY <1>1, <1>4, UnderWayStill

\* An exit.
LEMMA ExitUnderWay ==
    ASSUME Walking, UnderWay, NEW p \in Procs, exit_process(p)
    PROVE  UnderWay'
<1>1. /\ Running /\ proc[p].pc = "exit"
      /\ UNCHANGED <<should_run, backend_pid, run_status, to_front, started>>
  BY DEF Walking, exit_process
<1>2. /\ proc'[p].pc \in {"zombie", "free"}
      /\ \A c \in Procs \ {p} :
           /\ proc'[c].base = proc[c].base /\ proc'[c].at = proc[c].at /\ proc'[c].current = proc[c].current
           /\ IF Wakes(p, c) THEN proc'[c].pc = "finish" ELSE proc'[c].pc = proc[c].pc
  BY <1>1, ExitLeaves
<1>3. ASSUME NEW o \in Procs, proc'[o].current
      PROVE  \/ HeldOpen(proc'[o]) = {}
             \/ \E u \in Procs : proc[u].current /\ HeldOpen(proc'[o]) \subseteq HeldOpen(proc[u])
  <2>1. CASE o = p
    BY <1>2, <2>1 DEF HeldOpen
  <2>2. CASE o # p
    <3>1. proc[o].current /\ HeldOpen(proc'[o]) = HeldOpen(proc[o])
      BY <1>2, <1>3, <2>2 DEF HeldOpen, Room, Wakes
    <3>. QED  BY <3>1
  <2>. QED  BY <2>1, <2>2
<1>4. Backend_exists => Pending' \subseteq Pending
  BY <1>1, <1>3, PendingStill
<1>. QED  BY <1>1, <1>4, UnderWayStill

-----------------------------------------------------------------------------
(***************************************************************************)
(* What is below a done element is done.                                   *)
(***************************************************************************)
DoneAllTheWay ==
    \A e \in Element : Can_run(e) =>
        \A a \in Ancestors[e] \ {Root} : run_status[a] = "DONE" => run_status[e] = "DONE"

\* Below x, everything is below a child of x, or one.
LEMMA ChildAround ==
    ASSUME NEW e \in Element, NEW x \in Ancestors[e]
    PROVE  \E c \in Children[x] : c \in Around(e)
<1>. DEFINE S == {y \in Around(e) : x \in Ancestors[y]}
<1>1. S \subseteq Element /\ e \in S /\ x \in Element
  BY Order DEF Around
<1>2. PICK c \in S : \A y \in S : c <= y
  <2>. HIDE DEF S
  <2>. QED  BY <1>1, FirstOfElements
<1>3. c \in Element \ {Root} /\ c \in Around(e) /\ x \in Ancestors[c]
  BY <1>1, <1>2, Order
<1>4. Parent[c] \in Ancestors[c] /\ Parent[c] \in Element /\ Parent[c] \in Around(e)
  BY <1>3, ParentIsInnermost, Order DEF Around
<1>5. Parent[c] < c /\ Parent[c] \in Nat /\ c \in Nat
  BY <1>3, <1>4, Positions
<1>6. Parent[c] \notin S
  BY <1>2, <1>5
<1>7. Parent[c] = x
  BY <1>3, <1>4, <1>6, ParentIsInnermost
<1>. QED  BY <1>1, <1>3, <1>7 DEF Children

\* The end of x makes it done only when all is done below it.
LEMMA EndedAllTheWay ==
    ASSUME RunnableIsBelowRunnable, DoneAllTheWay, run_status \in [Element -> RunStatus],
           NEW x \in Element, get_element_status(run_status, x) = "DONE",
           NEW e \in Element, Can_run(e), x \in Ancestors[e]
    PROVE  run_status[e] = "DONE"
<1>1. HasChildren(x)
  BY Positions DEF HasChildren
<1>2. PICK c \in Children[x] : c \in Around(e)
  BY ChildAround
<1>3. c \in Element /\ c # Root
  BY ChildrenBelow DEF Displayed
<1>4. Can_run(c)
  BY <1>2, <1>3 DEF Around, RunnableIsBelowRunnable
<1>5. \A s : run_status[c] = s => has_child_with_run_status(run_status, x, s)
  BY <1>2, <1>4 DEF has_child_with_run_status
<1>6. /\ ~has_child_with_run_status(run_status, x, "RUNNING")
      /\ ~has_child_with_run_status(run_status, x, "FAILED")
      /\ ~has_child_with_run_status(run_status, x, "NONE")
      /\ ~has_child_with_run_status(run_status, x, "SOME_DONE")
  BY <1>1 DEF get_element_status
<1>7. run_status[c] = "DONE"
  BY <1>3, <1>5, <1>6 DEF RunStatus
<1>. QED  BY <1>2, <1>3, <1>7 DEF Around, DoneAllTheWay

\* A message is read.
LEMMA NotDoneRead ==
    ASSUME Inductive, handle_ctrl_msg, NEW i \in 1 .. Len(to_front), NEW e \in Element,
           NotDone(run_status, to_front, i + 1, e)
    PROVE  NotDone(run_status', Tail(to_front), i, e)
<1>. DEFINE q == to_front
            t == Tail(q)
            m == q[1]
<1>1. /\ q \in Seq(FrontMessage) /\ Len(q) \in Nat \ {0} /\ run_status \in [Element -> RunStatus]
      /\ \A j \in 1 .. Len(q) - 1 : t[j] = q[j + 1]
  <2>1. q \in Seq(FrontMessage) /\ Len(q) \in Nat \ {0} /\ q # <<>> /\ run_status \in [Element -> RunStatus]
    BY MessageHandled, ProcType
  <2>. QED  BY <2>1, HeadTailProperties
<1>2. ~(m.type = "ELEMENT_ENDED" /\ m.el = e)
  <2>1. 1 \in 1 .. (i + 1) - 1
    OBVIOUS
  <2>. QED  BY <2>1 DEF NotDone
<1>3. run_status'[e] # "DONE"
  <2>1. run_status[e] # "DONE"
    BY DEF NotDone
  <2>. QED  BY <1>1, <1>2, <2>1, MessageHandled
            DEF element_started, element_ended, element_failed, set_run_status
<1>4. ASSUME NEW j \in 1 .. i - 1 PROVE ~(t[j].type = "ELEMENT_ENDED" /\ t[j].el = e)
  <2>1. j + 1 \in 1 .. (i + 1) - 1 /\ j \in 1 .. Len(q) - 1
    BY <1>1
  <2>2. t[j] = q[j + 1]
    BY <1>1, <2>1
  <2>. HIDE DEF t
  <2>. QED  BY <2>1, <2>2 DEF NotDone
<1>. QED  BY <1>3, <1>4 DEF NotDone

\* What is pending is in the tree.
LEMMA PendingType ==
    ASSUME Walking PROVE Pending \subseteq Element
BY WalkType, InPlan DEF Pending, Held, Displayed

\* What the frontend reads leaves what is under way not done, and marks an element
\* as done only when all below it is.
LEMMA ReadUnderWay ==
    ASSUME Walking, UnderWay, RunnableIsBelowRunnable, DoneAllTheWay, handle_ctrl_msg
    PROVE  UnderWay' /\ DoneAllTheWay'
<1>. DEFINE q == to_front
            t == Tail(q)
            x == q[1].el
<1>1. /\ Inductive /\ Backend_exists /\ to_front' = t /\ q \in Seq(FrontMessage) /\ Len(q) \in Nat \ {0}
      /\ x \in Element /\ run_status \in [Element -> RunStatus]
      /\ UNCHANGED <<backend_pid, proc, should_run, started>>
  <2>1. Inductive
    BY WalkType
  <2>2. UNCHANGED <<should_run, started>>
    BY DEF handle_ctrl_msg, backend_vars
  <2>. QED  BY <2>1, <2>2, MessageHandled, ProcType
<1>2. Len(t) = Len(q) - 1 /\ \A j \in 1 .. Len(q) - 1 : t[j] = q[j + 1]
  BY <1>1, EmptySeq, HeadTailProperties
<1>3. SaidInside(run_status, q) /\ \A e \in Pending : NotDone(run_status, q, Len(q) + 1, e)
  BY <1>1 DEF UnderWay
<1>4. \A i \in 1 .. Len(q), e \in Element : NotDone(run_status, q, i + 1, e) => NotDone(run_status', t, i, e)
  BY <1>1, NotDoneRead
<1>. HIDE DEF t
<1>5. ASSUME NEW i \in 1 .. Len(t), NEW a \in Ancestors[t[i].el] \ {Root}
      PROVE  NotDone(run_status', t, i, a)
  <2>1. i + 1 \in 1 .. Len(q) /\ i \in 1 .. Len(q) /\ t[i] = q[i + 1]
    BY <1>1, <1>2
  <2>2. a \in Element
    BY <1>1, <1>5, <2>1, MessagesOf, Order
  <2>3. NotDone(run_status, q, i + 1, a)
    BY <1>3, <1>5, <2>1 DEF SaidInside
  <2>. QED  BY <1>4, <2>1, <2>2, <2>3
<1>6. Pending' = Pending
  BY <1>1 DEF Pending, Held, HeldOpen, Room, Plan, Begun
<1>7. ASSUME NEW e \in Pending PROVE NotDone(run_status', t, Len(t) + 1, e)
  <2>1. Len(t) + 1 = Len(q) /\ Len(q) \in 1 .. Len(q)
    BY <1>1, <1>2
  <2>. QED  BY <1>3, <1>4, <1>7, <2>1, PendingType
<1>8. UnderWay'
  BY <1>1, <1>5, <1>6, <1>7 DEF UnderWay, SaidInside
<1>9. \A a \in Ancestors[x] \ {Root} : run_status[a] # "DONE"
  <2>1. 1 \in 1 .. Len(q)
    BY <1>1
  <2>. QED  BY <1>3, <2>1 DEF SaidInside, NotDone
<1>10. /\ \A e \in Element \ {x} : run_status'[e] = run_status[e]
       /\ run_status'[x] = "DONE" =>
             get_element_status(run_status, x) = "DONE" \/ run_status'[x] = run_status[x]
  BY <1>1, MessageHandled DEF element_started, element_ended, element_failed, set_run_status
<1>11. ASSUME NEW e \in Element, Can_run(e), NEW a \in Ancestors[e] \ {Root}, run_status'[a] = "DONE"
       PROVE  run_status'[e] = "DONE"
  <2>1. a \in Element /\ a # e
    BY <1>11, Order
  <2>2. CASE a # x
    <3>1. run_status[a] = "DONE"
      BY <1>10, <1>11, <2>1, <2>2
    <3>2. run_status[e] = "DONE" /\ e # x
      BY <1>9, <1>11, <3>1 DEF DoneAllTheWay
    <3>. QED  BY <1>10, <3>2
  <2>3. CASE a = x
    <3>1. run_status[e] = "DONE"
      BY <1>1, <1>10, <1>11, <2>3, EndedAllTheWay DEF DoneAllTheWay
    <3>. QED  BY <1>10, <2>1, <2>3, <3>1
  <2>. QED  BY <2>2, <2>3
<1>. QED  BY <1>8, <1>11 DEF DoneAllTheWay

\* The end of a run marks whole paths to the root as failed.
LEMMA CollectUnderWay ==
    ASSUME Inductive, RunnableIsBelowRunnable, DoneAllTheWay, wait_for_the_backend
    PROVE  UnderWay' /\ DoneAllTheWay'
<1>1. UnderWay'
  BY DEF wait_for_the_backend, UnderWay, Backend_exists
<1>2. run_status' = run_status \/ run_status' = change_run_status_to_failed
  BY DEF wait_for_the_backend
<1>3. ASSUME run_status' = change_run_status_to_failed, NEW e \in Element, Can_run(e),
             NEW a \in Ancestors[e] \ {Root}, run_status'[a] = "DONE"
      PROVE  run_status'[e] = "DONE"
  <2>1. a \in Element /\ Can_run(a) /\ current_running \in Element
    BY <1>3, Order DEF RunnableIsBelowRunnable, Inductive, TypeOK
  <2>2. current_running \notin Subtree[a] /\ run_status[a] = "DONE"
    BY <1>3, <2>1 DEF change_run_status_to_failed
  <2>3. current_running \notin Subtree[e]
    BY <1>3, <2>1, <2>2, Order
  <2>4. run_status[e] = "DONE"
    BY <1>3, <2>2 DEF DoneAllTheWay
  <2>. QED  BY <1>3, <2>3, <2>4 DEF change_run_status_to_failed
<1>. QED  BY <1>1, <1>2, <1>3 DEF DoneAllTheWay

\* At the beginning of a run nothing that is scheduled is done.
LEMMA BeginUnderWay ==
    ASSUME Inductive, NEW scheduled, NEW statuses, start_executing(scheduled, statuses),
           \A e \in scheduled \ {Root} : statuses[e] # "DONE"
    PROVE  UnderWay'
<1>1. PICK p \in Procs :
         /\ should_run' = scheduled /\ started' = <<>> /\ to_front' = <<>> /\ run_status' = statuses
         /\ proc'[p].pc = "start" /\ proc'[p].base = Root
         /\ \A o \in Procs \ {p} : ~proc'[o].current
  BY BeginsAtRoot
<1>2. HeldOpen(proc[p])' = {Root}
  BY <1>1, Order DEF HeldOpen, Room, Around
<1>3. Pending' \subseteq scheduled \ {Root}
  <2>1. Plan' \subseteq scheduled \ {Root}
    BY <1>1 DEF Plan, Reachable
  <2>. QED  BY <1>1, <1>2, <2>1 DEF Pending, Held, Displayed
<1>4. Len(<<>>) = 0 /\ (0 + 1) - 1 = 0
  OBVIOUS
<1>5. \A e \in Pending' : NotDone(statuses, <<>>, Len(<<>>) + 1, e)
  <2>1. 1 .. 0 = {}
    OBVIOUS
  <2>. QED  BY <1>3, <1>4, <2>1 DEF NotDone
<1>6. SaidInside(statuses, <<>>)
  BY <1>4 DEF SaidInside
<1>. QED  BY <1>1, <1>5, <1>6 DEF UnderWay

\* The keys that start a run.
LEMMA BeginKeys ==
    ASSUME Inductive, BeginStep, UserKey \/ Frontend \/ UNCHANGED vars, "sf" \notin Keys
    PROVE  start_executing_marked \/ \E e \in Cursor : start_executing_children(e) \/ start_executing_next(e)
<1>1. backend_pid' # backend_pid /\ backend_pid = NoProc
  <2>1. backend_pid' \in Procs
    BY DEF BeginStep, start_executing
  <2>. QED  BY <2>1, ProcType DEF BeginStep, Backend_exists
<1>2. CASE UserKey
  <2>1. ~stop_key /\ ~pause_key
    BY <1>1 DEF stop_key, pause_key, Backend_exists
  <2>2. \A all \in BOOLEAN : ~clear_marks(all)
    BY <1>1 DEF clear_marks, mark_vars
  <2>3. \A e \in Cursor : ~mark_element(e) /\ ~force_executing(e)
    BY <1>1 DEF mark_element, mark_vars, force_executing, Pressed
  <2>4. \A e \in Cursor, s \in {"DONE", "FAILED", "NONE"} : ~change_run_status_marks(e, s)
    BY <1>1 DEF change_run_status_marks
  <2>. QED  BY <1>2, <2>1, <2>2, <2>3, <2>4 DEF UserKey
<1>3. CASE Frontend
  BY <1>1, <1>3 DEF Frontend, handle_ctrl_msg, read_all_messages, wait_for_the_backend
<1>4. CASE UNCHANGED vars
  BY <1>1, <1>4 DEF vars, frontend_vars
<1>. QED  BY <1>2, <1>3, <1>4

\* The keys other than 's' 'f' schedule nothing that is done.
LEMMA KeysBegin ==
    ASSUME Inductive, DoneAllTheWay, MarkedToTheTop, should_run = {},
           start_executing_marked \/ \E e \in Cursor : start_executing_children(e) \/ start_executing_next(e)
    PROVE  UnderWay' /\ DoneAllTheWay'
<1>1. /\ run_status \in [Element -> RunStatus] /\ marked \subseteq Element
      /\ \A e \in Element : Subtree[e] \subseteq Element /\ e \in Subtree[e]
  BY Positions DEF Inductive, TypeOK, Subtree
<1>2. \A e \in Element : \A x \in MarkedForRunning(run_status, e) : x \in Element /\ run_status[x] # "DONE"
  BY <1>1 DEF MarkedForRunning
<1>3. CASE start_executing_marked
  <2>. DEFINE rs == [e \in Element |-> IF e \in marked THEN "NONE" ELSE run_status[e]]
  <2>1. start_executing(marked, rs)
    BY <1>3 DEF start_executing_marked
  <2>2. \A e \in marked : rs[e] # "DONE"
    BY <1>1
  <2>3. UnderWay'
    BY <2>1, <2>2, BeginUnderWay
  <2>4. run_status' = rs
    BY <2>1 DEF start_executing
  <2>5. ASSUME NEW e \in Element, Can_run(e), NEW a \in Ancestors[e] \ {Root}, rs[a] = "DONE"
        PROVE  rs[e] = "DONE"
    <3>1. a \in Element
      BY <2>5, Order
    <3>2. a \notin marked /\ run_status[a] = "DONE"
      BY <2>5, <3>1
    <3>3. e \notin marked /\ run_status[e] = "DONE"
      BY <2>5, <3>2 DEF MarkedToTheTop, DoneAllTheWay
    <3>. QED  BY <3>3
  <2>. HIDE DEF rs
  <2>. QED  BY <2>3, <2>4, <2>5 DEF DoneAllTheWay
<1>4. ASSUME NEW e \in Cursor, NEW S, start_executing(should_run \cup Ancestors[e] \cup S, run_status),
             Can_run(e), run_status[e] # "DONE", \A x \in S : run_status[x] # "DONE"
      PROVE  UnderWay' /\ DoneAllTheWay'
  <2>1. \A a \in Ancestors[e] \ {Root} : run_status[a] # "DONE"
    BY <1>4, CursorType DEF DoneAllTheWay
  <2>2. \A x \in (should_run \cup Ancestors[e] \cup S) \ {Root} : run_status[x] # "DONE"
    BY <1>4, <2>1
  <2>3. UnderWay'
    BY <1>4, <2>2, BeginUnderWay
  <2>4. run_status' = run_status
    BY <1>4 DEF start_executing
  <2>. QED  BY <2>3, <2>4 DEF DoneAllTheWay
<1>5. ASSUME NEW e \in Cursor, start_executing_children(e) PROVE UnderWay' /\ DoneAllTheWay'
  BY <1>2, <1>4, <1>5, CursorType DEF start_executing_children, executing_children
<1>6. ASSUME NEW e \in Cursor, start_executing_next(e) PROVE UnderWay' /\ DoneAllTheWay'
  <2>. DEFINE S == UNION {MarkedForRunning(run_status, x) : x \in FromHere(e)}
  <2>1. FromHere(e) \subseteq Element
    <3>1. e \in Element \ {Root}
      BY <1>6, ExecutionAssumption DEF Displayed
    <3>2. Parent[e] \in Element
      BY <3>1, ParentIsInnermost, Order
    <3>. QED  BY <3>2 DEF FromHere, Children
  <2>2. \A x \in S : run_status[x] # "DONE"
    BY <1>2, <2>1
  <2>3. /\ start_executing(should_run \cup Ancestors[e] \cup S, run_status)
        /\ Can_run(e) /\ run_status[e] # "DONE"
    BY <1>6 DEF start_executing_next
  <2>. HIDE DEF S
  <2>. QED  BY <1>4, <2>2, <2>3
<1>. QED  BY <1>3, <1>5, <1>6

\* The steps of the frontend and the user within a run, without 'm'.
LEMMA MarkUnderWay ==
    ASSUME Walking, UnderWay, RunnableIsBelowRunnable, DoneAllTheWay, MarkStep, "m" \notin Keys
    PROVE  UnderWay' /\ DoneAllTheWay'
<1>1. CASE handle_ctrl_msg
  BY <1>1, ReadUnderWay
<1>2. \A e \in Cursor, s \in {"DONE", "FAILED", "NONE"} : ~change_run_status_marks(e, s)
  BY DEF change_run_status_marks, Pressed
<1>3. CASE UNCHANGED <<run_status, to_front>>
  <2>1. \A o \in Procs : proc'[o].current = proc[o].current /\ HeldOpen(proc'[o]) = HeldOpen(proc[o])
    BY DEF MarkStep, SameWalk, SameRun, HeldOpen, Room
  <2>2. Backend_exists => Pending' \subseteq Pending
    BY <2>1, PendingStill DEF MarkStep
  <2>3. UnderWay'
    BY <1>3, <2>2, UnderWayStill DEF MarkStep
  <2>. QED  BY <1>3, <2>3 DEF DoneAllTheWay
<1>. QED  BY <1>1, <1>2, <1>3 DEF MarkStep

\* Who touches the marks.
LEMMA MarkedChanges ==
    ASSUME [Next]_vars
    PROVE  \/ marked' = marked
           \/ \E e \in Cursor : mark_element(e)
           \/ \E all \in BOOLEAN : clear_marks(all)
<1>1. CASE UserKey
  BY <1>1 DEF UserKey, start_executing_marked, start_executing_children, start_executing_next,
              force_executing, executing_children, start_executing, stop_key, pause_key, send_command,
              change_run_status_marks
<1>2. CASE Frontend
  BY <1>2 DEF Frontend, handle_ctrl_msg, read_all_messages, wait_for_the_backend
<1>3. ASSUME NEW p \in Procs, signal_io(p) \/ Backend(p) \/ run_action(p) \/ fatal_backend_error(p)
      PROVE  marked' = marked
  BY <1>3 DEF signal_io, Backend, Start_receiving_sigio, begin_children, do_execute_element,
              run_container, run_fork, finish_element, exit_process, run_action, fatal_backend_error,
              walk_vars, frontend_vars
<1>4. CASE UNCHANGED vars
  BY <1>4 DEF vars, frontend_vars
<1>. QED  BY <1>1, <1>2, <1>3, <1>4 DEF Next

\* '*', 'u' and 'U' keep what is marked together.
LEMMA MarkedStill ==
    ASSUME Inductive, RunnableIsBelowRunnable, MarkedToTheTop, [Next]_vars,
           "u" \in Keys => DoneAllTheWay
    PROVE  MarkedToTheTop'
<1>1. marked \subseteq Element
  BY DEF Inductive, TypeOK
<1>2. CASE marked' = marked
  BY <1>2 DEF MarkedToTheTop
<1>3. ASSUME NEW e \in Cursor, mark_element(e) PROVE MarkedToTheTop'
  BY <1>1, <1>3, CursorType, MarksHangTogether
<1>4. ASSUME NEW all \in BOOLEAN, clear_marks(all) PROVE MarkedToTheTop'
  <2>1. CASE all
    <3>1. marked' = {}
      BY <1>4, <2>1 DEF clear_marks
    <3>. QED  BY <3>1 DEF MarkedToTheTop
  <2>2. CASE ~all
    <3>1. marked' = {e \in marked : run_status[e] # "DONE"} /\ DoneAllTheWay
      BY <1>4, <2>2 DEF clear_marks, Pressed
    <3>2. ASSUME NEW e \in marked', Can_run(e), NEW a \in Ancestors[e] \ {Root} PROVE a \in marked'
      <4>1. e \in marked /\ a \in marked /\ run_status[e] # "DONE"
        BY <3>1, <3>2 DEF MarkedToTheTop
      <4>2. run_status[a] # "DONE"
        BY <1>1, <3>1, <3>2, <4>1 DEF DoneAllTheWay
      <4>. QED  BY <3>1, <4>1, <4>2
    <3>. QED  BY <3>2 DEF MarkedToTheTop
  <2>. QED  BY <2>1, <2>2
<1>. QED  BY <1>2, <1>3, <1>4, MarkedChanges

Marking ==
    /\ Walking /\ UnderWay /\ DoneAllTheWay /\ MarkedToTheTop
    /\ ~Backend_exists => should_run = {}

\* The invariant of MarksAreRun holds at first.
LEMMA InitMarking == Init => Marking
<1>. SUFFICES ASSUME Init PROVE Marking
  OBVIOUS
<1>1. Walking
  BY InitWalking
<1>2. UnderWay /\ DoneAllTheWay /\ MarkedToTheTop /\ should_run = {}
  BY Order DEF Init, UnderWay, DoneAllTheWay, MarkedToTheTop, Backend_exists
<1>. QED  BY <1>1, <1>2 DEF Marking

\* Every step keeps it.
LEMMA NextMarking ==
    ASSUME RunnableIsBelowRunnable, "sf" \notin Keys, "m" \notin Keys
    PROVE  Marking /\ [Next]_vars => Marking'
<1>. SUFFICES ASSUME Marking, [Next]_vars PROVE Marking'
  OBVIOUS
<1>1. Walking /\ Walking' /\ Inductive
  BY NextWalking, WalkType DEF Marking
<1>2. MarkedToTheTop'
  BY <1>1, MarkedStill DEF Marking
<1>3. ASSUME NEW p \in Procs, Steps(p)
      PROVE  UnderWay' /\ DoneAllTheWay' /\ (~Backend_exists' => should_run' = {})
  <2>1. UnderWay'
    BY <1>1, <1>3, QuietUnderWay, StartUnderWay, FinishUnderWay, ForkUnderWay, ExitUnderWay
       DEF Steps, Marking
  <2>2. UNCHANGED <<run_status, should_run, backend_pid>>
    BY <1>3 DEF Steps, QuietStep, StartStep, FinishStep, ForkStep, exit_process, run_vars
  <2>. QED  BY <2>1, <2>2 DEF DoneAllTheWay, Marking, Backend_exists
<1>4. CASE UserKey \/ Frontend \/ UNCHANGED vars
  <2>1. CASE BeginStep
    <3>1. should_run = {} /\ Backend_exists'
      <4>1. backend_pid' \in Procs
        BY <2>1 DEF BeginStep, start_executing
      <4>. QED  BY <1>1, <2>1, <4>1, ProcType DEF BeginStep, Marking, Backend_exists
    <3>2. UnderWay' /\ DoneAllTheWay'
      BY <1>1, <1>4, <2>1, <3>1, BeginKeys, KeysBegin DEF Marking
    <3>. QED  BY <1>1, <1>2, <3>1, <3>2 DEF Marking
  <2>2. CASE wait_for_the_backend
    <3>1. UnderWay' /\ DoneAllTheWay'
      BY <1>1, <2>2, CollectUnderWay DEF Marking
    <3>2. should_run' = {}
      BY <2>2 DEF wait_for_the_backend
    <3>. QED  BY <1>1, <1>2, <3>1, <3>2 DEF Marking
  <2>3. CASE MarkStep
    <3>1. UnderWay' /\ DoneAllTheWay'
      BY <1>1, <2>3, MarkUnderWay DEF Marking
    <3>2. ~Backend_exists' => should_run' = {}
      BY <2>3 DEF MarkStep, Marking, Backend_exists
    <3>. QED  BY <1>1, <1>2, <3>1, <3>2 DEF Marking
  <2>. QED  BY <1>1, <1>4, <2>1, <2>2, <2>3, OtherSteps
<1>5. (\E p \in Procs : Steps(p)) \/ UserKey \/ Frontend \/ UNCHANGED vars
  BY <1>1, ProcessSteps DEF Next
<1>. QED  BY <1>1, <1>2, <1>3, <1>4, <1>5 DEF Marking

\* Whatever the user marks, unmarks and runs in between, as long as 'u' is not
\* used together with forced runs or status marks made by hand (with either it
\* is false, README.md, section 3): a mark on an element that can run is never
\* left below a parent without one.
THEOREM MarksAreRun ==
    ASSUME RunnableIsBelowRunnable, "u" \notin Keys \/ ("sf" \notin Keys /\ "m" \notin Keys)
    PROVE  Spec => []MarkedWouldRun
<1>1. CASE "u" \notin Keys
  <2>1. Init => Inductive /\ MarkedToTheTop
    BY InitMarking, WalkType DEF Marking
  <2>2. Inductive /\ MarkedToTheTop /\ [Next]_vars => (Inductive /\ MarkedToTheTop)'
    BY <1>1, NextInductive, MarkedStill
  <2>3. Inductive /\ MarkedToTheTop => MarkedWouldRun
    BY MarkedIsReachable DEF Inductive, TypeOK
  <2>. QED  BY <2>1, <2>2, <2>3, PTL DEF Spec
<1>2. CASE "sf" \notin Keys /\ "m" \notin Keys
  <2>1. Marking /\ [Next]_vars => Marking'
    BY <1>2, NextMarking
  <2>2. Marking => MarkedWouldRun
    BY WalkType, MarkedIsReachable DEF Marking, Inductive, TypeOK
  <2>. QED  BY <2>1, <2>2, InitMarking, PTL DEF Spec
<1>. QED  BY <1>1, <1>2

-----------------------------------------------------------------------------
(***************************************************************************)
(* Marks that disagree with the marks below them.                          *)
(***************************************************************************)
Mixed(rs) ==
    {e \in Displayed : /\ Can_run(e) /\ \E c \in Children[e] : Can_run(c)
                       /\ rs[e] \notin {"FAILED", get_element_status(rs, e)}}

\* A mark that changes makes no other disagree than those around it.
LEMMA StatusOfOthers ==
    ASSUME NEW rs, NEW st, NEW e \in Element, \A c \in Children[e] : st[c] = rs[c]
    PROVE  get_element_status(st, e) = get_element_status(rs, e)
<1>1. \A s : has_child_with_run_status(st, e, s) = has_child_with_run_status(rs, e, s)
  BY DEF has_child_with_run_status
<1>. QED  BY <1>1 DEF get_element_status

\* All of them together.
LEMMA MixedAround ==
    ASSUME NEW rs, NEW st, NEW x \in Element, \A e \in Element \ {x} : st[e] = rs[e]
    PROVE  /\ Mixed(st) \subseteq Mixed(rs) \cup Around(x)
           /\ get_element_status(st, x) = get_element_status(rs, x)
<1>1. ASSUME NEW e \in Mixed(st), e \notin Around(x) PROVE e \in Mixed(rs)
  <2>1. e \in Element /\ e # x
    BY <1>1 DEF Mixed, Displayed, Around
  <2>2. ASSUME NEW c \in Children[e] PROVE st[c] = rs[c]
    <3>1. c \in Element /\ e \in Ancestors[c]
      BY <2>1, ChildrenBelow DEF Displayed
    <3>2. c # x
      BY <1>1, <3>1 DEF Around
    <3>. QED  BY <3>1, <3>2
  <2>3. get_element_status(st, e) = get_element_status(rs, e)
    BY <2>1, <2>2, StatusOfOthers
  <2>. QED  BY <2>1, <2>3 DEF Mixed
<1>2. ASSUME NEW c \in Children[x] PROVE st[c] = rs[c]
  BY ChildrenBelow, Order DEF Displayed
<1>3. get_element_status(st, x) = get_element_status(rs, x)
  BY <1>2, StatusOfOthers
<1>. QED  BY <1>1, <1>3

\* 'm' makes nothing disagree: below e all is s, and what is around e says what
\* is below it.
LEMMA MixedLess ==
    ASSUME NEW rs \in [Element -> RunStatus], NEW y \in Element, NEW s \in {"DONE", "FAILED", "NONE"}
    PROVE  Mixed(ChangedStatuses(rs, y, s)) \subseteq Mixed(rs)
<1>. DEFINE st == ChangedStatuses(rs, y, s)
<1>1. \A x \in Element : st[x] = ChangedStatus(rs, y, s, st, x)
  BY ChangedStatusesAre DEF RunStatus
<1>. HIDE DEF st
<1>. SUFFICES ASSUME NEW e \in Mixed(st), e \notin Mixed(rs) PROVE FALSE
  BY DEF st
<1>2. e \in Element /\ Can_run(e) /\ st[e] # "FAILED" /\ st[e] # get_element_status(st, e)
  BY DEF Mixed, Displayed
<1>3. \A c \in Children[e] : c \in Element /\ e \in Ancestors[c]
  BY <1>2, ChildrenBelow DEF Displayed
<1>4. e \notin Subtree[y]
  <2>. SUFFICES ASSUME e \in Subtree[y] PROVE FALSE
    OBVIOUS
  <2>1. st[e] = s
    BY <1>1, <1>2 DEF ChangedStatus
  <2>2. ASSUME NEW c \in Children[e], Can_run(c) PROVE st[c] = s
    <3>1. c \in Subtree[y]
      BY <1>2, <1>3, Order
    <3>. QED  BY <1>1, <1>3, <2>2, <3>1 DEF ChangedStatus
  <2>3. PICK c \in Children[e] : Can_run(c)
    BY DEF Mixed
  <2>4. HasChildren(e)
    BY <1>2, <1>3, <2>3, Positions DEF HasChildren
  <2>5. \A u : has_child_with_run_status(st, e, u) <=> u = s
    BY <2>2, <2>3 DEF has_child_with_run_status
  <2>6. CASE s = "DONE"
    <3>1. get_element_status(st, e) = "DONE"
      BY <2>4, <2>5, <2>6 DEF get_element_status
    <3>. QED  BY <1>2, <2>1, <2>6, <3>1
  <2>7. CASE s = "NONE"
    <3>1. get_element_status(st, e) = "NONE"
      BY <2>4, <2>5, <2>7 DEF get_element_status
    <3>. QED  BY <1>2, <2>1, <2>7, <3>1
  <2>. QED  BY <1>2, <2>1, <2>6, <2>7
<1>5. e \notin Ancestors[y]
  BY <1>1, <1>2, <1>4 DEF ChangedStatus
<1>6. st[e] = rs[e]
  BY <1>1, <1>2, <1>4, <1>5 DEF ChangedStatus
<1>7. ASSUME NEW c \in Children[e] PROVE st[c] = rs[c]
  <2>1. c \notin Ancestors[y]
    BY <1>2, <1>3, <1>5, Order
  <2>2. c \notin Subtree[y]
    <3>1. c # y
      BY <1>3, <1>5
    <3>2. Parent[c] = e /\ c # Root
      BY <1>2 DEF Children
    <3>3. y \notin Ancestors[c]
      <4>1. c \in Element \ {Root}
        BY <1>3, <3>2
      <4>2. y \in Ancestors[c] => y = e \/ y \in Ancestors[e]
        BY <3>2, <4>1, ParentIsInnermost
      <4>. QED  BY <1>2, <1>4, <4>2, Order
    <3>. QED  BY <1>3, <3>1, <3>3, Order
  <2>. QED  BY <1>1, <1>3, <2>1, <2>2 DEF ChangedStatus
<1>8. get_element_status(st, e) = get_element_status(rs, e)
  BY <1>2, <1>7, StatusOfOthers
<1>. QED  BY <1>2, <1>6, <1>8 DEF Mixed

\* The marks at the end of a run that has failed leave nothing that disagrees.
LEMMA MixedNoMore ==
    ASSUME current_running \in Element,
           \A e \in Mixed(run_status) : current_running \in Subtree[e]
    PROVE  Mixed(change_run_status_to_failed) = {}
<1>. DEFINE st == change_run_status_to_failed
<1>1. \A x \in Element : st[x] = IF Can_run(x) /\ current_running \in Subtree[x] THEN "FAILED"
                                ELSE run_status[x]
  BY DEF change_run_status_to_failed
<1>. HIDE DEF st
<1>. SUFFICES ASSUME NEW e \in Mixed(st) PROVE FALSE
  BY DEF st
<1>2. e \in Element /\ Can_run(e) /\ st[e] # "FAILED"
  BY DEF Mixed, Displayed
<1>3. current_running \notin Subtree[e] /\ st[e] = run_status[e]
  BY <1>1, <1>2
<1>4. ASSUME NEW c \in Children[e] PROVE st[c] = run_status[c]
  <2>1. c \in Element /\ current_running \notin Subtree[c]
    BY <1>2, <1>3, ChildrenBelow DEF Displayed
  <2>. QED  BY <1>1, <2>1
<1>5. get_element_status(st, e) = get_element_status(run_status, e)
  BY <1>2, <1>4, StatusOfOthers
<1>6. e \in Mixed(run_status)
  BY <1>3, <1>5 DEF Mixed
<1>. QED  BY <1>3, <1>6


-----------------------------------------------------------------------------
(***************************************************************************)
(* What is still to be said about them.  Between the marks of the frontend *)
(* (number 0) and message number i, message a can make the marks around    *)
(* its element disagree with what is below them; the end of an element     *)
(* settles its own mark.                                                   *)
(***************************************************************************)
MayMix(rs, q, a) ==
    IF a = 0 THEN Mixed(rs)
    ELSE IF IsEnd(q[a]) THEN Ancestors[q[a].el] \ {Root}
    ELSE Around(q[a].el) \ {Root}

Mended(q, a, i, e) ==
    \E j \in Nat : a < j /\ j < i /\ IsEnd(q[j]) /\ q[j].el = e

\* All is settled before message i, but in X.
AllMended(rs, q, i, X) ==
    \A a \in 0 .. i - 1 : \A e \in MayMix(rs, q, a) \ X : Mended(q, a, i, e)

\* The last element that has started when message i is read is in e.
StartedAt(q, cur, j) == IF j = 0 THEN cur ELSE q[j].el

LastStartIn(q, cur, i, e) ==
    \A j \in Nat :
        /\ j < i /\ (j > 0 => ~IsEnd(q[j]))
        /\ \A k \in Nat : j < k /\ k < i => IsEnd(q[k])
        => StartedAt(q, cur, j) \in Subtree[e]

\* What message i finds.
Finds(rs, q, cur, i) ==
    IF IsEnd(q[i]) THEN LastStartIn(q, cur, i, q[i].el)
    ELSE AllMended(rs, q, i, Ancestors[q[i].el])

MixedOnPath == \A e \in Mixed(run_status) : Backend_exists /\ current_running \in Subtree[e]

Mixing ==
    /\ MixedOnPath
    /\ Backend_exists =>
         /\ \A i \in 1 .. Len(to_front) : Finds(run_status, to_front, current_running, i)
         /\ \A p \in Procs : Walker(proc[p]) =>
               AllMended(run_status, to_front, Len(to_front) + 1, Room(proc[p]))
         /\ \A e \in Held : LastStartIn(to_front, current_running, Len(to_front) + 1, e)

\* Only what is on the screen counts.
LEMMA MayMixType ==
    ASSUME NEW rs, NEW q \in Seq(FrontMessage), NEW a \in 0 .. Len(q)
    PROVE  MayMix(rs, q, a) \subseteq Displayed
<1>1. a # 0 => q[a].el \in Element
  BY MessagesOf
<1>. QED  BY <1>1, Order DEF MayMix, Mixed, Displayed, Around

\* A message more.
LEMMA MixAdded ==
    ASSUME NEW rs, NEW cur, NEW q \in Seq(FrontMessage), NEW m \in FrontMessage
    PROVE  LET longer == Append(q, m)
           IN  /\ longer \in Seq(FrontMessage)
               /\ Len(longer) = Len(q) + 1 /\ Len(q) \in Nat
               /\ longer[Len(q) + 1] = m
               /\ \A a \in 0 .. Len(q) : MayMix(rs, longer, a) = MayMix(rs, q, a)
               /\ \A i \in 1 .. Len(q) + 1, a \in Nat : \A e : Mended(q, a, i, e) => Mended(longer, a, i, e)
               /\ \A i \in 1 .. Len(q) + 1 : \A X : AllMended(rs, q, i, X) => AllMended(rs, longer, i, X)
               /\ \A i \in 1 .. Len(q) + 1 : \A e :
                    LastStartIn(q, cur, i, e) => LastStartIn(longer, cur, i, e)
               /\ \A i \in 1 .. Len(q) : Finds(rs, q, cur, i) => Finds(rs, longer, cur, i)
<1>. DEFINE longer == Append(q, m)
<1>1. /\ longer \in Seq(FrontMessage) /\ Len(q) \in Nat /\ Len(longer) = Len(q) + 1
      /\ longer[Len(q) + 1] = m /\ \A j \in 1 .. Len(q) : longer[j] = q[j]
  BY LenProperties, AppendProperties
<1>. HIDE DEF longer
<1>2. \A a \in 0 .. Len(q) : MayMix(rs, longer, a) = MayMix(rs, q, a)
  <2>1. \A a \in 0 .. Len(q) : a # 0 => longer[a] = q[a]
    BY <1>1
  <2>. QED  BY <2>1 DEF MayMix
<1>3. ASSUME NEW i \in 1 .. Len(q) + 1, NEW a \in Nat, NEW e, Mended(q, a, i, e)
      PROVE  Mended(longer, a, i, e)
  <2>1. PICK j \in Nat : a < j /\ j < i /\ IsEnd(q[j]) /\ q[j].el = e
    BY <1>3 DEF Mended
  <2>2. j \in 1 .. Len(q)
    BY <1>1, <2>1
  <2>. QED  BY <1>1, <2>1, <2>2 DEF Mended
<1>4. ASSUME NEW i \in 1 .. Len(q) + 1, NEW X, AllMended(rs, q, i, X) PROVE AllMended(rs, longer, i, X)
  <2>. SUFFICES ASSUME NEW a \in 0 .. i - 1, NEW e \in MayMix(rs, longer, a) \ X
                PROVE  Mended(longer, a, i, e)
    BY DEF AllMended
  <2>1. a \in 0 .. Len(q) /\ a \in Nat
    BY <1>1
  <2>. QED  BY <1>2, <1>3, <1>4, <2>1 DEF AllMended
<1>5. ASSUME NEW i \in 1 .. Len(q) + 1, NEW e, LastStartIn(q, cur, i, e)
      PROVE  LastStartIn(longer, cur, i, e)
  <2>1. \A k \in Nat : 0 < k /\ k < i => longer[k] = q[k]
    BY <1>1
  <2>. SUFFICES ASSUME NEW j \in Nat, j < i, j > 0 => ~IsEnd(longer[j]),
                       \A k \in Nat : j < k /\ k < i => IsEnd(longer[k])
                PROVE  StartedAt(longer, cur, j) \in Subtree[e]
    BY DEF LastStartIn
  <2>2. (j > 0 => ~IsEnd(q[j])) /\ StartedAt(longer, cur, j) = StartedAt(q, cur, j)
    BY <2>1 DEF StartedAt
  <2>3. \A k \in Nat : j < k /\ k < i => IsEnd(q[k])
    BY <2>1
  <2>. QED  BY <1>5, <2>2, <2>3 DEF LastStartIn
<1>6. ASSUME NEW i \in 1 .. Len(q), Finds(rs, q, cur, i) PROVE Finds(rs, longer, cur, i)
  <2>1. i \in 1 .. Len(q) + 1 /\ longer[i] = q[i]
    BY <1>1
  <2>. QED  BY <1>4, <1>5, <1>6, <2>1 DEF Finds
<1>. QED  BY <1>1, <1>2, <1>3, <1>4, <1>5, <1>6 DEF longer

\* What goes on after a message has Y around it, and no longer the element
\* whose end it was.
LEMMA MendedAfter ==
    ASSUME NEW rs, NEW q \in Seq(FrontMessage), NEW m \in FrontMessage, NEW X, NEW Y,
           AllMended(rs, q, Len(q) + 1, X), (IF IsEnd(m) THEN X \ {m.el} ELSE X) \subseteq Y,
           (IF IsEnd(m) THEN Ancestors[m.el] ELSE Around(m.el)) \subseteq Y
    PROVE  AllMended(rs, Append(q, m), Len(Append(q, m)) + 1, Y)
<1>. DEFINE longer == Append(q, m)
            n == Len(q) + 1
<1>1. /\ longer \in Seq(FrontMessage) /\ Len(longer) = n /\ Len(q) \in Nat /\ longer[n] = m
      /\ \A a \in 0 .. Len(q) : MayMix(rs, longer, a) = MayMix(rs, q, a)
      /\ \A i \in 1 .. Len(q) + 1, a \in Nat : \A e : Mended(q, a, i, e) => Mended(longer, a, i, e)
  BY MixAdded
<1>. HIDE DEF longer
<1>2. n \in Nat /\ n # 0 /\ n \in 1 .. Len(q) + 1 /\ (n + 1) - 1 = n
  BY <1>1
<1>3. ASSUME NEW a \in 0 .. n, NEW e \in MayMix(rs, longer, a) \ Y PROVE Mended(longer, a, n + 1, e)
  <2>1. CASE a = n
    <3>1. MayMix(rs, longer, a) \subseteq Y
      BY <1>1, <1>2, <2>1 DEF MayMix
    <3>. QED  BY <1>3, <3>1
  <2>2. CASE a \in 0 .. Len(q) /\ e \in X
    <3>1. IsEnd(m) /\ e = m.el /\ a < n /\ n < n + 1
      BY <1>1, <1>3, <2>2
    <3>. QED  BY <1>1, <1>2, <3>1 DEF Mended
  <2>3. CASE a \in 0 .. Len(q) /\ e \notin X
    <3>1. e \in MayMix(rs, q, a) /\ a \in Nat /\ a \in 0 .. n - 1
      BY <1>1, <1>3, <2>3
    <3>2. Mended(longer, a, n, e)
      BY <1>1, <1>2, <2>3, <3>1 DEF AllMended
    <3>3. \A j \in Nat : j < n => j < n + 1
      BY <1>2
    <3>. QED  BY <3>2, <3>3 DEF Mended
  <2>. QED  BY <1>1, <2>1, <2>2, <2>3
<1>4. AllMended(rs, longer, n + 1, Y)
  BY <1>2, <1>3 DEF AllMended
<1>. QED  BY <1>1, <1>4 DEF longer

\* The start of an element is the last one inside all that is around it, and an
\* end changes nothing about the last start.
LEMMA LastStartAfter ==
    ASSUME NEW q \in Seq(FrontMessage), NEW cur, NEW m \in FrontMessage, NEW e \in Element,
           IF IsEnd(m) THEN LastStartIn(q, cur, Len(q) + 1, e) ELSE m.el \in Subtree[e]
    PROVE  LastStartIn(Append(q, m), cur, Len(Append(q, m)) + 1, e)
<1>. DEFINE longer == Append(q, m)
            n == Len(q) + 1
<1>1. /\ Len(longer) = n /\ Len(q) \in Nat /\ longer[n] = m
      /\ LastStartIn(q, cur, n, e) => LastStartIn(longer, cur, n, e)
  <2>1. n \in 1 .. Len(q) + 1
    BY LenProperties
  <2>. QED  BY <2>1, MixAdded
<1>. HIDE DEF longer
<1>2. n \in Nat /\ n < n + 1 /\ n > 0 /\ \A j \in Nat : j < n + 1 => j = n \/ j < n
  BY <1>1
<1>3. ASSUME NEW j \in Nat, j < n + 1, j > 0 => ~IsEnd(longer[j]),
             \A k \in Nat : j < k /\ k < n + 1 => IsEnd(longer[k])
      PROVE  StartedAt(longer, cur, j) \in Subtree[e]
  <2>1. CASE j = n
    BY <1>1, <1>2, <1>3, <2>1 DEF StartedAt
  <2>2. CASE j < n
    <3>1. IsEnd(m)
      BY <1>1, <1>2, <1>3, <2>2
    <3>2. \A k \in Nat : j < k /\ k < n => IsEnd(longer[k])
      BY <1>2, <1>3
    <3>. QED  BY <1>1, <1>3, <2>2, <3>1, <3>2 DEF LastStartIn
  <2>. QED  BY <1>2, <1>3, <2>1, <2>2
<1>4. LastStartIn(longer, cur, n + 1, e)
  BY <1>3 DEF LastStartIn
<1>. QED  BY <1>1, <1>4 DEF longer

\* The frontend reads one: what its marks then disagree about is around the
\* element of the message, and not the element itself at its end.
MixReads(rs, st, cur, now, q) ==
    /\ q # <<>>
    /\ now = IF IsEnd(q[1]) THEN cur ELSE q[1].el
    /\ Mixed(st) \subseteq (IF IsEnd(q[1]) THEN Mixed(rs) \ {q[1].el} ELSE Mixed(rs)) \cup MayMix(rs, q, 1)

\* What that leaves of the rest of the messages.
LEMMA MixShortened ==
    ASSUME NEW rs, NEW st, NEW cur, NEW now, NEW q \in Seq(FrontMessage), MixReads(rs, st, cur, now, q)
    PROVE  LET t == Tail(q)
           IN  /\ Len(t) = Len(q) - 1 /\ Len(q) \in Nat \ {0}
               /\ \A i \in 1 .. Len(q) : \A X : AllMended(rs, q, i + 1, X) => AllMended(st, t, i, X)
               /\ \A i \in 1 .. Len(q) : \A e : LastStartIn(q, cur, i + 1, e) => LastStartIn(t, now, i, e)
               /\ \A i \in 1 .. Len(t) : Finds(rs, q, cur, i + 1) => Finds(st, t, now, i)
<1>. DEFINE t == Tail(q)
<1>1. Len(t) = Len(q) - 1 /\ Len(q) \in Nat \ {0} /\ \A j \in 1 .. Len(q) - 1 : t[j] = q[j + 1]
  BY EmptySeq, HeadTailProperties DEF MixReads
<1>. HIDE DEF t
<1>2. ASSUME NEW i \in 1 .. Len(q), NEW e, NEW b \in Nat, NEW j \in Nat,
             b + 1 < j, j < i + 1, IsEnd(q[j]), q[j].el = e
      PROVE  Mended(t, b, i, e)
  <2>1. j - 1 \in Nat /\ j - 1 \in 1 .. Len(q) - 1 /\ (j - 1) + 1 = j /\ b < j - 1 /\ j - 1 < i
    BY <1>1, <1>2
  <2>2. t[j - 1] = q[j]
    BY <1>1, <2>1
  <2>. QED  BY <1>2, <2>1, <2>2 DEF Mended
<1>3. ASSUME NEW i \in 1 .. Len(q), NEW X, AllMended(rs, q, i + 1, X) PROVE AllMended(st, t, i, X)
  <2>. SUFFICES ASSUME NEW b \in 0 .. i - 1, NEW e \in MayMix(st, t, b) \ X PROVE Mended(t, b, i, e)
    BY DEF AllMended
  <2>1. CASE b # 0 \/ e \in MayMix(rs, q, 1)
    <3>1. b + 1 \in 0 .. (i + 1) - 1 /\ b \in Nat /\ b + 1 \in Nat /\ b + 1 # 0
      OBVIOUS
    <3>2. b # 0 => b \in 1 .. Len(q) - 1
      BY <1>1
    <3>3. b # 0 => t[b] = q[b + 1]
      BY <1>1, <3>2
    <3>4. b # 0 => e \in MayMix(rs, q, b + 1)
      BY <3>1, <3>3 DEF MayMix
    <3>5. b = 0 => e \in MayMix(rs, q, b + 1)
      BY <2>1
    <3>6. Mended(q, b + 1, i + 1, e)
      BY <1>3, <3>1, <3>4, <3>5 DEF AllMended
    <3>7. PICK j \in Nat : b + 1 < j /\ j < i + 1 /\ IsEnd(q[j]) /\ q[j].el = e
      BY <3>6 DEF Mended
    <3>. QED  BY <1>2, <3>1, <3>7
  <2>2. CASE b = 0 /\ e \notin MayMix(rs, q, 1)
    <3>1. e \in Mixed(rs) /\ (IsEnd(q[1]) => e # q[1].el)
      BY <2>2 DEF MayMix, MixReads
    <3>2. 0 \in 0 .. (i + 1) - 1 /\ 0 \in Nat
      OBVIOUS
    <3>3. Mended(q, 0, i + 1, e)
      BY <1>3, <3>1, <3>2 DEF AllMended, MayMix
    <3>4. PICK j \in Nat : 0 < j /\ j < i + 1 /\ IsEnd(q[j]) /\ q[j].el = e
      BY <3>3 DEF Mended
    <3>5. 1 < j
      BY <3>1, <3>4
    <3>. QED  BY <1>2, <2>2, <3>2, <3>4, <3>5
  <2>. QED  BY <2>1, <2>2
<1>4. ASSUME NEW i \in 1 .. Len(q), NEW e, LastStartIn(q, cur, i + 1, e) PROVE LastStartIn(t, now, i, e)
  <2>. SUFFICES ASSUME NEW j \in Nat, j < i, j > 0 => ~IsEnd(t[j]),
                       \A k \in Nat : j < k /\ k < i => IsEnd(t[k])
                PROVE  StartedAt(t, now, j) \in Subtree[e]
    BY DEF LastStartIn
  <2>1. ASSUME NEW k \in Nat, j + 1 < k, k < i + 1 PROVE IsEnd(q[k])
    <3>1. k - 1 \in Nat /\ j < k - 1 /\ k - 1 < i /\ k - 1 \in 1 .. Len(q) - 1 /\ (k - 1) + 1 = k
      BY <1>1, <2>1
    <3>2. t[k - 1] = q[k]
      BY <1>1, <3>1
    <3>. QED  BY <3>1, <3>2
  <2>2. j + 1 \in Nat /\ j + 1 < i + 1 /\ j + 1 > 0 /\ j + 1 # 0
    OBVIOUS
  <2>3. j > 0 => t[j] = q[j + 1]
    BY <1>1
  <2>4. CASE j > 0
    <3>1. ~IsEnd(q[j + 1])
      BY <2>3, <2>4
    <3>2. StartedAt(q, cur, j + 1) \in Subtree[e]
      BY <1>4, <2>1, <2>2, <3>1 DEF LastStartIn
    <3>. QED  BY <2>2, <2>3, <2>4, <3>2 DEF StartedAt
  <2>5. CASE j = 0 /\ ~IsEnd(q[1])
    <3>1. StartedAt(q, cur, 1) \in Subtree[e]
      BY <1>4, <2>1, <2>2, <2>5 DEF LastStartIn
    <3>. QED  BY <2>5, <3>1 DEF StartedAt, MixReads
  <2>6. CASE j = 0 /\ IsEnd(q[1])
    <3>1. ASSUME NEW k \in Nat, 0 < k, k < i + 1 PROVE IsEnd(q[k])
      <4>1. k = 1 \/ j + 1 < k
        BY <2>6, <3>1
      <4>. QED  BY <2>1, <2>6, <3>1, <4>1
    <3>2. 0 \in Nat /\ 0 < i + 1
      OBVIOUS
    <3>3. StartedAt(q, cur, 0) \in Subtree[e]
      BY <1>4, <3>1, <3>2 DEF LastStartIn
    <3>. QED  BY <2>6, <3>3 DEF StartedAt, MixReads
  <2>. QED  BY <2>4, <2>5, <2>6
<1>5. ASSUME NEW i \in 1 .. Len(t), Finds(rs, q, cur, i + 1) PROVE Finds(st, t, now, i)
  <2>1. i \in 1 .. Len(q) /\ t[i] = q[i + 1]
    BY <1>1
  <2>. QED  BY <1>3, <1>4, <1>5, <2>1 DEF Finds
<1>. QED  BY <1>1, <1>3, <1>4, <1>5 DEF t

\* A step without a message.
LEMMA MixKept ==
    ASSUME Mixing, UNCHANGED <<current_running, backend_pid, to_front>>,
           Mixed(run_status') \subseteq Mixed(run_status),
           ASSUME Backend_exists
           PROVE  /\ Held' \subseteq Held
                  /\ \A p \in Procs : Walker(proc'[p]) =>
                        \E o \in Procs : Walker(proc[o]) /\ Room(proc[o]) \subseteq Room(proc'[p])
    PROVE  Mixing'
<1>1. MixedOnPath'
  BY DEF Mixing, MixedOnPath, Mixed, Backend_exists
<1>2. ASSUME NEW i, NEW X, NEW Y, X \subseteq Y, AllMended(run_status, to_front, i, X)
      PROVE  AllMended(run_status', to_front, i, Y)
  <2>1. \A a : MayMix(run_status', to_front, a) \subseteq MayMix(run_status, to_front, a)
    BY DEF MayMix
  <2>. QED  BY <1>2, <2>1 DEF AllMended
<1>. SUFFICES ASSUME Backend_exists
              PROVE  /\ \A i \in 1 .. Len(to_front) : Finds(run_status', to_front, current_running, i)
                     /\ \A p \in Procs : Walker(proc'[p]) =>
                           AllMended(run_status', to_front, Len(to_front) + 1, Room(proc'[p]))
                     /\ \A e \in Held' : LastStartIn(to_front, current_running, Len(to_front) + 1, e)
  <2>1. Backend_exists' => Backend_exists
    BY DEF Backend_exists
  <2>2. \A p \in Procs : (Walker(proc[p]))' = Walker(proc'[p]) /\ Room(proc[p])' = Room(proc'[p])
    BY DEF Walker, Room
  <2>3. \A i, X : (AllMended(run_status, to_front, i, X))' = AllMended(run_status', to_front, i, X)
    BY DEF AllMended, MayMix, Mended, Mixed
  <2>4. \A i, e : (LastStartIn(to_front, current_running, i, e))' = LastStartIn(to_front, current_running, i, e)
    BY DEF LastStartIn, StartedAt
  <2>. QED  BY <1>1, <2>1, <2>2, <2>3, <2>4 DEF Mixing, Finds
<1>3. \A i \in 1 .. Len(to_front) : Finds(run_status', to_front, current_running, i)
  BY <1>2 DEF Mixing, Finds
<1>4. \A p \in Procs : Walker(proc'[p]) =>
         AllMended(run_status', to_front, Len(to_front) + 1, Room(proc'[p]))
  BY <1>2 DEF Mixing
<1>5. \A e \in Held' : LastStartIn(to_front, current_running, Len(to_front) + 1, e)
  BY DEF Mixing
<1>. QED  BY <1>3, <1>4, <1>5

\* A step with one.
LEMMA MixSent ==
    ASSUME Mixing, to_front \in Seq(FrontMessage), NEW m \in FrontMessage,
           to_front' = Append(to_front, m), UNCHANGED <<run_status, current_running, backend_pid>>,
           Backend_exists => Finds(run_status, Append(to_front, m), current_running, Len(to_front) + 1),
           ASSUME Backend_exists, NEW p \in Procs, Walker(proc'[p])
           PROVE  \E o \in Procs :
                     /\ Walker(proc[o])
                     /\ (IF IsEnd(m) THEN Room(proc[o]) \ {m.el} ELSE Room(proc[o])) \subseteq Room(proc'[p])
                     /\ (IF IsEnd(m) THEN Ancestors[m.el] ELSE Around(m.el)) \subseteq Room(proc'[p]),
           ASSUME Backend_exists, NEW e \in Held'
           PROVE  IF IsEnd(m) THEN e \in Held ELSE m.el \in Subtree[e]
    PROVE  Mixing'
<1>. DEFINE q == to_front
            t == Append(q, m)
<1>1. /\ Len(t) = Len(q) + 1 /\ Len(q) \in Nat
      /\ \A i \in 1 .. Len(q) : Finds(run_status, q, current_running, i) => Finds(run_status, t, current_running, i)
  BY MixAdded
<1>. HIDE DEF t
<1>2. MixedOnPath'
  BY DEF Mixing, MixedOnPath, Mixed, Backend_exists
<1>. SUFFICES ASSUME Backend_exists
              PROVE  /\ \A i \in 1 .. Len(t) : Finds(run_status, t, current_running, i)
                     /\ \A p \in Procs : Walker(proc'[p]) =>
                           AllMended(run_status, t, Len(t) + 1, Room(proc'[p]))
                     /\ \A e \in Held' : LastStartIn(t, current_running, Len(t) + 1, e)
  <2>1. Backend_exists' => Backend_exists
    BY DEF Backend_exists
  <2>2. \A p \in Procs : (Walker(proc[p]))' = Walker(proc'[p]) /\ Room(proc[p])' = Room(proc'[p])
    BY DEF Walker, Room
  <2>3. \A i, X : (AllMended(run_status, to_front, i, X))' = AllMended(run_status, to_front', i, X)
    BY DEF AllMended, MayMix, Mended, Mixed
  <2>4. \A i, e : (LastStartIn(to_front, current_running, i, e))' = LastStartIn(to_front', current_running, i, e)
    BY DEF LastStartIn, StartedAt
  <2>5. to_front' = t
    BY DEF t
  <2>. QED  BY <1>2, <2>1, <2>2, <2>3, <2>4, <2>5 DEF Mixing, Finds
<1>3. \A i \in 1 .. Len(t) : Finds(run_status, t, current_running, i)
  <2>1. Finds(run_status, t, current_running, Len(q) + 1)
    BY DEF t
  <2>. QED  BY <1>1, <2>1 DEF Mixing
<1>4. ASSUME NEW p \in Procs, Walker(proc'[p]) PROVE AllMended(run_status, t, Len(t) + 1, Room(proc'[p]))
  <2>1. PICK o \in Procs :
           /\ Walker(proc[o])
           /\ (IF IsEnd(m) THEN Room(proc[o]) \ {m.el} ELSE Room(proc[o])) \subseteq Room(proc'[p])
           /\ (IF IsEnd(m) THEN Ancestors[m.el] ELSE Around(m.el)) \subseteq Room(proc'[p])
    BY <1>4
  <2>2. AllMended(run_status, q, Len(q) + 1, Room(proc[o]))
    BY <2>1 DEF Mixing
  <2>. QED  BY <2>1, <2>2, MendedAfter DEF t
<1>5. ASSUME NEW e \in Held' PROVE LastStartIn(t, current_running, Len(t) + 1, e)
  <2>1. e \in Element
    BY <1>5 DEF Held, Displayed
  <2>2. IsEnd(m) => LastStartIn(q, current_running, Len(q) + 1, e)
    BY <1>5 DEF Mixing
  <2>3. ~IsEnd(m) => m.el \in Subtree[e]
    BY <1>5
  <2>. QED  BY <2>1, <2>2, <2>3, LastStartAfter DEF t
<1>. QED  BY <1>3, <1>4, <1>5

\* The room of what goes on only grows.
LEMMA RoomByMoving ==
    ASSUME NEW r \in ProcState, Walks(r), NEW s \in ProcState, Quiet(r, s), Walker(s)
    PROVE  Walker(r) /\ Room(r) \subseteq Room(s)
<1>0. /\ r.at \in Element /\ r.base \in Element /\ s.base = r.base
      /\ s.current = r.current /\ s.parent = r.parent
  BY DEF ProcState, Quiet, SameRun
<1>1. CASE s.pc \in {r.pc} \cup (IF r.pc = "start" THEN {"begin"} ELSE {}) /\ s.at = r.at /\ s.ok = r.ok
  BY <1>0, <1>1 DEF Walker, Room
<1>2. CASE s.pc = "exit" /\ ~s.ok
  BY <1>2 DEF Walker
<1>3. CASE r.pc = "begin" /\ s = EnterChildren(r, r.base)
  <2>1. LET z == EnterChildren(r, r.base) IN Moves(r, z) /\ (Walker(z) => Room(r) \subseteq Room(z))
    BY <1>0, <1>3, Enters
  <2>. QED  BY <1>3, <2>1 DEF Moves
<1>4. CASE r.pc = "handler" /\ s = EnterChildren(r, r.at)
  <2>1. LET z == EnterChildren(r, r.at) IN Moves(r, z) /\ (Walker(z) => Room(r) \subseteq Room(z))
    BY <1>0, <1>4, Enters
  <2>. QED  BY <1>4, <2>1 DEF Moves
<1>5. CASE r.pc = "handler" /\ s.pc = "finish" /\ s.at = r.at
  BY <1>0, <1>5, Returns DEF Moves
<1>6. CASE r.pc = "element" /\ s = LeaveElement(r, TRUE)
  <2>1. \A good \in BOOLEAN : good =>
           LET z == LeaveElement(r, good) IN Moves(r, z) /\ (Walker(z) => Ancestors[r.at] \subseteq Room(z))
    BY <1>6, Leaves
  <2>2. LET z == LeaveElement(r, TRUE) IN Moves(r, z) /\ (Walker(z) => Ancestors[r.at] \subseteq Room(z))
    BY <2>1
  <2>. QED  BY <1>6, <2>2 DEF Moves, Room
<1>. QED  BY <1>1, <1>2, <1>3, <1>4, <1>5, <1>6 DEF Quiet

-----------------------------------------------------------------------------
(***************************************************************************)
(* The steps of the backend.                                               *)
(***************************************************************************)

\* What is still open, process by process.
LEMMA HeldStill ==
    ASSUME ASSUME NEW o \in Procs, proc'[o].current
           PROVE  \/ HeldOpen(proc'[o]) = {}
                  \/ \E p \in Procs : proc[p].current /\ HeldOpen(proc'[o]) \subseteq HeldOpen(proc[p])
    PROVE  Held' \subseteq Held
<1>1. \A o \in Procs : HeldOpen(proc[o])' = HeldOpen(proc'[o])
  BY DEF HeldOpen, Room
<1>. QED  BY <1>1 DEF Held

\* A step without a message.
LEMMA QuietMixes ==
    ASSUME Inductive, Mixing, NEW p \in Procs, QuietStep(p), UNCHANGED current_running
    PROVE  Mixing'
<1>. DEFINE r == proc[p]
<1>1. PICK s \in ProcState : proc' = [proc EXCEPT ![p] = s] /\ Quiet(r, s)
  BY DEF QuietStep
<1>2. UNCHANGED <<backend_pid, run_status, to_front>>
  BY DEF QuietStep, run_vars
<1>3. r \in ProcState /\ Walks(r) /\ proc'[p] = s /\ \A o \in Procs \ {p} : proc'[o] = proc[o]
  BY <1>1, ProcType
<1>4. HeldOpen(s) \subseteq HeldOpen(r) /\ s.current = r.current
  BY <1>1, <1>3, HeldByMoving DEF Quiet, SameRun
<1>5. Held' \subseteq Held
  <2>1. ASSUME NEW o \in Procs, proc'[o].current
        PROVE  \E u \in Procs : proc[u].current /\ HeldOpen(proc'[o]) \subseteq HeldOpen(proc[u])
    BY <1>3, <1>4, <2>1
  <2>. QED  BY <2>1, HeldStill
<1>6. ASSUME NEW o \in Procs, Walker(proc'[o])
      PROVE  \E u \in Procs : Walker(proc[u]) /\ Room(proc[u]) \subseteq Room(proc'[o])
  <2>1. CASE o = p
    BY <1>1, <1>3, <1>6, <2>1, RoomByMoving
  <2>2. CASE o # p
    BY <1>3, <1>6, <2>2
  <2>. QED  BY <2>1, <2>2
<1>. QED  BY <1>2, <1>5, <1>6, MixKept

\* A start.
LEMMA StartMixes ==
    ASSUME Running, Mixing, NEW p \in Procs, StartStep(p), UNCHANGED current_running
    PROVE  Mixing'
<1>. DEFINE r == proc[p]
            s == [r EXCEPT !.pc = "handler"]
            m == [type |-> "ELEMENT_STARTED", el |-> r.at]
<1>1. /\ r \in ProcState /\ r.pc = "element" /\ r.at \in Displayed /\ r.at \in Element
      /\ Around(r.base) \subseteq Ancestors[r.at]
      /\ UNCHANGED <<backend_pid, run_status>> /\ to_front \in Seq(FrontMessage)
      /\ proc'[p] = s /\ \A o \in Procs \ {p} : proc'[o] = proc[o]
  BY ProcType, RoomHasBase DEF StartStep, run_vars, Displayed, Running
<1>2. /\ s.current = r.current /\ HeldOpen(s) = Around(r.at) /\ HeldOpen(r) = Ancestors[r.at]
      /\ Room(s) = Around(r.at) /\ Room(r) = Ancestors[r.at] /\ (Walker(s) <=> r.current) /\ (Walker(r) <=> r.current)
  BY <1>1 DEF HeldOpen, Room, ProcState, Walker
<1>. HIDE DEF s
<1>3. CASE ~r.current
  <2>1. UNCHANGED to_front
    BY <1>3 DEF StartStep
  <2>2. ASSUME NEW o \in Procs, proc'[o].current
        PROVE  \E u \in Procs : proc[u].current /\ HeldOpen(proc'[o]) \subseteq HeldOpen(proc[u])
    BY <1>1, <1>2, <1>3, <2>2
  <2>3. Held' \subseteq Held
    BY <2>2, HeldStill
  <2>4. ASSUME NEW o \in Procs, Walker(proc'[o])
        PROVE  \E u \in Procs : Walker(proc[u]) /\ Room(proc[u]) \subseteq Room(proc'[o])
    BY <1>1, <1>2, <1>3, <2>4
  <2>. QED  BY <1>1, <2>1, <2>3, <2>4, MixKept
<1>4. CASE r.current
  <2>1. m \in FrontMessage /\ m.el = r.at /\ ~IsEnd(m) /\ to_front' = Append(to_front, m)
    BY <1>1, <1>4 DEF FrontMessage, StartStep, IsEnd
  <2>. HIDE DEF m
  <2>2. ASSUME NEW o \in Procs \ {p}, proc[o].current
        PROVE  ~Walker(proc[o]) /\ HeldOpen(proc[o]) \subseteq Ancestors[r.at]
    <3>1. CASE Inside(proc[o])
      <4>1. Holds(proc[o], r) /\ ~Walker(proc[o])
        BY <1>2, <1>4, <2>2, <3>1, OneWalker DEF Running, Family
      <4>2. proc[o].at \in Around(r.base) /\ proc[o].pc \in {"waiting", "finish"}
        BY <4>1 DEF Holds
      <4>3. HeldOpen(proc[o]) = Around(proc[o].at)
        BY <4>2 DEF HeldOpen, Room
      <4>. QED  BY <1>1, <4>1, <4>2, <4>3, Order DEF Around
    <3>2. CASE ~Inside(proc[o])
      BY <2>2, <3>2 DEF Inside, HeldOpen, Walker
    <3>. QED  BY <3>1, <3>2
  <2>3. Backend_exists => Finds(run_status, Append(to_front, m), current_running, Len(to_front) + 1)
    <3>1. Len(to_front) + 1 \in 1 .. Len(to_front) + 1 /\ Append(to_front, m)[Len(to_front) + 1] = m
      BY <1>1, <2>1, LenProperties, MixAdded
    <3>2. Backend_exists => AllMended(run_status, to_front, Len(to_front) + 1, Ancestors[m.el])
      BY <1>2, <1>4, <2>1 DEF Mixing
    <3>3. Backend_exists => AllMended(run_status, Append(to_front, m), Len(to_front) + 1, Ancestors[m.el])
      BY <1>1, <2>1, <3>1, <3>2, MixAdded
    <3>. QED  BY <2>1, <3>1, <3>3 DEF Finds
  <2>4. ASSUME NEW o \in Procs, Walker(proc'[o])
        PROVE  \E u \in Procs : /\ Walker(proc[u]) /\ Room(proc[u]) \subseteq Room(proc'[o])
                                /\ Around(m.el) \subseteq Room(proc'[o])
    <3>1. o = p
      BY <1>1, <2>2, <2>4 DEF Walker
    <3>. QED  BY <1>1, <1>2, <1>4, <2>1, <3>1 DEF Around
  <2>5. ASSUME NEW e \in Held' PROVE m.el \in Subtree[e]
    <3>1. \A o \in Procs : HeldOpen(proc[o])' = HeldOpen(proc'[o])
      BY DEF HeldOpen, Room
    <3>2. PICK o \in Procs : proc'[o].current /\ e \in HeldOpen(proc'[o])
      BY <2>5, <3>1 DEF Held
    <3>3. e \in Around(r.at) /\ e \in Element
      BY <1>1, <1>2, <2>2, <2>5, <3>2 DEF Around, Held, Displayed
    <3>. QED  BY <1>1, <2>1, <3>3, Order DEF Around
  <2>. QED  BY <1>1, <2>1, <2>3, <2>4, <2>5, MixSent
<1>. QED  BY <1>3, <1>4

\* An end.
LEMMA FinishMixes ==
    ASSUME Running, Mixing, NEW p \in Procs, FinishStep(p), UNCHANGED current_running
    PROVE  Mixing'
<1>. DEFINE r == proc[p]
            s == LeaveElement(r, r.ok)
            m == [type |-> IF r.ok THEN "ELEMENT_ENDED" ELSE "ELEMENT_FAILED", el |-> r.at]
<1>1. /\ r \in ProcState /\ Walks(r) /\ r.pc = "finish" /\ r.at \in Displayed /\ r.at \in Element /\ r.ok \in BOOLEAN
      /\ UNCHANGED <<backend_pid, run_status>> /\ to_front \in Seq(FrontMessage)
      /\ proc'[p] = s /\ \A o \in Procs \ {p} : proc'[o] = proc[o]
  BY ProcType, RoomHasBase DEF FinishStep, run_vars, Displayed, ProcState, Running
<1>2. s.current = r.current /\ HeldOpen(s) \subseteq Ancestors[r.at] /\ HeldOpen(r) = Around(r.at)
  <2>1. HeldOpen(s) \subseteq Ancestors[r.at]
    BY <1>1, HeldByLeaving
  <2>. QED  BY <1>1, <2>1 DEF LeaveElement, ProcState, HeldOpen, Room
<1>2a. Walker(s) => Walker(r) /\ Ancestors[r.at] \subseteq Room(s)
  <2>1. LET z == LeaveElement(r, r.ok) IN Moves(r, z) /\ (Walker(z) => Ancestors[r.at] \subseteq Room(z))
    BY <1>1, Leaves
  <2>. QED  BY <2>1 DEF Moves
<1>. HIDE DEF s
<1>3. Held' \subseteq Held
  <2>1. ASSUME NEW o \in Procs, proc'[o].current
        PROVE  \E u \in Procs : proc[u].current /\ HeldOpen(proc'[o]) \subseteq HeldOpen(proc[u])
    BY <1>1, <1>2, <2>1 DEF Around
  <2>. QED  BY <2>1, HeldStill
<1>4. CASE ~r.current
  <2>1. UNCHANGED to_front
    BY <1>4 DEF FinishStep
  <2>2. ASSUME NEW o \in Procs, Walker(proc'[o])
        PROVE  \E u \in Procs : Walker(proc[u]) /\ Room(proc[u]) \subseteq Room(proc'[o])
    BY <1>1, <1>2, <1>4, <2>2 DEF Walker
  <2>. QED  BY <1>1, <1>3, <2>1, <2>2, MixKept
<1>5. CASE r.current
  <2>1. m \in FrontMessage /\ m.el = r.at /\ IsEnd(m) /\ to_front' = Append(to_front, m)
    BY <1>1, <1>5 DEF FrontMessage, FinishStep, IsEnd
  <2>. HIDE DEF m
  <2>2. Backend_exists => Finds(run_status, Append(to_front, m), current_running, Len(to_front) + 1)
    <3>1. Len(to_front) + 1 \in 1 .. Len(to_front) + 1 /\ Append(to_front, m)[Len(to_front) + 1] = m
      BY <1>1, <2>1, LenProperties, MixAdded
    <3>2. m.el \in Held
      BY <1>1, <1>2, <1>5, <2>1 DEF Held, Around
    <3>3. Backend_exists => LastStartIn(to_front, current_running, Len(to_front) + 1, m.el)
      BY <3>2 DEF Mixing
    <3>4. Backend_exists => LastStartIn(Append(to_front, m), current_running, Len(to_front) + 1, m.el)
      BY <1>1, <2>1, <3>1, <3>3, MixAdded
    <3>. QED  BY <2>1, <3>1, <3>4 DEF Finds
  <2>3. ASSUME NEW o \in Procs, Walker(proc'[o])
        PROVE  \E u \in Procs : /\ Walker(proc[u]) /\ Room(proc[u]) \ {m.el} \subseteq Room(proc'[o])
                                /\ Ancestors[m.el] \subseteq Room(proc'[o])
    <3>1. CASE o = p
      <4>1. Walker(r) /\ Ancestors[r.at] \subseteq Room(s)
        BY <1>1, <1>2a, <2>3, <3>1
      <4>2. Room(r) = Around(r.at)
        BY <1>1 DEF Room
      <4>. QED  BY <1>1, <2>1, <3>1, <4>1, <4>2 DEF Around
    <3>2. CASE o # p
      <4>1. Walker(proc[o]) /\ proc'[o] = proc[o]
        BY <1>1, <2>3, <3>2
      <4>2. Holds(r, proc[o])
        BY <1>1, <1>5, <3>2, <4>1, OneWalker DEF Running, Family, Inside
      <4>3. /\ r.at \in Around(proc[o].base) /\ Around(proc[o].base) \subseteq Room(proc[o])
            /\ Closed(Room(proc[o]))
        BY <4>2, ProcType, RoomHasBase, RoomClosed DEF Holds, Running
      <4>4. Ancestors[r.at] \subseteq Room(proc[o])
        BY <1>1, <4>3 DEF Closed
      <4>. QED  BY <2>1, <4>1, <4>4
    <3>. QED  BY <3>1, <3>2
  <2>. QED  BY <1>1, <1>3, <2>1, <2>2, <2>3, MixSent
<1>. QED  BY <1>4, <1>5

\* A fork.
LEMMA ForkMixes ==
    ASSUME Inductive, Mixing, NEW p \in Procs, NEW c \in Procs, ForkStep(p, c), UNCHANGED current_running
    PROVE  Mixing'
<1>. DEFINE r == proc[p]
            w == [r EXCEPT !.pc = "waiting"]
            s == [r EXCEPT !.pc = "start", !.base = r.at, !.sigio = FALSE, !.parent = p]
<1>1. /\ r \in ProcState /\ r.pc = "handler" /\ c # p
      /\ UNCHANGED <<backend_pid, run_status, to_front>>
      /\ proc'[p] = w /\ proc'[c] = s /\ \A o \in Procs \ {p, c} : proc'[o] = proc[o]
  BY ProcType DEF ForkStep, run_vars
<1>2. /\ w.current = r.current /\ s.current = r.current /\ ~Walker(w) /\ (Walker(s) => Walker(r))
      /\ HeldOpen(w) = HeldOpen(r) /\ HeldOpen(s) = HeldOpen(r) /\ Room(s) = Room(r)
  BY <1>1 DEF ProcState, HeldOpen, Room, Walker
<1>. HIDE DEF w, s
<1>3. Held' \subseteq Held
  <2>1. ASSUME NEW o \in Procs, proc'[o].current
        PROVE  \E u \in Procs : proc[u].current /\ HeldOpen(proc'[o]) \subseteq HeldOpen(proc[u])
    BY <1>1, <1>2, <2>1
  <2>. QED  BY <2>1, HeldStill
<1>4. ASSUME NEW o \in Procs, Walker(proc'[o])
      PROVE  \E u \in Procs : Walker(proc[u]) /\ Room(proc[u]) \subseteq Room(proc'[o])
  BY <1>1, <1>2, <1>4
<1>. QED  BY <1>1, <1>3, <1>4, MixKept

\* An exit.
LEMMA ExitMixes ==
    ASSUME Running, Mixing, NEW p \in Procs, exit_process(p)
    PROVE  Mixing'
<1>1. proc[p].pc = "exit" /\ UNCHANGED <<current_running, backend_pid, run_status, to_front>>
  BY DEF exit_process
<1>2. /\ proc'[p].pc = (IF p = backend_pid THEN "zombie" ELSE "free")
      /\ p = backend_pid =>
           /\ proc'[p].base = proc[p].base /\ proc'[p].ok = proc[p].ok /\ proc'[p].current = proc[p].current
      /\ \A c \in Procs \ {p} :
           /\ proc'[c].base = proc[c].base /\ proc'[c].at = proc[c].at /\ proc'[c].current = proc[c].current
           /\ IF Wakes(p, c) THEN proc'[c].pc = "finish" /\ proc'[c].ok = proc[p].ok
              ELSE proc'[c].pc = proc[c].pc /\ proc'[c].ok = proc[c].ok
           /\ Wakes(p, c) => proc'[c].current = proc[p].current /\ proc'[c].at = proc[p].base
  BY <1>1, ExitLeaves
<1>3. Held' \subseteq Held
  <2>1. ASSUME NEW o \in Procs, proc'[o].current
        PROVE  \/ HeldOpen(proc'[o]) = {}
               \/ \E u \in Procs : proc[u].current /\ HeldOpen(proc'[o]) \subseteq HeldOpen(proc[u])
    <3>1. CASE o = p
      BY <1>2, <3>1 DEF HeldOpen
    <3>2. CASE o # p
      <4>1. proc[o].current /\ HeldOpen(proc'[o]) = HeldOpen(proc[o])
        BY <1>2, <2>1, <3>2 DEF HeldOpen, Room, Wakes
      <4>. QED  BY <4>1
    <3>. QED  BY <3>1, <3>2
  <2>. QED  BY <2>1, HeldStill
<1>4. ASSUME NEW o \in Procs, Walker(proc'[o])
      PROVE  \E u \in Procs : Walker(proc[u]) /\ Room(proc[u]) \subseteq Room(proc'[o])
  <2>1. CASE o = p
    BY <1>1, <1>2, <1>4, <2>1 DEF Walker, Room
  <2>2. CASE o # p /\ Wakes(p, o)
    <3>1. Walker(proc[p]) /\ Room(proc[p]) = Around(proc[p].base) /\ Room(proc'[o]) = Around(proc[p].base)
      BY <1>1, <1>2, <1>4, <2>2 DEF Walker, Room
    <3>. QED  BY <3>1
  <2>3. CASE o # p /\ ~Wakes(p, o)
    <3>1. Walker(proc[o]) /\ Room(proc'[o]) = Room(proc[o])
      BY <1>2, <1>4, <2>3 DEF Walker, Room
    <3>. QED  BY <3>1
  <2>. QED  BY <2>1, <2>2, <2>3
<1>. QED  BY <1>1, <1>3, <1>4, MixKept

-----------------------------------------------------------------------------
(***************************************************************************)
(* The steps of the frontend.                                              *)
(***************************************************************************)

\* The backend does not touch what the frontend knows.
LEMMA LastStartIsSaid ==
    ASSUME NEW p \in Procs, signal_io(p) \/ Backend(p) \/ run_action(p) \/ fatal_backend_error(p)
    PROVE  UNCHANGED current_running
BY DEF signal_io, Backend, Start_receiving_sigio, begin_children, do_execute_element,
       run_container, run_fork, finish_element, exit_process, run_action, fatal_backend_error,
       walk_vars, frontend_vars

\* The frontend learns of a start from a message only.
LEMMA LastStartIsKept ==
    ASSUME Inductive, UserKey \/ Frontend \/ UNCHANGED vars
    PROVE  UNCHANGED current_running \/ handle_ctrl_msg \/ BeginStep
<1>1. CASE UserKey
  <2>1. CASE \/ start_executing_marked
             \/ \E e \in Cursor :
                  start_executing_children(e) \/ start_executing_next(e) \/ force_executing(e)
    BY <2>1, BeginSteps
  <2>2. CASE stop_key \/ pause_key
    BY <2>2 DEF stop_key, pause_key, send_command
  <2>3. CASE \E all \in BOOLEAN : clear_marks(all)
    BY <2>3 DEF clear_marks, mark_vars
  <2>4. ASSUME NEW e \in Cursor, mark_element(e) PROVE UNCHANGED current_running
    BY <2>4 DEF mark_element, mark_vars
  <2>5. ASSUME NEW e \in Cursor, NEW s \in {"DONE", "FAILED", "NONE"}, change_run_status_marks(e, s)
        PROVE  UNCHANGED current_running
    BY <2>5 DEF change_run_status_marks
  <2>. QED  BY <1>1, <2>1, <2>2, <2>3, <2>4, <2>5 DEF UserKey
<1>2. CASE Frontend
  BY <1>2 DEF Frontend, read_all_messages, wait_for_the_backend
<1>3. CASE UNCHANGED vars
  BY <1>3 DEF vars, frontend_vars
<1>. QED  BY <1>1, <1>2, <1>3

\* A message that is read is about an element the marks are settled around.
LEMMA ReadMixes ==
    ASSUME Inductive, Mixing, handle_ctrl_msg
    PROVE  Mixing'
<1>. DEFINE q == to_front
            rs == run_status
            cur == current_running
            x == q[1].el
<1>1. /\ q \in Seq(FrontMessage) /\ Len(q) \in Nat \ {0} /\ q # <<>> /\ Backend_exists /\ to_front' = Tail(q)
      /\ UNCHANGED <<backend_pid, proc>> /\ x \in Element /\ rs \in [Element -> RunStatus]
      /\ \/ ~IsEnd(q[1]) /\ element_started(x)
         \/ IsEnd(q[1]) /\ (element_ended(x) \/ element_failed(x))
  BY MessageHandled, ProcType DEF IsEnd
<1>2. /\ \A e \in Element \ {x} : run_status'[e] = rs[e]
      /\ Can_run(x) => run_status'[x] = IF ~IsEnd(q[1]) THEN "RUNNING"
                                        ELSE IF element_ended(x) THEN get_element_status(rs, x) ELSE "FAILED"
      /\ current_running' = IF IsEnd(q[1]) THEN cur ELSE x
  BY <1>1 DEF element_started, element_ended, element_failed, set_run_status
<1>3. /\ Mixed(run_status') \subseteq Mixed(rs) \cup Around(x)
      /\ get_element_status(run_status', x) = get_element_status(rs, x)
  BY <1>1, <1>2, MixedAround
<1>4. IsEnd(q[1]) => x \notin Mixed(run_status')
  BY <1>2, <1>3 DEF Mixed
<1>5. MixReads(rs, run_status', cur, current_running', q)
  <2>1. MayMix(rs, q, 1) = (IF IsEnd(q[1]) THEN Ancestors[x] ELSE Around(x)) \ {Root}
    BY DEF MayMix
  <2>2. Root \notin Mixed(run_status')
    BY DEF Mixed, Displayed
  <2>. QED  BY <1>1, <1>2, <1>3, <1>4, <2>1, <2>2 DEF MixReads, Around
<1>6. Finds(rs, q, cur, 1)
  BY <1>1 DEF Mixing
<1>7. MixedOnPath'
  <2>. SUFFICES ASSUME NEW e \in Mixed(run_status') PROVE Backend_exists' /\ current_running' \in Subtree[e]
    BY DEF MixedOnPath
  <2>1. Backend_exists' /\ e \in Element
    BY <1>1 DEF Backend_exists, Mixed, Displayed
  <2>2. CASE ~IsEnd(q[1])
    <3>1. \A a : ~Mended(q, 0, 1, a)
      BY DEF Mended
    <3>2. 0 \in 0 .. 1 - 1
      OBVIOUS
    <3>3. Mixed(rs) \subseteq Ancestors[x]
      BY <1>6, <2>2, <3>1, <3>2 DEF Finds, AllMended, MayMix
    <3>. QED  BY <1>1, <1>2, <1>3, <2>1, <2>2, <3>3, Order DEF Around
  <2>3. CASE IsEnd(q[1])
    <3>1. cur \in Subtree[x]
      <4>1. \A k \in Nat : ~(0 < k /\ k < 1)
        OBVIOUS
      <4>2. 0 \in Nat /\ 0 < 1 /\ ~(0 > 0)
        OBVIOUS
      <4>3. StartedAt(q, cur, 0) \in Subtree[x]
        BY <1>6, <2>3, <4>1, <4>2 DEF Finds, LastStartIn
      <4>. QED  BY <4>3 DEF StartedAt
    <3>2. e \in Mixed(rs) \/ e \in Ancestors[x]
      BY <1>3, <1>4, <2>3 DEF Around
    <3>3. cur \in Element
      BY DEF Inductive, TypeOK
    <3>4. e \in Ancestors[x] => cur \in Subtree[e]
      BY <1>1, <2>1, <3>1, <3>3, Order
    <3>. QED  BY <1>2, <2>1, <2>3, <3>2, <3>4 DEF Mixing, MixedOnPath
  <2>. QED  BY <2>2, <2>3
<1>8. LET t == Tail(q)
      IN  /\ Len(t) = Len(q) - 1 /\ Len(q) \in Nat \ {0}
          /\ \A i \in 1 .. Len(q) : \A X : AllMended(rs, q, i + 1, X) => AllMended(run_status', t, i, X)
          /\ \A i \in 1 .. Len(q) : \A e : LastStartIn(q, cur, i + 1, e) => LastStartIn(t, current_running', i, e)
          /\ \A i \in 1 .. Len(t) : Finds(rs, q, cur, i + 1) => Finds(run_status', t, current_running', i)
  BY <1>1, <1>5, MixShortened
<1>. DEFINE t == Tail(q)
<1>. HIDE DEF t
<1>9. /\ Len(t) + 1 = Len(q) /\ Len(q) \in 1 .. Len(q) /\ to_front' = t
      /\ \A X : AllMended(rs, q, Len(q) + 1, X) => AllMended(run_status', t, Len(q), X)
      /\ \A e : LastStartIn(q, cur, Len(q) + 1, e) => LastStartIn(t, current_running', Len(q), e)
      /\ \A i \in 1 .. Len(t) : Finds(rs, q, cur, i + 1) => Finds(run_status', t, current_running', i)
  BY <1>1, <1>8 DEF t
<1>10. \A i \in 1 .. Len(t) : Finds(run_status', t, current_running', i)
  <2>1. \A i \in 1 .. Len(t) : i + 1 \in 1 .. Len(q)
    BY <1>8, <1>9
  <2>. QED  BY <1>1, <1>9, <2>1 DEF Mixing
<1>11. \A p \in Procs : Walker(proc[p]) => AllMended(run_status', t, Len(t) + 1, Room(proc[p]))
  BY <1>1, <1>9 DEF Mixing
<1>12. \A e \in Held : LastStartIn(t, current_running', Len(t) + 1, e)
  BY <1>1, <1>9 DEF Mixing
<1>13. /\ \A i \in 1 .. Len(to_front') : (Finds(run_status, to_front, current_running, i))'
       /\ \A p \in Procs : (Walker(proc[p]) => AllMended(run_status, to_front, Len(to_front) + 1, Room(proc[p])))'
       /\ \A e \in Held' : (LastStartIn(to_front, current_running, Len(to_front) + 1, e))'
  <2>1. \A i, X : (AllMended(run_status, to_front, i, X))' = AllMended(run_status', to_front', i, X)
    BY DEF AllMended, MayMix, Mended, Mixed
  <2>2. \A i, e : (LastStartIn(to_front, current_running, i, e))' = LastStartIn(to_front', current_running', i, e)
    BY DEF LastStartIn, StartedAt
  <2>3. \A i : (Finds(run_status, to_front, current_running, i))' = Finds(run_status', to_front', current_running', i)
    BY <2>1, <2>2 DEF Finds
  <2>4. Held' = Held
    BY <1>1 DEF Held, HeldOpen, Room
  <2>5. \A p \in Procs : (Walker(proc[p]))' = Walker(proc[p]) /\ Room(proc[p])' = Room(proc[p])
    BY <1>1 DEF Walker, Room
  <2>. QED  BY <1>9, <1>10, <1>11, <1>12, <2>1, <2>2, <2>3, <2>4, <2>5
<1>. QED  BY <1>7, <1>13 DEF Mixing

\* The end of a run that has failed marks what may disagree; a run that has not
\* failed has nothing left that does.
LEMMA CollectMixes ==
    ASSUME Running, Mixing, wait_for_the_backend
    PROVE  Mixing'
<1>1. /\ backend_pid \in Procs /\ proc[backend_pid].pc = "zombie" /\ to_front = <<>> /\ ~Backend_exists'
      /\ Backend_exists /\ current_running \in Element
      /\ run_status' = IF proc[backend_pid].ok THEN run_status ELSE change_run_status_to_failed
      /\ proc[backend_pid].current /\ proc[backend_pid].base = Root
  <2>1. Backend_exists /\ ~Backend_exists'
    BY ProcType DEF wait_for_the_backend, Backend_exists, Running
  <2>. QED  BY <2>1 DEF wait_for_the_backend, Running, Family, FirstIsAtTheRoot, Inductive, TypeOK
<1>2. Mixed(run_status') = {}
  <2>1. CASE proc[backend_pid].ok
    <3>1. Walker(proc[backend_pid]) /\ Room(proc[backend_pid]) = {Root}
      BY <1>1, <2>1, Order DEF Walker, Room, Around
    <3>2. AllMended(run_status, <<>>, Len(<<>>) + 1, {Root})
      BY <1>1, <3>1 DEF Mixing
    <3>3. Len(<<>>) + 1 = 1 /\ 0 \in 0 .. 1 - 1 /\ \A e : ~Mended(<<>>, 0, 1, e)
      BY DEF Mended
    <3>4. AllMended(run_status, <<>>, 1, {Root})
      BY <3>2, <3>3
    <3>5. Mixed(run_status) \subseteq {Root}
      BY <3>3, <3>4 DEF AllMended, MayMix
    <3>. QED  BY <1>1, <2>1, <3>5 DEF Mixed, Displayed
  <2>2. CASE ~proc[backend_pid].ok
    BY <1>1, <2>2, MixedNoMore DEF Mixing, MixedOnPath
  <2>. QED  BY <2>1, <2>2
<1>3. MixedOnPath'
  BY <1>2 DEF MixedOnPath, Mixed
<1>. QED  BY <1>1, <1>3 DEF Mixing

\* A run begins with the marks of the one before.
LEMMA BeginMixes ==
    ASSUME Inductive, Mixing, NEW scheduled, start_executing(scheduled, run_status), ~Backend_exists
    PROVE  Mixing'
<1>1. PICK p \in Procs :
         /\ to_front' = <<>> /\ run_status' = run_status
         /\ proc'[p].pc = "start" /\ proc'[p].base = Root
         /\ \A o \in Procs \ {p} : ~proc'[o].current
  BY BeginsAtRoot
<1>2. Mixed(run_status)' = {} /\ Mixed(run_status) = {}
  <2>1. Mixed(run_status) = {}
    BY DEF Mixing, MixedOnPath
  <2>. QED  BY <1>1, <2>1 DEF Mixed
<1>3. Held' = {}
  <2>1. HeldOpen(proc[p])' = {Root}
    BY <1>1, Order DEF HeldOpen, Room, Around
  <2>. QED  BY <1>1, <2>1 DEF Held, Displayed
<1>4. Len(to_front') = 0 /\ (0 + 1) - 1 = 0 /\ 1 .. 0 = {}
  BY <1>1
<1>5. \A X : (AllMended(run_status, to_front, Len(to_front) + 1, X))'
  <2>1. \A a \in 0 .. (0 + 1) - 1 : a = 0
    OBVIOUS
  <2>2. MayMix(run_status, to_front, 0)' = {}
    BY <1>2 DEF MayMix
  <2>3. \A X : (AllMended(run_status, to_front, 0 + 1, X))'
    BY <2>1, <2>2 DEF AllMended
  <2>. QED  BY <1>4, <2>3
<1>6. MixedOnPath'
  BY <1>2 DEF MixedOnPath
<1>7. \A p_1 \in Procs : (AllMended(run_status, to_front, Len(to_front) + 1, Room(proc[p_1])))'
  BY <1>5
<1>. QED  BY <1>3, <1>4, <1>6, <1>7 DEF Mixing

\* The other steps of the frontend and the user within a run.
LEMMA MarkMixes ==
    ASSUME Inductive, Mixing, MarkStep, UNCHANGED current_running \/ handle_ctrl_msg
    PROVE  Mixing'
<1>1. CASE handle_ctrl_msg
  BY <1>1, ReadMixes
<1>2. UNCHANGED backend_pid /\ \A o \in Procs : SameWalk(proc[o], proc'[o])
  BY DEF MarkStep
<1>3. Held' \subseteq Held
  <2>1. \A o \in Procs : proc'[o].current = proc[o].current /\ HeldOpen(proc'[o]) = HeldOpen(proc[o])
    BY <1>2 DEF SameWalk, SameRun, HeldOpen, Room
  <2>. QED  BY <2>1, HeldStill
<1>4. ASSUME NEW o \in Procs, Walker(proc'[o])
      PROVE  \E u \in Procs : Walker(proc[u]) /\ Room(proc[u]) \subseteq Room(proc'[o])
  <2>1. Walker(proc[o]) /\ Room(proc'[o]) = Room(proc[o])
    BY <1>2, <1>4 DEF SameWalk, SameRun, Walker, Room
  <2>. QED  BY <2>1
<1>5. CASE UNCHANGED <<run_status, to_front, current_running>>
  BY <1>2, <1>3, <1>4, <1>5, MixKept
<1>6. ASSUME NEW e \in Cursor, NEW s \in {"DONE", "FAILED", "NONE"}, change_run_status_marks(e, s)
      PROVE  Mixing'
  <2>1. run_status' = ChangedStatuses(run_status, e, s) /\ UNCHANGED <<to_front, current_running>>
    BY <1>6 DEF change_run_status_marks, socket_vars
  <2>2. Mixed(run_status') \subseteq Mixed(run_status)
    BY <2>1, ProcType, CursorType, MixedLess
  <2>. QED  BY <1>2, <1>3, <1>4, <2>1, <2>2, MixKept
<1>. QED  BY <1>1, <1>5, <1>6 DEF MarkStep

\* The invariant of MarksAgree holds at first.
LEMMA InitMixing == Init => Mixing
<1>. SUFFICES ASSUME Init PROVE Mixing
  OBVIOUS
<1>1. \A e \in Element : run_status[e] = "NONE"
  BY DEF Init
<1>2. ASSUME NEW e \in Displayed, NEW c \in Children[e], Can_run(c)
      PROVE  get_element_status(run_status, e) = "NONE"
  <2>1. e \in Element /\ c \in Element /\ e \in Ancestors[c]
    BY ChildrenBelow DEF Displayed
  <2>2. HasChildren(e)
    BY <2>1, Positions DEF HasChildren
  <2>3. \A u : has_child_with_run_status(run_status, e, u) <=> u = "NONE"
    <3>1. \A d \in Children[e] : d \in Element
      BY <2>1, ChildrenBelow DEF Displayed
    <3>. QED  BY <1>1, <1>2, <3>1 DEF has_child_with_run_status
  <2>. QED  BY <2>2, <2>3 DEF get_element_status
<1>3. Mixed(run_status) = {}
  BY <1>1, <1>2 DEF Mixed, Displayed
<1>. QED  BY <1>3 DEF Init, Mixing, MixedOnPath, Backend_exists

\* Every step keeps it.
LEMMA NextMixing ==
    ASSUME "sf" \notin Keys, "sm" \notin Keys
    PROVE  Running /\ Mixing /\ [Next]_vars => (Running /\ Mixing)'
<1>. SUFFICES ASSUME Running, Mixing, [Next]_vars PROVE Running' /\ Mixing'
  OBVIOUS
<1>1. Inductive /\ Running'
  BY NextRunning DEF Running
<1>2. ASSUME NEW p \in Procs, signal_io(p) \/ Backend(p) \/ run_action(p) \/ fatal_backend_error(p)
      PROVE  Mixing'
  <2>1. Steps(p) /\ UNCHANGED current_running
    BY <1>1, <1>2, ProcessSteps, LastStartIsSaid
  <2>. QED  BY <1>1, <2>1, QuietMixes, StartMixes, FinishMixes, ForkMixes, ExitMixes DEF Steps
<1>3. CASE UserKey \/ Frontend \/ UNCHANGED vars
  <2>1. CASE BeginStep
    <3>1. \E scheduled : start_executing(scheduled, run_status)
      <4>1. ~start_executing_marked
        BY DEF start_executing_marked, Pressed
      <4>2. PICK e \in Cursor : start_executing_children(e) \/ start_executing_next(e)
        BY <1>1, <1>3, <2>1, <4>1, BeginKeys
      <4>. QED  BY <4>2 DEF start_executing_children, executing_children, start_executing_next
    <3>. QED  BY <1>1, <2>1, <3>1, BeginMixes DEF BeginStep
  <2>2. CASE wait_for_the_backend
    BY <1>1, <2>2, CollectMixes
  <2>3. CASE MarkStep /\ ~BeginStep
    BY <1>1, <1>3, <2>3, LastStartIsKept, MarkMixes
  <2>. QED  BY <1>1, <1>3, <2>1, <2>2, <2>3, OtherSteps
<1>. QED  BY <1>1, <1>2, <1>3 DEF Next

\* Whatever runs, fails, is stopped or is marked with 'm': as long as no run is
\* forced and none is started from the '*', no mark is left that disagrees with
\* those below it.  Both reset marks and leave those above them as they are,
\* until the run says more.
THEOREM MarksAgree ==
    ASSUME "sf" \notin Keys, "sm" \notin Keys
    PROVE  Spec => []MarksAgreeWhenStopped
<1>1. Init => Running /\ Mixing
  BY InitRunning, InitMixing
<1>2. Running /\ Mixing /\ [Next]_vars => (Running /\ Mixing)'
  BY NextMixing
<1>3. Running /\ Mixing => MarksAgreeWhenStopped
  BY DEF Mixing, MixedOnPath, Mixed, MarksAgreeWhenStopped
<1>. QED  BY <1>1, <1>2, <1>3, PTL DEF Spec
=============================================================================
