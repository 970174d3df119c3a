----------------------------- MODULE Execution -----------------------------
(***************************************************************************)
(* Running profiles: the interactive frontend (nalfs.c), the backend it    *)
(* forks for each run (backend.c), the processes the backend forks for     *)
(* stages (handlers/stage.c, su.c, chroot.c) and the control socket        *)
(* between them (comm.c).  Backend logging (opt_log_backend) is off, so    *)
(* start_logging_element() and end_logging_element() return at once.       *)
(***************************************************************************)
EXTENDS ElementTree, Sequences, FiniteSets

\* The cursor can be on any element but the root, which is never displayed.
Displayed == Element \ {Root}

CONSTANTS
    Noisy,          \* the actions whose command prints something
    Keys,           \* bound: the keys the user presses
    Cursor,         \* bound: the elements the user moves the cursor to
    MaxCommands,    \* bound: unread commands in the socket to the backend
    MaxProcs        \* bound: backend processes alive at a time

ASSUME ExecutionAssumption ==
    /\ Noisy \subseteq Element
    /\ Cursor \subseteq Displayed
    /\ MaxCommands \in Nat
    /\ MaxProcs \in Nat \ {0}

VARIABLES
    \* frontend
    run_status,         \* mark of each element
    marked,             \* elements marked with '*'
    should_run,         \* elements scheduled for the current run
    current_running,    \* last element known to have started
    backend_status,     \* what the status line says
    backend_pid,        \* process started for this run; NoProc if reaped
    got_sigchld,        \* set by signal_chld()
    frontend,           \* "loop": in get_key(); "reading": in read_all_messages()
    \* control socket of the current run
    to_front,           \* messages to the frontend not read yet
    to_back,            \* commands to the backend not read yet
    sigio_owner,        \* process F_SETOWN was last called for, if it is alive
    \* backend
    proc,               \* the backend's processes
    started             \* what this run's backend has said it started, in order

frontend_vars == <<run_status, marked, should_run, current_running,
                   backend_status, backend_pid, got_sigchld, frontend>>
socket_vars   == <<to_front, to_back, sigio_owner>>
backend_vars  == <<proc, started>>
vars == <<frontend_vars, socket_vars, backend_vars>>

Procs  == 1 .. MaxProcs
NoProc == 0

Backend_exists == backend_pid # NoProc

FrontMessage == [type : {"ELEMENT_STARTED", "ELEMENT_ENDED", "ELEMENT_FAILED"},
                 el   : Element]
Command      == {"CTRL_STOP", "CTRL_PAUSE"}

(***************************************************************************)
(* A process of the backend.  It is at element `at', in the execution of   *)
(* the children of `base', with its own copy of should_run (todo) and of   *)
(* pause_now, because it was forked.  pc:                                  *)
(*   "start"    before Start_receiving_sigio()                             *)
(*   "begin"    about to execute the children of base                      *)
(*   "element"  about to look at `at' (do_execute_element())               *)
(*   "handler"  in the handler of `at'                                     *)
(*   "waiting"  in the waitpid() of a handler that forked                  *)
(*   "finish"   the handler of `at' has returned, 0 iff ok                 *)
(*   "exit"     about to exit, with status 0 iff ok                        *)
(*   "zombie"   the frontend's child has died and was not waited for       *)
(***************************************************************************)
ProcState == [pc        : {"free", "start", "begin", "element", "handler",
                           "waiting", "finish", "exit", "zombie"},
              at        : Element,
              base      : Element,
              ok        : BOOLEAN,
              todo      : SUBSET Element,
              pause_now : BOOLEAN,
              sigio     : BOOLEAN,  \* SIGIO raised, its handler not run yet
              parent    : Procs \cup {NoProc},
              current   : BOOLEAN]  \* holds the socket of the current run

FreeProc == [pc |-> "free", at |-> Root, base |-> Root, ok |-> TRUE, todo |-> {},
             pause_now |-> FALSE, sigio |-> FALSE, parent |-> NoProc,
             current |-> FALSE]

Free(p)      == proc[p].pc = "free"
CanHandle(p) == proc[p].pc \notin {"free", "exit", "zombie"}

TypeOK ==
    /\ run_status \in [Element -> RunStatus]
    /\ marked \subseteq Element
    /\ should_run \subseteq Element
    /\ current_running \in Element
    /\ backend_status \in {"RUNNING", "PAUSED", "STOPPED"}
    /\ backend_pid \in Procs \cup {NoProc}
    /\ got_sigchld \in BOOLEAN
    /\ frontend \in {"loop", "reading"}
    /\ to_front \in Seq(FrontMessage)
    /\ to_back \in Seq(Command)
    /\ sigio_owner \in Procs \cup {NoProc}
    /\ proc \in [Procs -> ProcState]
    /\ started \in Seq(Element)

Init ==
    /\ run_status = [e \in Element |-> "NONE"]
    /\ marked = {}
    /\ should_run = {}
    /\ current_running = Root
    /\ backend_status = "STOPPED"
    /\ backend_pid = NoProc
    /\ got_sigchld = FALSE
    /\ frontend = "loop"
    /\ to_front = <<>>
    /\ to_back = <<>>
    /\ sigio_owner = NoProc
    /\ proc = [p \in Procs |-> FreeProc]
    /\ started = <<>>

-----------------------------------------------------------------------------
(***************************************************************************)
(* The user's keys.  get_key() reads them one at a time in the loop.       *)
(***************************************************************************)
Pressed(key) == frontend = "loop" /\ key \in Keys

\* start_executing(): a new pair of sockets and a new process.  Processes of
\* an earlier run that are still alive keep the sockets of that run.
start_executing(scheduled, statuses) ==
    \E p \in Procs :
        /\ Free(p)
        /\ should_run' = scheduled
        /\ run_status' = statuses
        /\ current_running' = Root
        /\ backend_pid' = p
        /\ backend_status' = "RUNNING"
        /\ to_front' = <<>>
        /\ to_back' = <<>>
        /\ sigio_owner' = NoProc
        /\ started' = <<>>
        /\ proc' = [q \in Procs |->
                      IF q = p THEN [FreeProc EXCEPT !.pc = "start",
                                                     !.todo = scheduled,
                                                     !.current = TRUE]
                      ELSE [proc[q] EXCEPT !.current = FALSE]]
        /\ UNCHANGED <<marked, got_sigchld, frontend>>

\* 's' 'm': the marked elements, whatever their status.
start_executing_marked ==
    /\ Pressed("sm")
    /\ ~Backend_exists
    /\ marked # {}
    /\ start_executing(should_run \cup marked,
                       [e \in Element |-> IF e \in marked THEN "NONE"
                                          ELSE run_status[e]])

\* What 's' 'c' does with the statuses rs.
executing_children(e, rs) ==
    /\ rs[e] # "DONE"
    /\ Can_run(e)
    /\ start_executing(should_run \cup Ancestors[e] \cup MarkedForRunning(rs, e), rs)

\* 's' 'c': element e and its children.
start_executing_children(e) ==
    /\ Pressed("sc")
    /\ ~Backend_exists
    /\ executing_children(e, run_status)

\* 's' 'n': e, and the siblings after it.
start_executing_next(e) ==
    /\ Pressed("sn")
    /\ ~Backend_exists
    /\ run_status[e] # "DONE"
    /\ Can_run(e)
    /\ start_executing(should_run \cup Ancestors[e]
                         \cup UNION {MarkedForRunning(run_status, x) : x \in FromHere(e)},
                       run_status)

\* 's' 'f': as 's' 'c' once nothing in e is done.
force_executing(e) ==
    /\ Pressed("sf")
    /\ ~Backend_exists
    /\ Can_run(e)
    /\ LET clear_done_run_status ==
             [x \in Element |-> IF x \in Subtree[e] /\ run_status[x] = "DONE"
                                THEN "NONE" ELSE run_status[x]]
       IN  executing_children(e, clear_done_run_status)

\* A command goes to the socket; the kernel raises SIGIO for the owner.
send_command(c) ==
    /\ Len(to_back) < MaxCommands
    /\ to_back' = Append(to_back, c)
    /\ IF sigio_owner # NoProc
         THEN proc' = [proc EXCEPT ![sigio_owner].sigio = TRUE]
         ELSE UNCHANGED proc
    /\ UNCHANGED <<run_status, marked, should_run, current_running, backend_pid,
                   got_sigchld, frontend, to_front, sigio_owner, started>>

\* 'S'
stop_key ==
    /\ Pressed("S")
    /\ Backend_exists
    /\ send_command("CTRL_STOP")
    /\ UNCHANGED backend_status

\* 'p'
pause_key ==
    /\ Pressed("p")
    /\ Backend_exists
    /\ send_command("CTRL_PAUSE")
    /\ backend_status' = CASE backend_status = "PAUSED"  -> "RUNNING"
                           [] backend_status = "RUNNING" -> "PAUSED"
                           [] OTHER -> backend_status

mark_vars == <<run_status, should_run, current_running, backend_status,
               backend_pid, got_sigchld, frontend, socket_vars, backend_vars>>

\* (mutant: parents are left as they are)
WithoutParents(e, m) == m

\* The parents of e are marked iff a child of theirs is, from the inside out:
\* iff something marked hangs off the path between the parent and e.
WithParents(e, m) ==
    LET off(b) == Children[b] \ Ancestors[e]
    IN  (m \ Ancestors[e])
          \cup {a \in Ancestors[e] :
                  \E b \in Ancestors[e] \cap Subtree[a] : off(b) \cap m # {}}

\* '*'
mark_element(e) ==
    /\ Pressed("*")
    /\ LET flipped == IF ~Can_run(e) THEN marked
                      ELSE IF e \in marked THEN marked \ Subtree[e]
                      ELSE marked \cup Subtree[e]
       IN  marked' = WithParents(e, flipped)
    /\ UNCHANGED mark_vars

\* 'u': unmark what is done; 'U': unmark everything.
clear_marks(all) ==
    /\ Pressed(IF all THEN "U" ELSE "u")
    /\ marked' = IF all THEN {} ELSE {e \in marked : run_status[e] # "DONE"}
    /\ UNCHANGED mark_vars

\* 'm': set the run-status marks of e and of what is below it.
change_run_status_marks(e, s) ==
    /\ Pressed("m")
    /\ Can_run(e)
    /\ e \notin should_run
    /\ run_status' = ChangedStatuses(run_status, e, s)
    /\ UNCHANGED <<marked, should_run, current_running, backend_status,
                   backend_pid, got_sigchld, frontend, socket_vars, backend_vars>>

UserKey ==
    \/ start_executing_marked
    \/ stop_key
    \/ pause_key
    \/ \E all \in BOOLEAN : clear_marks(all)
    \/ \E e \in Cursor :
         \/ start_executing_children(e)
         \/ start_executing_next(e)
         \/ force_executing(e)
         \/ mark_element(e)
         \/ \E s \in {"DONE", "FAILED", "NONE"} : change_run_status_marks(e, s)

-----------------------------------------------------------------------------
(***************************************************************************)
(* The frontend's side of a run.                                           *)
(***************************************************************************)

\* set_run_status()
set_run_status(e, s) ==
    run_status' = IF Can_run(e) THEN [run_status EXCEPT ![e] = s] ELSE run_status

element_started(e) ==
    /\ current_running' = e
    /\ set_run_status(e, "RUNNING")

\* (mutant: the element is done, whatever became of its children)
element_ended_is_done(e) == set_run_status(e, "DONE") /\ UNCHANGED current_running

element_ended(e) ==
    /\ set_run_status(e, get_element_status(run_status, e))
    /\ UNCHANGED current_running

element_failed(e) == set_run_status(e, "FAILED") /\ UNCHANGED current_running

\* handle_ctrl_msg(): one message, from get_key() while the backend exists,
\* or from read_all_messages().
handle_ctrl_msg ==
    /\ Backend_exists
    /\ to_front # <<>>
    /\ LET msg == Head(to_front)
       IN  CASE msg.type = "ELEMENT_STARTED" -> element_started(msg.el)
             [] msg.type = "ELEMENT_ENDED"   -> element_ended(msg.el)
             [] msg.type = "ELEMENT_FAILED"  -> element_failed(msg.el)
    /\ to_front' = Tail(to_front)
    /\ UNCHANGED <<marked, should_run, backend_status, backend_pid, got_sigchld,
                   frontend, to_back, sigio_owner, backend_vars>>

\* (mutant: the flag is not reset)
read_all_messages_flag_kept ==
    /\ frontend = "loop"
    /\ got_sigchld
    /\ frontend' = "reading"
    /\ UNCHANGED <<run_status, marked, should_run, current_running, backend_status,
                   backend_pid, got_sigchld, socket_vars, backend_vars>>

\* get_key() has seen got_sigchld: it reads everything before it waits.
read_all_messages ==
    /\ frontend = "loop"
    /\ got_sigchld
    /\ got_sigchld' = FALSE
    /\ frontend' = "reading"
    /\ UNCHANGED <<run_status, marked, should_run, current_running, backend_status,
                   backend_pid, socket_vars, backend_vars>>

\* (mutant: nothing is marked)
not_changed_to_failed == run_status

\* The last element that has started, and its parents.
change_run_status_to_failed ==
    [e \in Element |->
       IF Can_run(e) /\ current_running \in Subtree[e] THEN "FAILED" ELSE run_status[e]]

\* Nothing is left to read: waitpid(), the marks of an execution that did not
\* end normally, and the rest of the handling of got_sigchld.
wait_for_the_backend ==
    /\ frontend = "reading"
    /\ to_front = <<>>
    /\ backend_pid \in Procs
    /\ proc[backend_pid].pc = "zombie"
    /\ run_status' =
         IF proc[backend_pid].ok THEN run_status ELSE change_run_status_to_failed
    /\ should_run' = {}
    /\ backend_pid' = NoProc
    /\ backend_status' = "STOPPED"
    /\ frontend' = "loop"
    /\ proc' = [proc EXCEPT ![backend_pid] = FreeProc]
    /\ UNCHANGED <<marked, current_running, got_sigchld, socket_vars, started>>

-----------------------------------------------------------------------------
(***************************************************************************)
(* Commands in the backend.                                                *)
(***************************************************************************)
Stops(q)  == {i \in DOMAIN q : q[i] = "CTRL_STOP"}
Pauses(q) == {i \in DOMAIN q : q[i] = "CTRL_PAUSE"}
Odd(S)    == Cardinality(S) % 2 = 1

\* (mutant: the second pause does not resume)
paused_for_good(pause_now, toggle) == pause_now \/ toggle

\* toggle_pause(), an odd number of times or an even one.
toggle_pause(pause_now, toggle) == pause_now # toggle

\* handle_ctrl_msg() of backend.c, in process p that goes on with next: every
\* message is read, up to a stop.  What the socket of an earlier run still
\* holds is not known any more.
read_commands(p, next) ==
    LET r == proc[p]
        stopped == [r EXCEPT !.pc = "exit", !.ok = FALSE, !.sigio = FALSE]
        going(toggle) == [r EXCEPT !.pc = next, !.sigio = FALSE,
                                   !.pause_now = toggle_pause(r.pause_now, toggle)]
    IN  CASE ~r.current ->
               /\ \E new \in {stopped} \cup {going(t) : t \in BOOLEAN} :
                     proc' = [proc EXCEPT ![p] = new]
               /\ UNCHANGED to_back
          [] r.current /\ Stops(to_back) = {} ->
               /\ proc' = [proc EXCEPT ![p] = going(Odd(Pauses(to_back)))]
               /\ to_back' = <<>>
          [] r.current /\ Stops(to_back) # {} ->
               /\ proc' = [proc EXCEPT ![p] = stopped]
               /\ LET first == CHOOSE i \in Stops(to_back) :
                                  \A j \in Stops(to_back) : i <= j
                  IN  to_back' = SubSeq(to_back, first + 1, Len(to_back))

\* (mutant: signals are blocked in the handlers of elements)
signal_io_between_elements(p) ==
    /\ CanHandle(p) /\ proc[p].pc # "handler"
    /\ proc[p].sigio
    /\ read_commands(p, proc[p].pc)
    /\ UNCHANGED <<frontend_vars, to_front, sigio_owner, started>>

\* signal_io()
signal_io(p) ==
    /\ CanHandle(p)
    /\ proc[p].sigio
    /\ read_commands(p, proc[p].pc)
    /\ UNCHANGED <<frontend_vars, to_front, sigio_owner, started>>

\* (mutant: what came before F_SETOWN is not looked at)
Start_receiving_later_sigio(p) ==
    /\ proc[p].pc = "start"
    /\ sigio_owner' = IF proc[p].current THEN p ELSE sigio_owner
    /\ proc' = [proc EXCEPT ![p].pc = "begin"]
    /\ UNCHANGED <<frontend_vars, to_front, to_back, started>>

\* Start_receiving_sigio(): p owns the socket, and reads what it missed.
Start_receiving_sigio(p) ==
    /\ proc[p].pc = "start"
    /\ sigio_owner' = IF proc[p].current THEN p ELSE sigio_owner
    /\ read_commands(p, "begin")
    /\ UNCHANGED <<frontend_vars, to_front, started>>

-----------------------------------------------------------------------------
(***************************************************************************)
(* The walk of the tree.                                                   *)
(***************************************************************************)

\* execute_children(el) in the process r: its first child, or already done.
EnterChildren(r, el) ==
    IF HasChildren(el) THEN [r EXCEPT !.pc = "element", !.at = el + 1]
    ELSE [r EXCEPT !.pc = IF el = r.base THEN "exit" ELSE "finish", !.ok = TRUE]

\* (mutants: the end of the siblings is missed; a forked process goes on after
\* the element it was forked for)
LeaveElement_past_last(r, good) ==
    IF good THEN [r EXCEPT !.pc = "element", !.at = Next_el(r.at)]
    ELSE IF Parent[r.at] = r.base THEN [r EXCEPT !.pc = "exit", !.ok = good]
    ELSE [r EXCEPT !.pc = "finish", !.at = Parent[r.at], !.ok = good]
LeaveElement_no_exit(r, good) ==
    IF good /\ HasNext(r.at) THEN [r EXCEPT !.pc = "element", !.at = Next_el(r.at)]
    ELSE IF Parent[r.at] = Root THEN [r EXCEPT !.pc = "exit", !.ok = good]
    ELSE [r EXCEPT !.pc = "finish", !.at = Parent[r.at], !.ok = good]

\* do_execute_element(r.at) has returned, 0 iff good: the loop of
\* execute_children() goes on to the next child, or returns to the handler of
\* the parent, or to the exit() of the process.
LeaveElement(r, good) ==
    IF good /\ HasNext(r.at)
      THEN [r EXCEPT !.pc = "element", !.at = Next_el(r.at)]
    ELSE IF Parent[r.at] = r.base
      THEN [r EXCEPT !.pc = "exit", !.ok = good]
    ELSE [r EXCEPT !.pc = "finish", !.at = Parent[r.at], !.ok = good]

send_to_front(p, type, e) ==
    to_front' = IF proc[p].current THEN Append(to_front, [type |-> type, el |-> e])
                ELSE to_front

walk_vars == <<frontend_vars, to_back, sigio_owner>>

\* start_backend(), or the forked child of a handler: it changes the root
\* directory or the user, which can fail, and executes the children.
begin_children(p) ==
    /\ proc[p].pc = "begin"
    /\ \E good \in BOOLEAN :
         /\ ~good => Kind[proc[p].base] = "fork"
         /\ proc' = [proc EXCEPT ![p] =
                       IF good THEN EnterChildren(@, @.base)
                       ELSE [@ EXCEPT !.pc = "exit", !.ok = FALSE]]
    /\ UNCHANGED <<walk_vars, to_front, started>>

\* do_execute_element() up to the call of the handler.
do_execute_element(p) ==
    /\ proc[p].pc = "element"
    /\ LET e == proc[p].at
       IN  IF Can_run(e) /\ e \in proc[p].todo
             THEN /\ proc' = [proc EXCEPT ![p].pc = "handler"]
                  /\ send_to_front(p, "ELEMENT_STARTED", e)
                  /\ started' = IF proc[p].current THEN Append(started, e) ELSE started
             ELSE /\ proc' = [proc EXCEPT ![p] = LeaveElement(@, TRUE)]
                  /\ UNCHANGED <<to_front, started>>
    /\ UNCHANGED walk_vars

\* The handler of a profile, or of an element that executes its children
\* itself; only the latter can fail before it does.
run_container(p) ==
    /\ proc[p].pc = "handler"
    /\ Kind[proc[p].at] \in {"profile", "container"}
    /\ \E good \in BOOLEAN :
         /\ ~good => Kind[proc[p].at] = "container"
         /\ proc' = [proc EXCEPT ![p] =
                       IF good THEN EnterChildren(@, @.at)
                       ELSE [@ EXCEPT !.pc = "finish", !.ok = FALSE]]
    /\ UNCHANGED <<walk_vars, to_front, started>>

\* The handler of an action.  Its output is written by nprint_backend(), which
\* waits there while pause_now is set.
run_action(p) ==
    /\ proc[p].pc = "handler"
    /\ Kind[proc[p].at] = "action"
    /\ proc[p].at \in Noisy => ~proc[p].pause_now
    /\ \E good \in BOOLEAN :
         proc' = [proc EXCEPT ![p].pc = "finish", ![p].ok = good]
    /\ UNCHANGED <<walk_vars, to_front, started>>

\* The handler of stage, su or chroot: it forks and waits, or fails before.
run_fork(p) ==
    /\ proc[p].pc = "handler"
    /\ Kind[proc[p].at] = "fork"
    /\ \/ proc' = [proc EXCEPT ![p].pc = "finish", ![p].ok = FALSE]
       \/ \E c \in Procs :
            /\ Free(c)
            /\ proc' = [proc EXCEPT
                 ![p].pc = "waiting",
                 ![c] = [proc[p] EXCEPT !.pc = "start", !.base = proc[p].at,
                                        !.sigio = FALSE, !.parent = p]]
    /\ UNCHANGED <<walk_vars, to_front, started>>

\* The end of do_execute_element().
finish_element(p) ==
    /\ proc[p].pc = "finish"
    /\ send_to_front(p, IF proc[p].ok THEN "ELEMENT_ENDED" ELSE "ELEMENT_FAILED",
                     proc[p].at)
    /\ proc' = [proc EXCEPT ![p] = LeaveElement(@, @.ok)]
    /\ UNCHANGED <<walk_vars, started>>

\* (mutant: how the forked process has ended is not looked at)
ignored_status(p) == TRUE

\* What waitpid() tells the handler that forked p.
child_status(p) == proc[p].ok

\* exit().  The parent's waitpid() returns, unless the parent is gone; the
\* frontend gets SIGCHLD for the process it forked.
exit_process(p) ==
    /\ proc[p].pc = "exit"
    /\ LET q == proc[p].parent
           waits == q # NoProc /\ proc[q].pc = "waiting"
           orphaned(c) == [proc[c] EXCEPT !.parent = IF @ = p THEN NoProc ELSE @]
       IN  proc' = [c \in Procs |->
             CASE c = p /\ p = backend_pid -> [proc[p] EXCEPT !.pc = "zombie"]
               [] c = p /\ p # backend_pid -> FreeProc
               [] c # p /\ waits /\ c = q  ->
                    [proc[q] EXCEPT !.pc = "finish", !.ok = child_status(p)]
               [] OTHER -> orphaned(c)]
    /\ got_sigchld' = (got_sigchld \/ p = backend_pid)
    /\ sigio_owner' = IF sigio_owner = p THEN NoProc ELSE sigio_owner
    /\ UNCHANGED <<run_status, marked, should_run, current_running, backend_status,
                   backend_pid, frontend, to_front, to_back, started>>

\* fatal_backend_error(): SIGKILL to itself, from a process that executes.
fatal_backend_error(p) ==
    /\ proc[p].pc \in {"start", "begin", "element", "handler", "finish"}
    /\ proc' = [proc EXCEPT ![p].pc = "exit", ![p].ok = FALSE]
    /\ UNCHANGED <<walk_vars, to_front, started>>

Backend(p) ==
    \/ Start_receiving_sigio(p)
    \/ begin_children(p)
    \/ do_execute_element(p)
    \/ run_container(p)
    \/ run_fork(p)
    \/ finish_element(p)
    \/ exit_process(p)

Frontend == handle_ctrl_msg \/ read_all_messages \/ wait_for_the_backend

Next ==
    \/ UserKey
    \/ Frontend
    \/ \E p \in Procs :
         \/ signal_io(p)
         \/ Backend(p)
         \/ run_action(p)
         \/ fatal_backend_error(p)

Spec == Init /\ [][Next]_vars

(***************************************************************************)
(* Fairness.  The frontend polls its socket and its flag in an endless     *)
(* loop, a pending signal is delivered, and the backend's processes are    *)
(* scheduled; nothing is assumed of the user, of fatal errors, or of the   *)
(* commands of actions, which may run for ever.                            *)
(***************************************************************************)
Fairness ==
    /\ WF_vars(Frontend)
    /\ \A p \in Procs : WF_vars(signal_io(p)) /\ WF_vars(Backend(p))

FairSpec == Spec /\ Fairness

\* The same when every command an action executes comes to its end.
TerminatingSpec == FairSpec /\ \A p \in Procs : WF_vars(run_action(p))

-----------------------------------------------------------------------------
(***************************************************************************)
(* Properties.                                                             *)
(***************************************************************************)

\* Once the frontend has dealt with the end of a run, no element on the screen
\* is still marked as running, however the run ended: wait_for_the_backend()
\* covers what the backend's messages did not say.
NoneRunningWhenStopped ==
    ~Backend_exists => \A e \in Displayed : run_status[e] # "RUNNING"

\* Between runs the mark of an element that has children that can run says what
\* their marks say, or that it failed: the messages of a run, the marks made at
\* its end and those the user makes with 'm' never leave the tree in
\* disagreement with itself (README 5.1).
MarksAgreeWhenStopped ==
    ~Backend_exists =>
      \A e \in Displayed :
         Can_run(e) /\ (\E c \in Children[e] : Can_run(c)) =>
           run_status[e] \in {"FAILED", get_element_status(run_status, e)}

\* "Execution successfully done" is true: when a run ends with status 0 every
\* action the backend could reach among those scheduled is marked done.
CompleteWhenSuccessful ==
    [][Backend_exists /\ backend_pid' = NoProc /\ proc[backend_pid].ok =>
         \A e \in Reachable(should_run) :
            Kind[e] = "action" => run_status'[e] = "DONE"]_vars

\* Every marked element that can run is one the backend would reach if the
\* marked elements were started now: no mark is left below a parent without
\* one, whatever was marked, unmarked and run in between (README 5.2, 'm').
MarkedWouldRun ==
    \A e \in marked \ {Root} : Can_run(e) => e \in Reachable(marked)

\* The death of the process the frontend forked is always on record, in the
\* flag or by get_key() being past it, and only then: the waitpid() that
\* follows never blocks the screen, and no dead backend goes unnoticed.
DeathIsOnRecord ==
    /\ ~(got_sigchld /\ frontend = "reading")
    /\ (got_sigchld \/ frontend = "reading") <=>
         (Backend_exists /\ proc[backend_pid].pc = "zombie")

\* As long as the owner of the socket lives, a command that waits in the
\* socket has a signal pending for it: no 'S' or 'p' is stranded between the
\* frontend's write and the F_SETOWN of set_receive_sigio().
CommandsAreSignalled ==
    sigio_owner # NoProc /\ CanHandle(sigio_owner) /\ to_back # <<>> =>
      proc[sigio_owner].sigio

\* The status line tells the truth about pausing, up to the commands still in
\* the socket, as long as no process but the first one has owned the socket.
PauseIsShown ==
    Backend_exists /\ CanHandle(backend_pid)
      /\ (\A i \in DOMAIN started : Kind[started[i]] # "fork") =>
        (backend_status = "PAUSED" <=>
           proc[backend_pid].pause_now # Odd(Pauses(to_back)))

\* 'S' works whatever the commands of the run do: a stop that is in the socket
\* ends the run, even if no command it executes ever ends.
StopEndsRun ==
    (Backend_exists /\ Stops(to_back) # {}) ~> ~Backend_exists

\* A run comes to its end if its commands do, unless the user pauses it.
RunEnds ==
    Backend_exists ~> (~Backend_exists \/ backend_status = "PAUSED")

-----------------------------------------------------------------------------
(***************************************************************************)
(* The inductive invariant of ExecutionProofs.                             *)
(***************************************************************************)

\* A process that walks the tree is below the element whose children it executes.
WalkIsBelowBase ==
    \A p \in Procs :
       proc[p].pc \in {"element", "handler", "waiting", "finish"} =>
         proc[p].base \in Ancestors[proc[p].at]

\* The process to wait for is there until it is waited for, and no other
\* process is ever left unreaped.
BackendIsThere ==
    /\ Backend_exists => ~Free(backend_pid)
    /\ \A p \in Procs : proc[p].pc = "zombie" => p = backend_pid

\* The owner of the socket is a process of this run, and past set_receive_sigio().
OwnerIsOfThisRun ==
    sigio_owner # NoProc =>
      /\ proc[sigio_owner].current
      /\ proc[sigio_owner].pc \notin {"free", "start", "zombie"}

Inductive ==
    /\ TypeOK
    /\ WalkIsBelowBase
    /\ BackendIsThere
    /\ DeathIsOnRecord
    /\ OwnerIsOfThisRun
    /\ CommandsAreSignalled

-----------------------------------------------------------------------------
(***************************************************************************)
(* What the documentation says and the program does not keep to.           *)
(***************************************************************************)

\* README 5.1: all parents of the running element are marked as running too.
ParentsOfRunningAreRunning ==
    \A e \in Displayed :
       run_status[e] = "RUNNING" =>
         \A a \in Ancestors[e] \ {Root} : run_status[a] = "RUNNING"

\* README 5.1: an element marked '#' is done, and so are all its children.
DoneMeansChildrenDone ==
    ~Backend_exists =>
      \A e \in Displayed : run_status[e] = "DONE" =>
         \A c \in Children[e] : Can_run(c) => run_status[c] = "DONE"

\* README 5.2: what has successfully run does not run again unless it is marked
\* or forced; so the end of a run takes no '#' away from an action.
SuccessIsKept ==
    [][Backend_exists /\ backend_pid' = NoProc =>
         \A e \in Displayed :
            Kind[e] = "action" /\ run_status[e] = "DONE" => run_status'[e] = "DONE"]_vars

\* Help page, 'S': once the frontend says that the backend is stopped, no
\* process executes elements any more.
NothingRunsWhenStopped ==
    backend_status = "STOPPED" =>
      \A p \in Procs : proc[p].pc \in {"free", "exit"}
=============================================================================
