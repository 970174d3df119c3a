----------------------------- MODULE PackageLog -----------------------------
(***************************************************************************)
(* Backend logging (opt_log_backend on): what backend and frontend say to  *)
(* each other at the start and the end of a package (logging.c, nalfs.c),  *)
(* the log each try of a package leaves behind, and the time stamp that    *)
(* outlives an interrupted try in the frontend's state file.               *)
(*                                                                         *)
(* The profile is a row of packages, each with a name, a version and some  *)
(* actions of its own; no element forks.  Execution tells how a process    *)
(* walks a tree and how signals reach it; here a command that waits in the *)
(* socket is read whenever SIGIO is not ignored.                           *)
(***************************************************************************)
EXTENDS Naturals, Sequences, FiniteSets

CONSTANTS
    NumPackages,    \* the profile's packages are 1, 2, ... in document order
    NumActions,     \* NumActions[p]: the actions of package p
    Method,         \* opt_logging_method at the start: LOG_USING_ONE_FIND or LOG_OFF
    Keys,           \* bound: the commands the user sends
    MaxCommands,    \* bound: commands sent in a run
    MaxRuns,        \* bound: runs
    MayBeKilled     \* whether something else may kill the backend

Packages == 1 .. NumPackages

ASSUME PackageAssumption ==
    /\ NumPackages \in Nat \ {0}
    /\ NumActions \in [Packages -> Nat]
    /\ Method \in {"LOG_OFF", "LOG_USING_ONE_FIND"}
    /\ Keys \subseteq {"CTRL_STOP", "CTRL_LOG_CHANGED_FILES"}
    /\ MaxCommands \in Nat
    /\ MaxRuns \in Nat
    /\ MayBeKilled \in BOOLEAN

VARIABLES
    \* frontend
    done,               \* actions with status DONE
    should_run,         \* actions scheduled for the current run
    current_running,    \* last element known to have started
    state,              \* contents of the state file, or NoState
    frontend,           \* what it is in the middle of reading
    incoming,           \* the part of a transfer it has read
    book,               \* log entries stored in this run
    \* control socket
    to_front, to_back,
    \* backend
    backend,
    \* history
    run,                \* number of the run, the time a stamp remembers
    sent,               \* commands sent in this run
    tries,              \* packages whose logging was started in this run
    last_try            \* the last try that has not been listed, or lost

frontend_vars == <<done, should_run, current_running, state, frontend, incoming, book>>
history_vars  == <<run, sent, tries, last_try>>
vars == <<frontend_vars, to_front, to_back, backend, history_vars>>

\* An element is an action of a package, or, with 0, the package.
Actions == UNION {{p} \X (1 .. NumActions[p]) : p \in Packages}
PackageOf(e) == e[1]
IsAction(e)  == e[2] # 0

NoStamp == 0
NoState == [pkg |-> 0, stamp |-> NoStamp]
NoLog   == [pkg |-> 0, how |-> "ended", find |-> "no"]
NoEntry == [pkg |-> 0, how |-> "ended", find |-> "no", files |-> NoStamp]

\* What a try of a package leaves: how it ended, whether the changed files
\* were looked for, and, in the frontend, the list of them.
Log   == [pkg : Packages, how : {"ended", "failed", "stopped"},
          find : {"no", "failed", "yes"}]
Entry == [pkg : Packages, how : {"ended", "failed", "stopped"},
          find : {"no", "failed", "yes"}, files : 0 .. MaxRuns]

Message(t, x) == [type |-> t, arg |-> x]
Plain(t)      == Message(t, "")

\* Messages without content: comm_read_ctrl_message() leaves NULL there.
NoContent == {"CTRL_STOP", "CTRL_LOG_CHANGED_FILES", "CTRL_NO_STATE"}

(***************************************************************************)
(* The backend.  pc:                                                       *)
(*   "none"      there is none          "listen_first" start_backend()     *)
(*   "package"   about to look at package pkg                              *)
(*   "starting"  in start_logging_element(), SIGIO not yet ignored         *)
(*   "wait_state", "read_state"         in request_state()                 *)
(*   "listen_in" at the end of start_logging_element()                     *)
(*   "check"     in parse_packageinfo()                                    *)
(*   "action"    about to look at action act of pkg                        *)
(*   "work"      executing it                                              *)
(*   "ending"    in end_logging_element(), SIGIO not yet ignored           *)
(*   "wait_status"                      in ask_about_element_status()      *)
(*   "listen_collect", "collect"        in do_collect_files()              *)
(*   "finishing" in finish_logging(), sending outbox                       *)
(*   "listen_out" at the end of end_logging_element()                      *)
(*   "report"    about to say how the package has ended                    *)
(*   "exiting"   in stop_ourselves() or exit(), sending outbox             *)
(*   "dead"      not waited for yet                                        *)
(***************************************************************************)
Listening == {"package", "starting", "check", "action", "work", "ending",
              "collect", "report"}
Living    == Listening \cup
             {"listen_first", "wait_state", "read_state", "listen_in", "wait_status",
              "listen_collect", "finishing", "listen_out", "exiting"}

NoBackend == [pc |-> "none", pkg |-> 1, act |-> 1, ok |-> TRUE, method |-> Method,
              time_stamp |-> NoStamp, logs |-> NoLog, outbox |-> <<>>,
              end |-> "exited"]

Init ==
    /\ done = {}
    /\ should_run = {}
    /\ current_running = <<1, 0>>
    /\ state = NoState
    /\ frontend = "loop"
    /\ incoming = NoEntry
    /\ book = <<>>
    /\ to_front = <<>>
    /\ to_back = <<>>
    /\ backend = NoBackend
    /\ run = 0
    /\ sent = 0
    /\ tries = <<>>
    /\ last_try = NoState

ActionsOf(p) == {e \in Actions : PackageOf(e) = p}

-----------------------------------------------------------------------------
(***************************************************************************)
(* The user: starts a run of any actions, which are no longer done then,   *)
(* and sends commands while there is a backend.                            *)
(***************************************************************************)
start_executing(scheduled) ==
    /\ frontend = "loop"
    /\ backend.pc = "none"
    /\ run < MaxRuns
    /\ scheduled # {}
    /\ should_run' = scheduled
    /\ done' = done \ scheduled
    /\ current_running' = <<1, 0>>
    /\ backend' = [NoBackend EXCEPT !.pc = "listen_first"]
    /\ to_front' = <<>>
    /\ to_back' = <<>>
    /\ book' = <<>>
    /\ tries' = <<>>
    /\ run' = run + 1
    /\ sent' = 0
    /\ UNCHANGED <<state, frontend, incoming, last_try>>

send_command(c) ==
    /\ c \in Keys
    /\ frontend = "loop"
    /\ backend.pc # "none"
    /\ sent < MaxCommands
    /\ sent' = sent + 1
    /\ to_back' = Append(to_back, Plain(c))
    /\ UNCHANGED <<frontend_vars, to_front, backend, run, tries, last_try>>

-----------------------------------------------------------------------------
(***************************************************************************)
(* The frontend's side.                                                    *)
(***************************************************************************)

\* State_changed(): an action of another package makes the state file useless.
after_element(e) ==
    IF IsAction(e) /\ state # NoState /\ state.pkg # PackageOf(e) THEN NoState ELSE state

\* (mutant: only a frontend that has the right state answers)
no_answer == <<>>

\* What send_state() answers when it has no state for the package.
NoStateAnswer == <<Plain("CTRL_NO_STATE")>>

\* send_state(): the state, if it is that of the package that has started, and
\* then it is deleted in any case.
send_state ==
    /\ to_back' = to_back \o
         (IF state # NoState /\ state.pkg = PackageOf(current_running)
            THEN <<Plain("CTRL_SENDING_STATE"), Message("CTRL_DATA", state.stamp),
                   Plain("CTRL_DATA_SENT")>>
            ELSE NoStateAnswer)
    /\ state' = NoState

\* (mutant: what this run has done is all there is)
element_status_in_this_run(p) ==
    IF ActionsOf(p) \cap should_run \subseteq done THEN "RUN_STATUS_DONE" ELSE "another"

get_element_status(p) ==
    IF ActionsOf(p) \subseteq done THEN "RUN_STATUS_DONE" ELSE "another"

\* handle_ctrl_msg(), one message; what it does not know it drops.
handle_ctrl_msg ==
    /\ frontend = "loop"
    /\ to_front # <<>>
    /\ to_front' = Tail(to_front)
    /\ LET msg == Head(to_front)
       IN  \/ /\ msg.type = "CTRL_ELEMENT_STARTED"
              /\ current_running' = msg.arg
              /\ UNCHANGED <<done, state, frontend, to_back>>
           \/ /\ msg.type = "CTRL_ELEMENT_ENDED"
              /\ state' = after_element(msg.arg)
              /\ done' = done \cup ({msg.arg} \cap Actions)
              /\ UNCHANGED <<current_running, frontend, to_back>>
           \/ /\ msg.type = "CTRL_ELEMENT_FAILED"
              /\ state' = after_element(msg.arg)
              /\ done' = done \ {msg.arg}
              /\ UNCHANGED <<current_running, frontend, to_back>>
           \/ /\ msg.type = "CTRL_REQUESTING_STATE"
              /\ send_state
              /\ UNCHANGED <<current_running, done, frontend>>
           \/ /\ msg.type = "CTRL_REQUEST_EL_STATUS"
              /\ to_back' = Append(to_back, Message("CTRL_REQUEST_EL_STATUS",
                                                    get_element_status(msg.arg)))
              /\ UNCHANGED <<current_running, done, frontend, state>>
           \/ /\ msg.type \in {"CTRL_SENDING_LOG_FILE", "CTRL_SENDING_STATE"}
              /\ frontend' = msg.type
              /\ UNCHANGED <<current_running, done, state, to_back>>
           \/ /\ msg.type \in {"CTRL_SENDING_FILES_FILE", "CTRL_DATA", "CTRL_DATA_SENT"}
              /\ UNCHANGED <<current_running, done, frontend, state, to_back>>
    /\ UNCHANGED <<should_run, incoming, book, backend, history_vars>>

store(entry) ==
    /\ book' = Append(book, entry)
    /\ incoming' = NoEntry
    /\ frontend' = "loop"

\* comm_read_to_memory() or comm_read_to_file(), one message, and what
\* receive_log_file(), receive_changed_files() or receive_state() does when
\* the last one has come.
read_transfer ==
    /\ frontend \in {"CTRL_SENDING_LOG_FILE", "CTRL_SENDING_FILES_FILE",
                     "CTRL_SENDING_STATE"}
    /\ to_front # <<>>
    /\ to_front' = Tail(to_front)
    /\ LET msg == Head(to_front)
       IN  \/ /\ msg.type = "CTRL_DATA"
              /\ frontend = "CTRL_SENDING_LOG_FILE"
              /\ incoming' = [NoEntry EXCEPT !.pkg = msg.arg.pkg, !.how = msg.arg.how,
                                              !.find = msg.arg.find]
              /\ UNCHANGED <<frontend, book, state>>
           \/ /\ msg.type = "CTRL_DATA"
              /\ frontend = "CTRL_SENDING_FILES_FILE"
              /\ incoming' = [incoming EXCEPT !.files = msg.arg]
              /\ UNCHANGED <<frontend, book, state>>
           \/ /\ msg.type = "CTRL_DATA"
              /\ frontend = "CTRL_SENDING_STATE"
              /\ state' = msg.arg
              /\ UNCHANGED <<frontend, book, incoming>>
           \/ /\ msg.type = "CTRL_DATA_SENT"
              /\ frontend = "CTRL_SENDING_LOG_FILE"
              /\ IF incoming.find = "yes"
                   THEN frontend' = "looking" /\ UNCHANGED <<book, incoming>>
                   ELSE store(incoming)
              /\ UNCHANGED state
           \/ /\ msg.type = "CTRL_DATA_SENT"
              /\ frontend = "CTRL_SENDING_FILES_FILE"
              /\ store(incoming)
              /\ UNCHANGED state
           \/ /\ msg.type = "CTRL_DATA_SENT"
              /\ frontend = "CTRL_SENDING_STATE"
              /\ frontend' = "loop"
              /\ UNCHANGED <<book, incoming, state>>
           \/ /\ msg.type \notin {"CTRL_DATA", "CTRL_DATA_SENT"}
              /\ UNCHANGED <<frontend, book, incoming, state>>
    /\ UNCHANGED <<done, should_run, current_running, to_back, backend, history_vars>>

\* receive_changed_files(): one read, of what is there now.
receive_changed_files ==
    /\ frontend = "looking"
    /\ to_front' = IF to_front = <<>> THEN <<>> ELSE Tail(to_front)
    /\ IF to_front # <<>> /\ Head(to_front).type = "CTRL_SENDING_FILES_FILE"
         THEN frontend' = "CTRL_SENDING_FILES_FILE" /\ UNCHANGED <<book, incoming>>
         ELSE store(incoming)
    /\ UNCHANGED <<done, should_run, current_running, state, to_back, backend,
                   history_vars>>

\* The end of a run: nothing is left to read, and the last element known to
\* have started is not done if the backend has not succeeded.
wait_for_the_backend ==
    /\ frontend = "loop"
    /\ backend.pc = "dead"
    /\ to_front = <<>>
    /\ done' = IF backend.ok /\ backend.end = "exited" THEN done
               ELSE done \ {current_running}
    /\ should_run' = {}
    /\ backend' = [backend EXCEPT !.pc = "none"]
    /\ UNCHANGED <<current_running, state, frontend, incoming, book, to_front,
                   to_back, history_vars>>

Frontend == handle_ctrl_msg \/ read_transfer \/ receive_changed_files
              \/ wait_for_the_backend

-----------------------------------------------------------------------------
(***************************************************************************)
(* Commands in the backend.                                                *)
(***************************************************************************)
socket_vars == <<to_front, to_back>>

StateMessages(p, stamp) ==
    <<Plain("CTRL_SENDING_STATE"),
      Message("CTRL_DATA", [pkg |-> p, stamp |-> stamp]), Plain("CTRL_DATA_SENT")>>

LogMessages(log) ==
    <<Message("CTRL_SENDING_LOG_FILE", log.pkg), Message("CTRL_DATA", log),
      Plain("CTRL_DATA_SENT")>>

FilesMessages(stamp) ==
    <<Plain("CTRL_SENDING_FILES_FILE"), Message("CTRL_DATA", stamp),
      Plain("CTRL_DATA_SENT")>>

\* (mutant: the state is for stopped packages only)
after_the_log_if_stopped(b) ==
    IF b.logs.find = "yes" THEN FilesMessages(b.time_stamp)
    ELSE IF b.time_stamp # NoStamp /\ b.logs.how = "stopped"
      THEN StateMessages(b.pkg, b.time_stamp)
    ELSE <<>>

\* The list of files, or else the time stamp, if there is one.
after_the_log(b) ==
    IF b.logs.find = "yes" THEN FilesMessages(b.time_stamp)
    ELSE IF b.time_stamp # NoStamp THEN StateMessages(b.pkg, b.time_stamp)
    ELSE <<>>

\* finish_logging(): the log goes out, and nothing of the package is kept.
finish_logging(b, next) ==
    [b EXCEPT !.pc = next,
              !.logs = NoLog,
              !.time_stamp = NoStamp,
              !.outbox = LogMessages(b.logs) \o after_the_log(b)]

\* (mutant: a stopped package sends no log)
not_logged(b) == [b EXCEPT !.pc = "exiting", !.ok = FALSE]

\* log_stopped_execution() in stop_ourselves()
log_stopped_execution(b) ==
    IF b.logs = NoLog THEN [b EXCEPT !.pc = "exiting", !.ok = FALSE]
    ELSE finish_logging([b EXCEPT !.logs.how = "stopped", !.ok = FALSE], "exiting")

Where(type)    == {i \in DOMAIN to_back : to_back[i].type = type}
Before(i)      == {j \in Where("CTRL_LOG_CHANGED_FILES") : j < i}
OtherMethod(m) == IF m = "LOG_OFF" THEN "LOG_USING_ONE_FIND" ELSE "LOG_OFF"

\* handle_ctrl_msg(): everything up to a stop; what it does not know, such as
\* an answer nobody waits for any more, it drops.
read_commands(next) ==
    LET toggled(i) == IF Cardinality(Before(i)) % 2 = 0 THEN backend
                      ELSE [backend EXCEPT !.method = OtherMethod(@)]
    IN  \/ /\ Where("CTRL_STOP") = {}
           /\ to_back' = <<>>
           /\ backend' = [toggled(Len(to_back) + 1) EXCEPT !.pc = next]
        \/ \E i \in Where("CTRL_STOP") :
              /\ \A j \in Where("CTRL_STOP") : i <= j
              /\ to_back' = SubSeq(to_back, i + 1, Len(to_back))
              /\ backend' = log_stopped_execution(toggled(i))

\* signal_io(), wherever SIGIO is not ignored.
signal_io ==
    /\ backend.pc \in Listening
    /\ to_back # <<>>
    /\ read_commands(backend.pc)
    /\ UNCHANGED <<frontend_vars, to_front, history_vars>>

\* Start_receiving_sigio(), in start_backend(), start_logging_element(),
\* do_collect_files() and end_logging_element().
Start_receiving_sigio ==
    /\ \/ backend.pc = "listen_first"   /\ read_commands("package")
       \/ backend.pc = "listen_in"      /\ read_commands("check")
       \/ backend.pc = "listen_collect" /\ read_commands("collect")
       \/ backend.pc = "listen_out"     /\ read_commands("report")
    /\ UNCHANGED <<frontend_vars, to_front, history_vars>>

-----------------------------------------------------------------------------
(***************************************************************************)
(* The backend's walk over packages and actions.                           *)
(***************************************************************************)
send_to_front(type, x) == to_front' = Append(to_front, Message(type, x))

\* do_execute_element() of package pkg, or the end of the last one.
start_package ==
    /\ backend.pc = "package"
    /\ IF backend.pkg > NumPackages
         THEN /\ backend' = [backend EXCEPT !.pc = "exiting"]
              /\ UNCHANGED to_front
         ELSE IF ActionsOf(backend.pkg) \cap should_run = {}
         THEN /\ backend' = [backend EXCEPT !.pkg = @ + 1]
              /\ UNCHANGED to_front
         ELSE /\ backend' = [backend EXCEPT !.pc = "starting"]
              /\ send_to_front("CTRL_ELEMENT_STARTED", <<backend.pkg, 0>>)
    /\ UNCHANGED <<frontend_vars, to_back, history_vars>>

\* start_package_logging() asks for the state.
request_state ==
    /\ backend.pc = "starting"
    /\ backend' = [backend EXCEPT !.pc = "wait_state"]
    /\ send_to_front("CTRL_REQUESTING_STATE", "")
    /\ UNCHANGED <<frontend_vars, to_back, history_vars>>

\* stage_one_of_logging_changed_files(), and logs is set.
stage_one(received) ==
    LET stamp == IF backend.method = "LOG_USING_ONE_FIND" /\ received = NoStamp
                   THEN run ELSE received
    IN  /\ backend' = [backend EXCEPT !.pc = "listen_in",
                                      !.time_stamp = stamp,
                                      !.logs = [NoLog EXCEPT !.pkg = backend.pkg]]
        /\ tries' = Append(tries, backend.pkg)
        /\ last_try' = [pkg |-> backend.pkg, stamp |-> stamp]
        /\ UNCHANGED <<run, sent>>

\* The first message to come is taken for the answer.
answer_state ==
    /\ backend.pc = "wait_state"
    /\ to_back # <<>>
    /\ to_back' = Tail(to_back)
    /\ IF Head(to_back).type = "CTRL_SENDING_STATE"
         THEN /\ backend' = [backend EXCEPT !.pc = "read_state"]
              /\ UNCHANGED history_vars
         ELSE stage_one(backend.time_stamp)
    /\ UNCHANGED <<frontend_vars, to_front>>

\* receive_state(): comm_read_to_memory(), one message.
receive_state ==
    /\ backend.pc = "read_state"
    /\ to_back # <<>>
    /\ to_back' = Tail(to_back)
    /\ LET msg == Head(to_back)
       IN  \/ /\ msg.type = "CTRL_DATA"
              /\ backend' = [backend EXCEPT !.time_stamp = msg.arg]
              /\ UNCHANGED history_vars
           \/ /\ msg.type = "CTRL_DATA_SENT"
              /\ stage_one(backend.time_stamp)
           \/ /\ msg.type \notin {"CTRL_DATA", "CTRL_DATA_SENT"}
              /\ UNCHANGED <<backend, history_vars>>
    /\ UNCHANGED <<frontend_vars, to_front>>

\* parse_packageinfo(): the package's requirements are met, or are not.
check_requires ==
    /\ backend.pc = "check"
    /\ \/ backend' = [backend EXCEPT !.pc = "action", !.act = 1]
       \/ backend' = [backend EXCEPT !.pc = "ending", !.ok = FALSE]
    /\ UNCHANGED <<frontend_vars, socket_vars, history_vars>>

\* (mutant: the end of the children is noticed one child late)
past_last(b) == b.act > NumActions[b.pkg] + 1

\* child == NULL in execute_children()
NoChildLeft(b) == b.act > NumActions[b.pkg]

\* execute_children() of the package.
start_action ==
    /\ backend.pc = "action"
    /\ LET e == <<backend.pkg, backend.act>>
       IN  IF NoChildLeft(backend)
             THEN /\ backend' = [backend EXCEPT !.pc = "ending"]
                  /\ UNCHANGED to_front
             ELSE IF e \notin should_run
             THEN /\ backend' = [backend EXCEPT !.act = @ + 1]
                  /\ UNCHANGED to_front
             ELSE /\ backend' = [backend EXCEPT !.pc = "work"]
                  /\ send_to_front("CTRL_ELEMENT_STARTED", e)
    /\ UNCHANGED <<frontend_vars, to_back, history_vars>>

\* An action's command ends, well or not.
end_action ==
    /\ backend.pc = "work"
    /\ \/ /\ backend' = [backend EXCEPT !.pc = "action", !.act = @ + 1]
          /\ send_to_front("CTRL_ELEMENT_ENDED", <<backend.pkg, backend.act>>)
       \/ /\ backend' = [backend EXCEPT !.pc = "ending", !.ok = FALSE]
          /\ send_to_front("CTRL_ELEMENT_FAILED", <<backend.pkg, backend.act>>)
    /\ UNCHANGED <<frontend_vars, to_back, history_vars>>

\* end_package_logging(): the status is asked for if files are to be logged.
end_package_logging ==
    /\ backend.pc = "ending"
    /\ LET ended == [backend EXCEPT !.logs.how = IF backend.ok THEN "ended" ELSE "failed"]
       IN  IF backend.method = "LOG_OFF"
             THEN /\ backend' = finish_logging(ended, "finishing")
                  /\ UNCHANGED to_front
             ELSE /\ backend' = [ended EXCEPT !.pc = "wait_status"]
                  /\ send_to_front("CTRL_REQUEST_EL_STATUS", backend.pkg)
    /\ UNCHANGED <<frontend_vars, to_back, history_vars>>

\* The rest of ask_about_element_status() and stage two: the content of the
\* first message to come is taken for the status, also when there is none.
answer_status ==
    /\ backend.pc = "wait_status"
    /\ to_back # <<>>
    /\ to_back' = Tail(to_back)
    /\ LET msg == Head(to_back)
       IN  backend' =
             IF msg.type \in NoContent
               THEN [backend EXCEPT !.pc = "dead", !.end = "crashed"]
             ELSE IF msg.type = "CTRL_REQUEST_EL_STATUS"
                     /\ msg.arg = "RUN_STATUS_DONE" /\ backend.time_stamp # NoStamp
               THEN [backend EXCEPT !.pc = "listen_collect"]
             ELSE finish_logging(backend, "finishing")
    /\ UNCHANGED <<frontend_vars, to_front, history_vars>>

\* collect_files() returns, and finish_logging() begins.
collect_files ==
    /\ backend.pc = "collect"
    /\ \E found \in {"yes", "failed"} :
         /\ backend' = finish_logging([backend EXCEPT !.logs.find = found], "finishing")
         /\ last_try' = IF found = "yes" THEN NoState ELSE last_try
    /\ UNCHANGED <<frontend_vars, socket_vars, run, sent, tries>>

\* comm_send_ctrl_msg() of the messages of finish_logging(), and what follows.
send_outbox ==
    /\ backend.pc \in {"finishing", "exiting"}
    /\ IF backend.outbox # <<>>
         THEN /\ to_front' = Append(to_front, Head(backend.outbox))
              /\ backend' = [backend EXCEPT !.outbox = Tail(@)]
         ELSE /\ backend' = [backend EXCEPT !.pc = IF @ = "exiting" THEN "dead"
                                                   ELSE "listen_out"]
              /\ UNCHANGED to_front
    /\ UNCHANGED <<frontend_vars, to_back, history_vars>>

\* The end of do_execute_element() of the package; a failure ends the run.
end_package ==
    /\ backend.pc = "report"
    /\ IF backend.ok
         THEN /\ backend' = [backend EXCEPT !.pc = "package", !.pkg = @ + 1]
              /\ send_to_front("CTRL_ELEMENT_ENDED", <<backend.pkg, 0>>)
         ELSE /\ backend' = [backend EXCEPT !.pc = "exiting"]
              /\ send_to_front("CTRL_ELEMENT_FAILED", <<backend.pkg, 0>>)
    /\ UNCHANGED <<frontend_vars, to_back, history_vars>>

\* SIGKILL, from outside or from fatal_backend_error().
kill ==
    /\ MayBeKilled
    /\ backend.pc \in Living
    /\ backend' = [backend EXCEPT !.pc = "dead", !.end = "killed", !.outbox = <<>>]
    /\ last_try' = NoState
    /\ UNCHANGED <<frontend_vars, socket_vars, run, sent, tries>>

Backend ==
    \/ start_package \/ request_state \/ answer_state \/ receive_state
    \/ check_requires \/ start_action \/ end_package_logging \/ answer_status
    \/ send_outbox \/ end_package \/ Start_receiving_sigio

Command == end_action \/ collect_files

Next ==
    \/ \E scheduled \in SUBSET Actions : start_executing(scheduled)
    \/ \E c \in Keys : send_command(c)
    \/ Frontend
    \/ Backend
    \/ Command
    \/ signal_io
    \/ kill

Spec == Init /\ [][Next]_vars

(***************************************************************************)
(* Fairness, as in Execution: frontend and backend are scheduled, a signal *)
(* is delivered; and, in TerminatingSpec, commands and searches end.       *)
(***************************************************************************)
FairSpec == Spec /\ WF_vars(Frontend) /\ WF_vars(Backend) /\ WF_vars(signal_io)

TerminatingSpec == FairSpec /\ WF_vars(Command)

-----------------------------------------------------------------------------
(***************************************************************************)
(* Properties.                                                             *)
(***************************************************************************)
TypeOK ==
    /\ done \subseteq Actions /\ should_run \subseteq Actions
    /\ current_running \in Packages \X Nat
    /\ state \in [pkg : Packages, stamp : 1 .. MaxRuns] \cup {NoState}
    /\ incoming \in Entry \cup {NoEntry}
    /\ book \in Seq(Entry)
    /\ backend.pc \in Living \cup {"none", "dead"}
    /\ backend.pkg \in 1 .. NumPackages + 1
    /\ backend.pc \in {"action", "work"} =>
         backend.act \in 1 .. NumActions[backend.pkg] + 1
    /\ backend.logs \in Log \cup {NoLog}
    /\ backend.time_stamp \in 0 .. MaxRuns

\* The packages of the entries stored in this run.
Booked == [i \in DOMAIN book |-> book[i].pkg]

\* A run that was not killed and did not crash leaves exactly one log entry for each package it
\* has begun to log, in their order, however the package ended: done, failed
\* or stopped at any point, including the search for changed files.
LogsAreComplete ==
    backend.pc = "none" /\ backend.end = "exited" => Booked = tries

\* A package tried again after a try that was not finished, with nothing else
\* tried in between, continues with the time stamp of that try, so that the list
\* of its files will cover both: the stamp survives in the state file whether
\* actions failed, requirements were not met or only a part was scheduled.
StampIsOfFirstTry ==
    [][tries' # tries /\ tries' # <<>> /\ last_try.pkg = backend.pkg
         /\ last_try.stamp # NoStamp => last_try'.stamp = last_try.stamp]_vars

\* Files are looked for at the end of a package exactly when all its actions
\* are done by then, not only those of this run (logging.c:695 FIXME).
DoneIsSearched ==
    [][Len(book') > Len(book) =>
         LET entry == book'[Len(book')]
         IN  (entry.find # "no") <=> (ActionsOf(entry.pkg) \subseteq done)]_vars

\* A run ends when its commands do.
RunEnds == backend.pc # "none" ~> backend.pc = "none"

-----------------------------------------------------------------------------
(***************************************************************************)
(* What the documentation says and the program does not keep to.           *)
(***************************************************************************)

\* nalfs.c:583: the list of installed files is read and the package's log is
\* updated with its name.
FilesAreListed ==
    \A i \in DOMAIN book : book[i].find = "yes" => book[i].files # NoStamp

\* logging.c:644: the conversion of the answer to a number will do.
NeverCrashes == backend.end # "crashed"

\* Help page, 'S': a stop that is in the socket ends the run, even if no command
\* the run executes ever ends.
StopEndsRun ==
    (backend.pc \in Living /\ Where("CTRL_STOP") # {}) ~> backend.pc = "none"
=============================================================================
