# nALFS and jhalfs in TLA+

This directory is a verification development for the ALFS project
(Automated Linux From Scratch): TLA+ modules translated from the source, TLC
configurations that check them on small instances, and theorems about them that
TLAPS checks for every instance.

Paths below are relative to `src/archive/nALFS/nALFS/trunk/` unless they begin
with `jhalfs/`, which stands for `src/jhalfs/trunk/`.

## 1. Inventory

The repository is a copy of a Subversion tree. Two programs in it are alive and
carry logic of their own; everything else is an older copy of them (`branches`,
`tags`), documentation, XML profiles, a DTD, or an abandoned prototype
(`archive/alfs-POC`).

### 1.1 nALFS (`src/`, C)

nALFS reads XML *profiles*, shows them as a tree of elements on the terminal, and
executes the elements: each of them stands for shell commands that build a part
of a Linux system.

| part | state it keeps | operations | how it interacts |
|---|---|---|---|
| element tree (`parser.c`, `parser.h`) | the tree; per element `run_status`, `marked`, `should_run`, `hidden` | walking in document order, statuses computed from children | shared by frontend and, as a copy made by `fork()`, backend |
| frontend (`nalfs.c`) | `backend_pid`, `got_sigchld`, `current_running`, the status line | keys: start (`s` + `m c n f`), stop `S`, pause `p`, marks `*  u U m`, add, delete, move and reload profiles; the loop of `get_key()` | forks the backend; reads its control messages; writes commands |
| backend (`backend.c`) | `pause_now`, its place in the tree | `do_execute_element()`, `execute_children()`, the SIGIO handler | sends `ELEMENT_STARTED/ENDED/FAILED`; reads `STOP`, `PAUSE` and toggles |
| forked elements (`handlers/stage.c`, `su.c`, `chroot.c`) | a copy of the backend's state | fork, change user, root or environment, execute the children, wait | take over the control socket's SIGIO; exit status to the parent |
| profile list (`nalfs.c`, "Profile's functions") | the children of the root as a doubly linked list, `should_run` of each, `current_running` | add, remove after a question, reload, move up and down, also while a run goes on | messages name an element by its profile's name and a position in it |
| sockets (`comm.c`) | two socket pairs per run, partly read messages | framed control messages, bulk data | used by both sides |
| package logging (`logging.c`, `logfiles.c`, `find.c`) | the log of the current package, its *stamp*, a state file and log files on disk | at the start and end of each package; collecting changed files | asks the frontend for state and status, sends it logs and lists over the control socket |
| handlers (`handlers/*.c`) | none | one shell command each; `package.c` compares versions | called by the backend |
| options, init, editor, windows, XML | configuration, screen | sequential input and output | - |

### 1.2 jhalfs (`jhalfs/`, shell)

| part | state it keeps | operations | how it interacts |
|---|---|---|---|
| generator (`jhalfs`, `LFS/master.sh`, `common/makefile-functions`) | - | extracts commands from the XML of a *Linux From Scratch* book and writes a Makefile | text in, text out |
| generated Makefile | files named after targets and phases (`mk_SETUP` ... `mk_BOOT`), `restore-luser-env`, `luser-exist` | three nested makes per phase, under the user, the build account or `root`, outside or inside the new root; recipes for the account, its dot files, `/tools`, the kernel file systems | changes the host; is interrupted and started again, may be told to stop at a `BREAKPOINT` |
| dependency trees (`BLFS/libs/func_dependencies`) | one `.dep` and one `.tree` file per package, rewritten while they are read | three recursive passes: reach, clean, make a tree and cut cycles; `tree_browse` lists it | reads the book's dependencies, gives the order in which packages are built |

### 1.3 What is hard

* **Concurrency.** Frontend and backend run at the same time over a socket; the
  backend is interrupted by SIGIO anywhere, the frontend by SIGCHLD; stages fork
  further processes which share the socket, and `F_SETOWN` names one receiver.
* **Failure.** A command can fail, the backend can kill itself
  (`fatal_backend_error()`), be killed, or be stopped by the user at any point;
  what the screen says afterwards is reconstructed.
* **Ordering.** Messages still in the socket when the backend dies, commands sent
  before anybody listens, questions of the backend answered while commands are
  under way.
* **Long sequences.** Marks survive runs; forced, partial and failed runs follow
  each other over the same tree.
* **Restart.** Stamps and state files continue an interrupted package; the
  Makefile of jhalfs continues a build interrupted between any two commands of
  any of its makes, and its recipes have to be repeatable.
* **Names instead of pointers.** Messages name elements by profile and position
  while profiles are removed, moved and reloaded; trees of packages name each
  other by position in files that grow while they are read.

The hazards, each with its line and the properties that cover it, are listed in
`PROJECT.json`.

### 1.4 What makes each part correct

* *Tree and marks*: statuses between runs agree with each other; nothing is shown
  as running without a backend; marked elements are reached.
* *Execution*: what is scheduled is executed in order, each element once, across
  processes; success means everything; stop and pause work, and the status line
  tells the truth; a death is noticed exactly once.
* *Sockets*: messages arrive whole and in order, no command is stranded.
* *Package logging*: every package leaves one log; a continued package continues
  its first stamp; a question gets its own answer.
* *Profile list*: the pointers are the list the user sees; a message finds its
  element, whatever was done to the list since it was written.
* *jhalfs, build*: phases run in order and complete after any interruption; the
  user's account and files survive; the build gets finished.
* *jhalfs, dependencies*: everything needed is listed, once, after what it
  depends on, except where a cycle forbids it.

## 2. Modules

| module | models |
|---|---|
| `ElementTree` | the tree, run statuses and scheduling as pure operators |
| `Execution` | frontend, backend, forked stages and control socket during runs |
| `SequentialRun` | abstract: a plan is executed one element at a time |
| `ExecutionRefinement` | `Execution` implements `SequentialRun` |
| `MCExecution` | trees for TLC |
| `PackageLog` | both sides at the start and the end of a package: state file, time stamp, log, list of files |
| `MCPackageLog` | packages for TLC |
| `ControlSocket` | commands as bytes in the socket, read by handler and interrupted code |
| `MCControlSocket` | commands for TLC |
| `ProfileOrder` | abstract: the row of files a user sees |
| `ProfileList` | the linked list of profiles, and messages that name its elements |
| `MCProfileList` | profiles for TLC |
| `BuildMakefile` | the generated Makefile, stopped and resumed |
| `MCBuildMakefile` | a book for TLC |
| `Dependencies` | the graph, the tree and the list of packages |
| `MCDependencies`, `MCSixPackages` | books for TLC: books of three packages and of six |
| `ExecutionProofs` | types, signals and the death of the backend in `Execution` |
| `ExecutionRunProofs` | the processes of a run and what is shown as running |
| `ExecutionWalkProofs` | the refinement of `SequentialRun`, success, pausing, the marks |
| `PackageLogProofs` | every package begun leaves its log |
| `ProfileListProofs` | the profile list: its pointers, the row they show, the keys of messages, what is shown as running |
| `ControlSocketProofs` | buffers of the reading calls, whole commands |
| `BuildMakefileProofs` | the order of the phases, breakpoints, the account |
| `DependenciesProofs` | the search for the graph, the places of the trees, the list without repetitions |

### 2.1 ElementTree

Elements are numbers in document order and `Last[e]` is the last element of `e`'s
subtree, which determines all links (`TreeAssumption`). `Kind[e]` says what
executing `e` amounts to: a profile, a *container* that executes its children
itself, a *fork* that does so in a new process, an *action*, or a parameter that
never runs. `Reachable` is what a walk comes to: an element all of whose parents are
scheduled and execute their children. `get_element_status`, `ChangedStatuses` (`change_run_status_marks()`)
and `MarkedForRunning` (`do_mark_for_running()`) are the C functions on functions
from elements to statuses.

### 2.2 Execution

| variable | code |
|---|---|
| `run_status`, `marked`, `should_run` | fields of `element_s` in the frontend |
| `current_running`, `backend_pid`, `got_sigchld`, `backend_status` | variables of `nalfs.c` |
| `frontend` | whether `get_key()` is in `read_all_messages()` |
| `to_front`, `to_back` | the two directions of the control socket of the current run |
| `sigio_owner` | the process `F_SETOWN` names |
| `proc` | each backend process: where it is in the tree, its copies of `should_run` and `pause_now`, a pending SIGIO, its parent |
| `started` | what the backend has announced in this run |

Actions carry the names of the functions they model. A key is one action (the
frontend reads one key at a time), a message is one action (`handle_ctrl_msg`),
and the end of a run is two (`read_all_messages`, then `wait_for_the_backend` when
nothing is left to read). `signal_io` may run between any two steps of a process
and reads every command up to a stop, as the SIGIO handler does. A process walks
the tree by `begin_children`, `do_execute_element`, `run_container` / `run_fork` /
`run_action`, `finish_element` and `exit_process`; `fatal_backend_error` may
happen instead. An orphan of an earlier run keeps the socket of that run, whose
contents are not followed any more: what it reads there is chosen freely.

`opt_log_backend` is off in this module; the message exchange at package
boundaries is in `PackageLog`. A message is read in one step here;
`ControlSocket` says when it is not.

**Fairness.** `FairSpec` assumes that the frontend's loop goes on, that a pending
signal is delivered, and that the kernel schedules the backend's processes. It
assumes nothing of the user, nor of the commands of actions, which may run for
ever. `TerminatingSpec` adds that each command ends; `RunEnds` needs it.

### 2.3 SequentialRun

What a user expects: begin with a plan, start the plan's elements in order,
finish with success when all were started or with failure at any time, and
nothing is started after the outcome. `ExecutionRefinement` maps `plan` to
`Reachable(should_run)`, `ran` to `started` and the outcome to the exit status
that waits for the frontend. It holds as long as no process is stopped while
another one waits for it (`fork_stop` and the property `NothingRunsWhenStopped` cover
that case), so its run has no `S` among its keys.

### 2.4 PackageLog

With `opt_log_backend` on, a package is surrounded by a dialogue. At its start the
backend ignores SIGIO, asks for the state file and waits for the first message
that comes; the time stamp in it, or a new one, tells later which files are new.
At its end it asks for the status of the package, looks for changed files if that
is DONE, and sends the log, then either the list of files or the time stamp, which
the frontend keeps for the next try. A stop sends the log from the signal handler.

| variable | code |
|---|---|
| `done`, `should_run` | run statuses and the schedule, for actions only |
| `state` | `state.exists` and the contents of `state.filename` |
| `frontend`, `incoming`, `book` | the frontend in `handle_ctrl_msg()` or in the middle of `receive_log_file()`, `receive_changed_files()`, `receive_state()`; the log files |
| `to_front`, `to_back` | the control socket |
| `backend` | place in the walk, `opt_logging_method`, `time_stamp`, `logs`, messages still to be sent |
| `run`, `sent`, `tries`, `last_try` | history: the clock a stamp is taken from, and what was tried |

The rest is kept small: the profile is a row of packages with actions and nothing
forks; pauses and marks are `Execution`'s; the contents of a log are how the
package ended, whether files were looked for, and the list. `Listening` is the
places where SIGIO is not ignored. A requirement may fail to be met, an action or
a search may fail, and with `MayBeKilled` the backend may die anywhere, also with
messages half sent. Fairness is as in `Execution`; `Command` is what
`TerminatingSpec` adds: the action's shell command and the search for files.

### 2.5 ControlSocket

One direction of the socket as a sequence of bytes, written a message at a time and read
as `do_read_ctrl_message()` reads it: `is_read_available()`, the size a byte at a time,
then the body by a loop of `select()` and `read()`. Each system call is a step.
`select()` fails when a signal interrupts it, and `is_read_available()` takes the
failure for something to read; any signal will do, and the handler of SIGIO may have
just run, so this may happen at every `select()`. `handler` is the call of
`handle_ctrl_msg()` made by `signal_io()` and `direct` the one made by
`set_receive_sigio()`, which makes no step while the handler runs. The kernel blocks
SIGIO during its handler, so there are never more than two. Fairness: a raised signal is
delivered and the process goes on when it does not wait for a byte.

### 2.6 ProfileList and ProfileOrder

| variable | code |
|---|---|
| `first`, `nxt`, `prv`, `file` | the root's `children`, and `next`, `prev` and name of each profile; `Unused` is memory not allocated or freed |
| `status`, `should_run` | run statuses of a profile and its children; the profiles scheduled |
| `current_running`, `confirming`, `crashed` | the element last started (it may have been freed); the profile `d` asks about; the frontend has followed a null or freed pointer |
| `Backend_exists`, `todo`, `to_front`, `ok` | the backend, what it has still to say, what it has said, its exit status |
| `heir`, `reloaded` | history: what has become of each profile that existed at `fork()` |

The keys `a d r - +` are actions under the conditions `get_key()`'s caller tests;
the question of `d` is a state in which messages and the end of the run are still
handled, as `get_key()` does. The backend works on its own copy, so that what it
will say is fixed when it is forked, up to a failure, a stop or a death. A message
holds a name and a position, and `find_element_by_key()` counts in document order
from the first profile of that name, on into the next ones. A freed profile may be
given out again by the allocator, unless `current_running` still points to it:
reading that one is the crash the model looks for. Profiles are flat, since
`Execution` has trees of any shape. `ProfileOrder` is a sequence of files to which
one is added, from which one is removed or in which two neighbours change places;
`ShowsOrder` maps it to the files along `next`.

### 2.7 BuildMakefile

The numbered targets of the Makefile are one chain; each phase is a make of its own
that walks the chain up to the phase's last target (`PhaseEnd`). The first three
targets, the end of `LUSER` and the recipe of `all` are modelled command by command;
any other target is a script that takes a step.

| variable | code |
|---|---|
| `built`, `mk`, `restored` | the files that record targets, phases and `restore-luser-env` |
| `tools`, `link`, `mounted` | `$(MOUNT_PT)/tools`, the link `/tools`, the virtual kernel file systems |
| `luser`, `home`, `luser_exist` | the account, its dot files and their copies, the file that says it was there before |
| `pc`, `phase`, `t`, `goal`, `BREAKPOINT` | what the makes do next, and what they were asked for |

A make that a recipe has started may fail (`failed`): at the breakpoint, at a `mkdir`
that cannot be repeated, or because a command fails anywhere (`fail`). The command that
started it fails too, and the recipe of `mk_<phase>` ends before it touches its file
(`phase_failed`). `stop` may come between any two commands: make is killed, or
interrupted, in which case it deletes the target just touched. After either, as after
the end of a make, nothing is left but the files (`ended`). The user may ask for
everything or for one phase, with any breakpoint; `awaited` says that it was still to be
built when make was started. The account may have been there before; `.bashrc` and
`.bash_profile` are looked at separately by the recipes, so each may be there or not, as
may the copies an abandoned build has left, in every combination (`Accounts`).

**Fairness.** make goes on (`WF`), and a user who does not give up asks for
everything again (`SF` of `make`, with any breakpoint or none). The number of stops
is bounded: nobody finishes a build that is interrupted for ever.

### 2.8 Dependencies

The files `<package>.dep` and `<package>.tree` are `dep` and `tree`; the calls under
way are `stack`, each with the place in the file it reads. One step reads one line of
one file and does what the script does with it: skips it, cuts it, descends, or
returns to where the cycle can be cut (`returned`, `parentNode`). Since the files
change while they are read, `put_off` and `end_of_file` rewrite what the callers of
the call are reading. `packages.xml` is chosen as it is looked at, which makes every
book over the packages a behaviour and leaves out the parts of it that nobody reads.
`sed "/name/d"` and `grep` are modelled by what they match: `Matches` says which names
contain which, and a link may look like the row of priorities of another tree.
Before the tree is made, a package `x` with dependencies it needs to run gets a group
`<<x, "groupxx">>`, a file that names `x` and all of them, and which takes the place of
`x` below its parents (`with_group`); a parent that one of them depends on keeps `x`.
`Listing` is what `tree_browse` prints, and `Built` leaves the groups out. The program
is sequential; weak fairness of its step says that it is not stopped.

## 3. Runs

Two trees are used. The *flat* one has a profile with a package (a parameter and
an action) and an action after it: every kind but `fork`, an element that cannot
run between ones that can, and a last child at two depths. The *fork* one has a
stage that forks around an action, and an action after it: the smallest tree in
which the parent executes something after the child has died. One command in the
socket (two in `flat_run`) is enough for a command to be pending, and for a
second to follow it; `MaxProcs` is the number of processes the tree needs, plus
one in `fork_stop` for the orphan of an earlier run.

| run | tree | shows |
|---|---|---|
| `flat_run` | flat | marks, status line and signals are right under stops, pauses, manual marks and failures; `StopEndsRun` under `FairSpec` |
| `flat_marks` | flat | marked and ordinary runs end (`RunEnds` under `TerminatingSpec`); `MarkedWouldRun` without forced runs and marks set by hand |
| `fork_run` | fork | refinement of `SequentialRun`, also for forced runs, without stops |
| `fork_stop` | fork | stops, orphans: deaths recorded, success means everything |

These four keep `CHECK_DEADLOCK` on. `Keys` and `Cursor` name the keys and elements
the user tries in each run.

`PackageLog` is run with a package of two actions and one of one: the smallest
profile in which a package can be partly done and another package's action can
make the state file useless. Three runs of the program let a stamp be made, kept
and used with a run in between; two commands are enough for one to be pending when
another is read.

| run | shows |
|---|---|
| `package_tries` | actions, requirements and searches fail and any actions are scheduled, three times over: the stamp of the first try is kept, files are looked for when the package is done, runs end |
| `package_stops` | stops, toggles and kills between any two steps: one log per package begun, unless the backend was killed or has crashed |
| `socket_reads` | three commands between any two system calls: buffers are not overrun, and unless the handler interrupts the direct read no command is torn, lost or repeated |

These have `CHECK_DEADLOCK FALSE`: the user sends a bounded number of commands and
starts a bounded number of runs, and the program rests in between. In
`ControlSocket` the two commands have messages of different lengths (`2|9|` and
`3|10|`), and two of them can queue up behind one that is being read.

| run | instance | shows |
|---|---|---|
| `profile_run` | three profiles, room for a fourth, three changes, a run | links, order, messages and marks under changes of the list before, during and after a run |
| `build_run` | eight targets, two stops or failing commands | order of phases, environment and files of the account, breakpoints, and that a build which is resumed gets finished |
| `dependency_trees` | books of three packages, one or two of them asked for | what is listed, once and in order, which edges of a cycle are cut, that what a package needs to run is there when its parents are built, and that the recursion ends |

*Bounds.* A removal, a move or a reload touches a profile and up to three
neighbours: three profiles have a first, an inner and a last one, and one that is
nobody's neighbour in a move; the fourth is the place a reload needs. Three changes
let a profile be reloaded, moved and removed in the same run. One profile has a
child, so that positions after it go wrong when they are counted in another profile.
A book has a phase with two targets (an inner one and the last) and phases with one;
the account is none or has any of the 18 combinations of dot files and copies;
two stops, or failing commands, let the repetition of an interrupted recipe be interrupted again. Three
packages with two dependencies each have cycles of two and three, entered from
outside or not. The dependencies of `q` and `r` are of any of the three priorities,
and one of them may be needed to run; `p`, which is always asked for, has strong and
weak ones. `DEP_LEVEL` is 3, the level at which requested packages count differently
from others.

`dependency_trees` and `profile_run` have `CHECK_DEADLOCK FALSE`: the program ends, and
the user runs out of changes. `build_run` can always be started again.

Two runs show where the program does not keep what its documentation, its help
page or a comment says; each checks one property and ends with TLC's
counterexample:

| run | property | what happens |
|---|---|---|
| `stop_after_stage` | `StopEndsRun` | the owner of the socket is a dead stage, `S` is never read |
| `late_dependency` | `AllDependenciesFirst` | c is put off twice, the second time by b to a, which has flagged its own line for c; the flag deletes the new line for c, and a package is listed before one it requires |

The modules show more of this kind. The properties are stated in them, and TLC
violates each when it takes the place of those of the configuration named, with
the change given:

| property | configuration | change | what happens |
|---|---|---|---|
| `NothingRunsWhenStopped` | `ForkRun` | `Keys = {"sc", "S"}` | the parent is stopped, its child goes on |
| `DoneMeansChildrenDone` | `FlatRun` | `Keys = {"sc", "sf", "S"}` | done parents over forced children |
| `ParentsOfRunningAreRunning` | `FlatRun` | `Keys = {"sc", "m"}` | `m` recomputes a parent during the run |
| `SuccessIsKept` | `FlatRun` | `Keys = {"sc", "S"}` | the last finished element is blamed |
| `MarkedWouldRun` | `FlatMarks` | `Keys = {"sf", "sm", "*", "u"}`, `Cursor = {1, 2, 4}`; or `Keys = {"sm", "m", "*", "u"}` | `u` leaves a mark below an unmarked parent |
| `MarksAgreeWhenStopped` | `FlatRun` | `Keys = {"sc", "sf"}`, or `Keys = {"sc", "*", "sm"}` | a run resets marks and dies before the parents start: they stay done |
| `RunEnds` (`Execution`) | `StopAfterStage` | `Keys = {"sc", "p", "U"}`, `SPECIFICATION TerminatingSpec` | the toggle that resumes reaches the child only, the pause was copied by `fork()` |
| `FilesAreListed` | `PackageTries` | - | the frontend looks for the list before it is sent, once |
| `NeverCrashes` (`PackageLog`) | `PackageStops` | - | a stop is taken for the package's status and has no content |
| `StopEndsRun` (`PackageLog`) | `PackageStops` | `SPECIFICATION FairSpec`, `MaxCommands = 1`, `MaxRuns = 1`, `MayBeKilled = FALSE` | a stop is taken for the answer about the state and forgotten |
| `RunEnds` (`PackageLog`) | `PackageTries` | `MayBeKilled = TRUE`, `MaxRuns = 1` | the frontend waits for the rest of a log whose sender is dead |
| `AllAvailableActedUpon` | `SocketReads` | - | the handler takes bytes from the read it has interrupted |
| `ScheduledStay`, `NeverCrashes` (`ProfileList`) | `ProfileRun` | - | a scheduled profile may not be removed, but once reloaded it is not scheduled any more |
| `KeysResolve`, `NoneRunningWhenStopped` (`ProfileList`) | `ProfileRun` | `Repeat = TRUE`, or `Sizes <- EditedSizes` | a file added twice, or edited and reloaded: messages name another element |
| `DirectReadReturns` | `SocketReads` | as a `PROPERTY` | a signal interrupts `select()`, whose error counts as something to read: `read()` waits for a command, and nothing is executed until the user sends one |
| `NoBashrcLeft` | `BuildRun` | - | copies are moved back, nothing is removed: an account without a `.bashrc` keeps the one of the build |
| `OwnAccountRemoved` | `BuildRun` | - | `addinguser` is repeated and takes the build's own account for the host's |
| `ChrootIsMounted` | `BuildRun` | - | the file of the target outlives the mounts |
| `AlwaysFinishes` | `BuildRun` | - | `mkdir $(MOUNT_PT)/tools` cannot be repeated |
| `ListedUnlessLost` | `DependencyTrees` | `Matches <- AlikeNames` | `sed` removes lines of packages with a longer name |
| `EverythingListed` | `LateDependency` | `Books <- LostBook`, `Requests <- TopOnly` | `grep` finds two names for the parent, and the shell writes to neither |

Each property of a passing run has a mutant: a small change of a modelled
function, written next to it, under which TLC finds the property violated.

## 4. Proofs

All theorems hold for every value of the constants that satisfies the assumptions named
in the modules, except where a hypothesis is given below.

`ExecutionProofs` proves, for every tree that satisfies `TreeAssumption`:

* `TypeCorrect`: `Spec => []TypeOK`;
* `DeathRecorded`: `Spec => []DeathIsOnRecord`;
* `CommandsSignalled`: `Spec => []CommandsAreSignalled`.

None of the three is inductive alone. That a process never walks off the tree
needs `WalkIsBelowBase`: the element it is at lies inside the element whose
children it was forked to execute, so leaving a last child never passes the base
(or the root, which has no parent). `DeathIsOnRecord` needs `BackendIsThere`: the
process the frontend will wait for still exists, and no other one is a zombie.
`CommandsAreSignalled` needs `OwnerIsOfThisRun`: the owner holds the socket of the
current run and has passed the read that follows `F_SETOWN`. `Inductive` is their
conjunction; the proof has one step per action. Its first lemmas supply the
facts about `Parent`, `Next_el` and the first child that the walk uses, and what the
recursive function `ChangedStatuses` computes (`ChangedStatusesAre`: each element's
new status from the others; well-founded recursion with the library's induction
theorems instantiated on a set, not an operator).

`ExecutionRunProofs` proves

* `NothingShownRunning`: `Spec => []NoneRunningWhenStopped`.

A status stays "RUNNING" as long as a message about the end of the element is missing,
so the invariant has to say which elements those are, with any number of messages
unread. `Family` is about the processes: the forked ones are waited for at the element
they were forked for, and of two that may send messages one works below an element
the other has begun and will not go on from. `Marks` is about the elements: after each
message still unread, what is shown running or announced lies around the last started
element, or its end is announced later (`ReadAt`, `Settled`); and once all is read, it
lies where the process that goes on is (`WalkersInOrder`). When the backend is dead and
the socket empty, the elements still running are therefore on the path to
`current_running`, which are those that `wait_for_the_backend()` marks as failed.

`ExecutionWalkProofs` proves

* `RunsSequentially`: `"S" \notin Keys` implies `Spec => IsSequentialRun`;
* `SuccessIsComplete`: `ActionsHoldParameters` implies `Spec => CompleteWhenSuccessful`;
* `PauseShown`: `Spec => []PauseIsShown`;
* `MarksAreRun`: `Spec => []MarkedWouldRun`, if `RunnableIsBelowRunnable` and either
  `"u"` is not in `Keys` or neither `"sf"` nor `"m"` is;
* `MarksAgree`: `Spec => []MarksAgreeWhenStopped`, if neither `"sf"` nor `"sm"` is in
  `Keys`.

The first three rest on `WalksThePlan`: what has been started is exactly the part of the plan
that lies before the position of the one process that goes on (`Behind`). Each step
of a process has one of five shapes (`Steps`: nothing announced, a start, an end, a fork,
an exit), and the three proofs go through these. For the refinement, nothing but the
first process is left when that dies (`NoOrphans`), which is false once a parent is
stopped while it waits; this is what `NothingRunsWhenStopped` (section 3) shows, and why
the theorem is about runs that are not stopped, as its run is. Each step maps to a
stutter, to the start of the first planned element not begun, to the end with success
when none is left, or to failure. For success, a planned action behind the process is
marked done, or the message that says so is unread and nothing after it changes the mark
(`AllDone`). `ActionsHoldParameters` says that nothing that can run lies below an
action: the parser does not check it, but the syntax has no such elements, and the
status of an element with children that can run is computed from theirs. `PauseShown`
counts the pauses in the socket: until an element that forks is started, the first
process is the only one of the run (`FirstIsAlone`), so that nobody else reads them.

The last two are about marks, and each leaves out the keys with which section 3 shows it
false. `RunnableIsBelowRunnable` says that what cannot run, and an action, has nothing
below it that can run, as the syntax has it. `MarksAreRun` shows that what is marked
hangs off the root by marked elements (`MarkedToTheTop`). For `*` this is a matter of the
tree: an element off the path from the root to the cursor hangs off that path by one
child (`BranchesOff`). `u` takes the mark from what is done, so with it, everything below
a done element has to be done (`DoneAllTheWay`), and that depends on the run. What has
not begun, or has begun and not ended, is not marked done, nor does an unread message
say so (`UnderWay`); and a message comes before the end of whatever is around its element
(`SaidInside`), so an element that fails or starts never does so below a done one.

For `MarksAgree`, `Mixed` is the set of elements whose marks disagree with those below
them. `Mixing` says that they are on the path to the last element known to have started.
Between a mark and the messages still unread, whatever a message makes disagree is around
the next element to start, or its own end comes first (`AllMended`); what is held open in
the backend is around the last start that was sent (`LastStartIn`), so an end, too, only
disturbs what is around `current_running`. A run that ends with status 0 has left nothing
open, and a failed one is marked along that very path (`MixedNoMore`). `m` disturbs
nothing: what it does to a whole subtree and the parents makes no mark disagree that did
not (`MixedLess`), also during a run.

`PackageLogProofs` proves, for packages of any number of actions, any commands, runs and
places where the backend is killed:

* `TypesHold`: `Spec => []TypeOK`;
* `LogsHold`: `Spec => []LogsAreComplete`.

The inductive invariant has four parts. `Typed` includes the types of messages under
way, `Control` says where in a package the backend has a log in hand. `Transfers` is
about the messages sent and about to be sent: a transfer (its type, the data, the end)
is never mixed with others, the list of files follows the log that announces it, and
unless the backend was killed each is whole. `Complete` follows the tries of a run from
the backend to the log files: those stored, the one the frontend is reading, the logs
on their way, the one under way, in order and with none missing.

`ProfileListProofs` proves, for any files, any number of profiles, changes and runs:

* `LinksAlwaysAgree`: `Spec => []LinksAgree`;
* `ListIsTheRow`: `Spec => ShowsOrder`;
* `ListTypesHold`: `Spec => []TypeOK`;
* `KeysAlwaysResolve`: `FilesAreKeys /\ Spec => []KeysResolve`;
* `NothingLeftRunning`: `FilesAreKeys /\ Spec => []NoneRunningWhenStopped`.

`LinksAgree` is not inductive. A ring of profiles beside the list would satisfy it,
until one of a ring of one or two is moved or reloaded, so `NoRing` asks for
a rank that grows along `next`; each action gives the rank after it. The question of
`d` was asked of a list with a second profile, and nothing that changes the list may
happen before the answer (`QuestionStands`). Adding needs a last profile
(`LastExists`): `next` is injective on the profiles and misses the first, so by the
pigeonhole theorem of the library it cannot be defined on all of them.

The refinement of `ProfileOrder` and what follows it speak of walks along `next`, which
the model writes as recursive functions of the number of profiles passed. What they
compute is proved by the least number for which it fails (`LeastOf`), after a proof that
there is such a function at all (`WalkExists`). `Row(k, t)` says that `t` has the `k`
profiles of the list in the order of `next`: a row is no longer than there are nodes, so
that `Chain`, cut off at that number, is all of it (`ChainIsRow`), and each action turns
a row into the one its step of `ProfileOrder` asks for. `ListTypesHold` needs the walk of
`find_element_by_key()`, which is either at an element of a profile or at the root, and
that the profile asked about is not scheduled as long as the question stands.

The last two have a hypothesis, `FilesAreKeys`: no file is added twice or named
twice on the command line, and each keeps its number of elements when it is read again.
Without it both are false, as section 3 shows. Under it the invariant says that
the names in the list differ, that nothing is to be said when no backend is there, and
that the profile a message is about is in the list and scheduled, which is when `d`
refuses to remove it, or was reloaded.

`NothingLeftRunning` needs in addition what the order of the messages of a run is good
for. `Ordered` says of the messages sent and still to be said that what starts comes to
its end: a child in the next message, a profile in one that nothing about another profile
comes before, and after a stop or a failure only the last of them may miss its end
(`Closes`). `Accounted` says that an element shown as running is the one that the frontend
was told of last, or its profile, and that the messages bring it to its end; so the end
of a failed run, which marks exactly these two as failed, leaves none. A message about a
profile that was removed must not be taken for one about another: `NameIsGone`, which a
second profile of that name would break. All that is said in a run is put together
profile by profile (`SaidByOrdered`).

`ControlSocketProofs` proves, for any number of commands:

* `SocketTypesHold`: `Spec => []TypeOK`;
* `CommandsStayIntact`: `Spec => CommandsIntact`.

The first holds also when the handler has interrupted the direct read and the two take
bytes from each other: what each asks for still fits its own buffer. The second is about
one reader at a time, which is the hypothesis `[]~Nested` inside the property; without it
the property is false. The invariant `Intact` lays out all bytes ever written, with the
place where each command ends (`Laid`); the socket holds those not read yet (`Remains`),
and what the call that reads has so far are the bytes of the command after those acted
upon (`At`), be it in the size, between size and body or in the body. Because a command
is written as a whole, the rest of one whose first byte was read is in the socket
(`RestIsThere`), so that `select()` never ends a body early; one that a signal has
interrupted is taken for one that has found something, and the call waits in `read()`
before the first byte of a command. `BodyIsType` says that the
bytes before the bar are the command again; the values of digits (`ValueExists`) are
found by the least place where they fail.

`BuildMakefileProofs` proves, for books of any length and any number of stops:

* `StaysInChain`: `Spec => []TypeOK`;
* `PhasesStayInOrder`: `Spec => []PhasesInOrder`;
* `BreakpointStops`: `Spec => []StopsAtBreakpoint`;
* `EnvironmentIsKept`: `Spec => []LuserEnvironment`;
* `AccountIsKept`: `Spec => []AccountKept`;
* `AccountIsRestored`: `Spec => []AccountRestored`.

`Order` is what the second needs: recorded phases have their targets (`Recorded`), a
phase begins after the one before it is recorded (`InTurn`), make has passed what
lies before its target (`Walked`), and once through a phase all of its targets are
there (`Through`). A SIGINT deletes the target just touched; that it belongs to no
recorded phase is `UnderWay`: the target under way lies behind every recorded one.

The last three need `Files`. There is a part of the chain before the account's files are
saved, one in which they are (`Environment`) and one after it in which they are put back
(`Restoring`), and the three never overlap, wherever the recipes are interrupted and
repeated; `AccountKnown` says that the file that protects the account is written before
the target is recorded, and `HostFiles`, file by file, that the original is in one of its two
places. An account's file is back when the phase is recorded, if the account had it; a
`.bashrc` it did not have stays (`NoBashrcLeft` in section 3), which is why
`AccountRestored` asks only for what was there.

That a make with a breakpoint gets no further is a matter of several makes:
`Ending` follows the failure of the breakpoint's recipe out through the recipes around
it. While the breakpoint is to be built, nothing behind it is there; once it is, its make
tests it or has failed, and until the recipe of its phase has failed in turn, no further
command runs. `Order` gives that the phase has not been recorded before.

`DependenciesProofs` proves, for every book, request and level, whatever cycles the
book has:

* `DependenciesTypeOK`: `Spec => []TypeOK`;
* `SearchIsWhole`: `Spec => []GraphIsWhole`;
* `TreesAreApart`: `Spec => []LinksAreUnique`;
* `BuiltOnce`: `Spec => []NothingTwice`.

The first and the third need `Inductive` only. Its parts say what the files are in each phase
(`Typed`, `Searching`, `Cleaning`, `Planted`), and how they go with the calls under way:
the `i`-th call reads the file at the place that the lines read by the callers make up
(`OnWay`, `Way`); below the place of a call there is nothing planted beyond the line it
has read (`Behind`), which is why the next line's place is free, whatever is erased,
put off and planted again; and a call that gets a priority back finds that edge at or
above it, below one of the parents found (`Returning`), so that the search for the
place to cut never runs past the root.

`SearchIsWhole` adds `Whole`. Below the request, a package is searched to the full level
when the request names it and to one level less otherwise (`LevelOf`). `Smallest` says
that every set with the request in it that is closed under what its members want has all
of the graph; `AllThere`, that who has been read has all its dependencies there. A package
is read when it is met first, and again when it is named by the request itself: who has a
file has been read or is being read by one of the calls, and who has been named has been
read to the full level or is being so (`Following`). The end of the search makes that the
set which `Needed` computes as the last of a sequence of growing sets
(`ClosureIsClosed`). What folds and recursive functions compute is found by the least
index at which it would fail (`UpTo`, `StepByStep`), not by induction theorems.

`BuiltOnce` adds `ListedOnce`, which keeps the balance of what is read and what is
flagged, `sed` taking one line away for each flag (`Counted`): of the lines for `z` that
a call has read, as many are flagged as there are, but one if the tree of `z` hangs
directly below (`Hangs`). So what is left at the end of the file names each child once,
and nothing else (`Settled`). That holds of every file whose call has ended, except of
those that calls have left for a cycle (`Given_up`, `Finished`); these are erased, and
all of them, since what `tree_erase()` follows leads to every tree below the place
(`NamedAbove`, `ErasedWhole`). At the end all trees are settled: the lists below two
children have no name in common, for the links of the children differ at one
position (`ChildrenApart`), and by the number of active calls of `tree_browse()` no list
repeats a name (`BrowsedOnce`).

Only model-checked:

* liveness (`StopEndsRun`, `RunEnds`, `AllActedUpon`, `Finishes`, `Terminates`), which is
  out of the provers' reach;
* in `PackageLog`, what the stamp of the first try is used for;
* of `Dependencies`, that the list leaves nothing out (`ListedUnlessLost`), and its
  order (`DependenciesFirst`, `ReadyToRun`, `WeakestEdgesCut`): they depend on the whole
  history of the walk, on what was there when each line was read.

Why `DependenciesFirst` is stated for at most one dependency put off: a second one may
be the same package, put off to a parent that has flagged its own line for it. A flag is
only a name, and `generate_dependency_tree()` deletes the last line of that name
(`func_dependencies:479`): the new line goes, the flagged one stays, and the package is
listed where it had to leave. This is what `late_dependency` shows: the list of its book
is c d b a, although c requires d. `WeakestEdgesCut` is stated for
none: a dependency put off becomes one of the parent with its own priority, and a
cycle through it is then cut as if the way to it had never been weaker.

## 5. Not modelled

* *nALFS*: moving the cursor, windows, the editor and options (input and output
  without concurrency); parsing of XML and of rc files; the shell commands of
  handlers (text); reading a directory of profiles; signals that end the frontend; the
  non-blocking data socket that carries output to the screen; comparison of versions
  and the stamps of installed packages, whose result is a free choice in `PackageLog`.
* *jhalfs*: the generation of text from the books; the report and the optional
  targets after `BOOT` (`BLFS_TOOL`, `CUSTOM_TOOLS`); targets that a user removes by
  hand; the phases of the other books, which are variants of LFS's; first (`f`)
  dependencies, which have a package built twice from a copy of its file, and the
  dependencies outside the book.
* Prototypes (`alfs-POC`), the DTD, documentation and profiles. `tags` and
  `branches` hold some thirty older copies of the two programs, most of the lines
  of this repository: a model of `trunk` stands for one copy only, which is why the
  share of all lines that is modelled stays small.

## 6. Plan

1. `VersionCompare`: comparison of versions (`logging.c:242`) against an order on
   digits and characters, and the conditions of `check_stamp_version()`, where `le`
   is spelled `gt` (`logging.c:393`); the stamps that packages leave and require.
2. `PackageLog`: an abstract promise (one log per package begun) and its refinement.
3. `Dependencies`: `f` edges.
4. The frontend's own end during a run: `q` is refused, but `SIGTERM` writes a stop from
   its handler and exits, and `SIGINT` exits at once; nobody reads the socket then.

To prove: `ListedUnlessLost` of `Dependencies`.
