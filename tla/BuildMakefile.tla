---------------------------- MODULE BuildMakefile ----------------------------
(***************************************************************************)
(* The Makefile that jhalfs generates for the LFS book (LFS/master.sh),    *)
(* run by make, stopped anywhere and run again.  The numbered targets form *)
(* one chain; the phases SETUP ... BOOT are makes of their own, with other *)
(* privileges and roots, each over the chain up to the phase's last        *)
(* target; the files mk_* record the phases that are through.              *)
(*                                                                         *)
(* Files are touched in the order of the chain and never touched again, so *)
(* a target is out of date just when its file is missing.  The report and  *)
(* the optional tools after BOOT are left out.                             *)
(***************************************************************************)
EXTENDS Naturals

CONSTANTS
    PhaseEnd,       \* the last target of each phase, by its place in the chain
    MaxStops,       \* bound: failures and interruptions
    Unmounts        \* whether the host reboots, or the user leaves a chroot shell

SETUP == 1  LUSER == 2  SUDO == 3  CHROOT == 4  BOOT == 5
Phases == SETUP .. BOOT
All    == BOOT + 1                     \* phase of the recipe of "all"

creatingtoolsdir   == 1
addinguser         == 2
settingenvironment == 3
kernfs == PhaseEnd[SUDO]

ASSUME PhasesAssumption ==
    /\ PhaseEnd \in [Phases -> Nat]
    /\ PhaseEnd[SETUP] = settingenvironment
    /\ \A k \in Phases \ {SETUP} : PhaseEnd[k - 1] < PhaseEnd[k]
    /\ MaxStops \in Nat
    /\ Unmounts \in BOOLEAN

Targets == 1 .. PhaseEnd[BOOT]

VARIABLES
    \* the files make looks at
    built,          \* numbered targets
    mk,             \* phases k with a file mk_k
    restored,       \* file restore-luser-env
    \* what the recipes work on
    tools, link,    \* the directory $(MOUNT_PT)/tools, the link /tools
    luser, home,    \* whether there is an account, and what is in $(LUSER_HOME)
    luser_exist,    \* file luser-exist
    mounted,        \* virtual kernel file systems
    \* make
    pc, phase, t,   \* what it does next, in which phase, at which target
    goal, BREAKPOINT,
    \* history
    was,            \* the account before the first make
    awaited,        \* this make is to stop at a target that it found missing
    finished, stops

files   == <<built, mk, restored>>
account == <<luser, home, luser_exist>>
host    == <<tools, link, mounted>>
command == <<goal, BREAKPOINT>>
history == <<was, finished, stops>>
vars == <<files, account, host, pc, phase, t, command, awaited, history>>

\* Contents of the dot files of the account.
Names   == {".bashrc", ".bashrc.XXX", ".bash_profile", ".bash_profile.XXX"}
Content == {"none", "host", "begun", "lfs"}
NoFiles == [n \in Names |-> "none"]
Home(rc, rcXXX, profile, profileXXX) ==
    [n \in Names |-> CASE n = ".bashrc" -> rc
                       [] n = ".bashrc.XXX" -> rcXXX
                       [] n = ".bash_profile" -> profile
                       [] n = ".bash_profile.XXX" -> profileXXX]

\* .bashrc and .bash_profile, each with its copy .XXX: what there may be of
\* either, whatever there is of the other.  The later ones are left by a build
\* that was given up, the last one in an account without a .bashrc.
Bashrcs  == {<<"none", "none">>, <<"host", "none">>, <<"none", "host">>, <<"begun", "host">>,
             <<"lfs", "host">>, <<"lfs", "none">>}
Profiles == {<<"none", "none">>, <<"host", "none">>, <<"none", "host">>}

Accounts ==
    {[luser |-> FALSE, home |-> NoFiles]} \cup
    {[luser |-> TRUE, home |-> Home(rc[1], rc[2], profile[1], profile[2])] :
        rc \in Bashrcs, profile \in Profiles}

Init ==
    /\ built = {} /\ mk = {} /\ restored = FALSE
    /\ tools = FALSE /\ link = FALSE /\ mounted = FALSE
    /\ was \in Accounts
    /\ luser = was.luser /\ home = was.home /\ luser_exist = FALSE
    /\ pc = "idle" /\ phase = SETUP /\ t = 1
    /\ goal = All /\ BREAKPOINT = 0
    /\ awaited = FALSE /\ finished = FALSE /\ stops = 0

(***************************************************************************)
(* make: the prerequisites of all, and of the goal of a phase.             *)
(***************************************************************************)

\* make, make mk_<phase>, make BREAKPOINT=<target>
start(g, b) ==
    /\ pc = "idle"
    /\ pc' = "mk" /\ phase' = SETUP /\ t' = 1
    /\ goal' = g /\ BREAKPOINT' = b /\ awaited' = (b \in Targets \ built)
    /\ UNCHANGED <<files, account, host, history>>

\* Nothing is left of a make that has ended but what it did to the files.
ended ==
    /\ pc' = "idle" /\ phase' = SETUP /\ t' = 1
    /\ goal' = All /\ BREAKPOINT' = 0 /\ awaited' = FALSE

\* Slip: one recipe does not pass it.
not_passed_to_BOOT(k) == IF k = BOOT THEN 0 ELSE BREAKPOINT

\* How the recipe of mk_<phase> passes BREAKPOINT to the make of the phase.
Breakpoint(k) == BREAKPOINT

mk_up_to_date ==
    /\ pc = "mk" /\ phase <= goal /\ phase \in mk
    /\ phase' = phase + 1
    /\ UNCHANGED <<files, account, host, pc, t, command, awaited, history>>

goal_made ==
    /\ pc = "mk" /\ phase > goal
    /\ ended
    /\ UNCHANGED <<files, account, host, history>>

\* sudo make SETUP, su -c "make LUSER", chroot ... "make CHROOT" and so on
make_phase ==
    /\ pc = "mk" /\ phase <= goal /\ phase \in Phases \ mk
    /\ pc' = "target" /\ t' = 1
    /\ UNCHANGED <<files, account, host, phase, command, awaited, history>>

target_up_to_date ==
    /\ pc = "target" /\ t <= PhaseEnd[phase] /\ t \in built
    /\ t' = t + 1
    /\ UNCHANGED <<files, account, host, pc, phase, command, awaited, history>>

FirstCommand(i) ==
    CASE i = creatingtoolsdir   -> "mkdir"
      [] i = addinguser         -> "adduser"
      [] i = settingenvironment -> "save_bashrc"
      [] OTHER                  -> "script"

\* Slip: the list of a phase goes on.
make_what_follows ==
    /\ pc = "target" /\ t \notin built
    /\ pc' = FirstCommand(t)
    /\ UNCHANGED <<files, account, host, phase, t, command, awaited, history>>

make_target ==
    /\ pc = "target" /\ t <= PhaseEnd[phase] /\ t \notin built
    /\ pc' = FirstCommand(t)
    /\ UNCHANGED <<files, account, host, phase, t, command, awaited, history>>

\* Slip: the files are taken back before they have been of use.
restore_after_setup == IF phase \in {SETUP, LUSER} THEN "restore" ELSE "touch"

\* The next command of the recipe of mk_<phase>.
after_phase == IF phase = LUSER THEN "restore" ELSE "touch"

phase_made ==
    /\ pc = "target" /\ t > PhaseEnd[phase]
    /\ pc' = after_phase
    /\ UNCHANGED <<files, account, host, phase, t, command, awaited, history>>

\* Slip: the recipe of mk_<phase> does not look at how its make has ended.
recipe_goes_on ==
    /\ pc = "failed"
    /\ pc' = after_phase
    /\ UNCHANGED <<files, account, host, phase, t, command, awaited, history>>

\* The make of a phase has failed: so does the command of mk_<phase> that
\* started it, in sudo, su or chroot, and with it the recipe and the make.
phase_failed ==
    /\ pc = "failed"
    /\ ended
    /\ UNCHANGED <<files, account, host, history>>

touch_mk ==
    /\ pc = "touch"
    /\ mk' = mk \cup {phase} /\ phase' = phase + 1 /\ pc' = "mk"
    /\ UNCHANGED <<built, restored, account, host, t, command, awaited, history>>

(***************************************************************************)
(* The recipes of the numbered targets.                                    *)
(***************************************************************************)
Scripted == {"mkdir", "link", "adduser", "save_bashrc", "save_profile", "bashrc",
             "rest_of_bashrc", "script", "housekeeping", "touched"}
Restore  == {"restore", "restore_profile", "restored"}
Nested   == Scripted \cup Restore       \* in a make that mk_<phase> has started
Commands == Nested \cup {"idle", "mk", "target", "failed", "touch", "rm_link", "userdel", "release"}

recipe == <<files, phase, t, command, awaited, history>>

\* mkdir fails if an earlier make was stopped after it.
mkdir_tools ==
    /\ pc = "mkdir"
    /\ tools' = TRUE /\ pc' = IF tools THEN "failed" ELSE "link"
    /\ UNCHANGED <<account, link, mounted, recipe>>

link_tools ==
    /\ pc = "link"
    /\ link' = TRUE /\ pc' = "housekeeping"
    /\ UNCHANGED <<account, tools, mounted, recipe>>

add_user ==
    /\ pc = "adduser"
    /\ pc' = "housekeeping"
    /\ luser' = TRUE /\ luser_exist' = (luser_exist \/ luser)
    /\ UNCHANGED <<home, host, recipe>>

moved(from, to) == [home EXCEPT ![to] = home[from], ![from] = "none"]

\* Slip: what a stopped make has written is taken for the original.
saved_again(from, to) == IF home[from] # "none" THEN moved(from, to) ELSE home

\* The original is moved away once.
saved(from, to) ==
    IF home[from] # "none" /\ home[to] = "none" THEN moved(from, to) ELSE home

save_bashrc ==
    /\ pc = "save_bashrc"
    /\ home' = saved(".bashrc", ".bashrc.XXX") /\ pc' = "save_profile"
    /\ UNCHANGED <<luser, luser_exist, host, recipe>>

save_profile ==
    /\ pc = "save_profile"
    /\ home' = saved(".bash_profile", ".bash_profile.XXX") /\ pc' = "bashrc"
    /\ UNCHANGED <<luser, luser_exist, host, recipe>>

begin_bashrc ==
    /\ pc = "bashrc"
    /\ home' = [home EXCEPT ![".bashrc"] = "begun"] /\ pc' = "rest_of_bashrc"
    /\ UNCHANGED <<luser, luser_exist, host, recipe>>

write_bashrc ==
    /\ pc = "rest_of_bashrc"
    /\ home' = [home EXCEPT ![".bashrc"] = "lfs"] /\ pc' = "housekeeping"
    /\ UNCHANGED <<luser, luser_exist, host, recipe>>

run_script ==
    /\ pc = "script"
    /\ mounted' = (mounted \/ t = kernfs)
    /\ pc' = "housekeeping"
    /\ UNCHANGED <<account, tools, link, recipe>>

\* Slip: tested before it is touched, the breakpoint is never passed.
housekeeping_tests_first ==
    /\ pc = "housekeeping"
    /\ IF t = Breakpoint(phase) THEN built' = built /\ pc' = "failed"
                                ELSE built' = built \cup {t} /\ pc' = "touched"
    /\ UNCHANGED <<mk, restored, account, host, phase, t, command, awaited, history>>

\* touch $@, then the test of BREAKPOINT.
housekeeping ==
    /\ pc = "housekeeping"
    /\ built' = built \cup {t} /\ pc' = "touched"
    /\ UNCHANGED <<mk, restored, account, host, phase, t, command, awaited, history>>

\* At the breakpoint the recipe ends with "false", and the make of the phase
\* fails.
test_breakpoint ==
    /\ pc = "touched"
    /\ IF t = Breakpoint(phase)
       THEN pc' = "failed" /\ t' = t
       ELSE pc' = "target" /\ t' = t + 1
    /\ UNCHANGED <<files, account, host, phase, command, awaited, history>>

(***************************************************************************)
(* sudo make restore-luser-env, after the phase LUSER; and the recipe of   *)
(* all, which tears down and runs do_housekeeping.                         *)
(***************************************************************************)
taken_back(from, to) == IF home[from] # "none" THEN moved(from, to) ELSE home

\* Slip: recorded before it is done.
restore_touches_first ==
    /\ pc = "restore" /\ ~restored
    /\ restored' = TRUE
    /\ home' = taken_back(".bashrc.XXX", ".bashrc") /\ pc' = "restore_profile"
    /\ UNCHANGED <<built, mk, luser, luser_exist, host, phase, t, command, awaited, history>>

restore_bashrc ==
    /\ pc = "restore" /\ ~restored
    /\ home' = taken_back(".bashrc.XXX", ".bashrc") /\ pc' = "restore_profile"
    /\ UNCHANGED <<luser, luser_exist, host, recipe>>

restore_up_to_date ==
    /\ pc = "restore" /\ restored
    /\ pc' = "touch"
    /\ UNCHANGED <<account, host, recipe>>

restore_profile ==
    /\ pc = "restore_profile"
    /\ home' = taken_back(".bash_profile.XXX", ".bash_profile")
    /\ pc' = "restored"
    /\ UNCHANGED <<luser, luser_exist, host, recipe>>

touch_restored ==
    /\ pc = "restored"
    /\ restored' = TRUE /\ pc' = "touch"
    /\ UNCHANGED <<built, mk, account, host, phase, t, command, awaited, history>>

make_all ==
    /\ pc = "mk" /\ phase = All /\ goal = All
    /\ mounted' = FALSE /\ pc' = "rm_link"
    /\ UNCHANGED <<account, tools, link, recipe>>

rm_link ==
    /\ pc = "rm_link"
    /\ link' = FALSE /\ pc' = "userdel"
    /\ UNCHANGED <<account, tools, mounted, recipe>>

userdel ==
    /\ pc = "userdel"
    /\ luser' = (luser /\ luser_exist)
    /\ home' = IF luser_exist THEN home ELSE NoFiles
    /\ pc' = "release"
    /\ UNCHANGED <<luser_exist, host, recipe>>

write_release ==
    /\ pc = "release"
    /\ finished' = TRUE /\ ended
    /\ UNCHANGED <<files, account, host, was, stops>>

(***************************************************************************)
(* A command of the make of a phase fails.  Or everything is killed, or    *)
(* interrupted: on SIGINT make deletes the target it has just touched.  A  *)
(* reboot unmounts, and so does the teardown when the user leaves the      *)
(* shell of "make chroot".                                                 *)
(***************************************************************************)
fail ==
    /\ pc \in Nested \ {"touched"} /\ stops < MaxStops
    /\ stops' = stops + 1 /\ pc' = "failed"
    /\ UNCHANGED <<files, account, host, phase, t, command, awaited, was, finished>>

stop ==
    /\ pc # "idle" /\ stops < MaxStops
    /\ stops' = stops + 1 /\ ended
    /\ built' \in {built, IF pc = "touched" THEN built \ {t} ELSE built}
    /\ restored' \in {restored, restored \/ pc = "restored"}
    /\ UNCHANGED <<mk, account, host, was, finished>>

unmount ==
    /\ Unmounts /\ pc = "idle" /\ mounted
    /\ mounted' = FALSE
    /\ UNCHANGED <<files, account, tools, link, pc, phase, t, command, awaited, history>>

make ==
    \/ mk_up_to_date \/ goal_made \/ make_phase \/ phase_failed
    \/ target_up_to_date \/ make_target \/ phase_made \/ touch_mk
    \/ mkdir_tools \/ link_tools \/ add_user
    \/ save_bashrc \/ save_profile \/ begin_bashrc \/ write_bashrc
    \/ run_script
    \/ housekeeping \/ test_breakpoint
    \/ restore_up_to_date \/ restore_bashrc \/ restore_profile \/ touch_restored
    \/ make_all \/ rm_link \/ userdel \/ write_release

Next ==
    \/ make
    \/ \E g \in Phases \cup {All}, b \in {0} \cup Targets : start(g, b)
    \/ fail \/ stop \/ unmount

\* make goes on, and a user who does not give up asks for everything again.
Fairness ==
    /\ WF_vars(make)
    /\ SF_vars(\E b \in {0} \cup Targets : start(All, b))

Spec == Init /\ [][Next]_vars /\ Fairness

-----------------------------------------------------------------------------
\* make never leaves the chain of targets or the list of phases.
TypeOK ==
    /\ built \subseteq Targets /\ mk \subseteq Phases
    /\ restored \in BOOLEAN /\ tools \in BOOLEAN /\ link \in BOOLEAN /\ mounted \in BOOLEAN
    /\ luser \in BOOLEAN /\ luser_exist \in BOOLEAN
    /\ awaited \in BOOLEAN /\ finished \in BOOLEAN
    /\ home \in [Names -> Content]
    /\ was \in Accounts
    /\ pc \in Commands
    /\ phase \in Phases \cup {All} /\ goal \in Phases \cup {All}
    /\ t \in 1 .. PhaseEnd[BOOT] + 1 /\ BREAKPOINT \in {0} \cup Targets
    /\ pc \in Scripted => t \in Targets /\ phase \in Phases
    /\ stops \in 0 .. MaxStops

\* However often the build is stopped and resumed, a recorded phase has all
\* of its targets, and a target is only ever built by the phase it belongs
\* to: as the right user and in the right root (master.sh:487, mk_LUSER).
PhasesInOrder ==
    /\ \A k \in mk : 1 .. PhaseEnd[k] \subseteq built
    /\ pc \in Scripted =>
           t <= PhaseEnd[phase] /\ (phase = SETUP \/ PhaseEnd[phase - 1] < t)

\* The scripts of LUSER run with the .bashrc written for them, which the
\* phases before and after put in place and take away (master.sh:45, 580).
LuserEnvironment ==
    pc = "script" /\ phase = LUSER => home[".bashrc"] = "lfs"

\* What the account had before the first build: a copy is the older one.
Original(name, copy) == IF was.home[copy] = "none" THEN was.home[name] ELSE was.home[copy]

Kept(name, copy) ==
    Original(name, copy) # "none" => Original(name, copy) \in {home[name], home[copy]}

\* Who had an account before jhalfs keeps it, and whichever dot files he had
\* are in it at every moment, also when the build is given up (README:294).
AccountKept ==
    was.luser => luser /\ Kept(".bashrc", ".bashrc.XXX") /\ Kept(".bash_profile", ".bash_profile.XXX")

Back(name, copy) == Original(name, copy) # "none" => home[name] = Original(name, copy)

\* Once the phase LUSER is through, each dot file the account had is back at its
\* place, whether it had one or both and whatever was interrupted in between
\* (master.sh:578, restore-luser-env).  Without a .bashrc before, see NoBashrcLeft.
AccountRestored ==
    LUSER \in mk /\ was.luser =>
        Back(".bashrc", ".bashrc.XXX") /\ Back(".bash_profile", ".bash_profile.XXX")

\* "How could I stop the build at a predefined chosen point?" (README:314):
\* a make whose BREAKPOINT is still to be built gets no further, through all
\* the makes it starts: nothing behind it is built, by no later phase, and its
\* own phase is not recorded, so that the next make takes up there.
StopsAtBreakpoint ==
    awaited =>
        /\ \A i \in built : i <= BREAKPOINT
        /\ \A k \in mk : PhaseEnd[k] < BREAKPOINT

\* The next make finds the directory and fails (master.sh:24).
HalfMadeTools == tools /\ creatingtoolsdir \notin built

\* A build that is resumed after each stop gets finished, whatever its
\* breakpoints, except where it was stopped while it made /tools.
Finishes == <>finished \/ <>[]HalfMadeTools

-----------------------------------------------------------------------------
\* "If $LUSER_HOME is already present in the host, we asume that the lfs user
\* and group are also presents in the host" (master.sh:18): an account made
\* by the build itself is removed in the end.
OwnAccountRemoved == finished => luser = was.luser

\* Nothing of the build is left in an account after the phase LUSER.  The code
\* moves copies back and removes nothing (master.sh:580): an account that had no
\* .bashrc keeps the one of the build.
NoBashrcLeft ==
    LUSER \in mk /\ was.luser /\ Original(".bashrc", ".bashrc.XXX") = "none" =>
        home[".bashrc"] = "none"

\* The targets of CHROOT and BOOT have the virtual kernel file systems that
\* the phase SUDO has mounted (master.sh:497).
ChrootIsMounted == pc = "script" /\ phase \in {CHROOT, BOOT} => mounted

\* A build that is resumed after each stop gets finished, wherever it was
\* stopped (the other recipes of SETUP are written to be repeated,
\* master.sh:32, 45).
AlwaysFinishes == <>finished
=============================================================================
