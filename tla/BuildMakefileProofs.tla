------------------------- MODULE BuildMakefileProofs -------------------------
(***************************************************************************)
(* The phases of the generated Makefile stay in order and the account it   *)
(* borrows gets its files back, for a book of any length and a build       *)
(* stopped and resumed any number of times.                                *)
(***************************************************************************)
EXTENDS BuildMakefile, TLAPS

AfterTargets == {"restore", "restore_profile", "restored", "touch"}

(***************************************************************************)
(* What PhasesInOrder rests on: make has seen the targets before t, the    *)
(* phases before this one are recorded, and the target under way comes     *)
(* after every recorded phase, so that a file deleted on SIGINT is of none.*)
(***************************************************************************)
Recorded == \A k \in mk : \A i \in 1 .. PhaseEnd[k] : i \in built
InTurn   == pc \in {"mk", "target"} \cup Scripted => phase = SETUP \/ phase - 1 \in mk
Walked   ==
    pc \in {"target"} \cup Scripted =>
        phase \in Phases /\ t <= PhaseEnd[phase] + 1 /\ \A i \in 1 .. t - 1 : i \in built
UnderWay ==
    /\ pc \in Scripted => t <= PhaseEnd[phase] /\ \A k \in mk : PhaseEnd[k] < t
    /\ pc = "touched" => t \in built
Through  ==
    pc \in AfterTargets => phase \in Phases /\ \A i \in 1 .. PhaseEnd[phase] : i \in built

Order == Recorded /\ InTurn /\ Walked /\ UnderWay /\ Through
Inductive == TypeOK /\ Order

-----------------------------------------------------------------------------
\* The targets of a phase are targets of the book, and there are some.
LEMMA Ends == \A k \in Phases : PhaseEnd[k] \in Targets
<1>. USE PhasesAssumption
<1>1. Phases = {1, 2, 3, 4, 5} /\ PhaseEnd[1] = 3
  BY DEF Phases, SETUP, BOOT, settingenvironment
<1>2. \A k \in Phases : PhaseEnd[k] \in Nat
  OBVIOUS
<1>3. PhaseEnd[1] < PhaseEnd[2] /\ PhaseEnd[2] < PhaseEnd[3]
  BY <1>1, 2 - 1 = 1, 3 - 1 = 2 DEF SETUP
<1>4. PhaseEnd[3] < PhaseEnd[4] /\ PhaseEnd[4] < PhaseEnd[5]
  BY <1>1, 4 - 1 = 3, 5 - 1 = 4 DEF SETUP
<1>. QED  BY <1>1, <1>2, <1>3, <1>4 DEF Targets, BOOT

\* The chain of targets ends somewhere.
LEMMA BookLength == PhaseEnd[BOOT] \in Nat /\ \A k \in Phases : PhaseEnd[k] \in Nat
<1>1. BOOT \in Phases
  BY DEF Phases, SETUP, BOOT
<1>. QED  BY <1>1, PhasesAssumption

\* The targets up to t are t and those before it.
LEMMA LastOfRange == \A n \in Nat \ {0} : \A i \in 1 .. n : i = n \/ i \in 1 .. n - 1
OBVIOUS

\* The first command of a target is one of a recipe.
LEMMA Begins == \A i \in Targets : FirstCommand(i) \in Scripted \ {"touched"}
BY DEF FirstCommand, Scripted, creatingtoolsdir, addinguser, settingenvironment

\* Moving a dot file leaves a home with dot files.
LEMMA Moves ==
    ASSUME home \in [Names -> Content], NEW a \in Names, NEW b \in Names
    PROVE  /\ moved(a, b) \in [Names -> Content]
           /\ saved(a, b) \in [Names -> Content]
           /\ taken_back(a, b) \in [Names -> Content]
BY DEF moved, saved, taken_back, Content

\* The beginning: an idle make before the first target.
LEMMA Starts == Init => Inductive
<1>. SUFFICES ASSUME Init PROVE Inductive
  OBVIOUS
<1>2. NoFiles \in [Names -> Content]
  BY DEF NoFiles, Content
<1>3. ASSUME NEW rc \in Bashrcs, NEW profile \in Profiles
      PROVE  Home(rc[1], rc[2], profile[1], profile[2]) \in [Names -> Content]
  <2>1. rc[1] \in Content /\ rc[2] \in Content
    BY DEF Bashrcs, Content
  <2>2. profile[1] \in Content /\ profile[2] \in Content
    BY DEF Profiles, Content
  <2>. QED  BY <2>1, <2>2 DEF Home, Names
<1>5. home \in [Names -> Content] /\ luser \in BOOLEAN
  <2>1. was.home \in [Names -> Content] /\ was.luser \in BOOLEAN
    <3>1. CASE was = [luser |-> FALSE, home |-> NoFiles]
      BY <3>1, <1>2
    <3>2. ASSUME NEW rc \in Bashrcs, NEW profile \in Profiles,
                 was = [luser |-> TRUE, home |-> Home(rc[1], rc[2], profile[1], profile[2])]
          PROVE  was.home \in [Names -> Content] /\ was.luser \in BOOLEAN
      BY <3>2, <1>3
    <3>. QED  BY <3>1, <3>2 DEF Init, Accounts
  <2>. QED  BY <2>1 DEF Init
<1>6. PhaseEnd[BOOT] \in Targets /\ MaxStops \in Nat
  BY Ends, PhasesAssumption DEF Phases, SETUP, BOOT
<1>7. TypeOK
  <2>1. pc \in Commands /\ pc \notin Scripted
    BY DEF Init, Commands, Nested, Restore, Scripted
  <2>2. phase \in Phases \cup {All} /\ goal \in Phases \cup {All}
    BY DEF Init, Phases, All, SETUP, BOOT
  <2>3. t \in 1 .. PhaseEnd[BOOT] + 1 /\ BREAKPOINT \in {0} \cup Targets /\ stops \in 0 .. MaxStops
    BY <1>6 DEF Init, Targets
  <2>4. built \subseteq Targets /\ mk \subseteq Phases /\ was \in Accounts
    BY DEF Init
  <2>. QED  BY <1>5, <2>1, <2>2, <2>3, <2>4 DEF Init, TypeOK
<1>8. Order
  BY DEF Init, Order, Recorded, InTurn, Walked, UnderWay, Through, Scripted, AfterTargets
<1>. QED  BY <1>7, <1>8 DEF Inductive

\* A step leaves the types, given that make walks in order.
LEMMA Typed == Inductive /\ [Next]_vars => TypeOK'
<1>. SUFFICES ASSUME Inductive, [Next]_vars PROVE TypeOK'
  OBVIOUS
<1>. USE DEF Inductive, TypeOK
<1>0. /\ \A k \in Phases : PhaseEnd[k] \in 1 .. PhaseEnd[BOOT]
      /\ PhaseEnd[BOOT] \in Nat /\ MaxStops \in Nat
  BY Ends, PhasesAssumption DEF Targets, Phases, SETUP, BOOT
<1>1. CASE UNCHANGED vars
  BY <1>1 DEF vars, files, account, host, command, history
<1>2. ASSUME NEW g \in Phases \cup {All}, NEW b \in {0} \cup Targets, start(g, b)
      PROVE  TypeOK'
  <2>1. PhaseEnd[BOOT] + 1 \in Nat /\ 1 \in 1 .. PhaseEnd[BOOT] + 1
    BY <1>0
  <2>2. SETUP \in Phases
    BY DEF Phases, SETUP, BOOT
  <2>3. "mk" \in Commands /\ "mk" \notin Scripted
    BY DEF Commands, Nested, Restore, Scripted
  <2>. QED  BY <1>2, <2>1, <2>2, <2>3 DEF start, files, account, host, history
<1>3. CASE mk_up_to_date
  BY <1>3 DEF mk_up_to_date, files, account, host, command, history, Phases, All, Commands, Nested, Restore, Scripted, SETUP, BOOT
<1>e. /\ 1 \in 1 .. PhaseEnd[BOOT] + 1 /\ SETUP \in Phases \cup {All} /\ All \in Phases \cup {All}
      /\ "idle" \in Commands \ Scripted
  BY <1>0 DEF Phases, SETUP, BOOT, Commands, Nested, Restore, Scripted
<1>4. CASE goal_made \/ phase_failed
  BY <1>4, <1>e DEF goal_made, phase_failed, ended, files, account, host, history
<1>5. CASE make_phase
  BY <1>0, <1>5 DEF make_phase, files, account, host, command, history, Commands, Nested, Restore, Scripted
<1>6. CASE target_up_to_date
  BY <1>0, <1>6 DEF target_up_to_date, files, account, host, command, history, Targets, Commands, Nested, Restore, Scripted
<1>7. CASE make_target
  <2>1. phase \in Phases /\ t \in Targets
    BY <1>0, <1>7 DEF make_target, Order, Walked, Targets
  <2>2. pc' \in Commands
    BY <1>7, <2>1, Begins DEF make_target, Commands, Nested
  <2>. QED  BY <1>7, <2>1, <2>2 DEF make_target, files, account, host, command, history
<1>8. CASE phase_made
  BY <1>8 DEF phase_made, after_phase, files, account, host, command, history, Commands, Nested, Restore, Scripted
<1>9. CASE touch_mk
  BY <1>9 DEF touch_mk, Order, Through, AfterTargets, account, host, command, history, Phases, All, Commands, Nested, Restore, Scripted, SETUP, BOOT
<1>10. CASE mkdir_tools \/ link_tools \/ add_user
  BY ZenonT(60), <1>10 DEF mkdir_tools, link_tools, add_user, recipe, files, account, host, command, history, Commands, Nested, Restore, Scripted
<1>11. CASE save_bashrc \/ save_profile \/ begin_bashrc \/ write_bashrc
  <2>1. /\ ".bashrc" \in Names /\ ".bashrc.XXX" \in Names
        /\ ".bash_profile" \in Names /\ ".bash_profile.XXX" \in Names
    BY DEF Names
  <2>2. home' \in [Names -> Content]
    <3>1. CASE save_bashrc
      BY <3>1, <2>1, Moves DEF save_bashrc
    <3>2. CASE save_profile
      BY <3>2, <2>1, Moves DEF save_profile
    <3>3. CASE begin_bashrc \/ write_bashrc
      BY <3>3 DEF begin_bashrc, write_bashrc, Content
    <3>. QED  BY <1>11, <3>1, <3>2, <3>3
  <2>3. pc' \in {"save_profile", "bashrc", "rest_of_bashrc", "housekeeping"}
    BY <1>11 DEF save_bashrc, save_profile, begin_bashrc, write_bashrc
  <2>4. pc \in Scripted
    BY <1>11 DEF save_bashrc, save_profile, begin_bashrc, write_bashrc, Scripted
  <2>5. /\ UNCHANGED <<luser, luser_exist, host>>
        /\ UNCHANGED recipe
    BY <1>11 DEF save_bashrc, save_profile, begin_bashrc, write_bashrc
  <2>6. pc' \in Commands
    BY <2>3 DEF Commands, Nested, Restore, Scripted
  <2>. QED
    BY <2>2, <2>4, <2>5, <2>6 DEF recipe, files, host, command, history
<1>12. CASE run_script
  BY <1>12 DEF run_script, recipe, files, account, command, history, Commands, Nested, Restore, Scripted
<1>13. CASE housekeeping
  BY <1>13 DEF housekeeping, account, host, command, history, Commands, Nested, Restore, Scripted
<1>14. CASE test_breakpoint
  <2>1. t \in Targets /\ t + 1 \in 1 .. PhaseEnd[BOOT] + 1 /\ t' \in {t, t + 1}
    BY <1>0, <1>14 DEF test_breakpoint, Targets, Scripted
  <2>2. pc' \in {"failed", "target"}
    BY <1>14 DEF test_breakpoint
  <2>3. pc' \in Commands /\ pc' \notin Scripted /\ t' \in 1 .. PhaseEnd[BOOT] + 1
    BY <2>1, <2>2 DEF Commands, Nested, Restore, Scripted
  <2>. QED  BY <1>14, <2>2, <2>3 DEF test_breakpoint, files, account, host, command, history
<1>15. CASE restore_bashrc \/ restore_profile \/ restore_up_to_date \/ touch_restored
  <2>1. /\ ".bashrc" \in Names /\ ".bashrc.XXX" \in Names
        /\ ".bash_profile" \in Names /\ ".bash_profile.XXX" \in Names
    BY DEF Names
  <2>2. home' \in [Names -> Content]
    <3>1. CASE restore_bashrc
      BY <3>1, <2>1, Moves DEF restore_bashrc
    <3>2. CASE restore_profile
      BY <3>2, <2>1, Moves DEF restore_profile
    <3>3. CASE restore_up_to_date \/ touch_restored
      BY <3>3 DEF restore_up_to_date, touch_restored, account
    <3>. QED  BY <1>15, <3>1, <3>2, <3>3
  <2>3. /\ pc' \in Commands /\ pc' \notin Scripted
        /\ restored' \in BOOLEAN
    BY <1>15 DEF restore_bashrc, restore_profile, restore_up_to_date, touch_restored,
                 recipe, files, Commands, Nested, Restore, Scripted
  <2>4. UNCHANGED <<built, mk, luser, luser_exist, host, phase, t, command, awaited, history>>
    BY <1>15 DEF restore_bashrc, restore_profile, restore_up_to_date, touch_restored,
                 recipe, files, account
  <2>. QED  BY <2>2, <2>3, <2>4 DEF host, command, history
<1>21. CASE write_release
  BY <1>21, <1>e DEF write_release, ended, files, account, host
<1>16. CASE make_all \/ rm_link
  BY ZenonT(60), <1>16 DEF make_all, rm_link, recipe, files, account, host, command, history, Commands, Nested, Restore, Scripted
<1>17. CASE userdel
  <2>1. home' \in [Names -> Content]
    BY <1>17 DEF userdel, NoFiles, Content
  <2>. QED  BY <1>17, <2>1 DEF userdel, recipe, files, host, command, history, Commands, Nested, Restore, Scripted
<1>18. CASE stop
  <2>1. built' \subseteq Targets /\ restored' \in BOOLEAN
    BY <1>18 DEF stop
  <2>2. stops' \in 0 .. MaxStops
    BY <1>0, <1>18 DEF stop
  <2>3. pc' \in Commands /\ pc' \notin Scripted
    BY <1>18 DEF stop, ended, Commands, Nested, Restore, Scripted
  <2>4. t' \in 1 .. PhaseEnd[BOOT] + 1 /\ phase' \in Phases \cup {All} /\ goal' \in Phases \cup {All}
    BY <1>0, <1>18, <1>e DEF stop, ended
  <2>. QED  BY <1>18, <2>1, <2>2, <2>3, <2>4 DEF stop, ended, account, host
<1>20. CASE fail
  <2>1. stops' \in 0 .. MaxStops
    BY <1>0, <1>20 DEF fail
  <2>2. pc' \in Commands /\ pc' \notin Scripted
    BY <1>20 DEF fail, Commands, Nested, Restore, Scripted
  <2>. QED  BY <1>20, <2>1, <2>2 DEF fail, files, account, host, command
<1>19. CASE unmount
  BY ZenonT(60), <1>19 DEF unmount, files, account, command, history
<1>. QED
  BY <1>1, <1>2, <1>3, <1>4, <1>5, <1>6, <1>7, <1>8, <1>9, <1>10, <1>11, <1>12, <1>13,
     <1>14, <1>15, <1>16, <1>17, <1>18, <1>19, <1>20, <1>21 DEF Next, make

\* A step leaves make in order.
LEMMA Ordered == Inductive /\ [Next]_vars => Order'
<1>. SUFFICES ASSUME Inductive, [Next]_vars PROVE Order'
  OBVIOUS
<1>0. /\ \A k \in Phases : PhaseEnd[k] \in Nat
      /\ built \subseteq Targets /\ mk \subseteq Phases /\ t \in Nat \ {0}
  BY BookLength DEF Inductive, TypeOK
<1>. USE DEF Inductive, Order, Recorded, InTurn, Walked, UnderWay, Through, Scripted, AfterTargets
<1>1. CASE UNCHANGED vars
  BY <1>1 DEF vars, files
<1>2. ASSUME NEW g \in Phases \cup {All}, NEW b \in {0} \cup Targets, start(g, b)
      PROVE  Order'
  BY <1>2 DEF start, files
<1>3. CASE mk_up_to_date
  <2>1. phase \in Nat /\ phase' - 1 = phase
    BY <1>0, <1>3 DEF mk_up_to_date, Phases, SETUP, BOOT
  <2>. QED  BY <1>3, <2>1 DEF mk_up_to_date, files
<1>4. CASE goal_made \/ phase_failed
  BY <1>4 DEF goal_made, phase_failed, ended, files
<1>5. CASE make_phase
  <2>1. 1 <= PhaseEnd[phase] + 1 /\ \A i \in 1 .. 1 - 1 : i \in built
    BY <1>0, <1>5 DEF make_phase
  <2>. QED  BY <1>5, <2>1 DEF make_phase, files
<1>6. CASE target_up_to_date
  <2>1. t' <= PhaseEnd[phase] + 1 /\ \A i \in 1 .. t' - 1 : i \in built
    <3>1. phase \in Phases /\ t' = t + 1 /\ t' - 1 = t /\ t <= PhaseEnd[phase]
      BY <1>0, <1>6 DEF target_up_to_date
    <3>2. \A i \in 1 .. t : i = t \/ i \in 1 .. t - 1
      BY <1>0, LastOfRange
    <3>. QED  BY <1>0, <1>6, <3>1, <3>2 DEF target_up_to_date
  <2>. QED  BY <1>6, <2>1 DEF target_up_to_date, files
<1>7. CASE make_target
  <2>1. \A k \in mk : PhaseEnd[k] < t
    BY <1>0, <1>7 DEF make_target
  <2>2. Walked' /\ InTurn'
    BY <1>7 DEF make_target, files
  <2>3. pc' \notin {"idle", "mk", "target", "touched"} \cup AfterTargets
    BY <1>7 DEF make_target, FirstCommand
  <2>. QED  BY <1>7, <2>1, <2>2, <2>3 DEF make_target, files
<1>8. CASE phase_made
  <2>1. \A i \in 1 .. PhaseEnd[phase] : i \in built
    BY <1>0, <1>8 DEF phase_made
  <2>. QED  BY <1>8, <2>1 DEF phase_made, after_phase, files
<1>9. CASE touch_mk
  <2>1. phase \in Nat /\ phase' - 1 = phase
    BY <1>0, <1>9 DEF touch_mk, Phases, SETUP, BOOT
  <2>. QED  BY <1>9, <2>1 DEF touch_mk
<1>10. CASE mkdir_tools \/ link_tools \/ add_user
  BY <1>10 DEF mkdir_tools, link_tools, add_user, recipe, files
<1>11. CASE save_bashrc \/ save_profile \/ begin_bashrc \/ write_bashrc \/ run_script
  BY <1>11 DEF save_bashrc, save_profile, begin_bashrc, write_bashrc, run_script, recipe, files
<1>12. CASE housekeeping
  BY <1>12 DEF housekeeping
<1>13. CASE test_breakpoint
  <2>1. CASE t = Breakpoint(phase)
    BY <1>13, <2>1 DEF test_breakpoint, files
  <2>2. CASE t # Breakpoint(phase)
    <3>1. phase \in Phases /\ t' = t + 1 /\ t' - 1 = t /\ t' <= PhaseEnd[phase] + 1
      BY <1>0, <1>13, <2>2 DEF test_breakpoint
    <3>2. \A i \in 1 .. t : i = t \/ i \in 1 .. t - 1
      BY <1>0, LastOfRange
    <3>3. \A i \in 1 .. t' - 1 : i \in built
      BY <1>0, <1>13, <3>1, <3>2 DEF test_breakpoint
    <3>. QED  BY <1>13, <2>2, <3>1, <3>3 DEF test_breakpoint, files
  <2>. QED  BY <2>1, <2>2
<1>14. CASE restore_up_to_date \/ restore_bashrc \/ restore_profile \/ touch_restored
  BY <1>14 DEF restore_up_to_date, restore_bashrc, restore_profile, touch_restored, recipe, files
<1>15. CASE make_all \/ rm_link \/ userdel \/ write_release
  BY <1>15 DEF make_all, rm_link, userdel, write_release, ended, recipe, files
<1>18. CASE fail
  BY <1>18 DEF fail, files
<1>16. CASE stop
  <2>1. \A k \in mk : \A i \in 1 .. PhaseEnd[k] : i \in built'
    <3>1. CASE pc = "touched"
      <4>1. \A k \in mk : \A i \in 1 .. PhaseEnd[k] : i # t
        BY <1>0, <3>1
      <4>. QED  BY <1>16, <4>1 DEF stop, ended
    <3>2. CASE pc # "touched"
      BY <1>16, <3>2 DEF stop, ended
    <3>. QED  BY <3>1, <3>2
  <2>. QED  BY <1>16, <2>1 DEF stop, ended
<1>17. CASE unmount
  BY <1>17 DEF unmount, files
<1>. QED
  BY <1>1, <1>2, <1>3, <1>4, <1>5, <1>6, <1>7, <1>8, <1>9, <1>10, <1>11, <1>12, <1>13,
     <1>14, <1>15, <1>16, <1>17, <1>18 DEF Next, make

LEMMA Always == Spec => []Inductive
<1>1. Inductive /\ [Next]_vars => Inductive'
  BY Typed, Ordered DEF Inductive
<1>. QED  BY <1>1, Starts, PTL DEF Spec

(***************************************************************************)
(* For a book of any length, stopped any number of times, the variables    *)
(* keep their types.                                                       *)
(***************************************************************************)
THEOREM StaysInChain == Spec => []TypeOK
<1>1. Inductive => TypeOK
  BY DEF Inductive
<1>. QED  BY <1>1, Always, PTL

(***************************************************************************)
(* A recorded phase has all of its targets, and each target is built by    *)
(* its own phase.                                                          *)
(***************************************************************************)
THEOREM PhasesStayInOrder == Spec => []PhasesInOrder
<1>1. Inductive => PhasesInOrder
  <2>. SUFFICES ASSUME Inductive PROVE PhasesInOrder
    OBVIOUS
  <2>1. \A k \in mk : 1 .. PhaseEnd[k] \subseteq built
    BY DEF Inductive, Order, Recorded
  <2>2. ASSUME pc \in Scripted
        PROVE  t <= PhaseEnd[phase] /\ (phase = SETUP \/ PhaseEnd[phase - 1] < t)
    BY <2>2 DEF Inductive, Order, InTurn, UnderWay
  <2>. QED  BY <2>1, <2>2 DEF PhasesInOrder
<1>. QED  BY <1>1, Always, PTL

-----------------------------------------------------------------------------
(***************************************************************************)
(* What becomes of the account.  Who works on it does so for its target or *)
(* its phase (Recipes), and as targets are built in their order (Chain)    *)
(* there is one stretch of the build in which the .bashrc is the one of    *)
(* the book, between settingenvironment and the last target of LUSER, and  *)
(* one after it in which the files are put back (Restoring): the two never *)
(* overlap, however often make is stopped and where.                       *)
(***************************************************************************)
Saving  == {"save_bashrc", "save_profile", "bashrc", "rest_of_bashrc"}

Recipes ==
    /\ pc \in Saving => t = settingenvironment
    /\ pc \in {"mkdir", "link"} => t = creatingtoolsdir
    /\ pc = "adduser" => t = addinguser
    /\ pc = "script" => t > settingenvironment
    /\ pc \in Restore => phase = LUSER
    /\ pc \in {"rm_link", "userdel"} => BOOT \in mk

Chain ==
    /\ \A i \in built : \A j \in 1 .. i : j \in built
    /\ pc \in Scripted => (t \in built <=> pc = "touched") /\ \A i \in built : i <= t

\* The last target of LUSER is built, and not under way any more.
LuserMade == PhaseEnd[LUSER] \in built /\ ~(pc = "touched" /\ t = PhaseEnd[LUSER])

Restoring ==
    /\ restored \/ pc \in Restore => LuserMade
    /\ LUSER \in mk \/ (pc = "touch" /\ phase = LUSER) => restored

Environment ==
    settingenvironment \in built \/ (pc = "housekeeping" /\ t = settingenvironment) =>
        LuserMade \/ home[".bashrc"] = "lfs"

\* luser-exist is written before adding the user is recorded.
AccountKnown ==
    was.luser =>
        /\ luser
        /\ addinguser \in built \/ (pc = "housekeeping" /\ t = addinguser) => luser_exist

\* Each original that there was is in one of its two places: in the second one
\* while the first is written, in the first once it has been restored.
BashrcFiles ==
    LET original == Original(".bashrc", ".bashrc.XXX") IN
    was.luser /\ original # "none" =>
        /\ home[".bashrc.XXX"] \in {"none", original}
        /\ home[".bashrc.XXX"] = "none" => home[".bashrc"] = original
        /\ pc \in Saving \ {"save_bashrc"} => home[".bashrc.XXX"] = original
        /\ restored \/ pc \in {"restore_profile", "restored"} => home[".bashrc"] = original

ProfileFiles ==
    LET original == Original(".bash_profile", ".bash_profile.XXX") IN
    was.luser /\ original # "none" =>
        /\ home[".bash_profile.XXX"] \in {"none", original}
        /\ home[".bash_profile.XXX"] = "none" => home[".bash_profile"] = original
        /\ restored \/ pc = "restored" => home[".bash_profile"] = original

HostFiles == BashrcFiles /\ ProfileFiles

Files == Recipes /\ Chain /\ Restoring /\ Environment /\ AccountKnown /\ HostFiles

\* Where the phases and their targets are.
LEMMA Places ==
    /\ SETUP = 1 /\ LUSER = 2 /\ BOOT = 5 /\ {SETUP, LUSER, BOOT} \subseteq Phases
    /\ PhaseEnd[SETUP] = 3 /\ 3 < PhaseEnd[LUSER] /\ PhaseEnd[LUSER] < PhaseEnd[BOOT]
    /\ \A k \in Phases : PhaseEnd[k] \in Nat
<1>. USE PhasesAssumption
<1>1. Phases = {1, 2, 3, 4, 5} /\ PhaseEnd[1] = 3
  BY DEF Phases, SETUP, BOOT, settingenvironment
<1>2. \A k \in Phases : PhaseEnd[k] \in Nat
  OBVIOUS
<1>3. PhaseEnd[1] < PhaseEnd[2] /\ PhaseEnd[2] < PhaseEnd[3]
  BY <1>1, 2 - 1 = 1, 3 - 1 = 2 DEF SETUP
<1>4. PhaseEnd[3] < PhaseEnd[4] /\ PhaseEnd[4] < PhaseEnd[5]
  BY <1>1, 4 - 1 = 3, 5 - 1 = 4 DEF SETUP
<1>. QED  BY <1>1, <1>2, <1>3, <1>4 DEF SETUP, LUSER, BOOT

\* The dot files and their copies.
LEMMA DotFiles ==
    /\ ".bashrc" \in Names /\ ".bashrc.XXX" \in Names
    /\ ".bash_profile" \in Names /\ ".bash_profile.XXX" \in Names
BY DEF Names

LEMMA FilesStart == Init => Files
<1>. SUFFICES ASSUME Init PROVE Files
  OBVIOUS
<1>1. pc = "idle" /\ built = {} /\ mk = {} /\ ~restored
  BY DEF Init
<1>2. Recipes /\ Chain /\ Restoring /\ Environment
  BY <1>1 DEF Recipes, Chain, Restoring, Environment, Saving, Restore, Scripted
<1>3. AccountKnown
  BY <1>1 DEF Init, AccountKnown
<1>4. HostFiles
  BY <1>1 DEF Init, HostFiles, BashrcFiles, ProfileFiles, Original, Saving
<1>. QED  BY <1>2, <1>3, <1>4 DEF Files

\* The first command of each target.
LEMMA FirstCommands ==
    \A i \in Nat \ {0} :
        /\ FirstCommand(i) \in {"mkdir", "adduser", "save_bashrc", "script"}
        /\ FirstCommand(i) = "mkdir" => i = creatingtoolsdir
        /\ FirstCommand(i) = "adduser" => i = addinguser
        /\ FirstCommand(i) = "save_bashrc" => i = settingenvironment
        /\ FirstCommand(i) = "script" => i > settingenvironment
BY DEF FirstCommand, creatingtoolsdir, addinguser, settingenvironment

\* Each command is given for its target, and the files are taken back in LUSER.
LEMMA RecipesStay == Inductive /\ Files /\ [Next]_vars => Recipes'
<1>. SUFFICES ASSUME Inductive, Files, [Next]_vars PROVE Recipes'
  OBVIOUS
<1>0. t \in Nat \ {0}
  BY BookLength DEF Inductive, TypeOK
<1>. USE DEF Recipes, Files, Saving, Restore
<1>1. CASE UNCHANGED vars
  BY <1>1 DEF vars, files
<1>2. CASE make_target
  <2>1. pc' = FirstCommand(t) /\ UNCHANGED <<t, phase, mk>>
    BY <1>2 DEF make_target, files
  <2>. QED  BY <1>0, <2>1, FirstCommands
<1>3. CASE mk_up_to_date \/ goal_made \/ phase_failed \/ make_phase \/ target_up_to_date \/ phase_made \/ touch_mk
  BY <1>3 DEF mk_up_to_date, goal_made, phase_failed, ended, make_phase, target_up_to_date, phase_made, after_phase, touch_mk, files
<1>4. CASE mkdir_tools \/ link_tools \/ add_user \/ run_script \/ housekeeping \/ test_breakpoint
  BY <1>4 DEF mkdir_tools, link_tools, add_user, run_script, housekeeping, test_breakpoint, recipe, files
<1>5. CASE save_bashrc \/ save_profile \/ begin_bashrc \/ write_bashrc
  BY <1>5 DEF save_bashrc, save_profile, begin_bashrc, write_bashrc, recipe, files
<1>6. CASE restore_up_to_date \/ restore_bashrc \/ restore_profile \/ touch_restored
  BY <1>6 DEF restore_up_to_date, restore_bashrc, restore_profile, touch_restored, recipe, files
<1>7. CASE make_all
  <2>1. phase = BOOT + 1 /\ pc = "mk" /\ BOOT = 5 /\ SETUP = 1
    BY <1>7, Places DEF make_all, All
  <2>2. phase - 1 = BOOT /\ phase # SETUP
    BY <2>1
  <2>3. BOOT \in mk
    BY <2>1, <2>2 DEF Inductive, Order, InTurn
  <2>. QED  BY <1>7, <2>3 DEF make_all, recipe, files
<1>8. CASE rm_link \/ userdel \/ write_release
  BY <1>8 DEF rm_link, userdel, write_release, ended, recipe, files
<1>9. CASE fail \/ stop
  BY <1>9 DEF fail, stop, ended, files
<1>10. CASE unmount
  BY <1>10 DEF unmount, files
<1>11. ASSUME NEW g \in Phases \cup {All}, NEW b \in {0} \cup Targets, start(g, b)
       PROVE  Recipes'
  BY <1>11 DEF start
<1>. QED
  BY <1>1, <1>2, <1>3, <1>4, <1>5, <1>6, <1>7, <1>8, <1>9, <1>10, <1>11 DEF Next, make

\* Targets are built in the order of the chain, also when the last one is deleted.
LEMMA ChainStays == Inductive /\ Files /\ [Next]_vars => Chain'
<1>. SUFFICES ASSUME Inductive, Files, [Next]_vars PROVE Chain'
  OBVIOUS
<1>0. built \subseteq Nat /\ t \in Nat \ {0}
  BY DEF Inductive, TypeOK, Targets
<1>. USE DEF Chain, Files, Scripted
<1>1. CASE UNCHANGED vars
  BY <1>1 DEF vars, files
<1>2. CASE make_target
  <2>1. \A i \in built : i <= t
    BY <1>0, <1>2 DEF make_target
  <2>2. pc' # "touched"
    BY <1>2 DEF make_target, FirstCommand
  <2>. QED  BY <1>2, <2>1, <2>2 DEF make_target, files
<1>3. CASE mk_up_to_date \/ goal_made \/ phase_failed \/ make_phase \/ target_up_to_date \/ phase_made \/ touch_mk
  BY <1>3 DEF mk_up_to_date, goal_made, phase_failed, ended, make_phase, target_up_to_date, phase_made, after_phase, touch_mk, files
<1>4. CASE mkdir_tools \/ link_tools \/ add_user \/ run_script
  BY <1>4 DEF mkdir_tools, link_tools, add_user, run_script, recipe, files
<1>5. CASE save_bashrc \/ save_profile \/ begin_bashrc \/ write_bashrc
  BY <1>5 DEF save_bashrc, save_profile, begin_bashrc, write_bashrc, recipe, files
<1>6. CASE restore_up_to_date \/ restore_bashrc \/ restore_profile \/ touch_restored
  BY <1>6 DEF restore_up_to_date, restore_bashrc, restore_profile, touch_restored, recipe, files
<1>7. CASE make_all \/ rm_link \/ userdel \/ write_release
  BY <1>7 DEF make_all, rm_link, userdel, write_release, ended, recipe, files
<1>8. CASE housekeeping
  <2>1. \A j \in 1 .. t : j \in built \cup {t}
    BY <1>0, <1>8, LastOfRange DEF housekeeping, Inductive, Order, Walked
  <2>2. \A i \in built' : \A j \in 1 .. i : j \in built'
    BY <1>8, <2>1 DEF housekeeping
  <2>. QED  BY <1>0, <1>8, <2>2 DEF housekeeping
<1>9. CASE test_breakpoint
  BY <1>9 DEF test_breakpoint, files
<1>13. CASE fail
  BY <1>13 DEF fail, files
<1>10. CASE stop
  <2>1. pc' = "idle" /\ (built' = built \/ (pc = "touched" /\ built' = built \ {t}))
    BY <1>10 DEF stop, ended
  <2>2. ASSUME pc = "touched", built' = built \ {t}
        PROVE  \A i \in built' : \A j \in 1 .. i : j \in built'
    <3>1. \A i \in built' : i < t
      BY <1>0, <2>2
    <3>. QED  BY <1>0, <2>2, <3>1
  <2>. QED  BY <2>1, <2>2
<1>11. CASE unmount
  BY <1>11 DEF unmount, files
<1>12. ASSUME NEW g \in Phases \cup {All}, NEW b \in {0} \cup Targets, start(g, b)
       PROVE  Chain'
  BY <1>12 DEF start, files
<1>. QED
  BY <1>1, <1>2, <1>3, <1>4, <1>5, <1>6, <1>7, <1>8, <1>9, <1>10, <1>11, <1>12, <1>13 DEF Next, make

\* What a step does to the targets that are built: at most the one under way
\* is added, by its touch, or deleted.
LEMMA TargetSteps ==
    ASSUME Inductive, Files, [Next]_vars
    PROVE  /\ \A i \in built : i \in built' \/ (pc = "touched" /\ i = t)
           /\ \A i \in built' : i \in built \/ (pc = "housekeeping" /\ i = t)
           /\ pc' = "touched" => t' = t /\ pc \in {"housekeeping", "touched"}
           /\ pc' = "housekeeping" =>
                  \/ write_bashrc \/ add_user
                  \/ t' = t /\ pc \in {"housekeeping", "link", "script"}
<1>1. CASE UNCHANGED vars
  BY <1>1 DEF vars, files
<1>2. CASE make_target
  <2>1. t \in Nat \ {0}
    BY BookLength DEF Inductive, TypeOK
  <2>. QED  BY <1>2, <2>1, FirstCommands DEF make_target, files
<1>3. CASE mk_up_to_date \/ goal_made \/ phase_failed \/ make_phase \/ target_up_to_date \/ phase_made \/ touch_mk
  BY <1>3 DEF mk_up_to_date, goal_made, phase_failed, ended, make_phase, target_up_to_date, phase_made, after_phase, touch_mk, files
<1>4. CASE mkdir_tools \/ link_tools \/ add_user \/ run_script \/ housekeeping \/ test_breakpoint
  BY <1>4 DEF mkdir_tools, link_tools, add_user, run_script, housekeeping, test_breakpoint, recipe, files
<1>5. CASE save_bashrc \/ save_profile \/ begin_bashrc \/ write_bashrc
  BY <1>5 DEF save_bashrc, save_profile, begin_bashrc, write_bashrc, recipe, files
<1>6. CASE restore_up_to_date \/ restore_bashrc \/ restore_profile \/ touch_restored
  BY <1>6 DEF restore_up_to_date, restore_bashrc, restore_profile, touch_restored, recipe, files
<1>7. CASE make_all \/ rm_link \/ userdel \/ write_release
  BY <1>7 DEF make_all, rm_link, userdel, write_release, ended, recipe, files
<1>8. CASE fail \/ stop \/ unmount
  BY <1>8 DEF fail, stop, ended, unmount, files
<1>9. ASSUME NEW g \in Phases \cup {All}, NEW b \in {0} \cup Targets, start(g, b)
      PROVE  UNCHANGED built /\ pc' \notin {"touched", "housekeeping"}
  BY <1>9 DEF start, files
<1>. QED
  BY <1>1, <1>2, <1>3, <1>4, <1>5, <1>6, <1>7, <1>8, <1>9 DEF Next, make

\* Once the targets of LUSER are made, they stay made.
LEMMA LuserStaysMade == Inductive /\ Files /\ [Next]_vars /\ LuserMade => LuserMade'
BY TargetSteps DEF LuserMade, Files, Chain, Scripted

\* The files are taken back when LUSER is made, and once only.
LEMMA RestoringStays == Inductive /\ Files /\ [Next]_vars => Restoring'
<1>. SUFFICES ASSUME Inductive, Files, [Next]_vars PROVE Restoring'
  OBVIOUS
<1>0. restored \in BOOLEAN /\ t \in Nat \ {0}
  BY BookLength DEF Inductive, TypeOK
<1>l. LuserMade => LuserMade'
  BY LuserStaysMade
<1>r. Restoring
  BY DEF Files
<1>. USE <1>0, <1>l, <1>r DEF Restoring, Restore, LUSER
<1>1. CASE UNCHANGED vars
  BY <1>1 DEF vars, files
<1>2. CASE make_target
  BY <1>2, FirstCommands DEF make_target, files
<1>3. CASE mk_up_to_date \/ goal_made \/ phase_failed \/ make_phase \/ target_up_to_date
  BY <1>3 DEF mk_up_to_date, goal_made, phase_failed, ended, make_phase, target_up_to_date, files
<1>4. CASE phase_made
  <2>1. PhaseEnd[phase] \in built
    BY <1>4, Places, Ends DEF phase_made, Inductive, Order, Walked, TypeOK, Targets
  <2>2. phase = LUSER => LuserMade
    BY <1>4, <2>1 DEF phase_made, LuserMade
  <2>. QED  BY <1>4, <2>2 DEF phase_made, after_phase, files
<1>5. CASE touch_mk
  BY <1>5, Places DEF touch_mk
<1>6. CASE mkdir_tools \/ link_tools \/ add_user \/ run_script \/ housekeeping \/ test_breakpoint
  BY <1>6 DEF mkdir_tools, link_tools, add_user, run_script, housekeeping, test_breakpoint, recipe, files
<1>7. CASE save_bashrc \/ save_profile \/ begin_bashrc \/ write_bashrc
  BY <1>7 DEF save_bashrc, save_profile, begin_bashrc, write_bashrc, recipe, files
<1>8. CASE restore_up_to_date \/ restore_bashrc \/ restore_profile \/ touch_restored
  BY <1>8 DEF restore_up_to_date, restore_bashrc, restore_profile, touch_restored, recipe, files
<1>9. CASE make_all \/ rm_link \/ userdel \/ write_release
  BY <1>9 DEF make_all, rm_link, userdel, write_release, ended, recipe, files
<1>10. CASE fail \/ stop
  BY <1>10 DEF fail, stop, ended, files
<1>11. CASE unmount
  BY <1>11 DEF unmount, files
<1>12. ASSUME NEW g \in Phases \cup {All}, NEW b \in {0} \cup Targets, start(g, b)
       PROVE  Restoring'
  BY <1>12 DEF start, files
<1>. QED
  BY <1>1, <1>2, <1>3, <1>4, <1>5, <1>6, <1>7, <1>8, <1>9, <1>10, <1>11, <1>12 DEF Next, make

\* When the account is deleted, everything is built.
LEMMA AllBuilt ==
    Inductive /\ Files /\ pc \in {"rm_link", "userdel"} => LuserMade /\ addinguser \in built
<1>. SUFFICES ASSUME Inductive, Files, pc \in {"rm_link", "userdel"}
              PROVE  LuserMade /\ addinguser \in built
  OBVIOUS
<1>1. \A i \in 1 .. PhaseEnd[BOOT] : i \in built
  BY DEF Inductive, Order, Recorded, Files, Recipes
<1>2. /\ PhaseEnd[LUSER] \in Nat /\ PhaseEnd[BOOT] \in Nat
      /\ 3 < PhaseEnd[LUSER] /\ PhaseEnd[LUSER] < PhaseEnd[BOOT]
  BY Places
<1>3. PhaseEnd[LUSER] \in 1 .. PhaseEnd[BOOT] /\ 2 \in 1 .. PhaseEnd[BOOT]
  BY <1>2 DEF LUSER, BOOT
<1>. QED  BY <1>1, <1>3 DEF LuserMade, addinguser

\* The steps that leave the files of the account alone do not take part in
\* saving or restoring them.
LEMMA HomeSteps ==
    ASSUME Inductive, Files, [Next]_vars
    PROVE  \/ save_bashrc \/ save_profile \/ begin_bashrc \/ write_bashrc
           \/ restore_bashrc \/ restore_profile \/ userdel
           \/ /\ UNCHANGED home
              /\ pc' \in (Saving \ {"save_bashrc"}) \cup {"restore_profile", "restored"} => pc' = pc
              /\ restored' => restored \/ pc = "restored"
<1>. USE DEF Saving
<1>1. CASE UNCHANGED vars
  BY <1>1 DEF vars, files, account
<1>2. CASE make_target
  <2>1. t \in Nat \ {0}
    BY BookLength DEF Inductive, TypeOK
  <2>. QED  BY <1>2, <2>1, FirstCommands DEF make_target, files, account
<1>3. CASE mk_up_to_date \/ goal_made \/ phase_failed \/ make_phase \/ target_up_to_date \/ phase_made \/ touch_mk
  BY <1>3 DEF mk_up_to_date, goal_made, phase_failed, ended, make_phase, target_up_to_date, phase_made, after_phase, touch_mk,
              files, account
<1>4. CASE mkdir_tools \/ link_tools \/ add_user \/ run_script \/ housekeeping \/ test_breakpoint
  BY <1>4 DEF mkdir_tools, link_tools, add_user, run_script, housekeeping, test_breakpoint, recipe,
              files, account
<1>5. CASE restore_up_to_date \/ touch_restored
  BY <1>5 DEF restore_up_to_date, touch_restored, recipe, files, account
<1>6. CASE make_all \/ rm_link \/ write_release
  BY <1>6 DEF make_all, rm_link, write_release, ended, recipe, files, account
<1>7. CASE fail \/ stop \/ unmount
  BY <1>7 DEF fail, stop, ended, unmount, files, account
<1>8. ASSUME NEW g \in Phases \cup {All}, NEW b \in {0} \cup Targets, start(g, b)
      PROVE  UNCHANGED <<home, restored>> /\ pc' = "mk"
  BY <1>8 DEF start, files, account
<1>. QED
  BY <1>1, <1>2, <1>3, <1>4, <1>5, <1>6, <1>7, <1>8 DEF Next, make

\* From the target that writes it to the end of LUSER, .bashrc is the one of
\* the book.
LEMMA EnvironmentStays == Inductive /\ Files /\ [Next]_vars => Environment'
<1>. SUFFICES ASSUME Inductive, Files, [Next]_vars, ~LuserMade PROVE Environment'
  BY LuserStaysMade DEF Environment
<1>r. Recipes
  BY DEF Files
<1>0. home \in [Names -> Content] /\ ".bashrc" \in Names
  BY DotFiles DEF Inductive, TypeOK
<1>1. CASE write_bashrc
  <2>1. home'[".bashrc"] = "lfs"
    BY <1>0, <1>1 DEF write_bashrc
  <2>. QED  BY <2>1 DEF Environment
<1>2. CASE save_bashrc \/ save_profile \/ begin_bashrc
  <2>1. t = settingenvironment /\ t \notin built
    BY <1>2 DEF save_bashrc, save_profile, begin_bashrc, Files, Recipes, Chain, Saving, Scripted
  <2>2. UNCHANGED built /\ pc' # "housekeeping"
    BY <1>2 DEF save_bashrc, save_profile, begin_bashrc, recipe, files
  <2>. QED  BY <2>1, <2>2 DEF Environment
<1>3. CASE restore_bashrc \/ restore_profile
  BY <1>3 DEF restore_bashrc, restore_profile, Files, Restoring, Restore
<1>4. CASE userdel
  BY <1>4, AllBuilt DEF userdel
<1>5. CASE UNCHANGED home /\ ~write_bashrc
  <2>1. ASSUME settingenvironment \in built'
        PROVE  settingenvironment \in built \/ (pc = "housekeeping" /\ t = settingenvironment)
    BY <2>1, TargetSteps
  <2>2. ASSUME pc' = "housekeeping", t' = settingenvironment
        PROVE  pc = "housekeeping" /\ t = settingenvironment
    <3>1. CASE add_user
      BY <2>2, <3>1, <1>r DEF add_user, recipe, Recipes, Saving, Restore, LUSER, BOOT, settingenvironment, addinguser
    <3>2. CASE t' = t /\ pc \in {"housekeeping", "link", "script"}
      BY <2>2, <3>2, <1>r DEF Recipes, Saving, Restore, LUSER, BOOT, settingenvironment, creatingtoolsdir
    <3>. QED  BY <1>5, <2>2, <3>1, <3>2, TargetSteps
  <2>. QED  BY <1>5, <2>1, <2>2 DEF Environment, Files
<1>. QED  BY <1>1, <1>2, <1>3, <1>4, <1>5, HomeSteps

\* The steps that leave the account alone; what was there before is history.
LEMMA AccountSteps ==
    ASSUME [Next]_vars
    PROVE  UNCHANGED was /\ (add_user \/ userdel \/ UNCHANGED <<luser, luser_exist>>)
<1>1. CASE UNCHANGED vars
  BY <1>1 DEF vars, account, history
<1>2. CASE mk_up_to_date \/ goal_made \/ phase_failed \/ make_phase \/ target_up_to_date \/ make_target \/ phase_made \/ touch_mk
  BY <1>2 DEF mk_up_to_date, goal_made, phase_failed, ended, make_phase, target_up_to_date, make_target, phase_made, touch_mk,
              account, history
<1>3. CASE mkdir_tools \/ link_tools \/ add_user \/ run_script \/ housekeeping \/ test_breakpoint
  BY <1>3 DEF mkdir_tools, link_tools, add_user, run_script, housekeeping, test_breakpoint, recipe,
              account, history
<1>4. CASE save_bashrc \/ save_profile \/ begin_bashrc \/ write_bashrc
  BY <1>4 DEF save_bashrc, save_profile, begin_bashrc, write_bashrc, recipe, history
<1>5. CASE restore_up_to_date \/ restore_bashrc \/ restore_profile \/ touch_restored
  BY <1>5 DEF restore_up_to_date, restore_bashrc, restore_profile, touch_restored, recipe, account, history
<1>6. CASE make_all \/ rm_link \/ userdel \/ write_release
  BY <1>6 DEF make_all, rm_link, userdel, write_release, ended, recipe, account, history
<1>7. CASE fail \/ stop \/ unmount
  BY <1>7 DEF fail, stop, ended, unmount, account, history
<1>8. ASSUME NEW g \in Phases \cup {All}, NEW b \in {0} \cup Targets, start(g, b)
      PROVE  UNCHANGED <<account, was>>
  BY <1>8 DEF start, history
<1>. QED
  BY <1>1, <1>2, <1>3, <1>4, <1>5, <1>6, <1>7, <1>8 DEF Next, make, account

\* An account of before is known by the time it could be deleted.
LEMMA AccountStays == Inductive /\ Files /\ [Next]_vars => AccountKnown'
<1>. SUFFICES ASSUME Inductive, Files, [Next]_vars, was.luser
              PROVE  luser' /\ (addinguser \in built' \/ (pc' = "housekeeping" /\ t' = addinguser) => luser_exist')
  BY AccountSteps DEF AccountKnown
<1>r. Recipes
  BY DEF Files
<1>0. luser /\ (addinguser \in built \/ (pc = "housekeeping" /\ t = addinguser) => luser_exist)
  BY DEF Files, AccountKnown
<1>1. CASE add_user
  BY <1>0, <1>1 DEF add_user
<1>2. CASE userdel
  BY <1>0, <1>2, AllBuilt DEF userdel
<1>3. CASE ~add_user /\ UNCHANGED <<luser, luser_exist>>
  <2>1. ASSUME addinguser \in built'
        PROVE  addinguser \in built \/ (pc = "housekeeping" /\ t = addinguser)
    BY <2>1, TargetSteps
  <2>2. ASSUME pc' = "housekeeping", t' = addinguser
        PROVE  pc = "housekeeping" /\ t = addinguser
    <3>1. CASE write_bashrc
      BY <2>2, <3>1, <1>r DEF write_bashrc, recipe, Recipes, Saving, Restore, LUSER, BOOT, addinguser, settingenvironment
    <3>2. CASE t' = t /\ pc \in {"housekeeping", "link", "script"}
      BY <2>2, <3>2, <1>r DEF Recipes, Saving, Restore, LUSER, BOOT, settingenvironment, addinguser, creatingtoolsdir
    <3>. QED  BY <1>3, <2>2, <3>1, <3>2, TargetSteps
  <2>. QED  BY <1>0, <1>3, <2>1, <2>2
<1>. QED  BY <1>1, <1>2, <1>3, AccountSteps

\* Moving a file and writing one: what is where afterwards.
LEMMA Moved ==
    ASSUME home \in [Names -> Content], NEW a \in Names, NEW b \in Names, a # b
    PROVE  /\ moved(a, b)[b] = home[a] /\ moved(a, b)[a] = "none"
           /\ \A n \in Names \ {a, b} : moved(a, b)[n] = home[n]
BY DEF moved

\* While LUSER's files are being saved they have not been restored.
LEMMA SavingFirst == Inductive /\ Files /\ pc \in Saving => ~restored
<1>. SUFFICES ASSUME Inductive, Files, pc \in Saving PROVE ~restored
  OBVIOUS
<1>1. t = 3 /\ t \notin built /\ \A i \in built : \A j \in 1 .. i : j \in built
  BY DEF Files, Recipes, Chain, Saving, Scripted, settingenvironment
<1>2. PhaseEnd[LUSER] \in Nat /\ 3 < PhaseEnd[LUSER]
  BY Places
<1>3. 3 \in 1 .. PhaseEnd[LUSER]
  BY <1>2
<1>4. PhaseEnd[LUSER] \notin built
  BY <1>1, <1>3
<1>. QED  BY <1>4 DEF Files, Restoring, LuserMade

\* What was in the account is history.
LEMMA OriginalStays ==
    ASSUME [Next]_vars, NEW name, NEW copy
    PROVE  Original(name, copy)' = Original(name, copy)
BY AccountSteps DEF Original

\* Saving .bashrc, interrupted anywhere and begun again, never loses the
\* original, and once it is back nothing is written there any more.
LEMMA BashrcStays == Inductive /\ Files /\ [Next]_vars => BashrcFiles'
<1>. DEFINE original == Original(".bashrc", ".bashrc.XXX")
<1>. SUFFICES ASSUME Inductive, Files, [Next]_vars, was.luser, original # "none"
              PROVE  /\ home'[".bashrc.XXX"] \in {"none", original}
                     /\ home'[".bashrc.XXX"] = "none" => home'[".bashrc"] = original
                     /\ pc' \in Saving \ {"save_bashrc"} => home'[".bashrc.XXX"] = original
                     /\ restored' \/ pc' \in {"restore_profile", "restored"} => home'[".bashrc"] = original
  BY AccountSteps, OriginalStays DEF BashrcFiles
<1>0. home \in [Names -> Content] /\ restored \in BOOLEAN
  BY DEF Inductive, TypeOK
<1>1. /\ home[".bashrc.XXX"] \in {"none", original}
      /\ home[".bashrc.XXX"] = "none" => home[".bashrc"] = original
      /\ pc \in Saving \ {"save_bashrc"} => home[".bashrc.XXX"] = original
      /\ restored \/ pc \in {"restore_profile", "restored"} => home[".bashrc"] = original
  BY DEF Files, HostFiles, BashrcFiles
<1>2. pc \in Saving => ~restored
  BY SavingFirst
<1>. HIDE DEF original
<1>. USE DEF Saving
<1>3. CASE save_bashrc
  <2>1. UNCHANGED restored /\ ~restored /\ pc' = "save_profile"
    BY <1>2, <1>3 DEF save_bashrc, recipe, files
  <2>2. CASE home[".bashrc"] # "none" /\ home[".bashrc.XXX"] = "none"
    <3>1. home' = moved(".bashrc", ".bashrc.XXX")
      BY <1>3, <2>2 DEF save_bashrc, saved
    <3>2. home'[".bashrc.XXX"] = original
      BY <1>0, <1>1, <2>2, <3>1, DotFiles, Moved
    <3>. QED  BY <2>1, <3>2
  <2>3. CASE ~(home[".bashrc"] # "none" /\ home[".bashrc.XXX"] = "none")
    <3>1. home' = home
      BY <1>3, <2>3 DEF save_bashrc, saved
    <3>. QED  BY <1>1, <2>1, <2>3, <3>1
  <2>. QED  BY <2>2, <2>3
<1>4. CASE save_profile
  <2>1. UNCHANGED restored /\ ~restored /\ pc' = "bashrc" /\ pc = "save_profile"
    BY <1>2, <1>4 DEF save_profile, recipe, files
  <2>2. home'[".bashrc"] = home[".bashrc"] /\ home'[".bashrc.XXX"] = home[".bashrc.XXX"]
    BY <1>0, <1>4, DotFiles, Moved DEF save_profile, saved
  <2>. QED  BY <1>1, <2>1, <2>2
<1>5. CASE begin_bashrc \/ write_bashrc
  <2>1. /\ pc \in {"bashrc", "rest_of_bashrc"} /\ pc' \in {"rest_of_bashrc", "housekeeping"}
        /\ UNCHANGED restored /\ ~restored
    BY <1>2, <1>5 DEF begin_bashrc, write_bashrc, recipe, files
  <2>2. home'[".bashrc.XXX"] = home[".bashrc.XXX"]
    BY <1>0, <1>5, DotFiles DEF begin_bashrc, write_bashrc
  <2>. QED  BY <1>1, <2>1, <2>2
<1>6. CASE restore_bashrc
  <2>1. pc' = "restore_profile" /\ UNCHANGED restored /\ ~restored
    BY <1>6 DEF restore_bashrc, recipe, files
  <2>2. CASE home[".bashrc.XXX"] # "none"
    <3>1. home' = moved(".bashrc.XXX", ".bashrc")
      BY <1>6, <2>2 DEF restore_bashrc, taken_back
    <3>2. home'[".bashrc"] = original /\ home'[".bashrc.XXX"] = "none"
      BY <1>0, <1>1, <2>2, <3>1, DotFiles, Moved
    <3>. QED  BY <2>1, <3>2
  <2>3. CASE home[".bashrc.XXX"] = "none"
    <3>1. home' = home
      BY <1>6, <2>3 DEF restore_bashrc, taken_back
    <3>. QED  BY <1>1, <2>1, <2>3, <3>1
  <2>. QED  BY <2>2, <2>3
<1>7. CASE restore_profile
  <2>1. pc' = "restored" /\ UNCHANGED restored /\ home[".bashrc"] = original
    BY <1>1, <1>7 DEF restore_profile, recipe, files
  <2>2. home'[".bashrc"] = home[".bashrc"] /\ home'[".bashrc.XXX"] = home[".bashrc.XXX"]
    BY <1>0, <1>7, DotFiles, Moved DEF restore_profile, taken_back
  <2>. QED  BY <1>1, <2>1, <2>2
<1>8. CASE userdel
  <2>1. luser_exist
    BY <1>8, AllBuilt DEF userdel, Files, AccountKnown
  <2>. QED  BY <1>1, <1>8, <2>1 DEF userdel, recipe, files
<1>9. CASE /\ UNCHANGED home
           /\ pc' \in (Saving \ {"save_bashrc"}) \cup {"restore_profile", "restored"} => pc' = pc
           /\ restored' => restored \/ pc = "restored"
  BY <1>1, <1>9
<1>. QED  BY <1>3, <1>4, <1>5, <1>6, <1>7, <1>8, <1>9, HomeSteps

\* The same of .bash_profile, which the build does not write.
LEMMA ProfileStays == Inductive /\ Files /\ [Next]_vars => ProfileFiles'
<1>. DEFINE original == Original(".bash_profile", ".bash_profile.XXX")
<1>. SUFFICES ASSUME Inductive, Files, [Next]_vars, was.luser, original # "none"
              PROVE  /\ home'[".bash_profile.XXX"] \in {"none", original}
                     /\ home'[".bash_profile.XXX"] = "none" => home'[".bash_profile"] = original
                     /\ restored' \/ pc' = "restored" => home'[".bash_profile"] = original
  BY AccountSteps, OriginalStays DEF ProfileFiles
<1>0. home \in [Names -> Content] /\ restored \in BOOLEAN
  BY DEF Inductive, TypeOK
<1>1. /\ home[".bash_profile.XXX"] \in {"none", original}
      /\ home[".bash_profile.XXX"] = "none" => home[".bash_profile"] = original
      /\ restored \/ pc = "restored" => home[".bash_profile"] = original
  BY DEF Files, HostFiles, ProfileFiles
<1>2. pc \in Saving => ~restored
  BY SavingFirst
<1>. HIDE DEF original
<1>. USE DEF Saving
<1>3. CASE save_profile
  <2>1. UNCHANGED restored /\ ~restored /\ pc' = "bashrc"
    BY <1>2, <1>3 DEF save_profile, recipe, files
  <2>2. CASE home[".bash_profile"] # "none" /\ home[".bash_profile.XXX"] = "none"
    <3>1. home' = moved(".bash_profile", ".bash_profile.XXX")
      BY <1>3, <2>2 DEF save_profile, saved
    <3>2. home'[".bash_profile.XXX"] = original
      BY <1>0, <1>1, <2>2, <3>1, DotFiles, Moved
    <3>. QED  BY <1>1, <2>1, <2>2, <3>2
  <2>3. CASE ~(home[".bash_profile"] # "none" /\ home[".bash_profile.XXX"] = "none")
    <3>1. home' = home
      BY <1>3, <2>3 DEF save_profile, saved
    <3>. QED  BY <1>1, <2>1, <3>1
  <2>. QED  BY <2>2, <2>3
<1>4. CASE save_bashrc \/ begin_bashrc \/ write_bashrc \/ restore_bashrc
  <2>1. UNCHANGED restored /\ ~restored /\ pc' # "restored"
    BY <1>2, <1>4 DEF save_bashrc, begin_bashrc, write_bashrc, restore_bashrc, recipe, files
  <2>2. /\ home'[".bash_profile"] = home[".bash_profile"]
        /\ home'[".bash_profile.XXX"] = home[".bash_profile.XXX"]
    <3>1. CASE save_bashrc \/ restore_bashrc
      BY <1>0, <3>1, DotFiles, Moved DEF save_bashrc, restore_bashrc, saved, taken_back
    <3>2. CASE begin_bashrc \/ write_bashrc
      BY <1>0, <3>2, DotFiles DEF begin_bashrc, write_bashrc
    <3>. QED  BY <1>4, <3>1, <3>2
  <2>. QED  BY <1>1, <2>1, <2>2
<1>5. CASE restore_profile
  <2>1. pc' = "restored" /\ UNCHANGED restored
    BY <1>5 DEF restore_profile, recipe, files
  <2>2. CASE home[".bash_profile.XXX"] # "none"
    <3>1. home' = moved(".bash_profile.XXX", ".bash_profile")
      BY <1>5, <2>2 DEF restore_profile, taken_back
    <3>2. home'[".bash_profile"] = original /\ home'[".bash_profile.XXX"] = "none"
      BY <1>0, <1>1, <2>2, <3>1, DotFiles, Moved
    <3>. QED  BY <2>1, <3>2
  <2>3. CASE home[".bash_profile.XXX"] = "none"
    <3>1. home' = home
      BY <1>5, <2>3 DEF restore_profile, taken_back
    <3>. QED  BY <1>1, <2>1, <2>3, <3>1
  <2>. QED  BY <2>2, <2>3
<1>6. CASE userdel
  <2>1. luser_exist
    BY <1>6, AllBuilt DEF userdel, Files, AccountKnown
  <2>. QED  BY <1>1, <1>6, <2>1 DEF userdel, recipe, files
<1>7. CASE /\ UNCHANGED home
           /\ pc' \in (Saving \ {"save_bashrc"}) \cup {"restore_profile", "restored"} => pc' = pc
           /\ restored' => restored \/ pc = "restored"
  BY <1>1, <1>7
<1>. QED  BY <1>3, <1>4, <1>5, <1>6, <1>7, HomeSteps

LEMMA FilesAlways == Spec => []Files
<1>1. Inductive /\ Files /\ [Next]_vars => Files'
  BY RecipesStay, ChainStays, RestoringStays, EnvironmentStays, AccountStays, BashrcStays, ProfileStays DEF Files, HostFiles
<1>. QED  BY <1>1, Always, FilesStart, PTL DEF Spec

(***************************************************************************)
(* The scripts of LUSER are never run with another .bashrc than the one    *)
(* written for them (master.sh:45).                                        *)
(***************************************************************************)
THEOREM EnvironmentIsKept == Spec => []LuserEnvironment
<1>1. Inductive /\ Files => LuserEnvironment
  <2>. SUFFICES ASSUME Inductive, Files, pc = "script", phase = LUSER
                PROVE  home[".bashrc"] = "lfs"
    BY DEF LuserEnvironment
  <2>0. t \in Nat \ {0} /\ PhaseEnd[LUSER] \in Nat
    BY BookLength, Places DEF Inductive, TypeOK
  <2>1. /\ t > 3 /\ t \notin built /\ t <= PhaseEnd[LUSER]
        /\ \A i \in built : i <= t
        /\ \A i \in 1 .. t - 1 : i \in built
    BY DEF Files, Recipes, Chain, Scripted, settingenvironment, Inductive, Order, UnderWay, Walked
  <2>2. 3 \in built
    BY <2>0, <2>1
  <2>3. PhaseEnd[LUSER] \notin built
    BY <2>0, <2>1
  <2>. QED  BY <2>2, <2>3 DEF Files, Environment, LuserMade, settingenvironment
<1>. QED  BY <1>1, Always, FilesAlways, PTL

(***************************************************************************)
(* An account the host had before is never deleted, and each dot file it   *)
(* had is in one of two places at every moment (README:294).               *)
(***************************************************************************)
THEOREM AccountIsKept == Spec => []AccountKept
<1>1. Inductive /\ Files => AccountKept
  BY DEF AccountKept, Kept, Files, AccountKnown, HostFiles, BashrcFiles, ProfileFiles
<1>. QED  BY <1>1, Always, FilesAlways, PTL

(***************************************************************************)
(* Once LUSER is through, each dot file that the account had, before the   *)
(* build or before one that was given up, is the one at its place          *)
(* (master.sh:578).  What it had not is none of this: see NoBashrcLeft.    *)
(***************************************************************************)
THEOREM AccountIsRestored == Spec => []AccountRestored
<1>1. Inductive /\ Files => AccountRestored
  <2>1. Files /\ LUSER \in mk => restored
    BY DEF Files, Restoring
  <2>. QED
    BY <2>1 DEF AccountRestored, Back, Files, HostFiles, BashrcFiles, ProfileFiles
<1>. QED  BY <1>1, Always, FilesAlways, PTL

(***************************************************************************)
(* What StopsAtBreakpoint rests on: while the target to stop at is missing *)
(* nothing behind it is there, as targets are built in their order and     *)
(* make is not past it; and once it is built, all that is left to do for   *)
(* the makes is to end, the inner one first.                               *)
(***************************************************************************)
Ending ==
    awaited =>
        /\ BREAKPOINT \in Targets
        /\ BREAKPOINT \in built =>
               pc = "failed" \/ (pc = "touched" /\ t = BREAKPOINT)
        /\ StopsAtBreakpoint

\* A step on the way to the breakpoint.
LEMMA EndingStays == Inductive /\ Files /\ Ending /\ [Next]_vars => Ending'
<1>. SUFFICES ASSUME Inductive, Files, Ending, [Next]_vars, awaited' PROVE Ending'
  BY DEF Ending
<1>0. /\ built \subseteq Nat /\ mk \subseteq Phases /\ t \in Nat \ {0} /\ phase \in Phases \cup {All}
      /\ BREAKPOINT \in Nat /\ \A k \in Phases : PhaseEnd[k] \in Nat
      /\ Targets \subseteq Nat
  BY BookLength DEF Inductive, TypeOK, Targets
<1>. USE DEF StopsAtBreakpoint
<1>1. CASE UNCHANGED vars
  BY <1>1 DEF Ending, vars, files, command
<1>2. ASSUME NEW g \in Phases \cup {All}, NEW b \in {0} \cup Targets, start(g, b)
      PROVE  Ending'
  <2>1. b \in Targets /\ b \notin built /\ b \in Nat
    BY <1>0, <1>2 DEF start
  <2>2. \A i \in built : i <= b
    <3>1. ASSUME NEW i \in built, ~(i <= b)
          PROVE  FALSE
      <4>1. b \in 1 .. i
        BY <1>0, <2>1, <3>1 DEF Targets
      <4>. QED  BY <2>1, <4>1 DEF Files, Chain
    <3>. QED  BY <3>1
  <2>3. \A k \in mk : PhaseEnd[k] < b
    <3>1. ASSUME NEW k \in mk, ~(PhaseEnd[k] < b)
          PROVE  FALSE
      <4>1. b \in 1 .. PhaseEnd[k]
        BY <1>0, <2>1, <3>1 DEF Targets
      <4>. QED  BY <2>1, <4>1 DEF Inductive, Order, Recorded
    <3>. QED  BY <3>1
  <2>. QED  BY <1>2, <2>1, <2>2, <2>3 DEF start, files, Ending
<1>3. CASE ended
  BY <1>3 DEF ended
<1>4. CASE touch_mk
  <2>1. /\ awaited /\ BREAKPOINT \in Targets /\ BREAKPOINT \notin built
        /\ \A i \in built : i <= BREAKPOINT
        /\ \A k \in mk : PhaseEnd[k] < BREAKPOINT
    BY <1>4 DEF touch_mk, Ending
  <2>2. phase \in Phases /\ \A i \in 1 .. PhaseEnd[phase] : i \in built
    BY <1>4 DEF touch_mk, Inductive, Order, Through, AfterTargets
  <2>3. PhaseEnd[phase] < BREAKPOINT
    <3>1. ~(PhaseEnd[phase] < BREAKPOINT) => BREAKPOINT \in 1 .. PhaseEnd[phase]
      BY <1>0, <2>1, <2>2 DEF Targets
    <3>. QED  BY <2>1, <2>2, <3>1
  <2>. QED  BY <1>4, <2>1, <2>3 DEF touch_mk, command, Ending
<1>5. CASE housekeeping
  <2>1. /\ awaited /\ BREAKPOINT \in Targets /\ BREAKPOINT \notin built
        /\ \A i \in built : i <= BREAKPOINT
        /\ \A k \in mk : PhaseEnd[k] < BREAKPOINT
    BY <1>5 DEF housekeeping, Ending
  <2>2. \A i \in 1 .. t - 1 : i \in built
    BY <1>5 DEF housekeeping, Inductive, Order, Walked, Scripted
  <2>3. t <= BREAKPOINT
    <3>1. ~(t <= BREAKPOINT) => BREAKPOINT \in 1 .. t - 1
      BY <1>0, <2>1 DEF Targets
    <3>. QED  BY <2>1, <2>2, <3>1
  <2>. QED  BY <1>5, <2>1, <2>3 DEF housekeeping, command, Ending
<1>6. CASE test_breakpoint
  <2>1. /\ awaited /\ BREAKPOINT \in Targets /\ pc = "touched" /\ UNCHANGED <<files, command>>
        /\ BREAKPOINT \in built => t = BREAKPOINT
        /\ \A i \in built : i <= BREAKPOINT
        /\ \A k \in mk : PhaseEnd[k] < BREAKPOINT
    BY <1>6 DEF test_breakpoint, Ending
  <2>2. BREAKPOINT \in built => pc' = "failed"
    BY <1>6, <2>1 DEF test_breakpoint, Breakpoint
  <2>. QED  BY <2>1, <2>2 DEF files, command, Ending
<1>7. CASE fail
  <2>1. /\ awaited /\ BREAKPOINT \in Targets /\ UNCHANGED <<files, command>> /\ pc' = "failed"
    BY <1>7 DEF fail, Ending
  <2>. QED  BY <2>1 DEF files, command, Ending
<1>8. CASE /\ UNCHANGED <<built, mk, command, awaited>>
           /\ pc \notin {"touched", "failed"}
  BY <1>8 DEF command, Ending
<1>9. CASE unmount
  BY <1>9 DEF unmount, files, command, Ending
<1>10. CASE mk_up_to_date \/ make_phase \/ target_up_to_date \/ make_target \/ phase_made
  BY <1>8, <1>10 DEF mk_up_to_date, make_phase, target_up_to_date, make_target, phase_made, files
<1>11. CASE mkdir_tools \/ link_tools \/ add_user \/ run_script
  BY <1>8, <1>11 DEF mkdir_tools, link_tools, add_user, run_script, recipe, files
<1>12. CASE save_bashrc \/ save_profile \/ begin_bashrc \/ write_bashrc
  BY <1>8, <1>12 DEF save_bashrc, save_profile, begin_bashrc, write_bashrc, recipe, files
<1>13. CASE restore_up_to_date \/ restore_bashrc \/ restore_profile \/ touch_restored
  BY <1>8, <1>13 DEF restore_up_to_date, restore_bashrc, restore_profile, touch_restored, recipe, files
<1>14. CASE make_all \/ rm_link \/ userdel
  BY <1>8, <1>14 DEF make_all, rm_link, userdel, recipe, files
<1>15. goal_made \/ phase_failed \/ write_release \/ stop => ended
  BY DEF goal_made, phase_failed, write_release, stop
<1>. QED
  BY <1>1, <1>2, <1>3, <1>4, <1>5, <1>6, <1>7, <1>9, <1>10, <1>11, <1>12, <1>13, <1>14, <1>15
     DEF Next, make

(***************************************************************************)
(* Whatever the breakpoint, the goal and what earlier makes have left: a   *)
(* make whose breakpoint is still to be built builds and records nothing   *)
(* behind it, through all the makes it starts (README:314).                *)
(***************************************************************************)
THEOREM BreakpointStops == Spec => []StopsAtBreakpoint
<1>1. Init => Ending
  BY DEF Init, Ending
<1>2. Ending => StopsAtBreakpoint
  BY DEF Ending, StopsAtBreakpoint
<1>. QED  BY <1>1, <1>2, EndingStays, Always, FilesAlways, PTL DEF Spec
=============================================================================
