----------------------------- MODULE ProfileList -----------------------------
(***************************************************************************)
(* The list of profiles below the root (nalfs.c, "Profile's functions"):   *)
(* a doubly linked list of element_s that the user adds to, removes from,  *)
(* reorders and reloads, also while a backend executes the copy of it made *)
(* by fork() and names elements by profile and position.                   *)
(*                                                                         *)
(* A profile is flat: element 0 is the profile, the others its children.   *)
(* Execution has trees of any shape, and the other keys.                   *)
(***************************************************************************)
EXTENDS Naturals, Sequences, FiniteSets

CONSTANTS
    Files,          \* files that hold a profile
    Sizes,          \* Sizes[f]: how many elements f may be found to have
    Initial,        \* the files named on the command line
    Keys,           \* subset of {"a", "d", "r", "-", "+"}: what the user presses
    Repeat,         \* whether a file that is in the list is added again
    MaxNodes,       \* bound: profiles in memory
    MaxChanges,     \* bound: profiles added, removed, moved and reloaded
    MaxRuns         \* bound: runs

Unused == "unused"

ASSUME ListAssumption ==
    /\ Unused \notin Files
    /\ Sizes \in [Files -> SUBSET (Nat \ {0})]
    /\ \A f \in Files : Sizes[f] # {}
    /\ Initial \in Seq(Files) \ {<<>>}
    /\ Repeat \in BOOLEAN
    /\ MaxNodes \in Nat /\ Len(Initial) <= MaxNodes
    /\ MaxChanges \in Nat
    /\ MaxRuns \in Nat

VARIABLES
    \* the list
    first,          \* root_element->children
    nxt, prv,       \* the profiles' next and prev
    file,           \* name of the profile, or Unused: not allocated, or freed
    status,         \* status[p]: run statuses of p and its children, from 0
    should_run,     \* profiles scheduled
    \* the frontend
    current_running,
    confirming,     \* profile that 'd' asks about
    crashed,        \* it has followed a pointer to no element
    \* the backend
    Backend_exists, ok, todo, to_front,
    \* history
    runs, changes,
    heir,           \* what has become of the profiles there were at fork()
    reloaded        \* profiles of those that were reloaded

list_vars == <<first, nxt, prv, file, status>>
run_vars  == <<Backend_exists, ok, todo, to_front, runs, heir, reloaded>>
vars == <<list_vars, should_run, current_running, confirming, crashed, changes, run_vars>>

Node   == 1 .. MaxNodes
NULL   == 0
Root   == <<NULL, 0>>
RunStatus == {"FAILED", "RUNNING", "SOME_DONE", "DONE", "NONE"}

Listed == {p \in Node : file[p] # Unused}
Elements(p) == DOMAIN status[p]

\* The list from p on, as the pointers give it; n bounds the walk.
Following[n \in 0 .. MaxNodes] ==
    [p \in 0 .. MaxNodes |->
        IF n = 0 \/ p = NULL THEN <<>> ELSE <<p>> \o Following[n - 1][nxt[p]]]
Chain == Following[MaxNodes][first]

\* A freed profile may be had again by malloc(), unless something points to it.
FreeNodes == {p \in Node : file[p] = Unused /\ p # current_running[1]}
NewNode   == CHOOSE p \in FreeNodes : TRUE

New(size) == [i \in 0 .. size - 1 |-> "NONE"]

Init ==
    /\ first = 1
    /\ nxt = [p \in Node |-> IF p < Len(Initial) THEN p + 1 ELSE NULL]
    /\ prv = [p \in Node |-> IF p <= Len(Initial) THEN p - 1 ELSE NULL]
    /\ file = [p \in Node |-> IF p <= Len(Initial) THEN Initial[p] ELSE Unused]
    /\ \E sizes \in [1 .. Len(Initial) -> UNION {Sizes[f] : f \in Files}] :
         /\ \A p \in DOMAIN sizes : sizes[p] \in Sizes[Initial[p]]
         /\ status = [p \in Node |-> New(IF p <= Len(Initial) THEN sizes[p] ELSE 1)]
    /\ should_run = {}
    /\ current_running = Root
    /\ confirming = NULL
    /\ crashed = FALSE
    /\ Backend_exists = FALSE
    /\ ok = TRUE
    /\ todo = <<>>
    /\ to_front = <<>>
    /\ runs = 0
    /\ changes = 0
    /\ heir = [p \in Node |-> NULL]
    /\ reloaded = {}

-----------------------------------------------------------------------------
(***************************************************************************)
(* The keys.  get_key() returns one when nothing asks for confirmation;    *)
(* p is the profile of the element under the cursor.                       *)
(***************************************************************************)

\* Slip: the question does not hold other keys up.
pressed_meanwhile(k) == k \in Keys /\ ~crashed

Pressed(k) == k \in Keys /\ ~crashed /\ confirming = NULL

One_more == changes < MaxChanges /\ changes' = changes + 1

\* do_add_profile(): at the end.  A directory adds several, one by one.
add_profile ==
    /\ Pressed("a")
    /\ One_more
    /\ ~Backend_exists
    /\ FreeNodes # {}
    /\ \E f \in Files :
         /\ Repeat \/ \A p \in Listed : file[p] # f
         /\ \E s \in Sizes[f] : status' = [status EXCEPT ![NewNode] = New(s)]
         /\ file' = [file EXCEPT ![NewNode] = f]
    /\ LET last_profile == CHOOSE p \in Listed : nxt[p] = NULL
       IN  /\ nxt' = [nxt EXCEPT ![last_profile] = NewNode, ![NewNode] = NULL]
           /\ prv' = [prv EXCEPT ![NewNode] = last_profile]
    /\ UNCHANGED <<first, should_run, current_running, confirming, crashed, run_vars>>

\* Slip: neither profile is asked whether it is scheduled.
any_profile(p) == p # first \/ nxt[p] # NULL

\* What 'd' insists on before it asks.
may_be_removed(p) ==
    /\ p \notin should_run
    /\ nxt[first] # NULL

\* 'd', up to the question.
confirm_removal(p) ==
    /\ Pressed("d")
    /\ may_be_removed(p)
    /\ changes < MaxChanges
    /\ confirming' = p
    /\ UNCHANGED <<list_vars, should_run, current_running, crashed, changes, run_vars>>

\* Slip: the first profile has no prev to be told of it.
first_stays(p) == first

first_without(p) == IF prv[p] = NULL THEN nxt[p] ELSE first

\* The answer is no.
abort_removal ==
    /\ ~crashed
    /\ confirming # NULL
    /\ confirming' = NULL
    /\ UNCHANGED <<list_vars, should_run, current_running, crashed, changes, run_vars>>

\* remove_profile(): the answer is yes.
remove_profile ==
    /\ ~crashed
    /\ confirming # NULL
    /\ One_more
    /\ LET p == confirming
       IN  /\ first' = first_without(p)
           /\ nxt' = IF prv[p] # NULL THEN [nxt EXCEPT ![prv[p]] = nxt[p]] ELSE nxt
           /\ prv' = IF nxt[p] # NULL THEN [prv EXCEPT ![nxt[p]] = prv[p]] ELSE prv
           /\ file' = [file EXCEPT ![p] = Unused]
           /\ heir' = [q \in Node |-> IF heir[q] = p THEN NULL ELSE heir[q]]
    /\ confirming' = NULL
    /\ UNCHANGED <<status, should_run, current_running, crashed, Backend_exists, ok,
                   todo, to_front, runs, reloaded>>

\* reload_profile(): the file is parsed again and takes the place of the old one.
reload_profile(old) ==
    /\ Pressed("r")
    /\ One_more
    /\ ~(Backend_exists /\ current_running[1] = old)
    /\ FreeNodes # {}
    /\ \E s \in Sizes[file[old]] : status' = [status EXCEPT ![NewNode] = New(s)]
    /\ file' = [file EXCEPT ![NewNode] = file[old], ![old] = Unused]
    /\ first' = IF prv[old] = NULL THEN NewNode ELSE first
    /\ nxt' = [p \in Node |-> IF p = prv[old] THEN NewNode
                              ELSE IF p = NewNode THEN nxt[old] ELSE nxt[p]]
    /\ prv' = [p \in Node |-> IF p = nxt[old] THEN NewNode
                              ELSE IF p = NewNode THEN prv[old] ELSE prv[p]]
    /\ should_run' = should_run \ {old}
    /\ heir' = [q \in Node |-> IF heir[q] = old THEN NewNode ELSE heir[q]]
    /\ reloaded' = reloaded \cup {q \in Node : heir[q] = old}
    /\ UNCHANGED <<current_running, confirming, crashed, Backend_exists, ok, todo,
                   to_front, runs>>

move_profile_up(p) ==
    /\ Pressed("-")
    /\ One_more
    /\ prv[p] # NULL
    /\ LET pp == prv[prv[p]]
           q  == prv[p]
           n  == nxt[p]
       IN  /\ first' = IF pp = NULL THEN p ELSE first
           /\ nxt' = [x \in Node |-> CASE x = p  -> q
                                       [] x = pp -> p
                                       [] x = q  -> n
                                       [] OTHER  -> nxt[x]]
           /\ prv' = [x \in Node |-> CASE x = p -> pp
                                       [] x = q -> p
                                       [] x = n -> q
                                       [] OTHER -> prv[x]]
    /\ UNCHANGED <<file, status, should_run, current_running, confirming, crashed,
                   run_vars>>

\* Slip: the profile after the two is forgotten.
after_next(nn) == NULL

after_both(nn) == nn

move_profile_down(p) ==
    /\ Pressed("+")
    /\ One_more
    /\ nxt[p] # NULL
    /\ LET q  == prv[p]
           n  == nxt[p]
           nn == nxt[nxt[p]]
       IN  /\ first' = IF q = NULL THEN n ELSE first
           /\ nxt' = [x \in Node |-> CASE x = p -> nn
                                       [] x = q -> n
                                       [] x = n -> p
                                       [] OTHER -> nxt[x]]
           /\ prv' = [x \in Node |-> CASE x = p -> n
                                       [] x = n -> q
                                       [] x = after_both(nn) -> p
                                       [] OTHER -> prv[x]]
    /\ UNCHANGED <<file, status, should_run, current_running, confirming, crashed,
                   run_vars>>

-----------------------------------------------------------------------------
(***************************************************************************)
(* A run of whole profiles.                                                *)
(***************************************************************************)

\* "profile_name element_name element_id"; node is history.
Message(t, p, i) == [type |-> t, profile |-> file[p], id |-> i, node |-> p]

\* What do_execute_element() says of profile p and its children.
said_of(p) ==
    <<Message("STARTED", p, 0)>>
    \o [k \in 1 .. 2 * (Cardinality(Elements(p)) - 1) |->
          Message(IF k % 2 = 1 THEN "STARTED" ELSE "ENDED", p, (k + 1) \div 2)]
    \o <<Message("ENDED", p, 0)>>

\* execute_children(): the profiles scheduled, in the order of the list.
said_by(scheduled) ==
    LET said[n \in 0 .. MaxNodes] ==
          [p \in 0 .. MaxNodes |->
              IF n = 0 \/ p = NULL THEN <<>>
              ELSE (IF p \in scheduled THEN said_of(p) ELSE <<>>) \o said[n - 1][nxt[p]]]
    IN  said[MaxNodes][first]

\* start_executing_marked(), and fork().
start_executing_marked(marked) ==
    /\ ~crashed
    /\ confirming = NULL
    /\ ~Backend_exists
    /\ runs < MaxRuns
    /\ marked # {}
    /\ should_run' = should_run \cup marked
    /\ status' = [p \in Node |-> IF p \in marked THEN [i \in Elements(p) |-> "NONE"]
                                 ELSE status[p]]
    /\ current_running' = Root
    /\ Backend_exists' = TRUE
    /\ ok' = TRUE
    /\ todo' = said_by(should_run \cup marked)
    /\ to_front' = <<>>
    /\ runs' = runs + 1
    /\ heir' = [p \in Node |-> IF p \in Listed THEN p ELSE NULL]
    /\ reloaded' = {}
    /\ UNCHANGED <<first, nxt, prv, file, confirming, crashed, changes>>

\* The backend goes on.
do_execute_element ==
    /\ todo # <<>>
    /\ to_front' = Append(to_front, Head(todo))
    /\ todo' = Tail(todo)
    /\ UNCHANGED <<list_vars, should_run, current_running, confirming, crashed,
                   changes, Backend_exists, ok, runs, heir, reloaded>>

\* The action it executes fails, and the profile with it.
fail ==
    /\ todo # <<>>
    /\ LET msg == Head(todo)
           failed == [msg EXCEPT !.type = "FAILED"]
       IN  /\ msg.type = "ENDED"
           /\ msg.id # 0
           /\ to_front' = Append(to_front, failed)
           /\ todo' = <<[failed EXCEPT !.id = 0]>>
    /\ ok' = FALSE
    /\ UNCHANGED <<list_vars, should_run, current_running, confirming, crashed,
                   changes, Backend_exists, runs, heir, reloaded>>

\* A stop, or a fatal error.
stop_ourselves ==
    /\ todo # <<>>
    /\ todo' = <<>>
    /\ ok' = FALSE
    /\ UNCHANGED <<list_vars, should_run, current_running, confirming, crashed,
                   changes, Backend_exists, to_front, runs, heir, reloaded>>

-----------------------------------------------------------------------------
(***************************************************************************)
(* The frontend reads what the backend says.                               *)
(***************************************************************************)

\* Elements in document order from profile p on: get_next_element() goes on
\* with the next profile.
elements_from[n \in 0 .. MaxNodes] ==
    [p \in 0 .. MaxNodes |->
        IF n = 0 \/ p = NULL THEN <<>>
        ELSE [i \in 1 .. Cardinality(Elements(p)) |-> <<p, i - 1>>]
             \o elements_from[n - 1][nxt[p]]]

\* get_profile_by_name(): the first one.
get_profile_by_name(f) ==
    LET list  == Chain
        named == {i \in DOMAIN list : file[list[i]] = f}
    IN  IF named = {} THEN NULL ELSE list[CHOOSE i \in named : \A j \in named : i <= j]

\* Slip: positions counted from 1.
position(i) == i

place(i) == i + 1

find_element_by_key(msg) ==
    LET els == elements_from[MaxNodes][get_profile_by_name(msg.profile)]
    IN  IF place(msg.id) \in DOMAIN els THEN els[place(msg.id)] ELSE Root

\* get_element_status() of an element of profile p.
get_element_status(p, i) ==
    LET some(s) == \E c \in Elements(p) \ {0} : status[p][c] = s
    IN  IF i > 0 \/ Elements(p) = {0} THEN "DONE"
        ELSE IF some("RUNNING")  THEN "RUNNING"
        ELSE IF some("FAILED")   THEN "FAILED"
        ELSE IF ~some("NONE") /\ ~some("SOME_DONE") THEN "DONE"
        ELSE IF some("DONE") \/ some("SOME_DONE")   THEN "SOME_DONE"
        ELSE "NONE"

set_run_status(e, s) == status' = [status EXCEPT ![e[1]][e[2]] = s]

\* Slip: parents are left as they are.
only_itself(e) == [status EXCEPT ![e[1]][e[2]] = "FAILED"]

change_run_status_to_failed(e) ==
    [status EXCEPT ![e[1]][e[2]] = "FAILED", ![e[1]][0] = "FAILED"]

\* handle_ctrl_msg(), one message; set_run_status() follows the pointer found.
handle_ctrl_msg ==
    /\ ~crashed
    /\ Backend_exists
    /\ to_front # <<>>
    /\ to_front' = Tail(to_front)
    /\ LET msg == Head(to_front)
           el  == find_element_by_key(msg)
       IN  \/ /\ el = Root
              /\ crashed' = TRUE
              /\ UNCHANGED <<status, current_running>>
           \/ /\ el # Root
              /\ msg.type = "STARTED"
              /\ current_running' = el
              /\ set_run_status(el, "RUNNING")
              /\ UNCHANGED crashed
           \/ /\ el # Root
              /\ msg.type = "ENDED"
              /\ set_run_status(el, get_element_status(el[1], el[2]))
              /\ UNCHANGED <<crashed, current_running>>
           \/ /\ el # Root
              /\ msg.type = "FAILED"
              /\ set_run_status(el, "FAILED")
              /\ UNCHANGED <<crashed, current_running>>
    /\ UNCHANGED <<first, nxt, prv, file, should_run, confirming, Backend_exists, ok,
                   todo, runs, changes, heir, reloaded>>

\* get_key() when the backend has died: wait_for_the_backend() and
\* clear_should_run_marks().  What it returns is not the 'y' waited for.
wait_for_the_backend ==
    /\ ~crashed
    /\ Backend_exists
    /\ todo = <<>>
    /\ to_front = <<>>
    /\ LET p == current_running[1]
       IN  \/ /\ ok \/ p = NULL
              /\ UNCHANGED <<status, crashed>>
           \/ /\ ~ok /\ p # NULL
              /\ file[p] = Unused
              /\ crashed' = TRUE
              /\ UNCHANGED status
           \/ /\ ~ok /\ p # NULL
              /\ file[p] # Unused
              /\ status' = change_run_status_to_failed(current_running)
              /\ UNCHANGED crashed
    /\ Backend_exists' = FALSE
    /\ should_run' = {}
    /\ confirming' = NULL
    /\ UNCHANGED <<first, nxt, prv, file, current_running, ok, todo, to_front, runs,
                   changes, heir, reloaded>>

Next ==
    \/ add_profile
    \/ abort_removal
    \/ remove_profile
    \/ \E p \in Listed : confirm_removal(p)
    \/ \E p \in Listed : reload_profile(p)
    \/ \E p \in Listed : move_profile_up(p)
    \/ \E p \in Listed : move_profile_down(p)
    \/ \E marked \in SUBSET Listed : start_executing_marked(marked)
    \/ do_execute_element
    \/ fail
    \/ stop_ourselves
    \/ handle_ctrl_msg
    \/ wait_for_the_backend

Spec == Init /\ [][Next]_vars

-----------------------------------------------------------------------------
(***************************************************************************)
(* Properties.                                                             *)
(***************************************************************************)
MessageType == [type : {"STARTED", "ENDED", "FAILED"}, profile : Files, id : Nat,
                node : Node]

TypeOK ==
    /\ first \in Node
    /\ nxt \in [Node -> Node \cup {NULL}]
    /\ prv \in [Node -> Node \cup {NULL}]
    /\ file \in [Node -> Files \cup {Unused}]
    /\ \A p \in Node : \E n \in (UNION {Sizes[f] : f \in Files}) \cup {1} :
          status[p] \in [0 .. n - 1 -> RunStatus]
    /\ should_run \subseteq Listed
    /\ current_running[1] \in Node \cup {NULL}
    /\ confirming \in Listed \cup {NULL}
    /\ crashed \in BOOLEAN
    /\ Backend_exists \in BOOLEAN
    /\ ok \in BOOLEAN
    /\ todo \in Seq(MessageType)
    /\ to_front \in Seq(MessageType)
    /\ runs \in 0 .. MaxRuns
    /\ changes \in 0 .. MaxChanges
    /\ heir \in [Node -> Node \cup {NULL}]
    /\ reloaded \subseteq Node

\* Next and prev of the profiles in memory belong together, the first is the only
\* one without a prev, and none points to a freed one: what every removal, move
\* and reload has to repair in up to three neighbours.
LinksAgree ==
    /\ first \in Listed
    /\ \A p \in Listed :
          /\ nxt[p] # NULL => nxt[p] \in Listed /\ prv[nxt[p]] = p
          /\ prv[p] # NULL => prv[p] \in Listed /\ nxt[prv[p]] = p
          /\ prv[p] = NULL <=> p = first

\* What the user sees of the list.
FilesShown == [i \in DOMAIN Chain |-> file[Chain[i]]]
Order == INSTANCE ProfileOrder WITH order <- FilesShown

\* The pointers implement the list the user sees: whatever was added, removed,
\* moved and reloaded, following next from the first profile passes the profiles
\* in the order the user has given them (remove_profile, reload_profile,
\* move_profile_up, move_profile_down).
ShowsOrder == Order!Spec

\* A message that is still to come names the element the backend is at, whatever
\* is moved, added and removed around it, or the one at the same place of the
\* profile that was reloaded in its stead; only a reloaded profile can be removed
\* while the backend has something to say about it.
KeysResolve ==
    \A msg \in {todo[i] : i \in DOMAIN todo} \cup {to_front[i] : i \in DOMAIN to_front} :
        IF heir[msg.node] = NULL THEN msg.node \in reloaded
        ELSE find_element_by_key(msg) = <<heir[msg.node], msg.id>>

\* No run leaves an element marked as running, not even one whose profile was
\* reloaded while another was executed.
NoneRunningWhenStopped ==
    ~Backend_exists /\ ~crashed =>
        \A p \in Listed : \A i \in Elements(p) : status[p][i] # "RUNNING"

\* "Can't remove profile scheduled to run" (nalfs.c:4146): what the backend has
\* still to execute stays in the list.  Broken by reloading it first.
ScheduledStay ==
    \A i \in DOMAIN todo : heir[todo[i].node] # NULL

\* The frontend finds an element for every message.
NeverCrashes == ~crashed
=============================================================================
