----------------------------- MODULE Dependencies -----------------------------
(***************************************************************************)
(* The order in which jhalfs builds packages of the BLFS book              *)
(* (BLFS/libs/func_dependencies).  generate_subgraph() follows the edges   *)
(* from the packages asked for; clean_subgraph() removes those that lead   *)
(* out of the graph and makes groups of packages with what they need when  *)
(* they run; generate_dependency_tree() makes a tree of it, cuts cycles on *)
(* the way, and keeps all it decides in files that it reads and rewrites   *)
(* at the same time; tree_browse() lists the tree.                         *)
(*                                                                         *)
(* Edges are before ("b") or after ("a"); the first ones ("f"), which have *)
(* a package built twice, are left out.                                    *)
(***************************************************************************)
EXTENDS Naturals, Sequences, FiniteSets, SequencesExt

CONSTANTS
    Packages,       \* packages of the book
    Books,          \* Books[x]: what dependencies the book may list for x
    Requests,       \* what the user may ask for: sequences of packages
    Levels,         \* what DEP_LEVEL may be
    Alphabet,       \* the packages in the order of their names
    Matches         \* Matches[x]: the packages whose names contain x, not at the end

\* A package that needs others when it runs has a file of its own and one for
\* the group of all of them.
root == <<"root">>
group(x) == <<x, "groupxx">>
Groups == {group(x) : x \in Packages}
Node == Packages \cup Groups \cup {root}
Priority == 1 .. 3
Line == [prio : Priority, build : {"a", "b"}, id : Packages \cup Groups]
Before(prio, x) == [prio |-> prio, build |-> "b", id |-> x]

ASSUME BooksAssumption ==
    /\ IsFiniteSet(Packages) /\ Packages \cap (Groups \cup {root}) = {}
    /\ Books \in [Packages -> SUBSET Seq([prio : Priority, build : {"a", "b"}, id : Packages])]
    /\ \A x \in Packages : Books[x] # {}
    /\ Requests \subseteq Seq(Packages) \ {<<>>}
    /\ Levels \subseteq 1 .. 4
    /\ Alphabet \in Seq(Packages) /\ IsInjective(Alphabet) /\ Len(Alphabet) = Cardinality(Packages)
    /\ Matches \in [Packages -> SUBSET Packages]
    /\ \A x \in Packages : x \in Matches[x]

VARIABLES
    packages,       \* packages.xml, as far as it has been looked at
    DEP_LEVEL,
    dep,            \* the files <node>.dep
    tree,           \* the files <node>.tree
    stack,          \* active calls, the innermost last
    returned,       \* what a call has returned to its caller, if not 0
    parentNode,     \* the names that grep has found for it
    pc,
    \* history
    lost,           \* dependencies that could not be moved
    moved           \* how many were put off

history == <<lost, moved>>
vars == <<packages, DEP_LEVEL, dep, tree, stack, returned, parentNode, pc, history>>

NoFile == [exists |-> FALSE]
File(lines) == [exists |-> TRUE, lines |-> lines]

\* A tree begins with its link, the way to it by positions, and with the
\* priorities on that way; a leaf has a link only.
Tree(link, priolink, lines) ==
    [exists |-> TRUE, link |-> link, priolink |-> priolink, lines |-> lines]

\* Slip: the depth is incremented after the call.
Frame_of_caller(node, depth) == [node |-> node, depth |-> depth - 1, count |-> 0, remove |-> <<>>]

\* A call reads its file line by line.
Frame(node, depth) == [node |-> node, depth |-> depth, count |-> 0, remove |-> <<>>]

\* generate_deps()
Init ==
    /\ packages = [x \in Packages |-> NoFile]
    /\ DEP_LEVEL \in Levels
    /\ \E request \in Requests :
           dep = [x \in Node |->
                     IF x = root
                     THEN File([i \in DOMAIN request |-> Before(1, request[i])])
                     ELSE NoFile]
    /\ tree = [x \in Node |-> NoFile]
    /\ stack = <<Frame(root, 1)>>
    /\ returned = 0 /\ parentNode = {}
    /\ pc = "subgraph" /\ lost = {} /\ moved = 0

call   == stack[Len(stack)]
caller == Front(stack)

(***************************************************************************)
(* generate_subgraph                                                       *)
(***************************************************************************)

\* Optional dependencies of requested packages only, at level 3.
dep_level(depth) ==
    CASE DEP_LEVEL = 3 /\ depth > 2 -> 2
      [] DEP_LEVEL > 3 -> 3
      [] OTHER -> DEP_LEVEL

\* Slip: what has a file is never followed again.
seen_once(x, depth) == dep[x].exists

\* Seen below another package, a requested one has to be followed again.
seen(x, depth) == dep[x].exists /\ ~(depth = 2 /\ DEP_LEVEL = 3)

next_line == call.count + 1
read == [stack EXCEPT ![Len(stack)].count = next_line]

\* What xsltproc finds in the book: the same whenever it looks.
listed(x) == IF packages[x].exists THEN {packages[x].lines} ELSE Books[x]

follow ==
    /\ pc = "subgraph" /\ next_line <= Len(dep[call.node].lines)
    /\ LET line  == dep[call.node].lines[next_line]
           depth == call.depth + 1
       IN  IF seen(line.id, depth) \/ line.prio > dep_level(call.depth)
           THEN stack' = read /\ UNCHANGED <<packages, dep>>
           ELSE \E list \in listed(line.id) :
                    /\ packages' = [packages EXCEPT ![line.id] = File(list)]
                    /\ dep' = [dep EXCEPT ![line.id] = File(list)]
                    /\ stack' = IF list = <<>> THEN read ELSE Append(read, Frame(line.id, depth))
    /\ UNCHANGED <<DEP_LEVEL, tree, returned, parentNode, pc, history>>

followed ==
    /\ pc = "subgraph" /\ next_line > Len(dep[call.node].lines)
    /\ stack' = caller
    /\ pc' = IF caller = <<>> THEN "clean" ELSE pc
    /\ UNCHANGED <<packages, DEP_LEVEL, dep, tree, returned, parentNode, history>>

(***************************************************************************)
(* clean_subgraph                                                          *)
(***************************************************************************)

\* The elements of a sequence that are in a set.
only(elements, those) ==
    LET kept[n \in 0 .. Len(elements)] ==
            IF n = 0 THEN <<>>
            ELSE IF elements[n] \in those THEN Append(kept[n - 1], elements[n])
            ELSE kept[n - 1]
    IN  kept[Len(elements)]

\* grep x and sed "/x/d": every name that contains x
named_like(x) ==
    IF x \in Packages THEN Matches[x] \cup {group(y) : y \in Matches[x]} ELSE {x}

without_dangling(files) ==
    [x \in Node |->
        IF files[x].exists /\ x # root
        THEN File(only(files[x].lines, {line \in ToSet(files[x].lines) : files[line.id].exists}))
        ELSE files[x]]

below(files, x) == IF files[x].exists THEN {line.id : line \in ToSet(files[x].lines)} ELSE {}

\* path_to(): what can be reached from x
on_paths(files, x) ==
    LET reached[n \in 0 .. Cardinality(Node)] ==
            {x} \cup IF n = 0 THEN {} ELSE UNION {below(files, y) : y \in reached[n - 1]}
    IN  reached[Cardinality(Node)]

at_runtime(files, x) == only(files[x].lines, {line \in ToSet(files[x].lines) : line.build = "a"})

above(files, x) == {y \in Node : x \in below(files, y)}

\* Slip: the way is looked for in the other direction.
parents_inside(files, x) ==
    {y \in above(files, x) : \A line \in ToSet(at_runtime(files, x)) :
                                 line.id \notin on_paths(files, y)}

\* Parents of x that get the group: none of what x needs at run time needs them.
parents_outside(files, x) ==
    {y \in above(files, x) : \A line \in ToSet(at_runtime(files, x)) :
                                 y \notin on_paths(files, line.id)}

\* The file of a group, with a line for each of what it is to hold, unless grep
\* finds the name in it.
group_lines(x, after) ==
    LET added[n \in 0 .. Len(after)] ==
            IF n = 0 THEN <<Before(1, x)>>
            ELSE IF \E l \in ToSet(added[n - 1]) : l.id \in named_like(after[n].id)
            THEN added[n - 1]
            ELSE Append(added[n - 1], Before(after[n].prio, after[n].id))
    IN  added[Len(after)]

\* The group of x takes the place of x below its parents, and comes below the
\* root if it has none of them.
with_group(files, x) ==
    LET after   == at_runtime(files, x)
        parents == parents_outside(files, x)
        gone    == {line.id : line \in ToSet(after)}
        moved_to(line) == IF line.id = x THEN [line EXCEPT !.id = group(x)] ELSE line
        lines(y) == IF y \in parents
                    THEN [i \in DOMAIN files[y].lines |-> moved_to(files[y].lines[i])]
                    ELSE files[y].lines
    IN  [y \in Node |->
            IF y = group(x) THEN File(group_lines(x, after))
            ELSE IF y = x
            THEN File(only(lines(x), {line \in ToSet(lines(x)) : line.id \notin gone}))
            ELSE IF y = root /\ parents = {}
            THEN File(Append(files[root].lines, Before(1, group(x))))
            ELSE IF y \in parents THEN File(lines(y))
            ELSE files[y]]

clean_subgraph ==
    /\ pc = "clean"
    /\ dep' = without_dangling(dep) /\ pc' = "groups"
    /\ UNCHANGED <<packages, DEP_LEVEL, tree, stack, returned, parentNode, history>>

\* The packages that grep ' a ' lists and that are still to come, by their
\* places in the list.
with_runtime ==
    {i \in DOMAIN Alphabet : dep[Alphabet[i]].exists /\ at_runtime(dep, Alphabet[i]) # <<>>}

make_group ==
    /\ pc = "groups"
    /\ \E i \in with_runtime :
           /\ \A j \in with_runtime : i <= j
           /\ dep' = with_group(dep, Alphabet[i])
    /\ UNCHANGED <<packages, DEP_LEVEL, tree, stack, returned, parentNode, pc, history>>

\* The root of the tree.
cleaned ==
    /\ pc = "groups" /\ with_runtime = {}
    /\ tree' = [tree EXCEPT ![root] = Tree(<<1>>, <<1>>, dep[root].lines)]
    /\ stack' = <<Frame(root, 1)>> /\ pc' = "tree"
    /\ UNCHANGED <<packages, DEP_LEVEL, dep, returned, parentNode, history>>

(***************************************************************************)
(* generate_dependency_tree                                                *)
(***************************************************************************)
here == tree[call.node]
reading == pc = "tree" /\ returned = 0 /\ next_line <= Len(here.lines)
line_read == here.lines[next_line]

circular(x) == tree[x].exists /\ IsPrefix(tree[x].link, here.link)

\* Slip: the way begins one file further down.
weakest_further_down(x) ==
    LET way == Len(tree[x].link) + 2 .. Len(here.link)
    IN  IF way = {} THEN 0
        ELSE CHOOSE p \in Priority : /\ \E i \in way : here.priolink[i] = p
                                     /\ \A i \in way : here.priolink[i] <= p

\* The weakest link of the way from x down to this file.
weakest(x) ==
    LET way == Len(tree[x].link) + 1 .. Len(here.link)
    IN  IF way = {} THEN 0
        ELSE CHOOSE p \in Priority : /\ \E i \in way : here.priolink[i] = p
                                     /\ \A i \in way : here.priolink[i] <= p

without(lines, x) == only(lines, {line \in ToSet(lines) : line.id \notin named_like(x)})

\* grep ^link$ -l *: the trees with that link, and those with the same numbers
\* for priorities.
trees_with(link) ==
    {x \in Node : tree[x].exists /\ (tree[x].link = link \/ tree[x].priolink = link)}

flagged(x) == [read EXCEPT ![Len(stack)].remove = Append(@, x)]

\* The dependency closes a cycle and is its weakest edge.
prune ==
    /\ reading /\ circular(line_read.id) /\ line_read.prio >= weakest(line_read.id)
    /\ stack' = flagged(line_read.id)
    /\ dep' = [dep EXCEPT ![call.node].lines = without(@, line_read.id)]
    /\ UNCHANGED <<packages, DEP_LEVEL, tree, returned, parentNode, pc, history>>

\* The weakest edge is further up: go back to it.
back_up ==
    /\ reading /\ circular(line_read.id) /\ line_read.prio < weakest(line_read.id)
    /\ parentNode' = trees_with(Front(tree[line_read.id].link))
    /\ returned' = weakest(line_read.id)
    /\ stack' = caller
    /\ UNCHANGED <<packages, DEP_LEVEL, dep, tree, pc, history>>

\* Slip: the line stays in the tree.
kept_there ==
    /\ reading /\ tree[line_read.id].exists /\ ~circular(line_read.id)
    /\ stack' = read
    /\ UNCHANGED <<packages, DEP_LEVEL, dep, tree, returned, parentNode, pc, history>>

\* Its tree is elsewhere.  The edge stays in the graph: that tree may be erased
\* and built again in another order.
already_there ==
    /\ reading /\ tree[line_read.id].exists /\ ~circular(line_read.id)
    /\ stack' = flagged(line_read.id)
    /\ UNCHANGED <<packages, DEP_LEVEL, dep, tree, returned, parentNode, pc, history>>

\* Slip: the place is the length of the file.
descend_at_end ==
    /\ reading /\ ~tree[line_read.id].exists
    /\ LET x    == line_read.id
           link == Append(here.link, Len(here.lines))
       IN  IF dep[x].lines = <<>>
           THEN /\ tree' = [tree EXCEPT ![x] = Tree(link, <<>>, <<>>)]
                /\ stack' = read
           ELSE /\ tree' = [tree EXCEPT ![x] =
                               Tree(link, Append(here.priolink, line_read.prio), dep[x].lines)]
                /\ stack' = Append(read, Frame(x, call.depth + 1))
    /\ UNCHANGED <<packages, DEP_LEVEL, dep, returned, parentNode, pc, history>>

\* Its place in the tree is the number of the line.
descend ==
    /\ reading /\ ~tree[line_read.id].exists
    /\ LET x    == line_read.id
           link == Append(here.link, next_line)
       IN  IF dep[x].lines = <<>>
           THEN /\ tree' = [tree EXCEPT ![x] = Tree(link, <<>>, <<>>)]
                /\ stack' = read
           ELSE /\ tree' = [tree EXCEPT ![x] =
                               Tree(link, Append(here.priolink, line_read.prio), dep[x].lines)]
                /\ stack' = Append(read, Frame(x, call.depth + 1))
    /\ UNCHANGED <<packages, DEP_LEVEL, dep, returned, parentNode, pc, history>>

\* Slip: all lines for x go.
without_all(lines, x) == only(lines, {line \in ToSet(lines) : line.id # x})

\* The last line for x goes.  Without one the address of sed is empty, and the
\* whole file is deleted, its link too; that does not occur, as each name that
\* is flagged has a line of its own (Counted in DependenciesProofs).
without_last(lines, x) ==
    LET at == {i \in DOMAIN lines : lines[i].id = x}
    IN  IF at = {} THEN <<>> ELSE RemoveAt(lines, CHOOSE i \in at : \A j \in at : j <= i)

\* For each of the names that were flagged.
without_flagged(lines, remove) ==
    LET left[n \in 0 .. Len(remove)] ==
            IF n = 0 THEN lines ELSE without_last(left[n - 1], remove[n])
    IN  left[Len(remove)]

\* It returns 0, and the caller goes on.
end_of_file ==
    /\ pc = "tree" /\ returned = 0 /\ next_line > Len(here.lines)
    /\ tree' = [tree EXCEPT ![call.node].lines = without_flagged(@, call.remove)]
    /\ pc' = IF caller = <<>> THEN "done" ELSE pc
    /\ stack' = caller
    /\ UNCHANGED <<packages, DEP_LEVEL, dep, returned, parentNode, history>>

(***************************************************************************)
(* Back in the caller, whose line has been read.                           *)
(***************************************************************************)
line_called == here.lines[call.count]

\* tree_erase(): the subtree by its files, as far as they lie below each other.
Below(x) ==
    {here_below.id : here_below \in
        {line \in ToSet(tree[x].lines) :
            tree[line.id].exists /\ IsStrictPrefix(tree[x].link, tree[line.id].link)}}

Erased(x) ==
    LET reached[n \in 0 .. Cardinality(Node)] ==
            {x} \cup IF n = 0 THEN {} ELSE UNION {Below(y) : y \in reached[n - 1]}
    IN  reached[Cardinality(Node)]

\* Slip: the subtree is built again at once, with the edge still there.
rebuild_at_once ==
    /\ pc = "tree" /\ returned \in Priority /\ returned = line_called.prio
    /\ LET x == line_called.id
       IN  tree' = [y \in Node |-> IF y \in Erased(x) THEN NoFile ELSE tree[y]]
    /\ stack' = [stack EXCEPT ![Len(stack)].count = @ - 1]
    /\ returned' = 0
    /\ UNCHANGED <<packages, DEP_LEVEL, dep, parentNode, pc, history>>

\* This is the weakest edge: it goes, and the dependency is put off, to be a
\* dependency of the parent of the cycle.  With several names for the parent
\* the shell refuses to write.
put_off ==
    /\ pc = "tree" /\ returned \in Priority /\ returned = line_called.prio
    /\ LET x      == line_called.id
           kept   == [y \in Node |-> IF y \in Erased(x) THEN NoFile ELSE tree[y]]
           cut    == [dep EXCEPT ![call.node].lines = without(@, x)]
       IN  IF Cardinality(parentNode) = 1
           THEN LET parent == CHOOSE y \in parentNode : TRUE
                IN  /\ tree' = [kept EXCEPT ![parent].lines = Append(@, line_called)]
                    /\ dep' = [cut EXCEPT ![parent].lines = Append(@, line_called)]
                    /\ UNCHANGED lost
           ELSE /\ tree' = kept /\ dep' = cut
                /\ lost' = lost \cup {x}
    /\ stack' = [stack EXCEPT ![Len(stack)].remove = Append(@, line_called.id)]
    /\ returned' = 0 /\ moved' = moved + 1
    /\ UNCHANGED <<packages, DEP_LEVEL, parentNode, pc>>

return_further ==
    /\ pc = "tree" /\ returned \in Priority /\ returned # line_called.prio
    /\ stack' = caller
    /\ UNCHANGED <<packages, DEP_LEVEL, dep, tree, returned, parentNode, pc, history>>

Next ==
    \/ follow \/ followed \/ clean_subgraph \/ make_group \/ cleaned
    \/ prune \/ back_up \/ already_there \/ descend \/ end_of_file
    \/ put_off \/ return_further

Spec == Init /\ [][Next]_vars /\ WF_vars(Next)

\* Slip: what a file names, before what is below it.
named_before(lines, listings) ==
    LET part[i \in 0 .. Len(lines)] ==
            IF i = 0 THEN <<>> ELSE part[i - 1] \o <<lines[i].id>> \o listings[lines[i].id]
    IN  part[Len(lines)]

\* What a file names, after what is below it.
named(lines, listings) ==
    LET part[i \in 0 .. Len(lines)] ==
            IF i = 0 THEN <<>> ELSE part[i - 1] \o listings[lines[i].id] \o <<lines[i].id>>
    IN  part[Len(lines)]

\* tree_browse(); the number bounds the calls that are active.
tree_browse[n \in 0 .. Cardinality(Node)] ==
    IF n = 0 THEN [x \in Node |-> <<>>]
    ELSE LET listings == tree_browse[n - 1]
         IN  [x \in Node |-> IF tree[x].exists THEN named(tree[x].lines, listings) ELSE <<>>]
Listing == tree_browse[Cardinality(Node)][root]

-----------------------------------------------------------------------------
TypeOK ==
    /\ \A x \in Packages : packages[x].exists => packages[x].lines \in Books[x]
    /\ \A x \in Node : dep[x].exists => ToSet(dep[x].lines) \subseteq Line
    /\ \A x \in Node : tree[x].exists => ToSet(tree[x].lines) \subseteq Line
    /\ \A i \in DOMAIN stack : stack[i].node \in Node /\ stack[i].depth = i
    /\ (stack = <<>>) = (pc \in {"clean", "groups", "done"})
    /\ returned \in {0} \cup Priority
    /\ parentNode \subseteq Node /\ lost \subseteq Node /\ moved \in Nat
    /\ pc \in {"subgraph", "clean", "groups", "tree", "done"}

\* What a package depends on, in the book, as far as the level asks for it.
Wanted(x, level) ==
    IF ~packages[x].exists THEN {}
    ELSE {line.id : line \in {l \in ToSet(packages[x].lines) : l.prio <= level}}
Requested == {dep[root].lines[i].id : i \in DOMAIN dep[root].lines}

\* "optional ones, but only for the requested packages" (func_dependencies:92)
Needed(requested) ==
    LET level(x) == IF DEP_LEVEL = 4 THEN 3
                    ELSE IF DEP_LEVEL = 3 /\ x \notin requested THEN 2
                    ELSE DEP_LEVEL
        reached[n \in 0 .. Cardinality(Packages)] ==
            requested \cup
            IF n = 0 THEN {} ELSE UNION {Wanted(x, level(x)) : x \in reached[n - 1]}
    IN  reached[Cardinality(Packages)]

\* The graph has just the packages that are needed, in whatever order the
\* search meets them: one that is requested may have been met before, below
\* another one, where its optional dependencies did not count.
GraphIsWhole ==
    pc = "clean" => {x \in Packages : dep[x].exists} = Needed(Requested)

\* No two trees are at the same place: positions stay unique while lines are
\* added to files that are being read and subtrees are erased and built again
\* (func_dependencies:439).
LinksAreUnique ==
    \A x, y \in Node : tree[x].exists /\ tree[y].exists /\ tree[x].link = tree[y].link => x = y

\* The directory, when the tree is done: no file was ever removed from it.
Graph == {x \in Packages : dep[x].exists}

\* Groups are no packages of the book that is made from the list.
Built == only(Listing, Packages)

\* A package is never built twice.
NothingTwice == pc = "done" => IsInjective(Listing)

\* Everything in the graph is built, although dependencies are cut, put off
\* and rebuilt on the way, unless the shell could not write a dependency that
\* was put off.
ListedUnlessLost == pc = "done" /\ lost = {} => ToSet(Built) = Graph

\* What x depends on in the graph, to be built or to run, by edges up to a
\* priority, directly or not.
Depends(x, builds, prio) ==
    {y \in Graph : \E line \in ToSet(packages[x].lines) :
                      line.id = y /\ line.build \in builds /\ line.prio <= prio}
Reachable(x, prio) ==
    LET edges(y) == Depends(y, {"a", "b"}, prio)
        reached[n \in 0 .. Cardinality(Packages)] ==
            edges(x) \cup IF n = 0 THEN {} ELSE UNION {edges(y) : y \in reached[n - 1]}
    IN  reached[Cardinality(Packages)]

\* Only edges of a cycle may be cut: y comes before x, unless it needs x too.
InOrder(list, prio) ==
    \A i, j \in DOMAIN list :
        list[j] \in Depends(list[i], {"b"}, prio) /\ list[i] \notin Reachable(list[j], prio)
            => j < i

\* Packages come after what they depend on, also when a subtree has been
\* erased and built again at another place.  It holds while one dependency has
\* been put off.  The second time it may be the same package, put off to a
\* parent that has flagged its own line for it: the flag deletes the last line
\* of that name, the new one (func_dependencies:479), and the package stays
\* where it had to leave.
DependenciesFirst == pc = "done" /\ moved <= 1 => InOrder(Built, 3)

\* What is cut from a cycle is the weakest of its edges (func_dependencies:411),
\* if none has to be put off: no package comes before one that it requires for
\* the sake of a recommended or optional dependency, in any of the cycles that
\* go through the two.
WeakestEdgesCut == pc = "done" /\ moved = 0 => \A prio \in Priority : InOrder(Built, prio)

\* What a package needs to run is there when something is built that depends on
\* it, unless that is part of a cycle.
Ready(list) ==
    \A i, j \in DOMAIN list : \A x \in Depends(list[i], {"b"}, 3) :
        list[j] \in Depends(x, {"a"}, 3) /\ list[i] \notin Reachable(x, 3) => j < i

\* "C may need B to be able to use A" (func_dependencies:34): the groups keep B
\* together with A, whatever is cut and put off around them.
ReadyToRun == pc = "done" /\ moved <= 1 => Ready(Built)

\* The search and the cutting of cycles come to an end.
Terminates == <>(pc = "done")

-----------------------------------------------------------------------------
\* "If a package A in the reachable subgraph depends optionally on another
\* package B in the same subgraph, we want to build B before A"
\* (func_dependencies:27), and all the more if it requires B.  It does not
\* hold when a package is put off twice: see LateBook.
AllDependenciesFirst == pc = "done" => InOrder(Built, 3)

\* "If we want to build first dependency_0, we need to put dependency_n as a
\* dependency of parent" (func_dependencies:60): it is built there.
EverythingListed == pc = "done" => ToSet(Built) = Graph
=============================================================================
