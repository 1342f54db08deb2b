----------------------------- MODULE GraphScreen -----------------------------
(***************************************************************************)
(* The graph screen (GraphScreen in kexplore/tui/graph.py) between its     *)
(* keys and its pictures.  A key changes what is open, or the centre, and  *)
(* starts a thread that builds a picture of it; the picture is shown when  *)
(* the thread is done.  Keys act at once, on the picture that is on the    *)
(* screen, and no build knows whether a later one was started.             *)
(*                                                                         *)
(* A build is one step here (GraphWalk models the walk link by link), and  *)
(* the kernel's objects do not change.  Rows and columns are abstracted to *)
(* the column a box is in: which neighbour a move reaches is any.          *)
(***************************************************************************)
EXTENDS Integers, Sequences, FiniteSets, SequencesExt

CONSTANTS
    Keys,       \* the boxes there can be
    Kind,       \* Node.kind of each: "object", "fanout" or "more"
    Out,        \* the boxes its edges lead to, in the order of the links
    Centres,    \* bound: the objects g is pressed on
    None,
    MaxBuilds,  \* bound: builds under way at once
    MaxHistory, \* bound: centres the user goes back through
    BuildsFail  \* whether a build may raise

ASSUME KeysAssumption ==
    /\ IsFiniteSet(Keys)
    /\ Kind \in [Keys -> {"object", "fanout", "more"}]
    /\ Out \in [Keys -> Seq(Keys)]
    /\ Centres \subseteq Keys
    /\ \A o \in Centres : Kind[o] = "object"
    /\ None \notin Keys
    /\ \A k \in Keys : Kind[k] = "more" => Out[k] = <<>>
    /\ \A k \in Keys : Kind[k] = "fanout" =>     \* members are objects, or the rest
           \A i \in DOMAIN Out[k] : Kind[Out[k][i]] # "fanout"
    /\ MaxBuilds \in Nat /\ MaxHistory \in Nat
    /\ BuildsFail \in BOOLEAN

VARIABLES
    shown,      \* the screen is on the stack
    history,    \* GraphScreen.history: the centres, the current one last
    expanded,   \* GraphScreen.expanded
    builds,     \* the threads that have not delivered their picture
    graph,      \* GraphScreen.graph: the picture shown, or None
    selected,   \* GraphScreen.selected
    saved,      \* Explorer.graph_state
    hurried     \* history: a key was pressed while a build was under way

vars == <<shown, history, expanded, builds, graph, selected, saved, hurried>>

Root == Last(history)

---------------------------------------------------------------------------
\* A box that is drawn already is not drawn again (build: a back edge).
DrawOne(walk, box, from) ==
    IF box \in DOMAIN walk.parent THEN walk
    ELSE [parent   |-> [b \in DOMAIN walk.parent \cup {box} |->
                           IF b = box THEN from ELSE walk.parent[b]],
          frontier |-> IF Kind[box] = "object" THEN Append(walk.frontier, box)
                       ELSE walk.frontier]

DrawMembers(walk, fan) ==
    LET drawn[i \in 0..Len(Out[fan])] ==
            IF i = 0 THEN walk ELSE DrawOne(drawn[i - 1], Out[fan][i], fan)
    IN  drawn[Len(Out[fan])]

\* A link: its box, and right after the box of a collection that is open its
\* members.
DrawLink(walk, box, from, open) ==
    IF Kind[box] = "fanout" /\ box \in open
    THEN DrawMembers(DrawOne(walk, box, from), box)
    ELSE DrawOne(walk, box, from)

\* The links of k, in order
Follow(walk, k, open) ==
    LET followed[i \in 0..Len(Out[k])] ==
            IF i = 0 THEN walk ELSE DrawLink(followed[i - 1], Out[k][i], k, open)
    IN  followed[Len(Out[k])]

\* The next object of the frontier, passed over if its box is shut.
Visit(walk, open) ==
    IF walk.frontier = <<>> THEN walk
    ELSE LET k == Head(walk.frontier)
             rest == [walk EXCEPT !.frontier = Tail(walk.frontier)]
         IN  IF k \in open THEN Follow(rest, k, open) ELSE rest

\* build(obj, expanded): the boxes that are drawn and the box each hangs from
Build(root, open) ==
    LET walk[n \in 0..Cardinality(Keys)] ==
            IF n = 0 THEN [parent |-> [b \in {root} |-> None], frontier |-> <<root>>]
            ELSE Visit(walk[n - 1], open)
    IN  [root |-> root, parent |-> walk[Cardinality(Keys)].parent]

Boxes(g) == DOMAIN g.parent
Parent(g, k) == IF k \in Boxes(g) THEN g.parent[k] ELSE None
Children(g, k) == {b \in Boxes(g) : g.parent[b] = k}

\* The boxes on the way from k to the centre, k not among them.
PathToRoot(g, k) ==
    LET up[n \in 0..Cardinality(Keys)] ==
            IF n = 0 THEN {Parent(g, k)}
            ELSE up[n - 1] \cup {Parent(g, b) : b \in up[n - 1]}
    IN  up[Cardinality(Keys)] \ {None}

Under(g, k, ancestor) == ancestor \in PathToRoot(g, k)
Depth(g, k) == Cardinality(PathToRoot(g, k))

\* Whether this box has edges it could open.
Expandable(k) ==
    \/ Kind[k] = "fanout"
    \/ Kind[k] = "object" /\ Out[k] # <<>>

---------------------------------------------------------------------------
\* rebuild: a thread starts on the centre and the open boxes of this moment.
Rebuild(root, open, keep) ==
    builds' = Append(builds, [root |-> root, open |-> open, keep |-> keep])

\* A key reaches the screen while a picture is on it.
Pressed ==
    /\ shown /\ graph # None
    /\ Len(builds) < MaxBuilds
    /\ hurried' = (hurried \/ builds # <<>>)

OpenBox(k) ==
    /\ expanded' = expanded \cup {k}
    /\ Rebuild(Root, expanded \cup {k}, k)

\* Mistake: only the box itself is shut.
CollapseOne(k) ==
    /\ expanded' = expanded \ {k}
    /\ Rebuild(Root, expanded', k)

\* The box is shut and everything under it in the picture shown.
Collapse(k) ==
    /\ expanded' = {b \in expanded : ~ Under(graph, b, k)} \ {k}
    /\ Rebuild(Root, expanded', k)

\* action_move: right opens a box that is shut, left shuts one with children.
MoveRightOpens ==
    /\ Pressed
    /\ Expandable(selected) /\ selected \notin expanded
    /\ OpenBox(selected)
    /\ UNCHANGED <<shown, history, graph, selected, saved>>

MoveLeftShuts ==
    /\ Pressed
    /\ selected \in expanded /\ Children(graph, selected) # {}
    /\ Collapse(selected)
    /\ UNCHANGED <<shown, history, graph, selected, saved>>

MoveTo(k) ==
    /\ selected' = k
    /\ UNCHANGED <<shown, history, expanded, builds, graph, saved>>

MoveRight(k) ==
    /\ Pressed
    /\ ~ (Expandable(selected) /\ selected \notin expanded)
    /\ k \in Children(graph, selected)
    /\ MoveTo(k)

MoveLeft ==
    /\ Pressed
    /\ ~ (selected \in expanded /\ Children(graph, selected) # {})
    /\ Parent(graph, selected) # None
    /\ MoveTo(Parent(graph, selected))

\* up and down: the next box of the same column
MoveInColumn(k) ==
    /\ Pressed
    /\ k \in Boxes(graph) \ {selected}
    /\ Depth(graph, k) = Depth(graph, selected)
    /\ MoveTo(k)

\* enter
Toggle ==
    /\ Pressed
    /\ \/ selected \in expanded /\ Collapse(selected)
       \/ selected \notin expanded /\ Expandable(selected) /\ OpenBox(selected)
    /\ UNCHANGED <<shown, history, graph, selected, saved>>

\* Mistake: every other box is shut, those on the way to the centre too.
IsolateAll ==
    /\ Pressed
    /\ expanded' = expanded \cap {selected}
    /\ Rebuild(Root, expanded', selected)
    /\ UNCHANGED <<shown, history, graph, selected, saved>>

\* z: every branch is shut but the one the selected box is on.
Isolate ==
    /\ Pressed
    /\ expanded' = expanded \cap (PathToRoot(graph, selected) \cup {selected})
    /\ Rebuild(Root, expanded', selected)
    /\ UNCHANGED <<shown, history, graph, selected, saved>>

\* c on a struct: it is the centre, and the boxes that were open are not.
Recentre ==
    /\ Pressed
    /\ Kind[selected] = "object" /\ Len(history) < MaxHistory
    /\ history' = Append(history, selected)
    /\ expanded' = {selected}
    /\ Rebuild(selected, {selected}, None)
    /\ UNCHANGED <<shown, graph, selected, saved>>

\* pop_screen: the screen and its threads are gone.
PopScreen ==
    /\ shown' = FALSE /\ graph' = None /\ selected' = None
    /\ history' = <<>> /\ expanded' = {} /\ builds' = <<>>

\* c on a collection: the list is opened in the table, and the graph is not
\* saved.
RecentreOnFan ==
    /\ Pressed
    /\ Kind[selected] = "fanout"
    /\ PopScreen
    /\ UNCHANGED saved

\* backspace: the centre before, or the table if there is none.
Pop ==
    /\ shown /\ Len(builds) < MaxBuilds
    /\ hurried' = (hurried \/ builds # <<>>)
    /\ IF Len(history) > 1
       THEN /\ history' = Front(history)
            /\ expanded' = {Last(Front(history))}
            /\ Rebuild(Last(Front(history)), expanded', None)
            /\ UNCHANGED <<shown, graph, selected>>
       ELSE PopScreen
    /\ UNCHANGED saved

\* escape, or f on any box: the graph is saved and the table is shown.
Leave ==
    /\ shown
    /\ hurried' = (hurried \/ builds # <<>>)
    /\ saved' = [history |-> history, expanded |-> expanded, selected |-> selected]
    /\ PopScreen

\* g: a screen for the object, or the one that was saved.  The threads of the
\* screen that was left were cancelled with it.  The saved graph stays saved in
\* the code; opening it again would only repeat what opening it once leads to,
\* so the model forgets it here.
OpenFresh(o) ==
    /\ ~ shown
    /\ shown' = TRUE /\ graph' = None /\ selected' = None
    /\ history' = <<o>> /\ expanded' = {o}
    /\ builds' = <<[root |-> o, open |-> {o}, keep |-> None]>>
    /\ saved' = None /\ UNCHANGED hurried

\* A graph that was left before its first picture came has no selection: the
\* first centre is open then, and the latest is drawn.
OpenSaved ==
    /\ ~ shown /\ saved # None
    /\ shown' = TRUE /\ graph' = None /\ selected' = None
    /\ history' = saved.history
    /\ expanded' = IF saved.selected = None THEN {Head(saved.history)}
                   ELSE saved.expanded
    /\ builds' = <<[root |-> Last(saved.history), open |-> expanded',
                    keep |-> saved.selected]>>
    /\ saved' = None /\ UNCHANGED hurried

---------------------------------------------------------------------------
\* Mistake: the selection is restored without asking whether it was drawn.
BuiltKeeps(b) ==
    LET g == Build(builds[b].root, builds[b].open)
    IN  /\ shown /\ b \in DOMAIN builds
        /\ graph' = g
        /\ selected' = IF builds[b].keep # None THEN builds[b].keep ELSE g.root
        /\ builds' = RemoveAt(builds, b)
        /\ UNCHANGED <<shown, history, expanded, saved, hurried>>

\* A picture arrives, whichever thread was first.
Built(b) ==
    LET g == Build(builds[b].root, builds[b].open)
    IN  /\ shown /\ b \in DOMAIN builds
        /\ graph' = g
        /\ selected' = IF builds[b].keep \in Boxes(g) THEN builds[b].keep ELSE g.root
        /\ builds' = RemoveAt(builds, b)
        /\ UNCHANGED <<shown, history, expanded, saved, hurried>>

\* The build raised: only the line under the picture says so, and the picture
\* is older than the open boxes as it is while a build is under way.
Failed(b) ==
    /\ BuildsFail /\ shown /\ b \in DOMAIN builds
    /\ builds' = RemoveAt(builds, b)
    /\ hurried' = TRUE
    /\ UNCHANGED <<shown, history, expanded, graph, selected, saved>>

Init ==
    /\ shown = TRUE /\ graph = None /\ selected = None /\ saved = None
    /\ hurried = FALSE
    /\ \E o \in Centres :
        /\ history = <<o>> /\ expanded = {o}
        /\ builds = <<[root |-> o, open |-> {o}, keep |-> None]>>

Move == \/ MoveRightOpens \/ MoveLeftShuts \/ MoveLeft
        \/ \E k \in Keys : MoveRight(k) \/ MoveInColumn(k)

Next ==
    \/ Move \/ Toggle \/ Isolate \/ Recentre \/ RecentreOnFan \/ Pop \/ Leave
    \/ OpenSaved \/ \E o \in Centres : OpenFresh(o)
    \/ \E b \in 1..MaxBuilds : Built(b) \/ Failed(b)

Spec == Init /\ [][Next]_vars

---------------------------------------------------------------------------
\* Whatever order pictures arrive in, and whatever was shut or made the
\* centre meanwhile, the selected box is one the picture on the screen draws:
\* every key reads graph.nodes[selected] without asking (update_info,
\* action_move, action_toggle).
SelectionDrawn == graph # None => selected \in Boxes(graph)

\* Until a key is pressed over a picture that is late, what is open is what
\* can be seen: shutting a box shuts all that was open under it, also what
\* hangs from another box since a later expansion, and keeps the rest
\* (_collapse: reopening does not restore branches).
OpenAreDrawn ==
    shown /\ ~ hurried => expanded \subseteq Boxes(Build(Root, expanded))

\* Expanding, collapsing or isolating does not move the selection: the box a
\* picture is to select is drawn in it (_built: "the selection ... stays on
\* the expanded box"), and so it is for the graph that was saved.
KeptBoxIsDrawn ==
    ~ hurried => \A i \in DOMAIN builds :
        LET b == builds[i] IN b.keep = None \/ b.keep \in Boxes(Build(b.root, b.open))

\* What a key opens is drawn (action_toggle: "The result is drawn on the
\* canvas"): when no build is under way the picture is of the centre and of
\* the boxes that are open.
ResultIsDrawn ==
    shown /\ builds = <<>> => graph = Build(Root, expanded)

===============================================================================
