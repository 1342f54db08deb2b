------------------------------- MODULE Sidebar -------------------------------
(***************************************************************************)
(* The sidebar tree, the tutorial player and the timers of                 *)
(* kexplore/tui/app.py: highlighting an entry shows it in the pane after a *)
(* delay, following an index row moves the tree's cursor, a tutorial's     *)
(* step moves the table's cursor to its row, and auto-play goes to the     *)
(* next step when a countdown is over.  Keys, the tree's highlight events  *)
(* and the three timers (preview, blink, cursor) interleave in any order;  *)
(* the timers run whichever screen is on top.                              *)
(***************************************************************************)
EXTENDS Navigator, FiniteSets

CONSTANTS
    Nodes,          \* entries of the sidebar's tree
    Kind,           \* of each: "entry", "index" (a branch) or "tutorial"
    View,           \* of each: the tab that lists it
    NoNode,
    Target,         \* per step of the tutorial: its row in the table, or NoRow
    DwellTravel,    \* auto_dwell_travel_settled and auto_dwell_time, in blinks
    DwellInPlace,   \* auto_dwell_already_in_place, in blinks
    MaxStack,       \* bound: frames on the stack
    MaxEvents       \* bound: highlight events not yet handled

NoRow == -1
NoTutorial == -1
N == Len(Target)

ASSUME SidebarAssumption ==
    /\ NoNode \notin Nodes
    /\ Kind \in [Nodes -> {"entry", "index", "tutorial"}]
    /\ View \in [Nodes -> {"structures", "tutorials"}]
    /\ Target \in Seq(Rows \cup {NoRow}) /\ N > 0
    /\ DwellTravel \in Nat \ {0} /\ DwellInPlace \in Nat \ {0}
    /\ MaxStack \in Nat /\ MaxEvents \in Nat

VARIABLES
    view,       \* the active tab
    node,       \* the tree's cursor
    events,     \* NodeHighlighted messages the app has not handled
    timers,     \* nodes a preview timer is running for
    synced,     \* Explorer._synced_node
    focus,      \* "tree" or "pane"
    above,      \* another screen is on top of the main one
    stack,      \* the frames: what each is of, and the tutorial's step or 0
    landing,    \* TutorialLanding.display
    session,    \* active_tutorial.current_idx, or NoTutorial
    auto,       \* auto_play
    left,       \* _auto_seconds_remaining, in blinks
    blinking,   \* _blink_timer is running
    browsing,   \* history: the last key moved the tree's cursor
    strayed     \* history: the user left the step's table under the travelling cursor

treeVars == <<view, node, events, timers, synced>>
playVars == <<session, auto, left, blinking>>
vars == <<treeVars, focus, above, stack, landing, playVars, browsing, strayed, navigatorVars>>

Frame == [of: Nodes \cup {NoNode}, step: 0..N, source: BOOLEAN]
EntryFrame(n) == [of |-> n, step |-> 0, source |-> FALSE]
StepFrame(i)  == [of |-> NoNode, step |-> i, source |-> FALSE]
SourceFrame   == [of |-> NoNode, step |-> 0, source |-> TRUE]

InTutorial == session # NoTutorial
OnStep == session > 0
OnTutorialNode == node # NoNode /\ Kind[node] = "tutorial"

---------------------------------------------------------------------------
(* The tutorial player *)

\* _show_tutorial_step(0)
ShowLanding ==
    /\ session' = 0 /\ landing' = TRUE
    /\ blinking' = FALSE /\ Cancel
    /\ focus' = IF focus = "tree" THEN "tree" ELSE "pane"
    /\ UNCHANGED <<stack, cursor, left>>

\* _show_tutorial_step(i): the frames of the steps so far, and the cursor on
\* its way to the step's row or there at once.  A cursor still on its way to
\* the row of another step has been snapped there by the caller, which starts
\* the blink timer; an arrival is what starts it for this one.
ShowStep(i) ==
    /\ session' = i /\ landing' = FALSE /\ focus' = "pane"
    /\ stack' = [s \in 1..i |-> StepFrame(s)]
    /\ IF Target[i] # NoRow /\ Target[i] > 0
       THEN /\ Navigate(0, Target[i])
            /\ left' = DwellTravel
            /\ blinking' = (blinking \/ Travelling)
       ELSE /\ nav' = Still
            /\ cursor' = IF Target[i] = NoRow THEN 0 ELSE Target[i]
            /\ left' = DwellInPlace
            /\ blinking' = TRUE

\* start_tutorial, then its first step
StartAtFirst ==
    /\ ShowStep(1)
    /\ auto' = FALSE

\* action_tutorial_next by a key: auto-play is paused.
TutorialNext ==
    \/ /\ InTutorial /\ session < N
       /\ ShowStep(session + 1)
       /\ auto' = FALSE
    \/ /\ session = N                            \* "Completed tutorial!"
       /\ auto' = FALSE
       /\ nav' = Still /\ cursor' = SnapTo
       /\ left' = (IF Travelling THEN DwellTravel ELSE left)
       /\ blinking' = (blinking \/ Travelling)
       /\ UNCHANGED <<session, landing, focus, stack>>
    \/ (~ InTutorial /\ OnTutorialNode /\ StartAtFirst)

\* action_tutorial_prev
TutorialPrev ==
    /\ OnStep
    /\ auto' = FALSE
    /\ IF session = 1
       THEN /\ session' = 0 /\ landing' = TRUE /\ blinking' = FALSE
            /\ nav' = Still /\ cursor' = SnapTo
            /\ left' = (IF Travelling THEN DwellTravel ELSE left)
            /\ UNCHANGED <<focus, stack>>
       ELSE ShowStep(session - 1)

\* exit_tutorial
ExitTutorial ==
    /\ session' = NoTutorial /\ auto' = FALSE /\ blinking' = FALSE
    /\ Cancel
    /\ UNCHANGED <<left, cursor>>

\* action_toggle_auto: a pause, or the start from the step on screen.
ToggleAuto ==
    \/ /\ auto /\ auto' = FALSE
       /\ UNCHANGED <<session, landing, focus, stack, left, blinking, cursor, nav>>
    \/ /\ ~ auto /\ OnStep
       /\ auto' = TRUE /\ blinking' = TRUE
       /\ left' = IF Travelling THEN DwellTravel ELSE DwellInPlace
       /\ UNCHANGED <<session, landing, focus, stack, cursor, nav>>
    \/ /\ ~ auto /\ (session = 0 \/ (~ InTutorial /\ OnTutorialNode))
       /\ auto' = TRUE /\ blinking' = TRUE
       /\ session' = 1 /\ landing' = FALSE /\ focus' = "pane"
       /\ stack' = <<StepFrame(1)>>
       /\ IF Target[1] # NoRow /\ Target[1] > 0
          THEN Navigate(0, Target[1])
          ELSE nav' = Still /\ cursor' = IF Target[1] = NoRow THEN 0 ELSE Target[1]
       /\ left' = IF nav'.path # <<>> THEN DwellTravel ELSE DwellInPlace

\* action_follow on a step: the step's row goes to the next step, and the last
\* step's opens in place; another row opens the object behind it.
FollowInTutorial ==
    /\ InTutorial
    /\ \/ (session = 0 /\ ShowStep(1))
       \/ /\ OnStep /\ SnapTo = Target[session] /\ session < N
          /\ ShowStep(session + 1)
       \/ /\ OnStep /\ SnapTo = Target[session] /\ session = N
          /\ cursor' = SnapTo /\ nav' = Still
          /\ left' = (IF Travelling THEN DwellTravel ELSE left)
          /\ blinking' = (blinking \/ Travelling)
          /\ UNCHANGED <<session, landing, focus, stack>>
       \/ /\ OnStep /\ SnapTo # Target[session] /\ Len(stack) < MaxStack
          /\ ~ Last(stack).source
          /\ stack' = Append(stack, EntryFrame(NoNode))
          /\ cursor' = 0 /\ nav' = Still
          /\ left' = (IF Travelling THEN DwellTravel ELSE left)
          /\ blinking' = (blinking \/ Travelling)
          /\ UNCHANGED <<session, landing, focus>>
    /\ auto' = FALSE

---------------------------------------------------------------------------
(* The tree *)

InTree(n) == n # NoNode /\ View[n] = view
CancelPreview == timers' = {}

\* sync_tree: the cursor goes to the node, whose highlight is to be ignored; a
\* cursor that is there already is not highlighted again.
SyncTree(n) ==
    IF ~ InTree(n) THEN UNCHANGED <<node, events, synced>>
    ELSE /\ synced' = n
         /\ node' = n
         /\ events' = IF node = n THEN events ELSE Append(events, n)

\* Mistake: an entry is opened over the tutorial, which is not left.
OpenEntryInTutorial(n) ==
    /\ landing' = FALSE
    /\ stack' = <<EntryFrame(n)>>
    /\ UNCHANGED <<focus, playVars, navigatorVars>>

\* open_node of an entry: the tutorial is left and the pane is the entry's.
OpenEntry(n) ==
    /\ ExitTutorial
    /\ landing' = FALSE
    /\ stack' = <<EntryFrame(n)>>
    /\ UNCHANGED focus

\* open_node of a tutorial that is only highlighted: its page covers the pane.
PreviewTutorial ==
    /\ landing' = TRUE
    /\ UNCHANGED <<focus, stack, playVars, navigatorVars>>

\* enter on a tutorial: its page, or from there its first step.
OpenTutorial ==
    IF session = 0 THEN ShowStep(1) /\ UNCHANGED auto
    ELSE ShowLanding /\ UNCHANGED auto

---------------------------------------------------------------------------
(* What the user does *)

\* Ways to leave the table on screen that stop nothing: back a frame, to the
\* source, to the page of a tutorial.
Strays ==
    \/ stack # <<>> /\ stack' = Front(stack)
    \/ stack' = Append(stack, SourceFrame)
    \/ landing' /\ ~ landing

\* The history is of one way of the cursor.
Remember == strayed' = (nav'.path # <<>> /\ session' = session /\ (strayed \/ Strays))

Key == ~ above /\ browsing' = FALSE
KeyInPane == Key /\ focus = "pane"
KeyInTree == Key /\ focus = "tree"

PlayerKey ==
    /\ Key
    /\ TutorialNext \/ TutorialPrev \/ ToggleAuto
    /\ UNCHANGED <<treeVars, above>>
    /\ Remember

\* (a frame pushed cancels the preview)
PressEnterOnRow ==
    /\ KeyInPane /\ (landing => session = 0)
    /\ FollowInTutorial
    /\ IF session' = session /\ stack' # stack THEN CancelPreview ELSE UNCHANGED timers
    /\ UNCHANGED <<view, node, events, synced, above>>
    /\ Remember

\* enter on the row of an index that stands for an entry
FollowIndexRow(n) ==
    /\ KeyInPane /\ ~ InTutorial /\ ~ landing
    /\ stack # <<>> /\ Last(stack).of # NoNode /\ Kind[Last(stack).of] = "index"
    /\ Kind[n] = "entry" /\ View[n] = "structures"
    /\ Len(stack) < MaxStack /\ Len(events) < MaxEvents
    /\ stack' = Append(stack, EntryFrame(n)) /\ cursor' = 0
    /\ SyncTree(n) /\ CancelPreview
    /\ UNCHANGED <<view, focus, above, landing, playVars, nav>>
    /\ Remember

\* action_source: the source of what is on screen, over it.
OpenSource ==
    /\ Key /\ ~ landing /\ session # 0
    /\ stack # <<>> /\ ~ Last(stack).source /\ Len(stack) < MaxStack
    /\ stack' = Append(stack, SourceFrame) /\ cursor' \in Rows
    /\ CancelPreview
    /\ UNCHANGED <<view, node, events, synced, focus, above, landing, playVars, nav>>
    /\ Remember

\* action_back: a frame, or with one frame left a step of the tutorial.
Back ==
    /\ Key
    /\ \/ /\ Len(stack) > 1
          /\ stack' = Front(stack) /\ cursor' = 0
          /\ UNCHANGED <<focus, landing, playVars, nav>>
       \/ (Len(stack) <= 1 /\ TutorialPrev)
       \/ /\ Len(stack) <= 1 /\ session = 0
          /\ ExitTutorial /\ landing' = FALSE /\ UNCHANGED <<focus, stack>>
    /\ UNCHANGED <<treeVars, above>>
    /\ Remember

\* escape, the search field being closed
Escape ==
    /\ Key /\ InTutorial
    /\ ExitTutorial /\ landing' = FALSE
    /\ UNCHANGED <<treeVars, focus, above, stack>>
    /\ Remember

\* An arrow key in the table
MoveCursor(r) ==
    /\ KeyInPane /\ ~ landing /\ stack # <<>>
    /\ cursor' = r
    /\ UNCHANGED <<treeVars, focus, above, stack, landing, playVars, nav>>
    /\ Remember

\* tab between the sidebar and the pane
MoveFocus(to) ==
    /\ Key /\ focus' = to
    /\ UNCHANGED <<treeVars, above, stack, landing, playVars, navigatorVars>>
    /\ Remember

\* An arrow key in the tree
MoveInTree(n) ==
    /\ ~ above /\ focus = "tree" /\ InTree(n) /\ n # node /\ Len(events) < MaxEvents
    /\ browsing' = TRUE
    /\ node' = n /\ events' = Append(events, n)
    /\ UNCHANGED <<view, timers, synced, focus, above, stack, landing, playVars, navigatorVars>>
    /\ Remember

\* enter in the tree
SelectNode ==
    /\ KeyInTree /\ InTree(node)
    /\ \/ Kind[node] = "tutorial" /\ OpenTutorial /\ UNCHANGED timers
       \/ Kind[node] # "tutorial" /\ OpenEntry(node) /\ CancelPreview
    /\ UNCHANGED <<view, node, events, synced, above>>
    /\ Remember

\* Another tab: the tree is built anew, and off the tutorials tab the tutorial
\* is left.  A preview timer is left running.
SwitchView(v) ==
    /\ Key /\ v # view
    /\ view' = v /\ node' = NoNode
    /\ IF v = "tutorials" THEN UNCHANGED <<landing, playVars, navigatorVars>>
       ELSE landing' = FALSE /\ IF InTutorial THEN ExitTutorial
                                ELSE UNCHANGED <<playVars, navigatorVars>>
    /\ UNCHANGED <<events, timers, synced, focus, above, stack>>
    /\ Remember

\* A graph, a note or the shell over the main screen, and back.
Cover   == /\ Key /\ above' = TRUE
           /\ UNCHANGED <<treeVars, focus, stack, landing, playVars, navigatorVars>>
           /\ Remember
Uncover == /\ above /\ above' = FALSE /\ browsing' = FALSE
           /\ UNCHANGED <<treeVars, focus, stack, landing, playVars, navigatorVars>>
           /\ Remember

---------------------------------------------------------------------------
(* What happens by itself *)

\* Mistake: the preview of the entry highlighted before is not cancelled.
HighlightedKeepsTimer ==
    /\ events # <<>> /\ events' = Tail(events)
    /\ IF Head(events) = synced
       THEN synced' = NoNode /\ timers' = timers
       ELSE timers' = timers \cup {Head(events)} /\ UNCHANGED synced
    /\ UNCHANGED <<view, node, focus, above, stack, landing, playVars, navigatorVars, browsing>>
    /\ Remember

\* on_tree_node_highlighted
Highlighted ==
    /\ events # <<>> /\ events' = Tail(events)
    /\ IF Head(events) = synced
       THEN synced' = NoNode /\ CancelPreview
       ELSE timers' = {Head(events)} /\ UNCHANGED synced
    /\ UNCHANGED <<view, node, focus, above, stack, landing, playVars, navigatorVars, browsing>>
    /\ Remember

\* preview_node: dropped unless the tree has the focus and nothing covers it.
Preview(n) ==
    /\ n \in timers /\ timers' = timers \ {n}
    /\ IF focus = "tree" /\ ~ above
       THEN IF Kind[n] = "tutorial" THEN PreviewTutorial ELSE OpenEntry(n)
       ELSE UNCHANGED <<focus, stack, landing, playVars, navigatorVars>>
    /\ UNCHANGED <<view, node, events, synced, above, browsing>>
    /\ Remember

\* _run_auto_step
AutoStep ==
    IF session < N
    THEN ShowStep(session + 1) /\ auto' = (session + 1 < N)
    ELSE /\ auto' = FALSE /\ left' = DwellTravel
         /\ UNCHANGED <<session, landing, focus, stack, blinking, cursor, nav>>

Counting == left > 1

\* _tick_blink: the countdown runs when the cursor is not on its way.
Blink ==
    /\ blinking
    /\ \/ /\ ~ OnStep /\ blinking' = FALSE
          /\ UNCHANGED <<session, landing, focus, stack, auto, left, cursor, nav>>
       \/ /\ OnStep /\ auto /\ ~ Travelling
          /\ IF Counting
             THEN /\ left' = left - 1
                  /\ UNCHANGED <<session, landing, focus, stack, auto, blinking, cursor, nav>>
             ELSE AutoStep
    /\ UNCHANGED <<treeVars, above, browsing>>
    /\ Remember

\* Mistake: the arrival does not start the blink timer.
TravelNoTimer ==
    /\ Tick
    /\ UNCHANGED <<treeVars, focus, above, stack, landing, session, auto, left, blinking, browsing>>
    /\ Remember

\* CursorNavigator._tick; _on_nav_settled starts the countdown.
Travel ==
    /\ Tick
    /\ IF Arrives THEN left' = DwellTravel /\ blinking' = TRUE
       ELSE UNCHANGED <<left, blinking>>
    /\ UNCHANGED <<treeVars, focus, above, stack, landing, session, auto, browsing>>
    /\ Remember

---------------------------------------------------------------------------
\* The program is started on its index, or with --tutorial on a tutorial.
Init ==
    /\ timers = {} /\ above = FALSE /\ browsing = FALSE /\ strayed = FALSE
    /\ auto = FALSE /\ left = DwellTravel /\ blinking = FALSE
    /\ cursor = 0 /\ nav = Still
    /\ \/ /\ view = "structures" /\ node = NoNode /\ events = <<>> /\ synced = NoNode
          /\ focus = "tree" /\ landing = FALSE /\ session = NoTutorial
          /\ \E n \in Nodes : Kind[n] = "index" /\ stack = <<EntryFrame(n)>>
       \/ \E n \in Nodes :
          /\ Kind[n] = "tutorial"
          /\ view = "tutorials" /\ node = n /\ events = <<n>> /\ synced = n
          /\ focus = "pane" /\ landing = TRUE /\ session = 0 /\ stack = <<>>

User ==
    \/ PlayerKey \/ PressEnterOnRow \/ OpenSource \/ Back \/ Escape \/ SelectNode
    \/ Cover \/ Uncover
    \/ \E n \in Nodes : FollowIndexRow(n) \/ MoveInTree(n)
    \/ \E r \in Rows : MoveCursor(r)
    \/ \E to \in {"tree", "pane"} : MoveFocus(to)
    \/ \E v \in {"structures", "tutorials"} : SwitchView(v)

Clock == Highlighted \/ Blink \/ Travel \/ \E n \in Nodes : Preview(n)

Next == User \/ Clock

\* Timers and messages are delivered; the user need do nothing.
Fairness ==
    /\ WF_vars(Highlighted) /\ WF_vars(Blink) /\ WF_vars(Travel)
    /\ \A n \in Nodes : WF_vars(Preview(n))

Spec == Init /\ [][Next]_vars /\ Fairness

---------------------------------------------------------------------------
\* Every variable has its type: the table's cursor is on a row of it and its
\* way has rows before and after the one it is at, so that _tick reads one of
\* them.
TypeOK ==
    /\ view \in {"structures", "tutorials"} /\ focus \in {"tree", "pane"}
    /\ node \in Nodes \cup {NoNode} /\ synced \in Nodes \cup {NoNode}
    /\ events \in Seq(Nodes) /\ timers \subseteq Nodes
    /\ stack \in Seq(Frame) /\ session \in {NoTutorial} \cup 0..N
    /\ {above, landing, auto, blinking, browsing, strayed} \subseteq BOOLEAN
    /\ left \in Nat /\ cursor \in Rows
    /\ nav \in [path: Seq(Rows), at: Nat]
    /\ Travelling => nav.at \in 1..(Len(nav.path) - 1)

\* The table the cursor was started on is the one on screen.
OnItsTable == ~ landing /\ stack # <<>> /\ Last(stack) = StepFrame(session)

\* What is travelled is the way to the row of the tutorial's current step, over
\* the table of that step, whichever key or clock ended the step before
\* (CursorNavigator.cancel by exit_tutorial and _show_tutorial_step), unless the
\* user has left the table in a way that stops nothing: no other step of the
\* program puts another table under a travelling cursor.
TravelsForTheStep ==
    Travelling => /\ OnStep /\ Last(nav.path) = Target[session]
                  /\ OnItsTable \/ strayed

\* The cursor travels over the table of its step only (CursorNavigator "moves a
\* DataTable cursor"; the step's narration "is shown only over its own step's
\* frame", _place_callout).
TravelsOnItsTable == Travelling => OnItsTable

\* Of all the entries the cursor passed only the one it stopped on is previewed
\* (PREVIEW_DELAY: "only the entry the cursor stops on is built"): a timer is
\* for the node under the cursor, unless the tree was built anew or the
\* highlight that cancels it is on its way.
PreviewOfCursor ==
    \A n \in timers : events # <<>> \/ n = node \/ node = NoNode

\* Auto-play comes to its end, or to a stop, whatever screen is on top and
\* whatever keys are pressed meanwhile.
AutoFinishes == (auto /\ OnStep) ~> ~ (auto /\ OnStep)

\* Moving through the tree shows the entry the cursor stops on
\* (on_tree_node_highlighted: "the entry under the cursor is shown in the pane
\* without pressing Enter").
PaneShowsEntry ==
    browsing /\ events = <<>> /\ timers = {} /\ focus = "tree" /\ ~ above
        => IF Kind[node] = "tutorial" THEN landing
           ELSE stack # <<>> /\ Last(stack).of = node /\ ~ landing

\* Auto-play is paused by a navigation key (_start_auto: "'a' or navigation
\* keys to pause"): here by the key that goes back a frame.
BackPauses == [][ stack # <<>> /\ stack' = Front(stack) => ~ auto' ]_vars

===============================================================================
