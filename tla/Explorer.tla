------------------------------ MODULE Explorer ------------------------------
(***************************************************************************)
(* The navigation core of the terminal UI (kexplore/tui/app.py, class      *)
(* Explorer): the stack of frames, the token that numbers navigations, the *)
(* builds running in worker threads, the struct documentation fetched once *)
(* per tag, the activity line, the guided tutorial that replaces the       *)
(* stack, and the hand-off between the table and the graph screen.         *)
(*                                                                         *)
(* Every UI handler runs to completion on the UI thread, and a worker      *)
(* reaches the UI through call_from_thread, so a handler and the           *)
(* delivery of a result are each one action.  Between them anything can    *)
(* happen: that is what the token is for.                                  *)
(*                                                                         *)
(* An operator that a comment introduces with "Mistake:" is not part of    *)
(* the model.  It is what the operator after it would be with a plausible  *)
(* bug, and PROJECT.json names the property that rules the bug out.        *)
(***************************************************************************)
EXTENDS Integers, Sequences

CONSTANTS
    Tags,       \* the struct types whose source comments can be looked up
    NoTag,      \* a frame without an object, or no pending request
    Roots,      \* the objects a graph can be centred on
    NoRoot,     \* no graph
    StepTag,    \* the struct each tutorial step shows: [1..Len -> Tags or NoTag]
    MaxToken,   \* bound: navigations in a run
    MaxDepth    \* bound: frames on the stack

NSteps == Len(StepTag)   \* 0: tutorial.steps() finds nothing on this kernel

ASSUME ConstantsAssumption ==
    /\ NoTag \notin Tags
    /\ NoRoot \notin Roots
    /\ StepTag \in Seq(Tags \cup {NoTag})
    /\ MaxToken \in Nat
    /\ MaxDepth \in Nat

VARIABLES
    stack,        \* Explorer.stack, the frame on screen last
    token,        \* Explorer._token
    builds,       \* the deferred builds running in workers
    docs,         \* Explorer._docs
    readers,      \* the documentation workers running, per tag
    activity,     \* what the activity line describes
    pending,      \* Explorer._pending_source: the tag whose source "s" waits for
    step,         \* active_tutorial.current_idx, NoTutorial when there is none
    landing,      \* TutorialLanding.display
    graph,        \* the root of the GraphScreen on top, NoRoot on the main screen
    saved,        \* the root in graph_state, NoRoot when graph_state is None
    returnDepth   \* graph_state["return_depth"], 0 when the key is absent

navVars   == <<stack, token, builds>>
docVars   == <<docs, readers, pending>>
tourVars  == <<step, landing>>
graphVars == <<graph, saved, returnDepth>>
vars == <<stack, token, builds, docs, readers, activity, pending,
          step, landing, graph, saved, returnDepth>>

NoTutorial == -2   \* no index, not even one before the landing page's

---------------------------------------------------------------------------
(* Frames, builds and the activity line *)

\* What a frame shows: a struct or a list, a proc file, a tutorial step, or
\* one of the three views that a worker builds.
Deferred == {"trace", "source", "report"}
Views    == {"struct", "file", "step"} \cup Deferred

\* by is the token the frame's push left behind, 0 for a tutorial step, which
\* is not pushed; opener is the graph that handed off to it.
Frame == [view: Views, waiting: BOOLEAN, by: Nat, tag: Tags \cup {NoTag},
          opener: Roots \cup {NoRoot}]

Build == [token: Nat, view: Deferred]

\* What a documentation lookup records: "found" names the declaring file.
Answers == {"found", "failed"}

Pane(view, by, tag, opener) ==
    [view |-> view, waiting |-> FALSE, by |-> by, tag |-> tag, opener |-> opener]

Waiting(view, by) ==
    [view |-> view, waiting |-> TRUE, by |-> by, tag |-> NoTag, opener |-> NoRoot]

Answer(b) == Pane(b.view, b.token, NoTag, NoRoot)

Idle         == <<"idle", 0>>
BuildLine(t) == <<"build", t>>
DocLine(g)   == <<"doc", g>>
Lines        == ({"idle", "build"} \X Nat) \cup ({"doc"} \X Tags)

Top(s)   == s[Len(s)]
Below(s) == SubSeq(s, 1, Len(s) - 1)

StepStack(i) == [j \in 1..i |-> Pane("step", 0, StepTag[j], NoRoot)]

---------------------------------------------------------------------------
(* What the handlers share *)

\* Mistake: the tag is only marked when the worker answers.
StartReaderForgets(d, n, g) ==
    /\ docs' = d
    /\ readers' = [n EXCEPT ![g] = @ + 1]
    /\ activity' = DocLine(g)

\* struct_doc: the first request for a tag starts its worker.
StartReader(d, n, g) ==
    /\ docs' = [d EXCEPT ![g] = "loading"]
    /\ readers' = [n EXCEPT ![g] = @ + 1]
    /\ activity' = DocLine(g)

\* update_doc: asks for the documentation of the struct on screen, where d
\* and n are the documentation and the workers there are by then.
UpdateDoc(s, line, d, n) ==
    IF s # <<>> /\ Top(s).tag # NoTag /\ d[Top(s).tag] = "absent"
    THEN StartReader(d, n, Top(s).tag)
    ELSE docs' = d /\ readers' = n /\ activity' = line

\* render_frame of the stack s
Render(s, line) ==
    /\ stack' = s
    /\ UpdateDoc(s, line, docs, readers)

\* push: the frame goes on top of s, and the navigation gets a new number.
Push(s, view, tag, opener) ==
    /\ token < MaxToken /\ Len(s) < MaxDepth
    /\ token' = token + 1
    /\ Render(Append(s, Pane(view, token + 1, tag, opener)), Idle)
    /\ UNCHANGED builds

\* Mistake: the worker captures the token before the push.
OpenDeferredEarly(s, view) ==
    /\ token < MaxToken /\ Len(s) < MaxDepth
    /\ token' = token + 1
    /\ stack' = Append(s, Waiting(view, token + 1))
    /\ activity' = BuildLine(token + 1)
    /\ builds' = builds \cup {[token |-> token, view |-> view]}
    /\ UNCHANGED <<docs, readers>>

\* open_plan for a deferred plan: a waiting frame now, a worker for the rest.
OpenDeferred(s, view) ==
    /\ token < MaxToken /\ Len(s) < MaxDepth
    /\ token' = token + 1
    /\ stack' = Append(s, Waiting(view, token + 1))
    /\ activity' = BuildLine(token + 1)
    /\ builds' = builds \cup {[token |-> token + 1, view |-> view]}
    /\ UNCHANGED <<docs, readers>>

\* open_plan, for whatever plan_for returns
OpenPlan(s) ==
    \/ \E tag \in Tags \cup {NoTag} : Push(s, "struct", tag, NoRoot)
    \/ Push(s, "file", NoTag, NoRoot)
    \/ OpenDeferred(s, "report")

\* _show_tutorial_step: the landing page leaves the stack alone, a step
\* replaces it by the frames of the steps so far.
ShowStep(i) ==
    /\ step' = i
    /\ landing' = (i = 0)
    /\ IF i = 0 THEN UNCHANGED <<stack, docs, readers, activity>>
                ELSE Render(StepStack(i), Idle)
    /\ UNCHANGED <<token, builds>>

OnMain  == graph = NoRoot
\* check_action: the "browse" screen of ACTION_SCREENS
Browsing == OnMain /\ ~landing /\ step <= 0 /\ stack # <<>>
\* the "browse" and "step" screens
Reading == OnMain /\ ~landing /\ stack # <<>>

\* Rows of a waiting frame, of a file, of kernel source and of a trace carry no
\* object.
HasObjects(f) == ~f.waiting /\ f.view \notin {"file", "source", "trace"}

---------------------------------------------------------------------------
(* The user on the main screen *)

\* open_node for a catalog item, opened or previewed: leaves the tutorial and
\* starts a new stack.
OpenNode ==
    /\ OnMain
    /\ step' = NoTutorial /\ landing' = FALSE
    /\ OpenPlan(<<>>)
    /\ UNCHANGED <<pending, graphVars>>

\* action_follow and action_jump_struct on a row that leads somewhere: an
\* object, a list, or a catalog item, which may be deferred.
Follow ==
    /\ Reading /\ ~Top(stack).waiting /\ Top(stack).view \notin {"source", "trace"}
    /\ OpenPlan(stack)
    /\ UNCHANGED <<pending, tourVars, graphVars>>

\* action_trace_command on a row that shows a userspace command
TraceCommand ==
    /\ Browsing /\ Top(stack).view \in {"struct", "step"}
    /\ OpenDeferred(stack, "trace")
    /\ UNCHANGED <<pending, tourVars, graphVars>>

\* action_source on a row that carries file:line
SourceOfRow ==
    /\ Reading /\ ~Top(stack).waiting /\ Top(stack).view \in {"trace", "report"}
    /\ OpenDeferred(stack, "source")
    /\ UNCHANGED <<pending, tourVars, graphVars>>

\* action_source on a struct: the frame's own, or in a list the row's.
SourceOfStruct(g) ==
    /\ Reading /\ HasObjects(Top(stack))
    /\ Top(stack).tag \in {g, NoTag}
    /\ CASE docs[g] = "absent" ->
              /\ StartReader(docs, readers, g)
              /\ pending' = g
              /\ UNCHANGED navVars
         [] docs[g] = "loading" ->
              pending' = g /\ UNCHANGED <<navVars, docs, readers, activity>>
         [] docs[g] = "found" ->
              OpenDeferred(stack, "source") /\ UNCHANGED pending
         [] docs[g] = "failed" ->      \* "no DW_AT_decl_file": a notification
              UNCHANGED <<navVars, docVars, activity>>
    /\ UNCHANGED <<tourVars, graphVars>>

Resumable == saved # NoRoot /\ returnDepth > 0 /\ returnDepth = Len(stack)

\* _resume_graph: the frame the graph is said to have opened is dropped and
\* the graph reopened.
ResumeGraph ==
    /\ OnMain /\ Resumable
    /\ token < MaxToken
    /\ token' = token + 1
    /\ Render(Below(stack), activity)
    /\ graph' = saved
    /\ UNCHANGED <<builds, pending, tourVars, saved, returnDepth>>

\* Mistake: back is not counted as a navigation.
PopFrameUncounted ==
    /\ OnMain /\ ~Resumable /\ Len(stack) > 1
    /\ Render(Below(stack), activity)
    /\ UNCHANGED <<token, builds, pending, tourVars, graphVars>>

\* Mistake: the only frame is popped too.
PopFrameLast ==
    /\ OnMain /\ ~Resumable /\ Len(stack) > 0
    /\ token < MaxToken
    /\ token' = token + 1
    /\ Render(Below(stack), activity)
    /\ UNCHANGED <<builds, pending, tourVars, graphVars>>

\* action_back, when there is no graph to resume
PopFrame ==
    /\ OnMain /\ ~Resumable
    /\ Len(stack) > 1
    /\ token < MaxToken
    /\ token' = token + 1
    /\ Render(Below(stack), activity)
    /\ UNCHANGED <<builds, pending, tourVars, graphVars>>

\* action_back on the only frame: a file gives way to its directory, if it has
\* one, and otherwise a tutorial goes back a step or ends.
BackFromOnlyFrame ==
    /\ OnMain /\ Len(stack) <= 1
    /\ \/ /\ stack # <<>> /\ Top(stack).view = "file"
          /\ Push(<<>>, "file", NoTag, NoRoot)
          /\ UNCHANGED tourVars
       \/ step > 0 /\ ShowStep(step - 1)
       \/ /\ step = 0
          /\ step' = NoTutorial /\ landing' = FALSE
          /\ UNCHANGED <<navVars, docs, readers, activity>>
    /\ UNCHANGED <<pending, graphVars>>

---------------------------------------------------------------------------
(* The guided tutorial *)

\* open_node or action_toggle_auto on a tutorial: its landing page
StartTutorial ==
    /\ OnMain /\ NSteps > 0
    /\ ShowStep(0)
    /\ UNCHANGED <<pending, graphVars>>

\* The sidebar cursor rests on a tutorial: its landing page covers the table.
PreviewTutorial ==
    /\ OnMain /\ NSteps > 0 /\ ~landing
    /\ landing' = TRUE
    /\ UNCHANGED <<navVars, docVars, activity, step, graphVars>>

\* action_tutorial_next, by a key on the main screen or by the autoplay timer,
\* which does not look at the screen.  Without a tutorial it starts one.
TutorialNext ==
    \/ /\ step >= 0 /\ step < NSteps /\ (OnMain \/ step > 0)
       /\ ShowStep(step + 1)
       /\ UNCHANGED <<pending, graphVars>>
    \/ /\ step = NoTutorial /\ OnMain /\ NSteps > 0
       /\ ShowStep(1)
       /\ UNCHANGED <<pending, graphVars>>

\* Mistake: the landing page has a step before it.
TutorialPrevUnguarded ==
    /\ OnMain /\ step >= 0
    /\ ShowStep(step - 1)
    /\ UNCHANGED <<pending, graphVars>>

\* action_tutorial_prev
TutorialPrev ==
    /\ OnMain /\ step > 0
    /\ ShowStep(step - 1)
    /\ UNCHANGED <<pending, graphVars>>

\* exit_tutorial, and on_tabs_tab_activated, which also hides a preview
ExitTutorial ==
    /\ OnMain /\ (step # NoTutorial \/ landing)
    /\ step' = NoTutorial /\ landing' = FALSE
    /\ UNCHANGED <<navVars, docVars, activity, graphVars>>

---------------------------------------------------------------------------
(* The graph screen, seen from the explorer *)

OpenGraph ==
    /\ Browsing /\ HasObjects(Top(stack))
    /\ \E r \in Roots : graph' = r
    /\ UNCHANGED <<navVars, docVars, activity, tourVars, saved, returnDepth>>

\* action_fields: save_state, then the details are pushed and marked
GraphFields ==
    /\ graph # NoRoot
    /\ \E tag \in Tags \cup {NoTag} : Push(stack, "struct", tag, graph)
    /\ saved' = graph /\ returnDepth' = Len(stack) + 1 /\ graph' = NoRoot
    /\ UNCHANGED <<pending, tourVars>>

\* action_recentre on a collection: the rows are pushed and marked in whatever
\* graph_state there is; the state of this graph is not saved
GraphOpenRows ==
    /\ graph # NoRoot
    /\ Push(stack, "struct", NoTag, graph)
    /\ returnDepth' = IF saved = NoRoot THEN 0 ELSE Len(stack) + 1
    /\ graph' = NoRoot
    /\ UNCHANGED <<pending, tourVars, saved>>

\* action_leave: save_state writes a state without return_depth
GraphLeave ==
    /\ graph # NoRoot
    /\ saved' = graph /\ returnDepth' = 0 /\ graph' = NoRoot
    /\ UNCHANGED <<navVars, docVars, activity, tourVars>>

\* action_pop at the last root: the screen closes and nothing is saved
GraphPop ==
    /\ graph # NoRoot
    /\ graph' = NoRoot
    /\ UNCHANGED <<navVars, docVars, activity, tourVars, saved, returnDepth>>

---------------------------------------------------------------------------
(* The workers *)

\* A trace reports its passes through set_activity, which checks nothing.
BuildProgress(b) ==
    /\ b \in builds /\ b.view = "trace"
    /\ activity' = BuildLine(b.token)
    /\ UNCHANGED <<navVars, docVars, tourVars, graphVars>>

\* _frame_ready: the result, or the error frame, if the token still matches
FrameReady(b) ==
    /\ b \in builds
    /\ builds' = builds \ {b}
    /\ IF b.token # token \/ stack = <<>>
       THEN UNCHANGED <<stack, docs, readers, activity>>
       ELSE Render(Append(Below(stack), Answer(b)), Idle)
    /\ UNCHANGED <<token, pending, tourVars, graphVars>>

DocProgress(g) ==
    /\ readers[g] > 0
    /\ activity' = DocLine(g)
    /\ UNCHANGED <<navVars, docVars, tourVars, graphVars>>

\* Mistake: the request is served and not forgotten.
ForgetAfterNever(g) == pending

\* Once g is answered there is no request for it, even if there was no file.
ForgetAfter(g) == IF pending = g THEN NoTag ELSE pending

\* _struct_doc_done: the answer is recorded, a failure too; the doc line is
\* rewritten; a request for this tag's source is served, by opening it on top
\* of whatever is on screen by now.  (update_doc runs first in the code; with
\* a frame on screen whose documentation is asked for, TopDocRequested, it
\* starts nothing and its line is the one the push clears.)
DocDone(g, answer) ==
    /\ readers[g] > 0
    /\ LET d == [docs EXCEPT ![g] = answer]
           n == [readers EXCEPT ![g] = @ - 1]
       IN  IF pending = g /\ answer = "found"
           THEN /\ token < MaxToken /\ Len(stack) < MaxDepth
                /\ token' = token + 1
                /\ stack' = Append(stack, Waiting("source", token + 1))
                /\ builds' = builds \cup {[token |-> token + 1, view |-> "source"]}
                /\ docs' = d /\ readers' = n /\ activity' = BuildLine(token + 1)
           ELSE UpdateDoc(stack, Idle, d, n) /\ UNCHANGED navVars
    /\ pending' = ForgetAfter(g)
    /\ UNCHANGED <<tourVars, graphVars>>

---------------------------------------------------------------------------
\* on_mount: the landing plan in a worker, or the tutorial named on the
\* command line, whose landing page needs no frame.
Init ==
    /\ docs = [g \in Tags |-> "absent"]
    /\ readers = [g \in Tags |-> 0]
    /\ pending = NoTag
    /\ graph = NoRoot /\ saved = NoRoot /\ returnDepth = 0
    /\ \/ /\ stack = <<Waiting("report", 1)>> /\ token = 1
          /\ builds = {[token |-> 1, view |-> "report"]}
          /\ activity = BuildLine(1)
          /\ step = NoTutorial /\ landing = FALSE
       \/ /\ NSteps > 0
          /\ stack = <<>> /\ token = 0 /\ builds = {} /\ activity = Idle
          /\ step = 0 /\ landing = TRUE

User ==
    \/ OpenNode \/ Follow \/ TraceCommand \/ SourceOfRow
    \/ \E g \in Tags : SourceOfStruct(g)
    \/ ResumeGraph \/ PopFrame \/ BackFromOnlyFrame
    \/ StartTutorial \/ PreviewTutorial \/ TutorialNext \/ TutorialPrev
    \/ ExitTutorial
    \/ OpenGraph \/ GraphFields \/ GraphOpenRows \/ GraphLeave \/ GraphPop

Workers ==
    \/ \E b \in builds : BuildProgress(b) \/ FrameReady(b)
    \/ \E g \in Tags : DocProgress(g) \/ \E a \in Answers : DocDone(g, a)

Next == User \/ Workers

Spec == Init /\ [][Next]_vars

\* Workers return: each external program they run is waited for with a
\* timeout, and every exception becomes an answer.  The user owes nothing.
Fairness ==
    /\ \A t \in 1..MaxToken, v \in Deferred :
          WF_vars(FrameReady([token |-> t, view |-> v]))
    /\ \A g \in Tags : WF_vars(\E a \in Answers : DocDone(g, a))

FairSpec == Spec /\ Fairness

---------------------------------------------------------------------------
(* Properties *)

\* Every variable has its type.
TypeOK ==
    /\ stack \in Seq(Frame)
    /\ token \in Nat
    /\ builds \subseteq Build
    /\ docs \in [Tags -> {"absent", "loading"} \cup Answers]
    /\ readers \in [Tags -> Nat]
    /\ activity \in Lines
    /\ pending \in Tags \cup {NoTag}
    /\ step \in {NoTutorial} \cup 0..NSteps
    /\ landing \in BOOLEAN
    /\ graph \in Roots \cup {NoRoot}
    /\ saved \in Roots \cup {NoRoot}
    /\ returnDepth \in Nat

\* The token numbers navigations: no two builds share one, and none of the
\* builds and frames there are, the ones that back uncovers included, has a
\* number that is still to come.
TokensUsedOnce ==
    /\ \A b \in builds : b.token <= token
    /\ \A b, c \in builds : b.token = c.token => b = c
    /\ \A i \in 1..Len(stack) : stack[i].by <= token

\* A build that would still be shown was asked for by the frame on screen, or
\* the tutorial has put a step in that frame's place: the token is enough to
\* recognise a stale result, except across tutorial steps.
CurrentBuildOwnsTop ==
    \A b \in builds : b.token = token =>
        /\ stack # <<>>
        /\ Top(stack) = Waiting(b.view, b.token) \/ Top(stack).view = "step"

\* The waiting frame of the latest navigation has its build running: nobody
\* waits on it for a result that was dropped.
CurrentWaitIsBuilt ==
    stack # <<>> /\ Top(stack).waiting /\ Top(stack).by = token =>
        [token |-> token, view |-> Top(stack).view] \in builds

\* A token tells whose a result is, and no result is awaited in vain: the three
\* hold together across every order of navigations and late results.
ResultsOwned == TokensUsedOnce /\ CurrentBuildOwnsTop /\ CurrentWaitIsBuilt

\* "fetched once per tag": one worker while the tag is loading, none before
\* the first request and none after the answer, however often it is rendered.
FetchedOncePerTag ==
    \A g \in Tags : readers[g] = IF docs[g] = "loading" THEN 1 ELSE 0

\* A recorded request for a struct's source has a worker that will serve it.
PendingHasReader == pending # NoTag => docs[pending] = "loading"

\* The struct on screen has had its documentation asked for, by whichever of
\* the ways the frame got there.
TopDocRequested ==
    stack # <<>> /\ Top(stack).tag # NoTag => docs[Top(stack).tag] # "absent"

\* The activity line names a struct's source only while that is being read.
DocLineHonest == \A g \in Tags : activity = DocLine(g) => docs[g] = "loading"

\* What struct_doc keeps of its workers agrees with what the workers do and with
\* what the screen says, in whatever order they answer.
DocsServed ==
    FetchedOncePerTag /\ PendingHasReader /\ TopDocRequested /\ DocLineHonest

\* Backing out never empties the pane, whether it pops a frame, drops one to
\* reopen the graph, or goes up from a file.
NeverEmptied == [][stack # <<>> => stack' # <<>>]_vars

\* Without a navigation and without a tutorial step, the frame on screen only
\* changes from a waiting frame to the answer of its own build.
OnlyOwnAnswer ==
    [][stack' # stack /\ token' = token /\ step' = step =>
         /\ stack # <<>> /\ Len(stack') = Len(stack)
         /\ Below(stack') = Below(stack)
         /\ Top(stack).waiting /\ ~Top(stack').waiting
         /\ Top(stack').by = Top(stack).by /\ Top(stack').view = Top(stack).view]_vars

\* Back reopens a graph only from a frame which that graph opened.
ResumesOpener ==
    [][graph = NoRoot /\ graph' # NoRoot /\ Len(stack') < Len(stack) =>
         Top(stack).opener = graph']_vars

\* "in which case the frame that asked for it is no longer the one on top"
\* (_frame_ready): a result is dropped only if its frame is not on screen.
DroppedMeansLeft ==
    [][\A b \in builds \ builds' : b.token # token =>
         stack = <<>> \/ ~Top(stack).waiting \/ Top(stack).by # b.token]_vars

\* The frame of the latest navigation does not wait for ever.
Awaited(t) == stack # <<>> /\ Top(stack).waiting /\ Top(stack).by = t /\ token = t
WaitEnds == \A t \in 1..MaxToken : Awaited(t) ~> ~Awaited(t)

\* A recorded request for source is served or replaced by a later one.
PendingServed == \A g \in Tags : pending = g ~> pending # g

---------------------------------------------------------------------------
(* What the pane promises, without tutorials: see Requests *)

Shown ==
    IF stack = <<>> THEN <<"none", 0>>
    ELSE IF Top(stack).waiting THEN <<"waiting", Top(stack).by>>
    ELSE <<"answer", Top(stack).by>>

Promise == INSTANCE Requests WITH
    latest <- token, running <- {b.token : b \in builds}, shown <- Shown

LatestRequestWins == Promise!Spec
=============================================================================
