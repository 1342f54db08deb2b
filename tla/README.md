# Linux kernel explorer: a verification development

`kexplore` reads the state of a live Linux kernel through drgn and shows it in
a terminal UI: as tables that follow pointers from struct to struct, as a
graph of objects, as source, and as traces made with bpftrace. This directory
holds TLA+ models of its stateful parts, TLC configurations that check them on
small instances, and TLAPS proofs for all instances: every safety property a
run checks is also a theorem. `src/` below is the root
of the repository.

Run `tlc -config X.cfg M` for a configuration and its module (the tables under
*Runs*), and `tlapm M.tla` for the modules named `...Proofs` and for
`Recursion`. `PROJECT.json` lists the runs, what every definition
models, the hazards, and for every property a plausible bug that TLC shows to
violate it. Operators introduced by a comment *Mistake:* are those bugs; they
are not part of the models.

## The system

| part | source | state | operations | interacts with |
|---|---|---|---|---|
| Explorer: navigation | `kexplore/tui/app.py` | `stack` of frames, `_token`, the workers running | push, follow, open a plan, back, jump, trace, source | workers through `call_from_thread`; tutorial and graph replace or push frames |
| Explorer: struct documentation | `app.py` 1248-1342 | `_docs` (absent, loading, answered), `_pending_source`, the activity line | `struct_doc`, `_struct_doc_done`, `update_doc` | asked for by every repaint; its answer can push a frame |
| Sidebar and preview | `app.py` 2430-2550 | tree cursor, `_synced_node`, `_preview_timer` | highlight, select, sync, preview | opens catalog items and tutorials |
| Tutorial player | `app.py` 1657-2030 | `active_tutorial`, landing page, `auto_play`, blink timer | start, next, prev, exit, auto-play | replaces the whole stack; moves the table's cursor |
| Cursor navigator | `tui/navigator.py` | plan, step, timer | navigate, tick, cancel | the player is told when it arrives |
| Tutorial content | `operations/tour.py` | none; a search for processes at every step | resolvers of each step | processes that start and exit |
| Graph hand-off | `app.py` 3341-3434, `graph.py` 645-722 | the screen on top, `graph_state`, `return_depth` | open, fields, rows of a collection, leave, pop, resume | pushes frames; back reopens the graph |
| Graph building | `tui/graph.py` 110-290 | nodes, edges, frontier | `build`, `_resolve` | reads a kernel that changes meanwhile |
| Graph layout | `core/graph.py` | positions, per-column cursor | `layout`, `draw` | drawn by the graph screen |
| Graph screen | `tui/graph.py` 330-722 | history, `expanded`, selection, picture | move, toggle, collapse, isolate, recentre, rebuild | a worker per rebuild |
| Tracing a command | `core/probe.py` | launcher, tracer, the map `@trace_tasks` | `trace_command` and its helpers | kernel scheduler events, bpftrace, signals |
| Links | `catalog/links.py`, `core/nav.py`, `view/frames.py` | none; the frame keeps what it offered | offer, follow, collect | lists of a kernel that changes meanwhile |
| Workloads | `operations/workloads.py` | `_children` | start, stop, toggle, `stop_all`, status | child processes, kernel state they set up |
| Experiments | `core/experiment.py`, `operations/clone_experiment.py` | a helper process and what it printed | build, start, stop, read its tasks | the tasks the helper holds |
| Command popup | `tui/run_command.py` | one process, one worker | run, show, close | none |
| Debug info and source | `core/debuginfod.py`, `core/source.py`, `__main__.py` | cache entry, partial downloads, mode, remembered answers | configure, check, prefetch, clean, probe, read | other runs over the same cache, libdebuginfod |
| Notes, clipboard | `notes.py`, `tui/notes.py`, `tui/clipboard.py` | index and text | edit, copy | none |
| Decoders, text tables, pseudo-filesystems, rows, layout | `catalog/`, `core/ctypes.py` | none | pure reads of DWARF and memory | drgn |
| Installation | `setup.sh`, `lima/` | none | packages, virtual machines | none |

**What is hard.** The UI is single-threaded, but every slow thing (a deferred
frame, a struct's documentation, a graph, an experiment) is a worker thread
whose result comes back between two keystrokes, in any order, or after the
frame that asked for it is gone. Three timers run whatever screen is on top.
Tutorials replace the stack, the graph hands off to it, a pending source
request pushes on it. The kernel changes while links are walked, so cycles,
sharing and failures appear anywhere. Child processes crash, hang and outlive
their parent at every step. Two runs of the program share one download cache
and nothing that would lock it. `trace_command` races a command's forks, execs
and exits against the probes that follow them. `PROJECT.json` lists each of
these hazards at its line.

## The modules

| module | models | proved in |
|---|---|---|
| `Explorer` | navigation, documentation, tutorials, graph hand-off of `Explorer` | `ExplorerProofs` |
| `Requests` | the abstract promise: numbered requests, only the latest is shown | `ExplorerProofs` |
| `GraphWalk` | `build` and `_resolve` of `tui/graph.py` | `GraphWalkProofs` |
| `GraphLayout` | `layout` of `core/graph.py` | `GraphLayoutProofs` |
| `GraphScreen` | the keys of `GraphScreen` against the workers that rebuild its picture | `GraphScreenProofs` |
| `TraceCommand` | `trace_command` with bpftrace, kernel and command as environment | `ChildrenProofs` |
| `Navigator` | `CursorNavigator` and `compute_cursor_path` | `SidebarProofs` |
| `Sidebar` | sidebar events, preview timer, tutorial player, auto-play; extends `Navigator` | `SidebarProofs` |
| `Workloads`, `Helper`, `CommandRun` | the three kinds of child processes | `ChildrenProofs` |
| `Children` | their composition, with the explorer killed at any step | `ChildrenProofs` |
| `DebugFiles` | the debuginfod cache, the attach of `__main__.py`, `KernelSource` | `DebugFilesProofs` |
| `LinkTables` | every curated link of `catalog/links.py` as a record | `GraphWalkProofs` |
| `Links` | offering and following links, `collect` over a list that changes | `GraphWalkProofs` |
| `Tours` | every step of the six tutorials of `operations/tour.py` over processes that exit | `SidebarProofs` |
| `Recursion` | nothing: lemmas on numbers and on recursive functions, for the proofs | itself |
| `MC...` | constants for TLC | |

### Explorer and Requests

A handler of the UI runs to completion on the UI thread, and a worker delivers
through `call_from_thread`; so each handler and each delivery is one action,
with everything it calls (`render_frame`, `update_doc`, `set_activity`)
inside. A frame is what matters of it: its kind of view, whether it is
waiting, the token its push left behind (`by`), the struct type its doc line
asks for, and the graph that handed off to it (`opener`; the program does not
keep this: it is history, for `ResumesOpener`). `builds` are the deferred
builds in workers and the tokens they carry, `docs` and `readers` the
dictionary `_docs` and the workers that fill it, `pending` is
`_pending_source`, `saved` and `returnDepth` are `graph_state`. Which
actions the user has in which state is `check_action` with `ACTION_SCREENS`.

Left out because they show the same frame again: refresh, re-read, sort,
search, layout and inline expansion. `DocDone` opens the source frame without
first running `update_doc`, which by `DocsServed` starts nothing there.

`Requests` is what the comment on `_token` promises, without frames or
types. `Explorer` implements it under the mapping of the token, the tokens of
the builds, and what is on top. Tutorial steps break the promise (see
*Findings*), so refinement is checked and proved for a kernel on which the
tutorials have no steps.

### GraphWalk, GraphLayout and GraphScreen

In `GraphWalk` there is one action per iteration of a loop of `build`. A link
resolves to anything (an object, NULL, an error, a collection of any size up
to the limit), chosen when the walk reaches it, because the kernel changes
meanwhile; this includes every fixed object graph. `count = CountLimit`
stands for the code's -1.

`place()` of `layout` is recursive; `GraphLayout` has its call stack and one
action per call and per return. Boxes are numbered in the order of
`Graph.nodes`. Only rows are modelled: a column's x follows from widths.
`Init` has every forest, also those with boxes that no tree edge reaches,
since `layout` handles them.

`GraphScreen` has one action per key and one per arrival of a picture or of a
failure. A build is one step, of objects that do not change: the breadth-first
loop and the loops inside it are recursive functions of how far they have come.
The members of a collection are objects, never collections, and there are
finitely many boxes. Which neighbour in a column a cursor key
reaches is any. `hurried` is history: a key that follows the tree was pressed
over a picture older than `expanded`, or a rebuild failed.

### Sidebar and Navigator

A key is an action, and so is the delivery of a highlight event, of the
preview timer, of the blink timer and of a tick of the cursor. `events` is the
queue of `NodeHighlighted` messages; the tree posts one per move, the app
handles them later. `timers` are the nodes for which a preview timer runs.
`Cover` and `Uncover` stand for a screen on top, under which timers go on.
Seconds are counted in blinks. A frame is an entry's, a step's, or source over
one (`OpenSource`, the key `s`). `strayed` is history: since the cursor set out,
the user has gone back a frame, to the source, or to the page of a tutorial, none
of which stops the cursor. `CursorPath` is `compute_cursor_path` in exact
integer arithmetic (the floats of the code are far from a tie at these sizes).

### Workloads, Helper, CommandRun, Children

A child of `Workloads` goes through the states in which a SIGTERM does
something else: before `prctl`, before the handler, before and after it has
set up and registered its clean-up. `Helper` is a leader whose output arrives
in half lines, so a read may end inside one, and the children it holds, which
keep its output open; `read`, `select`, the deadline and `stop` are actions of the worker.
`CommandRun` is `sh -c` with a process that holds its output open. `Children`
runs them side by side and stops all threads when the explorer is gone.

### DebugFiles

The cache entry of one build ID: the file at its final name (absent, empty,
good, or bad: cut short or of another build), a file put aside, and a partial
file per transfer. Every look at a file and every change of it is a step of
its own, so two runs interleave between `stat`, `readelf`, `rename` and
`unlink`, and a run can be killed between any two. `Modes` are `--prefetch`,
the default, `--offline` and `--no-prefetch`. libdebuginfod and drgn are what
they do to the entry. `KernelSource` follows in the same process: the probe
with its deadline, the prefix, and answers that are kept.

### LinkTables, Links and Tours

What may be so of a kernel object or not (a pointer that is not NULL, a
callback that is a certain function) is a *fact*. A link record says which
facts its `applies` asks for, which its resolver rests on, what is shown
without them, the type it leads to, and how entries leave the list it walks
(kept for RCU readers, poisoned, pointing to themselves, moved to another
list). `Links` shows a frame, lets facts change, follows a link and collects
the list with the kernel taking entries out and putting them in.

`Tours` has all steps of all tutorials: whose object a step shows, how it is
found and read, and the row it marks. The search for a process and the read of
its memory are two actions, with forks, exits and reaping between them. `named`
is the process that the titles and labels speak of, chosen once when the steps
are built; `moved` is history: a thread of it has ended, or a process that the
search meets before it got a second one. An exec is not modelled: it ends the
other threads and releases the old address space, as exits do, and leaves
another one to be found.

### TraceCommand

`pc` is the place in `trace_command`, and its actions are its branches and
timeouts, in the order of the code with its `finally`. The launcher is what
its parent can see; `process`, `ours`, `group`, `doomed` and `execs` are the
kernel's threads, their processes, descent, process group, pending SIGKILL,
and those inside exec, where a thread takes over its leader's id before
`sched_process_exec` is hit. Each tracepoint of `_tracking_script` is in the
action of the event it fires on. The command's threads fork, create threads,
exec, leave the group and exit at any time they may run; strangers come and go
under ids that are free.

Assumptions about the environment: ids are handed out in turn, so one given up
in exec is not handed out while that exec is under way, nor the launcher's
during the call; a thread inside exec dies only by SIGKILL; any wait with a
time limit may end by it, since a process asleep in the kernel takes no
signal.

## Runs

| run | module | checks | instance | distinct states |
|---|---|---|---|---|
| `explorer` | `MCExplorer` | `TypeOK`, `ResultsOwned`, `DocsServed`, `NeverEmptied` | one type, one graph, a tutorial of two steps, 4 navigations, 3 frames | 712,847 |
| `explorer_live` | `MCExplorer` | `LatestRequestWins`, `WaitEnds`, `PendingServed` | two types, no graph, no tutorial, 4 navigations, 3 frames, fair workers | 30,900 |
| `graph_walk` | `MCGraphWalk` | `TypeOK`, `DrawnAsTree`, `ShortestWhenShut` | five objects with 2, 1, 1, 1, 0 links, limits 1 and 3 | 277,293 |
| `graph_layout` | `GraphLayout` | `TypeOK`, `NoOverlap`, `FamiliesPlaced` | every forest of six boxes in four columns | 96,143 |
| `graph_screen` | `MCGraphScreen` | `SelectionDrawn`, `OpenAreDrawn`, `KeptBoxIsDrawn` | four objects with a collection and a cycle, two rebuilds at once, a history of two centres | 325,136 |
| `sidebar` | `MCSidebar` | `TravelsForTheStep`, `PreviewOfCursor`, `AutoFinishes` | a branch, an entry and a tutorial of three steps, five rows, two events | 438,164 |
| `trace_command` | `MCTraceCommand` | `TraceTypeOK`, `Followed`, `NoStranger`, `CleanedUp`, `CallEnds` | four thread ids, one the launcher's | 232,303 |
| `children` | `Children` | `StatusIsTrue`, `HelperIsGone`, `RowsOrError`, `ReadWhileHeld`, `ChildrenEnd`, `PopupAnswers` | one workload, a helper with one child, one command | 144,000 |
| `debug_files` | `MCDebugFiles` | `ServedLater`, `FetchNotRefused`, `NothingRefused`, `GoodIsKept` | two processes, three runs, six machines | 560,874 |
| `links` | `Links` | `OfferedOpens`, `WalkIsHonest`, `WalkEnds` | every linked type, two list entries, a limit of two rows | 56,605 |
| `tours` | `MCTours` | `FailsOnlyByRace`, `ShowsWhoItNames` | six tutorials, two processes beside pid 1 | 244,832 |
| `explorer_stale_step` | `MCExplorer` | `OnlyOwnAnswer`, violated | see *Findings* | |

Further configurations give counterexamples to one property each; they are
under *Findings* as well. `CHECK_DEADLOCK FALSE` stands in the configurations
of models that stop: the walk, the layout, the call and the children come to
an end, the explorer, the screens and the runs of `DebugFiles` reach their
bounds. `links` and `tours` never stop and are checked for deadlock.

**What they show.** `explorer` and `explorer_live`: a late result reaches the
frame that asked for it or nobody (or, with tutorials, overwrites a step; see
*Findings*), the frame of the latest navigation gets its answer, documentation is
read once however often it is asked for, back never empties the pane. A frame
that an older navigation left waiting may wait for ever
(`explorer_lost_answer`). `graph_walk`, `graph_layout`: whatever links resolve
to, what is drawn is a tree with no two boxes on each other, and a parent is at
the middle of its children or pushed down from it by the box right above. `graph_screen`: the
selection is a box that is drawn, whichever of two rebuilds is last.
`sidebar`: a cursor that travels goes to the row of the current step, and over
that step's table unless the user turned away from it (which stops nothing:
`sidebar_back`); a preview is of the entry the cursor stopped on, and auto-play never hangs although its
countdown depends on an arrival that can be cancelled. `trace_command`: no
event of the command is lost, none of a stranger's is counted. `children`: a
table is whole or an error, tasks are read only while they are held, nothing
waits for ever. `debug_files`: what prefetch reported is there for one run at a
time, a good file is lost only to two. `links`: a link that is offered opens,
but for the six links `Gaps` names. `tours`: a step fails only if its process
exits between two reads, and the tour of a process, each of whose steps searches
for it again, keeps to the one its titles name until a thread of that ends or an
earlier process gets a second.

**Bounds.** `MaxToken` and `MaxDepth` guard every navigation; four navigations
give two builds under way at once, one frame uncovered by back while both run,
and a pending request served on top of it; three frames give a frame below the
one that is popped. Two tutorial steps are one to show and one to replace it.
For the graph, two links out of the centre and one out of the others let paths
of different lengths meet and cycles close; limits of 1 and 3 put collections
below, at and above both. Six boxes are two parents with two children each
under a root, the least in which families can cross. `MaxBuilds` of 2 is an
older and a newer picture, `MaxHistory` of 2 a centre to go back to. In
`sidebar` the way to row 4 is longer than `MaxSteps` and is eased, the way to row
0 is one step at once, and that to row 2 goes row by row; two queued events are
the one that is ignored and one that overtakes it. One workload meets every
order of its own steps with those of the explorer; that `stop_all` passes from
one child to the next is in the proof, for any number. One child of the helper
may be lost before, while and after it is read; one line in two halves ends
inside a read. Two processes and three runs give a run that finds what two at
once left behind; two prefixes are one that fails and one that is found (the
code tries six requests). Two list entries and a limit of 2 let a walk reach
its limit and leave an entry out when one is put in. Two processes beside pid
1 are one that is chosen and one chosen instead. Four ids are the launcher, a
child process, a second thread of it that execs, and a stranger on an id that
was given up. The symmetry of `graph_walk` permutes the three objects with one
link, that of `debug_files` the two processes; nothing else distinguishes
them, and the properties are safety properties.

**Fairness.** `Explorer` assumes weak fairness of the workers' deliveries:
each external program a worker runs is waited for with a timeout and every
exception becomes an answer. `Sidebar` assumes it of its timers and of the
delivery of events, which textual schedules; `Children` of the explorer's
threads while it is there, of a child's own steps (which include the end of
its `--seconds`) and of a signal's effect; `Links` of the worker that collects;
`TraceCommand` of `trace_command`'s own thread (`Main`), each of whose waits has
a timeout. Nothing is assumed of the user, bpftrace, the kernel or the command.

## Findings

`explorer_stale_step`: a tutorial step replaces the stack without counting as a
navigation, so a frame still being built overwrites it, against the comment on
`_token` (`app.py` 1007-1009).

More configurations with a counterexample each, to something a text says or to
a stronger form of a property above:

| configuration | module | property | what happens |
|---|---|---|---|
| `explorer_resume` | `MCExplorer` | `ResumesOpener` | `return_depth` outlives its hand-off, and back drops a frame that the graph did not open |
| `explorer_lost_answer` | `MCExplorer` | `DroppedMeansLeft` | a pending source view covers a waiting frame; after back that frame's result is dropped while it is on screen |
| `graph_columns` | `MCGraphWalk` | `ShortestPaths` | with a collection open a column is not the number of links from the centre |
| `graph_rest` | `MCGraphWalk` | `BoxHasRest` | an open collection smaller than `MEMBER_LIMIT` gets a box for a negative rest |
| `graph_crossing` | `GraphLayout` | `TrunksApart` | a parent pushed down below its children gets a trunk that runs through another parent's |
| `graph_result` | `MCGraphScreen` | `ResultIsDrawn` | the older of two rebuilds arrives last, and the picture stays without a box that is open (`action_toggle`: "The result is drawn on the canvas") |
| `sidebar_entry` | `MCSidebar` | `PaneShowsEntry` | a highlight that never came leaves `_synced_node` set, and the user's own later visit to that entry is not shown (`app.py` 2447) |
| `sidebar_pause` | `MCSidebar` | `BackPauses` | back does not pause auto-play (`app.py` 1921: "navigation keys to pause") |
| `trace_left_running` | `MCTraceCommand` | `TracerStopped` | when the launcher cannot be reaped within 5 s, the exception skips the tracer's clean-up |
| `workload_reverts` | `Workloads` | `StoppingReverts` | SIGTERM between setting up and registering the clean-up leaves the qdisc (`workloads.py` 115: "lo reverts to noqueue") |
| `helper_left` | `Helper` | `NothingLeftRunning` | the children of a leader that died without its cleanup stay: its group is left alone (`clone_experiment.py` 281: "nothing is left running") |
| `debug_race` | `MCDebugFiles` | `ServedLaterAlways` | a run that saw an empty entry deletes the good file another run has put there since (`debuginfod.py` 326: "every later run ... is served from the cache") |
| `sidebar_back` | `MCSidebar` | `TravelsOnItsTable` | back pops the step's table (`app.py` 2803-2808), and `s` covers it, while the cursor goes on travelling, over another table, and starts a countdown when it arrives |
| `tour_named` | `MCTours` | `ShowsWhoItNamesAlways` | titles and labels name the process found when the steps were built (`tour.py` 258), and the steps show another one found since |
| `tour_enter` | `MCTours` | `EnterFollows` | enter on the marked row goes to the next step, which shows another object than the row leads to (`docs/kernel-concepts.md` 208); in the tour of page tables enter on `pgd` shows the same `mm_struct` again (`app.py` 2575-2581) |

Seen while reading, without a model: `_cgroup_parent`, `_page_zone` and the
resolvers of `sched_info` return None where the frame expects an object, which
becomes an error row; `_cgroup_tasks` yields tasks without labels, so the link
always errs (one of the named gaps of `OfferedOpens`); `collection_rows` does
not show the items collected before a walk faulted; the report of a failed
attach sums the sizes of partial files (`__main__.py` 248) and raises when
another run removes one in between; a tutorial's list step runs its resolver
twice, and may list another process than it counted.

## Proofs

Each proof module extends its component and shows, for every value of the
constants, an inductive invariant by one lemma per action (or group of actions
that do the same to the state), and the listed theorems from it.

- `ExplorerProofs`: `TypeCorrect`; `ResultsReachTheirFrame`, that tokens are
  used once, a build that counts belongs to the frame on top (or a tutorial
  step took its place), and the latest waiting frame has its build. The three
  are inductive together, because a build is told from another only by a token
  that is never reused. `RecordsAgree` is `DocsServed`: every handler ends in one
  of few moves of the documentation's state (`DocMove`: nothing, the push of a
  frame that is not yet read, a repaint that asks for the top's type, a worker's
  answer), and each keeps `_docs`, the workers, the pending request and the
  activity line in agreement. `BackNeverEmpties` needs the strengthening
  `GraphOverFrames`: a graph, open or saved with a depth, was opened over a
  frame, so resuming it leaves one. `ExplorerKeepsPromise`: every step of
  `Explorer` is a step of `Requests` or a stutter, when `StepTag = <<>>`.
- `GraphWalkProofs`: `WalkTypeCorrect`, `WalkDrawsATree`,
  `ColumnsAreShortest`. The invariant adds that the frontier and the object
  being walked are drawn, that boxes of links come from walked objects, and for
  the columns that the frontier is in the order of its columns, which span at
  most two neighbours.
- `GraphWalkProofs`, on links: `OffersAreKept` goes through every table of
  `LinkTables` (`OnlyGaps`): a link rests on no more than its predicate asks for,
  or shows something else without it, or is one of the named gaps; the invariant
  adds that what a fresh frame offers is what holds of its object.
  `ListsAreHonest` is about pointers: `Ascends` says that the entries have ranks
  such that every pointer leads to a higher one, those of entries that were taken
  out too. An entry that is put in goes to the front and gets a rank below all
  others, so a walk only goes up and meets no entry twice. `AsAtFirst` says that
  a walk of a list that has lost none of its entries is at the one it has counted
  to. For lists whose entries lead into another list, or to themselves, neither
  holds; there only the end of the walk is claimed (`WalkEnds`).
- `GraphLayoutProofs`: `LayoutTypeCorrect`, `BoxesApart`. The invariant is that
  each column is free from its cursor down, and that the calls under way go
  down one column at a time, so that no box is placed by two calls.
  `FamiliesKept` needs `FamilyInv`: a placed box has all its children placed, in
  turn; a column's cursor is the end of a box; and what is placed of the family of
  a box still to come is below the families of the boxes placed in its column.
- `GraphScreenProofs`: `SelectedIsDrawn`, `OpenIsSeen`, `SelectionStays`. First
  that a build draws a tree in which the links of a box are drawn just when the
  box is open (`BuildDraws`, along the loops, with as many rounds as there are
  boxes), that `path_to_root` of a box is the least set of boxes closed under parents
  (`PathIsLeast`), and so that opening, shutting and isolating leave what is on
  that way drawn. The invariant says that the picture on the screen was built
  of some set of open boxes (`PictureWasBuilt`), and, until `hurried`, that there
  is at most one build, which is of what is open now and draws the box it is to
  select, or its picture (`InStep`, and `SavedInStep` of a graph that was left after its picture had come).
- `SidebarProofs`: `SidebarTypeCorrect`, `TravelsForItsStep`,
  `OnlyTheLastIsPreviewed`. `PathLeadsToTarget` is `compute_cursor_path` for any
  distance and any bound: whatever its rounding gives, each row lies between the
  start and the target and the last is the target. `Player` is that a path
  under way is one to the row of the current step and not yet at its end;
  `OverItsTable`, that the step's table is on screen unless `strayed`, which every
  action that changes the table has to keep or to stop the cursor; `Tree`, that the
  last event in the queue is that of the entry the cursor is on, so that a timer
  set by an earlier one is replaced.
- `SidebarProofs`, on the tutorials: `OnlyRacesFail` from `RaceInv`, that a process
  a resolver saw with an address space has one still unless `lost` says so; every
  step of the six tutorials is shown to be one that cannot fail otherwise
  (`StepsArePlain`). `TourKeepsItsProcess` from `OfNamed`: until `moved` the
  search still finds the process that is named (`FoundIsNamed`), whichever others
  fork, clone and exit, because it takes the first of several threads and those
  before it still have one; what was chosen and what is shown are of it, or of
  the kernel once its leader is gone.
- `DebugFilesProofs`: `PromiseIsKept`, `EmptyIsCleared`, `SourceStaysOpen`,
  `OnlyTwoLoseIt`. The invariant is `TypeOK` with three parts:
  `EntryInv`, that while one run at a time uses the cache the entry is at each
  place what that run last saw of it; `TransferInv`, that only a transfer has a
  partial file; `SourceInv`, that a source is given
  to the explorer exactly once, without its deadline. A step of one process is
  described once (`StepOK`), then each action is shown to be such a step.
- `ChildrenProofs`: `StoppedIsShown`, `HelperDies`, `TableIsWhole`,
  `ReadsAreEarly`. `OneStopping` says that a stopped child that is still alive
  is the one the main thread waits for; `EveryChild`, that until there is an
  error each child is compared or still to be read. The three kinds of children
  share no variable, so each is shown to keep its part alone.
- `ChildrenProofs`, on tracing: `TraceTypeCorrect`, `CommandIsFollowed`,
  `StrangersAreNot`, `NothingLeftBehind`. The invariant relates each place of
  `trace_command` to the state of launcher and tracer; says that the launcher
  is the command's only thread until the probes are attached, which is why
  seeding the map at BEGIN suffices; that a leader's id is nobody else's, which
  is why an exec cannot take a live id; and that the map is exactly the
  command's threads, the ones inside exec under their old ids.
- `Recursion`: induction over a set of numbers in place of a predicate, least and
  greatest elements, and that a recursive function of a number exists and has
  the type its steps keep. Models write recursion as `LET f[n \in 0..N] == ...`;
  these lemmas say that such an `f` is what its equations say.

Assumptions: those named `...Assumption` in the modules, which TLC evaluates.

Only model-checked: liveness (`WaitEnds`, `PendingServed`, `CallEnds`,
`AutoFinishes`, `ChildrenEnd`, `PopupAnswers`, `WalkEnds`), which the prover
cannot do. The counterexamples under *Findings* are found by TLC and need no
proof.

## Not modelled

- `catalog/proc_tables.py`, `decoders.py`, `userspace.py`, `pseudofs.py` and the
  lists of the catalog: what is read is formatted, no state is kept, and a fault
  becomes an error row, which `Links` has.
- `operations/command_trace.py`: runs `trace_command` and turns its output into
  reports; `_run_briefly` and `run_bpftrace` are shorter forms of what
  `TraceCommand` models.
- `core/ctypes.py`, `core/source_refs.py`, the cells of the graph's canvas, the
  table's sorting and filtering: pure functions over text.
- Notes, clipboard, argument parsing, installation.

Known limits of what is modelled: rows of a table are numbers; the sidebar's
branches do not fold; a graph's build is one step in `GraphScreen`; the answer
`lru_cache` keeps for a lookup that failed is kept, as in the code, and no
property is stated of it; the launcher's process id is not reused during
`trace_command`.

## Plan

1. Done: the modules above, with every invariant and action property of the runs
   proved.
2. Proofs: refinement of the layout to "boxes in rows"; of `GraphScreen`'s build
   to the walk of `GraphWalk` over objects that do not change; for which steps of
   the tutorials enter does follow the marked row.
3. Composition of `Explorer` with `Sidebar`, whose stacks are now two
   abstractions of the same one.
4. Pure algorithms against reference definitions: memory layout and holes, text
   selection, parsing of bpftrace's maps.
