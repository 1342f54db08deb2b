------------------------------ MODULE Workloads ------------------------------
(***************************************************************************)
(* The traffic programs the explorer starts and stops                      *)
(* (kexplore/operations/workloads.py), one child per workload.  A child    *)
(* goes through its start, sets something up in the kernel, and cleans up  *)
(* on SIGTERM; it may end by itself at any step of the explorer.           *)
(* tests/helpers/traffic.py, the child, is modelled by where it is between *)
(* its fork and its end, which is what a signal depends on.                *)
(***************************************************************************)
EXTENDS Integers, Sequences, FiniteSets

CONSTANTS
    WorkloadSet,    \* the workloads
    Lasting         \* those whose effect outlives the child: a qdisc on lo

ASSUME WorkloadAssumption == Lasting \subseteq WorkloadSet

VARIABLES
    child,      \* _children: what each child does, and whether it was stopped
    effect,     \* the workloads whose effect is in the kernel
    ui          \* what the explorer's main thread does

workloadVars == <<child, effect, ui>>

\* A child is forked, then asks for a signal when the explorer dies, sets its
\* handler, sets its effect up, registers the cleanup and runs; "ending" runs
\* the cleanup.  A zombie is dead and not yet waited for.
Alive  == {"forked", "starting", "handling", "installed", "running", "ending"}
Phases == Alive \cup {"zombie", "reaped", "none"}

Child == [phase: Phases, stopped: BOOLEAN]
NoChild == [phase |-> "none", stopped |-> FALSE]

\* The main thread waits for the children it stops, one after the other: with
\* what is left to stop, and whether the explorer exits after.
Ui == [doing: {"idle", "waiting", "leaving", "gone"},
       on: WorkloadSet \cup {"none"}, rest: SUBSET WorkloadSet, exit: BOOLEAN]
Idle == [doing |-> "idle", on |-> "none", rest |-> {}, exit |-> FALSE]

IsAlive(w) == child[w].phase \in Alive
SetPhase(w, p) == child' = [child EXCEPT ![w].phase = p]

---------------------------------------------------------------------------
(* The child *)

\* PR_SET_PDEATHSIG is asked for after the fork: an explorer that is gone by
\* then is not noticed.
AskForDeathSignal(w) ==
    /\ child[w].phase = "forked" /\ SetPhase(w, "starting")
    /\ UNCHANGED <<effect, ui>>

SetHandler(w) ==
    /\ child[w].phase = "starting" /\ SetPhase(w, "handling")
    /\ UNCHANGED <<effect, ui>>

\* The effect of a child that was killed is in the way (EEXIST).
SetUp(w) ==
    /\ child[w].phase = "handling"
    /\ IF w \in effect
       THEN SetPhase(w, "zombie") /\ UNCHANGED effect
       ELSE /\ SetPhase(w, "installed") /\ effect' = effect \cup {w}
    /\ UNCHANGED ui

RegisterCleanup(w) ==
    /\ child[w].phase = "installed" /\ SetPhase(w, "running")
    /\ UNCHANGED <<effect, ui>>

\* Mistake: the traffic goes on until it is told to stop.
TimeIsUpNever(w) == FALSE /\ UNCHANGED workloadVars

\* --seconds is over.
TimeIsUp(w) ==
    /\ child[w].phase = "running" /\ SetPhase(w, "ending")
    /\ UNCHANGED <<effect, ui>>

CleanUp(w) ==
    /\ child[w].phase = "ending"
    /\ SetPhase(w, "zombie") /\ effect' = effect \ {w}
    /\ UNCHANGED ui

\* It raises, is killed by somebody else, or a second SIGTERM cuts its
\* cleanup short: a lasting effect stays.
Crash(w) ==
    /\ IsAlive(w) /\ SetPhase(w, "zombie")
    /\ effect' = IF w \in Lasting THEN effect ELSE effect \ {w}
    /\ UNCHANGED ui

\* What SIGTERM does to a child: before its handler is set it is dead; after,
\* it runs the cleanups registered so far.
AfterTerm(c) ==
    CASE c.phase \in {"forked", "starting", "handling", "installed"} ->
            [c EXCEPT !.phase = "zombie"]
      [] c.phase = "running" -> [c EXCEPT !.phase = "ending"]
      [] OTHER               -> c

\* The effects that go with children that are dead after a signal.
EffectsAfter(c) ==
    effect \ {w \in WorkloadSet \ Lasting : c[w].phase = "zombie"}

---------------------------------------------------------------------------
(* The explorer's main thread *)

\* Popen returns once the child has replaced itself: until then the main
\* thread is in it.
InPopen == \E w \in WorkloadSet : child[w].phase = "forked"
Free == ui = Idle /\ ~ InPopen

\* toggle, start: poll says there is no child, or that it has ended.
Start(w) ==
    /\ Free /\ ~ IsAlive(w)
    /\ child' = [child EXCEPT ![w] = [phase |-> "forked", stopped |-> FALSE]]
    /\ UNCHANGED <<effect, ui>>

\* The part of stop up to the wait: a child that ended is reaped by poll; any
\* other is asked to end, and the main thread waits.
StopFirst(w, rest, exit) ==
    IF IsAlive(w)
    THEN /\ child' = [child EXCEPT ![w] = AfterTerm([@ EXCEPT !.stopped = TRUE])]
         /\ ui' = [doing |-> "waiting", on |-> w, rest |-> rest, exit |-> exit]
         /\ effect' = EffectsAfter(child')
    ELSE /\ child' = [child EXCEPT ![w].phase = IF @ = "zombie" THEN "reaped" ELSE @]
         /\ ui' = IF rest = {} /\ ~ exit THEN Idle
                  ELSE [doing |-> "leaving", on |-> "none", rest |-> rest, exit |-> exit]
         /\ UNCHANGED effect

\* toggle, stop
Stop(w) == Free /\ IsAlive(w) /\ StopFirst(w, {}, FALSE)

WaitedFor ==
    IF ui.exit THEN [ui EXCEPT !.doing = "leaving", !.on = "none"] ELSE Idle

\* Mistake: stop returns without waiting for the child.
NotWaited ==
    /\ ui.doing = "waiting"
    /\ ui' = WaitedFor
    /\ UNCHANGED <<child, effect>>

\* wait(timeout=2) returns.
Waited ==
    /\ ui.doing = "waiting" /\ ~ IsAlive(ui.on)
    /\ SetPhase(ui.on, "reaped")
    /\ ui' = WaitedFor
    /\ UNCHANGED effect

\* The two seconds are over: kill and wait.
Kill ==
    /\ ui.doing = "waiting" /\ IsAlive(ui.on)
    /\ SetPhase(ui.on, "reaped")
    /\ effect' = IF ui.on \in Lasting THEN effect ELSE effect \ {ui.on}
    /\ ui' = WaitedFor

\* Quitting: stop_all, registered with atexit, stops one after the other.
Quit == /\ Free
        /\ ui' = [doing |-> "leaving", on |-> "none", rest |-> WorkloadSet, exit |-> TRUE]
        /\ UNCHANGED <<child, effect>>

StopNext ==
    /\ ui.doing = "leaving"
    /\ IF ui.rest = {}
       THEN ui' = [Idle EXCEPT !.doing = "gone"] /\ UNCHANGED <<child, effect>>
       ELSE \E w \in ui.rest : StopFirst(w, ui.rest \ {w}, TRUE)

\* The explorer is killed: the kernel signals the children that asked.
Killed ==
    /\ ui.doing # "gone"
    /\ ui' = [Idle EXCEPT !.doing = "gone"]
    /\ child' = [w \in WorkloadSet |->
                    IF child[w].phase = "forked" THEN child[w] ELSE AfterTerm(child[w])]
    /\ effect' = EffectsAfter(child')

---------------------------------------------------------------------------
\* status, as the pane's row and the sidebar's mark show it
Status(w) ==
    CASE child[w].phase = "none" -> "stopped"
      [] IsAlive(w)              -> "running"
      [] child[w].stopped        -> "stopped"
      [] OTHER                   -> "exited"

WorkloadInit ==
    /\ child = [w \in WorkloadSet |-> NoChild] /\ effect = {} /\ ui = Idle

ChildStep(w) == \/ AskForDeathSignal(w) \/ SetHandler(w) \/ SetUp(w)
                \/ RegisterCleanup(w) \/ TimeIsUp(w) \/ CleanUp(w)

MainStep == Waited \/ Kill \/ StopNext

WorkloadNext ==
    \/ MainStep \/ Quit \/ Killed
    \/ \E w \in WorkloadSet : ChildStep(w) \/ Crash(w) \/ Start(w) \/ Stop(w)

\* A child runs, and ends when its time is over; the main thread goes on.
WorkloadFairness ==
    /\ WF_workloadVars(MainStep)
    /\ \A w \in WorkloadSet : WF_workloadVars(ChildStep(w))

WorkloadSpec == WorkloadInit /\ [][WorkloadNext]_workloadVars /\ WorkloadFairness

---------------------------------------------------------------------------
WorkloadTypeOK ==
    /\ child \in [WorkloadSet -> Child]
    /\ effect \subseteq WorkloadSet
    /\ ui \in Ui

\* A workload that was stopped is shown as stopped, neither as running nor as
\* having exited: whether its child ended on SIGTERM, was killed after two
\* seconds, or ended by itself while it was being stopped.
StatusIsTrue ==
    ui.doing = "idle" => \A w \in WorkloadSet : child[w].stopped => Status(w) = "stopped"

\* Whatever becomes of the explorer, its children end (_die_with_parent:
\* "however it exits"; SECONDS is the bound for one that was forked too late).
ChildrenEnd == ui.doing = "gone" ~> \A w \in WorkloadSet : ~ IsAlive(w)

\* A workload that was stopped leaves nothing in the kernel ("Stopping it
\* deletes the qdisc, and lo reverts to noqueue", operations/workloads.py:115).
StoppingReverts ==
    ui.doing = "idle" =>
        \A w \in WorkloadSet : child[w].stopped /\ ~ IsAlive(w) => w \notin effect

===============================================================================
