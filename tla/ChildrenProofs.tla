---------------------------- MODULE ChildrenProofs ----------------------------
(***************************************************************************)
(* For any number of workloads, lines and held children: what was stopped  *)
(* is shown as stopped, and an experiment that is over has compared every  *)
(* child or has an error, and its helper is dead.  And the process that    *)
(* TraceCommand starts, apart from these.                                  *)
(***************************************************************************)
EXTENDS Children, TraceCommand, TLAPS

\* A workload that is still alive after SIGTERM is the one the main thread
\* waits for, unless the explorer itself was killed.
OneStopping ==
    /\ ui.doing = "waiting" => ui.on \in WorkloadSet
    /\ \A w \in WorkloadSet :
        child[w].stopped /\ IsAlive(w) =>
            ui.doing = "gone" \/ (ui.doing = "waiting" /\ ui.on = w)

\* Children are compared or still to be read until there is an error, and the
\* helper is there only between its start and the end of the analysis.
EveryChild ==
    /\ At("building") => leader = "none"
    /\ analysis \in {"building", "reading", "observing"} => error = ""
    /\ At("observing") => toRead \cup detailed = Held
    /\ analysis \in {"stopping", "done"} /\ error = "" => detailed = Held

Inv == WorkloadTypeOK /\ HelperTypeOK /\ OneStopping /\ EveryChild /\ HelperIsGone

---------------------------------------------------------------------------
(* Workloads *)

\* Starting, stopping and killing changes a child to one that has its type.
LEMMA AfterTermTyped ==
    ASSUME NEW c \in Child
    PROVE  /\ AfterTerm(c) \in Child /\ AfterTerm(c).stopped = c.stopped
           /\ AfterTerm(c).phase \in Alive => c.phase \in Alive
  BY DEF AfterTerm, Child, Phases, Alive

\* One step of a child, or of the main thread with one child: no other child
\* changes, and the main thread is where `to` says.
LEMMA OneChild ==
    ASSUME WorkloadTypeOK, OneStopping, NEW w \in WorkloadSet, NEW c \in Child,
           child' = [child EXCEPT ![w] = c], effect' \subseteq WorkloadSet, ui' \in Ui,
           ui'.doing = "waiting" => ui'.on \in WorkloadSet,
           \A v \in WorkloadSet \ {w} :
               (ui'.doing = ui.doing /\ ui'.on = ui.on)
               \/ ~ (child[v].stopped /\ IsAlive(v)),
           c.stopped /\ c.phase \in Alive =>
               ui'.doing = "gone" \/ (ui'.doing = "waiting" /\ ui'.on = w)
    PROVE  WorkloadTypeOK' /\ OneStopping'
  BY DEF WorkloadTypeOK, OneStopping, IsAlive

LEMMA ChildStepKeeps ==
    ASSUME WorkloadTypeOK, OneStopping, NEW w \in WorkloadSet, ChildStep(w) \/ Crash(w)
    PROVE  WorkloadTypeOK' /\ OneStopping'
  <1> DEFINE Moves(c) == child' = [child EXCEPT ![w] = c] /\ c \in Child
                         /\ c.stopped = child[w].stopped
  <1>1. IsAlive(w) /\ ui' = ui /\ effect' \subseteq WorkloadSet
    BY DEF ChildStep, Crash, AskForDeathSignal, SetHandler, SetUp, RegisterCleanup, TimeIsUp,
           CleanUp, WorkloadTypeOK, IsAlive, Alive
  <1>2. \E c : Moves(c)
    <2>1. child[w] \in Child /\ child \in [WorkloadSet -> Child]
      BY DEF WorkloadTypeOK
    <2>2. ASSUME NEW p \in Phases, SetPhase(w, p) PROVE \E c : Moves(c)
      <3>1. Moves([child[w] EXCEPT !.phase = p])
        BY <2>1, <2>2 DEF SetPhase, Child
      <3> QED BY <3>1
    <2>3. \E p \in Phases : SetPhase(w, p)
      BY DEF ChildStep, Crash, AskForDeathSignal, SetHandler, SetUp, RegisterCleanup, TimeIsUp,
             CleanUp, Phases, Alive
    <2> QED BY <2>2, <2>3
  <1>3. PICK c : Moves(c)
    BY <1>2
  <1>4. c.stopped => ui'.doing = "gone" \/ (ui'.doing = "waiting" /\ ui'.on = w)
    BY <1>1, <1>3 DEF OneStopping
  <1>5. ui' \in Ui /\ (ui'.doing = "waiting" => ui'.on \in WorkloadSet)
    BY <1>1 DEF OneStopping, WorkloadTypeOK
  <1>6. child' = [child EXCEPT ![w] = c] /\ c \in Child
    BY <1>3
  <1> HIDE DEF Moves
  <1> QED
    BY <1>1, <1>4, <1>5, <1>6, OneChild

LEMMA StopFirstKeeps ==
    ASSUME WorkloadTypeOK, OneStopping, ui.doing \in {"idle", "leaving"},
           NEW w \in WorkloadSet, NEW rest \in SUBSET WorkloadSet, NEW exit \in BOOLEAN,
           StopFirst(w, rest, exit)
    PROVE  WorkloadTypeOK' /\ OneStopping'
  <1>1. \A v \in WorkloadSet : ~ (child[v].stopped /\ IsAlive(v))
    BY DEF OneStopping
  <1>2. child[w] \in Child /\ child \in [WorkloadSet -> Child]
    BY DEF WorkloadTypeOK
  <1>3. CASE IsAlive(w)
    <2> DEFINE c == AfterTerm([child[w] EXCEPT !.stopped = TRUE])
    <2>1. c \in Child
      <3>1. [child[w] EXCEPT !.stopped = TRUE] \in Child
        BY <1>2 DEF Child
      <3> QED
        BY <3>1, AfterTermTyped
    <2>2. child' = [child EXCEPT ![w] = c]
      BY <1>2, <1>3 DEF StopFirst
    <2>5. ui' = [doing |-> "waiting", on |-> w, rest |-> rest, exit |-> exit]
      BY <1>3 DEF StopFirst
    <2>3. effect' \subseteq WorkloadSet
      BY <1>3 DEF StopFirst, EffectsAfter, WorkloadTypeOK
    <2>4. ui' \in Ui /\ ui'.doing = "waiting" /\ ui'.on = w
      BY <2>5 DEF Ui
    <2> HIDE DEF c
    <2> QED
      BY <1>1, <2>1, <2>2, <2>3, <2>4, OneChild
  <1>4. CASE ~ IsAlive(w)
    <2> DEFINE c == [child[w] EXCEPT !.phase = IF @ = "zombie" THEN "reaped" ELSE @]
    <2>1. c \in Child /\ c.phase \notin Alive
      BY <1>2, <1>4 DEF Child, Phases, Alive, IsAlive
    <2>2. child' = [child EXCEPT ![w] = c]
      BY <1>2, <1>4 DEF StopFirst, Child
    <2>4. effect' = effect
      BY <1>4 DEF StopFirst
    <2>3. ui' \in Ui /\ ui'.doing # "waiting"
      <3>1. \/ ui' = Idle
            \/ ui' = [doing |-> "leaving", on |-> "none", rest |-> rest, exit |-> exit]
        BY <1>4 DEF StopFirst
      <3>2. Idle \in Ui /\ Idle.doing = "idle"
        BY DEF Ui, Idle
      <3>3. LET u == [doing |-> "leaving", on |-> "none", rest |-> rest, exit |-> exit]
            IN  u \in Ui /\ u.doing = "leaving"
        BY DEF Ui
      <3> QED
        BY <3>1, <3>2, <3>3
    <2> HIDE DEF c
    <2> QED
      BY <1>1, <2>1, <2>2, <2>3, <2>4, OneChild DEF WorkloadTypeOK
  <1> QED BY <1>3, <1>4

LEMMA WaitKeeps ==
    ASSUME WorkloadTypeOK, OneStopping, Waited \/ Kill
    PROVE  WorkloadTypeOK' /\ OneStopping'
  <1>1. ui.doing = "waiting" /\ ui.on \in WorkloadSet /\ ui \in Ui /\ ui' = WaitedFor
    BY DEF Waited, Kill, OneStopping, WorkloadTypeOK
  <1> DEFINE c == [child[ui.on] EXCEPT !.phase = "reaped"]
  <1>2. c \in Child /\ c.phase \notin Alive
    BY <1>1 DEF WorkloadTypeOK, Child, Phases, Alive
  <1>3. child' = [child EXCEPT ![ui.on] = c] /\ effect' \subseteq WorkloadSet
    BY <1>1 DEF Waited, Kill, SetPhase, WorkloadTypeOK
  <1>4. ui' \in Ui /\ ui'.doing # "waiting"
    BY <1>1 DEF WaitedFor, Ui, Idle
  <1>5. \A v \in WorkloadSet \ {ui.on} : ~ (child[v].stopped /\ IsAlive(v))
    BY <1>1 DEF OneStopping
  <1> HIDE DEF c
  <1> QED
    BY <1>1, <1>2, <1>3, <1>4, <1>5, OneChild

LEMMA KilledKeeps ==
    ASSUME WorkloadTypeOK, OneStopping, Killed
    PROVE  WorkloadTypeOK' /\ OneStopping'
  <1>1. child' \in [WorkloadSet -> Child]
    BY AfterTermTyped DEF Killed, WorkloadTypeOK
  <1>2. ui' \in Ui /\ ui'.doing = "gone"
    BY DEF Killed, Ui, Idle
  <1>3. effect' \subseteq WorkloadSet
    BY DEF Killed, EffectsAfter, WorkloadTypeOK
  <1> QED
    BY <1>1, <1>2, <1>3 DEF WorkloadTypeOK, OneStopping

LEMMA WorkloadsKeep ==
    ASSUME WorkloadTypeOK, OneStopping, WorkloadNext
    PROVE  WorkloadTypeOK' /\ OneStopping'
  <1>1. ASSUME NEW w \in WorkloadSet, Start(w) PROVE WorkloadTypeOK' /\ OneStopping'
    <2> DEFINE c == [phase |-> "forked", stopped |-> FALSE]
    <2>1. c \in Child /\ ~ c.stopped
      BY DEF Child, Phases, Alive
    <2> HIDE DEF c
    <2>2. child' = [child EXCEPT ![w] = c] /\ effect' = effect /\ ui' = ui
      BY <1>1 DEF Start, c
    <2> QED
      BY <2>1, <2>2, OneChild DEF WorkloadTypeOK, OneStopping
  <1>2. ASSUME NEW w \in WorkloadSet, Stop(w) PROVE WorkloadTypeOK' /\ OneStopping'
    BY <1>2, StopFirstKeeps DEF Stop, Free, Idle
  <1>3. CASE Quit
    BY <1>3 DEF Quit, Free, WorkloadTypeOK, OneStopping, IsAlive, Ui, Idle
  <1>4. CASE StopNext
    <2>1. CASE ui.rest = {}
      BY <1>4, <2>1 DEF StopNext, WorkloadTypeOK, OneStopping, IsAlive, Ui, Idle
    <2>2. CASE ui.rest # {}
      <3>1. ui.rest \subseteq WorkloadSet /\ ui.doing = "leaving"
        BY <1>4 DEF StopNext, WorkloadTypeOK, Ui
      <3>2. PICK w \in ui.rest : StopFirst(w, ui.rest \ {w}, TRUE)
        BY <1>4, <2>2 DEF StopNext
      <3> QED
        BY <3>1, <3>2, StopFirstKeeps
    <2> QED BY <2>1, <2>2
  <1> QED
    BY <1>1, <1>2, <1>3, <1>4, ChildStepKeeps, WaitKeeps, KilledKeeps
    DEF WorkloadNext, MainStep

---------------------------------------------------------------------------
(* The experiment *)

HelperInv == HelperTypeOK /\ EveryChild /\ HelperIsGone

LEMMA StopSignalKeeps ==
    ASSUME HelperInv, analysis \in {"reading", "observing"}, StopSignal("stopping"),
           UNCHANGED <<printed, taken, toRead, detailed>>,
           error' \in {"", "closed", "exited", "late", "raised"},
           error' = "" => detailed = Held
    PROVE  HelperInv'
  <1>1. held' \in [Held -> {"none", "held", "signalled", "gone"}]
    BY DEF StopSignal, Signalled, HelperInv, HelperTypeOK
  <1>2. /\ analysis' \in {"stopping", "done"}
        /\ leader' \in {"none", "running", "closed", "zombie", "reaped"}
        /\ analysis' = "done" => leader' \notin {"running", "closed"}
    BY DEF StopSignal, LeaderAlive, Go, HelperInv, HelperTypeOK
  <1> QED
    BY <1>1, <1>2 DEF HelperInv, HelperTypeOK, EveryChild, HelperIsGone, At, LeaderAlive

\* What the helper does by itself changes only itself and what it prints.
LEMMA HelperStepKeeps ==
    ASSUME HelperInv, HelperStep
    PROVE  HelperInv'
  <1>1. UNCHANGED <<analysis, error, taken, toRead, detailed>>
    BY DEF HelperStep, PrintLine, CloseOutput, LeaderEnds, LeaderCrashes, HeldDies
  <1>2. held' \in [Held -> {"none", "held", "signalled", "gone"}]
    BY DEF HelperStep, PrintLine, CloseOutput, LeaderEnds, LeaderCrashes, HeldDies,
           HelperInv, HelperTypeOK
  <1>3. printed' \in 0..(2 * LineCount) /\ taken' \in 0..printed'
    <2>1. /\ LineCount \in Nat /\ printed \in 0..(2 * LineCount) /\ taken \in 0..printed
      BY HelperAssumption DEF HelperInv, HelperTypeOK
    <2>2. printed' = printed \/ (printed < 2 * LineCount /\ printed' = printed + 1)
      BY DEF HelperStep, PrintLine, CloseOutput, LeaderEnds, LeaderCrashes, HeldDies
    <2> QED
      BY <1>1, <2>1, <2>2
  <1>4. \/ leader' = leader
        \/ LeaderAlive /\ leader' \in {"closed", "zombie"}
    BY DEF HelperStep, PrintLine, CloseOutput, LeaderEnds, LeaderCrashes, HeldDies, LeaderAlive
  <1> QED
    BY <1>1, <1>2, <1>3, <1>4
    DEF HelperInv, HelperTypeOK, EveryChild, HelperIsGone, At, LeaderAlive

LEMMA WorkerKeeps ==
    ASSUME HelperInv, Worker
    PROVE  HelperInv'
  <1>1. CASE BuildFails \/ StartFails \/ StartHelper
    BY <1>1 DEF BuildFails, StartFails, StartHelper, HelperInv, HelperTypeOK, EveryChild,
                HelperIsGone, At, Go, LeaderAlive
  <1>2. CASE ReadChunk
    <2>1. PICK n \in (taken + 1)..printed :
            /\ taken' = n
            /\ IF LinesTaken(n) = LineCount THEN Go("observing") /\ toRead' = Held
               ELSE UNCHANGED <<analysis, toRead>>
      BY <1>2 DEF ReadChunk
    <2>2. taken' \in 0..printed'
      <3>1. LineCount \in Nat /\ printed \in 0..(2 * LineCount) /\ taken \in 0..printed
        BY HelperAssumption DEF HelperInv, HelperTypeOK
      <3>2. printed' = printed
        BY <1>2 DEF ReadChunk
      <3> QED
        BY <2>1, <3>1, <3>2
    <2>3. \/ analysis' = "observing" /\ toRead' = Held
          \/ analysis' = analysis /\ toRead' = toRead
      BY <2>1 DEF Go
    <2>4. At("reading") /\ UNCHANGED <<error, leader, held, printed, detailed>>
      BY <1>2 DEF ReadChunk
    <2>5. HelperTypeOK'
      BY <2>2, <2>3, <2>4 DEF HelperInv, HelperTypeOK
    <2> QED
      BY <2>3, <2>4, <2>5 DEF HelperInv, HelperTypeOK, EveryChild, HelperIsGone, At
  <1>3. CASE ReadEnd \/ Deadline \/ ReadRaises
    BY <1>3, StopSignalKeeps DEF ReadEnd, Deadline, ReadRaises, At
  <1>4. CASE Observed
    BY <1>4, StopSignalKeeps DEF Observed, At, HelperInv, EveryChild
  <1>5. CASE StopWaited \/ StopKills
    BY <1>5 DEF StopWaited, StopKills, HelperInv, HelperTypeOK, EveryChild, HelperIsGone,
                At, Go, LeaderAlive
  <1>6. ASSUME NEW h \in Held, ReadTask(h) PROVE HelperInv'
    BY <1>6 DEF ReadTask, HelperInv, HelperTypeOK, EveryChild, HelperIsGone, At, LeaderAlive
  <1> QED
    BY <1>1, <1>2, <1>3, <1>4, <1>5, <1>6 DEF Worker

---------------------------------------------------------------------------
(* Side by side *)

LEMMA InvInit == Init => Inv
  <1> SUFFICES ASSUME Init PROVE Inv
    OBVIOUS
  <1>1. NoChild \in Child /\ ~ NoChild.stopped
    BY DEF NoChild, Child, Phases
  <1>2. Idle \in Ui /\ Idle.doing = "idle"
    BY DEF Ui, Idle
  <1>3. WorkloadTypeOK /\ OneStopping
    BY <1>1, <1>2 DEF Init, WorkloadInit, WorkloadTypeOK, OneStopping
  <1>4. HelperTypeOK /\ EveryChild /\ HelperIsGone
    <2>1. 0 \in 0..(2 * LineCount) /\ 0 \in 0..0
      BY HelperAssumption
    <2> QED
      BY <2>1
      DEF Init, HelperInit, HelperTypeOK, EveryChild, HelperIsGone, At, LeaderAlive
  <1> QED
    BY <1>3, <1>4 DEF Inv

LEMMA InvNext == Inv /\ [Next]_vars => Inv'
  <1> SUFFICES ASSUME Inv, [Next]_vars PROVE Inv'
    OBVIOUS
  <1>1. CASE WorkloadNext \/ UNCHANGED workloadVars
    <2>1. WorkloadTypeOK' /\ OneStopping'
      BY <1>1, WorkloadsKeep DEF Inv, workloadVars, WorkloadTypeOK, OneStopping, IsAlive
    <2>2. HelperInv'
      <3>1. HelperStep \/ Worker \/ UNCHANGED helperVars
        BY DEF Next, vars
      <3> QED
        BY <3>1, HelperStepKeeps, WorkerKeeps
        DEF Inv, HelperInv, helperVars, HelperTypeOK, EveryChild, HelperIsGone, At, LeaderAlive
    <2> QED
      BY <2>1, <2>2 DEF Inv, HelperInv
  <1> QED
    BY <1>1 DEF Next, vars

LEMMA InvAlways == Spec => []Inv
  BY InvInit, InvNext, PTL DEF Spec

---------------------------------------------------------------------------
(* The theorems *)

\* What was stopped is shown as stopped, however its child ended (stop and
\* status in operations/workloads.py).
THEOREM StoppedIsShown == Spec => []StatusIsTrue
  <1>1. Inv => StatusIsTrue
    BY DEF Inv, OneStopping, StatusIsTrue, Status
  <1> QED
    BY <1>1, InvAlways, PTL

\* The helper is dead when its analysis returns, on every path (Running.stop).
THEOREM HelperDies == Spec => []HelperIsGone
  <1>1. Inv => HelperIsGone
    BY DEF Inv
  <1> QED
    BY <1>1, InvAlways, PTL

\* A table without an error compares every child (_clone_matrix).
THEOREM TableIsWhole == Spec => []RowsOrError
  <1>1. Inv => RowsOrError
    BY DEF Inv, EveryChild, RowsOrError, At
  <1> QED
    BY <1>1, InvAlways, PTL

\* No task is read once the helper may be stopped (_clone_matrix).
THEOREM ReadsAreEarly == Spec => ReadWhileHeld
  <1>1. Inv /\ [Next]_vars => [detailed' # detailed => At("observing")]_helperVars
    <2> SUFFICES ASSUME [Next]_vars, ~ UNCHANGED helperVars, detailed' # detailed
                 PROVE  At("observing")
      OBVIOUS
    <2>1. HelperStep \/ Worker
      BY DEF Next, vars
    <2> QED
      BY <2>1 DEF HelperStep, Worker, PrintLine, CloseOutput, LeaderEnds, LeaderCrashes, HeldDies,
             BuildFails, StartFails, StartHelper, ReadChunk, ReadEnd, Deadline, ReadRaises,
             Observed, StopWaited, StopKills, ReadTask, StopSignal
  <1> QED
    BY <1>1, InvAlways, PTL DEF Spec, ReadWhileHeld

---------------------------------------------------------------------------
(* A traced command, for any number of threads: it never runs before the
   probes are there, none of its threads is missed, no stranger is counted,
   and nothing of it is left behind. *)

\* What holds at each place of trace_command.
TraceAt ==
    /\ launcher = "none" => pc \in {"start", "done"} /\ tracer = "none" /\ ours = {}
    /\ pc = "start" => tracer = "none" /\ launcher # "running"
    /\ pc \in {"attach", "resume"} => launcher = "stopped" /\ tracer # "none"
    /\ pc \in {"interrupt", "drain", "killtracer"} => launcher = "reaped" /\ tracer # "none"
    /\ pc = "drain" => tracer \in {"ending", "dead"}
    /\ pc = "killtracer" => tracer \in {"killed", "dead"}
    /\ pc = "done" /\ outcome # "raised" => launcher \in {"none", "reaped"}
                                            /\ tracer \in {"none", "dead"}

\* "Attached" is read from a tracer that is attached, and the launcher is
\* resumed after it.
ReadyFirst ==
    /\ ready => tracer \in {"attached", "ending", "killed", "dead"}
    /\ pc \in {"resume", "run", "grace"} => ready
    /\ launcher = "running" => ready
    /\ tracer \in {"ending", "killed"} /\ ~ready => ours = {}

\* SIGKILL goes to the whole group, and what is killed makes no more threads.
GroupKilled ==
    /\ pc \in {"start", "attach", "resume", "run", "grace", "kill"} => doomed = {}
    /\ pc \in {"reap", "interrupt", "drain", "killtracer", "done"} => group \subseteq doomed

\* Before the launcher is resumed it is the command's only thread; it keeps its
\* id, and its process is gone when its parent hears of it.
LauncherAlone ==
    /\ ~ready \/ launcher \in {"none", "starting", "stopped"} => ours \subseteq {Launcher} /\ execs = {}
    /\ launcher \in {"starting", "stopped"} => Launcher \in ours
    /\ Launcher \in Living => process[Launcher] = Launcher
    /\ \A t \in Ids : process[t] = Launcher => t \in ours
    /\ launcher \in {"none", "exited", "reaped"} => \A t \in Ids : process[t] # Launcher

\* A leader's id is its own, and an id given up in exec is nobody's.
IdsApart ==
    /\ \A t \in Living : process[t] \in Living => process[process[t]] = process[t]
    /\ \A x \in execs : x.old \in Living => x.old = x.new
    /\ \A x \in execs, t \in Ids : process[t] = x.old => x.old = x.new
    /\ \A x, y \in execs : x.old = y.old => x = y

\* The map holds the command's threads, those inside exec under their old id,
\* and until it is killed nothing else.
MapFollows ==
    /\ tracer = "begun" => tracked = {Launcher}
    /\ Active => /\ ours \ Execing \subseteq tracked
                 /\ {x.old : x \in execs} \subseteq tracked
    /\ pc \in {"attach", "resume", "run"} /\ Active =>
          tracked \subseteq ours \cup {x.old : x \in execs}

TraceInv == TraceTypeOK /\ TraceAt /\ ReadyFirst /\ GroupKilled /\ LauncherAlone /\ IdsApart /\ MapFollows
---------------------------------------------------------------------------
(* Every step keeps it *)

LEMMA TraceInitInv == TraceInit => TraceInv
  <1> USE IdsAssumption DEF TraceInv, TraceTypeOK, TraceAt, ReadyFirst, GroupKilled, LauncherAlone,
                        IdsApart, MapFollows, Living, Active, Execing
  <1> QED BY DEF TraceInit

\* The steps of trace_command leave the threads alone, but for the first and
\* for the kill.
LEMMA MainInv ==
    ASSUME TraceInv, Main
    PROVE  TraceInv'
  <1> USE IdsAssumption DEF TraceInv, TraceTypeOK, TraceAt, ReadyFirst, GroupKilled, LauncherAlone,
                        IdsApart, MapFollows, Living, Active, Execing, main, tasks
  <1>1. CASE NoTool
    BY <1>1 DEF NoTool
  <1>2. CASE Launch
    BY <1>2 DEF Launch
  <1>3. CASE LauncherFails
    BY <1>3 DEF LauncherFails
  <1>4. CASE StartTracer
    BY <1>4 DEF StartTracer
  <1>5. CASE TracerFails
    BY <1>5 DEF TracerFails
  <1>6. CASE AttachSeen
    BY <1>6 DEF AttachSeen
  <1>7. CASE AttachFails
    BY <1>7 DEF AttachFails
  <1>8. CASE Resume
    BY <1>8 DEF Resume
  <1>9. CASE LauncherEnds
    BY <1>9 DEF LauncherEnds
  <1>10. CASE CommandTimesOut
    BY <1>10 DEF CommandTimesOut
  <1>11. CASE GraceEnds
    BY <1>11 DEF GraceEnds
  <1>12. CASE KillGroup
    BY <1>12 DEF KillGroup
  <1>13. CASE Reap
    BY <1>13 DEF Reap
  <1>14. CASE ReapTimesOut
    BY <1>14 DEF ReapTimesOut
  <1>15. CASE Interrupt
    BY <1>15 DEF Interrupt
  <1>16. CASE Return
    BY <1>16 DEF Return
  <1>17. CASE DrainTimesOut
    BY <1>17 DEF DrainTimesOut
  <1>18. CASE KillTracerTimesOut
    BY <1>18 DEF KillTracerTimesOut
  <1> QED BY <1>1, <1>2, <1>3, <1>4, <1>5, <1>6, <1>7, <1>8, <1>9,
             <1>10, <1>11, <1>12, <1>13, <1>14, <1>15, <1>16, <1>17, <1>18 DEF Main

\* bpftrace seeds the map while the launcher is the only thread.
LEMMA TracerInv ==
    ASSUME TraceInv, TracerBegins \/ TracerAttaches \/ WatcherReads \/ TracerExits
    PROVE  TraceInv'
  <1> USE IdsAssumption DEF TraceInv, TraceTypeOK, TraceAt, ReadyFirst, GroupKilled, LauncherAlone,
                        IdsApart, MapFollows, Living, Active, Execing, tasks
  <1>1. CASE TracerBegins
    BY <1>1 DEF TracerBegins
  <1>2. CASE TracerAttaches
    BY <1>2 DEF TracerAttaches
  <1>3. CASE WatcherReads
    BY <1>3 DEF WatcherReads
  <1>4. CASE TracerExits
    BY <1>4 DEF TracerExits
  <1> QED BY <1>1, <1>2, <1>3, <1>4

LEMMA LauncherStopsInv == TraceInv /\ LauncherStops => TraceInv'
  <1> USE IdsAssumption DEF TraceInv, TraceTypeOK, TraceAt, ReadyFirst, GroupKilled, LauncherAlone,
                        IdsApart, MapFollows, Living, Active, Execing, tasks
  <1> QED BY DEF LauncherStops

\* A new thread takes an id that no thread and no exec holds.
LEMMA ForkInv ==
    ASSUME TraceInv, NEW t \in Ids, NEW u \in Ids, NEW asThread \in BOOLEAN, Fork(t, u, asThread)
    PROVE  TraceInv'
  <1> USE IdsAssumption DEF TraceInv, TraceTypeOK, TraceAt, ReadyFirst, GroupKilled, LauncherAlone,
                        IdsApart, MapFollows, Living, Active, Execing, main
  <1> QED BY DEF Fork, Runs, Unused

LEMMA LeaveGroupInv ==
    ASSUME TraceInv, NEW t \in Ids, LeaveGroup(t)
    PROVE  TraceInv'
  <1> USE IdsAssumption DEF TraceInv, TraceTypeOK, TraceAt, ReadyFirst, GroupKilled, LauncherAlone,
                        IdsApart, MapFollows, Living, Active, Execing, main
  <1> QED BY DEF LeaveGroup, Runs

LEMMA StrangerInv ==
    ASSUME TraceInv, NEW t \in Ids, StrangerStarts(t) \/ StrangerExits(t)
    PROVE  TraceInv'
  <1> USE IdsAssumption DEF TraceInv, TraceTypeOK, TraceAt, ReadyFirst, GroupKilled, LauncherAlone,
                        IdsApart, MapFollows, Living, Active, Execing, main
  <1>1. CASE StrangerStarts(t)
    BY <1>1 DEF StrangerStarts, Unused
  <1>2. CASE StrangerExits(t)
    BY <1>2 DEF StrangerExits
  <1> QED BY <1>1, <1>2

\* The probe moves a thread's entry from its old id to its new one.
LEMMA ExecProbeInv ==
    ASSUME TraceInv, NEW x \in execs, ExecProbe(x)
    PROVE  TraceInv'
  <1> USE IdsAssumption DEF TraceInv, TraceTypeOK, TraceAt, ReadyFirst, GroupKilled, LauncherAlone,
                        IdsApart, MapFollows, Living, Active, Execing, main
  <1> QED BY DEF ExecProbe

\* A thread that execs is alone in its process, so the leader's id it takes
\* over is its own or nobody's.
LEMMA ExecInv ==
    ASSUME TraceInv, NEW t \in Ids, Exec(t)
    PROVE  TraceInv'
  <1> DEFINE p == process[t]
  <1> DEFINE r == [old |-> t, new |-> p]
  <1> USE IdsAssumption DEF TraceInv, TraceTypeOK, Living
  <1>1. /\ t \in ours /\ t \notin doomed /\ t \notin Execing /\ p \in Ids
        /\ process[t] = p /\ r.old = t /\ r.new = p
        /\ p = Launcher => launcher = "running"
        /\ \A u \in Living : process[u] = p => u = t
        /\ process' = [process EXCEPT ![t] = NoProcess, ![p] = p]
        /\ ours' = (ours \ {t}) \cup {p}
        /\ group' = IF t \in group THEN (group \ {t}) \cup {p} ELSE group
        /\ execs' = execs \cup {r} /\ r \in [old: Ids, new: Ids]
        /\ UNCHANGED <<main, doomed, tracked>>
    <2>1. p \in Ids /\ t \in Ids
      BY DEF TraceTypeOK, Living, Exec, Runs
    <2>2. r.old = t /\ r.new = p /\ r \in [old: Ids, new: Ids]
      BY <2>1
    <2>3. execs' = execs \cup {r}
      BY DEF Exec
    <2>4. /\ t \in ours /\ t \notin doomed /\ t \notin Execing
          /\ p = Launcher => launcher = "running"
          /\ \A u \in Living : process[u] = p => u = t
          /\ process' = [process EXCEPT ![t] = NoProcess, ![p] = p]
          /\ ours' = (ours \ {t}) \cup {p}
          /\ group' = IF t \in group THEN (group \ {t}) \cup {p} ELSE group
          /\ UNCHANGED <<main, doomed, tracked>>
      BY DEF Exec, Runs
    <2> HIDE DEF r
    <2> QED BY <2>1, <2>2, <2>3, <2>4
  <1> HIDE DEF p, r
  <1>2. p \notin Living \ {t}
    BY <1>1 DEF IdsApart
  <1>3. Living' = (Living \ {t}) \cup {p}
    BY <1>1
  <1>4. Execing' = Execing \cup {p}
    BY <1>1 DEF Execing
  <1>5. TraceTypeOK'
    <2>1. execs \subseteq [old: Ids, new: ours \ {t}]
      BY <1>1 DEF Execing
    <2>2. execs' \subseteq [old: Ids, new: ours']
      BY <1>1, <2>1
    <2>3. process' \in [Ids -> Ids \cup {NoProcess}]
      BY <1>1
    <2>4. ours' \subseteq Living' /\ group' \subseteq ours' /\ doomed' \subseteq ours'
      BY <1>1, <1>3 DEF main
    <2> HIDE DEF Living
    <2> QED BY <1>1, <2>2, <2>3, <2>4 DEF main
  <1>6. TraceAt'
    BY <1>1 DEF TraceAt, main
  <1>7. ReadyFirst'
    BY <1>1 DEF ReadyFirst, main
  <1>8. GroupKilled'
    BY <1>1 DEF GroupKilled, main
  <1>9. LauncherAlone'
    <2>1. t = Launcher => launcher = "running" /\ ready
      BY <1>1 DEF LauncherAlone, ReadyFirst
    <2>2. (ready /\ launcher \notin {"none", "starting", "stopped"}) \/ t = Launcher
      BY <1>1 DEF LauncherAlone
    <2>3. /\ Launcher \in Living' => process'[Launcher] = Launcher
          /\ \A u \in Ids : process'[u] = Launcher => u \in ours'
      BY <1>1, <1>3 DEF LauncherAlone
    <2>4. launcher' \in {"none", "exited", "reaped"} => \A u \in Ids : process'[u] # Launcher
      BY <1>1 DEF LauncherAlone, main
    <2> QED BY <1>1, <2>1, <2>2, <2>3, <2>4 DEF LauncherAlone, main
  <1>10. IdsApart'
    <2>1. \A u \in Living' : process'[u] \in Living' => process'[process'[u]] = process'[u]
      BY <1>1, <1>2, <1>3 DEF IdsApart
    <2>2. p # t => \A u \in Ids : process'[u] # t
      BY <1>1 DEF IdsApart
    <2>3. \A x \in execs : x.old # t
      BY <1>1 DEF IdsApart, Execing
    <2>4. \A x \in execs' : x.old \in Living' => x.old = x.new
      BY <1>1, <1>3 DEF IdsApart
    <2>5. \A x \in execs', u \in Ids : process'[u] = x.old => x.old = x.new
      BY <1>1, <2>2 DEF IdsApart
    <2>6. \A x, y \in execs' : x.old = y.old => x = y
      BY <1>1, <2>3 DEF IdsApart
    <2> QED BY <2>1, <2>4, <2>5, <2>6 DEF IdsApart
  <1>11. MapFollows'
    BY <1>1, <1>2, <1>3, <1>4 DEF MapFollows, main, Active
  <1> QED BY <1>5, <1>6, <1>7, <1>8, <1>9, <1>10, <1>11

\* A thread that exits is in the map under its own id, unless it is killed
\* inside exec.
LEMMA ExitInv ==
    ASSUME TraceInv, NEW t \in Ids, Exit(t)
    PROVE  TraceInv'
  <1> USE IdsAssumption DEF TraceInv, TraceTypeOK, Living, Execing
  <1>1. /\ t \in ours
        /\ t \in doomed \/ (t \notin Execing /\ (process[t] = Launcher => launcher \in {"running", "starting"}))
        /\ process' = [process EXCEPT ![t] = NoProcess]
        /\ ours' = ours \ {t} /\ group' = group \ {t} /\ doomed' = doomed \ {t}
        /\ execs' = {x \in execs : x.new # t}
        /\ launcher' = IF process[t] = Launcher /\ \A u \in Ids \ {t} : process[u] # Launcher
                       THEN "exited" ELSE launcher
        /\ UNCHANGED <<pc, outcome, tracer, ready>>
        /\ tracked' = IF Active THEN tracked \ {t} ELSE tracked
    BY DEF Exit, MayExit, Leaves, Runs, LauncherAlone
  <1>2. Living' = Living \ {t} /\ Execing' = Execing \ {t}
    BY <1>1
  <1>3. TraceTypeOK'
    BY <1>1, <1>2 DEF TraceTypeOK
  <1>4. TraceAt'
    BY <1>1, <1>2 DEF TraceAt, LauncherAlone, TraceAt, GroupKilled
  <1>5. ReadyFirst'
    BY <1>1, <1>2 DEF ReadyFirst, LauncherAlone, TraceAt, GroupKilled
  <1>6. GroupKilled'
    BY <1>1, <1>2 DEF GroupKilled
  <1>7. LauncherAlone'
    <2>1. launcher' \in {"starting", "stopped"} => t # Launcher
      BY <1>1 DEF LauncherAlone
    <2>2. \A u \in Ids : process'[u] = Launcher => process[u] = Launcher /\ u # t
      BY <1>1
    <2>3. launcher' \in {"none", "exited", "reaped"} => \A u \in Ids : process'[u] # Launcher
      BY <1>1, <2>2 DEF LauncherAlone
    <2> QED BY <1>1, <1>2, <2>1, <2>2, <2>3 DEF LauncherAlone
  <1>8. IdsApart'
    BY <1>1, <1>2 DEF IdsApart
  <1>9. MapFollows'
    BY <1>1, <1>2 DEF MapFollows, Active, LauncherAlone, IdsApart, GroupKilled
  <1> QED BY <1>3, <1>4, <1>5, <1>6, <1>7, <1>8, <1>9

LEMMA TraceNextInv == TraceInv /\ [TraceNext]_traceVars => TraceInv'
  <1> SUFFICES ASSUME TraceInv, [TraceNext]_traceVars PROVE TraceInv'
    OBVIOUS
  <1>1. CASE Main
    BY <1>1, MainInv
  <1>2. CASE TracerBegins \/ TracerAttaches \/ WatcherReads \/ TracerExits
    BY <1>2, TracerInv
  <1>3. CASE LauncherStops
    BY <1>3, LauncherStopsInv
  <1>4. ASSUME NEW t \in Ids,
               LeaveGroup(t) \/ Exec(t) \/ Exit(t) \/ StrangerStarts(t) \/ StrangerExits(t)
        PROVE  TraceInv'
    BY <1>4, LeaveGroupInv, ExecInv, ExitInv, StrangerInv
  <1>5. ASSUME NEW t \in Ids, NEW u \in Ids, NEW asThread \in BOOLEAN, Fork(t, u, asThread)
        PROVE  TraceInv'
    BY <1>5, ForkInv
  <1>6. ASSUME NEW x \in execs, ExecProbe(x)
        PROVE  TraceInv'
    BY <1>6, ExecProbeInv
  <1>7. CASE UNCHANGED traceVars
    BY <1>7 DEF traceVars, TraceInv, TraceTypeOK, TraceAt, ReadyFirst, GroupKilled, LauncherAlone, IdsApart,
                MapFollows, Living, Active, Execing
  <1> QED BY <1>1, <1>2, <1>3, <1>4, <1>5, <1>6, <1>7 DEF TraceNext

LEMMA TraceInvHolds == TraceSpec => []TraceInv
  BY TraceInitInv, TraceNextInv, PTL DEF TraceSpec

---------------------------------------------------------------------------
(* What it gives *)

\* Types, for any ids.
THEOREM TraceTypeCorrect == TraceSpec => []TraceTypeOK
  <1>1. TraceInv => TraceTypeOK
    BY DEF TraceInv
  <1> QED BY <1>1, TraceInvHolds, PTL

\* The launcher is resumed only after the probes are attached, so no thread of
\* the command runs unseen; and from then on none is missing from the map but
\* inside exec.
THEOREM CommandIsFollowed == TraceSpec => []Followed
  <1>1. TraceInv => Followed
    BY DEF TraceInv, ReadyFirst, MapFollows, NoBlindRun, NoEventLost, Followed
  <1> QED BY <1>1, TraceInvHolds, PTL

\* Whatever ids the kernel hands out again, no stranger is counted.
THEOREM StrangersAreNot == TraceSpec => []NoStranger
  <1>1. TraceInv => NoStranger
    BY DEF TraceInv, TraceTypeOK, MapFollows, IdsApart, Living, NoStranger
  <1> QED BY <1>1, TraceInvHolds, PTL

\* However the call ends, the group got SIGKILL, and a call that returns a
\* result left no tracer.
THEOREM NothingLeftBehind == TraceSpec => []CleanedUp
  <1>1. TraceInv => CleanedUp
    BY DEF TraceInv, TraceAt, GroupKilled, CleanedUp
  <1> QED BY <1>1, TraceInvHolds, PTL
===============================================================================
