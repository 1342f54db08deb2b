---------------------------- MODULE TraceCommand ----------------------------
(***************************************************************************)
(* Tracing a command (trace_command in kexplore/core/probe.py): a launcher *)
(* is started stopped, bpftrace is attached, the launcher is resumed, and  *)
(* after its time both are cleaned up.  The tracer finds the command's     *)
(* tasks in a map that the script of _tracking_script keeps up at every    *)
(* fork, exec and exit.                                                    *)
(*                                                                         *)
(* The kernel, bpftrace and the command are the environment: they act when *)
(* they like.  Ids are handed out in turn, so an id that is given up is not*)
(* given out again while the exec that gave it up is under way, nor the    *)
(* launcher's before the call is over.                                     *)
(***************************************************************************)
CONSTANTS
    Ids,        \* thread ids
    Launcher,   \* the one of the launcher
    NoProcess   \* of an id that no thread has

ASSUME IdsAssumption == Launcher \in Ids /\ NoProcess \notin Ids

VARIABLES
    pc,         \* where trace_command is
    outcome,    \* what it returns: how the command ended, or an error
    launcher,   \* the launcher process, as its parent sees it
    tracer,     \* the bpftrace process
    ready,      \* the event the watcher thread sets
    process,    \* the process each thread belongs to, named by its leader
    ours,       \* the threads that descend from the launcher
    group,      \* those in its process group
    doomed,     \* those with SIGKILL pending
    execs,      \* the threads inside exec, and the ids they had before it
    tracked     \* the map @trace_tasks

main      == <<pc, outcome, launcher, tracer, ready>>
tasks     == <<process, ours, group, doomed, execs>>
traceVars == <<pc, outcome, launcher, tracer, ready, process, ours, group, doomed, execs, tracked>>

Living  == {t \in Ids : process[t] # NoProcess}
Active  == tracer \in {"attached", "ending", "killed"}
Execing == {x.new : x \in execs}

---------------------------------------------------------------------------
(* trace_command *)

\* bpftrace is not installed.
NoTool ==
    /\ pc = "start" /\ launcher = "none"
    /\ pc' = "done" /\ outcome' = "error"
    /\ UNCHANGED <<launcher, tracer, ready, tasks, tracked>>

\* _start_stopped: a shell that will stop itself, in a group of its own
Launch ==
    /\ pc = "start" /\ launcher = "none"
    /\ launcher' = "starting"
    /\ process' = [process EXCEPT ![Launcher] = Launcher]
    /\ ours' = {Launcher} /\ group' = {Launcher}
    /\ UNCHANGED <<pc, outcome, tracer, ready, doomed, execs, tracked>>

\* It exited before it stopped, or did not stop within 5 s.
LauncherFails ==
    /\ pc = "start" /\ launcher \in {"starting", "exited"}
    /\ pc' = "kill" /\ outcome' = "error"
    /\ launcher' = IF launcher = "exited" THEN "reaped" ELSE launcher
    /\ UNCHANGED <<tracer, ready, tasks, tracked>>

\* It stopped: bpftrace is started, and a thread that reads what it prints.
StartTracer ==
    /\ pc = "start" /\ launcher = "stopped"
    /\ pc' = "attach" /\ tracer' = "starting"
    /\ UNCHANGED <<outcome, launcher, ready, tasks, tracked>>

\* bpftrace could not be run.
TracerFails ==
    /\ pc = "start" /\ launcher = "stopped"
    /\ pc' = "kill" /\ outcome' = "error"
    /\ UNCHANGED <<launcher, tracer, ready, tasks, tracked>>

\* "Attached" was read and bpftrace runs.
AttachSeen ==
    /\ pc = "attach" /\ ready /\ tracer # "dead"
    /\ pc' = "resume"
    /\ UNCHANGED <<outcome, launcher, tracer, ready, tasks, tracked>>

\* bpftrace exited, or its time to attach is over.
AttachFails ==
    /\ pc = "attach" /\ (tracer = "dead" \/ ~ready)
    /\ pc' = "kill" /\ outcome' = "error"
    /\ UNCHANGED <<launcher, tracer, ready, tasks, tracked>>

\* SIGCONT
Resume ==
    /\ pc = "resume"
    /\ pc' = "run" /\ launcher' = "running"
    /\ UNCHANGED <<outcome, tracer, ready, tasks, tracked>>

\* _wait_briefly: the launcher exits within its time.
LauncherEnds ==
    /\ pc = "run" /\ launcher = "exited"
    /\ pc' = "kill" /\ launcher' = "reaped" /\ outcome' = "ended"
    /\ UNCHANGED <<tracer, ready, tasks, tracked>>

\* It does not: SIGINT to its group, and 2 s for it to exit.
CommandTimesOut ==
    /\ pc = "run" /\ launcher = "running"
    /\ pc' = "grace" /\ outcome' = "cut"
    /\ UNCHANGED <<launcher, tracer, ready, tasks, tracked>>

\* Mistake: after SIGINT the launcher is waited for without a time limit.
GraceEndsOnExit ==
    /\ pc = "grace" /\ launcher = "exited"
    /\ pc' = "kill" /\ launcher' = "reaped"
    /\ UNCHANGED <<outcome, tracer, ready, tasks, tracked>>

GraceEnds ==
    /\ pc = "grace"
    /\ pc' = "kill"
    /\ launcher' = IF launcher = "exited" THEN "reaped" ELSE launcher
    /\ UNCHANGED <<outcome, tracer, ready, tasks, tracked>>

\* Mistake: only the launcher is killed, there or not.
KillLauncher ==
    /\ pc = "kill"
    /\ pc' = "reap" /\ doomed' = doomed \cup {Launcher}
    /\ UNCHANGED <<outcome, launcher, tracer, ready, process, ours, group, execs, tracked>>

\* _kill_group: SIGKILL to the launcher's group, whoever is left in it
KillGroup ==
    /\ pc = "kill"
    /\ pc' = "reap" /\ doomed' = doomed \cup group
    /\ UNCHANGED <<outcome, launcher, tracer, ready, process, ours, group, execs, tracked>>

\* Mistake: a tracer that did not attach is not stopped.
ReapAfterError ==
    /\ pc = "reap" /\ launcher \in {"exited", "reaped"}
    /\ launcher' = "reaped"
    /\ pc' = IF tracer = "none" \/ outcome = "error" THEN "done" ELSE "interrupt"
    /\ UNCHANGED <<outcome, tracer, ready, tasks, tracked>>

\* The launcher is gone: the tracer is next, if there is one.
Reap ==
    /\ pc = "reap" /\ launcher \in {"exited", "reaped"}
    /\ launcher' = "reaped"
    /\ pc' = IF tracer = "none" THEN "done" ELSE "interrupt"
    /\ UNCHANGED <<outcome, tracer, ready, tasks, tracked>>

\* It is not gone after 5 s, asleep where no signal wakes it: TimeoutExpired
\* leaves the finally block.
ReapTimesOut ==
    /\ pc = "reap" /\ launcher \notin {"exited", "reaped"}
    /\ pc' = "done" /\ outcome' = "raised"
    /\ UNCHANGED <<launcher, tracer, ready, tasks, tracked>>

\* SIGINT to a tracer that runs, and 20 s for it to print its maps
Interrupt ==
    /\ pc = "interrupt"
    /\ pc' = "drain"
    /\ tracer' = IF tracer = "dead" THEN "dead" ELSE "ending"
    /\ UNCHANGED <<outcome, launcher, ready, tasks, tracked>>

\* The tracer is gone.  A command that was run has a result, or an error if no
\* event was recorded.
Return ==
    /\ pc \in {"drain", "killtracer"} /\ tracer = "dead"
    /\ pc' = "done"
    /\ outcome' \in {outcome, "error"}
    /\ UNCHANGED <<launcher, tracer, ready, tasks, tracked>>

DrainTimesOut ==
    /\ pc = "drain" /\ tracer # "dead"
    /\ pc' = "killtracer" /\ tracer' = "killed"
    /\ UNCHANGED <<outcome, launcher, ready, tasks, tracked>>

\* The tracer is not gone 5 s after SIGKILL.
KillTracerTimesOut ==
    /\ pc = "killtracer" /\ tracer # "dead"
    /\ pc' = "done" /\ outcome' = "raised"
    /\ UNCHANGED <<launcher, tracer, ready, tasks, tracked>>

Main ==
    \/ NoTool \/ Launch \/ LauncherFails \/ StartTracer \/ TracerFails
    \/ AttachSeen \/ AttachFails \/ Resume \/ LauncherEnds \/ CommandTimesOut \/ GraceEnds
    \/ KillGroup \/ Reap \/ ReapTimesOut
    \/ Interrupt \/ Return \/ DrainTimesOut \/ KillTracerTimesOut

---------------------------------------------------------------------------
(* bpftrace, and the thread that reads its messages *)

\* BEGIN enters the launcher into the map, before the other probes are there.
TracerBegins ==
    /\ tracer = "starting" /\ tracer' = "begun"
    /\ tracked' = {Launcher}
    /\ UNCHANGED <<pc, outcome, launcher, ready, tasks>>

TracerAttaches ==
    /\ tracer = "begun" /\ tracer' = "attached"
    /\ UNCHANGED <<pc, outcome, launcher, ready, tasks, tracked>>

WatcherReads ==
    /\ tracer = "attached" /\ ready' = TRUE
    /\ UNCHANGED <<pc, outcome, launcher, tracer, tasks, tracked>>

\* bpftrace fails, ends after SIGINT, or is killed.
TracerExits ==
    /\ tracer \notin {"none", "dead"} /\ tracer' = "dead"
    /\ UNCHANGED <<pc, outcome, launcher, ready, tasks, tracked>>

---------------------------------------------------------------------------
(* The command's threads, and the probes that follow them *)

\* kill -STOP $$
LauncherStops ==
    /\ launcher = "starting" /\ Launcher \in ours \ doomed
    /\ launcher' = "stopped"
    /\ UNCHANGED <<pc, outcome, tracer, ready, tasks, tracked>>

\* A thread that may run user code
Runs(t) ==
    /\ t \in ours \ (doomed \cup Execing)
    /\ process[t] = Launcher => launcher = "running"

Unused(u) ==
    /\ u \notin Living \cup {Launcher}
    /\ \A t \in Ids : process[t] # u
    /\ \A x \in execs : x.old # u

\* sched_process_fork, for a process or for a thread
Fork(t, u, asThread) ==
    /\ Runs(t) /\ Unused(u)
    /\ process' = [process EXCEPT ![u] = IF asThread THEN process[t] ELSE u]
    /\ ours' = ours \cup {u}
    /\ group' = IF t \in group THEN group \cup {u} ELSE group
    /\ tracked' = IF Active /\ t \in tracked THEN tracked \cup {u} ELSE tracked
    /\ UNCHANGED <<main, doomed, execs>>

\* setsid() of a process that leads no group
LeaveGroup(t) ==
    /\ Runs(t) /\ process[t] # Launcher
    /\ group' = group \ {u \in Ids : process[u] = process[t]}
    /\ UNCHANGED <<main, process, ours, doomed, execs, tracked>>

\* exec: once the other threads of its process are gone, a thread has the id of
\* its leader.
Exec(t) ==
    /\ Runs(t)
    /\ \A u \in Living : process[u] = process[t] => u = t
    /\ process' = [process EXCEPT ![t] = NoProcess, ![process[t]] = process[t]]
    /\ ours' = (ours \ {t}) \cup {process[t]}
    /\ group' = IF t \in group THEN (group \ {t}) \cup {process[t]} ELSE group
    /\ execs' = execs \cup {[old |-> t, new |-> process[t]]}
    /\ UNCHANGED <<main, doomed, tracked>>

\* Mistake: the new id is entered before the old one is deleted.
ExecProbeDeletesLast(x) ==
    /\ x \in execs
    /\ execs' = execs \ {x}
    /\ tracked' = IF Active /\ x.old \in tracked
                  THEN (tracked \cup {x.new}) \ {x.old} ELSE tracked
    /\ UNCHANGED <<main, process, ours, group, doomed>>

\* sched_process_exec
ExecProbe(x) ==
    /\ x \in execs
    /\ execs' = execs \ {x}
    /\ tracked' = IF Active /\ x.old \in tracked
                  THEN (tracked \ {x.old}) \cup {x.new} ELSE tracked
    /\ UNCHANGED <<main, process, ours, group, doomed>>

\* The threads, and the launcher when its last one is gone, after t exits
Leaves(t) ==
    /\ process' = [process EXCEPT ![t] = NoProcess]
    /\ ours' = ours \ {t} /\ group' = group \ {t} /\ doomed' = doomed \ {t}
    /\ execs' = {x \in execs : x.new # t}
    /\ launcher' = IF process[t] = Launcher /\ \A u \in Ids \ {t} : process[u] # Launcher
                   THEN "exited" ELSE launcher
    /\ UNCHANGED <<pc, outcome, tracer, ready>>

\* A thread inside exec is killed by SIGKILL alone: an exec that fails after it
\* gave up its id is left out.
MayExit(t) ==
    \/ t \in doomed \/ Runs(t)
    \/ t = Launcher /\ t \in ours /\ launcher = "starting"

\* Mistake: threads are not deleted from the map when they exit.
ExitUnseen(t) == MayExit(t) /\ Leaves(t) /\ UNCHANGED tracked

\* sched_process_exit
Exit(t) ==
    /\ MayExit(t) /\ Leaves(t)
    /\ tracked' = IF Active THEN tracked \ {t} ELSE tracked

\* Threads that have nothing to do with the command
StrangerStarts(u) ==
    /\ Unused(u)
    /\ process' = [process EXCEPT ![u] = u]
    /\ UNCHANGED <<main, ours, group, doomed, execs, tracked>>

StrangerExits(u) ==
    /\ u \in Living \ ours
    /\ process' = [process EXCEPT ![u] = NoProcess]
    /\ tracked' = IF Active THEN tracked \ {u} ELSE tracked
    /\ UNCHANGED <<main, ours, group, doomed, execs>>

---------------------------------------------------------------------------
TraceInit ==
    /\ pc = "start" /\ outcome = "none"
    /\ launcher = "none" /\ tracer = "none" /\ ready = FALSE
    /\ process \in {p \in [Ids -> Ids \cup {NoProcess}] :
                      p[Launcher] = NoProcess /\ \A t \in Ids : p[t] \in {t, NoProcess}}
    /\ ours = {} /\ group = {} /\ doomed = {} /\ execs = {} /\ tracked = {}

TraceNext ==
    \/ Main
    \/ TracerBegins \/ TracerAttaches \/ WatcherReads \/ TracerExits \/ LauncherStops
    \/ \E t \in Ids : LeaveGroup(t) \/ Exec(t) \/ Exit(t) \/ StrangerStarts(t) \/ StrangerExits(t)
    \/ \E t, u \in Ids, asThread \in BOOLEAN : Fork(t, u, asThread)
    \/ \E x \in execs : ExecProbe(x)

TraceSpec == TraceInit /\ [][TraceNext]_traceVars

\* trace_command goes on when it can: its thread is scheduled.
TraceFairSpec == TraceSpec /\ WF_traceVars(Main)

---------------------------------------------------------------------------
(* Properties *)

\* Every variable has its type, and every thread that is marked is alive.
TraceTypeOK ==
    /\ pc \in {"start", "attach", "resume", "run", "grace", "kill", "reap",
               "interrupt", "drain", "killtracer", "done"}
    /\ outcome \in {"none", "ended", "cut", "error", "raised"}
    /\ launcher \in {"none", "starting", "stopped", "running", "exited", "reaped"}
    /\ tracer \in {"none", "starting", "begun", "attached", "ending", "killed", "dead"}
    /\ ready \in BOOLEAN
    /\ process \in [Ids -> Ids \cup {NoProcess}]
    /\ ours \subseteq Living /\ group \subseteq ours /\ doomed \subseteq ours
    /\ execs \subseteq [old: Ids, new: ours]
    /\ tracked \subseteq Ids

\* "the launcher resumes only after bpftrace reports Attached, not at BEGIN"
NoBlindRun == launcher = "running" => tracer \notin {"none", "starting", "begun"}

\* "The map follows thread IDs across fork/clone": while the probes are there
\* no thread of the command is missing from the map, but for one inside exec.
NoEventLost == Active => ours \ Execing \subseteq tracked

\* From its first instruction to the end of the measurement every thread of the
\* command is followed, whatever it forks, execs or leaves.
Followed == NoBlindRun /\ NoEventLost

\* "avoiding ... stale membership when the kernel reuses an ID": while the
\* command is timed, what is in the map and alive descends from the launcher.
NoStranger == pc \in {"attach", "resume", "run"} /\ Active => tracked \cap Living \subseteq ours

\* "leave no tracer running after the result is displayed"
TracerStopped == pc = "done" => tracer \in {"none", "dead"}

\* "The process group is cleaned up on success, timeout, and attachment
\* failure": none of the group outlives the call without SIGKILL; and a call
\* that returns a result has reaped the launcher and seen the tracer go.
CleanedUp ==
    pc = "done" => /\ group \subseteq doomed
                   /\ outcome # "raised" => /\ launcher \in {"none", "reaped"}
                                           /\ tracer \in {"none", "dead"}

\* The call ends, whatever the command, the tracer and the launcher do.
CallEnds == <>(pc = "done")
=============================================================================
