-------------------------------- MODULE Helper --------------------------------
(***************************************************************************)
(* A controlled experiment: the helper program it runs and the analysis    *)
(* that reads the tasks the helper holds (kexplore/core/experiment.py and  *)
(* kexplore/operations/clone_experiment.py).  The analysis is one worker   *)
(* thread; the helper is a leader and the children it clones, in a process *)
(* group of their own.                                                     *)
(***************************************************************************)
EXTENDS Integers, FiniteSets

CONSTANTS
    LineCount,  \* bound: lines the helper prints, the last one is READY
    Held        \* the children the helper clones and holds

ASSUME HelperAssumption == LineCount \in Nat \ {0} /\ IsFiniteSet(Held)

VARIABLES
    analysis,   \* where the worker is
    error,      \* Running.error, or why the helper was not built
    leader,     \* the helper's leader
    held,       \* what each child does
    printed,    \* half lines the helper has written to its output
    taken,      \* half lines the worker has read
    toRead,     \* the children whose task is still to be read
    detailed    \* the children whose comparison was built

helperVars == <<analysis, error, leader, held, printed, taken, toRead, detailed>>

\* "closed": alive with its output closed; "zombie": not yet waited for.
LeaderAlive == leader \in {"running", "closed"}
At(w) == analysis = w
Go(w) == analysis' = w

---------------------------------------------------------------------------
(* The helper *)

\* Half a line of output: what a read returns may end inside a line.  Once
\* it was asked to end, its handler prints nothing more.
PrintLine ==
    /\ leader = "running" /\ printed < 2 * LineCount /\ ~ At("stopping")
    /\ printed' = printed + 1
    \* the children it holds are printed, and are there, before READY
    /\ held' = IF printed' = 2 * LineCount - 1
               THEN [h \in Held |-> "held"] ELSE held
    /\ UNCHANGED <<analysis, error, leader, taken, toRead, detailed>>

CloseOutput ==
    /\ leader = "running" /\ leader' = "closed"
    /\ UNCHANGED <<analysis, error, held, printed, taken, toRead, detailed>>

\* Its time is over, or it was asked to end: cleanup kills the children.
LeaderEnds ==
    /\ LeaderAlive /\ leader' = "zombie"
    /\ held' = [h \in Held |-> "gone"]
    /\ UNCHANGED <<analysis, error, printed, taken, toRead, detailed>>

\* It dies without its cleanup.
LeaderCrashes ==
    /\ LeaderAlive /\ leader' = "zombie"
    /\ UNCHANGED <<analysis, error, held, printed, taken, toRead, detailed>>

HeldDies(h) ==
    /\ held[h] = "signalled" /\ held' = [held EXCEPT ![h] = "gone"]
    /\ UNCHANGED <<analysis, error, leader, printed, taken, toRead, detailed>>

---------------------------------------------------------------------------
(* Running.stop *)

Signalled == [h \in Held |-> IF held[h] = "held" THEN "signalled" ELSE held[h]]

\* poll says it is alive: its process group is signalled.  One that has died
\* is reaped by poll, and its group is left alone.
StopSignal(then) ==
    IF LeaderAlive
    THEN held' = Signalled /\ Go(then) /\ UNCHANGED leader
    ELSE /\ leader' = (IF leader = "zombie" THEN "reaped" ELSE leader)
         /\ Go("done") /\ UNCHANGED held

\* wait(timeout=5)
StopWaited ==
    /\ At("stopping") /\ ~ LeaderAlive
    /\ leader' = "reaped" /\ Go("done")
    /\ UNCHANGED <<error, held, printed, taken, toRead, detailed>>

\* Mistake: a helper that is still there after five seconds is left.
StopGivesUp ==
    /\ At("stopping") /\ LeaderAlive
    /\ Go("done")
    /\ UNCHANGED <<error, leader, held, printed, taken, toRead, detailed>>

\* Five seconds later it is killed, without its cleanup and without a wait.
StopKills ==
    /\ At("stopping") /\ LeaderAlive
    /\ leader' = "zombie" /\ Go("done")
    /\ UNCHANGED <<error, held, printed, taken, toRead, detailed>>

---------------------------------------------------------------------------
(* The analysis *)

\* build: the source is missing, gcc cannot be run or rejects it.
BuildFails ==
    /\ At("building") /\ error' = "build" /\ Go("done")
    /\ UNCHANGED <<leader, held, printed, taken, toRead, detailed>>

StartFails ==
    /\ At("building") /\ error' = "start" /\ Go("done")
    /\ UNCHANGED <<leader, held, printed, taken, toRead, detailed>>

StartHelper ==
    /\ At("building") /\ leader' = "running" /\ Go("reading")
    /\ UNCHANGED <<error, held, printed, taken, toRead, detailed>>

\* Lines are complete up to here; the rest is pending.
LinesTaken(n) == n \div 2

\* select reports output: the lines it completes are looked at, READY last.
ReadChunk ==
    /\ At("reading") /\ printed > taken
    /\ \E n \in (taken + 1)..printed :
        /\ taken' = n
        /\ IF LinesTaken(n) = LineCount THEN Go("observing") /\ toRead' = Held
           ELSE UNCHANGED <<analysis, toRead>>
    /\ UNCHANGED <<error, leader, held, printed, detailed>>

\* All of it was read and the write end is closed: a child that is held has
\* the end it was cloned with, whatever became of the leader.
ReadEnd ==
    /\ At("reading") /\ leader # "running" /\ printed = taken
    /\ \A h \in Held : held[h] \in {"none", "gone"}
    /\ error' = IF LeaderAlive THEN "closed" ELSE "exited"
    /\ StopSignal("stopping")
    /\ UNCHANGED <<printed, taken, toRead, detailed>>

\* The deadline is over: an error even if there is output to read.
Deadline ==
    /\ At("reading")
    /\ error' = "late"
    /\ StopSignal("stopping")
    /\ UNCHANGED <<printed, taken, toRead, detailed>>

\* Mistake: the comparison of a child is built when its row is opened.
ReadTaskLater(h) ==
    /\ analysis \in {"observing", "done"} /\ h \in Held
    /\ detailed' = detailed \cup {h} /\ toRead' = toRead \ {h}
    /\ UNCHANGED <<analysis, error, leader, held, printed, taken>>

\* find_task, the cells and the comparison of one child.
ReadTask(h) ==
    /\ At("observing") /\ h \in toRead /\ held[h] # "gone"
    /\ detailed' = detailed \cup {h} /\ toRead' = toRead \ {h}
    /\ UNCHANGED <<analysis, error, leader, held, printed, taken>>

\* Mistake: a child that is gone is left out of the table.
ReadSkips ==
    /\ At("observing")
    /\ toRead' = {h \in toRead : held[h] # "gone"} /\ toRead' # toRead
    /\ UNCHANGED <<analysis, error, leader, held, printed, taken, detailed>>

\* A task that is gone is NULL, and reading it raises: the helper is stopped.
ReadRaises ==
    /\ At("observing")
    /\ \E h \in toRead : held[h] = "gone"
    /\ error' = "raised"
    /\ StopSignal("stopping")
    /\ UNCHANGED <<printed, taken, toRead, detailed>>

Observed ==
    /\ At("observing") /\ toRead = {}
    /\ StopSignal("stopping")
    /\ UNCHANGED <<error, printed, taken, toRead, detailed>>

---------------------------------------------------------------------------
HelperInit ==
    /\ analysis = "building" /\ error = "" /\ leader = "none"
    /\ held = [h \in Held |-> "none"]
    /\ printed = 0 /\ taken = 0 /\ toRead = {} /\ detailed = {}

Worker ==
    \/ BuildFails \/ StartFails \/ StartHelper
    \/ ReadChunk \/ ReadEnd \/ Deadline \/ ReadRaises \/ Observed
    \/ StopWaited \/ StopKills
    \/ \E h \in Held : ReadTask(h)

HelperStep ==
    \/ PrintLine \/ CloseOutput \/ LeaderEnds \/ LeaderCrashes
    \/ \E h \in Held : HeldDies(h)

HelperNext == Worker \/ HelperStep

HelperSpec == HelperInit /\ [][HelperNext]_helperVars

---------------------------------------------------------------------------
HelperTypeOK ==
    /\ analysis \in {"building", "reading", "observing", "stopping", "done"}
    /\ error \in {"", "build", "start", "closed", "exited", "late", "raised"}
    /\ leader \in {"none", "running", "closed", "zombie", "reaped"}
    /\ held \in [Held -> {"none", "held", "signalled", "gone"}]
    /\ printed \in 0..(2 * LineCount) /\ taken \in 0..printed
    /\ toRead \subseteq Held /\ detailed \subseteq Held

\* However the analysis ended, the helper itself is dead when it returns: the
\* next press of the key starts from nothing (_clone_matrix, finally).
HelperIsGone == At("done") => ~ LeaderAlive

\* Rows compare every child, or there is an error: a helper that printed READY
\* and lost a child before it was read does not give a shorter table.
RowsOrError ==
    At("done") /\ error = "" => detailed = Held

\* A task is read only while the helper is meant to hold it ("the helper is
\* killed when the analysis returns, so a closure that read the tasks on
\* expansion would read freed slab memory", clone_experiment.py:165).
ReadWhileHeld == [][detailed' # detailed => At("observing")]_helperVars

\* The experiment leaves nothing behind ("nothing is left running",
\* operations/clone_experiment.py:281): each child was at least signalled.
NothingLeftRunning == At("done") => \A h \in Held : held[h] # "held"

===============================================================================
