------------------------------ MODULE CommandRun ------------------------------
(***************************************************************************)
(* Running the userspace command of a row (kexplore/tui/run_command.py,    *)
(* action_run_command): a popup over the screen, a worker thread that      *)
(* waits for sh -c, and the processes sh starts.  Escape closes the popup  *)
(* at any time; the worker goes on, for at most the time limit.            *)
(***************************************************************************)
EXTENDS Integers

VARIABLES
    popup,      \* what the CommandScreen shows, "none" when it is not there
    runner,     \* the worker: waiting for sh, or with what to show
    sh,         \* the shell
    piped       \* the processes of the command's pipeline that hold its output

commandVars == <<popup, runner, sh, piped>>

Results == {"exit", "stopped", "could not start"}

---------------------------------------------------------------------------
\* The key: a popup, if the row carries a command that can be run.  A popup
\* that is modal takes all keys, so there is one at a time; that the worker
\* of the one before is done as well is a bound, workers do not meet.
RunCommand ==
    /\ popup = "none" /\ runner = "none"
    /\ popup' = "running" /\ runner' = "waiting"
    /\ sh' = "running" /\ UNCHANGED piped

CannotStart ==
    /\ popup = "none" /\ runner = "none"
    /\ popup' = "running" /\ runner' = "could not start"
    /\ UNCHANGED <<sh, piped>>

\* sh starts the processes of a pipeline and waits for them; a single command
\* replaces it.
ShForks ==
    /\ sh = "running" /\ piped = "none" /\ piped' = "running"
    /\ UNCHANGED <<popup, runner, sh>>

PipedEnds ==
    /\ piped = "running" /\ piped' = "none"
    /\ UNCHANGED <<popup, runner, sh>>

ShEnds ==
    /\ sh = "running" /\ sh' = "ended"
    /\ UNCHANGED <<popup, runner, piped>>

\* communicate: the shell is gone and nobody holds its output open.
CommandEnds ==
    /\ runner = "waiting" /\ sh = "ended" /\ piped = "none"
    /\ runner' = "exit" /\ sh' = "none"
    /\ UNCHANGED <<popup, piped>>

\* Mistake: only a shell that ended by itself is given up on.
TimesOutOnEnd ==
    /\ runner = "waiting" /\ sh = "ended"
    /\ runner' = "stopped" /\ sh' = "none"
    /\ UNCHANGED <<popup, piped>>

\* TIMEOUT: the shell is killed, not what it started.
TimesOut ==
    /\ runner = "waiting"
    /\ runner' = "stopped" /\ sh' = "none"
    /\ UNCHANGED <<popup, piped>>

\* call_from_thread(_show): on a popup that was closed nothing is shown.
Show ==
    /\ runner \in Results
    /\ popup' = IF popup = "running" THEN runner ELSE popup
    /\ runner' = "none"
    /\ UNCHANGED <<sh, piped>>

ClosePopup ==
    /\ popup # "none" /\ popup' = "none"
    /\ UNCHANGED <<runner, sh, piped>>

CommandInit == popup = "none" /\ runner = "none" /\ sh = "none" /\ piped = "none"

CommandNext ==
    \/ RunCommand \/ CannotStart \/ ShForks \/ PipedEnds \/ ShEnds
    \/ CommandEnds \/ TimesOut \/ Show \/ ClosePopup

===============================================================================
