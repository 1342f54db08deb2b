------------------------------- MODULE Children -------------------------------
(***************************************************************************)
(* The processes the explorer starts, side by side: the workloads, the     *)
(* helper of an experiment and the command of a row.  Each has a thread of *)
(* the explorer, and all of them go with it; the processes stay, but those *)
(* that asked for a signal.                                                *)
(***************************************************************************)
EXTENDS Workloads, Helper, CommandRun

vars == <<workloadVars, helperVars, commandVars>>

Init == WorkloadInit /\ HelperInit /\ CommandInit

\* Its threads run.
Explorer == ui.doing # "gone"

Next ==
    \/ WorkloadNext /\ UNCHANGED <<helperVars, commandVars>>
    \/ /\ HelperStep \/ (Explorer /\ Worker)
       /\ UNCHANGED <<workloadVars, commandVars>>
    \/ Explorer /\ CommandNext /\ UNCHANGED <<workloadVars, helperVars>>

Fairness ==
    /\ WorkloadFairness
    /\ WF_vars(Explorer /\ Worker /\ UNCHANGED <<workloadVars, commandVars>>)
    /\ WF_vars(Explorer /\ (CommandEnds \/ TimesOut) /\ UNCHANGED <<workloadVars, helperVars>>)
    /\ WF_vars(Explorer /\ Show /\ UNCHANGED <<workloadVars, helperVars>>)
    /\ \A h \in Held : WF_helperVars(HeldDies(h))

Spec == Init /\ [][Next]_vars /\ Fairness

TypeOK == WorkloadTypeOK /\ HelperTypeOK

\* A popup does not say "running" for ever, whatever the command does, and
\* even if it never ends ("an interactive tool such as slabtop ends instead of
\* waiting for keys", tui/run_command.py:8): unless the explorer is gone.
PopupAnswers == popup = "running" ~> popup # "running" \/ ~ Explorer

===============================================================================
