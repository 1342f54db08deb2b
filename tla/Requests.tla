------------------------------ MODULE Requests ------------------------------
(***************************************************************************)
(* What the pane of kexplore promises about results that arrive late (the  *)
(* comment on Explorer._token and the docstring of open_plan): navigations *)
(* are numbered, each may leave work running, work may finish in any       *)
(* order, and only the work of the latest navigation changes what is       *)
(* shown.                                                                  *)
(***************************************************************************)
EXTENDS Naturals

VARIABLES
    latest,     \* the number of the latest navigation
    running,    \* the navigations whose work is running
    shown       \* what the pane shows: <<"none", 0>>, or whose wait or answer

Init ==
    \/ latest = 1 /\ running = {1} /\ shown = <<"waiting", 1>>
    \/ latest = 0 /\ running = {} /\ shown = <<"none", 0>>

\* A navigation to something that is there at once, possibly an earlier frame.
Show ==
    /\ latest' = latest + 1
    /\ UNCHANGED running
    /\ \E r \in 0..(latest + 1), w \in {"waiting", "answer"} : shown' = <<w, r>>

\* A navigation to something that takes work.
Ask ==
    /\ latest' = latest + 1
    /\ running' = running \cup {latest + 1}
    /\ shown' = <<"waiting", latest + 1>>

\* Work finishes: its wait becomes its answer, unless it is no longer wanted.
Finish(r) ==
    /\ r \in running
    /\ running' = running \ {r}
    /\ UNCHANGED latest
    /\ IF r = latest THEN shown = <<"waiting", r>> /\ shown' = <<"answer", r>>
                     ELSE UNCHANGED shown

Next == Show \/ Ask \/ \E r \in running : Finish(r)

Spec == Init /\ [][Next]_<<latest, running, shown>>
=============================================================================
