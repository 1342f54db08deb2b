----------------------------- MODULE MCDebugFiles -----------------------------
(* Values for the model checker: two processes, and six machines. *)
EXTENDS DebugFiles, TLC

MCMachines ==
    { [local |-> l, root |-> r, urls |-> u] : l, r, u \in BOOLEAN }
        \ { [local |-> TRUE, root |-> r, urls |-> FALSE] : r \in BOOLEAN }

ProcSymmetry == Permutations(Procs)

===============================================================================
