------------------------------ MODULE MCSidebar ------------------------------
(***************************************************************************)
(* A branch and an entry on one tab, a tutorial of three steps on the      *)
(* other.                                                                  *)
(***************************************************************************)
EXTENDS Sidebar

MCNodes == {"subsystems", "task", "tutorial"}
MCKind == [subsystems |-> "index", task |-> "entry", tutorial |-> "tutorial"]
MCView == [subsystems |-> "structures", task |-> "structures",
           tutorial |-> "tutorials"]
\* the row of the first step is reached by an eased way, that of the second at
\* once, that of the third row by row
MCTarget == <<4, 0, 2>>
===============================================================================
