---------------------------- MODULE MCGraphScreen ----------------------------
(***************************************************************************)
(* A small kernel for GraphScreen: a task leads to its mm and to a       *)
(* collection, which holds the mm again and a file; the mm leads to the    *)
(* same file, and the file back to the task.                               *)
(***************************************************************************)
EXTENDS GraphScreen

MCKeys == {"task", "mm", "files", "file"}

MCKind == [k \in MCKeys |->
    CASE k = "files" -> "fanout" [] OTHER -> "object"]

MCOut == [k \in MCKeys |->
    CASE k = "task"  -> <<"mm", "files">>
      [] k = "mm"    -> <<"file">>
      [] k = "files" -> <<"file", "mm">>
      [] k = "file"  -> <<"task">>]
===============================================================================
