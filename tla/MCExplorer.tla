----------------------------- MODULE MCExplorer -----------------------------
(***************************************************************************)
(* Instances of Explorer for TLC: a kernel on which a tutorial has two     *)
(* steps, the second showing a struct, and one on which it has none.       *)
(***************************************************************************)
EXTENDS Explorer

CONSTANT t1

TwoSteps == <<NoTag, t1>>
NoSteps  == <<>>
=============================================================================
