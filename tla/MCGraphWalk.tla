---------------------------- MODULE MCGraphWalk ----------------------------
(***************************************************************************)
(* Small object graphs for GraphWalk.                                      *)
(***************************************************************************)
EXTENDS GraphWalk, TLC

CONSTANTS c, a, b, d, e

\* Two links out of the centre, one out of the others, none out of the last:
\* enough for two paths of different lengths to meet.
Narrow == [o \in Objects |-> IF o = Centre THEN 2 ELSE IF o = e THEN 0 ELSE 1]

\* The objects with one link are interchangeable.
Alike == Permutations({a, b, d})
=============================================================================
