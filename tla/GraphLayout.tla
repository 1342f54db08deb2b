---------------------------- MODULE GraphLayout ----------------------------
(***************************************************************************)
(* Where the boxes of a graph are drawn (layout in kexplore/core/graph.py):*)
(* a box is placed after its children, centred on them, and in its column  *)
(* below the boxes placed before it.  Only rows are modelled: a column's x *)
(* follows from the widths of the boxes before it.                         *)
(*                                                                         *)
(* place() calls itself for every child; calls is its call stack.          *)
(***************************************************************************)
EXTENDS Integers, Sequences, FiniteSetsExt

CONSTANTS
    NBoxes,     \* how many boxes there are
    NColumns,   \* how many columns they fill at most
    Height      \* BOX_HEIGHT + ROW_GAP

ASSUME SizesAssumption == {NBoxes, NColumns, Height} \subseteq Nat \ {0}

\* Boxes are numbered in the order of Graph.nodes, which is also the order in
\* which the edges into them were made.
Boxes == 1..NBoxes
Root  == 1

VARIABLES
    parent,     \* Graph.parent: 0 for a box no tree edge leads to
    column,     \* Node.depth
    calls,      \* the calls of place() under way, the latest last
    row,        \* Placed.y of the boxes that are placed
    cursor      \* the next free row of each column

vars == <<parent, column, calls, row, cursor>>

Placed == DOMAIN row
Children(k) == {c \in Boxes : parent[c] = k}
Columns == 0..(NColumns - 1)

---------------------------------------------------------------------------
Rows(S) == {row[c] : c \in S}

\* Half way between the first and the last child
Centre(k) == (Min(Rows(Children(k))) + Max(Rows(Children(k)))) \div 2

\* Mistake: the boxes already in the column are not looked at.
RowForCentred(k) == IF Children(k) = {} THEN cursor[column[k]] ELSE Centre(k)

\* Mistake: a parent is moved up by half a box, out of the canvas too.
RowForRaised(k) ==
    IF Children(k) = {} THEN cursor[column[k]] ELSE Centre(k) - Height \div 2

\* Mistake: only the first box of a column is centred.
RowForFirst(k) ==
    IF Children(k) = {} \/ cursor[column[k]] > 0 THEN cursor[column[k]] ELSE Centre(k)

\* The row place() gives a box whose children are placed
RowFor(k) ==
    IF Children(k) = {} THEN cursor[column[k]]
    ELSE IF Centre(k) > cursor[column[k]] THEN Centre(k) ELSE cursor[column[k]]

\* The box is placed in row r, and its column is taken up to its end.
Put(k, r) ==
    /\ row' = [b \in Placed \cup {k} |-> IF b = k THEN r ELSE row[b]]
    /\ cursor' = [cursor EXCEPT ![column[k]] = r + Height]
    /\ UNCHANGED <<parent, column>>

\* place() calls itself for the next child.
Descend ==
    /\ calls # <<>>
    /\ LET k == calls[Len(calls)]
       IN  /\ Children(k) \ Placed # {}
           /\ calls' = Append(calls, Min(Children(k) \ Placed))
    /\ UNCHANGED <<parent, column, row, cursor>>

\* The calls for the children have returned.
Place ==
    /\ calls # <<>>
    /\ LET k == calls[Len(calls)]
       IN  /\ Children(k) \subseteq Placed
           /\ Put(k, RowFor(k))
    /\ calls' = SubSeq(calls, 1, Len(calls) - 1)

\* A box that no tree edge reaches is placed below the others, in the order of
\* Graph.nodes.
PlaceLost ==
    /\ calls = <<>>
    /\ Boxes \ Placed # {}
    /\ LET k == Min(Boxes \ Placed) IN Put(k, cursor[column[k]])
    /\ UNCHANGED calls

---------------------------------------------------------------------------
\* A box comes after its parent and is in the column after its parent's.  A box
\* without a parent that is not the root may be in any column.
Init ==
    /\ parent \in {p \in [Boxes -> 0..(NBoxes - 1)] : \A k \in Boxes : p[k] < k}
    /\ column \in {c \in [Boxes -> Columns] : c[Root] = 0}
    /\ \A k \in Boxes : parent[k] # 0 => column[k] = column[parent[k]] + 1
    /\ calls = <<Root>>
    /\ row = [k \in {} |-> 0]
    /\ cursor = [c \in Columns |-> 0]

Next == Descend \/ Place \/ PlaceLost

Spec == Init /\ [][Next]_vars

---------------------------------------------------------------------------
(* Properties *)

\* Every variable has its type.
TypeOK ==
    /\ parent \in [Boxes -> 0..NBoxes]
    /\ column \in [Boxes -> Columns]
    /\ calls \in Seq(Boxes)
    /\ Placed \subseteq Boxes /\ row \in [Placed -> Nat]
    /\ cursor \in [Columns -> Nat]

\* No two boxes of a column overlap, wherever their children pull them.
NoOverlap ==
    \A j, k \in Placed : j # k /\ column[j] = column[k] =>
        row[j] + Height <= row[k] \/ row[k] + Height <= row[j]

\* The boxes that tree edges lead to from the root (GraphWalk's TreeDrawn says
\* that these are all boxes of a graph that build() made): a parent comes
\* before its children, so one look at each box in turn finds them.
InTree ==
    LET upTo[n \in 0..NBoxes] ==
            IF n = 0 THEN {}
            ELSE IF n = Root \/ parent[n] \in upTo[n - 1] THEN upTo[n - 1] \cup {n}
            ELSE upTo[n - 1]
    IN  upTo[NBoxes]

Reached == InTree \cap Placed

\* A box is half way between its first and last child (the upper row where two
\* are) or below that, never above; and below only as far as the box above it in
\* its column pushes it.
NearMiddle(k) ==
    LET ends == Min(Rows(Children(k))) + Max(Rows(Children(k)))
    IN  \/ ends - 2 * row[k] \in {0, 1}
        \/ /\ 2 * row[k] > ends
           /\ \E j \in Placed : column[j] = column[k] /\ row[j] + Height = row[k]

Centred == \A k \in Reached : Children(k) # {} => NearMiddle(k)

\* "Children are stacked in edge order", and straight lines from the boxes of a
\* column to their children do not cross: the children of the upper of two boxes
\* are above those of the lower.
FamiliesInOrder ==
    \A j, k \in Reached :
        /\ column[j] = column[k] /\ row[j] < row[k] =>
              \A c \in Children(j), d \in Children(k) : row[c] < row[d]
        /\ j = k => \A c, d \in Children(k) : c < d => row[c] < row[d]

\* A parent stands at the middle of its children or as near below it as its
\* column lets it, and families stand in the order of their
\* parents, however far a full column pushed some of them down.
FamiliesPlaced == Centred /\ FamiliesInOrder

\* The rows that the trunk of a parent takes up, beside its column
Trunk(k) ==
    LET ports == Rows(Children(k) \cup {k}) IN Min(ports)..Max(ports)

\* "no two edges cross": the trunks of two boxes of a column do not meet.
TrunksApart ==
    \A j, k \in Reached :
        /\ j # k /\ column[j] = column[k]
        /\ Children(j) # {} /\ Children(k) # {}
        => Trunk(j) \cap Trunk(k) = {}
=============================================================================
