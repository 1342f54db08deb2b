------------------------- MODULE GraphLayoutProofs -------------------------
(***************************************************************************)
(* No graph, of any number of boxes in any number of columns, is drawn with*)
(* two boxes of a column one over the other, and families stay together.   *)
(***************************************************************************)
EXTENDS GraphLayout, Recursion, SequenceTheorems, TLAPS

---------------------------------------------------------------------------
(* The inductive invariant: a box ends above its column's free row, which  *)
(* is what keeps the next one clear of it; and a box's children share a    *)
(* column, which is what bounds their rows, so that a centre exists.  The  *)
(* calls under way go down the tree, so that no box is placed twice.       *)

BelowIsFree == \A k \in Placed : row[k] + Height <= cursor[column[k]]

ChildrenNextColumn ==
    \A k \in Boxes : parent[k] # 0 => column[k] = column[parent[k]] + 1

ParentsFirst == \A k \in Boxes : parent[k] < k

CallsGoDown ==
    /\ \A i \in 1..Len(calls) : calls[i] \notin Placed
    /\ \A i, j \in 1..Len(calls) : i < j => calls[i] < calls[j]

Inv == /\ TypeOK /\ NoOverlap /\ BelowIsFree /\ ChildrenNextColumn
       /\ ParentsFirst /\ CallsGoDown

---------------------------------------------------------------------------
(* The row of a box *)

LEMMA Sizes == NBoxes \in Nat \ {0} /\ NColumns \in Nat \ {0} /\ Height \in Nat \ {0}
               /\ Root \in Boxes /\ Boxes \subseteq Nat /\ 0 \in Columns
  BY SizesAssumption DEF Root, Boxes, Columns

LEMMA RowsBounded ==
    ASSUME Inv, NEW k \in Boxes, Children(k) # {}, Children(k) \subseteq Placed
    PROVE  Min(Rows(Children(k))) \in Nat /\ Max(Rows(Children(k))) \in Nat
  <1> DEFINE S == Rows(Children(k))
  <1>1. S \in SUBSET Nat /\ S # {}
    BY DEF Inv, TypeOK, Rows
  <1>2. \A c \in Children(k) : c \in Boxes /\ column[c] = column[k] + 1
                               /\ column[c] \in Columns
    BY DEF Children, Inv, ChildrenNextColumn, TypeOK, Boxes
  <1>3. PICK d \in Children(k) : TRUE
    OBVIOUS
  <1> DEFINE b == cursor[column[d]]
  <1>4. b \in Nat
    BY <1>2, <1>3 DEF Inv, TypeOK
  <1>5. \A x \in S : x <= b
    <2> TAKE x \in S
    <2>1. PICK c \in Children(k) : x = row[c]
      BY DEF Rows
    <2>2. row[c] + Height <= cursor[column[c]] /\ row[c] \in Nat
      BY DEF Inv, BelowIsFree, TypeOK
    <2>3. column[c] = column[d]
      BY <1>2, <1>3
    <2> QED BY <2>1, <2>2, <2>3, <1>4, Sizes
  <1> HIDE DEF S, b
  <1>6. Min(S) \in Nat /\ Max(S) \in Nat
    BY <1>1, <1>4, <1>5, MinIsLeast, MaxIsGreatest
  <1> QED BY <1>6 DEF S

LEMMA CentreIsARow ==
    ASSUME Inv, NEW k \in Boxes, Children(k) # {}, Children(k) \subseteq Placed
    PROVE  Centre(k) \in Nat
  BY RowsBounded DEF Centre

\* A box is never given a row that is taken.
LEMMA RowForIsFree ==
    ASSUME Inv, NEW k \in Boxes, Children(k) \subseteq Placed
    PROVE  RowFor(k) \in Nat /\ RowFor(k) >= cursor[column[k]]
  <1>1. cursor[column[k]] \in Nat
    BY DEF Inv, TypeOK
  <1>2. CASE Children(k) = {}
    BY <1>1, <1>2 DEF RowFor
  <1>3. CASE Children(k) # {}
    <2>1. Centre(k) \in Nat
      BY <1>3, CentreIsARow
    <2> QED BY <1>1, <1>3, <2>1 DEF RowFor
  <1> QED BY <1>2, <1>3

\* Whatever row at or below the free one a box is put in, nothing overlaps.
LEMMA PutKeeps ==
    ASSUME Inv, NEW k \in Boxes, NEW r \in Nat, r >= cursor[column[k]],
           k \notin Placed, Put(k, r), calls' \in Seq(Boxes), CallsGoDown'
    PROVE  Inv'
  <1> USE DEF Placed
  <1>1. /\ parent' = parent /\ column' = column
        /\ Placed' = Placed \cup {k}
        /\ row'[k] = r /\ \A j \in Placed : row'[j] = row[j]
    BY DEF Put
  <1>2. /\ column[k] \in Columns
        /\ cursor'[column[k]] = r + Height
        /\ \A c \in Columns : c # column[k] => cursor'[c] = cursor[c]
    BY DEF Put, Inv, TypeOK
  <1>3. \A j \in Placed : /\ j \in Boxes /\ row[j] \in Nat /\ column[j] \in Columns
                          /\ cursor[column[j]] \in Nat
                          /\ row[j] + Height <= cursor[column[j]]
    BY DEF Inv, TypeOK, BelowIsFree
  <1>4. TypeOK'
    <2>1. Placed' \subseteq Boxes
      BY <1>1 DEF Inv, TypeOK
    <2>2. row' \in [Placed' -> Nat]
      BY DEF Put, Inv, TypeOK
    <2>3. cursor' \in [Columns -> Nat]
      <3>1. r + Height \in Nat
        BY Sizes
      <3> QED BY <3>1 DEF Put, Inv, TypeOK
    <2> QED BY <1>1, <2>1, <2>2, <2>3 DEF Inv, TypeOK
  <1>5. NoOverlap'
    <2> SUFFICES ASSUME NEW i \in Placed', NEW j \in Placed',
                        i # j, column[i] = column[j]
                 PROVE  row'[i] + Height <= row'[j] \/ row'[j] + Height <= row'[i]
      BY <1>1 DEF NoOverlap
    <2>1. CASE i \in Placed /\ j \in Placed
      BY <1>1, <2>1 DEF Inv, NoOverlap
    <2>2. CASE i = k /\ j \in Placed
      <3>1. row[j] + Height <= cursor[column[k]] /\ row[j] \in Nat
        BY <1>3, <2>2
      <3> QED BY <1>1, <1>3, <2>2, <3>1, Sizes
    <2>3. CASE j = k /\ i \in Placed
      <3>1. row[i] + Height <= cursor[column[k]] /\ row[i] \in Nat
        BY <1>3, <2>3
      <3> QED BY <1>1, <1>3, <2>3, <3>1, Sizes
    <2> QED BY <1>1, <2>1, <2>2, <2>3
  <1>6. BelowIsFree'
    <2> SUFFICES ASSUME NEW j \in Placed'
                 PROVE  row'[j] + Height <= cursor'[column[j]]
      BY <1>1 DEF BelowIsFree
    <2>1. CASE j = k
      BY <1>1, <1>2, <2>1, Sizes
    <2>2. CASE j \in Placed /\ column[j] = column[k]
      BY <1>1, <1>2, <1>3, <2>2, Sizes
    <2>3. CASE j \in Placed /\ column[j] # column[k]
      BY <1>1, <1>2, <1>3, <2>3
    <2> QED BY <1>1, <2>1, <2>2, <2>3
  <1>7. ChildrenNextColumn' /\ ParentsFirst'
    BY <1>1 DEF Inv, ChildrenNextColumn, ParentsFirst
  <1> QED BY <1>4, <1>5, <1>6, <1>7 DEF Inv

---------------------------------------------------------------------------
LEMMA InitInv == Init => Inv
  <1> SUFFICES ASSUME Init PROVE Inv
    OBVIOUS
  <1> USE Sizes
  <1>1. TypeOK
    <2>1. parent \in [Boxes -> 0..NBoxes]
      BY DEF Init, Boxes
    <2>2. calls \in Seq(Boxes) /\ column \in [Boxes -> Columns]
      BY DEF Init
    <2>3. row \in [{} -> Nat] /\ DOMAIN row = {}
      BY DEF Init
    <2>4. cursor \in [Columns -> Nat]
      BY DEF Init
    <2> QED BY <2>1, <2>2, <2>3, <2>4 DEF TypeOK, Placed
  <1>2. Placed = {}
    BY DEF Init, Placed
  <1>3. ParentsFirst /\ ChildrenNextColumn
    BY DEF Init, ParentsFirst, ChildrenNextColumn
  <1>4. CallsGoDown
    BY <1>2 DEF Init, CallsGoDown
  <1> QED BY <1>1, <1>2, <1>3, <1>4 DEF Inv, NoOverlap, BelowIsFree

LEMMA NextInv == Inv /\ [Next]_vars => Inv'
  <1> SUFFICES ASSUME Inv, [Next]_vars PROVE Inv'
    OBVIOUS
  <1> USE Sizes
  <1> DEFINE n == Len(calls)  k == calls[n]
  <1>0. /\ n \in Nat /\ \A i \in 1..n : calls[i] \in Boxes
        /\ calls # <<>> => n \in 1..n
    BY DEF Inv, TypeOK
  <1>1. CASE Descend
    <2> DEFINE S == Children(k) \ Placed  c == Min(S)
    <2>1. S \in SUBSET Nat /\ S # {} /\ calls' = Append(calls, c) /\ k \in Boxes
      BY <1>0, <1>1 DEF Descend, Children
    <2>2. c \in S
      BY <2>1, MinIsLeast
    <2>3. c \in Boxes /\ c \notin Placed /\ k < c
      BY <2>2 DEF Children, Inv, ParentsFirst
    <2> HIDE DEF c, S
    <2>4. /\ calls' \in Seq(Boxes) /\ Len(calls') = n + 1
          /\ calls'[n + 1] = c /\ \A i \in 1..n : calls'[i] = calls[i]
      BY <2>1, <2>3 DEF Inv, TypeOK
    <2>5. \A i \in 1..n : calls[i] < c
      <3> TAKE i \in 1..n
      <3>1. i = n \/ calls[i] < k
        BY <1>0 DEF Inv, CallsGoDown
      <3>2. calls[i] \in Nat /\ k \in Nat /\ c \in Nat
        BY <1>0, <2>1, <2>3
      <3> HIDE DEF k
      <3> QED BY <2>3, <3>1, <3>2 DEF k
    <2>6. UNCHANGED <<parent, column, row, cursor, Placed>>
      BY <1>1 DEF Descend, Placed
    <2>7. CallsGoDown'
      <3>1. \A i \in 1..(n + 1) : calls'[i] \notin Placed'
        BY <1>0, <2>3, <2>4, <2>6 DEF Inv, CallsGoDown
      <3>2. \A i, j \in 1..(n + 1) : i < j => calls'[i] < calls'[j]
        BY <1>0, <2>4, <2>5 DEF Inv, CallsGoDown
      <3> QED BY <2>4, <3>1, <3>2 DEF CallsGoDown
    <2> QED BY <2>4, <2>6, <2>7
            DEF Inv, TypeOK, NoOverlap, BelowIsFree, ChildrenNextColumn, ParentsFirst
  <1>2. CASE Place
    <2>1. /\ k \in Boxes /\ Children(k) \subseteq Placed /\ Put(k, RowFor(k))
          /\ calls' = SubSeq(calls, 1, n - 1) /\ n \in 1..n
      BY <1>0, <1>2 DEF Place
    <2>2. /\ calls' \in Seq(Boxes) /\ Len(calls') = n - 1
          /\ \A i \in 1..(n - 1) : calls'[i] = calls[i]
      <3>1. \A i \in 1..(n - 1) : calls[i] \in Boxes
        BY <1>0
      <3>2. n - 1 \in Int /\ 1 \in Int /\ n \in Nat /\ n >= 1
        BY <1>0, <2>1
      <3> HIDE DEF n
      <3>3. /\ SubSeq(calls, 1, n - 1) \in Seq(Boxes)
            /\ Len(SubSeq(calls, 1, n - 1)) = IF 1 <= n - 1 THEN n - 1 - 1 + 1 ELSE 0
            /\ \A i \in 1..(n - 1 - 1 + 1) : SubSeq(calls, 1, n - 1)[i] = calls[1 + i - 1]
        BY <3>1, <3>2, SubSeqProperties
      <3> QED BY <2>1, <3>2, <3>3
    <2>3. k \notin Placed
      BY <2>1 DEF Inv, CallsGoDown
    <2>4. Placed' = Placed \cup {k}
      BY <2>1 DEF Put, Placed
    <2>5. CallsGoDown'
      <3>1. \A i \in 1..(n - 1) : calls[i] # k /\ calls[i] \notin Placed
        <4> TAKE i \in 1..(n - 1)
        <4>1. i \in 1..n /\ i < n
          BY <1>0
        <4>2. calls[i] < k /\ calls[i] \notin Placed
          BY <2>1, <4>1 DEF Inv, CallsGoDown
        <4>3. calls[i] \in Nat /\ k \in Nat
          BY <1>0, <2>1, <4>1
        <4> HIDE DEF k
        <4> QED BY <4>2, <4>3
      <3>2. \A i, j \in 1..(n - 1) : i < j => calls[i] < calls[j]
        BY <1>0 DEF Inv, CallsGoDown
      <3> QED BY <2>2, <2>4, <3>1, <3>2 DEF CallsGoDown
    <2> HIDE DEF k
    <2> QED BY <2>1, <2>2, <2>3, <2>5, RowForIsFree, PutKeeps
  <1>3. CASE PlaceLost
    <2> DEFINE l == Min(Boxes \ Placed)
    <2>1. Boxes \ Placed \in SUBSET Nat /\ Boxes \ Placed # {}
      BY <1>3 DEF PlaceLost
    <2>2. l \in Boxes \ Placed
      BY <2>1, MinIsLeast
    <2>3. Put(l, cursor[column[l]]) /\ calls' = calls
      BY <1>3 DEF PlaceLost
    <2>4. cursor[column[l]] \in Nat /\ calls \in Seq(Boxes)
      BY <2>2 DEF Inv, TypeOK
    <2>5. CallsGoDown'
      BY <1>3, <2>3 DEF PlaceLost, CallsGoDown
    <2> HIDE DEF l
    <2> QED BY <2>2, <2>3, <2>4, <2>5, PutKeeps
  <1>4. CASE UNCHANGED vars
    BY <1>4 DEF vars, Inv, TypeOK, Placed, NoOverlap, BelowIsFree,
                ChildrenNextColumn, ParentsFirst, CallsGoDown
  <1> QED BY <1>1, <1>2, <1>3, <1>4 DEF Next

---------------------------------------------------------------------------
(* Families: place() goes through the tree depth first, so that when a box *)
(* is placed its children are, and nothing of the families that come after *)
(* it in its column is.  The calls under way are the boxes between.        *)

Called == {calls[i] : i \in 1..Len(calls)}

\* From the root down, a column further at each call.
CallsArePath ==
    /\ \A i \in 1..Len(calls) : calls[i] \in InTree /\ column[calls[i]] = i - 1
    /\ \A i \in 1..(Len(calls) - 1) : parent[calls[i + 1]] = calls[i]

RootFirst ==
    /\ column[Root] = 0
    /\ Root \in Placed \/ (calls # <<>> /\ calls[1] = Root)

ChildrenFirst == \A k \in Reached : Children(k) \subseteq Placed

\* A box that has a child placed and is not placed itself is being placed.
ParentsCalled ==
    \A k \in InTree \ Placed : Children(k) \cap Placed # {} => k \in Called

\* The free row of a column is the end of a box.
CursorAtEnd ==
    \A c \in Columns :
        cursor[c] = 0 \/ \E j \in Placed : column[j] = c /\ row[j] + Height = cursor[c]

\* What is placed of the family of a box that is still to be placed is below
\* the families of the boxes above it.
FamiliesToCome ==
    \A j \in Reached, k \in InTree \ Placed : column[j] = column[k] =>
        \A c \in Children(j), d \in Children(k) \cap Placed : row[c] < row[d]

SiblingsInTurn ==
    \A k \in InTree : \A c, d \in Children(k) :
        c < d /\ d \in Placed \cup Called =>
            c \in Placed /\ (d \in Placed => row[c] < row[d])

FamilyInv == /\ Inv /\ CallsArePath /\ RootFirst /\ ChildrenFirst /\ ParentsCalled
             /\ CursorAtEnd /\ Centred /\ FamiliesInOrder /\ FamiliesToCome /\ SiblingsInTurn
---------------------------------------------------------------------------
(* The tree *)

LEMMA TreeGrows ==
    ASSUME parent \in [Boxes -> 0..NBoxes], ParentsFirst
    PROVE  /\ InTree \subseteq Boxes
           /\ \A k \in Boxes : k \in InTree <=> k = Root \/ parent[k] \in InTree
  <1> USE Sizes
  <1> DEFINE Rec(f) == f = [n \in 0..NBoxes |->
                 IF n = 0 THEN {}
                 ELSE IF n = Root \/ parent[n] \in f[n - 1] THEN f[n - 1] \cup {n}
                 ELSE f[n - 1]]
             upTo == CHOOSE f : Rec(f)
             step == [n \in 1..NBoxes |-> [s \in SUBSET Boxes |->
                 IF n = Root \/ parent[n] \in s THEN s \cup {n} ELSE s]]
  <1>1. \E f : Rec(f)
    <2>1. step \in [1..NBoxes -> [SUBSET Boxes -> SUBSET Boxes]]
      BY DEF Boxes
    <2>2. PICK f \in [0..NBoxes -> SUBSET Boxes] : GoesOn(f, NBoxes, {}, step)
      <3> DEFINE T == SUBSET Boxes  none == {}
      <3>1. none \in T /\ NBoxes \in Nat /\ step \in [1..NBoxes -> [T -> T]]
        BY <2>1
      <3> HIDE DEF step, Rec, upTo, T, none
      <3>2. \E f \in [0..NBoxes -> T] : GoesOn(f, NBoxes, none, step)
        BY <3>1, RecursionExists, Zenon
      <3> QED BY <3>2 DEF T, none
    <2>3. ASSUME NEW n \in 1..NBoxes
          PROVE  step[n][f[n - 1]] = IF n = Root \/ parent[n] \in f[n - 1]
                                         THEN f[n - 1] \cup {n} ELSE f[n - 1]
      <3>1. f[n - 1] \in SUBSET Boxes
        BY <2>2
      <3> HIDE DEF Rec, upTo
      <3> QED BY <3>1
    <2> HIDE DEF step
    <2>4. \A n \in 0..NBoxes : f[n] = IF n = 0 THEN {}
                 ELSE IF n = Root \/ parent[n] \in f[n - 1] THEN f[n - 1] \cup {n}
                 ELSE f[n - 1]
      <3> HIDE DEF Rec, upTo
      <3> TAKE n \in 0..NBoxes
      <3>1. n = 0 \/ n \in 1..NBoxes
        OBVIOUS
      <3> QED BY <2>2, <2>3, <3>1 DEF GoesOn
    <2>5. f = [n \in 0..NBoxes |-> f[n]]
      BY <2>2
    <2> QED BY <2>4, <2>5
  <1>2. Rec(upTo)
    BY <1>1
  <1>3. InTree = upTo[NBoxes]
    BY DEF InTree
  <1> HIDE DEF upTo
  <1>4. /\ upTo[0] = {}
        /\ \A n \in 1..NBoxes : upTo[n] = IF n = Root \/ parent[n] \in upTo[n - 1]
                                          THEN upTo[n - 1] \cup {n} ELSE upTo[n - 1]
    <2> DEFINE g(n) == IF n = 0 THEN {}
                       ELSE IF n = Root \/ parent[n] \in upTo[n - 1]
                            THEN upTo[n - 1] \cup {n} ELSE upTo[n - 1]
    <2>1. upTo = [n \in 0..NBoxes |-> g(n)]
      BY <1>2
    <2> HIDE DEF g, step, Rec
    <2>2. \A n \in 0..NBoxes : upTo[n] = g(n)
      BY <2>1
    <2>3. 0 \in 0..NBoxes /\ \A n \in 1..NBoxes : n \in 0..NBoxes /\ n # 0
      OBVIOUS
    <2> QED BY <2>2, <2>3 DEF g
  <1> HIDE DEF Rec
  <1>5. \A n \in 0..NBoxes : upTo[n] \subseteq 1..n
    <2> DEFINE P == {n \in 0..NBoxes : upTo[n] \subseteq 1..n}
    <2>1. 0 \in P
      BY <1>4
    <2>2. ASSUME NEW n \in 1..NBoxes, n - 1 \in P PROVE n \in P
      <3>1. upTo[n - 1] \subseteq 1..n
        BY <2>2
      <3>2. upTo[n] = upTo[n - 1] \/ upTo[n] = upTo[n - 1] \cup {n}
        BY <1>4
      <3>3. upTo[n] \subseteq 1..n
        BY <3>1, <3>2
      <3> QED BY <3>3
    <2> HIDE DEF P
    <2>3. \A n \in 0..NBoxes : n \in P
      BY <2>1, <2>2, UpTo
    <2> QED BY <2>3 DEF P
  \* what is added later is not among the boxes up to n
  <1>6. ASSUME NEW n \in 0..NBoxes PROVE InTree \cap (1..n) = upTo[n]
    <2> DEFINE P == {m \in 0..NBoxes : m >= n => upTo[m] \cap (1..n) = upTo[n]}
    <2>1. 0 \in P
      BY <1>4, <1>5
    <2>2. ASSUME NEW m \in 1..NBoxes, m - 1 \in P PROVE m \in P
      <3>1. CASE m <= n
        BY <1>5, <3>1
      <3>2. CASE m > n
        <4>1. upTo[m - 1] \cap (1..n) = upTo[n] /\ m \notin 1..n
          BY <2>2, <3>2
        <4>2. upTo[m] = upTo[m - 1] \/ upTo[m] = upTo[m - 1] \cup {m}
          BY <1>4
        <4> QED BY <4>1, <4>2
      <3> QED BY <3>1, <3>2
    <2> HIDE DEF P
    <2>3. NBoxes \in P
      BY <2>1, <2>2, UpTo
    <2> QED BY <1>3, <2>3 DEF P
  <1>7. ASSUME NEW k \in Boxes PROVE k \in InTree <=> k = Root \/ parent[k] \in InTree
    <2>1. k \in 1..NBoxes /\ parent[k] \in 0..(k - 1) /\ k - 1 \in 0..NBoxes
      BY DEF ParentsFirst, Boxes
    <2>2. k \in InTree <=> k \in upTo[k]
      BY <1>6, <2>1
    <2>3. k \notin upTo[k - 1]
      BY <1>5, <2>1
    <2>4. parent[k] \in InTree <=> parent[k] \in upTo[k - 1]
      <3>1. 0 \notin InTree
        BY <1>3, <1>5
      <3>2. 0 \notin upTo[k - 1] /\ InTree \cap (1..(k - 1)) = upTo[k - 1]
        BY <1>5, <1>6, <2>1
      <3> QED BY <2>1, <3>1, <3>2
    <2> QED BY <1>4, <2>1, <2>2, <2>3, <2>4
  <1> QED BY <1>3, <1>5, <1>7 DEF Boxes

---------------------------------------------------------------------------
(* Families stay as they are when something else is placed *)

\* What is placed, and where, after a Put
LEMMA PutPlaces ==
    ASSUME Inv, NEW k \in Boxes, NEW r \in Nat, k \notin Placed, Put(k, r)
    PROVE  /\ parent' = parent /\ column' = column
           /\ InTree' = InTree /\ Placed' = Placed \cup {k}
           /\ \A b \in Boxes : Children(b)' = Children(b)
           /\ row'[k] = r /\ \A j \in Placed : row'[j] = row[j]
           /\ cursor'[column[k]] = r + Height
           /\ \A c \in Columns : c # column[k] => cursor'[c] = cursor[c]
  <1>1. parent' = parent /\ column' = column
    BY DEF Put
  <1>2. column[k] \in Columns /\ cursor \in [Columns -> Nat]
    BY DEF Inv, TypeOK
  <1>3. InTree' = InTree /\ \A b \in Boxes : Children(b)' = Children(b)
    BY <1>1 DEF InTree, Children
  <1>4. Placed' = Placed \cup {k} /\ row'[k] = r /\ \A j \in Placed : row'[j] = row[j]
    BY DEF Put, Placed
  <1>5. /\ cursor'[column[k]] = r + Height
        /\ \A c \in Columns : c # column[k] => cursor'[c] = cursor[c]
    BY <1>2 DEF Put
  <1> QED BY <1>1, <1>3, <1>4, <1>5

LEMMA ChildOf ==
    ASSUME Inv, NEW k \in Boxes, NEW c \in Children(k)
    PROVE  /\ c \in Boxes /\ parent[c] = k /\ k < c
           /\ column[c] = column[k] + 1 /\ column[c] \in Columns
           /\ k \in InTree => c \in InTree
  <1>1. c \in Boxes /\ parent[c] = k /\ k # 0
    BY DEF Children, Boxes
  <1>2. k < c /\ column[c] = column[k] + 1 /\ column[c] \in Columns
    BY <1>1 DEF Inv, ParentsFirst, ChildrenNextColumn, TypeOK
  <1>3. k \in InTree => c \in InTree
    BY <1>1, TreeGrows DEF Inv, TypeOK
  <1> QED BY <1>1, <1>2, <1>3

\* A box put in a column is below what is placed there.
LEMMA PlacedAbove ==
    ASSUME Inv, NEW k \in Boxes, NEW r \in Nat, r >= cursor[column[k]],
           NEW j \in Placed, column[j] = column[k]
    PROVE  row[j] \in Nat /\ row[j] < r
  <1>1. row[j] \in Nat /\ row[j] + Height <= cursor[column[k]] /\ cursor[column[k]] \in Nat
    BY DEF Inv, TypeOK, BelowIsFree
  <1> QED BY <1>1, Sizes

\* A family that is placed keeps its rows, and its parent its place by them.
LEMMA PlacedFamilyStays ==
    ASSUME Inv, NEW k \in Boxes, NEW r \in Nat, k \notin Placed, Put(k, r),
           NEW m \in Placed, Children(m) \subseteq Placed, Children(m) # {},
           NearMiddle(m)
    PROVE  (NearMiddle(m))'
  <1>1. m \in Boxes
    BY DEF Inv, TypeOK
  <1>2. Rows(Children(m))' = Rows(Children(m))
    BY <1>1, PutPlaces DEF Rows
  <1>3. /\ row'[m] = row[m] /\ column' = column /\ Placed \subseteq Placed'
        /\ \A j \in Placed : row'[j] = row[j]
    BY PutPlaces
  <1> QED BY <1>2, <1>3 DEF NearMiddle

---------------------------------------------------------------------------
LEMMA InitFamily == Init => FamilyInv
  <1> SUFFICES ASSUME Init PROVE FamilyInv
    OBVIOUS
  <1> USE Sizes
  <1>1. Inv
    BY InitInv
  <1>2. Placed = {} /\ Reached = {}
    BY DEF Init, Placed, Reached
  <1>3. calls = <<Root>> /\ Len(calls) = 1 /\ calls[1] = Root /\ column[Root] = 0
    BY DEF Init
  <1>4. Root \in InTree
    BY <1>1, TreeGrows DEF Inv, TypeOK
  <1>5. CallsArePath
    BY <1>3, <1>4 DEF CallsArePath
  <1>6. RootFirst
    BY <1>3 DEF RootFirst
  <1>7. CursorAtEnd
    BY DEF Init, CursorAtEnd
  <1>8. SiblingsInTurn
    <2>1. Called = {Root}
      BY <1>3 DEF Called
    <2> SUFFICES ASSUME NEW k \in InTree, NEW c \in Children(k), NEW d \in Children(k),
                        d \in Placed \cup Called
                 PROVE  FALSE
      BY DEF SiblingsInTurn
    <2>2. d = Root /\ k \in Boxes
      BY <1>1, <1>2, <2>1, TreeGrows DEF Inv, TypeOK
    <2>3. column[d] = column[k] + 1
      BY <1>1, <2>2, ChildOf
    <2>4. column[k] \in Nat
      BY <1>1, <2>2 DEF Inv, TypeOK, Columns
    <2> QED BY <1>3, <2>2, <2>3, <2>4
  <1> QED BY <1>1, <1>2, <1>5, <1>6, <1>7, <1>8
          DEF FamilyInv, ChildrenFirst, ParentsCalled, Centred, FamiliesInOrder, FamiliesToCome

LEMMA DescendFamily == FamilyInv /\ Descend => FamilyInv'
  <1> SUFFICES ASSUME FamilyInv, Descend PROVE FamilyInv'
    OBVIOUS
  <1> USE Sizes
  <1> DEFINE n == Len(calls)  k == calls[n]  S == Children(k) \ Placed  e == Min(S)
  <1>1. Inv /\ Inv'
    BY NextInv DEF FamilyInv, Next
  <1>2. /\ n \in Nat /\ n >= 1 /\ calls \in Seq(Boxes) /\ k \in Boxes /\ k \in InTree
        /\ column[k] = n - 1
    <2>1. calls \in Seq(Boxes) /\ calls # <<>>
      BY <1>1 DEF Inv, TypeOK, Descend
    <2>2. n \in 1..Len(calls)
      BY <2>1
    <2> QED BY <2>1, <2>2 DEF FamilyInv, CallsArePath
  <1>3. S \in SUBSET Nat /\ S # {} /\ calls' = Append(calls, e)
    BY DEF Descend, Children
  <1>4. e \in S /\ \A x \in S : e <= x
    BY <1>3, MinIsLeast
  <1>5. UNCHANGED <<parent, column, row, cursor>>
    BY DEF Descend
  <1>6. /\ UNCHANGED <<InTree, Placed, Reached>>
        /\ \A b \in Boxes : Children(b)' = Children(b)
    BY <1>5 DEF InTree, Placed, Reached, Children
  <1>7. e \in Boxes /\ e \in InTree /\ column[e] = n /\ parent[e] = k /\ e \notin Placed
    <2>1. e \in Children(k) /\ e \notin Placed
      BY <1>4
    <2> HIDE DEF e, S, k
    <2>2. e \in Boxes /\ parent[e] = k /\ column[e] = column[k] + 1 /\ e \in InTree
      BY <1>1, <1>2, <2>1, ChildOf
    <2> QED BY <1>2, <2>1, <2>2
  <1> HIDE DEF e, S, k
  <1>8. /\ Len(calls') = n + 1 /\ calls'[n + 1] = e
        /\ \A i \in 1..n : calls'[i] = calls[i]
    BY <1>2, <1>3, <1>7
  <1>9. CallsArePath'
    <2>1. \A i \in 1..(n + 1) : calls'[i] \in InTree /\ column[calls'[i]] = i - 1
      <3> TAKE i \in 1..(n + 1)
      <3>1. CASE i = n + 1
        BY <1>2, <1>7, <1>8, <3>1
      <3>2. CASE i \in 1..n
        BY <1>8, <3>2 DEF FamilyInv, CallsArePath
      <3> QED BY <1>2, <3>1, <3>2
    <2>2. \A i \in 1..n : parent[calls'[i + 1]] = calls'[i]
      <3> TAKE i \in 1..n
      <3>1. CASE i = n
        BY <1>2, <1>7, <1>8, <3>1 DEF k
      <3>2. CASE i # n
        <4>1. i \in 1..(n - 1) /\ i + 1 \in 1..n
          BY <1>2, <3>2
        <4> QED BY <1>8, <4>1 DEF FamilyInv, CallsArePath
      <3> QED BY <3>1, <3>2
    <2> QED BY <1>2, <1>5, <1>6, <1>8, <2>1, <2>2 DEF CallsArePath
  <1>10. RootFirst'
    BY <1>2, <1>3, <1>5, <1>6, <1>8 DEF FamilyInv, RootFirst
  <1>11. Called' = Called \cup {e}
    BY <1>2, <1>8 DEF Called
  <1>12. InTree \subseteq Boxes
    BY <1>1, TreeGrows DEF Inv, TypeOK
  <1>13. ParentsCalled'
    BY <1>6, <1>11, <1>12 DEF FamilyInv, ParentsCalled
  <1>14. SiblingsInTurn'
    <2> SUFFICES ASSUME NEW m \in InTree, NEW c \in Children(m), NEW d \in Children(m),
                        c < d, d \in Placed \cup Called'
                 PROVE  c \in Placed /\ (d \in Placed => row[c] < row[d])
      BY <1>5, <1>6, <1>12 DEF SiblingsInTurn
    <2>1. CASE d \in Placed \cup Called
      BY <2>1 DEF FamilyInv, SiblingsInTurn
    <2>2. CASE d = e
      <3>1. m = k /\ c \in Nat /\ d \in Nat
        BY <1>7, <2>2 DEF Children
      <3>2. c \notin S
        BY <1>4, <2>2, <3>1
      <3> QED BY <1>7, <2>2, <3>1, <3>2 DEF S
    <2> QED BY <1>11, <2>1, <2>2
  <1>15. ChildrenFirst' /\ CursorAtEnd'
    BY <1>5, <1>6, <1>12 DEF FamilyInv, ChildrenFirst, CursorAtEnd, Reached
  <1>16. Centred' /\ FamiliesInOrder' /\ FamiliesToCome'
    BY <1>5, <1>6, <1>12
       DEF FamilyInv, Centred, NearMiddle, FamiliesInOrder, FamiliesToCome, Rows, Reached
  <1> QED BY <1>1, <1>9, <1>10, <1>13, <1>14, <1>15, <1>16 DEF FamilyInv

\* A box gets its row where its family is, or right below another box.
LEMMA RowForCentres ==
    ASSUME FamilyInv, NEW k \in Boxes, Children(k) # {}, Children(k) \subseteq Placed
    PROVE  LET kids == Rows(Children(k))  r == RowFor(k)
               ends == Min(kids) + Max(kids)
           IN  \/ ends - 2 * r \in {0, 1}
               \/ /\ 2 * r > ends
                  /\ \E j \in Placed : column[j] = column[k] /\ row[j] + Height = r
  <1> DEFINE kids == Rows(Children(k))  free == cursor[column[k]]
  <1>1. Inv /\ column[k] \in Columns /\ free \in Nat
    BY DEF FamilyInv, Inv, TypeOK
  <1>2. Min(kids) \in Nat /\ Max(kids) \in Nat
    BY <1>1, RowsBounded
  <1>3. Centre(k) = (Min(kids) + Max(kids)) \div 2
    BY DEF Centre
  <1> HIDE DEF kids
  <1> DEFINE ends == Min(kids) + Max(kids)
  <1>4. ends - 2 * Centre(k) \in {0, 1} /\ Centre(k) \in Nat /\ ends \in Nat
    <2>1. ASSUME NEW n \in Nat, NEW mid, mid = n \div 2
          PROVE  n - 2 * mid \in {0, 1} /\ mid \in Nat
      BY <2>1
    <2>2. ends \in Nat /\ Centre(k) = ends \div 2
      BY <1>2, <1>3
    <2> HIDE DEF ends
    <2> QED BY <2>1, <2>2
  <1>5. CASE RowFor(k) = Centre(k)
    BY <1>4, <1>5 DEF kids
  <1>6. CASE RowFor(k) # Centre(k)
    <2>1. RowFor(k) = free /\ ~(Centre(k) > free)
      BY <1>6 DEF RowFor
    <2>2. free > Centre(k) /\ free # 0
      BY <1>1, <1>4, <1>6, <2>1
    <2>3. 2 * free > ends
      <3> HIDE DEF ends, free
      <3> QED BY <1>1, <1>4, <2>2
    <2>4. \E j \in Placed : column[j] = column[k] /\ row[j] + Height = free
      BY <1>1, <2>2 DEF FamilyInv, CursorAtEnd
    <2> QED BY <2>1, <2>3, <2>4 DEF kids
  <1> QED BY <1>5, <1>6

\* The end of the box put last is the free row of its column.
LEMMA CursorStaysAtEnd ==
    ASSUME Inv, CursorAtEnd, NEW k \in Boxes, NEW r \in Nat, k \notin Placed, Put(k, r)
    PROVE  CursorAtEnd'
  <1>1. /\ column' = column /\ Placed' = Placed \cup {k}
        /\ row'[k] = r /\ \A j \in Placed : row'[j] = row[j]
        /\ cursor'[column[k]] = r + Height
        /\ \A c \in Columns : c # column[k] => cursor'[c] = cursor[c]
    BY PutPlaces
  <1> SUFFICES ASSUME NEW c \in Columns
               PROVE  cursor'[c] = 0
                      \/ \E j \in Placed' : column'[j] = c /\ row'[j] + Height = cursor'[c]
    BY DEF CursorAtEnd
  <1>2. CASE c = column[k]
    BY <1>1, <1>2
  <1>3. CASE c # column[k]
    <2>1. cursor[c] = 0 \/ \E j \in Placed : column[j] = c /\ row[j] + Height = cursor[c]
      BY DEF CursorAtEnd
    <2> QED BY <1>1, <1>3, <2>1
  <1> QED BY <1>2, <1>3

LEMMA PlaceFamily == FamilyInv /\ Place => FamilyInv'
  <1> SUFFICES ASSUME FamilyInv, Place PROVE FamilyInv'
    OBVIOUS
  <1> USE Sizes
  <1> DEFINE n == Len(calls)  k == calls[n]  r == RowFor(k)
  <1>1. Inv /\ Inv'
    BY NextInv DEF FamilyInv, Next
  <1>2. /\ n \in Nat /\ n >= 1 /\ calls \in Seq(Boxes) /\ k \in Boxes /\ k \in InTree
        /\ column[k] = n - 1 /\ k \notin Placed
    <2>1. calls \in Seq(Boxes) /\ calls # <<>>
      BY <1>1 DEF Inv, TypeOK, Place
    <2>2. n \in 1..Len(calls)
      BY <2>1
    <2> QED BY <1>1, <2>1, <2>2 DEF FamilyInv, CallsArePath, Inv, CallsGoDown
  <1>3. Children(k) \subseteq Placed /\ Put(k, r) /\ calls' = SubSeq(calls, 1, n - 1)
    BY DEF Place
  <1>4. r \in Nat /\ r >= cursor[column[k]]
    BY <1>1, <1>2, <1>3, RowForIsFree
  <1>5. Children(k) # {} =>
          LET ends == Min(Rows(Children(k))) + Max(Rows(Children(k)))
          IN  \/ ends - 2 * r \in {0, 1}
              \/ /\ 2 * r > ends
                 /\ \E j \in Placed : column[j] = column[k] /\ row[j] + Height = r
    BY <1>2, <1>3, RowForCentres
  <1>6. InTree \subseteq Boxes /\ Placed \subseteq Boxes
    BY <1>1, TreeGrows DEF Inv, TypeOK
  <1>7. /\ calls' \in Seq(Boxes) /\ Len(calls') = n - 1
        /\ \A i \in 1..(n - 1) : calls'[i] = calls[i] /\ calls[i] # k
    <2>1. /\ SubSeq(calls, 1, n - 1) \in Seq(Boxes)
          /\ Len(SubSeq(calls, 1, n - 1)) = n - 1
          /\ \A i \in 1..(n - 1) : SubSeq(calls, 1, n - 1)[i] = calls[i]
      <3> HIDE DEF n
      <3>1. \A i \in 1..(n - 1) : calls[i] \in Boxes
        BY <1>2 DEF n
      <3>2. /\ SubSeq(calls, 1, n - 1) \in Seq(Boxes)
            /\ Len(SubSeq(calls, 1, n - 1)) = IF 1 <= n - 1 THEN n - 1 - 1 + 1 ELSE 0
            /\ \A i \in 1..(n - 1 - 1 + 1) : SubSeq(calls, 1, n - 1)[i] = calls[1 + i - 1]
        BY <1>2, <3>1, SubSeqProperties
      <3> QED BY <1>2, <3>2
    <2>2. \A i \in 1..(n - 1) : column[calls[i]] = i - 1
      BY <1>2 DEF FamilyInv, CallsArePath
    <2>3. \A i \in 1..(n - 1) : calls[i] # k
      <3> TAKE i \in 1..(n - 1)
      <3>1. i - 1 # n - 1
        BY <1>2
      <3> QED BY <1>2, <2>2, <3>1
    <2> QED BY <1>3, <2>1, <2>3
  <1>8. /\ parent' = parent /\ column' = column /\ InTree' = InTree
        /\ Placed' = Placed \cup {k} /\ \A b \in Boxes : Children(b)' = Children(b)
        /\ row'[k] = r /\ \A j \in Placed : row'[j] = row[j]
    BY <1>1, <1>2, <1>3, <1>4, PutPlaces
  <1>9. Reached' = Reached \cup {k}
    BY <1>2, <1>8 DEF Reached
  <1>10. \A j \in Placed : column[j] = column[k] => row[j] < r
    BY <1>1, <1>2, <1>4, PlacedAbove
  <1>11. Called' = Called \ {k}
    <2>1. \A i \in 1..n : i = n \/ i \in 1..(n - 1)
      BY <1>2
    <2> QED BY <1>7, <1>2, <2>1 DEF Called
  <1>12. \A m \in Called : \E i \in 1..n : m = calls[i] /\ column[m] = i - 1
    BY <1>2 DEF Called, FamilyInv, CallsArePath
  <1>13. \A m \in Called' : column[m] < column[k]
    <2> TAKE m \in Called'
    <2>1. PICK i \in 1..(n - 1) : m = calls[i]
      BY <1>7 DEF Called
    <2>2. column[m] = i - 1
      BY <1>2, <2>1 DEF FamilyInv, CallsArePath
    <2> QED BY <1>2, <2>2
  <1>14. Reached \subseteq Boxes /\ k \notin Reached /\ Reached \subseteq Placed
    BY <1>2, <1>6 DEF Reached
  <1> HIDE DEF k, r
  <1>15. CallsArePath'
    <2>1. \A i \in 1..(n - 1) : calls'[i] \in InTree /\ column[calls'[i]] = i - 1
      BY <1>2, <1>7 DEF FamilyInv, CallsArePath
    <2>2. \A i \in 1..(n - 1 - 1) : parent[calls'[i + 1]] = calls'[i]
      <3> TAKE i \in 1..(n - 1 - 1)
      <3>1. i \in 1..(n - 1) /\ i + 1 \in 1..(n - 1)
        BY <1>2
      <3> QED BY <1>2, <1>7, <3>1 DEF FamilyInv, CallsArePath
    <2> QED BY <1>7, <1>8, <2>1, <2>2 DEF CallsArePath
  <1>16. RootFirst'
    <2>1. column'[Root] = 0
      BY <1>8 DEF FamilyInv, RootFirst
    <2>2. CASE Root \in Placed
      BY <1>8, <2>1, <2>2 DEF RootFirst
    <2>3. CASE calls[1] = Root /\ n = 1
      BY <1>8, <2>1, <2>3 DEF RootFirst, k
    <2>4. CASE calls[1] = Root /\ n # 1
      <3>1. 1 \in 1..(n - 1) /\ Len(calls') # 0
        BY <1>2, <1>7, <2>4
      <3>2. calls'[1] = Root /\ calls' # <<>>
        BY <1>7, <2>4, <3>1
      <3> QED BY <2>1, <3>2 DEF RootFirst
    <2> QED BY <2>2, <2>3, <2>4 DEF FamilyInv, RootFirst
  <1>17. ChildrenFirst'
    BY <1>3, <1>8, <1>9, <1>14, <1>2 DEF FamilyInv, ChildrenFirst
  <1>18. ParentsCalled'
    <2> SUFFICES ASSUME NEW m \in InTree, m \notin Placed, m # k,
                        NEW c \in Children(m), c \in Placed \/ c = k
                 PROVE  m \in Called'
      BY <1>6, <1>8 DEF ParentsCalled
    <2>1. CASE c \in Placed
      BY <1>11, <2>1 DEF FamilyInv, ParentsCalled
    <2>2. CASE c = k
      <3>1. parent[k] = m /\ column[k] = column[m] + 1 /\ column[m] \in Nat
        <4>1. m \in Boxes /\ k \in Children(m)
          BY <1>6, <2>2
        <4>2. parent[k] = m /\ column[k] = column[m] + 1
          BY <1>1, <4>1, ChildOf
        <4>3. column[m] \in Nat
          BY <1>1, <4>1 DEF Inv, TypeOK, Columns
        <4> QED BY <4>2, <4>3
      <3>2. n - 1 \in 1..(n - 1)
        BY <1>2, <3>1
      <3>3. parent[calls[n - 1 + 1]] = calls[n - 1] /\ n - 1 + 1 = n
        BY <1>2, <3>2 DEF FamilyInv, CallsArePath
      <3>4. calls'[n - 1] = m
        BY <1>7, <3>1, <3>2, <3>3 DEF k
      <3> QED BY <1>7, <3>2, <3>4 DEF Called
    <2> QED BY <2>1, <2>2
  <1>19. CursorAtEnd'
    BY <1>1, <1>2, <1>3, <1>4, CursorStaysAtEnd DEF FamilyInv
  <1>20. Centred'
    <2> SUFFICES ASSUME NEW m \in Reached', Children(m)' # {}
                 PROVE  NearMiddle(m)'
      BY DEF Centred
    <2>1. CASE m \in Reached
      <3>1. /\ m \in Boxes /\ m \in Placed /\ Children(m) # {}
            /\ Children(m) \subseteq Placed
        BY <1>8, <1>14, <2>1 DEF FamilyInv, ChildrenFirst
      <3>2. NearMiddle(m)
        BY <2>1, <3>1 DEF FamilyInv, Centred
      <3> QED BY <1>1, <1>2, <1>3, <1>4, <3>1, <3>2, PlacedFamilyStays
    <2>2. CASE m = k
      <3>1. m \in Boxes /\ Children(m) \subseteq Placed
        BY <1>2, <1>3, <2>2
      <3>2. Children(m)' = Children(m)
        BY <1>8, <3>1
      <3>3. Rows(Children(m))' = Rows(Children(m)) /\ Children(m) # {}
        BY <1>8, <3>1, <3>2 DEF Rows
      <3>4. LET ends == Min(Rows(Children(m))) + Max(Rows(Children(m)))
            IN  \/ ends - 2 * r \in {0, 1}
                \/ /\ 2 * r > ends
                   /\ \E j \in Placed : column[j] = column[m] /\ row[j] + Height = r
        BY <1>5, <2>2, <3>3
      <3>5. row'[m] = r
        BY <1>8, <2>2
      <3> DEFINE ends == Min(Rows(Children(m))) + Max(Rows(Children(m)))
      <3>6. (Min(Rows(Children(m))) + Max(Rows(Children(m))))' = ends
        BY <3>3
      <3>7. CASE ends - 2 * r \in {0, 1}
        BY <3>5, <3>6, <3>7 DEF NearMiddle
      <3>8. CASE 2 * r > ends /\ \E j \in Placed : column[j] = column[m] /\ row[j] + Height = r
        <4>1. PICK j \in Placed : column[j] = column[m] /\ row[j] + Height = r
          BY <3>8
        <4>2. j \in Placed' /\ row'[j] = row[j] /\ column' = column
          BY <1>8, <4>1
        <4> HIDE DEF ends
        <4> QED BY <3>5, <3>6, <3>8, <4>1, <4>2 DEF NearMiddle
      <3> QED BY <3>4, <3>7, <3>8
    <2> QED BY <1>9, <2>1, <2>2
  <1>21. FamiliesInOrder'
    <2> SUFFICES ASSUME NEW j \in Reached \cup {k}, NEW m \in Reached \cup {k}
                 PROVE  /\ column[j] = column[m] /\ row'[j] < row'[m] =>
                             \A c \in Children(j), d \in Children(m) : row'[c] < row'[d]
                        /\ j = m => \A c, d \in Children(m) : c < d => row'[c] < row'[d]
      BY <1>2, <1>8, <1>9, <1>14 DEF FamiliesInOrder
    <2>1. /\ \A c \in Children(j) : c \in Placed /\ row'[c] = row[c]
          /\ \A c \in Children(m) : c \in Placed /\ row'[c] = row[c]
      BY <1>3, <1>8 DEF FamilyInv, ChildrenFirst
    <2>2. ASSUME column[j] = column[m], row'[j] < row'[m],
                 NEW c \in Children(j), NEW d \in Children(m)
          PROVE  row[c] < row[d]
      <3>1. CASE j \in Reached /\ m \in Reached
        <4>1. row[j] < row[m]
          BY <1>8, <1>14, <2>2, <3>1
        <4> QED BY <2>2, <3>1, <4>1 DEF FamilyInv, FamiliesInOrder
      <3>2. CASE j \in Reached /\ m = k
        BY <1>2, <2>1, <2>2, <3>2 DEF FamilyInv, FamiliesToCome
      <3>3. CASE j = k /\ m \in Reached
        <4>1. row[m] < r /\ row'[m] = row[m] /\ row[m] \in Nat
          BY <1>1, <1>8, <1>10, <1>14, <2>2, <3>3 DEF Inv, TypeOK
        <4> QED BY <1>4, <1>8, <2>2, <3>3, <4>1
      <3>4. CASE j = k /\ m = k
        BY <1>4, <1>8, <2>2, <3>4
      <3> QED BY <3>1, <3>2, <3>3, <3>4
    <2>3. ASSUME j = m, NEW c \in Children(m), NEW d \in Children(m), c < d
          PROVE  row[c] < row[d]
      <3>1. m \in InTree
        BY <1>2 DEF Reached
      <3> QED BY <2>1, <2>3, <3>1 DEF FamilyInv, SiblingsInTurn
    <2> QED BY <2>1, <2>2, <2>3
  <1>22. FamiliesToCome'
    <2> SUFFICES ASSUME NEW j \in Reached \cup {k}, NEW m \in InTree, m \notin Placed, m # k,
                        column[j] = column[m],
                        NEW c \in Children(j), NEW d \in Children(m), d \in Placed \/ d = k
                 PROVE  row'[c] < row'[d]
      BY <1>2, <1>6, <1>8, <1>9, <1>14 DEF FamiliesToCome
    <2>1. c \in Placed /\ row'[c] = row[c]
      BY <1>3, <1>8 DEF FamilyInv, ChildrenFirst
    <2>2. CASE j \in Reached /\ d \in Placed
      BY <1>8, <2>1, <2>2 DEF FamilyInv, FamiliesToCome
    <2>3. CASE j \in Reached /\ d = k
      <3>1. column[c] = column[j] + 1
        BY <1>1, <1>14, <2>3, ChildOf
      <3>2. column[k] = column[m] + 1
        BY <1>1, <1>6, <2>3, ChildOf
      <3> QED BY <1>8, <1>10, <2>1, <2>3, <3>1, <3>2
    <2>4. CASE j = k
      <3>1. m \in Called'
        BY <1>6, <1>8, <1>18 DEF ParentsCalled
      <3>2. column[m] < column[k] /\ column[m] = column[k] /\ column[k] \in Int
        BY <1>2, <1>13, <2>4, <3>1
      <3> QED BY <3>2
    <2> QED BY <2>2, <2>3, <2>4
  <1>23. SiblingsInTurn'
    <2> SUFFICES ASSUME NEW m \in InTree, NEW c \in Children(m), NEW d \in Children(m),
                        c < d, d \in Placed' \cup Called'
                 PROVE  c \in Placed' /\ (d \in Placed' => row'[c] < row'[d])
      BY <1>6, <1>8 DEF SiblingsInTurn
    <2>1. d \in Placed \cup Called
      <3>1. k \in Called
        BY <1>2 DEF Called, k
      <3> QED BY <1>8, <1>11, <3>1
    <2>2. c \in Placed /\ (d \in Placed => row[c] < row[d]) /\ row'[c] = row[c]
      BY <1>8, <2>1 DEF FamilyInv, SiblingsInTurn
    <2>3. CASE d = k
      <3>1. column[c] = column[m] + 1 /\ column[d] = column[m] + 1
        BY <1>1, <1>6, ChildOf
      <3> QED BY <1>8, <1>10, <2>2, <2>3, <3>1
    <2>4. CASE d # k
      BY <1>8, <2>2, <2>4
    <2> QED BY <2>3, <2>4
  <1> QED BY <1>1, <1>15, <1>16, <1>17, <1>18, <1>19, <1>20, <1>21, <1>22, <1>23
          DEF FamilyInv

LEMMA LostFamily == FamilyInv /\ PlaceLost => FamilyInv'
  <1> SUFFICES ASSUME FamilyInv, PlaceLost PROVE FamilyInv'
    OBVIOUS
  <1> USE Sizes
  <1> DEFINE l == Min(Boxes \ Placed)  r == cursor[column[l]]
  <1>1. Inv /\ Inv'
    BY NextInv DEF FamilyInv, Next
  <1>2. calls = <<>> /\ calls' = calls /\ Put(l, r) /\ Called = {} /\ Called' = {}
    BY DEF PlaceLost, Called
  <1>3. l \in Boxes /\ l \notin Placed
    <2>1. Boxes \ Placed \in SUBSET Nat /\ Boxes \ Placed # {}
      BY DEF PlaceLost
    <2> QED BY <2>1, MinIsLeast
  <1> HIDE DEF l
  <1>4. r \in Nat
    BY <1>1, <1>3 DEF Inv, TypeOK
  <1>5. InTree \subseteq Boxes
    BY <1>1, TreeGrows DEF Inv, TypeOK
  \* the call for the root has returned, and with it all that it made
  <1>6. InTree \subseteq Placed
    <2> DEFINE Out == InTree \ Placed
    <2> SUFFICES ASSUME Out # {} PROVE FALSE
      OBVIOUS
    <2>1. Out \in SUBSET Nat
      BY <1>5
    <2>2. PICK k \in Out : \A x \in Out : k <= x
      BY <2>1, LeastExists
    <2>3. Root \in Placed
      BY <1>2 DEF FamilyInv, RootFirst
    <2>4. parent[k] \in InTree /\ k \in Boxes
      <3>1. \A b \in Boxes : b \in InTree <=> b = Root \/ parent[b] \in InTree
        BY <1>1, TreeGrows DEF Inv, TypeOK
      <3>2. k \in InTree /\ k # Root /\ k \in Boxes
        BY <1>5, <2>2, <2>3
      <3> QED BY <3>1, <3>2
    <2>5. parent[k] < k /\ parent[k] \in Nat
      BY <1>1, <1>5, <2>4 DEF Inv, ParentsFirst
    <2>6. parent[k] \in Placed
      BY <2>2, <2>4, <2>5
    <2>7. k \in Children(parent[k])
      BY <2>4 DEF Children
    <2> QED BY <2>2, <2>4, <2>6, <2>7 DEF FamilyInv, ChildrenFirst, Reached
  <1>7. Reached = InTree /\ Reached' = InTree
    BY <1>1, <1>2, <1>3, <1>4, <1>6, PutPlaces DEF Reached
  <1>8. /\ parent' = parent /\ column' = column /\ InTree' = InTree
        /\ Placed' = Placed \cup {l} /\ \A b \in Boxes : Children(b)' = Children(b)
        /\ \A j \in Placed : row'[j] = row[j]
    BY <1>1, <1>2, <1>3, <1>4, PutPlaces
  <1>9. \A k \in InTree : Children(k) \subseteq InTree /\ Children(k) \subseteq Placed
    BY <1>1, <1>5, <1>6, ChildOf
  <1>10. CallsArePath' /\ RootFirst'
    BY <1>2, <1>8 DEF FamilyInv, CallsArePath, RootFirst
  <1>11. ChildrenFirst' /\ ParentsCalled'
    BY <1>5, <1>6, <1>7, <1>8, <1>9 DEF ChildrenFirst, ParentsCalled
  <1>12. CursorAtEnd'
    BY <1>1, <1>2, <1>3, <1>4, CursorStaysAtEnd DEF FamilyInv
  <1>13. Centred'
    <2> SUFFICES ASSUME NEW m \in InTree, Children(m)' # {}
                 PROVE  NearMiddle(m)'
      BY <1>7 DEF Centred
    <2>1. m \in Placed /\ Children(m) # {} /\ Children(m) \subseteq Placed
      BY <1>5, <1>6, <1>8, <1>9
    <2>2. NearMiddle(m)
      BY <1>7, <2>1 DEF FamilyInv, Centred
    <2> QED BY <1>1, <1>2, <1>3, <1>4, <2>1, <2>2, PlacedFamilyStays
  <1>14. FamiliesInOrder'
    <2> SUFFICES ASSUME NEW j \in InTree, NEW m \in InTree
                 PROVE  /\ column[j] = column[m] /\ row'[j] < row'[m] =>
                             \A c \in Children(j), d \in Children(m) : row'[c] < row'[d]
                        /\ j = m => \A c, d \in Children(m) : c < d => row'[c] < row'[d]
      BY <1>5, <1>7, <1>8 DEF FamiliesInOrder
    <2>1. /\ \A c \in Children(j) : row'[c] = row[c]
          /\ \A c \in Children(m) : row'[c] = row[c]
          /\ row'[j] = row[j] /\ row'[m] = row[m]
      BY <1>6, <1>8, <1>9
    <2> QED BY <1>7, <2>1 DEF FamilyInv, FamiliesInOrder
  <1>15. FamiliesToCome'
    BY <1>6, <1>8 DEF FamiliesToCome
  <1>16. SiblingsInTurn'
    <2> SUFFICES ASSUME NEW m \in InTree, NEW c \in Children(m), NEW d \in Children(m), c < d
                 PROVE  c \in Placed' /\ row'[c] < row'[d]
      BY <1>5, <1>8 DEF SiblingsInTurn
    <2>1. c \in Placed /\ d \in Placed
      BY <1>9
    <2> QED BY <1>8, <2>1 DEF FamilyInv, SiblingsInTurn
  <1> QED BY <1>1, <1>10, <1>11, <1>12, <1>13, <1>14, <1>15, <1>16 DEF FamilyInv

LEMMA NextFamily == FamilyInv /\ [Next]_vars => FamilyInv'
  <1>1. FamilyInv /\ UNCHANGED vars => FamilyInv'
    <2> SUFFICES ASSUME FamilyInv, UNCHANGED vars PROVE FamilyInv'
      OBVIOUS
    <2>1. Inv'
      BY NextInv DEF FamilyInv
    <2>2. UNCHANGED <<InTree, Placed, Reached, Called>>
          /\ \A b : Children(b)' = Children(b)
      BY DEF vars, InTree, Placed, Reached, Called, Children
    <2>3. CallsArePath' /\ RootFirst' /\ ChildrenFirst' /\ ParentsCalled' /\ CursorAtEnd'
      BY <2>2 DEF vars, FamilyInv, CallsArePath, RootFirst, ChildrenFirst, ParentsCalled,
                  CursorAtEnd
    <2>4. Centred' /\ FamiliesInOrder' /\ FamiliesToCome' /\ SiblingsInTurn'
      BY <2>2 DEF vars, FamilyInv, Centred, NearMiddle, FamiliesInOrder, FamiliesToCome,
                  SiblingsInTurn, Rows
    <2> QED BY <2>1, <2>3, <2>4 DEF FamilyInv
  <1> QED BY <1>1, DescendFamily, PlaceFamily, LostFamily DEF Next

---------------------------------------------------------------------------
\* Rows are numbers and every box is in a column there is, whatever the graph.
THEOREM LayoutTypeCorrect == Spec => []TypeOK
  <1>1. Inv => TypeOK
    BY DEF Inv
  <1> QED BY <1>1, InitInv, NextInv, PTL DEF Spec

\* No two boxes of a column overlap, however place() centres a parent on its
\* children, lost boxes included.
THEOREM BoxesApart == Spec => []NoOverlap
  <1>1. Inv => NoOverlap
    BY DEF Inv
  <1> QED BY <1>1, InitInv, NextInv, PTL DEF Spec

\* A parent is drawn half way between its first and last child, or below that and
\* then right under another box, and families stand in the order of their parents, whatever the
\* shape of the tree: place() follows it depth first.
THEOREM FamiliesKept == Spec => []FamiliesPlaced
  <1>1. FamilyInv => FamiliesPlaced
    BY DEF FamilyInv, FamiliesPlaced
  <1> QED BY <1>1, InitFamily, NextFamily, PTL DEF Spec
=============================================================================
