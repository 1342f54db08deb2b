---------------------------- MODULE GraphWalkProofs ----------------------------
(***************************************************************************)
(* The two walks over links.  A graph: for any objects, any number of      *)
(* links and any limits, while the kernel changes under the walk, it is a  *)
(* tree of what was reached, and with the collections shut its columns are *)
(* shortest paths.  A list: for any objects and any length, while objects  *)
(* are freed and put into the list, the walk returns only what the list    *)
(* held, and a link that is offered opens.                                 *)
(***************************************************************************)
EXTENDS Links, GraphWalk, Recursion, SequenceTheorems, FiniteSetTheorems

---------------------------------------------------------------------------
(* The inductive invariant: what waits was drawn where it says, and the    *)
(* boxes of an object's links are there only for the links reached so far, *)
(* so that each of them is new when it is drawn.                           *)

\* An object on the frontier is drawn in the column its entry says.
FrontierDrawn ==
    \A i \in 1..Len(frontier) :
        /\ ObjectKey(frontier[i].of) \in Boxes
        /\ depth[ObjectKey(frontier[i].of)] = frontier[i].level

\* The box being walked is drawn and open, and so is the collection whose
\* members are being drawn.
HereDrawn ==
    /\ at # "frontier" => /\ ObjectKey(here.of) \in Boxes \cap expanded
                          /\ depth[ObjectKey(here.of)] = here.level
    /\ at = "members" => /\ FanKey \in Boxes \cap expanded
                         /\ depth[FanKey] = here.level + 1

\* A box that is not an object belongs to a link that was reached.
PartsReached ==
    \A k \in Boxes : k.part # "object" =>
        /\ \A i \in 1..Len(frontier) : k.of # frontier[i].of
        /\ at # "frontier" /\ k.of = here.of => k.link <= link
        /\ at = "members" /\ k.of = here.of /\ k.link = link => k.part = "fan"

CentreDrawn == ObjectKey(Centre) \in Boxes

\* The object a box belongs to is drawn.
OwnersDrawn == \A k \in Boxes : ObjectKey(k.of) \in Boxes

Inv == /\ TypeOK /\ TreeDrawn /\ WalkedOnce /\ ShutBoxesHide
       /\ FrontierDrawn /\ HereDrawn /\ PartsReached /\ CentreDrawn /\ OwnersDrawn

---------------------------------------------------------------------------
(* Keys and queues *)

\* Keys of different things differ.
LEMMA Keys ==
    /\ \A o \in Objects : ObjectKey(o) \in Key /\ ObjectKey(o).of = o
                          /\ ObjectKey(o).part = "object" /\ ObjectKey(o).link = 0
    /\ \A o \in Objects, i \in Nat, p \in {"fan", "more", "error"} :
          LinkKey(o, i, p) \in Key /\ LinkKey(o, i, p).of = o
          /\ LinkKey(o, i, p).link = i /\ LinkKey(o, i, p).part = p
  BY DEF Key, ObjectKey, LinkKey

\* What joins the end of the frontier, and what is left behind its head.
LEMMA Queue ==
    ASSUME NEW s \in Seq(Entry)
    PROVE  /\ Len(s) \in Nat /\ \A i \in 1..Len(s) : s[i] \in Entry
           /\ \A x \in Entry :
                 /\ Append(s, x) \in Seq(Entry) /\ Len(Append(s, x)) = Len(s) + 1
                 /\ \A i \in 1..Len(s) : Append(s, x)[i] = s[i]
                 /\ Append(s, x)[Len(s) + 1] = x
           /\ s # <<>> =>
                 /\ Head(s) = s[1] /\ Len(s) >= 1
                 /\ Tail(s) \in Seq(Entry) /\ Len(Tail(s)) = Len(s) - 1
                 /\ \A i \in 1..(Len(s) - 1) : Tail(s)[i] = s[i + 1]
  OBVIOUS

---------------------------------------------------------------------------
(* Drawing *)

\* A new box one column after a box that is open keeps the tree.
LEMMA DrawKeepsTree ==
    ASSUME TypeOK, TreeDrawn, ShutBoxesHide, CentreDrawn, expanded' = expanded,
           NEW k \in Key, k \notin Boxes,
           NEW src \in Boxes, src \in expanded,
           NEW column \in Nat, column = depth[src] + 1,
           Draw(k, src, column)
    PROVE  /\ TreeDrawn' /\ ShutBoxesHide' /\ CentreDrawn'
           /\ edges' \subseteq Edge
           /\ Boxes' = Boxes \cup {k} /\ Boxes' \subseteq Key
           /\ depth' \in [Boxes' -> Nat]
           /\ depth'[k] = column /\ \A b \in Boxes : depth'[b] = depth[b]
  <1> DEFINE new == [src |-> src, dst |-> k, back |-> FALSE]
  <1>1. /\ Boxes' = Boxes \cup {k}
        /\ depth'[k] = column /\ \A b \in Boxes : depth'[b] = depth[b]
        /\ edges' = edges \cup {new}
    BY DEF Draw, Boxes
  <1>2. Boxes' \subseteq Key /\ edges' \subseteq Edge /\ depth' \in [Boxes' -> Nat]
    <2>1. Boxes \subseteq Key /\ depth \in [Boxes -> Nat] /\ edges \subseteq Edge
      BY DEF TypeOK
    <2>2. new \in Edge
      BY <2>1 DEF Edge
    <2>3. depth' = [b \in Boxes \cup {k} |-> IF b = k THEN column ELSE depth[b]]
      BY DEF Draw
    <2> QED
      BY <1>1, <2>1, <2>2, <2>3
  <1>3. new.src = src /\ new.dst = k /\ new.back = FALSE
    OBVIOUS
  <1> HIDE DEF new
  <1>4. k # ObjectKey(Centre) /\ CentreDrawn'
    BY <1>1 DEF CentreDrawn
  <1>5. \A e \in edges : e.src \in Boxes /\ e.dst \in Boxes /\ e.dst # k
    BY DEF TreeDrawn
  <1>6. TreeDrawn'
    <2>1. \A e \in edges' : e.src \in Boxes' /\ e.dst \in Boxes'
      BY <1>1, <1>3, <1>5
    <2>2. \A e \in edges' : ~e.back => /\ e.dst # ObjectKey(Centre)
                                       /\ depth'[e.dst] = depth'[e.src] + 1
      BY <1>1, <1>3, <1>4, <1>5 DEF TreeDrawn
    <2>3. \A e, f \in edges' : ~e.back /\ ~f.back /\ e.dst = f.dst => e = f
      BY <1>1, <1>3, <1>5 DEF TreeDrawn
    <2>4. \A b \in Boxes' \ {ObjectKey(Centre)} : \E e \in edges' : ~e.back /\ e.dst = b
      BY <1>1, <1>3 DEF TreeDrawn
    <2> QED
      BY <2>1, <2>2, <2>3, <2>4 DEF TreeDrawn, Boxes
  <1>7. ShutBoxesHide'
    BY <1>1, <1>3 DEF ShutBoxesHide
  <1> QED
    BY <1>1, <1>2, <1>4, <1>6, <1>7

\* So does a back edge out of a box that is open.
LEMMA BackEdgeKeepsTree ==
    ASSUME TypeOK, TreeDrawn, ShutBoxesHide, CentreDrawn, expanded' = expanded,
           NEW k \in Boxes,
           NEW src \in Boxes, src \in expanded,
           edges' = edges \cup {[src |-> src, dst |-> k, back |-> TRUE]},
           depth' = depth
    PROVE  TreeDrawn' /\ ShutBoxesHide' /\ CentreDrawn' /\ edges' \subseteq Edge
  <1> DEFINE new == [src |-> src, dst |-> k, back |-> TRUE]
  <1>1. new.src = src /\ new.dst = k /\ new.back = TRUE /\ edges' = edges \cup {new}
        /\ Boxes' = Boxes
    BY DEF Boxes
  <1>2. new \in Edge
    BY DEF Edge, TypeOK
  <1> HIDE DEF new
  <1>3. TreeDrawn'
    BY <1>1 DEF TreeDrawn
  <1> QED
    BY <1>1, <1>2, <1>3 DEF ShutBoxesHide, CentreDrawn, TypeOK

---------------------------------------------------------------------------
(* The steps of the loops *)

\* Reaching an object from the box being walked keeps what was drawn and what
\* waits in order.
LEMMA ReachKeeps ==
    ASSUME Inv, at # "frontier",
           NEW o \in Objects,
           NEW src \in Boxes, src \in expanded, src.of = here.of,
           NEW column \in Nat, column = depth[src] + 1,
           Reach(o, src, column),
           expanded' = expanded, here' = here, at' = at,
           link' \in Nat, link' >= link, at = "members" => link' = link
    PROVE  /\ TreeDrawn' /\ ShutBoxesHide' /\ CentreDrawn' /\ OwnersDrawn'
           /\ WalkedOnce' /\ FrontierDrawn' /\ HereDrawn' /\ PartsReached'
           /\ frontier' \in Seq(Entry) /\ edges' \subseteq Edge
           /\ Boxes' \subseteq Key /\ depth' \in [Boxes' -> Nat]
  <1>0. /\ TypeOK /\ TreeDrawn /\ ShutBoxesHide /\ CentreDrawn /\ OwnersDrawn
        /\ WalkedOnce /\ FrontierDrawn /\ HereDrawn /\ PartsReached
    BY DEF Inv
  <1>1. /\ frontier \in Seq(Entry) /\ Boxes \subseteq Key /\ depth \in [Boxes -> Nat]
        /\ here \in Entry /\ link \in Nat
    BY <1>0, LimitsAssumption DEF TypeOK, Entry
  <1>2. \A i \in 1..Len(frontier) : frontier[i] \in Entry
    BY <1>1, Queue
  <1>3. FanKey' = IF link' = link THEN FanKey ELSE FanKey'
    BY DEF FanKey
  <1>4. CASE ObjectKey(o) \in Boxes
    <2>1. /\ edges' = edges \cup {[src |-> src, dst |-> ObjectKey(o), back |-> TRUE]}
          /\ depth' = depth /\ frontier' = frontier /\ Boxes' = Boxes
      BY <1>4 DEF Reach, Boxes
    <2>2. TreeDrawn' /\ ShutBoxesHide' /\ CentreDrawn' /\ edges' \subseteq Edge
      BY <1>0, <1>4, <2>1, BackEdgeKeepsTree
    <2>3. WalkedOnce'
      <3>1. \A e \in edges' : e \in edges \/ e.src.of = here.of
        BY <2>1
      <3> QED
        BY <1>0, <2>1, <3>1 DEF WalkedOnce
    <2>4. FrontierDrawn' /\ HereDrawn' /\ OwnersDrawn'
      BY <1>0, <2>1, <1>3 DEF FrontierDrawn, HereDrawn, OwnersDrawn, FanKey
    <2>5. PartsReached'
      <3> SUFFICES ASSUME NEW b \in Boxes, b.part # "object"
                   PROVE  /\ \A i \in 1..Len(frontier) : b.of # frontier[i].of
                          /\ b.of = here.of => b.link <= link'
                          /\ at = "members" /\ b.of = here.of /\ b.link = link'
                             => b.part = "fan"
        BY <2>1 DEF PartsReached
      <3>1. b.link \in Nat
        BY <1>1 DEF Key
      <3> QED BY <1>0, <1>1, <3>1 DEF PartsReached
    <2> QED
      BY <1>1, <2>1, <2>2, <2>3, <2>4, <2>5
  <1>5. CASE ObjectKey(o) \notin Boxes
    <2> DEFINE k == ObjectKey(o)
               x == [of |-> o, level |-> column]
    <2>1. Draw(k, src, column) /\ frontier' = Append(frontier, x)
      BY <1>5 DEF Reach
    <2>2. k \in Key /\ k.of = o /\ k.part = "object" /\ x \in Entry /\ x.of = o
          /\ x.level = column
      BY Keys DEF Entry
    <2>3. /\ TreeDrawn' /\ ShutBoxesHide' /\ CentreDrawn'
          /\ edges' \subseteq Edge
          /\ Boxes' = Boxes \cup {k} /\ Boxes' \subseteq Key
          /\ depth' \in [Boxes' -> Nat]
          /\ depth'[k] = column /\ \A b \in Boxes : depth'[b] = depth[b]
      BY <1>0, <1>5, <2>1, <2>2, DrawKeepsTree
    <2>4. /\ frontier' \in Seq(Entry) /\ Len(frontier) \in Nat
          /\ Len(frontier') = Len(frontier) + 1
          /\ \A i \in 1..Len(frontier) : frontier'[i] = frontier[i]
          /\ frontier'[Len(frontier) + 1] = x
      BY <1>1, <2>1, <2>2, Queue
    <2>5. \A i \in 1..Len(frontier) : frontier[i].of # o
      BY <1>0, <1>5 DEF FrontierDrawn
    <2>6. here.of # o /\ \A b \in Boxes : b.of # o
      BY <1>0, <1>5 DEF HereDrawn, OwnersDrawn
    <2>7. \A e \in edges' : e \in edges \/ e.src.of = here.of
      BY <2>1 DEF Draw
    <2>8. \A e \in edges : e.src.of # o
      BY <1>0, <2>6 DEF TreeDrawn
    <2>9. \A i \in 1..Len(frontier') :
             \/ i \in 1..Len(frontier) /\ frontier'[i] = frontier[i]
             \/ i = Len(frontier) + 1 /\ frontier'[i] = x
      BY <2>4
    <2> HIDE DEF k, x
    <2>10. WalkedOnce'
      <3>1. \A i, j \in 1..Len(frontier') : i # j => frontier'[i].of # frontier'[j].of
        BY <1>0, <2>2, <2>5, <2>9 DEF WalkedOnce
      <3>2. \A i \in 1..Len(frontier') : here.of # frontier'[i].of
        BY <1>0, <2>2, <2>6, <2>9 DEF WalkedOnce
      <3>3. \A i \in 1..Len(frontier'), e \in edges' : e.src.of # frontier'[i].of
        BY <1>0, <2>2, <2>7, <2>8, <2>9, <3>2 DEF WalkedOnce
      <3> QED
        BY <3>1, <3>2, <3>3 DEF WalkedOnce
    <2>11. FrontierDrawn'
      BY <1>0, <2>2, <2>3, <2>9 DEF FrontierDrawn, k
    <2>12. HereDrawn'
      BY <1>0, <1>3, <2>3 DEF HereDrawn, FanKey
    <2>13. OwnersDrawn'
      BY <1>0, <2>2, <2>3 DEF OwnersDrawn, k
    <2>14. PartsReached'
      <3>1. \A b \in Boxes' : b.part # "object" => b \in Boxes
        BY <2>2, <2>3
      <3>2. \A b \in Boxes : b.link \in Nat
        BY <1>1 DEF Key
      <3> SUFFICES ASSUME NEW b \in Boxes', b.part # "object"
                   PROVE  /\ \A i \in 1..Len(frontier') : b.of # frontier'[i].of
                          /\ at # "frontier" /\ b.of = here.of => b.link <= link'
                          /\ at = "members" /\ b.of = here.of /\ b.link = link'
                               => b.part = "fan"
        BY DEF PartsReached
      <3>3. b \in Boxes /\ b.of # o
        BY <2>6, <3>1
      <3>4. \A i \in 1..Len(frontier') : b.of # frontier'[i].of
        BY <1>0, <2>2, <2>9, <3>3 DEF PartsReached
      <3>5. at # "frontier" /\ b.of = here.of => b.link <= link'
        BY <1>0, <1>1, <3>2, <3>3 DEF PartsReached
      <3>6. at = "members" /\ b.of = here.of /\ b.link = link' => b.part = "fan"
        BY <1>0, <3>3 DEF PartsReached
      <3> QED
        BY <3>4, <3>5, <3>6
    <2> QED
      BY <2>3, <2>4, <2>10, <2>11, <2>12, <2>13, <2>14
  <1> QED
    BY <1>4, <1>5

\* So does a box for a link of the object being walked: its collection, the
\* rest of that, or an error.
LEMMA PartKeeps ==
    ASSUME Inv, at # "frontier",
           NEW k \in Key, k \notin Boxes, k.of = here.of, k.part # "object",
           NEW src \in Boxes, src \in expanded, src.of = here.of,
           NEW column \in Nat, column = depth[src] + 1,
           Draw(k, src, column),
           expanded' = expanded, frontier' = frontier, here' = here,
           link' \in Nat, link' >= link, k.link = link',
           at' = "members" => link' > link /\ k.part = "fan"
    PROVE  /\ TreeDrawn' /\ ShutBoxesHide' /\ CentreDrawn' /\ OwnersDrawn'
           /\ WalkedOnce' /\ FrontierDrawn' /\ PartsReached'
           /\ edges' \subseteq Edge /\ Boxes' \subseteq Key
           /\ depth' \in [Boxes' -> Nat]
           /\ Boxes' = Boxes \cup {k} /\ depth'[k] = column
           /\ \A b \in Boxes : depth'[b] = depth[b]
  <1>0. /\ TypeOK /\ TreeDrawn /\ ShutBoxesHide /\ CentreDrawn /\ OwnersDrawn
        /\ WalkedOnce /\ FrontierDrawn /\ HereDrawn /\ PartsReached
    BY DEF Inv
  <1>1. /\ TreeDrawn' /\ ShutBoxesHide' /\ CentreDrawn'
        /\ edges' \subseteq Edge
        /\ Boxes' = Boxes \cup {k} /\ Boxes' \subseteq Key
        /\ depth' \in [Boxes' -> Nat]
        /\ depth'[k] = column /\ \A b \in Boxes : depth'[b] = depth[b]
    BY <1>0, DrawKeepsTree
  <1>2. \A e \in edges' : e \in edges \/ e.src.of = here.of
    BY DEF Draw
  <1>3. WalkedOnce'
    BY <1>0, <1>2 DEF WalkedOnce
  <1>4. FrontierDrawn'
    BY <1>0, <1>1 DEF FrontierDrawn
  <1>5. ObjectKey(here.of) \in Boxes
    BY <1>0 DEF HereDrawn
  <1>6. OwnersDrawn'
    BY <1>0, <1>1, <1>5 DEF OwnersDrawn
  <1>7. link \in Nat /\ \A b \in Boxes : b.link \in Nat
    BY <1>0, LimitsAssumption DEF TypeOK, Key, Entry
  <1>8. PartsReached'
    BY <1>0, <1>1, <1>7 DEF PartsReached, WalkedOnce
  <1> QED
    BY <1>1, <1>3, <1>4, <1>6, <1>8

---------------------------------------------------------------------------
(* The invariant *)

LEMMA InvInit == Init => Inv
  <1> SUFFICES ASSUME Init PROVE Inv
    OBVIOUS
  <1>1. ObjectKey(Centre) \in Key /\ Centre \in Objects
    BY Keys, LimitsAssumption
  <1>2. Boxes = {ObjectKey(Centre)} /\ depth[ObjectKey(Centre)] = 0
        /\ depth \in [Boxes -> Nat]
    BY DEF Init, Boxes
  <1>3. Len(frontier) = 1 /\ frontier[1] = here /\ here \in Entry /\ here.of = Centre
        /\ here.level = 0 /\ frontier \in Seq(Entry)
    BY <1>1 DEF Init, Entry
  <1>4. TypeOK
    BY <1>1, <1>2, <1>3, LimitsAssumption DEF Init, TypeOK
  <1>5. TreeDrawn /\ WalkedOnce /\ ShutBoxesHide /\ CentreDrawn
    BY <1>2, <1>3 DEF Init, TreeDrawn, WalkedOnce, ShutBoxesHide, CentreDrawn
  <1>6. FrontierDrawn /\ HereDrawn /\ OwnersDrawn
    BY <1>1, <1>2, <1>3, Keys DEF Init, FrontierDrawn, HereDrawn, OwnersDrawn
  <1>7. PartsReached
    BY <1>1, <1>2, Keys DEF PartsReached
  <1> QED
    BY <1>4, <1>5, <1>6, <1>7 DEF Inv

LEMMA InvNext == Inv /\ [Next]_vars => Inv'
  <1> SUFFICES ASSUME Inv, [Next]_vars PROVE Inv'
    OBVIOUS
  <1>0. /\ TypeOK /\ TreeDrawn /\ ShutBoxesHide /\ CentreDrawn /\ OwnersDrawn
        /\ WalkedOnce /\ FrontierDrawn /\ HereDrawn /\ PartsReached
    BY DEF Inv
  <1>t. /\ expanded \subseteq Openable /\ frontier \in Seq(Entry)
        /\ Boxes \subseteq Key /\ depth \in [Boxes -> Nat] /\ edges \subseteq Edge
        /\ here \in Entry /\ here.of \in Objects /\ here.level \in Nat
        /\ LinksOf[here.of] \in Nat /\ link \in 0..LinksOf[here.of]
        /\ left \in 0..MemberLimit /\ count \in 0..CountLimit
        /\ MemberLimit \in Nat \ {0} /\ CountLimit \in Nat /\ CountLimit > MemberLimit
        /\ at \in {"frontier", "links", "members"}
    BY <1>0, LimitsAssumption DEF TypeOK, Entry
  <1>p. \A p \in {"fan", "more", "error"} :
           at = "links" => LinkKey(here.of, link + 1, p) \notin Boxes
    <2> SUFFICES ASSUME NEW p \in {"fan", "more", "error"}, at = "links",
                        LinkKey(here.of, link + 1, p) \in Boxes
                 PROVE  FALSE
      OBVIOUS
    <2>1. LinkKey(here.of, link + 1, p).link <= link
      BY <1>0, <1>t, Keys DEF PartsReached
    <2> QED
      BY <1>t, <2>1, Keys
  <1>1. CASE Visit
    <2>1. /\ at = "frontier" /\ frontier # <<>> /\ frontier' = Tail(frontier)
          /\ UNCHANGED <<expanded, depth, edges, left, count>> /\ Boxes' = Boxes
      BY <1>1 DEF Visit, Boxes
    <2>2. /\ Head(frontier) = frontier[1] /\ Len(frontier) \in Nat \ {0}
          /\ Head(frontier) \in Entry
          /\ frontier' \in Seq(Entry) /\ Len(frontier') = Len(frontier) - 1
          /\ \A i \in 1..Len(frontier') : frontier'[i] = frontier[i + 1]
                                          /\ i + 1 \in 1..Len(frontier)
      BY <1>t, <2>1, Queue
    <2>3. \/ /\ ObjectKey(frontier[1].of) \in expanded
             /\ here' = frontier[1] /\ link' = 0 /\ at' = "links"
          \/ UNCHANGED <<here, link, at>>
      BY <1>1, <2>2 DEF Visit
    <2>4. TypeOK'
      BY <1>t, <2>1, <2>2, <2>3, LimitsAssumption DEF TypeOK, Entry
    <2>5. TreeDrawn' /\ ShutBoxesHide' /\ CentreDrawn' /\ OwnersDrawn'
      BY <1>0, <2>1 DEF TreeDrawn, ShutBoxesHide, CentreDrawn, OwnersDrawn
    <2>6. WalkedOnce'
      <3>1. \A i, j \in 1..Len(frontier') : i # j => frontier'[i].of # frontier'[j].of
        BY <1>0, <2>2 DEF WalkedOnce
      <3>2. at' # "frontier" => \A i \in 1..Len(frontier') : here'.of # frontier'[i].of
        BY <1>0, <2>1, <2>2, <2>3 DEF WalkedOnce
      <3>3. \A i \in 1..Len(frontier'), e \in edges' : e.src.of # frontier'[i].of
        BY <1>0, <2>1, <2>2 DEF WalkedOnce
      <3> QED
        BY <3>1, <3>2, <3>3 DEF WalkedOnce
    <2>7. FrontierDrawn' /\ HereDrawn'
      BY <1>0, <2>1, <2>2, <2>3 DEF FrontierDrawn, HereDrawn
    <2>8. PartsReached'
      <3>1. \A k \in Boxes : k.part # "object" => k.of # frontier[1].of
        BY <1>0, <2>2 DEF PartsReached
      <3> QED
        BY <1>0, <2>1, <2>2, <2>3, <3>1 DEF PartsReached
    <2> QED
      BY <2>4, <2>5, <2>6, <2>7, <2>8 DEF Inv
  <1>2. CASE LinkFails
    <2> DEFINE k == LinkKey(here.of, link + 1, "error")
    <2>1. /\ at = "links" /\ at' = at /\ link < LinksOf[here.of] /\ link' = link + 1
          /\ Draw(k, ObjectKey(here.of), here.level + 1)
          /\ UNCHANGED <<expanded, frontier, at, here, left, count>>
      BY <1>2 DEF LinkFails, AtLink
    <2>2. /\ k \in Key /\ k.of = here.of /\ k.part = "error" /\ k.link = link'
          /\ k \notin Boxes /\ here.level + 1 \in Nat
          /\ ObjectKey(here.of).of = here.of
      BY <1>t, <1>p, <2>1, Keys
    <2>3. /\ ObjectKey(here.of) \in Boxes /\ ObjectKey(here.of) \in expanded
          /\ depth[ObjectKey(here.of)] = here.level
      BY <1>0, <2>1 DEF HereDrawn
    <2> HIDE DEF k
    <2>4. /\ TreeDrawn' /\ ShutBoxesHide' /\ CentreDrawn' /\ OwnersDrawn'
          /\ WalkedOnce' /\ FrontierDrawn' /\ PartsReached'
          /\ edges' \subseteq Edge /\ Boxes' \subseteq Key
          /\ depth' \in [Boxes' -> Nat]
          /\ Boxes' = Boxes \cup {k} /\ \A b \in Boxes : depth'[b] = depth[b]
      BY <1>t, <2>1, <2>2, <2>3, PartKeeps
    <2>5. TypeOK' /\ HereDrawn'
      BY <1>t, <2>1, <2>3, <2>4 DEF TypeOK, HereDrawn
    <2> QED
      BY <2>4, <2>5 DEF Inv
  <1>3. CASE LinkLeadsNowhere
    <2>1. /\ at = "links" /\ link < LinksOf[here.of] /\ link' = link + 1
          /\ UNCHANGED <<expanded, frontier, depth, edges, at, here, left, count>>
          /\ Boxes' = Boxes
      BY <1>3 DEF LinkLeadsNowhere, AtLink, Boxes
    <2>2. \A k \in Boxes : k.link \in Nat
      BY <1>t DEF Key
    <2>3. TypeOK'
      BY <1>t, <2>1 DEF TypeOK
    <2>4. /\ TreeDrawn' /\ WalkedOnce' /\ ShutBoxesHide' /\ FrontierDrawn'
          /\ HereDrawn' /\ CentreDrawn' /\ OwnersDrawn'
      BY <1>0, <2>1 DEF TreeDrawn, WalkedOnce, ShutBoxesHide, FrontierDrawn,
        HereDrawn, CentreDrawn, OwnersDrawn
    <2>5. PartsReached'
      BY <1>0, <1>t, <2>1, <2>2 DEF PartsReached
    <2> QED
      BY <2>3, <2>4, <2>5 DEF Inv
  <1>4. ASSUME NEW o \in Objects, LinkToObject(o)
        PROVE  Inv'
    <2>1. /\ at = "links" /\ link < LinksOf[here.of] /\ link' = link + 1
          /\ Reach(o, ObjectKey(here.of), here.level + 1)
          /\ UNCHANGED <<expanded, at, here, left, count>>
      BY <1>4 DEF LinkToObject, AtLink
    <2>2. /\ ObjectKey(here.of) \in Boxes /\ ObjectKey(here.of) \in expanded
          /\ depth[ObjectKey(here.of)] = here.level /\ ObjectKey(here.of).of = here.of
      BY <1>0, <1>t, <2>1, Keys DEF HereDrawn
    <2>3. /\ TreeDrawn' /\ ShutBoxesHide' /\ CentreDrawn' /\ OwnersDrawn'
          /\ WalkedOnce' /\ FrontierDrawn' /\ HereDrawn' /\ PartsReached'
          /\ frontier' \in Seq(Entry) /\ edges' \subseteq Edge
          /\ Boxes' \subseteq Key /\ depth' \in [Boxes' -> Nat]
      BY <1>t, <2>1, <2>2, ReachKeeps
    <2>4. TypeOK'
      BY <1>t, <2>1, <2>3 DEF TypeOK
    <2> QED
      BY <2>3, <2>4 DEF Inv
  <1>5. ASSUME NEW n \in 2..CountLimit, LinkToCollection(n)
        PROVE  Inv'
    <2> DEFINE k == LinkKey(here.of, link + 1, "fan")
    <2>1. /\ at = "links" /\ link < LinksOf[here.of] /\ link' = link + 1
          /\ Draw(k, ObjectKey(here.of), here.level + 1)
          /\ UNCHANGED <<expanded, frontier, here>>
          /\ \/ k \in expanded /\ at' = "members" /\ count' = n
                /\ left' = IF n < MemberLimit THEN n ELSE MemberLimit
             \/ UNCHANGED <<at, count, left>>
      BY <1>5 DEF LinkToCollection, AtLink
    <2>2. /\ k \in Key /\ k.of = here.of /\ k.part = "fan" /\ k.link = link'
          /\ k \notin Boxes /\ here.level + 1 \in Nat
          /\ ObjectKey(here.of).of = here.of /\ FanKey' = k
      BY <1>t, <1>p, <2>1, Keys DEF FanKey
    <2>3. /\ ObjectKey(here.of) \in Boxes /\ ObjectKey(here.of) \in expanded
          /\ depth[ObjectKey(here.of)] = here.level
      BY <1>0, <2>1 DEF HereDrawn
    <2> HIDE DEF k
    <2>4. /\ TreeDrawn' /\ ShutBoxesHide' /\ CentreDrawn' /\ OwnersDrawn'
          /\ WalkedOnce' /\ FrontierDrawn' /\ PartsReached'
          /\ edges' \subseteq Edge /\ Boxes' \subseteq Key
          /\ depth' \in [Boxes' -> Nat]
          /\ Boxes' = Boxes \cup {k} /\ depth'[k] = here.level + 1
          /\ \A b \in Boxes : depth'[b] = depth[b]
      BY <1>t, <2>1, <2>2, <2>3, PartKeeps
    <2>5. left' \in 0..MemberLimit /\ count' \in 0..CountLimit
      BY <1>t, <2>1
    <2>6. TypeOK'
      BY <1>t, <2>1, <2>4, <2>5 DEF TypeOK
    <2>7. HereDrawn'
      BY <1>t, <2>1, <2>2, <2>3, <2>4 DEF HereDrawn
    <2> QED
      BY <2>4, <2>6, <2>7 DEF Inv
  <1>6. ASSUME NEW o \in Objects, Member(o)
        PROVE  Inv'
    <2>1. /\ at = "members" /\ left > 0 /\ left' = left - 1
          /\ Reach(o, FanKey, here.level + 2)
          /\ UNCHANGED <<expanded, at, here, link, count>>
      BY <1>6 DEF Member
    <2>2. /\ FanKey \in Boxes /\ FanKey \in expanded
          /\ depth[FanKey] = here.level + 1 /\ FanKey.of = here.of
          /\ here.level + 2 \in Nat /\ here.level + 2 = here.level + 1 + 1
      BY <1>0, <1>t, <2>1, Keys DEF HereDrawn, FanKey
    <2>3. /\ TreeDrawn' /\ ShutBoxesHide' /\ CentreDrawn' /\ OwnersDrawn'
          /\ WalkedOnce' /\ FrontierDrawn' /\ HereDrawn' /\ PartsReached'
          /\ frontier' \in Seq(Entry) /\ edges' \subseteq Edge
          /\ Boxes' \subseteq Key /\ depth' \in [Boxes' -> Nat]
      BY <1>t, <2>1, <2>2, ReachKeeps
    <2>4. TypeOK'
      BY <1>t, <2>1, <2>3 DEF TypeOK
    <2> QED
      BY <2>3, <2>4 DEF Inv
  <1>7. CASE NullMember
    <2>1. /\ left > 0 /\ left' = left - 1 /\ Boxes' = Boxes
          /\ UNCHANGED <<expanded, frontier, depth, edges, at, here, link, count>>
      BY <1>7 DEF NullMember, Boxes
    <2> QED
      BY <1>0, <1>t, <2>1 DEF Inv, TypeOK, TreeDrawn, WalkedOnce, ShutBoxesHide,
        FrontierDrawn, HereDrawn, PartsReached, CentreDrawn, OwnersDrawn, FanKey
  <1>8. CASE EndMembers
    <2> DEFINE k == LinkKey(here.of, link, "more")
    <2>1. /\ at = "members" /\ at' = "links" /\ count' = 0
          /\ UNCHANGED <<expanded, frontier, here, link, left>>
          /\ \/ Draw(k, FanKey, here.level + 2)
             \/ UNCHANGED <<depth, edges>>
      BY <1>8 DEF EndMembers
    <2>2. /\ FanKey \in Boxes /\ FanKey \in expanded
          /\ depth[FanKey] = here.level + 1 /\ FanKey.of = here.of
          /\ here.level + 2 \in Nat /\ here.level + 2 = here.level + 1 + 1
          /\ ObjectKey(here.of) \in Boxes \cap expanded
          /\ depth[ObjectKey(here.of)] = here.level
      BY <1>0, <1>t, <2>1, Keys DEF HereDrawn, FanKey
    <2>3. k \in Key /\ k.of = here.of /\ k.part = "more" /\ k.link = link
      BY <1>t, Keys
    <2>4. k \notin Boxes
      BY <1>0, <2>1, <2>3 DEF PartsReached
    <2> HIDE DEF k
    <2>5. CASE Draw(k, FanKey, here.level + 2)
      <3>1. /\ TreeDrawn' /\ ShutBoxesHide' /\ CentreDrawn' /\ OwnersDrawn'
            /\ WalkedOnce' /\ FrontierDrawn' /\ PartsReached'
            /\ edges' \subseteq Edge /\ Boxes' \subseteq Key
            /\ depth' \in [Boxes' -> Nat]
            /\ Boxes' = Boxes \cup {k} /\ \A b \in Boxes : depth'[b] = depth[b]
        BY <1>t, <2>1, <2>2, <2>3, <2>4, <2>5, PartKeeps
      <3>2. TypeOK' /\ HereDrawn'
        BY <1>t, <2>1, <2>2, <3>1 DEF TypeOK, HereDrawn
      <3> QED
        BY <3>1, <3>2 DEF Inv
    <2>6. CASE UNCHANGED <<depth, edges>>
      <3>1. Boxes' = Boxes
        BY <2>6 DEF Boxes
      <3>2. TypeOK'
        BY <1>t, <2>1, <2>6, <3>1 DEF TypeOK
      <3>3. /\ TreeDrawn' /\ WalkedOnce' /\ ShutBoxesHide' /\ FrontierDrawn'
            /\ HereDrawn' /\ CentreDrawn' /\ OwnersDrawn'
        BY <1>0, <2>1, <2>2, <2>6, <3>1 DEF TreeDrawn, WalkedOnce, ShutBoxesHide,
          FrontierDrawn, HereDrawn, CentreDrawn, OwnersDrawn
      <3>4. PartsReached'
        BY <1>0, <2>1, <3>1 DEF PartsReached
      <3> QED
        BY <3>2, <3>3, <3>4 DEF Inv
    <2> QED
      BY <2>1, <2>5, <2>6
  <1>9. CASE EndLinks
    <2>1. /\ at' = "frontier" /\ link' = 0 /\ Boxes' = Boxes
          /\ UNCHANGED <<expanded, frontier, depth, edges, here, left, count>>
      BY <1>9 DEF EndLinks, Boxes
    <2>2. TypeOK'
      BY <1>t, <2>1 DEF TypeOK
    <2>3. TreeDrawn' /\ WalkedOnce' /\ ShutBoxesHide'
      BY <1>0, <2>1 DEF TreeDrawn, WalkedOnce, ShutBoxesHide
    <2>4. FrontierDrawn' /\ HereDrawn' /\ CentreDrawn' /\ OwnersDrawn'
      BY <1>0, <2>1 DEF FrontierDrawn, HereDrawn, CentreDrawn, OwnersDrawn
    <2>5. PartsReached'
      BY <1>0, <2>1 DEF PartsReached
    <2> QED
      BY <2>2, <2>3, <2>4, <2>5 DEF Inv
  <1>10. CASE UNCHANGED vars
    <2>1. Boxes' = Boxes /\ FanKey' = FanKey
      BY <1>10 DEF vars, Boxes, FanKey
    <2> QED
      BY <1>0, <1>10, <2>1 DEF vars, Inv, TypeOK, TreeDrawn, WalkedOnce, ShutBoxesHide,
        FrontierDrawn, HereDrawn, PartsReached, CentreDrawn, OwnersDrawn
  <1> QED
    BY <1>1, <1>2, <1>3, <1>4, <1>5, <1>6, <1>7, <1>8, <1>9, <1>10 DEF Next

LEMMA WalkInvariant == Spec => []Inv
  BY InvInit, InvNext, PTL DEF Spec

\* Every variable of the walk has its type.
THEOREM WalkTypeCorrect == Spec => []TypeOK
  BY WalkInvariant, PTL DEF Inv

\* Whatever cycles the kernel's objects form and however they change while
\* they are read, the graph is a tree out of the centre through open boxes,
\* with every other edge marked as leading back, and no object is walked twice.
THEOREM WalkDrawsATree == Spec => []DrawnAsTree
  <1>1. Inv => DrawnAsTree
    BY DEF Inv, DrawnAsTree
  <1> QED BY <1>1, WalkInvariant, PTL

---------------------------------------------------------------------------
(* Shortest paths: with no collection open, the frontier holds at most two
   columns, the earlier one first. *)

Shut == \A k \in expanded : k.part # "fan"

ColumnsInOrder ==
    /\ at # "members"
    /\ \A i, j \in 1..Len(frontier) : i <= j => frontier[i].level <= frontier[j].level
    /\ \A i \in 1..Len(frontier), b \in Boxes : depth[b] <= frontier[i].level + 1
    /\ at = "links" => /\ \A b \in Boxes : depth[b] <= here.level + 1
                       /\ \A i \in 1..Len(frontier) : here.level <= frontier[i].level
    /\ ShortestPaths

\* A box in the column after the one being walked keeps the columns in order.
LEMMA DrawKeepsOrder ==
    ASSUME Inv, Inv', ColumnsInOrder, at = "links", at' = at,
           NEW k, Draw(k, ObjectKey(here.of), here.level + 1), k \notin Boxes,
           here' = here, frontier' = frontier
    PROVE  ColumnsInOrder'
  <1>1. /\ depth \in [Boxes -> Nat] /\ here.level \in Nat
        /\ \A i \in 1..Len(frontier) : frontier[i].level \in Nat
        /\ ObjectKey(here.of) \in Boxes /\ depth[ObjectKey(here.of)] = here.level
        /\ \A e \in edges : e.src \in Boxes /\ e.dst \in Boxes
    BY Queue DEF Inv, TypeOK, Entry, HereDrawn, TreeDrawn
  <1> DEFINE new == [src |-> ObjectKey(here.of), dst |-> k, back |-> FALSE]
  <1>2. /\ Boxes' = Boxes \cup {k} /\ depth'[k] = here.level + 1
        /\ \A b \in Boxes : depth'[b] = depth[b]
        /\ edges' = edges \cup {new}
        /\ new.src = ObjectKey(here.of) /\ new.dst = k
    BY DEF Draw, Boxes
  <1> HIDE DEF new
  <1>3. ShortestPaths'
    <2>1. \A e \in edges : depth'[e.dst] <= depth'[e.src] + 1
      BY <1>1, <1>2 DEF ColumnsInOrder, ShortestPaths
    <2>2. depth'[new.dst] <= depth'[new.src] + 1
      BY <1>1, <1>2
    <2> QED
      BY <1>2, <2>1, <2>2 DEF ShortestPaths
  <1>4. \A b \in Boxes' : depth'[b] <= here.level + 1
    BY <1>1, <1>2 DEF ColumnsInOrder
  <1>5. \A i \in 1..Len(frontier), b \in Boxes' : depth'[b] <= frontier[i].level + 1
    BY <1>1, <1>2, <1>4 DEF ColumnsInOrder
  <1> QED
    BY <1>3, <1>4, <1>5 DEF ColumnsInOrder

LEMMA OrderInit == Init => ColumnsInOrder
  <1> SUFFICES ASSUME Init PROVE ColumnsInOrder
    OBVIOUS
  <1>1. /\ Len(frontier) = 1 /\ frontier[1].level = 0
        /\ Boxes = {ObjectKey(Centre)} /\ depth[ObjectKey(Centre)] = 0
    BY DEF Init, Boxes
  <1> QED
    BY <1>1 DEF Init, ColumnsInOrder, ShortestPaths

LEMMA OrderNext ==
    ASSUME Inv, Inv', Shut, ColumnsInOrder, [Next]_vars
    PROVE  ColumnsInOrder'
  <1>1. /\ depth \in [Boxes -> Nat] /\ here.level \in Nat /\ here.of \in Objects
        /\ link \in Nat
        /\ frontier \in Seq(Entry) /\ Len(frontier) \in Nat
        /\ \A i \in 1..Len(frontier) : frontier[i] \in Entry /\ frontier[i].level \in Nat
        /\ \A e \in edges : e.src \in Boxes /\ e.dst \in Boxes
    <2>1. frontier \in Seq(Entry) /\ here \in Entry /\ depth \in [Boxes -> Nat]
          /\ link \in 0..LinksOf[here.of]
      BY DEF Inv, TypeOK
    <2>2. Len(frontier) \in Nat /\ \A i \in 1..Len(frontier) : frontier[i] \in Entry
      BY <2>1, Queue
    <2>3. \A e \in edges : e.src \in Boxes /\ e.dst \in Boxes
      BY DEF Inv, TreeDrawn
    <2> QED
      BY <2>1, <2>2, <2>3, LimitsAssumption DEF Entry
  <1>2. at # "members"
    BY DEF ColumnsInOrder
  <1>3. CASE Visit
    <2>1. /\ at = "frontier" /\ frontier # <<>> /\ frontier' = Tail(frontier)
          /\ UNCHANGED <<depth, edges>> /\ Boxes' = Boxes
      BY <1>3 DEF Visit, Boxes
    <2>2. /\ Head(frontier) = frontier[1] /\ 1 \in 1..Len(frontier)
          /\ \A i \in 1..Len(frontier') : frontier'[i] = frontier[i + 1]
                                          /\ i + 1 \in 1..Len(frontier)
          /\ Len(frontier') \in Nat
      BY <1>1, <2>1, Queue
    <2>3. \/ here' = frontier[1] /\ at' = "links"
          \/ at' = "frontier"
      BY <1>3, <2>1, <2>2 DEF Visit
    <2>4. ShortestPaths'
      BY <2>1 DEF ColumnsInOrder, ShortestPaths
    <2>5. \A i, j \in 1..Len(frontier') : i <= j => frontier'[i].level <= frontier'[j].level
      <3> SUFFICES ASSUME NEW i \in 1..Len(frontier'), NEW j \in 1..Len(frontier'), i <= j
                   PROVE  frontier[i + 1].level <= frontier[j + 1].level
        BY <2>2
      <3>1. i + 1 \in 1..Len(frontier) /\ j + 1 \in 1..Len(frontier) /\ i + 1 <= j + 1
        BY <2>2
      <3> QED
        BY <3>1 DEF ColumnsInOrder
    <2>6. \A i \in 1..Len(frontier'), b \in Boxes' : depth'[b] <= frontier'[i].level + 1
      BY <2>1, <2>2 DEF ColumnsInOrder
    <2>7. /\ \A b \in Boxes' : depth'[b] <= frontier[1].level + 1
          /\ \A i \in 1..Len(frontier') : frontier[1].level <= frontier'[i].level
      BY <2>1, <2>2 DEF ColumnsInOrder
    <2> QED
      BY <2>3, <2>4, <2>5, <2>6, <2>7 DEF ColumnsInOrder
  <1>4. CASE LinkFails
    <2> DEFINE k == LinkKey(here.of, link + 1, "error")
    <2>1. /\ at = "links" /\ at' = at /\ here' = here /\ frontier' = frontier
          /\ Draw(k, ObjectKey(here.of), here.level + 1)
      BY <1>4 DEF LinkFails, AtLink
    <2>2. k \notin Boxes
      <3>1. k.part # "object" /\ k.of = here.of /\ k.link = link + 1
        BY <1>1, Keys
      <3> QED
        BY <1>1, <2>1, <3>1 DEF Inv, PartsReached
    <2> HIDE DEF k
    <2> QED
      BY <2>1, <2>2, DrawKeepsOrder
  <1>5. CASE LinkLeadsNowhere \/ EndLinks
    <2>1. /\ UNCHANGED <<frontier, depth, edges, here>> /\ Boxes' = Boxes
          /\ at' = at \/ at' = "frontier"
      BY <1>5 DEF LinkLeadsNowhere, EndLinks, AtLink, Boxes
    <2> QED
      BY <2>1 DEF ColumnsInOrder, ShortestPaths
  <1>6. ASSUME NEW o \in Objects, LinkToObject(o)
        PROVE  ColumnsInOrder'
    <2> DEFINE k == ObjectKey(o)
               src == ObjectKey(here.of)
    <2>1. at = "links" /\ at' = at /\ here' = here /\ Reach(o, src, here.level + 1)
      BY <1>6 DEF LinkToObject, AtLink
    <2>2. src \in Boxes /\ depth[src] = here.level
      BY <2>1 DEF Inv, HereDrawn
    <2>3. CASE k \in Boxes
      <3> DEFINE new == [src |-> src, dst |-> k, back |-> TRUE]
      <3>1. /\ frontier' = frontier /\ depth' = depth /\ Boxes' = Boxes
            /\ edges' = edges \cup {new} /\ new.src = src /\ new.dst = k
        BY <2>1, <2>3 DEF Reach, Boxes
      <3> HIDE DEF new, k, src
      <3>2. depth[k] <= depth[src] + 1
        BY <2>1, <2>2, <2>3 DEF ColumnsInOrder
      <3>3. ShortestPaths'
        BY <3>1, <3>2 DEF ColumnsInOrder, ShortestPaths
      <3> QED
        BY <2>1, <3>1, <3>3 DEF ColumnsInOrder
    <2>4. CASE k \notin Boxes
      <3> DEFINE x == [of |-> o, level |-> here.level + 1]
                 new == [src |-> src, dst |-> k, back |-> FALSE]
      <3>1. Draw(k, src, here.level + 1) /\ frontier' = Append(frontier, x)
            /\ x \in Entry /\ x.level = here.level + 1
        <4>1. Draw(k, src, here.level + 1) /\ frontier' = Append(frontier, x)
          BY <2>1, <2>4 DEF Reach
        <4>2. x \in Entry /\ x.level = here.level + 1
          BY <1>1 DEF Entry
        <4> QED
          BY <4>1, <4>2
      <3>2. /\ Boxes' = Boxes \cup {k} /\ depth'[k] = here.level + 1
            /\ \A b \in Boxes : depth'[b] = depth[b]
            /\ edges' = edges \cup {new} /\ new.src = src /\ new.dst = k
        BY <2>4, <3>1 DEF Draw, Boxes
      <3>3. \A i \in 1..Len(frontier') :
               \/ i \in 1..Len(frontier) /\ frontier'[i] = frontier[i]
               \/ i = Len(frontier) + 1 /\ frontier'[i] = x
        BY <1>1, <3>1, Queue
      <3> HIDE DEF new, k, src, x
      <3>4. \A b \in Boxes' : depth'[b] <= here.level + 1
        BY <2>1, <3>2, <1>1 DEF ColumnsInOrder
      <3>5. \A i \in 1..Len(frontier) : here.level <= frontier[i].level
                                        /\ frontier[i].level <= here.level + 1
        BY <2>1 DEF ColumnsInOrder, Inv, FrontierDrawn
      <3>6. \A i, j \in 1..Len(frontier') : i <= j => frontier'[i].level <= frontier'[j].level
        BY <1>1, <3>1, <3>3, <3>5 DEF ColumnsInOrder
      <3>7. \A i \in 1..Len(frontier') : here.level <= frontier'[i].level
        BY <1>1, <3>1, <3>3, <3>5
      <3>8. \A i \in 1..Len(frontier'), b \in Boxes' : depth'[b] <= frontier'[i].level + 1
        <4> SUFFICES ASSUME NEW i \in 1..Len(frontier'), NEW b \in Boxes'
                     PROVE  depth'[b] <= frontier'[i].level + 1
          OBVIOUS
        <4>1. depth'[b] \in Nat /\ frontier'[i].level \in Nat
          BY <1>1, <3>1, <3>2, <3>3
        <4> QED
          BY <1>1, <3>4, <3>7, <4>1
      <3>9. ShortestPaths'
        <4>1. \A e \in edges : depth'[e.dst] <= depth'[e.src] + 1
          BY <1>1, <3>2 DEF ColumnsInOrder, ShortestPaths
        <4>2. depth'[new.dst] <= depth'[new.src] + 1
          BY <1>1, <2>2, <3>2
        <4> QED
          BY <3>2, <4>1, <4>2 DEF ShortestPaths
      <3> QED
        BY <2>1, <3>4, <3>6, <3>7, <3>8, <3>9 DEF ColumnsInOrder
    <2> QED
      BY <2>3, <2>4
  <1>7. ASSUME NEW n \in 2..CountLimit, LinkToCollection(n)
        PROVE  ColumnsInOrder'
    <2> DEFINE k == LinkKey(here.of, link + 1, "fan")
    <2>1. k \notin expanded /\ k.part # "object" /\ k.of = here.of /\ k.link = link + 1
      BY <1>1, Keys DEF Shut
    <2>2. at = "links" /\ at' = at /\ here' = here /\ frontier' = frontier
          /\ Draw(k, ObjectKey(here.of), here.level + 1)
      BY <1>7, <2>1 DEF LinkToCollection, AtLink
    <2>3. k \notin Boxes
      BY <1>1, <2>1, <2>2 DEF Inv, PartsReached
    <2> HIDE DEF k
    <2> QED
      BY <2>2, <2>3, DrawKeepsOrder
  <1>8. CASE UNCHANGED vars
    <2>1. Boxes' = Boxes /\ UNCHANGED <<at, here, frontier, depth, edges>>
      BY <1>8 DEF vars, Boxes
    <2> QED
      BY <2>1 DEF ColumnsInOrder, ShortestPaths
  <1>9. ~NullMember /\ ~EndMembers /\ \A o \in Objects : ~Member(o)
    BY <1>2 DEF NullMember, EndMembers, Member
  <1> QED
    BY <1>3, <1>4, <1>5, <1>6, <1>7, <1>8, <1>9 DEF Next

\* With every collection shut, each column is the number of links from the
\* centre: no edge would have put a box in an earlier column.
THEOREM ColumnsAreShortest == Spec => []ShortestWhenShut
  <1>1. Init => (Shut => ColumnsInOrder)
    BY OrderInit
  <1>2. Inv /\ Inv' /\ (Shut => ColumnsInOrder) /\ [Next]_vars
          => (Shut => ColumnsInOrder)'
    <2> SUFFICES ASSUME Inv, Inv', Shut => ColumnsInOrder, [Next]_vars, Shut'
                 PROVE  ColumnsInOrder'
      OBVIOUS
    <2>1. expanded' = expanded
      BY DEF Next, vars, Visit, LinkFails, LinkLeadsNowhere, LinkToObject,
        LinkToCollection, Member, NullMember, EndMembers, EndLinks
    <2> QED
      BY <2>1, OrderNext DEF Shut
  <1>3. (Shut => ColumnsInOrder) => ShortestWhenShut
    BY DEF ShortestWhenShut, Shut, ColumnsInOrder
  <1> QED
    BY <1>1, <1>2, <1>3, WalkInvariant, PTL DEF Spec

---------------------------------------------------------------------------
(* Links: what each link rests on, and what it asks for when it is offered *)

\* What is shown when a resolver lacks what it rests on; a link that is complete
\* raises only without what its predicate asks for.
Known(l) == l.without \in {"null", "empty", "error"}
Complete(l) == Known(l) /\ (l.without = "error" => l.rests \subseteq l.shown)
Whole(table) == \A t \in DOMAIN table : \A l \in table[t] : Complete(l)

LEMMA SimpleLinks ==
    \A name, fact, to, leave :
        /\ Complete(Own(name, to)) /\ Complete(Ptr(name, fact, to))
        /\ Complete(PtrIf(name, fact, to)) /\ Complete(Asked(name, fact, to))
        /\ Complete(OnlyIf(name, fact, to))
        /\ Complete(Walk(name, leave, to)) /\ Complete(WalkIf(name, fact, leave, to))
  <1> SUFFICES ASSUME NEW name, NEW fact, NEW to, NEW leave
               PROVE  /\ Complete(Own(name, to)) /\ Complete(Ptr(name, fact, to))
                      /\ Complete(PtrIf(name, fact, to)) /\ Complete(Asked(name, fact, to))
                      /\ Complete(OnlyIf(name, fact, to))
                      /\ Complete(Walk(name, leave, to))
                      /\ Complete(WalkIf(name, fact, leave, to))
    OBVIOUS
  <1>1. Complete(Own(name, to)) /\ Complete(Ptr(name, fact, to))
    BY DEF Complete, Known, Own, Ptr
  <1>2. Complete(PtrIf(name, fact, to)) /\ Complete(Asked(name, fact, to))
    BY DEF Complete, Known, Own, Ptr, PtrIf, Asked
  <1>3. Complete(OnlyIf(name, fact, to))
    BY DEF Complete, Known, Own, Ptr, PtrIf, OnlyIf
  <1>4. Complete(Walk(name, leave, to)) /\ Complete(WalkIf(name, fact, leave, to))
    BY DEF Complete, Known, Own, Walk, WalkIf
  <1> QED BY <1>1, <1>2, <1>3, <1>4

LEMMA SharedLinks ==
    \A name, fact, to :
        /\ Complete(TaskFiles(name, to)) /\ Complete(Process(name, fact))
        /\ Complete(SemPending(name, fact)) /\ Complete(DelayedWork(name, to))
  <1> SUFFICES ASSUME NEW name, NEW fact, NEW to
               PROVE  /\ Complete(TaskFiles(name, to)) /\ Complete(Process(name, fact))
                      /\ Complete(SemPending(name, fact)) /\ Complete(DelayedWork(name, to))
    OBVIOUS
  <1>1. Complete(TaskFiles(name, to))
    BY DEF Complete, Known, Own, Walk, TaskFiles
  <1>2. Complete(Process(name, fact))
    BY DEF Complete, Known, Own, Ptr, PtrIf, Process
  <1>3. Complete(SemPending(name, fact)) /\ Complete(DelayedWork(name, to))
    BY SimpleLinks DEF SemPending, DelayedWork
  <1> QED BY <1>1, <1>2, <1>3

LEMMA TaskWhole == \A l \in TaskLinks : Complete(l)
  <1>1. Complete(TaskWalks.threads) /\ Complete(TaskWalks.children)
    BY SimpleLinks DEF TaskWalks
  <1>2. Complete(TaskVmas)
    BY DEF TaskVmas, VmasIfUser, Complete, Known, Own, Walk, WalkIf
  <1>3. Complete(Namespaces) /\ Complete(TaskShm)
    BY DEF Namespaces, TaskFiles, TaskShm, Complete, Known, Own, Walk
  <1>4. Complete(WorkWalks.worker)
    BY DEF WorkWalks, Complete, Known, Own, Ptr, PtrIf
  <1>5. Complete(CgroupWalks.cgroup)
    BY SimpleLinks DEF CgroupWalks
  <1> QED BY <1>1, <1>2, <1>3, <1>4, <1>5, SimpleLinks, SharedLinks DEF TaskLinks

LEMMA SchedWhole == Whole(SchedLinks)
  <1>1. Complete(FdWalks.leaves) /\ Complete(TaskWalks.signal)
    BY SimpleLinks DEF FdWalks, TaskWalks
  <1>2. /\ \A l \in SchedLinks["rq"] : Complete(l)
        /\ \A l \in SchedLinks["cfs_rq"] : Complete(l)
        /\ \A l \in SchedLinks["sched_entity"] : Complete(l)
        /\ \A l \in SchedLinks["signal_struct"] : Complete(l)
        /\ \A l \in SchedLinks["sched_info"] : Complete(l)
    BY <1>1, SimpleLinks, SharedLinks DEF SchedLinks
  <1>3. DOMAIN SchedLinks = {"rq", "cfs_rq", "sched_entity", "signal_struct", "sched_info"}
    BY DEF SchedLinks
  <1> QED BY <1>2, <1>3 DEF Whole

LEMMA MemoryWhole == Whole(MemoryLinks)
  <1>1. Complete(PageWalks.nextCache) /\ Complete(PageWalks.zone) /\ Complete(PageWalks.mappers)
    <2>1. Complete(PageWalks.nextCache) /\ Complete(PageWalks.zone)
      BY SimpleLinks DEF PageWalks
    <2>2. Complete(PageWalks.mappers)
      BY DEF PageWalks, Walk, Own, Complete, Known
    <2> QED BY <2>1, <2>2
  <1>2. Complete(ResidentPages)
    BY SimpleLinks DEF ResidentPages
  <1>3. /\ \A l \in MemoryLinks["mm_struct"] : Complete(l)
        /\ \A l \in MemoryLinks["vm_area_struct"] : Complete(l)
        /\ \A l \in MemoryLinks["kmem_cache"] : Complete(l)
        /\ \A l \in MemoryLinks["page"] : Complete(l)
        /\ \A l \in MemoryLinks["zone"] : Complete(l)
    BY <1>1, <1>2, SimpleLinks, SharedLinks DEF MemoryLinks
  <1>4. DOMAIN MemoryLinks = {"mm_struct", "vm_area_struct", "kmem_cache", "page", "zone"}
    BY DEF MemoryLinks
  <1> QED BY <1>3, <1>4 DEF Whole

LEMMA FileWhole == Whole(FileLinks)
  <1>1. Complete(FdWalks.open) /\ Complete(FdWalks.entries)
    BY SimpleLinks DEF FdWalks
  <1>2. Complete(FileSocket)
    BY SimpleLinks DEF FileSocket
  <1>3. /\ \A l \in FileLinks["file"] : Complete(l)
        /\ \A l \in FileLinks["files_struct"] : Complete(l)
        /\ \A l \in FileLinks["fdtable"] : Complete(l)
    BY <1>1, <1>2, SimpleLinks, SharedLinks DEF FileLinks
  <1>4. DOMAIN FileLinks = {"file", "files_struct", "fdtable"}
    BY DEF FileLinks
  <1> QED BY <1>3, <1>4 DEF Whole

LEMMA MountWhole == Whole(MountLinks)
  <1>1. Complete(MountWalks.mounts)
    BY SimpleLinks DEF MountWalks
  <1>2. /\ \A l \in MountLinks["mount"] : Complete(l)
        /\ \A l \in MountLinks["super_block"] : Complete(l)
    BY <1>1, SimpleLinks, SharedLinks DEF MountLinks
  <1>3. DOMAIN MountLinks = {"mount", "super_block"}
    BY DEF MountLinks
  <1> QED BY <1>2, <1>3 DEF Whole

LEMMA BlockWhole == Whole(BlockLinks)
  <1>1. Complete(BlockWalks.partitions) /\ Complete(BlockWalks.hardware)
    BY SimpleLinks DEF BlockWalks
  <1>2. Complete(BlockWalks.inFlight)
    BY SimpleLinks DEF BlockWalks, WalkIf, Walk, Own, Complete, Known
  <1>3. /\ \A l \in BlockLinks["gendisk"] : Complete(l)
        /\ \A l \in BlockLinks["block_device"] : Complete(l)
        /\ \A l \in BlockLinks["request_queue"] : Complete(l)
    BY <1>1, <1>2, SimpleLinks, SharedLinks DEF BlockLinks
  <1>4. DOMAIN BlockLinks = {"gendisk", "block_device", "request_queue"}
    BY DEF BlockLinks
  <1> QED BY <1>3, <1>4 DEF Whole

LEMMA BlockIoWhole == Whole(BlockIoLinks)
  <1>1. Complete(BlockWalks.software) /\ Complete(BlockWalks.bios) /\ Complete(BlockWalks.pages)
    BY SimpleLinks DEF BlockWalks
  <1>2. /\ \A l \in BlockIoLinks["blk_mq_hw_ctx"] : Complete(l)
        /\ \A l \in BlockIoLinks["blk_mq_ctx"] : Complete(l)
        /\ \A l \in BlockIoLinks["blk_mq_tag_set"] : Complete(l)
        /\ \A l \in BlockIoLinks["request"] : Complete(l)
        /\ \A l \in BlockIoLinks["bio"] : Complete(l)
        /\ \A l \in BlockIoLinks["elevator_queue"] : Complete(l)
    BY <1>1, SimpleLinks, SharedLinks DEF BlockIoLinks
  <1>3. DOMAIN BlockIoLinks = {"blk_mq_hw_ctx", "blk_mq_ctx", "blk_mq_tag_set", "request", "bio", "elevator_queue"}
    BY DEF BlockIoLinks
  <1> QED BY <1>2, <1>3 DEF Whole

LEMMA IpcWhole == Whole(IpcLinks)
  <1>1. /\ Complete(IpcWalks.queues) /\ Complete(IpcWalks.arrays) /\ Complete(IpcWalks.segments)
        /\ Complete(IpcWalks.messages) /\ Complete(IpcWalks.receivers) /\ Complete(IpcWalks.members)
    BY SimpleLinks DEF IpcWalks
  <1>2. /\ \A l \in IpcLinks["ipc_namespace"] : Complete(l)
        /\ \A l \in IpcLinks["msg_queue"] : Complete(l)
        /\ \A l \in IpcLinks["sem_array"] : Complete(l)
    BY <1>1, SimpleLinks, SharedLinks DEF IpcLinks
  <1>3. DOMAIN IpcLinks = {"ipc_namespace", "msg_queue", "sem_array"}
    BY DEF IpcLinks
  <1> QED BY <1>2, <1>3 DEF Whole

LEMMA IpcWaitWhole == Whole(IpcWaitLinks)
  <1>1. /\ \A l \in IpcWaitLinks["sem"] : Complete(l)
        /\ \A l \in IpcWaitLinks["sem_queue"] : Complete(l)
        /\ \A l \in IpcWaitLinks["msg_receiver"] : Complete(l)
        /\ \A l \in IpcWaitLinks["msg_msg"] : Complete(l)
        /\ \A l \in IpcWaitLinks["shmid_kernel"] : Complete(l)
    BY SimpleLinks, SharedLinks DEF IpcWaitLinks
  <1>2. DOMAIN IpcWaitLinks = {"sem", "sem_queue", "msg_receiver", "msg_msg", "shmid_kernel"}
    BY DEF IpcWaitLinks
  <1> QED BY <1>1, <1>2 DEF Whole

LEMMA WorkWhole == Whole(WorkLinks)
  <1>1. Complete(MountWalks.supers) /\ Complete(WorkerTask)
    BY SimpleLinks DEF MountWalks, WorkerTask
  <1>2. /\ Complete(WorkWalks.actions) /\ Complete(WorkWalks.workers) /\ Complete(WorkWalks.worklist)
        /\ Complete(WorkWalks.pwqs) /\ Complete(WorkWalks.inactive)
    BY SimpleLinks DEF WorkWalks
  <1>3. /\ \A l \in WorkLinks["file_system_type"] : Complete(l)
        /\ \A l \in WorkLinks["irq_desc"] : Complete(l)
        /\ \A l \in WorkLinks["irqaction"] : Complete(l)
        /\ \A l \in WorkLinks["worker_pool"] : Complete(l)
        /\ \A l \in WorkLinks["worker"] : Complete(l)
        /\ \A l \in WorkLinks["workqueue_struct"] : Complete(l)
        /\ \A l \in WorkLinks["pool_workqueue"] : Complete(l)
    BY <1>1, <1>2, SimpleLinks, SharedLinks DEF WorkLinks
  <1>4. DOMAIN WorkLinks = {"file_system_type", "irq_desc", "irqaction", "worker_pool", "worker", "workqueue_struct", "pool_workqueue"}
    BY DEF WorkLinks
  <1> QED BY <1>3, <1>4 DEF Whole

LEMMA LockWhole == Whole(LockLinks)
  <1>1. Complete(MutexWaiters)
    BY SimpleLinks DEF MutexWaiters
  <1>2. Complete(RwsemOwner)
    BY SimpleLinks DEF RwsemOwner, PtrIf, Ptr, Own, Complete, Known
  <1>3. /\ \A l \in LockLinks["mutex"] : Complete(l)
        /\ \A l \in LockLinks["mutex_waiter"] : Complete(l)
        /\ \A l \in LockLinks["rw_semaphore"] : Complete(l)
        /\ \A l \in LockLinks["futex_q"] : Complete(l)
        /\ \A l \in LockLinks["rcu_data"] : Complete(l)
        /\ \A l \in LockLinks["rcu_node"] : Complete(l)
    BY <1>1, <1>2, SimpleLinks, SharedLinks DEF LockLinks
  <1>4. DOMAIN LockLinks = {"mutex", "mutex_waiter", "rw_semaphore", "futex_q", "rcu_data", "rcu_node"}
    BY DEF LockLinks
  <1> QED BY <1>3, <1>4 DEF Whole

LEMMA TimerWhole == Whole(TimerLinks)
  <1>1. /\ Complete(TimerWalks.sleeper) /\ Complete(TimerWalks.queued)
        /\ Complete(TimerWalks.bases) /\ Complete(TimerWalks.wheel)
    BY SimpleLinks DEF TimerWalks
  <1>2. /\ \A l \in TimerLinks["hrtimer"] : Complete(l)
        /\ \A l \in TimerLinks["hrtimer_clock_base"] : Complete(l)
        /\ \A l \in TimerLinks["hrtimer_cpu_base"] : Complete(l)
        /\ \A l \in TimerLinks["timer_list"] : Complete(l)
        /\ \A l \in TimerLinks["timer_base"] : Complete(l)
        /\ \A l \in TimerLinks["tick_device"] : Complete(l)
    BY <1>1, SimpleLinks, SharedLinks DEF TimerLinks
  <1>3. DOMAIN TimerLinks = {"hrtimer", "hrtimer_clock_base", "hrtimer_cpu_base", "timer_list", "timer_base", "tick_device"}
    BY DEF TimerLinks
  <1> QED BY <1>2, <1>3 DEF Whole

LEMMA DeviceWhole == Whole(DeviceLinks)
  <1>1. Complete(PciIrq)
    BY SimpleLinks DEF PciIrq
  <1>2. /\ \A l \in DeviceLinks["pci_dev"] : Complete(l)
        /\ \A l \in DeviceLinks["net_device"] : Complete(l)
    BY <1>1, SimpleLinks, SharedLinks DEF DeviceLinks
  <1>3. DOMAIN DeviceLinks = {"pci_dev", "net_device"}
    BY DEF DeviceLinks
  <1> QED BY <1>2, <1>3 DEF Whole

\* The buffer's three gaps are its device, its first page and its successor.
LEMMA SkbGaps == \A l \in SkbLinks : Complete(l) \/ (Known(l) /\ l \in Gaps)
  <1>1. Known(SkbDevice) /\ Known(SkbFragPage) /\ Known(SkbNext)
    BY DEF SkbDevice, SkbFragPage, SkbNext, OnlyIf, PtrIf, Ptr, Own, Known
  <1> QED BY <1>1, SimpleLinks DEF SkbLinks, Gaps

LEMMA CgroupGaps ==
    \A t \in DOMAIN CgroupLinks : \A l \in CgroupLinks[t] :
        Complete(l) \/ (Known(l) /\ l \in Gaps)
  <1>1. Complete(CgroupWalks.parent)
    BY SimpleLinks DEF CgroupWalks
  <1>4. Known(CgroupWalks.tasks)
    BY DEF CgroupWalks, Walk, Own, Known
  <1>2. /\ \A l \in CgroupLinks["cgroup"] : Complete(l) \/ (Known(l) /\ l \in Gaps)
        /\ \A l \in CgroupLinks["psi_group"] : Complete(l)
    BY <1>1, <1>4, SimpleLinks DEF CgroupLinks, Gaps
  <1>3. DOMAIN CgroupLinks = {"cgroup", "psi_group"}
    BY DEF CgroupLinks
  <1> QED BY <1>2, <1>3

\* The casts of a sock that follow the number of a protocol.
LEMMA SocketGaps ==
    /\ \A l \in SocketLinks["socket"] : Complete(l)
    /\ \A l \in SocketLinks["sock"] : Complete(l) \/ (Known(l) /\ l.to \in {"tcp_sock", "udp_sock"})
    /\ DOMAIN SocketLinks = {"socket", "sock"}
  <1>1. Complete(MountWalks.sockfs)
    BY SimpleLinks DEF MountWalks
  <1> DEFINE tcp == AsSock("as tcp_sock", "IPPROTO_TCP", "tcp_sock", "tcp_sock")
             udp == AsSock("as udp_sock", "IPPROTO_UDP", "udp_sock", "udp_sock")
  <1>2. tcp.to = "tcp_sock" /\ udp.to = "udp_sock" /\ Known(tcp) /\ Known(udp)
    BY DEF AsSock, OnlyIf, PtrIf, Ptr, Own, Known
  <1>3. \A l \in SocketLinks["socket"] : Complete(l)
    BY <1>1, SimpleLinks DEF SocketLinks
  <1>4. \A l \in SocketLinks["sock"] : Complete(l) \/ (Known(l) /\ l.to \in {"tcp_sock", "udp_sock"})
    <2>1. \A l \in SocketLinks["sock"] : Complete(l) \/ l = tcp \/ l = udp
      BY SimpleLinks DEF SocketLinks
    <2> QED BY <1>2, <2>1
  <1>5. DOMAIN SocketLinks = {"socket", "sock"}
    BY DEF SocketLinks
  <1> QED BY <1>3, <1>4, <1>5

LEMMA TablesOf ==
    \A t : \A l \in Links(t) : \E i \in 1..15 : t \in DOMAIN Tables[i] /\ l \in Tables[i][t]
  BY DEF Links, Tables

\* Every other link asks for what its resolver rests on.
LEMMA OnlyGaps ==
    ASSUME NEW t, NEW l \in Links(t)
    PROVE  Known(l) /\ (l.without = "error" /\ l \notin Gaps => l.rests \subseteq l.shown)
  <1>1. PICK i \in 1..15 : t \in DOMAIN Tables[i] /\ l \in Tables[i][t]
    BY TablesOf
  <1>2. SUFFICES Complete(l) \/ (Known(l) /\ l \in Gaps)
    BY DEF Complete
  <1>3. CASE i = 1
    <2>1. Tables[i] = [task_struct |-> TaskLinks, sk_buff |-> SkbLinks]
      BY <1>3 DEF Tables
    <2> QED BY <1>1, <2>1, TaskWhole, SkbGaps
  <1>4. CASE i = 3
    <2>1. Tables[i] = CgroupLinks
      BY <1>4 DEF Tables
    <2> QED BY <1>1, <2>1, CgroupGaps
  <1>5. CASE i = 6
    <2>1. Tables[i] = SocketLinks
      BY <1>5 DEF Tables
    <2>2. l.to \in {"tcp_sock", "udp_sock"} /\ t = "sock" => l \in Gaps
      BY DEF Gaps
    <2> QED BY <1>1, <2>1, <2>2, SocketGaps
  <1>6. CASE i \notin {1, 3, 6}
    <2>1. \/ Tables[i] = SchedLinks \/ Tables[i] = MemoryLinks \/ Tables[i] = FileLinks
          \/ Tables[i] = MountLinks \/ Tables[i] = BlockLinks \/ Tables[i] = BlockIoLinks
          \/ Tables[i] = IpcLinks \/ Tables[i] = IpcWaitLinks \/ Tables[i] = WorkLinks
          \/ Tables[i] = LockLinks \/ Tables[i] = TimerLinks \/ Tables[i] = DeviceLinks
      BY <1>6 DEF Tables
    <2>2. Whole(Tables[i])
      BY <2>1, SchedWhole, MemoryWhole, FileWhole, MountWhole, BlockWhole, BlockIoWhole,
         IpcWhole, IpcWaitWhole, WorkWhole, LockWhole, TimerWhole, DeviceWhole
    <2> QED BY <1>1, <2>2 DEF Whole
  <1> QED BY <1>3, <1>4, <1>5, <1>6

---------------------------------------------------------------------------
(* A list that is walked while it changes *)

\* Where a pointer may be, and where one of a walk without detours leads.
Slots == Nodes \cup {"head", "other"}
Ends == Nodes \cup {"head", "poison"}

ListTyped ==
    /\ next \in [Slots -> Places] /\ pos \in Places
    /\ content \in Seq(Nodes) /\ rows \in Seq(Nodes) /\ start \in Seq(Nodes)
    /\ was \in SUBSET Nodes

\* The walks that are honest: of lists whose entries do not lead elsewhere.
Staying == phase \in {"walking", "listed"} /\ followed.walk \in {"kept", "poison"}

\* The pointers go through the entries that are in the list, in their order.
IsAList ==
    /\ next["head"] = IF content = <<>> THEN "head" ELSE content[1]
    /\ \A i \in DOMAIN content :
          next[content[i]] = IF i = Len(content) THEN "head" ELSE content[i + 1]
    /\ \A i \in DOMAIN content : content[i] \in was
    /\ \A i \in DOMAIN start : start[i] \in was

\* Each entry that ever was in it has a rank above low.  Every pointer leads to a
\* higher one, also that of an entry that was taken out, and an entry put in
\* front gets the lowest: so the walk goes up, and passes no entry twice.
Rising(s, rank) == \A i, j \in DOMAIN s : i < j => rank[s[i]] < rank[s[j]]

Ascends(rank, low) ==
    /\ rank \in [Nodes -> Int] /\ low \in Int
    /\ \A n \in was : low < rank[n] /\ next[n] \in Ends
    /\ \A n \in was : next[n] \in Nodes => next[n] \in was /\ rank[n] < rank[next[n]]
    /\ Rising(content, rank) /\ Rising(start, rank) /\ Rising(rows, rank)
    /\ pos \in Ends /\ (pos \in Nodes => pos \in was)
    /\ \A i \in DOMAIN rows : rows[i] \in was
    /\ phase = "walking" /\ pos \in Nodes => \A i \in DOMAIN rows : rank[rows[i]] < rank[pos]

\* While every entry of the beginning is there the walk is at one of them.
Untouched == \A i \in DOMAIN start : \E j \in DOMAIN content : content[j] = start[i]

AsAtFirst ==
    /\ \A i \in DOMAIN start :
          next[start[i]] = IF i = Len(start) THEN "head" ELSE start[i + 1]
    /\ Len(rows) <= Len(start) /\ Len(rows) <= MaxRows
    /\ \A i \in DOMAIN rows : rows[i] = start[i]
    /\ pos = IF Len(rows) = Len(start) THEN "head" ELSE start[Len(rows) + 1]
    /\ phase = "listed" => Len(rows) = Len(start) \/ Len(rows) = MaxRows

InOrder == IsAList /\ (Untouched => AsAtFirst) /\ \E rank, low : Ascends(rank, low)

WalkInv == Staying => ListTyped /\ InOrder

\* The rows a frame has are those of the object it shows, until it changes.
OfferInv ==
    /\ offered \subseteq Links(type) /\ (fresh => offered = Offered(type, facts))
    /\ OfferedOpens

LinksInv == WalkInv /\ OfferInv

LEMMA SlotsAre == DOMAIN NoList = Slots /\ NoList \in [Slots -> Places]
  BY LinksAssumption DEF NoList, Slots, Places

LEMMA ListsAre ==
    ASSUME NEW s \in Lists
    PROVE  s \in Seq(Nodes) /\ \A i, j \in DOMAIN s : s[i] = s[j] => i = j
  <1>1. Cardinality(Nodes) \in Nat
    BY LinksAssumption, FS_CardinalityType
  <1>2. PICK n \in 0..Cardinality(Nodes) : s \in [1..n -> Nodes]
    BY DEF Lists
  <1> QED BY <1>1, <1>2 DEF Lists

LEMMA ChainIs ==
    ASSUME NEW s \in Seq(Nodes), \A i, j \in DOMAIN s : s[i] = s[j] => i = j
    PROVE  /\ Chain(s) \in [Slots -> Places]
           /\ Chain(s)["head"] = IF s = <<>> THEN "head" ELSE s[1]
           /\ \A i \in DOMAIN s : Chain(s)[s[i]] = IF i = Len(s) THEN "head" ELSE s[i + 1]
  <1> DEFINE spot(p) == CHOOSE j \in DOMAIN s : s[j] = p
  <1>1. \A i \in DOMAIN s : s[i] \in Nodes /\ spot(s[i]) = i
    OBVIOUS
  <1>2. \A p : (\E i \in DOMAIN s : s[i] = p) => spot(p) \in DOMAIN s
    OBVIOUS
  <1>3. Chain(s) = [p \in Slots |->
            IF p = "head" THEN IF s = <<>> THEN "head" ELSE s[1]
            ELSE IF \E i \in DOMAIN s : s[i] = p
                 THEN IF spot(p) = Len(s) THEN "head" ELSE s[spot(p) + 1]
                 ELSE NoList[p]]
    BY SlotsAre DEF Chain
  <1>4. s # <<>> => 1 \in DOMAIN s
    BY EmptySeq
  <1>5. \A i \in DOMAIN s : i # Len(s) => i + 1 \in DOMAIN s
    OBVIOUS
  <1> HIDE DEF spot
  <1>6. Chain(s) \in [Slots -> Places]
    <2>1. \A p \in Slots : Chain(s)[p] \in Places
      BY <1>1, <1>2, <1>3, <1>4, <1>5, SlotsAre DEF Places
    <2> QED BY <1>3, <2>1
  <1>7. \A i \in DOMAIN s : Chain(s)[s[i]] = IF i = Len(s) THEN "head" ELSE s[i + 1]
    BY <1>1, <1>3, LinksAssumption DEF Slots
  <1>8. Chain(s)["head"] = IF s = <<>> THEN "head" ELSE s[1]
    BY <1>3 DEF Slots
  <1> QED BY <1>6, <1>7, <1>8

\* A walk starts at the first entry; the ranks are the places in the list.
LEMMA StartInOrder ==
    ASSUME NEW s \in Lists, next' = Chain(s), pos' = next'["head"], content' = s, start' = s,
           was' = {s[i] : i \in DOMAIN s}, rows' = <<>>, phase' = "walking"
    PROVE  InOrder'
  <1> DEFINE among == {s[i] : i \in DOMAIN s}
             rank == [n \in Nodes |-> IF n \in among THEN CHOOSE j \in DOMAIN s : s[j] = n ELSE 0]
  <1>1. s \in Seq(Nodes) /\ \A i, j \in DOMAIN s : s[i] = s[j] => i = j
    BY ListsAre
  <1>2. \A i \in DOMAIN s : rank[s[i]] = i /\ s[i] \in was' /\ s[i] \in Nodes
    BY <1>1
  <1>3. rank \in [Nodes -> Int]
    <2>1. \A n \in among : (CHOOSE j \in DOMAIN s : s[j] = n) \in DOMAIN s
      OBVIOUS
    <2>2. DOMAIN s \subseteq Int
      BY <1>1
    <2> QED BY <2>1, <2>2
  <1>4. /\ next'["head"] = IF s = <<>> THEN "head" ELSE s[1]
        /\ \A i \in DOMAIN s : next'[s[i]] = IF i = Len(s) THEN "head" ELSE s[i + 1]
    BY <1>1, ChainIs
  <1>5. s # <<>> => 1 \in DOMAIN s
    BY <1>1, EmptySeq
  <1>6. \A n \in was' : \E i \in DOMAIN s : n = s[i]
    OBVIOUS
  <1> HIDE DEF rank, among
  <1>7. IsAList'
    BY <1>2, <1>4 DEF IsAList
  <1>8. AsAtFirst'
    <2>1. Len(rows') = 0 /\ DOMAIN rows' = {} /\ Len(s) \in Nat /\ (s = <<>> <=> Len(s) = 0)
      BY <1>1, EmptySeq
    <2> QED BY <1>4, <2>1, LinksAssumption DEF AsAtFirst
  <1>9. Ascends(rank, 0)'
    <2>1. \A n \in was' : 0 < rank[n]
      BY <1>1, <1>2, <1>6
    <2>2. \A i \in DOMAIN s : i # Len(s) => i + 1 \in DOMAIN s /\ s[i + 1] \in was'
      BY <1>1, <1>2
    <2>3. \A n \in was' : /\ next'[n] \in Ends
                          /\ next'[n] \in Nodes => next'[n] \in was' /\ rank[n] < rank[next'[n]]
      <3> SUFFICES ASSUME NEW i \in DOMAIN s
                   PROVE  /\ next'[s[i]] \in Ends
                          /\ next'[s[i]] \in Nodes => /\ next'[s[i]] \in was'
                                                      /\ rank[s[i]] < rank[next'[s[i]]]
        BY <1>6
      <3>1. CASE i = Len(s)
        BY <1>4, <3>1, LinksAssumption DEF Ends
      <3>2. CASE i # Len(s)
        <4>1. next'[s[i]] = s[i + 1] /\ rank[s[i + 1]] = i + 1 /\ rank[s[i]] = i
          BY <1>2, <1>4, <2>2, <3>2
        <4> QED BY <1>1, <1>2, <2>2, <3>2, <4>1 DEF Ends
      <3> QED BY <3>1, <3>2
    <2>6. DOMAIN rows' = {}
      OBVIOUS
    <2>4. Rising(content, rank)' /\ Rising(start, rank)' /\ Rising(rows, rank)'
      <3>1. \A i, j \in DOMAIN s : i < j => rank[s[i]] < rank[s[j]]
        BY <1>2
      <3>2. \A i, j \in DOMAIN rows' : i < j => rank[rows'[i]] < rank[rows'[j]]
        BY <2>6
      <3> QED BY <3>1, <3>2 DEF Rising
    <2>5. pos' \in Ends /\ (pos' \in Nodes => pos' \in was')
      BY <1>2, <1>4, <1>5, LinksAssumption DEF Ends
    <2>7. \A n \in was' : next'[n] \in Nodes => next'[n] \in was' /\ rank[n] < rank[next'[n]]
      BY <2>3
    <2>8. \A n \in was' : 0 < rank[n] /\ next'[n] \in Ends
      BY <2>1, <2>3
    <2>9. \A i \in DOMAIN rows' : rows'[i] \in was' /\ rank[rows'[i]] < rank[pos']
      BY <2>6
    <2> QED BY <1>3, <2>4, <2>5, <2>7, <2>8, <2>9 DEF Ascends, Rising
  <1> QED BY <1>7, <1>8, <1>9 DEF InOrder

\* One item more: the walk goes on to an entry of higher rank.
LEMMA CollectInOrder ==
    ASSUME ListTyped, Staying, InOrder, Collect
    PROVE  InOrder'
  <1>1. /\ phase = "walking" /\ UNCHANGED <<next, content, start, was>>
        /\ \/ pos = "head" /\ phase' = "listed" /\ UNCHANGED <<pos, rows>>
           \/ pos = "poison" /\ phase' = "error" /\ UNCHANGED <<pos, rows>>
           \/ /\ pos \notin {"head", "poison"} /\ Len(rows) >= MaxRows
              /\ phase' = "listed" /\ UNCHANGED <<pos, rows>>
           \/ /\ pos \notin {"head", "poison"} /\ ~ Len(rows) >= MaxRows
              /\ rows' = Append(rows, pos) /\ pos' = next[pos] /\ UNCHANGED phase
    BY DEF Collect, CollectUpTo, list
  <1>2. PICK rank, low : Ascends(rank, low)
    BY DEF InOrder
  <1>3. pos \in Ends /\ (pos \in Nodes => pos \in was) /\ Len(rows) \in Nat /\ Len(start) \in Nat
    BY <1>2 DEF Ascends, ListTyped
  <1>4. IsAList'
    BY <1>1 DEF InOrder, IsAList
  <1>5. CASE pos \in {"head", "poison"} \/ Len(rows) >= MaxRows
    <2>1. phase' # "walking" /\ UNCHANGED <<pos, rows>>
      BY <1>1, <1>5
    <2>2. Ascends(rank, low)'
      BY <1>1, <1>2, <2>1 DEF Ascends, Rising
    <2>3. (Untouched => AsAtFirst)'
      <3> SUFFICES ASSUME Untouched PROVE AsAtFirst'
        BY <1>1 DEF Untouched
      <3>1. AsAtFirst
        BY DEF InOrder
      <3>2. phase' = "listed" => Len(rows) = Len(start) \/ Len(rows) = MaxRows
        <4>1. Len(rows) # Len(start) => start[Len(rows) + 1] \in Nodes
          <5>1. Len(rows) # Len(start) => Len(rows) + 1 \in DOMAIN start
            BY <1>3, <3>1 DEF AsAtFirst, ListTyped
          <5> QED BY <5>1 DEF ListTyped
        <4>2. pos = "head" => Len(rows) = Len(start)
          BY <3>1, <4>1, LinksAssumption DEF AsAtFirst
        <4>3. Len(rows) >= MaxRows => Len(rows) = MaxRows
          BY <1>3, <3>1, LinksAssumption DEF AsAtFirst
        <4>4. pos = "poison" => phase' = "error"
          BY <1>1, <1>5, LinksAssumption
        <4> QED BY <1>5, <4>2, <4>3, <4>4
      <3> QED BY <1>1, <2>1, <3>1, <3>2 DEF AsAtFirst
    <2> QED BY <1>4, <2>2, <2>3 DEF InOrder
  <1>6. CASE ~ (pos \in {"head", "poison"} \/ Len(rows) >= MaxRows)
    <2>1. /\ rows' = Append(rows, pos) /\ pos' = next[pos] /\ phase' = "walking"
          /\ pos \in Nodes /\ pos \in was /\ Len(rows) < MaxRows
      BY <1>1, <1>3, <1>6, LinksAssumption DEF Ends
    <2>2. /\ DOMAIN rows' = 1..(Len(rows) + 1) /\ Len(rows') = Len(rows) + 1
          /\ rows'[Len(rows) + 1] = pos
          /\ \A i \in DOMAIN rows : rows'[i] = rows[i]
          /\ DOMAIN rows = 1..Len(rows)
      BY <2>1 DEF ListTyped
    <2>3. Ascends(rank, low)'
      <3>1. /\ rank \in [Nodes -> Int] /\ low \in Int
            /\ \A n \in was : low < rank[n] /\ next[n] \in Ends
            /\ \A n \in was : next[n] \in Nodes => next[n] \in was /\ rank[n] < rank[next[n]]
            /\ Rising(content, rank) /\ Rising(start, rank) /\ Rising(rows, rank)
            /\ \A i \in DOMAIN rows : rows[i] \in was /\ rank[rows[i]] < rank[pos]
        BY <1>1, <1>2, <2>1 DEF Ascends
      <3>2. pos' \in Ends /\ (pos' \in Nodes => pos' \in was /\ rank[pos] < rank[pos'])
        BY <2>1, <3>1
      <3>3. \A i \in DOMAIN rows' : i = Len(rows) + 1 \/ i \in DOMAIN rows
        BY <1>3, <2>2
      <3>4. \A i \in DOMAIN rows' : rows'[i] \in was /\ rank[rows'[i]] \in Int
        BY <2>1, <2>2, <3>1, <3>3 DEF ListTyped
      <3>5. \A i, j \in DOMAIN rows' : i < j => rank[rows'[i]] < rank[rows'[j]]
        <4> SUFFICES ASSUME NEW i \in DOMAIN rows', NEW j \in DOMAIN rows', i < j
                     PROVE  rank[rows'[i]] < rank[rows'[j]]
          OBVIOUS
        <4>1. i \in DOMAIN rows
          BY <1>3, <2>2
        <4>2. CASE j \in DOMAIN rows
          BY <2>2, <3>1, <4>1, <4>2 DEF Rising
        <4>3. CASE j = Len(rows) + 1
          BY <2>2, <3>1, <4>1, <4>3
        <4> QED BY <3>3, <4>2, <4>3
      <3>6. pos' \in Nodes => \A i \in DOMAIN rows' : rank[rows'[i]] < rank[pos']
        <4> SUFFICES ASSUME pos' \in Nodes, NEW i \in DOMAIN rows'
                     PROVE  rank[rows'[i]] < rank[pos']
          OBVIOUS
        <4>1. rank[pos] < rank[pos'] /\ rank[pos] \in Int /\ rank[pos'] \in Int
          BY <2>1, <3>1, <3>2
        <4>2. rank[rows'[i]] = rank[pos] \/ rank[rows'[i]] < rank[pos]
          BY <2>2, <3>1, <3>3
        <4> QED BY <3>4, <4>1, <4>2
      <3>7. \A n \in was : next[n] \in Nodes => next[n] \in was /\ rank[n] < rank[next[n]]
        BY <3>1
      <3> QED BY <1>1, <3>1, <3>2, <3>4, <3>5, <3>6, <3>7 DEF Ascends, Rising
    <2>4. (Untouched => AsAtFirst)'
      <3> SUFFICES ASSUME Untouched PROVE AsAtFirst'
        BY <1>1 DEF Untouched
      <3>1. AsAtFirst
        BY DEF InOrder
      <3>2. Len(rows) < Len(start) /\ pos = start[Len(rows) + 1] /\ Len(rows) + 1 \in DOMAIN start
        BY <1>3, <1>6, <3>1 DEF AsAtFirst, ListTyped
      <3>3. pos' = IF Len(rows') = Len(start) THEN "head" ELSE start[Len(rows') + 1]
        BY <2>1, <2>2, <3>1, <3>2 DEF AsAtFirst
      <3>4. \A i \in DOMAIN rows' : rows'[i] = start[i]
        <4>1. \A i \in DOMAIN rows : rows'[i] = start[i]
          BY <2>2, <3>1 DEF AsAtFirst
        <4>2. \A i \in DOMAIN rows' : i = Len(rows) + 1 \/ i \in DOMAIN rows
          BY <1>3, <2>2
        <4> QED BY <2>2, <3>2, <4>1, <4>2
      <3>5. Len(rows') <= Len(start) /\ Len(rows') <= MaxRows /\ phase' # "listed"
        BY <1>3, <2>1, <2>2, <3>2, LinksAssumption
      <3> QED BY <1>1, <3>1, <3>3, <3>4, <3>5 DEF AsAtFirst
    <2> QED BY <1>4, <2>3, <2>4 DEF InOrder
  <1> QED BY <1>5, <1>6

\* An entry taken out: its predecessor points past it, and it goes on pointing
\* where it did or is poisoned.
LEMMA RemoveInOrder ==
    ASSUME ListTyped, Staying, InOrder, NEW i \in DOMAIN content, Remove(i)
    PROVE  InOrder'
  <1> DEFINE n == content[i]
             before == IF i = 1 THEN "head" ELSE content[i - 1]
  <1>1. PICK rank, low : Ascends(rank, low)
    BY DEF InOrder
  <1>2. /\ phase = "walking" /\ phase' = "walking" /\ UNCHANGED <<followed, pos, rows, start, was>>
        /\ content' = [j \in 1..(Len(content) - 1) |-> content[IF j < i THEN j ELSE j + 1]]
        /\ followed.walk \in {"kept", "poison"}
    BY DEF Remove, Staying
  <1>3. /\ DOMAIN content = 1..Len(content) /\ Len(content) \in Nat /\ i \in 1..Len(content)
        /\ \A j \in DOMAIN content : content[j] \in Nodes /\ content[j] \in was
        /\ next \in [Slots -> Places] /\ start \in Seq(Nodes) /\ was \subseteq Nodes
    BY DEF ListTyped, InOrder, IsAList
  <1>4. \A j, k \in DOMAIN content : j < k => rank[content[j]] < rank[content[k]]
    BY <1>1 DEF Ascends, Rising
  <1>5. \A m \in was : rank[m] \in Int
    BY <1>1, <1>3 DEF Ascends
  <1>6. \A j, k \in DOMAIN content : j # k => content[j] # content[k]
    <2> SUFFICES ASSUME NEW j \in DOMAIN content, NEW k \in DOMAIN content, j # k
                 PROVE  content[j] # content[k]
      OBVIOUS
    <2>1. j \in Int /\ k \in Int /\ rank[content[j]] \in Int /\ rank[content[k]] \in Int
      BY <1>3, <1>5
    <2>2. rank[content[j]] < rank[content[k]] \/ rank[content[k]] < rank[content[j]]
      BY <1>4, <2>1
    <2> QED BY <2>1, <2>2
  <1>7. /\ n \in Nodes /\ n \in was /\ before # n /\ n \in Slots /\ before \in Slots
        /\ i # 1 => i - 1 \in DOMAIN content /\ before = content[i - 1] /\ before \in was
                    /\ before \in Nodes /\ rank[before] < rank[n]
        /\ next[before] = n
    BY <1>3, <1>4, <1>6, LinksAssumption DEF Slots, InOrder, IsAList
  <1>8. /\ next' \in [Slots -> Places]
        /\ next'[before] = next[n]
        /\ next'[n] \in {next[n], "poison"}
        /\ \A p \in Slots \ {before, n} : next'[p] = next[p]
    <2>1. next' = [p \in Slots |->
                      CASE p = before  -> next[n]
                        [] p = n       -> Leads(n)
                        [] p = "other" -> next[p]
                        [] OTHER       -> next[p]]
      BY <1>2, <1>3 DEF Remove
    <2>2. Leads(n) \in {next[n], "poison"}
      BY <1>2 DEF Leads
    <2>3. next[n] \in Places /\ Leads(n) \in Places
      BY <1>3, <1>7, <2>2 DEF Places
    <2>4. n # "other" /\ before # "other"
      BY <1>7, LinksAssumption
    <2> HIDE DEF n, before
    <2>5. \A p \in Slots : next'[p] = IF p = before THEN next[n] ELSE IF p = n THEN Leads(n)
                                      ELSE next[p]
      BY <1>7, <2>1, <2>4
    <2>6. next' \in [Slots -> Places]
      <3>1. \A p \in Slots : next'[p] \in Places
        BY <1>3, <2>3, <2>5
      <3> QED BY <2>1, <3>1
    <2> QED BY <1>7, <2>2, <2>5, <2>6
  <1>9. /\ Len(content') = Len(content) - 1 /\ DOMAIN content' = 1..(Len(content) - 1)
        /\ \A j \in DOMAIN content' : j < i => content'[j] = content[j] /\ j \in DOMAIN content
        /\ \A j \in DOMAIN content' : ~ j < i => content'[j] = content[j + 1] /\ j + 1 \in DOMAIN content
    <2>1. Len(content) - 1 \in Nat
      BY <1>3
    <2> QED BY <1>2, <1>3, <2>1
  <1>10. next[n] = IF i = Len(content) THEN "head" ELSE content[i + 1]
    BY DEF InOrder, IsAList
  <1>11. \A j \in DOMAIN content : next[content[j]] = IF j = Len(content) THEN "head" ELSE content[j + 1]
    BY DEF InOrder, IsAList
  <1>12. \A j \in DOMAIN content : j \notin {i - 1, i} => next'[content[j]] = next[content[j]]
    <2> SUFFICES ASSUME NEW j \in DOMAIN content, j \notin {i - 1, i}
                 PROVE  next'[content[j]] = next[content[j]]
      OBVIOUS
    <2>1. content[j] # n /\ content[j] # before /\ content[j] \in Slots
      BY <1>3, <1>6, <1>7, LinksAssumption DEF Slots
    <2> QED BY <1>8, <2>1
  <1> HIDE DEF n, before
  <1>13. IsAList'
    <2>1. next'["head"] = IF content' = <<>> THEN "head" ELSE content'[1]
      <3>0. content' = <<>> <=> Len(content) = 1
        BY <1>2, <1>3, <1>9
      <3>1. CASE i = 1
        <4>1. next'["head"] = next[n]
          BY <1>8, <3>1 DEF before
        <4>2. Len(content) # 1 => content'[1] = content[2]
          BY <1>3, <1>9, <3>1
        <4> QED BY <1>10, <3>0, <3>1, <4>1, <4>2
      <3>2. CASE i # 1
        <4>1. "head" # n /\ "head" # before /\ "head" \in Slots
          BY <1>7, <3>2, LinksAssumption DEF Slots
        <4>2. next'["head"] = next["head"] /\ Len(content) # 1 /\ content # <<>>
          BY <1>3, <1>8, <3>2, <4>1
        <4>3. next["head"] = content[1]
          BY <4>2 DEF InOrder, IsAList
        <4>4. content'[1] = content[1]
          BY <1>3, <1>9, <3>2
        <4> QED BY <3>0, <4>2, <4>3, <4>4
      <3> QED BY <3>1, <3>2
    <2>2. ASSUME NEW j \in DOMAIN content'
          PROVE  next'[content'[j]] = IF j = Len(content') THEN "head" ELSE content'[j + 1]
      <3>1. CASE j < i - 1
        <4>1. content'[j] = content[j] /\ content'[j + 1] = content[j + 1] /\ j # Len(content')
              /\ j # Len(content) /\ j \in DOMAIN content /\ j \notin {i - 1, i}
          BY <1>3, <1>9, <3>1
        <4> QED BY <1>11, <1>12, <4>1
      <3>2. CASE j = i - 1
        <4>1. content'[j] = before /\ (j = Len(content') <=> i = Len(content))
          BY <1>3, <1>7, <1>9, <3>2
        <4>2. j # Len(content') => content'[j + 1] = content[i + 1]
          BY <1>3, <1>9, <3>2
        <4> QED BY <1>8, <1>10, <4>1, <4>2
      <3>3. CASE j >= i
        <4>1. content'[j] = content[j + 1] /\ j + 1 \in DOMAIN content /\ j + 1 \notin {i - 1, i}
              /\ (j = Len(content') <=> j + 1 = Len(content))
          BY <1>3, <1>9, <3>3
        <4>2. j # Len(content') => content'[j + 1] = content[j + 2]
          BY <1>3, <1>9, <3>3
        <4>3. next[content[j + 1]] = IF j + 1 = Len(content) THEN "head" ELSE content[j + 1 + 1]
          BY <1>11, <4>1
        <4>4. j + 1 + 1 = j + 2
          BY <1>9
        <4> QED BY <1>12, <4>1, <4>2, <4>3, <4>4
      <3> QED BY <1>3, <1>9, <3>1, <3>2, <3>3
    <2>3. \A j \in DOMAIN content' : content'[j] \in was'
      BY <1>2, <1>3, <1>9
    <2> QED BY <1>2, <2>1, <2>2, <2>3 DEF InOrder, IsAList
  <1>14. Ascends(rank, low)'
    <2>1. /\ rank \in [Nodes -> Int] /\ low \in Int
          /\ \A m \in was : low < rank[m] /\ next[m] \in Ends
          /\ \A m \in was : next[m] \in Nodes => next[m] \in was /\ rank[m] < rank[next[m]]
          /\ \A j, k \in DOMAIN start : j < k => rank[start[j]] < rank[start[k]]
          /\ \A j, k \in DOMAIN rows : j < k => rank[rows[j]] < rank[rows[k]]
          /\ \A j \in DOMAIN rows : rows[j] \in was
          /\ pos \in Ends /\ (pos \in Nodes => pos \in was)
          /\ pos \in Nodes => \A j \in DOMAIN rows : rank[rows[j]] < rank[pos]
      BY <1>1, <1>2 DEF Ascends, Rising
    <2>2. ASSUME NEW m \in was
          PROVE  /\ next'[m] \in Ends
                 /\ next'[m] \in Nodes => next'[m] \in was /\ rank[m] < rank[next'[m]]
      <3>1. CASE m = before
        <4>1. next'[m] = next[n] /\ next[n] \in Ends
          BY <1>7, <1>8, <2>1, <3>1
        <4>2. i # 1
          BY <1>3, <3>1, LinksAssumption DEF before
        <4>3. ASSUME next[n] \in Nodes PROVE next[n] \in was /\ rank[before] < rank[next[n]]
          <5>1. next[n] \in was /\ rank[n] < rank[next[n]] /\ rank[before] < rank[n]
            BY <1>7, <2>1, <4>2, <4>3
          <5>2. rank[next[n]] \in Int /\ rank[n] \in Int /\ rank[before] \in Int
            BY <1>5, <1>7, <4>2, <5>1
          <5> QED BY <5>1, <5>2
        <4> QED BY <3>1, <4>1, <4>3
      <3>2. CASE m = n
        <4>1. CASE next'[m] = "poison"
          BY <4>1, LinksAssumption DEF Ends
        <4>2. CASE next'[m] = next[m]
          BY <2>1, <4>2
        <4> QED BY <1>8, <3>2, <4>1, <4>2
      <3>3. CASE m \notin {before, n}
        <4>1. next'[m] = next[m]
          BY <1>3, <1>8, <3>3 DEF Slots
        <4> QED BY <2>1, <4>1
      <3> QED BY <3>1, <3>2, <3>3
    <2>3. \A j, k \in DOMAIN content' : j < k => rank[content'[j]] < rank[content'[k]]
      <3> SUFFICES ASSUME NEW j \in DOMAIN content', NEW k \in DOMAIN content', j < k
                   PROVE  rank[content'[j]] < rank[content'[k]]
        OBVIOUS
      <3>1. PICK a \in DOMAIN content, b \in DOMAIN content :
               content'[j] = content[a] /\ content'[k] = content[b] /\ a < b
        <4>1. CASE k < i
          BY <1>3, <1>9, <4>1
        <4>2. CASE j < i /\ ~ k < i
          BY <1>3, <1>9, <4>2
        <4>3. CASE ~ j < i
          BY <1>3, <1>9, <4>3
        <4> QED BY <1>3, <1>9, <4>1, <4>2, <4>3
      <3> QED BY <1>4, <3>1
    <2>4. \A m \in was : low < rank[m] /\ next'[m] \in Ends
      BY <2>1, <2>2
    <2>5. \A m \in was : next'[m] \in Nodes => next'[m] \in was /\ rank[m] < rank[next'[m]]
      BY <2>2
    <2> QED BY <1>2, <2>1, <2>3, <2>4, <2>5 DEF Ascends, Rising
  <1>15. (Untouched => AsAtFirst)'
    <2> SUFFICES ASSUME Untouched' PROVE AsAtFirst'
      OBVIOUS
    <2>1. \A j \in DOMAIN content' : content'[j] # n /\ \E k \in DOMAIN content : content[k] = content'[j]
      <3> SUFFICES ASSUME NEW j \in DOMAIN content'
                   PROVE  content'[j] # n /\ \E k \in DOMAIN content : content[k] = content'[j]
        OBVIOUS
      <3>1. PICK k \in DOMAIN content : content'[j] = content[k] /\ k # i
        <4>1. CASE j < i
          BY <1>3, <1>9, <4>1
        <4>2. CASE ~ j < i
          BY <1>3, <1>9, <4>2
        <4> QED BY <4>1, <4>2
      <3> QED BY <1>6, <3>1 DEF n
    <2>2. \A k \in DOMAIN start : start[k] # n
      BY <1>2, <2>1 DEF Untouched
    <2>3. AsAtFirst
      <3>1. Untouched
        BY <1>2, <2>1 DEF Untouched
      <3> QED BY <3>1 DEF InOrder
    <2>4. \A k \in DOMAIN start : next'[start[k]] = next[start[k]]
      <3> SUFFICES ASSUME NEW k \in DOMAIN start PROVE next'[start[k]] = next[start[k]]
        OBVIOUS
      <3>1. start[k] \in Slots
        BY <1>3 DEF Slots
      <3>2. next[start[k]] # n
        <4>1. next[start[k]] = IF k = Len(start) THEN "head" ELSE start[k + 1]
          BY <2>3 DEF AsAtFirst
        <4>2. k # Len(start) => k + 1 \in DOMAIN start
          BY <1>3
        <4> QED BY <1>7, <2>2, <4>1, <4>2, LinksAssumption
      <3>3. start[k] # before
        BY <1>7, <3>2
      <3> QED BY <1>8, <2>2, <3>1, <3>3
    <2> QED BY <1>2, <2>3, <2>4 DEF AsAtFirst
  <1> QED BY <1>13, <1>14, <1>15 DEF InOrder

\* An entry put in front is new, and ranks below all there were.
LEMMA InsertInOrder ==
    ASSUME ListTyped, Staying, InOrder, NEW n \in Nodes, Insert(n)
    PROVE  InOrder'
  <1>1. PICK rank, low : Ascends(rank, low)
    BY DEF InOrder
  <1>2. /\ phase = "walking" /\ phase' = "walking" /\ UNCHANGED <<followed, pos, rows, start>>
        /\ n \notin was /\ was' = was \cup {n}
        /\ next' = [next EXCEPT !["head"] = n, ![n] = next["head"]]
        /\ content' = <<n>> \o content
    BY DEF Insert
  <1>3. /\ content \in Seq(Nodes) /\ next \in [Slots -> Places] /\ start \in Seq(Nodes)
        /\ was \subseteq Nodes
        /\ \A j \in DOMAIN content : content[j] \in Nodes /\ content[j] \in was
        /\ \A j \in DOMAIN start : start[j] \in Nodes /\ start[j] \in was
    BY DEF ListTyped, InOrder, IsAList
  <1>4. /\ next'["head"] = n /\ next'[n] = next["head"]
        /\ \A m \in was : next'[m] = next[m]
    BY <1>2, <1>3, LinksAssumption DEF Slots
  <1>5. /\ Len(content') = Len(content) + 1 /\ DOMAIN content' = 1..(Len(content) + 1)
        /\ DOMAIN content = 1..Len(content) /\ Len(content) \in Nat
        /\ content'[1] = n
        /\ \A j \in DOMAIN content : content'[j + 1] = content[j]
    <2>1. <<n>> \in Seq(Nodes) /\ Len(<<n>>) = 1 /\ <<n>>[1] = n
      OBVIOUS
    <2> QED BY <1>2, <1>3, <2>1
  <1>6. \A j \in DOMAIN content' : j # 1 => j - 1 \in DOMAIN content /\ content'[j] = content[j - 1]
    <2> SUFFICES ASSUME NEW j \in DOMAIN content', j # 1
                 PROVE  j - 1 \in DOMAIN content /\ content'[j] = content[j - 1]
      OBVIOUS
    <2>1. j - 1 \in DOMAIN content /\ j - 1 + 1 = j
      BY <1>5
    <2> QED BY <1>5, <2>1
  <1>7. next["head"] = IF Len(content) = 0 THEN "head" ELSE content[1]
    <2>1. content = <<>> <=> Len(content) = 0
      BY <1>3, EmptySeq
    <2> QED BY <2>1 DEF InOrder, IsAList
  <1>8. IsAList'
    <2>1. ASSUME NEW j \in DOMAIN content'
          PROVE  next'[content'[j]] = IF j = Len(content') THEN "head" ELSE content'[j + 1]
      <3>1. CASE j = 1
        <4>1. Len(content) # 0 => content'[j + 1] = content[1]
          BY <1>5, <3>1
        <4> QED BY <1>4, <1>5, <1>7, <3>1, <4>1
      <3>2. CASE j # 1
        <4>1. j - 1 \in DOMAIN content /\ content'[j] = content[j - 1]
          BY <1>6, <3>2
        <4>2. next[content[j - 1]] = IF j - 1 = Len(content) THEN "head" ELSE content[j - 1 + 1]
          BY <4>1 DEF InOrder, IsAList
        <4>3. j - 1 # Len(content) => j \in DOMAIN content /\ j - 1 + 1 = j
          BY <1>5, <4>1
        <4> QED BY <1>3, <1>4, <1>5, <4>1, <4>2, <4>3
      <3> QED BY <3>1, <3>2
    <2>2. \A j \in DOMAIN content' : content'[j] \in was'
      BY <1>2, <1>3, <1>5, <1>6
    <2>3. next'["head"] = content'[1] /\ content' # <<>>
      BY <1>4, <1>5
    <2> QED BY <1>2, <1>3, <2>1, <2>2, <2>3 DEF IsAList
  <1> DEFINE lowered == [rank EXCEPT ![n] = low]
  <1>9. /\ rank \in [Nodes -> Int] /\ low \in Int
        /\ \A m \in was : low < rank[m] /\ next[m] \in Ends
        /\ \A m \in was : next[m] \in Nodes => next[m] \in was /\ rank[m] < rank[next[m]]
        /\ \A j, k \in DOMAIN content : j < k => rank[content[j]] < rank[content[k]]
        /\ \A j, k \in DOMAIN start : j < k => rank[start[j]] < rank[start[k]]
        /\ \A j, k \in DOMAIN rows : j < k => rank[rows[j]] < rank[rows[k]]
        /\ \A j \in DOMAIN rows : rows[j] \in was
        /\ pos \in Ends /\ (pos \in Nodes => pos \in was)
        /\ pos \in Nodes => \A j \in DOMAIN rows : rank[rows[j]] < rank[pos]
    BY <1>1, <1>2 DEF Ascends, Rising
  <1>10. /\ lowered \in [Nodes -> Int] /\ lowered[n] = low
         /\ \A m \in was : lowered[m] = rank[m]
    BY <1>2, <1>3, <1>9
  <1> HIDE DEF lowered
  <1>11. Ascends(lowered, low - 1)'
    <2>1. low - 1 \in Int /\ \A m \in was' : low - 1 < lowered[m]
      <3>1. low - 1 < low
        BY <1>9
      <3>2. \A m \in was : low - 1 < rank[m]
        BY <1>3, <1>9
      <3> QED BY <1>2, <1>9, <1>10, <3>1, <3>2
    <2>2. ASSUME NEW m \in was'
          PROVE  /\ next'[m] \in Ends
                 /\ next'[m] \in Nodes => next'[m] \in was' /\ lowered[m] < lowered[next'[m]]
      <3>1. CASE m = n
        <4>1. Len(content) # 0 => 1 \in DOMAIN content
          BY <1>5
        <4> QED BY <1>2, <1>3, <1>4, <1>7, <1>9, <1>10, <3>1, <4>1, LinksAssumption DEF Ends
      <3>2. CASE m # n
        <4>1. m \in was
          BY <1>2, <3>2
        <4>2. next'[m] = next[m] /\ next[m] \in Ends /\ lowered[m] = rank[m]
          BY <1>4, <1>9, <1>10, <4>1
        <4>3. next[m] \in Nodes => next[m] \in was /\ rank[m] < rank[next[m]]
          BY <1>9, <4>1
        <4> QED BY <1>2, <1>10, <4>2, <4>3
      <3> QED BY <3>1, <3>2
    <2>3. \A j, k \in DOMAIN content' : j < k => lowered[content'[j]] < lowered[content'[k]]
      <3> SUFFICES ASSUME NEW j \in DOMAIN content', NEW k \in DOMAIN content', j < k
                   PROVE  lowered[content'[j]] < lowered[content'[k]]
        OBVIOUS
      <3>1. k # 1 /\ content'[k] = content[k - 1] /\ k - 1 \in DOMAIN content /\ content[k - 1] \in was
        BY <1>3, <1>5, <1>6
      <3>2. CASE j = 1
        BY <1>5, <1>9, <1>10, <3>1, <3>2
      <3>3. CASE j # 1
        <4>1. content'[j] = content[j - 1] /\ j - 1 \in DOMAIN content /\ j - 1 < k - 1
              /\ content[j - 1] \in was
          BY <1>3, <1>5, <1>6, <3>3
        <4> QED BY <1>9, <1>10, <3>1, <4>1
      <3> QED BY <3>2, <3>3
    <2>4. /\ \A j, k \in DOMAIN start : j < k => lowered[start[j]] < lowered[start[k]]
          /\ \A j, k \in DOMAIN rows : j < k => lowered[rows[j]] < lowered[rows[k]]
          /\ pos \in Nodes => \A j \in DOMAIN rows : lowered[rows[j]] < lowered[pos]
      BY <1>3, <1>9, <1>10
    <2>5. \A m \in was' : low - 1 < lowered[m] /\ next'[m] \in Ends
      BY <2>1, <2>2
    <2>6. \A m \in was' : next'[m] \in Nodes => next'[m] \in was' /\ lowered[m] < lowered[next'[m]]
      BY <2>2
    <2> QED BY <1>2, <1>9, <1>10, <2>1, <2>3, <2>4, <2>5, <2>6 DEF Ascends, Rising
  <1>12. (Untouched => AsAtFirst)'
    <2> SUFFICES ASSUME Untouched' PROVE AsAtFirst'
      OBVIOUS
    <2>1. Untouched
      <3> SUFFICES ASSUME NEW k \in DOMAIN start PROVE \E j \in DOMAIN content : content[j] = start[k]
        BY DEF Untouched
      <3>1. PICK j \in DOMAIN content' : content'[j] = start[k]
        BY <1>2 DEF Untouched
      <3>2. j # 1
        BY <1>2, <1>3, <1>5, <3>1
      <3> QED BY <1>6, <3>1, <3>2
    <2> QED BY <1>2, <1>3, <1>4, <2>1 DEF InOrder, AsAtFirst
  <1> QED BY <1>8, <1>11, <1>12 DEF InOrder

\* Pointers that are those of the beginning go through the beginning's entries.
LEMMA SameIsUntouched ==
    ASSUME ListTyped, IsAList, next = Chain(start),
           \A i, j \in DOMAIN start : start[i] = start[j] => i = j
    PROVE  Untouched
  <1>1. /\ next["head"] = IF start = <<>> THEN "head" ELSE start[1]
        /\ \A i \in DOMAIN start : next[start[i]] = IF i = Len(start) THEN "head" ELSE start[i + 1]
        /\ Len(start) \in Nat /\ DOMAIN start = 1..Len(start)
        /\ \A i \in DOMAIN start : start[i] \in Nodes
    BY ChainIs DEF ListTyped
  <1>2. /\ next["head"] = IF content = <<>> THEN "head" ELSE content[1]
        /\ \A i \in DOMAIN content :
              next[content[i]] = IF i = Len(content) THEN "head" ELSE content[i + 1]
        /\ Len(content) \in Nat /\ DOMAIN content = 1..Len(content)
    BY DEF IsAList, ListTyped
  <1> DEFINE Found == {i \in 0..Len(start) :
                          i # 0 => \E j \in DOMAIN content : content[j] = start[i]}
  <1>3. 0 \in Found
    BY <1>1
  <1>4. ASSUME NEW i \in 1..Len(start), i - 1 \in Found PROVE i \in Found
    <2>1. CASE i = 1
      <3>1. start # <<>> /\ 1 \in DOMAIN start
        BY <1>1, <2>1
      <3>2. content # <<>> /\ content[1] = start[1]
        BY <1>1, <1>2, <3>1, LinksAssumption
      <3>3. 1 \in DOMAIN content
        BY <1>2, <3>2, EmptySeq DEF ListTyped
      <3> QED BY <2>1, <3>2, <3>3
    <2>2. CASE i # 1
      <3>1. i - 1 \in DOMAIN start /\ i - 1 # 0 /\ i - 1 # Len(start) /\ i - 1 + 1 = i
        BY <1>1, <2>2
      <3>2. PICK j \in DOMAIN content : content[j] = start[i - 1]
        BY <1>4, <3>1
      <3>3. next[content[j]] = start[i] /\ start[i] # "head"
        BY <1>1, <3>1, <3>2, LinksAssumption
      <3>4. j # Len(content) /\ content[j + 1] = start[i] /\ j + 1 \in DOMAIN content
        BY <1>2, <3>3
      <3> QED BY <3>4
    <2> QED BY <2>1, <2>2
  <1> HIDE DEF Found
  <1>5. \A i \in 0..Len(start) : i \in Found
    BY <1>1, <1>3, <1>4, UpTo, Zenon
  <1> QED BY <1>1, <1>5 DEF Found, Untouched

LEMMA HonestWalk ==
    ASSUME WalkInv
    PROVE  WalkIsHonest
  <1> SUFFICES ASSUME phase = "listed", followed.walk \in {"kept", "poison"}
               PROVE  /\ \A i, j \in DOMAIN rows : rows[i] = rows[j] => i = j
                      /\ \A i \in DOMAIN rows : rows[i] \in was
                      /\ next = Chain(start) =>
                            rows = SubSeq(start, 1, IF Len(start) < MaxRows THEN Len(start)
                                                                            ELSE MaxRows)
    BY DEF WalkIsHonest
  <1>1. ListTyped /\ InOrder
    BY DEF WalkInv, Staying
  <1>2. PICK rank, low : Ascends(rank, low)
    BY <1>1 DEF InOrder
  <1>3. /\ \A i \in DOMAIN rows : rows[i] \in was
        /\ \A n \in was : rank[n] \in Int
        /\ \A i, j \in DOMAIN rows : i < j => rank[rows[i]] < rank[rows[j]]
        /\ \A i, j \in DOMAIN start : i < j => rank[start[i]] < rank[start[j]]
        /\ \A i \in DOMAIN start : start[i] \in was
        /\ DOMAIN rows \subseteq Int /\ DOMAIN start \subseteq Int
    BY <1>1, <1>2 DEF ListTyped, Ascends, Rising, InOrder, IsAList
  <1>4. \A i, j \in DOMAIN rows : rows[i] = rows[j] => i = j
    <2> SUFFICES ASSUME NEW i \in DOMAIN rows, NEW j \in DOMAIN rows, i # j
                 PROVE  rows[i] # rows[j]
      OBVIOUS
    <2>1. rank[rows[i]] < rank[rows[j]] \/ rank[rows[j]] < rank[rows[i]]
      BY <1>3
    <2> QED BY <1>3, <2>1
  <1>5. \A i, j \in DOMAIN start : start[i] = start[j] => i = j
    <2> SUFFICES ASSUME NEW i \in DOMAIN start, NEW j \in DOMAIN start, i # j
                 PROVE  start[i] # start[j]
      OBVIOUS
    <2>1. rank[start[i]] < rank[start[j]] \/ rank[start[j]] < rank[start[i]]
      BY <1>3
    <2> QED BY <1>3, <2>1
  <1>6. ASSUME next = Chain(start)
        PROVE  rows = SubSeq(start, 1, IF Len(start) < MaxRows THEN Len(start) ELSE MaxRows)
    <2>1. AsAtFirst
      BY <1>1, <1>5, <1>6, SameIsUntouched DEF InOrder
    <2> DEFINE m == IF Len(start) < MaxRows THEN Len(start) ELSE MaxRows
    <2>2. Len(rows) = m /\ Len(rows) \in Nat /\ Len(rows) <= Len(start)
      BY <2>1, LinksAssumption DEF AsAtFirst, ListTyped
    <2>3. rows = [i \in 1..Len(rows) |-> start[i]]
      <3>1. \A i \in 1..Len(rows) : rows[i] = start[i]
        BY <2>1 DEF AsAtFirst, ListTyped
      <3>2. rows = [i \in 1..Len(rows) |-> rows[i]]
        BY <1>1 DEF ListTyped
      <3> QED BY <3>1, <3>2
    <2> HIDE DEF m
    <2>4. SubSeq(start, 1, m) = [i \in 1..m |-> start[i]]
      BY <2>2 DEF ListTyped
    <2> QED BY <2>2, <2>3, <2>4 DEF m
  <1> QED BY <1>3, <1>4, <1>6

LEMMA StartTyped ==
    ASSUME NEW s \in Lists, next' = Chain(s), pos' = next'["head"], content' = s, start' = s,
           was' = {s[i] : i \in DOMAIN s}, rows' = <<>>
    PROVE  ListTyped'
  <1>1. s \in Seq(Nodes) /\ Chain(s) \in [Slots -> Places]
    BY ListsAre, ChainIs
  <1>2. Chain(s)["head"] \in Places
    BY <1>1 DEF Slots
  <1>3. {s[i] : i \in DOMAIN s} \subseteq Nodes
    BY <1>1
  <1> QED BY <1>1, <1>2, <1>3 DEF ListTyped

LEMMA CollectTyped ==
    ASSUME ListTyped, Staying, InOrder, Collect
    PROVE  ListTyped'
  <1>1. UNCHANGED <<next, content, start, was>>
    BY DEF Collect, CollectUpTo
  <1>2. CASE UNCHANGED <<pos, rows>>
    BY <1>1, <1>2 DEF ListTyped
  <1>3. CASE pos \notin {"head", "poison"} /\ rows' = Append(rows, pos) /\ pos' = next[pos]
    <2>1. pos \in Nodes
      BY <1>3 DEF InOrder, Ascends, Ends
    <2>2. rows' \in Seq(Nodes) /\ pos' \in Places
      BY <1>3, <2>1 DEF ListTyped, Slots
    <2> QED BY <1>1, <2>2 DEF ListTyped
  <1> QED BY <1>2, <1>3 DEF Collect, CollectUpTo

LEMMA RemoveTyped ==
    ASSUME ListTyped, Staying, InOrder, NEW i \in DOMAIN content, Remove(i)
    PROVE  ListTyped'
  <1> DEFINE n == content[i]
             before == IF i = 1 THEN "head" ELSE content[i - 1]
  <1>1. /\ UNCHANGED <<pos, rows, start, was>>
        /\ content' = [j \in 1..(Len(content) - 1) |-> content[IF j < i THEN j ELSE j + 1]]
        /\ followed.walk \in {"kept", "poison"}
    BY DEF Remove, Staying
  <1>2. /\ i \in 1..Len(content) /\ Len(content) \in Nat /\ DOMAIN content = 1..Len(content)
        /\ next \in [Slots -> Places] /\ n \in Nodes /\ n \in Slots
    BY DEF ListTyped, Slots
  <1>3. content' \in Seq(Nodes)
    <2>1. \A j \in 1..(Len(content) - 1) : content[IF j < i THEN j ELSE j + 1] \in Nodes
      BY <1>2 DEF ListTyped
    <2>2. Len(content) - 1 \in Nat
      BY <1>2
    <2> QED BY <1>1, <2>1, <2>2
  <1>4. Leads(n) \in Places /\ next[n] \in Places
    BY <1>1, <1>2 DEF Leads, Places
  <1> HIDE DEF n, before
  <1>5. next' = [p \in Slots |->
                    CASE p = before  -> next[n]
                      [] p = n       -> Leads(n)
                      [] p = "other" -> next[p]
                      [] OTHER       -> next[p]]
    BY <1>1, <1>2 DEF Remove, n, before
  <1>6. \A p \in Slots : next'[p] \in {next[n], Leads(n), next[p]}
    BY <1>5
  <1>7. next' \in [Slots -> Places]
    <2>1. \A p \in Slots : next'[p] \in Places
      BY <1>2, <1>4, <1>6
    <2> QED BY <1>5, <2>1
  <1> QED BY <1>1, <1>3, <1>7 DEF ListTyped

LEMMA InsertTyped ==
    ASSUME ListTyped, NEW n \in Nodes, Insert(n)
    PROVE  ListTyped'
  <1>1. content' \in Seq(Nodes)
    <2>1. <<n>> \in Seq(Nodes) /\ content' = <<n>> \o content /\ content \in Seq(Nodes)
      BY DEF Insert, ListTyped
    <2> QED BY <2>1
  <1>2. next["head"] \in Places /\ n \in Places
    BY DEF ListTyped, Slots, Places
  <1>3. next' \in [Slots -> Places]
    BY <1>2 DEF Insert, ListTyped
  <1> QED BY <1>1, <1>3 DEF Insert, ListTyped

---------------------------------------------------------------------------
(* Every step *)

\* No walk is under way that started at a list.
LEMMA NoWalkKeeps ==
    ASSUME phase' \notin {"walking", "listed"} \/ followed'.walk \notin {"kept", "poison"}
    PROVE  WalkInv'
  BY DEF WalkInv, Staying

LEMMA ShowKeeps ==
    ASSUME NEW t, NEW f, Show(t, f)
    PROVE  LinksInv'
  <1>1. phase' = "object" /\ type' = t /\ facts' = f /\ offered' = Offered(t, f)
    BY DEF Show
  <1>2. Offered(t, f) \subseteq Links(t)
    BY DEF Offered
  <1> QED BY <1>1, <1>2, NoWalkKeeps DEF LinksInv, OfferInv, OfferedOpens

\* The frame stays the frame it is while a link of it is followed.
LEMMA FrameKeeps ==
    ASSUME OfferInv, UNCHANGED frame, OfferedOpens'
    PROVE  OfferInv'
  BY DEF OfferInv, frame

LEMMA FollowKeeps ==
    ASSUME LinksInv, NEW l \in offered, Follow(l)
    PROVE  LinksInv'
  <1>1. l \in Links(type)
    BY DEF LinksInv, OfferInv
  <1>2. CASE ~ l.rests \subseteq facts
    <2>1. phase' = l.without /\ followed' = l /\ UNCHANGED <<frame, list>>
      BY <1>2 DEF Follow
    <2>2. WalkInv'
      BY <1>1, <2>1, OnlyGaps, NoWalkKeeps DEF Known
    <2>3. OfferedOpens'
      <3> SUFFICES ASSUME l.without = "error", fresh PROVE l \in Gaps
        BY <2>1 DEF OfferedOpens, frame
      <3>1. l.shown \subseteq facts
        BY DEF LinksInv, OfferInv, Offered
      <3> QED BY <1>1, <1>2, <3>1, OnlyGaps
    <2> QED BY <2>1, <2>2, <2>3, FrameKeeps DEF LinksInv
  <1>3. CASE \E t, f : Show(t, f)
    BY <1>3, ShowKeeps
  <1>4. CASE ListSlots(l) /\ l.walk \in {"none", "array"}
    <2>1. phase' = "listed" /\ followed' = l /\ UNCHANGED <<frame, list>>
      BY <1>4 DEF ListSlots
    <2>2. WalkInv' /\ OfferedOpens'
      BY <1>4, <2>1, NoWalkKeeps DEF OfferedOpens
    <2> QED BY <2>1, <2>2, FrameKeeps DEF LinksInv
  <1>5. CASE StartWalk(l)
    <2>1. PICK s \in Lists :
              /\ next' = Chain(s) /\ pos' = next'["head"] /\ content' = s /\ start' = s
              /\ was' = {s[i] : i \in DOMAIN s} /\ rows' = <<>> /\ phase' = "walking"
      BY <1>5 DEF StartWalk
    <2>2. WalkInv'
      BY <2>1, StartInOrder, StartTyped DEF WalkInv
    <2>3. OfferedOpens' /\ UNCHANGED frame
      BY <1>5, <2>1 DEF OfferedOpens, StartWalk
    <2> QED BY <2>2, <2>3, FrameKeeps DEF LinksInv
  <1>6. ASSUME l.rests \subseteq facts
        PROVE  \/ \E t, f : Show(t, f)
               \/ ListSlots(l) /\ l.walk \in {"none", "array"}
               \/ StartWalk(l)
    <2>1. CASE l.walk = "none"
      BY <1>6, <2>1 DEF Follow
    <2>2. CASE l.walk = "array"
      BY <1>6, <2>2 DEF Follow
    <2>3. CASE l.walk \notin {"none", "array"}
      BY <1>6, <2>3 DEF Follow
    <2> QED BY <2>1, <2>2, <2>3
  <1> QED BY <1>2, <1>3, <1>4, <1>5, <1>6

LEMMA CollectKeeps ==
    ASSUME LinksInv, Collect
    PROVE  LinksInv'
  <1>1. /\ phase = "walking" /\ UNCHANGED <<frame, followed>>
        /\ phase' \in {"walking", "listed"} \/ (phase' = "error" /\ pos' = "poison")
    <2>1. CASE pos = "head" \/ Len(rows) >= MaxRows
      BY <2>1, LinksAssumption DEF Collect, CollectUpTo
    <2>2. CASE pos = "poison"
      BY <2>2 DEF Collect, CollectUpTo
    <2>3. CASE pos \notin {"head", "poison"} /\ ~ Len(rows) >= MaxRows
      BY <2>3 DEF Collect, CollectUpTo
    <2> QED BY <2>1, <2>2, <2>3
  <1>2. WalkInv'
    BY <1>1, CollectInOrder, CollectTyped DEF LinksInv, WalkInv, Staying
  <1>3. OfferedOpens'
    BY <1>1 DEF OfferedOpens
  <1> QED BY <1>1, <1>2, <1>3, FrameKeeps DEF LinksInv

\* The kernel changes the list and nothing of the frame.
LEMMA KernelKeeps ==
    ASSUME LinksInv, \/ \E i \in DOMAIN content : Remove(i)
                     \/ \E n \in Nodes : Insert(n)
    PROVE  LinksInv'
  <1>1. phase = "walking" /\ UNCHANGED <<frame, phase, followed>>
    BY DEF Remove, Insert
  <1>2. WalkInv'
    BY <1>1, RemoveInOrder, InsertInOrder, RemoveTyped, InsertTyped DEF LinksInv, WalkInv, Staying
  <1>3. OfferedOpens'
    BY <1>1 DEF OfferedOpens
  <1> QED BY <1>1, <1>2, <1>3, FrameKeeps DEF LinksInv

LEMMA ChangeKeeps ==
    ASSUME LinksInv, Change
    PROVE  LinksInv'
  <1>1. phase' = "object" /\ fresh' = FALSE /\ UNCHANGED <<type, offered>>
    BY DEF Change
  <1> QED BY <1>1, NoWalkKeeps DEF LinksInv, OfferInv, OfferedOpens

LEMMA LinksInvariant == LinksSpec => []LinksInv
  <1>1. LinksInit => LinksInv
    <2> SUFFICES ASSUME LinksInit PROVE LinksInv
      OBVIOUS
    <2>1. phase = "object" /\ offered = Offered(type, facts)
      BY DEF LinksInit
    <2> QED BY <2>1 DEF LinksInv, WalkInv, Staying, OfferInv, OfferedOpens, Offered
  <1>2. LinksInv /\ [LinksNext]_linksVars => LinksInv'
    <2> SUFFICES ASSUME LinksInv, [LinksNext]_linksVars PROVE LinksInv'
      OBVIOUS
    <2>1. CASE Open
      BY <2>1, ShowKeeps DEF Open
    <2>2. CASE Change
      BY <2>2, ChangeKeeps
    <2>3. CASE Reload
      BY <2>3, ShowKeeps DEF Reload
    <2>4. CASE Back
      <3>1. phase' = "object" /\ UNCHANGED frame
        BY <2>4 DEF Back
      <3> QED BY <3>1, NoWalkKeeps, FrameKeeps DEF LinksInv, OfferedOpens
    <2>5. CASE Collect
      BY <2>5, CollectKeeps
    <2>6. CASE \E l \in offered : Follow(l)
      BY <2>6, FollowKeeps
    <2>7. CASE (\E i \in DOMAIN content : Remove(i)) \/ (\E n \in Nodes : Insert(n))
      BY <2>7, KernelKeeps
    <2>8. CASE UNCHANGED linksVars
      BY <2>8 DEF linksVars, frame, list, LinksInv, WalkInv, Staying, ListTyped, InOrder, IsAList,
         Untouched, AsAtFirst, Ascends, Rising, OfferInv, OfferedOpens
    <2> QED BY <2>1, <2>2, <2>3, <2>4, <2>5, <2>6, <2>7, <2>8 DEF LinksNext
  <1> QED BY <1>1, <1>2, PTL DEF LinksSpec

\* A list whose entries leave their pointer behind or poisoned when they are taken
\* out is listed without repetition and without strangers, whatever leaves and
\* enters it during the walk, for any number of entries and any limit.
THEOREM ListsAreHonest == LinksSpec => []WalkIsHonest
  <1>1. LinksInv => WalkIsHonest
    BY HonestWalk DEF LinksInv
  <1> QED BY <1>1, LinksInvariant, PTL

\* With the named exceptions, a link that is offered opens: it fails only if the
\* object changed after its row was read.
THEOREM OffersAreKept == LinksSpec => []OfferedOpens
  <1>1. LinksInv => OfferedOpens
    BY DEF LinksInv, OfferInv
  <1> QED BY <1>1, LinksInvariant, PTL

===============================================================================
