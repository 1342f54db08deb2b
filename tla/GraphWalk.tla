------------------------------ MODULE GraphWalk ------------------------------
(***************************************************************************)
(* How a graph is built (build in kexplore/tui/graph.py): the curated      *)
(* links out of a centre are walked breadth first, and only out of the     *)
(* boxes that are open.  A link leads to one object or to a collection; a  *)
(* collection is one box until it is opened, and then a box per member.    *)
(*                                                                         *)
(* The kernel changes while the walk reads it, so what a link resolves to  *)
(* is whatever it is when the walk reaches it.                             *)
(***************************************************************************)
EXTENDS Integers, Sequences

CONSTANTS
    Objects,        \* the kernel objects that links lead to
    Centre,         \* the one the graph is built around
    LinksOf,        \* bound: how many links an object has at most
    MemberLimit,    \* MEMBER_LIMIT
    CountLimit      \* COUNT_LIMIT

ASSUME LimitsAssumption ==
    /\ Centre \in Objects
    /\ LinksOf \in [Objects -> Nat]
    /\ MemberLimit \in Nat \ {0}
    /\ CountLimit \in Nat /\ CountLimit > MemberLimit

\* A box: an object, or for one of an object's links the box of its
\* collection, of the rest of that, or of the error it raised.
Key == [of: Objects, link: Nat, part: {"object", "fan", "more", "error"}]

ObjectKey(o)     == [of |-> o, link |-> 0, part |-> "object"]
LinkKey(o, i, p) == [of |-> o, link |-> i, part |-> p]

VARIABLES
    expanded,   \* the boxes that are open
    frontier,   \* objects whose links are still to be walked
    depth,      \* Graph.nodes: the column of each box
    edges,      \* Graph.edges
    at,         \* the loop the walk is in: "frontier", "links" or "members"
    here,       \* the frontier entry being walked
    link,       \* the number of its links that were reached
    left,       \* members of the collection still to be drawn
    count       \* members the collection has, counted up to CountLimit

vars == <<expanded, frontier, depth, edges, at, here, link, left, count>>

Entry == [of: Objects, level: Nat]
Edge  == [src: Key, dst: Key, back: BOOLEAN]

Boxes == DOMAIN depth
FanKey == LinkKey(here.of, link, "fan")

---------------------------------------------------------------------------
\* A box in a column, and the edge that put it there.
Draw(k, src, column) ==
    /\ depth' = [b \in Boxes \cup {k} |-> IF b = k THEN column ELSE depth[b]]
    /\ edges' = edges \cup {[src |-> src, dst |-> k, back |-> FALSE]}

\* Mistake: an object that is drawn already is moved and walked again.
ReachAgain(o, src, column) ==
    /\ Draw(ObjectKey(o), src, column)
    /\ frontier' = Append(frontier, [of |-> o, level |-> column])

\* Mistake: children are walked before the boxes found earlier.
ReachDeepFirst(o, src, column) ==
    IF ObjectKey(o) \in Boxes
    THEN /\ edges' = edges \cup {[src |-> src, dst |-> ObjectKey(o), back |-> TRUE]}
         /\ UNCHANGED <<depth, frontier>>
    ELSE /\ Draw(ObjectKey(o), src, column)
         /\ frontier' = <<[of |-> o, level |-> column]>> \o frontier

\* An object that is drawn already gets a back edge; a new one is drawn and
\* joins the frontier.
Reach(o, src, column) ==
    IF ObjectKey(o) \in Boxes
    THEN /\ edges' = edges \cup {[src |-> src, dst |-> ObjectKey(o), back |-> TRUE]}
         /\ UNCHANGED <<depth, frontier>>
    ELSE /\ Draw(ObjectKey(o), src, column)
         /\ frontier' = Append(frontier, [of |-> o, level |-> column])

\* The next object of the frontier, passed over if its box is shut.
Visit ==
    /\ at = "frontier" /\ frontier # <<>>
    /\ frontier' = Tail(frontier)
    /\ IF ObjectKey(Head(frontier).of) \in expanded
       THEN here' = Head(frontier) /\ link' = 0 /\ at' = "links"
       ELSE UNCHANGED <<here, link, at>>
    /\ UNCHANGED <<expanded, depth, edges, left, count>>

\* The loop over links_for(current) is at a further link.
AtLink == at = "links" /\ link < LinksOf[here.of] /\ link' = link + 1

\* The link raised: the error is a box.
LinkFails ==
    /\ AtLink
    /\ Draw(LinkKey(here.of, link + 1, "error"), ObjectKey(here.of), here.level + 1)
    /\ UNCHANGED <<expanded, frontier, at, here, left, count>>

\* The collection is empty, or the object is NULL.
LinkLeadsNowhere ==
    /\ AtLink
    /\ UNCHANGED <<expanded, frontier, depth, edges, at, here, left, count>>

\* One object, or a collection with one member
LinkToObject(o) ==
    /\ AtLink
    /\ Reach(o, ObjectKey(here.of), here.level + 1)
    /\ UNCHANGED <<expanded, at, here, left, count>>

\* Mistake: as many members are drawn as _resolve kept.
LinkToCollectionKept(n) ==
    /\ AtLink
    /\ LET fan == LinkKey(here.of, link + 1, "fan")
       IN  /\ Draw(fan, ObjectKey(here.of), here.level + 1)
           /\ IF fan \in expanded
              THEN /\ at' = "members" /\ count' = n
                   /\ left' = IF n <= MemberLimit THEN n ELSE MemberLimit + 1
              ELSE UNCHANGED <<at, count, left>>
    /\ UNCHANGED <<expanded, frontier, here>>

\* A collection of n members, or of at least n if that is the limit: one box,
\* whose members follow if it is open.
LinkToCollection(n) ==
    /\ AtLink
    /\ LET fan == LinkKey(here.of, link + 1, "fan")
       IN  /\ Draw(fan, ObjectKey(here.of), here.level + 1)
           /\ IF fan \in expanded
              THEN /\ at' = "members" /\ count' = n
                   /\ left' = IF n < MemberLimit THEN n ELSE MemberLimit
              ELSE UNCHANGED <<at, count, left>>
    /\ UNCHANGED <<expanded, frontier, here>>

\* The next member of an open collection; a NULL one is passed over.
Member(o) ==
    /\ at = "members" /\ left > 0
    /\ left' = left - 1
    /\ Reach(o, FanKey, here.level + 2)
    /\ UNCHANGED <<expanded, at, here, link, count>>

NullMember ==
    /\ at = "members" /\ left > 0
    /\ left' = left - 1
    /\ UNCHANGED <<expanded, frontier, depth, edges, at, here, link, count>>

\* "rest != 0", where rest is -1 for a count that stopped at the limit
Rest == count = CountLimit \/ count # MemberLimit

\* All members that are drawn one by one are drawn: a box for the rest.
EndMembers ==
    /\ at = "members" /\ left = 0
    /\ at' = "links" /\ count' = 0
    /\ IF Rest THEN Draw(LinkKey(here.of, link, "more"), FanKey, here.level + 2)
               ELSE UNCHANGED <<depth, edges>>
    /\ UNCHANGED <<expanded, frontier, here, link, left>>

EndLinks ==
    /\ at = "links" /\ at' = "frontier" /\ link' = 0
    /\ UNCHANGED <<expanded, frontier, depth, edges, here, left, count>>

---------------------------------------------------------------------------
\* The boxes a user can have opened: objects with links, and collections
Openable ==
    {ObjectKey(o) : o \in {x \in Objects : LinksOf[x] > 0}} \cup
    UNION {{LinkKey(o, i, "fan") : i \in 1..LinksOf[o]} : o \in Objects}

Init ==
    /\ expanded \in SUBSET Openable
    /\ frontier = <<[of |-> Centre, level |-> 0]>>
    /\ depth = [k \in {ObjectKey(Centre)} |-> 0]
    /\ edges = {}
    /\ at = "frontier" /\ here = [of |-> Centre, level |-> 0]
    /\ link = 0 /\ left = 0 /\ count = 0

Next ==
    \/ Visit \/ LinkFails \/ LinkLeadsNowhere \/ EndLinks
    \/ \E o \in Objects : LinkToObject(o) \/ Member(o)
    \/ \E n \in 2..CountLimit : LinkToCollection(n)
    \/ NullMember \/ EndMembers

Spec == Init /\ [][Next]_vars

---------------------------------------------------------------------------
(* Properties *)

\* Every variable has its type.
TypeOK ==
    /\ expanded \subseteq Openable
    /\ frontier \in Seq(Entry)
    /\ Boxes \subseteq Key /\ depth \in [Boxes -> Nat]
    /\ edges \subseteq Edge
    /\ at \in {"frontier", "links", "members"}
    /\ here \in Entry
    /\ link \in 0..LinksOf[here.of]
    /\ left \in 0..MemberLimit
    /\ count \in 0..CountLimit

\* The drawing is a tree of what was reached: an edge joins two boxes, and
\* every box but the centre has exactly one tree edge into it, from the column
\* before its own, so following parents ends at the centre.
TreeDrawn ==
    /\ \A e \in edges : e.src \in Boxes /\ e.dst \in Boxes
    /\ \A e \in edges : ~e.back => /\ e.dst # ObjectKey(Centre)
                                   /\ depth[e.dst] = depth[e.src] + 1
    /\ \A e, f \in edges : ~e.back /\ ~f.back /\ e.dst = f.dst => e = f
    /\ \A k \in Boxes \ {ObjectKey(Centre)} : \E e \in edges : ~e.back /\ e.dst = k

\* An object's links are walked at most once, whatever cycles they form, so
\* the walk ends: no object is on the frontier twice, and none that is has
\* had a link walked.
WalkedOnce ==
    \A i \in 1..Len(frontier) :
        /\ \A j \in 1..Len(frontier) : i # j => frontier[i].of # frontier[j].of
        /\ at # "frontier" => here.of # frontier[i].of
        /\ \A e \in edges : e.src.of # frontier[i].of

\* "Only nodes whose key is in expanded have their links resolved": nothing is
\* reached through a box that is shut.
ShutBoxesHide == \A e \in edges : e.src \in expanded

\* However the objects refer to each other and however they change while they
\* are read, build draws one tree, through open boxes, and walks nothing twice.
DrawnAsTree == TreeDrawn /\ WalkedOnce /\ ShutBoxesHide

\* "the tree edge into a node is the shortest path to it": no edge, drawn or
\* not, would have put a box in an earlier column.
ShortestPaths == \A e \in edges : depth[e.dst] <= depth[e.src] + 1

\* With every collection shut, the columns are shortest paths.
ShortestWhenShut == (\A k \in expanded : k.part # "fan") => ShortestPaths

\* "the rest of" a collection has a box only if there is a rest.
BoxHasRest ==
    [][\A k \in DOMAIN depth' \ Boxes : k.part = "more" => count > MemberLimit]_vars
=============================================================================
