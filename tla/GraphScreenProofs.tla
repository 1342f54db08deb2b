-------------------------- MODULE GraphScreenProofs --------------------------
(***************************************************************************)
(* What the graph screen guarantees for any objects, links and open boxes, *)
(* and any number of builds.  First what a picture is: a tree from the     *)
(* centre in which exactly the links of open boxes are drawn.  Then the    *)
(* screen: until a key is pressed over a late picture, the one build under *)
(* way, or the picture, is of what is open.                                *)
(***************************************************************************)
EXTENDS GraphScreen, Recursion, FiniteSetTheorems, SequenceTheorems

Objects == {k \in Keys : Kind[k] = "object"}
Leads(x, y) == \E i \in DOMAIN Out[x] : Out[x][i] = y

\* Boxes and the boxes they hang from
Parents == UNION {[X -> Keys \cup {None}] : X \in SUBSET Keys}

\* Every box but the centre hangs from an open box that leads to it ...
HangsFromOpen(par, root, open) ==
    /\ root \in DOMAIN par /\ par[root] = None
    /\ \A x \in DOMAIN par \ {root} :
          par[x] \in DOMAIN par \cap open /\ Leads(par[x], x)

\* ... and none from itself.
Ranked(par, root) ==
    \E rank \in [DOMAIN par -> Nat] :
        \A x \in DOMAIN par \ {root} : rank[par[x]] < rank[x]

Walks(root, open) ==
    {w \in [parent: Parents, frontier: Seq(Objects)] :
        /\ HangsFromOpen(w.parent, root, open) /\ Ranked(w.parent, root)
        /\ \A i \in DOMAIN w.frontier : w.frontier[i] \in DOMAIN w.parent}

Drawn(w) == DOMAIN w.parent

\* The links of an open box are drawn when it is neither in the frontier nor
\* one of those that are being walked.
LinksDrawn(w, x) == \A i \in DOMAIN Out[x] : Out[x][i] \in Drawn(w)

Pending(w, open, walked) ==
    \A x \in Drawn(w) \cap open :
        LinksDrawn(w, x) \/ x \in walked \/ \E i \in DOMAIN w.frontier : w.frontier[i] = x

\* Boxes drawn that are not in the frontier: as many as were visited, or more.
Slack(w) == Cardinality(Drawn(w)) - Len(w.frontier)

Extends(v, w) == Drawn(w) \subseteq Drawn(v) /\ Slack(v) >= Slack(w)

---------------------------------------------------------------------------
(* A walk *)

LEMMA WalkTyped ==
    ASSUME NEW root, NEW open, NEW w \in Walks(root, open)
    PROVE  /\ w.parent \in [Drawn(w) -> Keys \cup {None}] /\ Drawn(w) \in SUBSET Keys
           /\ w.frontier \in Seq(Objects) /\ Len(w.frontier) \in Nat
           /\ IsFiniteSet(Drawn(w)) /\ Cardinality(Drawn(w)) \in Nat
           /\ Slack(w) \in Int
           /\ w = [parent |-> w.parent, frontier |-> w.frontier]
  <1>1. w \in [parent: Parents, frontier: Seq(Objects)]
    BY DEF Walks
  <1>2. w.parent \in Parents /\ w.frontier \in Seq(Objects)
        /\ w = [parent |-> w.parent, frontier |-> w.frontier]
    BY <1>1
  <1>3. PICK X \in SUBSET Keys : w.parent \in [X -> Keys \cup {None}]
    BY <1>2 DEF Parents
  <1>4. Drawn(w) = X
    BY <1>3 DEF Drawn
  <1>5. IsFiniteSet(X) /\ Cardinality(X) \in Nat
    BY KeysAssumption, FS_Subset, FS_CardinalityType
  <1>6. Len(w.frontier) \in Nat
    BY <1>2, LenProperties
  <1> QED BY <1>2, <1>3, <1>4, <1>5, <1>6 DEF Slack

LEMMA ExtendsTwice ==
    ASSUME NEW root, NEW open, NEW u \in Walks(root, open), NEW v \in Walks(root, open),
           NEW w \in Walks(root, open), Extends(u, v), Extends(v, w)
    PROVE  Extends(u, w)
  BY WalkTyped DEF Extends

\* Drawing a box that an open box leads to
LEMMA DrawOneKeeps ==
    ASSUME NEW root, NEW open, NEW w \in Walks(root, open), NEW from \in Drawn(w) \cap open,
           NEW box \in Keys, Leads(from, box), NEW walked, Pending(w, open, walked)
    PROVE  LET v == DrawOne(w, box, from)
           IN  /\ v \in Walks(root, open) /\ Extends(v, w) /\ box \in Drawn(v)
               /\ Pending(v, open, walked \cup (IF Kind[box] = "fanout" THEN {box} ELSE {}))
  <1> DEFINE v == DrawOne(w, box, from)
  <1>0. /\ w.parent \in [Drawn(w) -> Keys \cup {None}] /\ Drawn(w) \in SUBSET Keys
        /\ w.frontier \in Seq(Objects) /\ Len(w.frontier) \in Nat
        /\ IsFiniteSet(Drawn(w)) /\ Cardinality(Drawn(w)) \in Nat /\ Slack(w) \in Int
    BY WalkTyped
  <1>1. CASE box \in Drawn(w)
    <2>1. v = w
      BY <1>1 DEF DrawOne, Drawn
    <2>2. Extends(w, w)
      BY <1>0 DEF Extends
    <2> QED BY <1>1, <2>1, <2>2 DEF Pending
  <1>2. CASE box \notin Drawn(w)
    <2> DEFINE par == [b \in Drawn(w) \cup {box} |-> IF b = box THEN from ELSE w.parent[b]]
               front == IF Kind[box] = "object" THEN Append(w.frontier, box) ELSE w.frontier
    <2>1. v = [parent |-> par, frontier |-> front]
      BY <1>2 DEF DrawOne, Drawn
    <2>2. v.parent = par /\ v.frontier = front /\ Drawn(v) = Drawn(w) \cup {box}
      BY <2>1 DEF Drawn
    <2>3. par \in Parents
      <3>1. Drawn(w) \cup {box} \in SUBSET Keys
        BY <1>0
      <3>2. par \in [Drawn(w) \cup {box} -> Keys \cup {None}]
        BY <1>0
      <3> QED BY <3>1, <3>2 DEF Parents
    <2>4. /\ front \in Seq(Objects) /\ Len(front) \in Nat
          /\ Len(front) = IF Kind[box] = "object" THEN Len(w.frontier) + 1 ELSE Len(w.frontier)
          /\ \A i \in DOMAIN w.frontier : i \in DOMAIN front /\ front[i] = w.frontier[i]
          /\ Kind[box] = "object" => Len(front) \in DOMAIN front /\ front[Len(front)] = box
          /\ \A i \in DOMAIN front : front[i] \in Drawn(w) \cup {box}
      <3>0. \A i \in DOMAIN w.frontier : w.frontier[i] \in Drawn(w)
        BY DEF Walks, Drawn
      <3>1. CASE Kind[box] = "object"
        <4>1. box \in Objects
          BY <3>1 DEF Objects
        <4>2. /\ front \in Seq(Objects) /\ Len(front) = Len(w.frontier) + 1
              /\ \A i \in 1..Len(w.frontier) : front[i] = w.frontier[i]
              /\ front[Len(w.frontier) + 1] = box
          BY <1>0, <3>1, <4>1, AppendProperties
        <4>3. DOMAIN front = 1..Len(front) /\ DOMAIN w.frontier = 1..Len(w.frontier)
          BY <1>0, <4>2, LenProperties
        <4> HIDE DEF front
        <4>4. \A i \in DOMAIN front : i \in DOMAIN w.frontier \/ i = Len(w.frontier) + 1
          BY <1>0, <4>2, <4>3
        <4>5. Len(front) \in DOMAIN front
          BY <1>0, <4>2, <4>3
        <4>6. \A i \in DOMAIN w.frontier : i \in DOMAIN front
          BY <1>0, <4>2, <4>3
        <4> QED BY <1>0, <3>0, <3>1, <4>2, <4>3, <4>4, <4>5, <4>6
      <3>2. CASE Kind[box] # "object"
        BY <1>0, <3>0, <3>2
      <3> QED BY <3>1, <3>2
    <2> HIDE DEF front
    <2>5. /\ root \in Drawn(w) /\ w.parent[root] = None
          /\ \A x \in Drawn(w) \ {root} :
                w.parent[x] \in Drawn(w) \cap open /\ Leads(w.parent[x], x)
      BY DEF Walks, HangsFromOpen, Drawn
    <2>6. HangsFromOpen(par, root, open)
      BY <1>2, <2>5 DEF HangsFromOpen
    <2>7. Ranked(par, root)
      <3>1. PICK rank \in [Drawn(w) -> Nat] :
                \A x \in Drawn(w) \ {root} : rank[w.parent[x]] < rank[x]
        BY DEF Walks, Ranked, Drawn
      <3> DEFINE new == [b \in Drawn(w) \cup {box} |-> IF b = box THEN rank[from] + 1 ELSE rank[b]]
      <3>2. new \in [DOMAIN par -> Nat]
        OBVIOUS
      <3>3. \A x \in DOMAIN par \ {root} : new[par[x]] < new[x]
        BY <1>2, <2>5, <3>1
      <3> HIDE DEF new
      <3> QED BY <3>2, <3>3 DEF Ranked
    <2>8. v \in Walks(root, open)
      <3>1. v \in [parent: Parents, frontier: Seq(Objects)]
        BY <2>1, <2>3, <2>4
      <3>2. \A i \in DOMAIN v.frontier : v.frontier[i] \in DOMAIN v.parent
        BY <2>2, <2>4 DEF Drawn
      <3> QED BY <2>2, <2>6, <2>7, <3>1, <3>2 DEF Walks
    <2>9. Extends(v, w)
      <3>1. Cardinality(Drawn(v)) = Cardinality(Drawn(w)) + 1
        <4> DEFINE D == Drawn(w)
        <4>1. IsFiniteSet(D) /\ box \notin D /\ Drawn(v) = D \cup {box}
          BY <1>0, <1>2, <2>2
        <4> HIDE DEF D, v
        <4>2. Cardinality(D \cup {box}) = Cardinality(D) + 1
          BY <4>1, FS_AddElement
        <4> QED BY <4>1, <4>2 DEF D
      <3>2. Len(v.frontier) <= Len(w.frontier) + 1 /\ Len(v.frontier) \in Nat
        <4>1. v.frontier = front
          BY <2>2
        <4> HIDE DEF v
        <4>2. CASE Kind[box] = "object"
          BY <1>0, <2>4, <4>1, <4>2
        <4>3. CASE Kind[box] # "object"
          BY <1>0, <2>4, <4>1, <4>3
        <4> QED BY <4>2, <4>3
      <3>3. Slack(v) >= Slack(w)
        BY <1>0, <3>1, <3>2 DEF Slack
      <3> QED BY <2>2, <3>3 DEF Extends
    <2>10. Pending(v, open, walked \cup (IF Kind[box] = "fanout" THEN {box} ELSE {}))
      <3> SUFFICES ASSUME NEW x \in Drawn(v) \cap open
                   PROVE  \/ LinksDrawn(v, x)
                          \/ x \in walked \cup (IF Kind[box] = "fanout" THEN {box} ELSE {})
                          \/ \E i \in DOMAIN v.frontier : v.frontier[i] = x
        BY DEF Pending
      <3>1. CASE x \in Drawn(w)
        <4>1. \/ LinksDrawn(w, x) \/ x \in walked
              \/ \E i \in DOMAIN w.frontier : w.frontier[i] = x
          BY <3>1 DEF Pending
        <4>2. LinksDrawn(w, x) => LinksDrawn(v, x)
          BY <2>2 DEF LinksDrawn
        <4> QED BY <2>2, <2>4, <4>1, <4>2
      <3>2. CASE x = box /\ Kind[box] = "object"
        BY <2>2, <2>4, <3>2
      <3>3. CASE x = box /\ Kind[box] = "fanout"
        BY <3>3
      <3>4. CASE x = box /\ Kind[box] = "more"
        <4>1. Out[x] = <<>>
          BY <3>4, KeysAssumption
        <4> QED BY <4>1 DEF LinksDrawn
      <3> QED BY <2>2, <3>1, <3>2, <3>3, <3>4, KeysAssumption
    <2> QED BY <2>2, <2>8, <2>9, <2>10
  <1> QED BY <1>1, <1>2

---------------------------------------------------------------------------
(* Its loops *)

LEMMA OutTyped ==
    ASSUME NEW k \in Keys
    PROVE  /\ Out[k] \in Seq(Keys) /\ Len(Out[k]) \in Nat /\ DOMAIN Out[k] = 1..Len(Out[k])
           /\ \A i \in 1..Len(Out[k]) : Out[k][i] \in Keys /\ Leads(k, Out[k][i])
  <1>1. Out[k] \in Seq(Keys)
    BY KeysAssumption
  <1>2. Len(Out[k]) \in Nat /\ DOMAIN Out[k] = 1..Len(Out[k])
        /\ \A i \in 1..Len(Out[k]) : Out[k][i] \in Keys
    BY <1>1, LenProperties, ElementOfSeq
  <1> QED BY <1>1, <1>2 DEF Leads

\* The members of a collection that is open
LEMMA DrawMembersKeeps ==
    ASSUME NEW root, NEW open, NEW w \in Walks(root, open), NEW fan \in Drawn(w) \cap open,
           Kind[fan] = "fanout", NEW walked, Pending(w, open, walked \cup {fan})
    PROVE  LET v == DrawMembers(w, fan)
           IN  v \in Walks(root, open) /\ Extends(v, w) /\ Pending(v, open, walked)
  <1> DEFINE n == Len(Out[fan])
             S == {v \in Walks(root, open) : Extends(v, w) /\ Pending(v, open, walked \cup {fan})}
             Rec(f) == f = [i \in 0..n |->
                 IF i = 0 THEN w ELSE DrawOne(f[i - 1], Out[fan][i], fan)]
             drawn == CHOOSE f : Rec(f)
             step == [i \in 1..n |-> [v \in S |-> DrawOne(v, Out[fan][i], fan)]]
  <1>1. DrawMembers(w, fan) = drawn[n]
    BY DEF DrawMembers
  <1>2. /\ n \in Nat /\ DOMAIN Out[fan] = 1..n
        /\ \A i \in 1..n : Out[fan][i] \in Keys /\ Leads(fan, Out[fan][i])
                           /\ Kind[Out[fan][i]] # "fanout"
    <2>1. fan \in Keys
      BY WalkTyped
    <2> QED BY <2>1, OutTyped, KeysAssumption
  <1> HIDE DEF n
  <1>3. w \in S
    <2>1. Extends(w, w)
      BY WalkTyped DEF Extends
    <2> QED BY <2>1
  <1>4. ASSUME NEW v \in S, NEW i \in 1..n
        PROVE  DrawOne(v, Out[fan][i], fan) \in S /\ Out[fan][i] \in Drawn(DrawOne(v, Out[fan][i], fan))
               /\ Extends(DrawOne(v, Out[fan][i], fan), v)
    <2> DEFINE box == Out[fan][i]
    <2>1. fan \in Drawn(v) \cap open /\ box \in Keys /\ Leads(fan, box) /\ Kind[box] # "fanout"
      BY <1>2 DEF Extends
    <2> HIDE DEF box
    <2>2. /\ DrawOne(v, box, fan) \in Walks(root, open) /\ Extends(DrawOne(v, box, fan), v)
          /\ box \in Drawn(DrawOne(v, box, fan))
          /\ Pending(DrawOne(v, box, fan), open, walked \cup {fan})
      <3> DEFINE u == DrawOne(v, box, fan)  W == walked \cup {fan}
      <3>1. Pending(v, open, W)
        OBVIOUS
      <3> HIDE DEF W
      <3>2. /\ u \in Walks(root, open) /\ Extends(u, v) /\ box \in Drawn(u)
            /\ Pending(u, open, W \cup (IF Kind[box] = "fanout" THEN {box} ELSE {}))
        BY <2>1, <3>1, DrawOneKeeps
      <3>3. W \cup (IF Kind[box] = "fanout" THEN {box} ELSE {}) = W
        BY <2>1
      <3> HIDE DEF u
      <3>4. Pending(u, open, W)
        BY <3>2, <3>3
      <3> QED BY <3>2, <3>4 DEF u, W
    <2>3. Extends(DrawOne(v, box, fan), w)
      BY <2>2, ExtendsTwice
    <2> QED BY <2>2, <2>3 DEF box
  <1>5. \E f \in [0..n -> S] : Rec(f)
    <2>1. step \in [1..n -> [S -> S]]
      BY <1>4
    <2>2. PICK f \in [0..n -> S] : GoesOn(f, n, w, step)
      <3> HIDE DEF step, S
      <3> QED BY <1>2, <1>3, <2>1, RecursionExists, Zenon
    <2>3. \A i \in 0..n : f[i] = IF i = 0 THEN w ELSE DrawOne(f[i - 1], Out[fan][i], fan)
      <3> TAKE i \in 0..n
      <3>1. CASE i = 0
        BY <2>2, <3>1 DEF GoesOn
      <3>2. CASE i # 0
        <4>1. i \in 1..n /\ i - 1 \in 0..n
          BY <1>2, <3>2
        <4>2. f[i - 1] \in S
          BY <2>2, <4>1
        <4>3. step[i][f[i - 1]] = DrawOne(f[i - 1], Out[fan][i], fan)
          BY <4>1, <4>2
        <4>4. f[i] = step[i][f[i - 1]]
          BY <2>2, <3>2, <4>1 DEF GoesOn
        <4> QED BY <3>2, <4>3, <4>4
      <3> QED BY <3>1, <3>2
    <2>4. f = [i \in 0..n |-> f[i]]
      BY <2>2
    <2> QED BY <2>2, <2>3, <2>4
  <1>6. Rec(drawn)
    BY <1>5
  <1> HIDE DEF drawn
  <1>7. drawn[n] \in S /\ \A j \in 1..n : Out[fan][j] \in Drawn(drawn[n])
    <2> DEFINE P == {i \in 0..n : drawn[i] \in S /\ \A j \in 1..i : Out[fan][j] \in Drawn(drawn[i])}
    <2>1. 0 \in P
      BY <1>2, <1>3, <1>6
    <2>2. ASSUME NEW i \in 1..n, i - 1 \in P PROVE i \in P
      <3>1. i \in 0..n /\ drawn[i] = DrawOne(drawn[i - 1], Out[fan][i], fan)
        <4>1. i \in 0..n /\ i # 0
          BY <1>2
        <4> HIDE DEF S, step
        <4> QED BY <1>6, <4>1
      <3>2. /\ drawn[i] \in S /\ Out[fan][i] \in Drawn(drawn[i])
            /\ Extends(drawn[i], drawn[i - 1])
        <4> HIDE DEF S
        <4>1. drawn[i - 1] \in S
          BY <2>2
        <4> QED BY <1>4, <3>1, <4>1
      <3>3. \A j \in 1..i : j \in 1..(i - 1) \/ j = i
        BY <1>2
      <3>4. Drawn(drawn[i - 1]) \subseteq Drawn(drawn[i])
        BY <3>2 DEF Extends
      <3> HIDE DEF S
      <3> QED BY <2>2, <3>1, <3>2, <3>3, <3>4
    <2> HIDE DEF P
    <2>3. \A i \in 0..n : i \in P
      BY <1>2, <2>1, <2>2, UpTo, Zenon
    <2>4. n \in P
      BY <1>2, <2>3
    <2> QED BY <2>4 DEF P
  <1>8. Pending(drawn[n], open, walked)
    <2>1. LinksDrawn(drawn[n], fan)
      BY <1>2, <1>7 DEF LinksDrawn
    <2> QED BY <1>7, <2>1 DEF Pending
  <1> QED BY <1>1, <1>7, <1>8

\* A link of a box that is being walked
LEMMA DrawLinkKeeps ==
    ASSUME NEW root, NEW open, NEW w \in Walks(root, open), NEW k \in Drawn(w) \cap open,
           Kind[k] = "object", NEW box \in Keys, Leads(k, box), Pending(w, open, {k})
    PROVE  LET v == DrawLink(w, box, k, open)
           IN  /\ v \in Walks(root, open) /\ Extends(v, w) /\ Pending(v, open, {k})
               /\ box \in Drawn(v)
  <1> DEFINE u == DrawOne(w, box, k)
  <1>1. /\ u \in Walks(root, open) /\ Extends(u, w) /\ box \in Drawn(u)
        /\ Pending(u, open, {k} \cup (IF Kind[box] = "fanout" THEN {box} ELSE {}))
    BY DrawOneKeeps
  <1>2. DrawLink(w, box, k, open) =
            IF Kind[box] = "fanout" /\ box \in open THEN DrawMembers(u, box) ELSE u
    BY DEF DrawLink
  <1> HIDE DEF u
  <1>3. CASE Kind[box] = "fanout" /\ box \in open
    <2> DEFINE v == DrawMembers(u, box)
    <2>1. Pending(u, open, {k} \cup {box})
      BY <1>1, <1>3
    <2>2. v \in Walks(root, open) /\ Extends(v, u) /\ Pending(v, open, {k})
      BY <1>1, <1>3, <2>1, DrawMembersKeeps
    <2> HIDE DEF v
    <2>3. Extends(v, w) /\ box \in Drawn(v)
      BY <1>1, <2>2, ExtendsTwice DEF Extends
    <2> QED BY <1>2, <1>3, <2>2, <2>3 DEF v
  <1>4. CASE ~ (Kind[box] = "fanout" /\ box \in open)
    <2>1. Pending(u, open, {k})
      BY <1>1, <1>4 DEF Pending
    <2> QED BY <1>1, <1>2, <1>4, <2>1
  <1> QED BY <1>3, <1>4

\* The links of an open box
LEMMA FollowKeeps ==
    ASSUME NEW root, NEW open, NEW w \in Walks(root, open), NEW k \in Drawn(w) \cap open,
           Kind[k] = "object", Pending(w, open, {k})
    PROVE  LET v == Follow(w, k, open)
           IN  v \in Walks(root, open) /\ Extends(v, w) /\ Pending(v, open, {})
  <1> DEFINE n == Len(Out[k])
             S == {v \in Walks(root, open) : Extends(v, w) /\ Pending(v, open, {k})}
             Rec(f) == f = [i \in 0..n |->
                 IF i = 0 THEN w ELSE DrawLink(f[i - 1], Out[k][i], k, open)]
             followed == CHOOSE f : Rec(f)
             step == [i \in 1..n |-> [v \in S |-> DrawLink(v, Out[k][i], k, open)]]
  <1>1. Follow(w, k, open) = followed[n]
    BY DEF Follow
  <1>2. /\ n \in Nat /\ DOMAIN Out[k] = 1..n
        /\ \A i \in 1..n : Out[k][i] \in Keys /\ Leads(k, Out[k][i])
    <2>1. k \in Keys
      BY WalkTyped
    <2> QED BY <2>1, OutTyped
  <1> HIDE DEF n
  <1>3. w \in S
    <2>1. Extends(w, w)
      BY WalkTyped DEF Extends
    <2> QED BY <2>1
  <1>4. ASSUME NEW v \in S, NEW i \in 1..n
        PROVE  /\ DrawLink(v, Out[k][i], k, open) \in S
               /\ Out[k][i] \in Drawn(DrawLink(v, Out[k][i], k, open))
               /\ Extends(DrawLink(v, Out[k][i], k, open), v)
    <2> DEFINE box == Out[k][i]
               u == DrawLink(v, box, k, open)
    <2>1. k \in Drawn(v) \cap open /\ box \in Keys /\ Leads(k, box)
      BY <1>2 DEF Extends
    <2> HIDE DEF box
    <2>2. u \in Walks(root, open) /\ Extends(u, v) /\ box \in Drawn(u) /\ Pending(u, open, {k})
      BY <2>1, DrawLinkKeeps
    <2> HIDE DEF u
    <2>3. Extends(u, w)
      BY <2>2, ExtendsTwice
    <2> QED BY <2>2, <2>3 DEF box, u
  <1>5. \E f \in [0..n -> S] : Rec(f)
    <2>1. step \in [1..n -> [S -> S]]
      BY <1>4
    <2>2. PICK f \in [0..n -> S] : GoesOn(f, n, w, step)
      <3> HIDE DEF step, S
      <3> QED BY <1>2, <1>3, <2>1, RecursionExists, Zenon
    <2>3. \A i \in 0..n : f[i] = IF i = 0 THEN w ELSE DrawLink(f[i - 1], Out[k][i], k, open)
      <3> TAKE i \in 0..n
      <3>1. CASE i = 0
        BY <2>2, <3>1 DEF GoesOn
      <3>2. CASE i # 0
        <4>1. i \in 1..n /\ i - 1 \in 0..n
          BY <1>2, <3>2
        <4>2. f[i - 1] \in S
          BY <2>2, <4>1
        <4>3. step[i][f[i - 1]] = DrawLink(f[i - 1], Out[k][i], k, open)
          BY <4>1, <4>2
        <4>4. f[i] = step[i][f[i - 1]]
          BY <2>2, <3>2, <4>1 DEF GoesOn
        <4> QED BY <3>2, <4>3, <4>4
      <3> QED BY <3>1, <3>2
    <2>4. f = [i \in 0..n |-> f[i]]
      BY <2>2
    <2> QED BY <2>2, <2>3, <2>4
  <1>6. Rec(followed)
    BY <1>5
  <1> HIDE DEF followed
  <1>7. followed[n] \in S /\ \A j \in 1..n : Out[k][j] \in Drawn(followed[n])
    <2> DEFINE P == {i \in 0..n : /\ followed[i] \in S
                                  /\ \A j \in 1..i : Out[k][j] \in Drawn(followed[i])}
    <2>1. 0 \in P
      BY <1>2, <1>3, <1>6
    <2>2. ASSUME NEW i \in 1..n, i - 1 \in P PROVE i \in P
      <3>1. i \in 0..n /\ followed[i] = DrawLink(followed[i - 1], Out[k][i], k, open)
        <4>1. i \in 0..n /\ i # 0
          BY <1>2
        <4> HIDE DEF S, step
        <4> QED BY <1>6, <4>1
      <3>2. /\ followed[i] \in S /\ Out[k][i] \in Drawn(followed[i])
            /\ Extends(followed[i], followed[i - 1])
        <4> HIDE DEF S
        <4>1. followed[i - 1] \in S
          BY <2>2
        <4> QED BY <1>4, <3>1, <4>1
      <3>3. \A j \in 1..i : j \in 1..(i - 1) \/ j = i
        BY <1>2
      <3>4. Drawn(followed[i - 1]) \subseteq Drawn(followed[i])
        BY <3>2 DEF Extends
      <3> HIDE DEF S
      <3> QED BY <2>2, <3>1, <3>2, <3>3, <3>4
    <2> HIDE DEF P
    <2>3. \A i \in 0..n : i \in P
      BY <1>2, <2>1, <2>2, UpTo, Zenon
    <2>4. n \in P
      BY <1>2, <2>3
    <2> QED BY <2>4 DEF P
  <1>8. Pending(followed[n], open, {})
    <2>1. LinksDrawn(followed[n], k)
      BY <1>2, <1>7 DEF LinksDrawn
    <2> QED BY <1>7, <2>1 DEF Pending
  <1> QED BY <1>1, <1>7, <1>8

\* An entry of the frontier: one box more is behind the walk, unless there is
\* none left.
LEMMA VisitKeeps ==
    ASSUME NEW root, NEW open, NEW w \in Walks(root, open), Pending(w, open, {})
    PROVE  LET v == Visit(w, open)
           IN  /\ v \in Walks(root, open) /\ Pending(v, open, {})
               /\ IF w.frontier = <<>> THEN v = w ELSE Slack(v) >= Slack(w) + 1
  <1>1. CASE w.frontier = <<>>
    BY <1>1 DEF Visit
  <1>2. CASE w.frontier # <<>>
    <2> DEFINE k == Head(w.frontier)
               front == Tail(w.frontier)
               rest == [w EXCEPT !.frontier = front]
               v == Visit(w, open)
    <2>1. v = IF k \in open THEN Follow(rest, k, open) ELSE rest
      BY <1>2 DEF Visit
    <2>2. /\ w.parent \in [Drawn(w) -> Keys \cup {None}] /\ Drawn(w) \in SUBSET Keys
          /\ w.frontier \in Seq(Objects) /\ Len(w.frontier) \in Nat
          /\ IsFiniteSet(Drawn(w)) /\ Cardinality(Drawn(w)) \in Nat /\ Slack(w) \in Int
          /\ w = [parent |-> w.parent, frontier |-> w.frontier]
      BY WalkTyped
    <2>3. /\ front \in Seq(Objects) /\ Len(front) = Len(w.frontier) - 1
          /\ \A i \in 1..Len(front) : front[i] = w.frontier[i + 1]
          /\ k = w.frontier[1] /\ k \in Objects /\ Len(w.frontier) \in Nat \ {0}
          /\ DOMAIN front = 1..Len(front) /\ DOMAIN w.frontier = 1..Len(w.frontier)
      BY <1>2, <2>2, HeadTailProperties, EmptySeq, LenProperties
    <2>4. rest = [parent |-> w.parent, frontier |-> front]
      <3>1. w \in [parent: Parents, frontier: Seq(Objects)]
        BY DEF Walks
      <3> HIDE DEF front
      <3> QED BY <3>1
    <2> HIDE DEF v, rest, front, k
    <2>5. rest.parent = w.parent /\ rest.frontier = front /\ Drawn(rest) = Drawn(w)
      BY <2>4 DEF Drawn
    <2>6. k \in Drawn(w) /\ Kind[k] = "object"
      BY <2>3 DEF Walks, Drawn, Objects
    <2>7. \A i \in DOMAIN front : i + 1 \in DOMAIN w.frontier
      BY <2>3
    <2>8. rest \in Walks(root, open)
      <3>1. rest \in [parent: Parents, frontier: Seq(Objects)]
        <4>1. w.parent \in Parents
          BY DEF Walks
        <4> QED BY <2>3, <2>4, <4>1
      <3>2. \A i \in DOMAIN w.frontier : w.frontier[i] \in DOMAIN w.parent
        BY DEF Walks
      <3>3. \A i \in DOMAIN rest.frontier : rest.frontier[i] \in DOMAIN rest.parent
        BY <2>3, <2>5, <2>7, <3>2
      <3>4. HangsFromOpen(rest.parent, root, open) /\ Ranked(rest.parent, root)
        BY <2>5 DEF Walks
      <3> QED BY <3>1, <3>3, <3>4 DEF Walks
    <2>9. Slack(rest) = Slack(w) + 1
      BY <2>2, <2>3, <2>5 DEF Slack
    <2>10. Pending(rest, open, {k})
      <3> SUFFICES ASSUME NEW x \in Drawn(w) \cap open, ~ LinksDrawn(w, x), x # k
                   PROVE  \E i \in DOMAIN front : front[i] = x
        BY <2>5 DEF Pending, LinksDrawn
      <3>1. PICK i \in DOMAIN w.frontier : w.frontier[i] = x
        BY DEF Pending
      <3>2. i # 1
        BY <2>3, <3>1
      <3>3. i - 1 \in DOMAIN front /\ i - 1 + 1 = i /\ i - 1 \in 1..Len(front)
        BY <2>2, <2>3, <3>1, <3>2
      <3>4. front[i - 1] = w.frontier[i]
        BY <2>3, <3>3
      <3> QED BY <3>1, <3>3, <3>4
    <2>11. CASE k \in open
      <3>1. v = Follow(rest, k, open) /\ k \in Drawn(rest) \cap open
        BY <2>1, <2>5, <2>6, <2>11
      <3>2. v \in Walks(root, open) /\ Extends(v, rest) /\ Pending(v, open, {})
        BY <2>6, <2>8, <2>10, <3>1, FollowKeeps
      <3>3. Slack(v) >= Slack(w) + 1
        BY <2>9, <3>2 DEF Extends
      <3> QED BY <1>2, <3>2, <3>3 DEF v
    <2>12. CASE k \notin open
      <3>1. v = rest
        BY <2>1, <2>12
      <3>2. Pending(rest, open, {})
        BY <2>10, <2>12 DEF Pending
      <3>3. Slack(rest) >= Slack(w) + 1
        BY <2>2, <2>9
      <3> QED BY <1>2, <2>8, <3>1, <3>2, <3>3 DEF v
    <2> QED BY <2>11, <2>12
  <1> QED BY <1>1, <1>2

---------------------------------------------------------------------------
(* A picture *)

\* A tree from the centre with every link of an open box, and no others
IsPicture(g, root, open) ==
    /\ g.root = root
    /\ Boxes(g) \in SUBSET Keys /\ g.parent \in [Boxes(g) -> Keys \cup {None}]
    /\ HangsFromOpen(g.parent, root, open) /\ Ranked(g.parent, root)
    /\ \A x \in Boxes(g) \cap open : \A i \in DOMAIN Out[x] : Out[x][i] \in Boxes(g)

\* As many visits as there are boxes empty the frontier.
LEMMA BuildDraws ==
    ASSUME NEW root \in Objects, NEW open
    PROVE  IsPicture(Build(root, open), root, open)
  <1> DEFINE n == Cardinality(Keys)
             S == {w \in Walks(root, open) : Pending(w, open, {})}
             centre == [parent |-> [b \in {root} |-> None], frontier |-> <<root>>]
             Rec(f) == f = [i \in 0..n |-> IF i = 0 THEN centre ELSE Visit(f[i - 1], open)]
             walk == CHOOSE f : Rec(f)
             step == [i \in 1..n |-> [w \in S |-> Visit(w, open)]]
  <1>1. Build(root, open) = [root |-> root, parent |-> walk[n].parent]
    BY DEF Build
  <1>2. n \in Nat /\ root \in Keys /\ IsFiniteSet(Keys)
    BY KeysAssumption, FS_CardinalityType DEF Objects
  <1> HIDE DEF n
  <1>3. centre \in S /\ Slack(centre) = 0
    <2>1. /\ centre.parent = [b \in {root} |-> None] /\ centre.frontier = <<root>>
          /\ Drawn(centre) = {root}
      BY DEF Drawn
    <2>2. centre.parent \in Parents
      BY <1>2, <2>1 DEF Parents
    <2>3. HangsFromOpen(centre.parent, root, open)
      BY <2>1 DEF HangsFromOpen, Drawn
    <2>4. Ranked(centre.parent, root)
      <3> DEFINE rank == [b \in {root} |-> 0]
      <3>1. rank \in [DOMAIN centre.parent -> Nat] /\ DOMAIN centre.parent \ {root} = {}
        BY <2>1
      <3> HIDE DEF rank
      <3> QED BY <3>1 DEF Ranked
    <2>5. <<root>> \in Seq(Objects) /\ DOMAIN <<root>> = {1} /\ <<root>>[1] = root
          /\ Len(<<root>>) = 1
      OBVIOUS
    <2>6. centre \in Walks(root, open)
      <3>1. centre \in [parent: Parents, frontier: Seq(Objects)]
        BY <2>1, <2>2, <2>5
      <3>2. \A i \in DOMAIN centre.frontier : centre.frontier[i] \in DOMAIN centre.parent
        BY <2>1, <2>5
      <3> HIDE DEF centre
      <3> QED BY <2>3, <2>4, <3>1, <3>2 DEF Walks
    <2>7. Pending(centre, open, {})
      BY <2>1, <2>5 DEF Pending
    <2>8. Cardinality({root}) = 1
      BY FS_Singleton
    <2> QED BY <2>1, <2>5, <2>6, <2>7, <2>8 DEF Slack
  <1> HIDE DEF centre
  <1>4. \E f \in [0..n -> S] : Rec(f)
    <2>1. step \in [1..n -> [S -> S]]
      BY VisitKeeps
    <2>2. PICK f \in [0..n -> S] : GoesOn(f, n, centre, step)
      <3> HIDE DEF step, S
      <3> QED BY <1>2, <1>3, <2>1, RecursionExists, Zenon
    <2>3. \A i \in 0..n : f[i] = IF i = 0 THEN centre ELSE Visit(f[i - 1], open)
      <3> TAKE i \in 0..n
      <3>1. CASE i = 0
        BY <2>2, <3>1 DEF GoesOn
      <3>2. CASE i # 0
        <4>1. i \in 1..n /\ i - 1 \in 0..n
          BY <1>2, <3>2
        <4>2. f[i - 1] \in S
          BY <2>2, <4>1
        <4>3. step[i][f[i - 1]] = Visit(f[i - 1], open)
          BY <4>1, <4>2
        <4>4. f[i] = step[i][f[i - 1]]
          BY <2>2, <3>2, <4>1 DEF GoesOn
        <4> QED BY <3>2, <4>3, <4>4
      <3> QED BY <3>1, <3>2
    <2>4. f = [i \in 0..n |-> f[i]]
      BY <2>2
    <2> QED BY <2>2, <2>3, <2>4
  <1>5. Rec(walk)
    BY <1>4
  <1> HIDE DEF walk
  <1>6. walk[n] \in S /\ (walk[n].frontier = <<>> \/ Slack(walk[n]) >= n)
    <2> DEFINE P == {i \in 0..n : /\ walk[i] \in S
                                  /\ walk[i].frontier = <<>> \/ Slack(walk[i]) >= i}
    <2>1. 0 \in P
      BY <1>2, <1>3, <1>5
    <2>2. ASSUME NEW i \in 1..n, i - 1 \in P PROVE i \in P
      <3>1. i \in 0..n /\ walk[i] = Visit(walk[i - 1], open)
        <4>1. i \in 0..n /\ i # 0
          BY <1>2
        <4> HIDE DEF S, step
        <4> QED BY <1>5, <4>1
      <3>2. walk[i - 1] \in S
            /\ (walk[i - 1].frontier = <<>> \/ Slack(walk[i - 1]) >= i - 1)
        BY <2>2
      <3>3. /\ walk[i] \in S
            /\ IF walk[i - 1].frontier = <<>> THEN walk[i] = walk[i - 1]
               ELSE Slack(walk[i]) >= Slack(walk[i - 1]) + 1
        BY <3>1, <3>2, VisitKeeps
      <3>4. Slack(walk[i]) \in Int /\ Slack(walk[i - 1]) \in Int
        BY <3>2, <3>3, WalkTyped
      <3> HIDE DEF S
      <3>5. walk[i].frontier = <<>> \/ Slack(walk[i]) >= i
        BY <1>2, <3>2, <3>3, <3>4
      <3> QED BY <3>1, <3>3, <3>5
    <2> HIDE DEF P
    <2>3. \A i \in 0..n : i \in P
      BY <1>2, <2>1, <2>2, UpTo, Zenon
    <2>4. n \in P
      BY <1>2, <2>3
    <2> QED BY <2>4 DEF P
  <1> DEFINE w == walk[n]
  <1>7. w \in Walks(root, open) /\ Pending(w, open, {}) /\ (w.frontier = <<>> \/ Slack(w) >= n)
    BY <1>6
  <1> HIDE DEF w
  <1>8. w.frontier = <<>>
    <2> SUFFICES ASSUME Slack(w) >= n PROVE w.frontier = <<>>
      BY <1>7
    <2>1. /\ Drawn(w) \in SUBSET Keys /\ Cardinality(Drawn(w)) \in Nat
          /\ w.frontier \in Seq(Objects) /\ Len(w.frontier) \in Nat
      BY <1>7, WalkTyped
    <2>2. Cardinality(Drawn(w)) <= n
      BY <1>2, <2>1, FS_Subset DEF n
    <2>3. Len(w.frontier) = 0
      BY <1>2, <2>1, <2>2 DEF Slack
    <2> QED BY <2>1, <2>3, EmptySeq
  <1>9. \A x \in Drawn(w) \cap open : LinksDrawn(w, x)
    BY <1>7, <1>8 DEF Pending
  <1> DEFINE g == Build(root, open)
  <1>10. g.root = root /\ g.parent = w.parent /\ Boxes(g) = Drawn(w)
    BY <1>1 DEF w, Boxes, Drawn
  <1>11. /\ w.parent \in [Drawn(w) -> Keys \cup {None}] /\ Drawn(w) \in SUBSET Keys
         /\ HangsFromOpen(w.parent, root, open) /\ Ranked(w.parent, root)
    BY <1>7, WalkTyped DEF Walks
  <1> HIDE DEF g
  <1>12. IsPicture(g, root, open)
    BY <1>9, <1>10, <1>11 DEF IsPicture, LinksDrawn
  <1> QED BY <1>12 DEF g

---------------------------------------------------------------------------
(* The way to the centre *)

\* A set of boxes with the boxes they hang from
Upwards(g, T) == \A b \in T : Parent(g, b) \in T \cup {None}

\* Of as many steps up as there are boxes the last adds no box any more: the
\* way is the least set of boxes above k.  Its boxes are open, and k is not
\* among them.
LEMMA PathIsLeast ==
    ASSUME NEW g, NEW root, NEW open, IsPicture(g, root, open), NEW k \in Boxes(g)
    PROVE  LET A == PathToRoot(g, k)
           IN  /\ A \subseteq Boxes(g) \cap open /\ k \notin A
               /\ Upwards(g, A) /\ Parent(g, k) \in A \cup {None}
               /\ \A T \in SUBSET Keys :
                     Upwards(g, T) /\ Parent(g, k) \in T \cup {None} => A \subseteq T
  <1>1. /\ Boxes(g) \in SUBSET Keys /\ g.parent \in [Boxes(g) -> Keys \cup {None}]
        /\ DOMAIN g.parent = Boxes(g) /\ None \notin Boxes(g)
        /\ g.parent[root] = None /\ root \in Boxes(g)
        /\ \A x \in Boxes(g) \ {root} : g.parent[x] \in Boxes(g) \cap open
    BY KeysAssumption DEF IsPicture, HangsFromOpen, Boxes
  <1>2. PICK rank \in [Boxes(g) -> Nat] :
            \A x \in Boxes(g) \ {root} : rank[g.parent[x]] < rank[x]
    BY DEF IsPicture, Ranked, Boxes
  <1>3. /\ Parent(g, None) = None
        /\ \A x \in Boxes(g) : Parent(g, x) = None \/
              (Parent(g, x) \in Boxes(g) \cap open /\ rank[Parent(g, x)] < rank[x])
    BY <1>1, <1>2 DEF Parent
  <1> DEFINE n == Cardinality(Keys)
             All == Keys \cup {None}
             next(U) == U \cup {Parent(g, b) : b \in U}
             Above(T) == Upwards(g, T) /\ Parent(g, k) \in T \cup {None}
             S == {U \in SUBSET All :
                      /\ Parent(g, k) \in U /\ U \ {None} \subseteq Boxes(g) \cap open
                      /\ \A b \in U \ {None} : rank[b] < rank[k]
                      /\ \A T \in SUBSET Keys : Above(T) => U \subseteq T \cup {None}}
             first == {Parent(g, k)}
             Rec(f) == f = [i \in 0..n |-> IF i = 0 THEN first ELSE next(f[i - 1])]
             up == CHOOSE f : Rec(f)
             step == [i \in 1..n |-> [U \in S |-> next(U)]]
  <1>4. PathToRoot(g, k) = up[n] \ {None}
    BY DEF PathToRoot
  <1>5. /\ n \in Nat /\ IsFiniteSet(All) /\ Cardinality(All) = n + 1
    BY KeysAssumption, FS_CardinalityType, FS_AddElement
  <1> HIDE DEF n
  <1>6. first \in S
    <2>1. first \in SUBSET All /\ first \ {None} \subseteq Boxes(g) \cap open
      BY <1>1, <1>3
    <2>2. \A b \in first \ {None} : rank[b] < rank[k]
      BY <1>3
    <2> QED BY <2>1, <2>2
  <1>7. ASSUME NEW U \in S PROVE next(U) \in S
    <2>1. \A b \in U : b = None \/ b \in Boxes(g)
      OBVIOUS
    <2>2. \A c \in next(U) : c \in U \/ c = None
              \/ \E b \in U \ {None} : c = Parent(g, b) /\ c \in Boxes(g) \cap open
                                       /\ rank[c] < rank[b]
      BY <1>3, <2>1
    <2>3. next(U) \in SUBSET All /\ Parent(g, k) \in next(U)
          /\ next(U) \ {None} \subseteq Boxes(g) \cap open
      BY <1>1, <2>2
    <2>4. \A b \in next(U) \ {None} : rank[b] < rank[k]
      <3> TAKE c \in next(U) \ {None}
      <3>1. CASE c \in U
        BY <3>1
      <3>2. CASE c \notin U
        <4>1. PICK b \in U \ {None} : c \in Boxes(g) /\ rank[c] < rank[b]
          BY <2>2, <3>2
        <4>2. rank[b] < rank[k] /\ b \in Boxes(g)
          BY <2>1
        <4>3. rank[b] \in Nat /\ rank[k] \in Nat /\ rank[c] \in Nat
          BY <1>2, <4>1, <4>2
        <4> QED BY <4>1, <4>2, <4>3
      <3> QED BY <3>1, <3>2
    <2>5. ASSUME NEW T \in SUBSET Keys, Above(T) PROVE next(U) \subseteq T \cup {None}
      <3>1. U \subseteq T \cup {None}
        BY <2>5
      <3> QED BY <1>3, <2>5, <3>1 DEF Upwards
    <2> HIDE DEF Above, next
    <2> QED BY <2>3, <2>4, <2>5
  <1> HIDE DEF first
  <1>8. \E f \in [0..n -> S] : Rec(f)
    <2>1. step \in [1..n -> [S -> S]]
      <3> HIDE DEF S
      <3> QED BY <1>7
    <2>2. PICK f \in [0..n -> S] : GoesOn(f, n, first, step)
      <3> HIDE DEF step, S
      <3> QED BY <1>5, <1>6, <2>1, RecursionExists, Zenon
    <2> HIDE DEF S, next
    <2>3. \A i \in 0..n : f[i] = IF i = 0 THEN first ELSE next(f[i - 1])
      <3> TAKE i \in 0..n
      <3>1. CASE i = 0
        BY <2>2, <3>1 DEF GoesOn
      <3>2. CASE i # 0
        <4>1. i \in 1..n /\ i - 1 \in 0..n
          BY <1>5, <3>2
        <4>2. f[i - 1] \in S
          BY <2>2, <4>1
        <4>3. step[i][f[i - 1]] = next(f[i - 1])
          BY <4>1, <4>2
        <4>4. f[i] = step[i][f[i - 1]]
          BY <2>2, <3>2, <4>1 DEF GoesOn
        <4> QED BY <3>2, <4>3, <4>4
      <3> QED BY <3>1, <3>2
    <2>4. f = [i \in 0..n |-> f[i]]
      BY <2>2
    <2> QED BY <2>2, <2>3, <2>4
  <1>9. Rec(up)
    BY <1>8
  <1> HIDE DEF up
  <1> DEFINE Full(U) == \A b \in U : Parent(g, b) \in U
  <1>10. up[n] \in S /\ (Full(up[n]) \/ Cardinality(up[n]) >= n + 1)
    <2> DEFINE P == {i \in 0..n : up[i] \in S /\ (Full(up[i]) \/ Cardinality(up[i]) >= i + 1)}
    <2>1. 0 \in P
      <3>1. up[0] = first /\ 0 \in 0..n
        BY <1>5, <1>9
      <3>2. Cardinality(first) = 1
        BY FS_Singleton DEF first
      <3> HIDE DEF S, Full
      <3> QED BY <1>6, <3>1, <3>2
    <2>2. ASSUME NEW i \in 1..n, i - 1 \in P PROVE i \in P
      <3> DEFINE U == up[i - 1]  V == up[i]
      <3>1. i \in 0..n /\ V = next(U)
        <4>1. i \in 0..n /\ i # 0
          BY <1>5
        <4> HIDE DEF S, step, next
        <4> QED BY <1>9, <4>1
      <3>2. U \in S /\ (Full(U) \/ Cardinality(U) >= i - 1 + 1)
        BY <2>2
      <3> HIDE DEF U, V
      <3>3. V \in S
        BY <1>7, <3>1, <3>2
      <3>4. IsFiniteSet(U) /\ IsFiniteSet(V) /\ Cardinality(U) \in Nat /\ Cardinality(V) \in Nat
        BY <1>5, <3>2, <3>3, FS_Subset, FS_CardinalityType
      <3>5. CASE Full(U)
        <4>1. V = U
          BY <3>1, <3>5
        <4> HIDE DEF S
        <4> QED BY <3>1, <3>3, <3>5, <4>1 DEF V
      <3>6. CASE ~ Full(U) /\ Cardinality(U) >= i
        <4>1. U \subseteq V /\ U # V
          BY <3>1, <3>6
        <4>2. Cardinality(U) <= Cardinality(V) /\ Cardinality(U) # Cardinality(V)
          BY <3>4, <4>1, FS_Subset
        <4>3. Cardinality(V) >= i + 1
          BY <3>4, <3>6, <4>2
        <4> HIDE DEF S, Full
        <4> QED BY <3>1, <3>3, <4>3 DEF V
      <3>7. Full(U) \/ Cardinality(U) >= i
        BY <3>2
      <3> QED BY <3>5, <3>6, <3>7
    <2> HIDE DEF P
    <2>3. \A i \in 0..n : i \in P
      BY <1>5, <2>1, <2>2, UpTo, Zenon
    <2>4. n \in P
      BY <1>5, <2>3
    <2> QED BY <2>4 DEF P
  <1> DEFINE U == up[n]
  <1>11. U \in S /\ (Full(U) \/ Cardinality(U) >= n + 1)
    BY <1>10
  <1> HIDE DEF U
  <1>12. Full(U)
    <2>1. U \in SUBSET All
      BY <1>11
    <2>2. CASE Cardinality(U) >= n + 1
      <3>1. Cardinality(U) <= Cardinality(All) /\ Cardinality(U) \in Nat
        BY <1>5, <2>1, FS_Subset, FS_CardinalityType
      <3>2. Cardinality(U) = Cardinality(All)
        BY <1>5, <2>2, <3>1
      <3>3. U = All
        BY <1>5, <2>1, <3>2, FS_Subset
      <3> QED BY <1>1, <1>3, <3>3 DEF Parent
    <2> QED BY <1>11, <2>2
  <1> DEFINE A == PathToRoot(g, k)
  <1>13. A = U \ {None}
    BY <1>4 DEF U
  <1> HIDE DEF A
  <1>14. A \subseteq Boxes(g) \cap open /\ Parent(g, k) \in A \cup {None}
    BY <1>11, <1>13
  <1>15. Upwards(g, A)
    BY <1>12, <1>13 DEF Upwards
  <1>16. k \notin A
    <2>1. \A b \in A : rank[b] < rank[k]
      BY <1>11, <1>13
    <2>2. rank[k] \in Nat
      BY <1>2
    <2> QED BY <2>1, <2>2
  <1>17. ASSUME NEW T \in SUBSET Keys, Upwards(g, T) /\ Parent(g, k) \in T \cup {None}
         PROVE  A \subseteq T
    BY <1>11, <1>13, <1>17
  <1> QED BY <1>14, <1>15, <1>16, <1>17 DEF A

LEMMA WaysNest ==
    ASSUME NEW g, NEW root, NEW open, IsPicture(g, root, open), NEW k \in Boxes(g),
           NEW a \in PathToRoot(g, k)
    PROVE  PathToRoot(g, a) \subseteq PathToRoot(g, k)
  <1> DEFINE A == PathToRoot(g, k)
  <1>1. A \subseteq Boxes(g) \cap open /\ Upwards(g, A) /\ a \in A
    BY PathIsLeast
  <1>2. Boxes(g) \in SUBSET Keys
    BY DEF IsPicture
  <1> HIDE DEF A
  <1>3. A \in SUBSET Keys /\ Parent(g, a) \in A \cup {None} /\ a \in Boxes(g)
    BY <1>1, <1>2 DEF Upwards
  <1>4. PathToRoot(g, a) \subseteq A
    BY <1>1, <1>3, PathIsLeast
  <1> QED BY <1>4 DEF A

\* A box whose way to the centre is open is drawn, whatever else is shut.
LEMMA OpenWayIsDrawn ==
    ASSUME NEW g, NEW root \in Objects, NEW open, IsPicture(g, root, open),
           NEW E, NEW k \in Boxes(g), PathToRoot(g, k) \subseteq E
    PROVE  k \in Boxes(Build(root, E))
  <1> DEFINE h == Build(root, E)
  <1>1. IsPicture(h, root, E)
    BY BuildDraws
  <1> HIDE DEF h
  <1>2. PICK rank \in [Boxes(g) -> Nat] :
            \A x \in Boxes(g) \ {root} : rank[g.parent[x]] < rank[x]
    BY DEF IsPicture, Ranked, Boxes
  <1> DEFINE Lost == {x \in Boxes(g) : PathToRoot(g, x) \subseteq E /\ x \notin Boxes(h)}
             Ranks == {rank[x] : x \in Lost}
  <1>3. SUFFICES ASSUME Lost # {} PROVE FALSE
    BY DEF h
  <1>4. Ranks \in SUBSET Nat /\ Ranks # {}
    BY <1>2, <1>3
  <1>5. PICK m \in Ranks : \A r \in Ranks : m <= r
    BY <1>4, LeastExists
  <1>6. PICK x \in Lost : m = rank[x]
    BY <1>5
  <1> DEFINE p == g.parent[x]
  <1>7. x \in Boxes(g) /\ PathToRoot(g, x) \subseteq E /\ x \notin Boxes(h) /\ x # root
    BY <1>1 DEF IsPicture, HangsFromOpen, Boxes
  <1>8. p \in Boxes(g) /\ Leads(p, x) /\ p # None /\ Parent(g, x) = p
    BY <1>7, KeysAssumption DEF IsPicture, HangsFromOpen, Boxes, Parent
  <1>9. p \in PathToRoot(g, x)
    BY <1>7, <1>8, PathIsLeast
  <1>10. PathToRoot(g, p) \subseteq E /\ p \in E
    BY <1>7, <1>9, WaysNest
  <1>11. rank[p] < rank[x] /\ rank[p] \in Nat /\ rank[x] \in Nat
    BY <1>2, <1>7, <1>8
  <1>12. p \in Boxes(h)
    <2> SUFFICES ASSUME p \notin Boxes(h) PROVE FALSE
      OBVIOUS
    <2>1. p \in Lost
      BY <1>8, <1>10
    <2> QED BY <1>5, <1>6, <1>11, <2>1
  <1>13. x \in Boxes(h)
    BY <1>1, <1>8, <1>10, <1>12 DEF IsPicture, Leads
  <1> QED BY <1>7, <1>13

---------------------------------------------------------------------------
(* Opening and shutting, in the picture of what is open *)

\* What is open is drawn.
Sound(root, open) == open \subseteq Boxes(Build(root, open))

LEMMA CentreIsDrawn ==
    ASSUME NEW root \in Objects, NEW open PROVE root \in Boxes(Build(root, open))
  BY BuildDraws DEF IsPicture, HangsFromOpen, Boxes

LEMMA OpeningIsSound ==
    ASSUME NEW root \in Objects, NEW open, Sound(root, open),
           NEW k \in Boxes(Build(root, open))
    PROVE  Sound(root, open \cup {k}) /\ k \in Boxes(Build(root, open \cup {k}))
  <1> DEFINE g == Build(root, open)
  <1>1. IsPicture(g, root, open) /\ open \subseteq Boxes(g) /\ k \in Boxes(g)
    BY BuildDraws DEF Sound
  <1> HIDE DEF g
  <1>2. \A x \in open \cup {k} : x \in Boxes(Build(root, open \cup {k}))
    <2> TAKE x \in open \cup {k}
    <2>1. x \in Boxes(g) /\ PathToRoot(g, x) \subseteq open \cup {k}
      BY <1>1, PathIsLeast
    <2> QED BY <1>1, <2>1, OpenWayIsDrawn
  <1> QED BY <1>2 DEF Sound

LEMMA ShuttingIsSound ==
    ASSUME NEW root \in Objects, NEW open, Sound(root, open),
           NEW k \in Boxes(Build(root, open)),
           NEW kept, kept = {b \in open : ~ Under(Build(root, open), b, k)} \ {k}
    PROVE  Sound(root, kept) /\ k \in Boxes(Build(root, kept))
  <1> DEFINE g == Build(root, open)
  <1>1. /\ IsPicture(g, root, open) /\ open \subseteq Boxes(g) /\ k \in Boxes(g)
        /\ kept = {b \in open : k \notin PathToRoot(g, b)} \ {k}
    BY BuildDraws DEF Sound, Under
  <1> HIDE DEF g
  <1>2. ASSUME NEW x \in kept \cup {k} PROVE x \in Boxes(Build(root, kept))
    <2>1. x \in Boxes(g) /\ k \notin PathToRoot(g, x)
      BY <1>1, PathIsLeast
    <2>2. ASSUME NEW a \in PathToRoot(g, x) PROVE a \in kept
      <3>1. a \in open /\ a # k
        BY <1>1, <2>1, PathIsLeast
      <3>2. k \notin PathToRoot(g, a)
        BY <1>1, <2>1, WaysNest
      <3> QED BY <1>1, <3>1, <3>2
    <2> QED BY <1>1, <2>1, <2>2, OpenWayIsDrawn
  <1> QED BY <1>2 DEF Sound

LEMMA IsolatingIsSound ==
    ASSUME NEW root \in Objects, NEW open, Sound(root, open),
           NEW k \in Boxes(Build(root, open)),
           NEW kept, kept = open \cap (PathToRoot(Build(root, open), k) \cup {k})
    PROVE  Sound(root, kept) /\ k \in Boxes(Build(root, kept))
  <1> DEFINE g == Build(root, open)
  <1>1. /\ IsPicture(g, root, open) /\ open \subseteq Boxes(g) /\ k \in Boxes(g)
        /\ kept = open \cap (PathToRoot(g, k) \cup {k})
    BY BuildDraws DEF Sound
  <1> HIDE DEF g
  <1>2. PathToRoot(g, k) \subseteq kept
    BY <1>1, PathIsLeast
  <1>3. ASSUME NEW x \in kept \cup {k} PROVE x \in Boxes(Build(root, kept))
    <2>1. x \in Boxes(g) /\ PathToRoot(g, x) \subseteq PathToRoot(g, k)
      BY <1>1, WaysNest
    <2> QED BY <1>1, <1>2, <2>1, OpenWayIsDrawn
  <1> QED BY <1>3 DEF Sound

---------------------------------------------------------------------------
(* The screen *)

Job == [root: Objects, open: SUBSET Keys, keep: Keys \cup {None}]

Typed ==
    /\ shown \in BOOLEAN /\ hurried \in BOOLEAN
    /\ history \in Seq(Objects) /\ expanded \in SUBSET Keys
    /\ builds \in Seq(Job) /\ selected \in Keys \cup {None}
    /\ saved # None => /\ saved.history \in Seq(Objects) \ {<<>>}
                       /\ saved.expanded \in SUBSET Keys
                       /\ saved.selected \in Keys \cup {None}
    /\ shown => history # <<>>
    /\ ~ shown => graph = None /\ builds = <<>>

\* The picture is one that was built, though maybe of an older moment.
PictureWasBuilt ==
    graph # None => /\ selected \in Boxes(graph)
                    /\ \E root \in Objects, open \in SUBSET Keys : graph = Build(root, open)

Keeps(keep, root, open) == keep = None \/ keep \in Boxes(Build(root, open))

\* While nobody was in a hurry there is one build, and it is of what is open
\* now, or there is its picture.
InStep ==
    shown /\ ~ hurried =>
        /\ Sound(Root, expanded)
        /\ builds = <<>> => graph = Build(Root, expanded) /\ selected \in Boxes(graph)
        /\ builds # <<>> => /\ Len(builds) = 1
                            /\ builds[1].root = Root /\ builds[1].open = expanded
                            /\ Keeps(builds[1].keep, Root, expanded)

\* So it was with the graph that was saved; and its picture had come.
SavedInStep ==
    ~ hurried /\ saved # None =>
        /\ saved.selected # None
        /\ Sound(Last(saved.history), saved.expanded)
        /\ saved.selected \in Boxes(Build(Last(saved.history), saved.expanded))

Inv == Typed /\ PictureWasBuilt /\ InStep /\ SavedInStep

LEMMA LastTyped ==
    ASSUME NEW h \in Seq(Objects), h # <<>> PROVE Last(h) \in Objects
  BY EmptySeq, LenProperties, ElementOfSeq DEF Last

LEMMA FrontTyped ==
    ASSUME NEW h \in Seq(Objects), Len(h) > 1
    PROVE  Front(h) \in Seq(Objects) /\ Front(h) # <<>>
  <1>1. Len(h) \in Nat /\ \A i \in 1..Len(h) : h[i] \in Objects
    BY LenProperties, ElementOfSeq
  <1> DEFINE n == Len(h) - 1
  <1>2. n \in Nat \ {0} /\ \A i \in 1..n : h[i] \in Objects
    BY <1>1
  <1>3. Front(h) = SubSeq(h, 1, n)
    BY DEF Front
  <1> HIDE DEF n
  <1>4. SubSeq(h, 1, n) \in Seq(Objects) /\ Len(SubSeq(h, 1, n)) = IF 1 <= n THEN n - 1 + 1 ELSE 0
    BY <1>2, SubSeqProperties
  <1>5. Len(SubSeq(h, 1, n)) # 0
    BY <1>2, <1>4
  <1> QED BY <1>3, <1>4, <1>5, EmptySeq

LEMMA RemoveTyped ==
    ASSUME NEW s \in Seq(Job), NEW b \in DOMAIN s
    PROVE  RemoveAt(s, b) \in Seq(Job) /\ (Len(s) = 1 => RemoveAt(s, b) = <<>>)
  <1>1. Len(s) \in Nat /\ b \in 1..Len(s) /\ \A i \in 1..Len(s) : s[i] \in Job
    BY LenProperties, ElementOfSeq
  <1> DEFINE p == b - 1  q == b + 1  n == Len(s)
  <1>2. p \in Int /\ q \in Int /\ n \in Int /\ 1 \in Int
        /\ (\A i \in 1..p : s[i] \in Job) /\ (\A i \in q..n : s[i] \in Job)
    BY <1>1
  <1>3. RemoveAt(s, b) = SubSeq(s, 1, p) \o SubSeq(s, q, n)
    BY DEF RemoveAt
  <1>4. n = 1 => p = 0 /\ q = 2
    BY <1>1
  <1> HIDE DEF p, q
  <1>5. SubSeq(s, 1, p) \in Seq(Job) /\ SubSeq(s, q, n) \in Seq(Job)
        /\ Len(SubSeq(s, 1, p)) = (IF 1 <= p THEN p - 1 + 1 ELSE 0)
        /\ Len(SubSeq(s, q, n)) = (IF q <= n THEN n - q + 1 ELSE 0)
    <2> HIDE DEF n
    <2> QED BY <1>2, SubSeqProperties
  <1>6. RemoveAt(s, b) \in Seq(Job)
    BY <1>3, <1>5, ConcatProperties
  <1>7. ASSUME n = 1 PROVE RemoveAt(s, b) = <<>>
    <2>1. Len(SubSeq(s, 1, p)) = 0 /\ Len(SubSeq(s, q, n)) = 0
      BY <1>4, <1>5, <1>7
    <2>2. SubSeq(s, 1, p) = <<>> /\ SubSeq(s, q, n) = <<>>
      BY <1>5, <2>1, EmptySeq
    <2> QED BY <1>3, <2>2, ConcatEmptySeq, EmptySeq
  <1> QED BY <1>6, <1>7

\* A key starts a build of what it leaves open.
LEMMA RebuildKeeps ==
    ASSUME Inv, shown, hurried' = (hurried \/ builds # <<>>),
           UNCHANGED <<shown, graph, selected, saved>>,
           NEW h \in Seq(Objects) \ {<<>>}, history' = h,
           NEW open \in SUBSET Keys, expanded' = open, NEW keep \in Keys \cup {None},
           builds' = Append(builds, [root |-> Last(h), open |-> open, keep |-> keep]),
           ~ hurried' => Sound(Last(h), open) /\ Keeps(keep, Last(h), open)
    PROVE  Inv'
  <1> DEFINE job == [root |-> Last(h), open |-> open, keep |-> keep]
  <1>1. job \in Job
    BY LastTyped DEF Job
  <1>2. job.root = Last(h) /\ job.open = open /\ job.keep = keep /\ builds' = Append(builds, job)
    OBVIOUS
  <1> HIDE DEF job
  <1>3. builds \in Seq(Job) /\ Len(builds) \in Nat
    BY LenProperties DEF Inv, Typed
  <1>4. /\ builds' \in Seq(Job) /\ builds' # <<>> /\ Len(builds') = Len(builds) + 1
        /\ builds'[Len(builds) + 1] = job
    BY <1>1, <1>2, <1>3, AppendProperties
  <1>5. hurried' \in BOOLEAN
    OBVIOUS
  <1>6. Typed'
    BY <1>4, <1>5 DEF Inv, Typed
  <1>7. PictureWasBuilt'
    BY DEF Inv, PictureWasBuilt
  <1>8. InStep'
    <2> SUFFICES ASSUME ~ hurried' PROVE InStep'
      BY DEF InStep
    <2>1. Len(builds) = 0 /\ Len(builds') = 1 /\ builds'[1] = job
      <3>1. builds = <<>>
        OBVIOUS
      <3>2. Len(builds) = 0
        BY <3>1, EmptySeq
      <3> QED BY <1>4, <3>2
    <2>2. Root' = Last(h)
      BY DEF Root
    <2> QED BY <1>2, <1>4, <2>1, <2>2 DEF InStep
  <1>9. SavedInStep'
    BY DEF Inv, SavedInStep
  <1> QED BY <1>6, <1>7, <1>8, <1>9 DEF Inv

\* What a key finds, when no picture is late.
LEMMA KeyFinds ==
    ASSUME Inv, Pressed
    PROVE  /\ shown /\ hurried' = (hurried \/ builds # <<>>)
           /\ history \in Seq(Objects) \ {<<>>} /\ Root \in Objects /\ Last(history) = Root
           /\ expanded \in SUBSET Keys /\ selected \in Boxes(graph) /\ selected \in Keys
           /\ ~ hurried' => /\ graph = Build(Root, expanded) /\ Sound(Root, expanded)
                            /\ selected \in Boxes(Build(Root, expanded))
  <1>1. /\ shown /\ hurried' = (hurried \/ builds # <<>>) /\ graph # None
        /\ history \in Seq(Objects) \ {<<>>} /\ expanded \in SUBSET Keys
    BY DEF Inv, Typed, Pressed
  <1>2. Root \in Objects /\ Last(history) = Root
    BY <1>1, LastTyped DEF Root
  <1>3. selected \in Boxes(graph)
    BY <1>1 DEF Inv, PictureWasBuilt
  <1>4. Boxes(graph) \in SUBSET Keys
    <2>1. PICK root \in Objects, open \in SUBSET Keys : graph = Build(root, open)
      BY <1>1 DEF Inv, PictureWasBuilt
    <2> QED BY <2>1, BuildDraws DEF IsPicture
  <1>5. ~ hurried' => graph = Build(Root, expanded) /\ Sound(Root, expanded)
    BY <1>1 DEF Inv, InStep
  <1> QED BY <1>1, <1>2, <1>3, <1>4, <1>5

LEMMA MoveKeeps ==
    ASSUME Inv, Pressed, NEW k \in Boxes(graph), MoveTo(k) PROVE Inv'
  <1>1. /\ shown /\ hurried' = (hurried \/ builds # <<>>) /\ selected \in Keys
        /\ ~ hurried' => graph = Build(Root, expanded)
    BY KeyFinds
  <1>2. k \in Keys
    <2>1. graph # None
      BY DEF Pressed
    <2>2. PICK root \in Objects, open \in SUBSET Keys : graph = Build(root, open)
      BY <2>1 DEF Inv, PictureWasBuilt
    <2> QED BY <2>2, BuildDraws DEF IsPicture
  <1>3. Typed'
    BY <1>1, <1>2 DEF Inv, Typed, MoveTo
  <1>4. PictureWasBuilt'
    BY DEF Inv, PictureWasBuilt, MoveTo
  <1>5. InStep'
    BY <1>1 DEF Inv, InStep, MoveTo, Root
  <1>6. SavedInStep'
    BY <1>1 DEF Inv, SavedInStep, MoveTo
  <1> QED BY <1>3, <1>4, <1>5, <1>6 DEF Inv

LEMMA OpenKeeps ==
    ASSUME Inv, Pressed, OpenBox(selected), UNCHANGED <<shown, history, graph, selected, saved>>
    PROVE  Inv'
  <1> DEFINE open == expanded \cup {selected}
  <1>1. /\ expanded' = open
        /\ builds' = Append(builds, [root |-> Root, open |-> open, keep |-> selected])
    BY DEF OpenBox, Rebuild
  <1>2. open \in SUBSET Keys /\ selected \in Keys \cup {None}
    BY KeyFinds
  <1>3. ~ hurried' => Sound(Root, open) /\ Keeps(selected, Root, open)
    BY KeyFinds, OpeningIsSound DEF Keeps
  <1> HIDE DEF open
  <1> QED BY <1>1, <1>2, <1>3, KeyFinds, RebuildKeeps

LEMMA ShutKeeps ==
    ASSUME Inv, Pressed, Collapse(selected), UNCHANGED <<shown, history, graph, selected, saved>>
    PROVE  Inv'
  <1> DEFINE kept == {b \in expanded : ~ Under(graph, b, selected)} \ {selected}
  <1>1. /\ expanded' = kept
        /\ builds' = Append(builds, [root |-> Root, open |-> kept, keep |-> selected])
    BY DEF Collapse, Rebuild
  <1>2. kept \in SUBSET Keys /\ selected \in Keys \cup {None}
    BY KeyFinds
  <1>3. ~ hurried' => Sound(Root, kept) /\ Keeps(selected, Root, kept)
    BY KeyFinds, ShuttingIsSound DEF Keeps
  <1> HIDE DEF kept
  <1> QED BY <1>1, <1>2, <1>3, KeyFinds, RebuildKeeps

\* right, left, up and down
LEMMA MovesKeep ==
    ASSUME Inv, Move PROVE Inv'
  <1>1. CASE MoveRightOpens
    BY <1>1, OpenKeeps DEF MoveRightOpens
  <1>2. CASE MoveLeftShuts
    BY <1>2, ShutKeeps DEF MoveLeftShuts
  <1>3. CASE MoveLeft
    <2>1. selected \in Boxes(graph) /\ Parent(graph, selected) # None /\ graph # None
      BY <1>3, KeyFinds DEF MoveLeft, Pressed
    <2>2. PICK root \in Objects, open \in SUBSET Keys : graph = Build(root, open)
      BY <2>1 DEF Inv, PictureWasBuilt
    <2>3. IsPicture(graph, root, open)
      BY <2>2, BuildDraws
    <2>4. Parent(graph, selected) \in Boxes(graph)
      BY <2>1, <2>3, PathIsLeast
    <2> QED BY <1>3, <2>4, MoveKeeps DEF MoveLeft
  <1>4. ASSUME NEW k \in Keys, MoveRight(k) PROVE Inv'
    BY <1>4, MoveKeeps DEF MoveRight, Children
  <1>5. ASSUME NEW k \in Keys, MoveInColumn(k) PROVE Inv'
    BY <1>5, MoveKeeps DEF MoveInColumn
  <1> QED BY <1>1, <1>2, <1>3, <1>4, <1>5 DEF Move

LEMMA ToggleKeeps ==
    ASSUME Inv, Toggle PROVE Inv'
  <1>1. CASE selected \in expanded /\ Collapse(selected)
    BY <1>1, ShutKeeps DEF Toggle
  <1>2. CASE OpenBox(selected)
    BY <1>2, OpenKeeps DEF Toggle
  <1> QED BY <1>1, <1>2 DEF Toggle

LEMMA IsolateKeeps ==
    ASSUME Inv, Isolate PROVE Inv'
  <1> DEFINE kept == expanded \cap (PathToRoot(graph, selected) \cup {selected})
  <1>1. /\ Pressed /\ expanded' = kept /\ UNCHANGED <<shown, history, graph, selected, saved>>
        /\ builds' = Append(builds, [root |-> Root, open |-> kept, keep |-> selected])
    BY DEF Isolate, Rebuild
  <1>2. kept \in SUBSET Keys /\ selected \in Keys \cup {None}
    BY <1>1, KeyFinds
  <1>3. ~ hurried' => Sound(Root, kept) /\ Keeps(selected, Root, kept)
    BY <1>1, KeyFinds, IsolatingIsSound DEF Keeps
  <1> HIDE DEF kept
  <1> QED BY <1>1, <1>2, <1>3, KeyFinds, RebuildKeeps

LEMMA RecentreKeeps ==
    ASSUME Inv, Recentre PROVE Inv'
  <1> DEFINE h == Append(history, selected)
  <1>1. /\ Pressed /\ Kind[selected] = "object" /\ history' = h /\ expanded' = {selected}
        /\ builds' = Append(builds, [root |-> selected, open |-> {selected}, keep |-> None])
        /\ UNCHANGED <<shown, graph, selected, saved>>
    BY DEF Recentre, Rebuild
  <1>2. selected \in Objects /\ {selected} \in SUBSET Keys /\ None \in Keys \cup {None}
    BY <1>1, KeyFinds DEF Objects
  <1>3. h \in Seq(Objects) \ {<<>>} /\ Last(h) = selected
    <2>1. history \in Seq(Objects) /\ Len(history) \in Nat
      BY <1>1, KeyFinds, LenProperties
    <2>2. /\ h \in Seq(Objects) /\ h # <<>> /\ Len(h) = Len(history) + 1
          /\ h[Len(history) + 1] = selected
      BY <1>2, <2>1, AppendProperties
    <2> HIDE DEF h
    <2> QED BY <2>2 DEF Last
  <1> HIDE DEF h
  <1>4. Sound(selected, {selected}) /\ Keeps(None, selected, {selected})
    BY <1>2, CentreIsDrawn DEF Sound, Keeps
  <1> QED BY <1>1, <1>2, <1>3, <1>4, KeyFinds, RebuildKeeps

\* The screen is left; what is saved is what was there, or nothing new.
LEMMA LeavingKeeps ==
    ASSUME Inv, shown, PopScreen, hurried' = (hurried \/ builds # <<>>),
           \/ UNCHANGED saved
           \/ saved' = [history |-> history, expanded |-> expanded, selected |-> selected]
    PROVE  Inv'
  <1>1. /\ history \in Seq(Objects) \ {<<>>} /\ expanded \in SUBSET Keys
        /\ selected \in Keys \cup {None} /\ hurried' \in BOOLEAN
    BY DEF Inv, Typed
  <1>2. <<>> \in Seq(Objects) /\ <<>> \in Seq(Job)
    BY EmptySeq
  <1>3. Typed'
    <2>1. CASE UNCHANGED saved
      BY <1>1, <1>2, <2>1 DEF Inv, Typed, PopScreen
    <2>2. CASE saved' = [history |-> history, expanded |-> expanded, selected |-> selected]
      BY <1>1, <1>2, <2>2 DEF Inv, Typed, PopScreen
    <2> QED BY <2>1, <2>2
  <1>4. PictureWasBuilt' /\ InStep'
    BY DEF PopScreen, PictureWasBuilt, InStep
  <1>5. SavedInStep'
    <2>1. CASE UNCHANGED saved
      BY <2>1 DEF Inv, SavedInStep
    <2>2. CASE saved' = [history |-> history, expanded |-> expanded, selected |-> selected]
      <3> SUFFICES ASSUME ~ hurried' PROVE SavedInStep'
        BY DEF SavedInStep
      <3>1. builds = <<>> /\ ~ hurried
        OBVIOUS
      <3>2. /\ Sound(Root, expanded) /\ graph = Build(Root, expanded)
            /\ selected \in Boxes(graph)
        BY <3>1 DEF Inv, InStep
      <3>3. Root \in Objects
        BY <1>1, LastTyped DEF Root
      <3>4. Boxes(graph) \in SUBSET Keys
        BY <1>1, <3>2, <3>3, BuildDraws DEF IsPicture
      <3>5. selected # None
        BY <3>2, <3>4, KeysAssumption
      <3> QED BY <2>2, <3>2, <3>5 DEF SavedInStep, Root
    <2> QED BY <2>1, <2>2
  <1> QED BY <1>3, <1>4, <1>5 DEF Inv

LEMMA PopKeeps ==
    ASSUME Inv, Pop PROVE Inv'
  <1>1. /\ shown /\ hurried' = (hurried \/ builds # <<>>) /\ UNCHANGED saved
        /\ history \in Seq(Objects)
    BY DEF Pop, Inv, Typed
  <1>2. CASE Len(history) > 1
    <2> DEFINE h == Front(history)
               open == {Last(h)}
    <2>1. /\ history' = h /\ expanded' = open /\ UNCHANGED <<shown, graph, selected>>
          /\ builds' = Append(builds, [root |-> Last(h), open |-> open, keep |-> None])
      BY <1>2 DEF Pop, Rebuild
    <2>2. h \in Seq(Objects) \ {<<>>}
      BY <1>1, <1>2, FrontTyped
    <2> HIDE DEF h
    <2>3. Last(h) \in Objects /\ open \in SUBSET Keys /\ None \in Keys \cup {None}
      BY <2>2, LastTyped DEF Objects
    <2>4. Sound(Last(h), open) /\ Keeps(None, Last(h), open)
      BY <2>3, CentreIsDrawn DEF Sound, Keeps
    <2> HIDE DEF open
    <2> QED BY <1>1, <2>1, <2>2, <2>3, <2>4, RebuildKeeps
  <1>3. CASE ~ (Len(history) > 1)
    BY <1>1, <1>3, LeavingKeeps DEF Pop
  <1> QED BY <1>2, <1>3

\* g: a first build, of a new screen or of the one that was saved
LEMMA OpeningKeeps ==
    ASSUME Inv, shown', graph' = None, saved' = None, UNCHANGED hurried,
           selected' = None, NEW h \in Seq(Objects) \ {<<>>}, history' = h,
           NEW open \in SUBSET Keys, expanded' = open, NEW keep \in Keys \cup {None},
           builds' = <<[root |-> Last(h), open |-> open, keep |-> keep]>>,
           shown' \in BOOLEAN,
           ~ hurried => Sound(Last(h), open) /\ Keeps(keep, Last(h), open)
    PROVE  Inv'
  <1> DEFINE job == [root |-> Last(h), open |-> open, keep |-> keep]
  <1>1. /\ job \in Job /\ job.root = Last(h) /\ job.open = open /\ job.keep = keep
        /\ builds' = <<job>>
    BY LastTyped DEF Job
  <1> HIDE DEF job
  <1>2. builds' \in Seq(Job) /\ builds' # <<>> /\ Len(builds') = 1 /\ builds'[1] = job
    BY <1>1
  <1>3. Typed'
    BY <1>2 DEF Inv, Typed
  <1>4. PictureWasBuilt' /\ SavedInStep'
    BY DEF PictureWasBuilt, SavedInStep
  <1>5. InStep'
    BY <1>1, <1>2 DEF InStep, Root
  <1> QED BY <1>3, <1>4, <1>5 DEF Inv

LEMMA OpenFreshKeeps ==
    ASSUME Inv, NEW o \in Centres, OpenFresh(o) PROVE Inv'
  <1>1. o \in Objects /\ {o} \in SUBSET Keys /\ None \in Keys \cup {None}
    BY KeysAssumption DEF Objects
  <1>2. <<o>> \in Seq(Objects) \ {<<>>} /\ Last(<<o>>) = o
    BY <1>1 DEF Last
  <1>3. Sound(o, {o}) /\ Keeps(None, o, {o})
    BY <1>1, CentreIsDrawn DEF Sound, Keeps
  <1>4. builds' = <<[root |-> Last(<<o>>), open |-> {o}, keep |-> None]>>
    BY <1>2 DEF OpenFresh
  <1>5. /\ shown' /\ shown' \in BOOLEAN /\ graph' = None /\ saved' = None /\ UNCHANGED hurried
        /\ selected' = None /\ history' = <<o>> /\ expanded' = {o}
    BY DEF OpenFresh
  <1> DEFINE h == <<o>>  open == {o}
  <1>6. /\ h \in Seq(Objects) \ {<<>>} /\ open \in SUBSET Keys /\ None \in Keys \cup {None}
        /\ history' = h /\ expanded' = open
        /\ builds' = <<[root |-> Last(h), open |-> open, keep |-> None]>>
        /\ Sound(Last(h), open) /\ Keeps(None, Last(h), open)
    BY <1>1, <1>2, <1>3, <1>4, <1>5
  <1> HIDE DEF h, open
  <1> QED BY <1>5, <1>6, OpeningKeeps

LEMMA OpenSavedKeeps ==
    ASSUME Inv, OpenSaved PROVE Inv'
  <1> DEFINE h == saved.history
             open == IF saved.selected = None THEN {Head(h)} ELSE saved.expanded
             keep == saved.selected
  <1>1. /\ shown' /\ shown' \in BOOLEAN /\ graph' = None /\ saved' = None /\ UNCHANGED hurried
        /\ selected' = None /\ history' = h /\ expanded' = open
        /\ builds' = <<[root |-> Last(h), open |-> open, keep |-> keep]>>
    BY DEF OpenSaved
  <1>2. h \in Seq(Objects) \ {<<>>} /\ keep \in Keys \cup {None} /\ saved.expanded \in SUBSET Keys
    BY DEF OpenSaved, Inv, Typed
  <1>3. open \in SUBSET Keys
    <2>1. Head(h) \in Objects
      BY <1>2, HeadTailProperties
    <2> QED BY <1>2, <2>1 DEF Objects
  <1>4. ~ hurried => Sound(Last(h), open) /\ Keeps(keep, Last(h), open)
    BY DEF OpenSaved, Inv, SavedInStep, Keeps
  <1> HIDE DEF h, open, keep
  <1> QED BY <1>1, <1>2, <1>3, <1>4, OpeningKeeps

\* A picture arrives: the only one there can be, when nobody was in a hurry.
LEMMA BuiltKeepsInv ==
    ASSUME Inv, NEW b, Built(b) PROVE Inv'
  <1> DEFINE job == builds[b]
             g == Build(job.root, job.open)
  <1>1. /\ shown /\ b \in DOMAIN builds /\ graph' = g
        /\ selected' = (IF job.keep \in Boxes(g) THEN job.keep ELSE g.root)
        /\ builds' = RemoveAt(builds, b)
        /\ UNCHANGED <<shown, history, expanded, saved, hurried>>
    BY DEF Built
  <1>2. builds \in Seq(Job)
    BY DEF Inv, Typed
  <1>3. job \in Job
    <2>1. b \in 1..Len(builds)
      BY <1>1, <1>2, LenProperties
    <2> QED BY <1>2, <2>1, ElementOfSeq
  <1>4. job.root \in Objects /\ job.open \in SUBSET Keys
    BY <1>3 DEF Job
  <1>5. g.root \in Boxes(g) /\ Boxes(g) \in SUBSET Keys
    BY <1>4, BuildDraws DEF IsPicture, HangsFromOpen, Boxes
  <1>6. selected' \in Boxes(g)
    BY <1>1, <1>5
  <1>7. builds' \in Seq(Job) /\ (Len(builds) = 1 => builds' = <<>>)
    BY <1>1, <1>2, RemoveTyped
  <1>8. Typed'
    BY <1>1, <1>5, <1>6, <1>7 DEF Inv, Typed
  <1>9. PictureWasBuilt'
    BY <1>1, <1>4, <1>6 DEF PictureWasBuilt
  <1>10. InStep'
    <2> SUFFICES ASSUME ~ hurried PROVE InStep'
      BY <1>1 DEF InStep
    <2>1. /\ Sound(Root, expanded) /\ builds # <<>>
      BY <1>1 DEF Inv, InStep
    <2>2. Len(builds) = 1 /\ builds[1].root = Root /\ builds[1].open = expanded
      BY <1>1, <2>1 DEF Inv, InStep
    <2>3. b = 1
      BY <1>1, <1>2, <2>2, LenProperties
    <2>4. g = Build(Root, expanded) /\ builds' = <<>>
      BY <1>7, <2>2, <2>3
    <2>5. Root' = Root
      BY <1>1 DEF Root
    <2> HIDE DEF g
    <2> QED BY <1>1, <1>6, <2>1, <2>4, <2>5 DEF InStep
  <1>11. SavedInStep'
    BY <1>1 DEF Inv, SavedInStep
  <1> QED BY <1>8, <1>9, <1>10, <1>11 DEF Inv

LEMMA FailedKeeps ==
    ASSUME Inv, NEW b, Failed(b) PROVE Inv'
  <1>1. builds' \in Seq(Job) /\ shown
    BY RemoveTyped DEF Failed, Inv, Typed
  <1>2. Typed'
    BY <1>1 DEF Inv, Typed, Failed
  <1>3. PictureWasBuilt' /\ InStep' /\ SavedInStep'
    BY DEF Inv, PictureWasBuilt, InStep, SavedInStep, Failed
  <1> QED BY <1>2, <1>3 DEF Inv

LEMMA InvInit == Init => Inv
  <1> SUFFICES ASSUME Init PROVE Inv
    OBVIOUS
  <1>1. PICK o \in Centres :
            /\ history = <<o>> /\ expanded = {o}
            /\ builds = <<[root |-> o, open |-> {o}, keep |-> None]>>
    BY DEF Init
  <1>2. o \in Objects /\ {o} \in SUBSET Keys
    BY KeysAssumption DEF Objects
  <1>3. <<o>> \in Seq(Objects) /\ <<o>> # <<>> /\ Root = o
    BY <1>1, <1>2 DEF Root, Last
  <1> DEFINE job == [root |-> o, open |-> {o}, keep |-> None]
  <1>4. job \in Job /\ job.root = o /\ job.open = {o} /\ job.keep = None /\ builds = <<job>>
    BY <1>1, <1>2 DEF Job
  <1> HIDE DEF job
  <1>5. builds \in Seq(Job) /\ builds # <<>> /\ Len(builds) = 1 /\ builds[1] = job
    BY <1>4
  <1>6. Typed
    BY <1>1, <1>2, <1>3, <1>5 DEF Typed, Init
  <1>7. Sound(o, {o})
    BY <1>2, CentreIsDrawn DEF Sound
  <1>8. PictureWasBuilt /\ SavedInStep
    BY DEF Init, PictureWasBuilt, SavedInStep
  <1>9. InStep
    BY <1>1, <1>3, <1>4, <1>5, <1>7 DEF InStep, Keeps
  <1> QED BY <1>6, <1>8, <1>9 DEF Inv

LEMMA InvNext == Inv /\ [Next]_vars => Inv'
  <1> SUFFICES ASSUME Inv, [Next]_vars PROVE Inv'
    OBVIOUS
  <1>1. CASE Recentre
    BY <1>1, RecentreKeeps
  <1>2. CASE RecentreOnFan
    BY <1>2, LeavingKeeps DEF RecentreOnFan, Pressed
  <1>3. CASE Leave
    BY <1>3, LeavingKeeps DEF Leave
  <1>4. CASE UNCHANGED vars
    BY <1>4 DEF vars, Inv, Typed, PictureWasBuilt, InStep, SavedInStep, Root
  <1> QED BY <1>1, <1>2, <1>3, <1>4, MovesKeep, ToggleKeeps, IsolateKeeps, PopKeeps,
             OpenFreshKeeps, OpenSavedKeeps, BuiltKeepsInv, FailedKeeps DEF Next

LEMMA InvAlways == Spec => []Inv
  BY InvInit, InvNext, PTL DEF Spec

---------------------------------------------------------------------------
(* What is shown of it *)

\* Whatever order the pictures arrive in, every key acts on a box of the
\* picture on the screen (update_info, action_move, action_toggle).
THEOREM SelectedIsDrawn == Spec => []SelectionDrawn
  <1>1. Inv => SelectionDrawn
    BY DEF Inv, PictureWasBuilt, SelectionDrawn
  <1> QED BY <1>1, InvAlways, PTL

\* Until a key is pressed over a late picture everything that is open can be
\* seen, whatever was shut or isolated (_collapse, action_isolate).
THEOREM OpenIsSeen == Spec => []OpenAreDrawn
  <1>1. Inv => OpenAreDrawn
    BY DEF Inv, InStep, OpenAreDrawn, Sound
  <1> QED BY <1>1, InvAlways, PTL

\* ... and the box that a picture is to select is in it (_built).
THEOREM SelectionStays == Spec => []KeptBoxIsDrawn
  <1>1. Inv => KeptBoxIsDrawn
    <2> SUFFICES ASSUME Inv, ~ hurried, NEW i \in DOMAIN builds
                 PROVE  builds[i].keep = None
                        \/ builds[i].keep \in Boxes(Build(builds[i].root, builds[i].open))
      BY DEF KeptBoxIsDrawn
    <2>1. builds \in Seq(Job) /\ i \in 1..Len(builds) /\ Len(builds) \in Nat
      BY LenProperties DEF Inv, Typed
    <2>2. builds # <<>>
      BY <2>1, EmptySeq
    <2>3. shown
      BY <2>2 DEF Inv, Typed
    <2>4. /\ Len(builds) = 1 /\ builds[1].root = Root /\ builds[1].open = expanded
          /\ Keeps(builds[1].keep, Root, expanded)
      BY <2>2, <2>3 DEF Inv, InStep
    <2>5. i = 1
      BY <2>1, <2>4
    <2> QED BY <2>4, <2>5 DEF Keeps
  <1> QED BY <1>1, InvAlways, PTL
================================================================================
