----------------------------- MODULE SidebarProofs -----------------------------
(***************************************************************************)
(* For any tree, tutorial and table: the cursor travels only to the row of *)
(* the step it was started for, over the table of that step unless the     *)
(* user has turned to another since, and only the entry the tree's cursor  *)
(* is on is going to be previewed.  For any processes that start and exit: *)
(* a step of a tutorial fails only by a race, and the tour of a process    *)
(* keeps to its process.                                                   *)
(***************************************************************************)
EXTENDS Tours, Sidebar, Recursion, SequenceTheorems

---------------------------------------------------------------------------
(* The way of the cursor *)

\* Rounding goes no further than a whole number that bounds the quotient.
LEMMA RoundWithin ==
    ASSUME NEW a \in Nat, NEW d \in Nat \ {0}, NEW m \in Nat, a <= m * d
    PROVE  RoundHalfEven(a, d) \in 0..m
  <1> DEFINE q == a \div d  r == a % d
  <1>1. q \in Nat /\ r \in Nat /\ r < d /\ a = d * q + r
    OBVIOUS
  <1>2. q <= m
    <2> SUFFICES ASSUME q >= m + 1 PROVE FALSE
      BY <1>1
    <2>1. d * q >= d * (m + 1) /\ d * (m + 1) = m * d + d
      BY <1>1
    <2> HIDE DEF q, r
    <2> QED BY <1>1, <2>1
  <1>3. q = m => r = 0
    <2> SUFFICES ASSUME q = m PROVE r = 0
      OBVIOUS
    <2>1. d * q = m * d
      BY <1>1
    <2> HIDE DEF q, r
    <2> QED BY <1>1, <2>1
  <1>4. RoundHalfEven(a, d) = CASE 2 * r < d -> q [] 2 * r > d -> q + 1
                                [] OTHER -> IF q % 2 = 0 THEN q ELSE q + 1
    BY DEF RoundHalfEven
  <1> HIDE DEF q, r
  <1>5. RoundHalfEven(a, d) \in {q, q + 1} /\ (r = 0 => RoundHalfEven(a, d) = q)
    BY <1>1, <1>4
  <1> QED BY <1>1, <1>2, <1>3, <1>5

\* A step of the way down the table is neither above its start nor below its end.
LEMMA EasedWithin ==
    ASSUME NEW start \in Nat, NEW diff \in Nat, NEW n \in Nat \ {0}, NEW i \in 1..(n - 1)
    PROVE  EasedRow(start, diff, i, n) \in start..(start + diff)
  <1> DEFINE ease == IF 2 * i < n THEN 2 * i * i ELSE n * n - 2 * (n - i) * (n - i)
  <1>1. ease \in 0..(n * n)
    <2>1. CASE 2 * i < n
      <3>1. 2 * i * i \in Nat /\ (2 * i) * i <= n * i /\ n * i <= n * n
        BY <2>1
      <3> QED BY <2>1, <3>1
    <2>2. CASE ~(2 * i < n)
      <3> DEFINE j == n - i
      <3>1. j \in Nat /\ 2 * j <= n /\ j <= n
        BY <2>2
      <3> HIDE DEF j
      <3>2. 2 * j * j \in Nat /\ (2 * j) * j <= n * j /\ n * j <= n * n
        BY <3>1
      <3> QED BY <2>2, <3>1, <3>2 DEF j
    <2> QED BY <2>1, <2>2
  <1>2. EasedRow(start, diff, i, n) = start + RoundHalfEven(ease * diff, n * n)
    BY DEF EasedRow
  <1> HIDE DEF ease
  <1>3. n * n \in Nat \ {0} /\ ease * diff \in Nat /\ ease * diff <= diff * (n * n)
    BY <1>1
  <1>4. RoundHalfEven(ease * diff, n * n) \in 0..diff
    BY <1>3, RoundWithin
  <1> QED BY <1>2, <1>4

\* compute_cursor_path: whatever the easing rounds to, the way down stays between
\* its ends and ends at the target.
LEMMA PathLeadsToTarget ==
    ASSUME NEW start \in Nat, NEW target \in Nat, start <= target, NEW most \in Nat \ {0}
    PROVE  LET path == CursorPath(start, target, most)
           IN  path \in Seq(start..target) /\ Len(path) > 0 /\ Last(path) = target
  <1> DEFINE diff == target - start
             dist == IF diff >= 0 THEN diff ELSE -diff
             dir  == IF diff >= 0 THEN 1 ELSE -1
             row(i) == EasedRow(start, diff, i, most)
             S == Seq(start..target) \ {<<>>}
             Rec(f) == f = [i \in 0..(most - 1) |->
                 IF i = 0 THEN <<start>>
                 ELSE IF row(i) = Last(f[i - 1]) THEN f[i - 1]
                 ELSE Append(f[i - 1], row(i))]
             upTo == CHOOSE f : Rec(f)
             round == [i \in 1..(most - 1) |-> [p \in S |->
                 IF row(i) = Last(p) THEN p ELSE Append(p, row(i))]]
             eased == upTo[most - 1]
             linear == [i \in 1..(dist + 1) |-> start + dir * (i - 1)]
  <1>1. CursorPath(start, target, most) =
            IF dist <= most THEN linear
            ELSE IF Last(eased) = target THEN eased
            ELSE Append(eased, target)
    BY DEF CursorPath
  <1>2. diff \in Nat /\ dist = diff /\ dir = 1 /\ start + diff = target
    OBVIOUS
  <1> HIDE DEF dist, dir, diff
  <1>3. \A i \in 1..(most - 1) : row(i) \in start..target
    BY <1>2, EasedWithin
  <1> HIDE DEF row
  <1>4. \E f \in [0..(most - 1) -> S] : Rec(f)
    <2>1. round \in [1..(most - 1) -> [S -> S]]
      <3> SUFFICES ASSUME NEW i \in 1..(most - 1), NEW p \in S
                   PROVE  (IF row(i) = Last(p) THEN p ELSE Append(p, row(i))) \in S
        OBVIOUS
      <3>1. Append(p, row(i)) \in Seq(start..target) /\ Append(p, row(i)) # <<>>
        BY <1>3
      <3> QED BY <3>1
    <2>2. <<start>> \in S
      OBVIOUS
    <2>3. PICK f \in [0..(most - 1) -> S] : GoesOn(f, most - 1, <<start>>, round)
      <3> DEFINE M == most - 1  first == <<start>>
      <3>1. M \in Nat /\ first \in S /\ round \in [1..M -> [S -> S]]
        BY <2>1, <2>2
      <3> HIDE DEF round, S, M, first, Rec
      <3>2. \E f \in [0..M -> S] : GoesOn(f, M, first, round)
        BY <3>1, RecursionExists, Zenon
      <3> QED BY <3>2 DEF M, first
    <2>4. ASSUME NEW i \in 1..(most - 1)
          PROVE  round[i][f[i - 1]] = IF row(i) = Last(f[i - 1]) THEN f[i - 1]
                                     ELSE Append(f[i - 1], row(i))
      <3>1. f[i - 1] \in S
        BY <2>3
      <3> HIDE DEF S
      <3> QED BY <3>1
    <2> HIDE DEF round, S
    <2>5. \A i \in 0..(most - 1) :
              f[i] = IF i = 0 THEN <<start>>
                     ELSE IF row(i) = Last(f[i - 1]) THEN f[i - 1]
                     ELSE Append(f[i - 1], row(i))
      <3> TAKE i \in 0..(most - 1)
      <3>1. i = 0 \/ i \in 1..(most - 1)
        OBVIOUS
      <3> QED BY <2>3, <2>4, <3>1 DEF GoesOn
    <2>6. f = [i \in 0..(most - 1) |-> f[i]]
      BY <2>3
    <2> QED BY <2>3, <2>5, <2>6
  <1>5. Rec(upTo)
    BY <1>4
  <1> HIDE DEF upTo
  \* and there is one such function
  <1>6. eased \in S
    <2> DEFINE P == {i \in 0..(most - 1) : upTo[i] \in S}
    <2>1. 0 \in P
      BY <1>5
    <2>2. ASSUME NEW i \in 1..(most - 1), i - 1 \in P PROVE i \in P
      <3>1. upTo[i - 1] \in S /\ i \in 0..(most - 1) /\ i # 0
        BY <2>2
      <3>2. upTo[i] = IF row(i) = Last(upTo[i - 1]) THEN upTo[i - 1]
                      ELSE Append(upTo[i - 1], row(i))
        BY <1>5, <3>1
      <3>3. Append(upTo[i - 1], row(i)) \in Seq(start..target) /\ Append(upTo[i - 1], row(i)) # <<>>
        BY <1>3, <3>1
      <3>4. upTo[i] \in S
        BY <3>1, <3>2, <3>3
      <3> QED BY <3>1, <3>4
    <2> HIDE DEF P
    <2>3. most - 1 \in Nat /\ most - 1 \in 0..(most - 1)
      OBVIOUS
    <2>4. \A i \in 0..(most - 1) : i \in P
      <3> DEFINE M == most - 1
      <3>1. M \in Nat /\ 0 \in P /\ \A i \in 1..M : i - 1 \in P => i \in P
        BY <2>1, <2>2, <2>3
      <3> HIDE DEF M
      <3>2. \A i \in 0..M : i \in P
        BY <3>1, UpTo, Zenon
      <3> QED BY <3>2 DEF M
    <2> QED BY <2>3, <2>4 DEF P
  <1> HIDE DEF eased, Rec, round, linear, S
  <1>7. CASE dist <= most
    <2>1. CursorPath(start, target, most) = linear
      BY <1>1, <1>7
    <2>2. \A i \in 1..(dist + 1) : start + dir * (i - 1) \in start..target
      BY <1>2
    <2>3. linear \in Seq(start..target) /\ Len(linear) = dist + 1
      BY <1>2, <2>2 DEF linear
    <2>4. linear[dist + 1] = start + dir * dist
      BY <1>2 DEF linear
    <2>5. start + diff = target
      BY DEF diff
    <2> QED BY <1>2, <2>1, <2>3, <2>4, <2>5 DEF Last
  <1>8. CASE ~(dist <= most)
    <2>1. CursorPath(start, target, most) =
              IF Last(eased) = target THEN eased ELSE Append(eased, target)
      BY <1>1, <1>8
    <2>2. eased \in Seq(start..target) /\ Len(eased) > 0
      BY <1>6 DEF S
    <2>3. CASE Last(eased) = target
      BY <2>1, <2>2, <2>3
    <2>4. CASE Last(eased) # target
      <3>1. /\ Append(eased, target) \in Seq(start..target)
            /\ Len(Append(eased, target)) = Len(eased) + 1
            /\ Append(eased, target)[Len(eased) + 1] = target
        BY <2>2
      <3> QED BY <2>1, <2>2, <2>4, <3>1 DEF Last
    <2> QED BY <2>3, <2>4
  <1> QED BY <1>7, <1>8

---------------------------------------------------------------------------
(* The player: what the keys and clocks do to the pane and the cursor *)

PlayTypeOK ==
    /\ focus \in {"tree", "pane"} /\ stack \in Seq(Frame)
    /\ session \in {NoTutorial} \cup 0..N
    /\ landing \in BOOLEAN /\ auto \in BOOLEAN /\ blinking \in BOOLEAN
    /\ left \in Nat /\ cursor \in Rows
    /\ nav \in [path: Seq(Rows), at: Nat]
    /\ Travelling => nav.at \in 1..(Len(nav.path) - 1)

TravelsToTheRow == Travelling => OnStep /\ Last(nav.path) = Target[session]

Player == PlayTypeOK /\ TravelsToTheRow

playerVars == <<focus, landing, stack, playVars, navigatorVars>>

LEMMA Sizes ==
    /\ N \in Nat \ {0} /\ \A i \in 1..N : Target[i] \in Rows \cup {NoRow}
    /\ 1 \in 1..N /\ 0 \in 0..N
    /\ LastRow \in Nat /\ MaxSteps \in Nat \ {0} /\ 0 \in Rows /\ Rows \subseteq Nat
    /\ DwellTravel \in Nat /\ DwellInPlace \in Nat
  <1>1. N \in Nat \ {0} /\ \A i \in 1..N : Target[i] \in Rows \cup {NoRow}
    BY SidebarAssumption DEF N
  <1> QED BY <1>1, SidebarAssumption, NavigatorAssumption DEF Rows

LEMMA StillTyped == Still \in [path: Seq(Rows), at: Nat] /\ Still.path = <<>>
  BY DEF Still

LEMMA FrontTyped == ASSUME NEW S, NEW s \in Seq(S), s # <<>> PROVE Front(s) \in Seq(S)
  <1>1. Len(s) \in Nat /\ Len(s) >= 1 /\ \A i \in 1..(Len(s) - 1) : s[i] \in S
    OBVIOUS
  <1>2. SubSeq(s, 1, Len(s) - 1) \in Seq(S)
    BY <1>1, SubSeqProperties
  <1> QED BY <1>2 DEF Front

LEMMA Frames ==
    /\ \A i \in 0..N : StepFrame(i) \in Frame
    /\ \A n \in Nodes \cup {NoNode} : EntryFrame(n) \in Frame
    /\ SourceFrame \in Frame
  BY Sizes DEF StepFrame, EntryFrame, SourceFrame, Frame

LEMMA SnapIsARow == PlayTypeOK => SnapTo \in Rows
  <1> SUFFICES ASSUME PlayTypeOK, nav.path # <<>> PROVE nav.path[Len(nav.path)] \in Rows
    BY DEF PlayTypeOK, SnapTo, Travelling, Last
  <1>1. nav.path \in Seq(Rows)
    BY DEF PlayTypeOK
  <1>2. Len(nav.path) \in 1..Len(nav.path)
    BY <1>1
  <1> QED BY <1>1, <1>2

\* The cursor is at the target or on its way there.
LEMMA NavigateLeads ==
    ASSUME NEW target \in Rows, Navigate(0, target)
    PROVE  /\ cursor' \in Rows /\ nav' \in [path: Seq(Rows), at: Nat]
           /\ nav'.path # <<>> => /\ nav'.at \in 1..(Len(nav'.path) - 1)
                                  /\ Last(nav'.path) = target
  <1> DEFINE path == CursorPath(0, target, MaxSteps)
  <1>1. path \in Seq(0..target) /\ Len(path) > 0 /\ Last(path) = target
    <2>1. target \in Nat /\ 0 <= target /\ 0 \in Nat
      BY Sizes DEF Rows
    <2> QED BY <2>1, Sizes, PathLeadsToTarget
  <1>2. 0..target \subseteq Rows /\ target \in Nat
    BY Sizes DEF Rows
  <1>3. \/ nav' = Still /\ cursor' = target
        \/ Len(path) > 1 /\ nav' = [path |-> path, at |-> 1] /\ cursor' = Head(path)
    BY <1>1 DEF Navigate
  <1> HIDE DEF path
  <1>4. path \in Seq(Rows)
    <2>1. Len(path) \in Nat /\ path \in [1..Len(path) -> 0..target]
      BY <1>1, LenProperties
    <2>2. path \in [1..Len(path) -> Rows]
      BY <1>2, <2>1
    <2> QED BY <2>1, <2>2, IsASeq
  <1>5. CASE nav' = Still /\ cursor' = target
    BY <1>5, StillTyped
  <1>6. CASE Len(path) > 1 /\ nav' = [path |-> path, at |-> 1] /\ cursor' = Head(path)
    <2>1. Head(path) \in Rows /\ 1 \in 1..(Len(path) - 1)
      BY <1>4, <1>6
    <2> QED BY <1>1, <1>4, <1>6, <2>1
  <1> QED BY <1>3, <1>5, <1>6

\* A step shown has the cursor on its row or on its way there.
LEMMA StepTravels ==
    ASSUME NEW i \in 1..N,
           session' = i,
           IF Target[i] # NoRow /\ Target[i] > 0 THEN Navigate(0, Target[i])
           ELSE nav' = Still /\ cursor' = IF Target[i] = NoRow THEN 0 ELSE Target[i]
    PROVE  /\ session' \in 0..N /\ cursor' \in Rows /\ nav' \in [path: Seq(Rows), at: Nat]
           /\ nav'.path # <<>> => nav'.at \in 1..(Len(nav'.path) - 1)
           /\ TravelsToTheRow'
  <1>1. Target[i] \in Rows \cup {NoRow} /\ i > 0 /\ i \in 0..N
    BY Sizes
  <1>2. CASE Target[i] # NoRow /\ Target[i] > 0
    <2>1. Navigate(0, Target[i]) /\ Target[i] \in Rows
      BY <1>1, <1>2
    <2>2. /\ cursor' \in Rows /\ nav' \in [path: Seq(Rows), at: Nat]
          /\ nav'.path # <<>> => /\ nav'.at \in 1..(Len(nav'.path) - 1)
                                 /\ Last(nav'.path) = Target[i]
      BY <2>1, NavigateLeads
    <2> QED BY <1>1, <2>2 DEF TravelsToTheRow, Travelling, OnStep
  <1>3. CASE ~(Target[i] # NoRow /\ Target[i] > 0)
    <2>1. nav' = Still /\ cursor' \in Rows
      BY <1>1, <1>3, Sizes
    <2> QED BY <1>1, <2>1, StillTyped DEF TravelsToTheRow, Travelling
  <1> QED BY <1>2, <1>3

LEMMA ShowStepPlays ==
    ASSUME Player, NEW i \in 1..N, ShowStep(i), auto' \in BOOLEAN
    PROVE  Player'
  <1>1. /\ session' \in 0..N /\ cursor' \in Rows /\ nav' \in [path: Seq(Rows), at: Nat]
        /\ nav'.path # <<>> => nav'.at \in 1..(Len(nav'.path) - 1)
        /\ TravelsToTheRow'
    BY StepTravels DEF ShowStep
  <1>2. stack' \in Seq(Frame)
    <2>1. \A s \in 1..i : StepFrame(s) \in Frame
      BY Frames, Sizes
    <2> QED BY <2>1 DEF ShowStep
  <1>3. left' \in Nat /\ blinking' \in BOOLEAN /\ focus' = "pane" /\ landing' = FALSE
    BY Sizes DEF ShowStep, Player, PlayTypeOK
  <1> QED BY <1>1, <1>2, <1>3 DEF Player, PlayTypeOK, Travelling

\* Nobody travels any more, or on as before.
LEMMA StaysAPlayer ==
    ASSUME Player, stack' \in Seq(Frame), focus' \in {"tree", "pane"},
           session' \in {NoTutorial} \cup 0..N,
           landing' \in BOOLEAN, auto' \in BOOLEAN, blinking' \in BOOLEAN, left' \in Nat,
           cursor' \in Rows, nav' = Still \/ (nav' = nav /\ session' = session)
    PROVE  Player'
  <1>1. CASE nav' = Still
    BY <1>1, StillTyped DEF Player, PlayTypeOK, TravelsToTheRow, Travelling
  <1>2. CASE nav' = nav /\ session' = session
    BY <1>2 DEF Player, PlayTypeOK, TravelsToTheRow, Travelling, OnStep
  <1> QED BY <1>1, <1>2

LEMMA NextPlays == Player /\ TutorialNext => Player'
  <1> SUFFICES ASSUME Player, TutorialNext PROVE Player'
    OBVIOUS
  <1> USE Sizes
  <1>1. CASE InTutorial /\ session < N /\ ShowStep(session + 1) /\ auto' = FALSE
    <2>1. session + 1 \in 1..N
      BY <1>1 DEF InTutorial, Player, PlayTypeOK
    <2> QED BY <1>1, <2>1, ShowStepPlays
  <1>2. CASE /\ auto' = FALSE /\ nav' = Still /\ cursor' = SnapTo
             /\ left' = (IF Travelling THEN DwellTravel ELSE left)
             /\ blinking' = (blinking \/ Travelling)
             /\ UNCHANGED <<session, landing, focus, stack>>
    BY <1>2, SnapIsARow, StaysAPlayer DEF Player, PlayTypeOK
  <1>3. CASE StartAtFirst
    <2>1. ShowStep(1) /\ auto' \in BOOLEAN /\ 1 \in 1..N
      BY <1>3 DEF StartAtFirst
    <2> QED BY <2>1, ShowStepPlays
  <1> QED BY <1>1, <1>2, <1>3 DEF TutorialNext

LEMMA PrevPlays == Player /\ TutorialPrev => Player'
  <1> SUFFICES ASSUME Player, TutorialPrev PROVE Player'
    OBVIOUS
  <1> USE Sizes
  <1>1. CASE session = 1
    <2>1. /\ auto' = FALSE /\ session' = 0 /\ landing' = TRUE /\ blinking' = FALSE
          /\ nav' = Still /\ cursor' = SnapTo
          /\ left' = (IF Travelling THEN DwellTravel ELSE left)
          /\ UNCHANGED <<focus, stack>>
      BY <1>1 DEF TutorialPrev
    <2>2. cursor' \in Rows /\ left' \in Nat /\ session' \in {NoTutorial} \cup 0..N
      BY <2>1, SnapIsARow DEF Player, PlayTypeOK
    <2>3. stack' \in Seq(Frame) /\ focus' \in {"tree", "pane"}
      BY <2>1 DEF Player, PlayTypeOK
    <2> QED BY <2>1, <2>2, <2>3, StaysAPlayer
  <1>2. CASE session # 1
    <2>1. session - 1 \in 1..N
      BY <1>2 DEF TutorialPrev, OnStep, Player, PlayTypeOK, NoTutorial
    <2> QED BY <1>2, <2>1, ShowStepPlays DEF TutorialPrev
  <1> QED BY <1>1, <1>2

LEMMA AutoPlays == Player /\ ToggleAuto => Player'
  <1> SUFFICES ASSUME Player, ToggleAuto PROVE Player'
    OBVIOUS
  <1> USE Sizes
  <1>1. CASE /\ auto' \in BOOLEAN /\ left' \in Nat /\ blinking' \in BOOLEAN
             /\ UNCHANGED <<session, landing, focus, stack, cursor, nav>>
    BY <1>1, StaysAPlayer DEF Player, PlayTypeOK
  <1>2. CASE /\ auto' = TRUE /\ blinking' = TRUE
             /\ session' = 1 /\ landing' = FALSE /\ focus' = "pane"
             /\ stack' = <<StepFrame(1)>>
             /\ IF Target[1] # NoRow /\ Target[1] > 0
                THEN Navigate(0, Target[1])
                ELSE nav' = Still /\ cursor' = IF Target[1] = NoRow THEN 0 ELSE Target[1]
             /\ left' \in Nat
    <2>1. stack' \in Seq(Frame)
      BY <1>2, Frames
    <2>2. 1 \in 1..N
      OBVIOUS
    <2>3. /\ session' \in 0..N /\ cursor' \in Rows /\ nav' \in [path: Seq(Rows), at: Nat]
          /\ nav'.path # <<>> => nav'.at \in 1..(Len(nav'.path) - 1)
          /\ TravelsToTheRow'
      BY <1>2, <2>2, StepTravels
    <2> QED BY <1>2, <2>1, <2>3 DEF Player, PlayTypeOK, Travelling
  <1>3. \/ auto' = FALSE /\ left' = left /\ blinking' = blinking
           /\ UNCHANGED <<session, landing, focus, stack, cursor, nav>>
        \/ auto' = TRUE /\ blinking' = TRUE
           /\ left' = (IF Travelling THEN DwellTravel ELSE DwellInPlace)
           /\ UNCHANGED <<session, landing, focus, stack, cursor, nav>>
        \/ /\ auto' = TRUE /\ blinking' = TRUE
           /\ session' = 1 /\ landing' = FALSE /\ focus' = "pane"
           /\ stack' = <<StepFrame(1)>>
           /\ IF Target[1] # NoRow /\ Target[1] > 0
              THEN Navigate(0, Target[1])
              ELSE nav' = Still /\ cursor' = IF Target[1] = NoRow THEN 0 ELSE Target[1]
           /\ left' = (IF nav'.path # <<>> THEN DwellTravel ELSE DwellInPlace)
    BY DEF ToggleAuto
  <1>4. left \in Nat /\ blinking \in BOOLEAN
    BY DEF Player, PlayTypeOK
  <1> QED BY <1>1, <1>2, <1>3, <1>4

LEMMA FollowPlays == Player /\ FollowInTutorial => Player'
  <1> SUFFICES ASSUME Player, FollowInTutorial PROVE Player'
    OBVIOUS
  <1> USE Sizes
  <1>1. CASE session = 0 /\ ShowStep(1)
    <2>1. ShowStep(1) /\ auto' \in BOOLEAN /\ 1 \in 1..N
      BY <1>1 DEF FollowInTutorial
    <2> QED BY <2>1, ShowStepPlays
  <1>2. CASE OnStep /\ session < N /\ ShowStep(session + 1)
    <2>1. session + 1 \in 1..N
      BY <1>2 DEF OnStep, Player, PlayTypeOK, NoTutorial
    <2> QED BY <1>2, <2>1, ShowStepPlays DEF FollowInTutorial
  <1>3. CASE /\ cursor' \in {SnapTo, 0} /\ nav' = Still
             /\ left' = (IF Travelling THEN DwellTravel ELSE left)
             /\ blinking' = (blinking \/ Travelling)
             /\ stack' \in {stack, Append(stack, EntryFrame(NoNode))}
             /\ UNCHANGED <<session, landing, focus>>
    <2>1. stack' \in Seq(Frame)
      BY <1>3, Frames DEF Player, PlayTypeOK
    <2> QED BY <1>3, <2>1, SnapIsARow, StaysAPlayer DEF Player, PlayTypeOK, FollowInTutorial
  <1> QED BY <1>1, <1>2, <1>3 DEF FollowInTutorial

LEMMA ExitPlays ==
    ASSUME Player, ExitTutorial, landing' \in BOOLEAN, focus' = focus, stack' \in Seq(Frame)
    PROVE  Player'
  BY StaysAPlayer DEF ExitTutorial, Cancel, Player, PlayTypeOK

LEMMA OpenEntryPlays ==
    ASSUME Player, NEW n \in Nodes, OpenEntry(n)
    PROVE  Player'
  <1>1. stack' \in Seq(Frame)
    BY Frames DEF OpenEntry
  <1> QED BY <1>1, ExitPlays DEF OpenEntry

LEMMA TravelPlays == Player /\ Travel => Player'
  <1> SUFFICES ASSUME Player, Travel PROVE Player'
    OBVIOUS
  <1> USE Sizes
  <1>1. /\ nav \in [path: Seq(Rows), at: Nat] /\ nav.at \in 1..(Len(nav.path) - 1)
        /\ Len(nav.path) \in Nat
    BY DEF Player, PlayTypeOK, Travel, Tick
  <1>2. cursor' \in Rows
    <2>1. nav.at + 1 \in 1..Len(nav.path)
      BY <1>1
    <2>2. nav.path[nav.at + 1] \in Rows
      BY <1>1, <2>1
    <2> QED BY <2>2 DEF Travel, Tick
  <1>3. CASE Arrives
    <2>1. /\ nav' = Still /\ left' = DwellTravel /\ blinking' = TRUE
          /\ UNCHANGED <<focus, stack, landing, session, auto>>
      BY <1>3 DEF Travel, Tick
    <2> QED BY <1>2, <2>1, StaysAPlayer DEF Player, PlayTypeOK
  <1>4. CASE ~Arrives
    <2>1. nav' = [nav EXCEPT !.at = @ + 1]
      BY <1>4 DEF Travel, Tick
    <2>2. nav'.path = nav.path /\ nav'.at = nav.at + 1 /\ nav' \in [path: Seq(Rows), at: Nat]
      <3>1. nav.at + 1 \in Nat
        BY <1>1
      <3>2. nav' = [path |-> nav.path, at |-> nav.at + 1]
        BY <1>1, <2>1
      <3> QED BY <1>1, <3>1, <3>2
    <2>3. nav'.at \in 1..(Len(nav'.path) - 1)
      BY <1>1, <1>4, <2>2 DEF Arrives
    <2>4. UNCHANGED <<focus, stack, landing, session, auto, left, blinking>>
      BY <1>4 DEF Travel
    <2> QED BY <1>2, <2>2, <2>3, <2>4
            DEF Player, PlayTypeOK, TravelsToTheRow, Travelling, OnStep
  <1> QED BY <1>3, <1>4

LEMMA BlinkPlays == Player /\ Blink => Player'
  <1> SUFFICES ASSUME Player, Blink PROVE Player'
    OBVIOUS
  <1> USE Sizes
  <1>1. CASE /\ blinking' \in BOOLEAN /\ left' \in Nat /\ auto' \in BOOLEAN
             /\ UNCHANGED <<session, landing, focus, stack, cursor, nav>>
    BY <1>1, StaysAPlayer DEF Player, PlayTypeOK
  <1>2. CASE session < N /\ OnStep /\ ShowStep(session + 1) /\ auto' = (session + 1 < N)
    <2>1. session + 1 \in 1..N
      BY <1>2 DEF OnStep, Player, PlayTypeOK, NoTutorial
    <2> QED BY <1>2, <2>1, ShowStepPlays
  <1>3. left \in Nat /\ auto \in BOOLEAN /\ blinking \in BOOLEAN
    BY DEF Player, PlayTypeOK
  <1>4. Counting => left - 1 \in Nat
    BY <1>3 DEF Counting
  <1> QED BY <1>1, <1>2, <1>3, <1>4 DEF Blink, AutoStep

LEMMA NextKeepsPlayer ==
    ASSUME Player, node \in Nodes \cup {NoNode}, Next
    PROVE  Player'
  <1> USE Sizes
  <1>0. ASSUME UNCHANGED playerVars PROVE Player'
    BY <1>0, StaysAPlayer DEF playerVars, playVars, navigatorVars, Player, PlayTypeOK
  <1>1. CASE PlayerKey
    BY <1>1, NextPlays, PrevPlays, AutoPlays DEF PlayerKey
  <1>2. CASE PressEnterOnRow
    BY <1>2, FollowPlays DEF PressEnterOnRow
  <1>3. CASE Back
    <2>1. CASE /\ Len(stack) > 1 /\ stack' = Front(stack) /\ cursor' = 0
               /\ UNCHANGED <<focus, landing, playVars, nav>>
      <3>1. stack' \in Seq(Frame)
        BY <2>1, FrontTyped DEF Player, PlayTypeOK
      <3> QED BY <2>1, <3>1, StaysAPlayer DEF playVars, Player, PlayTypeOK
    <2>2. CASE ExitTutorial /\ landing' = FALSE /\ UNCHANGED <<focus, stack>>
      BY <2>2, ExitPlays DEF Player, PlayTypeOK
    <2> QED BY <1>3, <2>1, <2>2, PrevPlays DEF Back
  <1>4. CASE Escape
    BY <1>4, ExitPlays DEF Escape, Player, PlayTypeOK
  <1>5. CASE SelectNode
    <2>1. node \in Nodes
      BY <1>5 DEF SelectNode, InTree
    <2>2. CASE OpenEntry(node)
      BY <2>1, <2>2, OpenEntryPlays
    <2>3. CASE ShowStep(1) /\ UNCHANGED auto
      <3>1. ShowStep(1) /\ auto' \in BOOLEAN /\ 1 \in 1..N
        BY <2>3 DEF Player, PlayTypeOK
      <3> QED BY <3>1, ShowStepPlays
    <2>4. CASE ShowLanding /\ UNCHANGED auto
      BY <2>4, StaysAPlayer DEF ShowLanding, Cancel, Player, PlayTypeOK
    <2> QED BY <1>5, <2>2, <2>3, <2>4 DEF SelectNode, OpenTutorial
  <1>6. ASSUME NEW n \in Nodes, FollowIndexRow(n) PROVE Player'
    <2>1. stack' \in Seq(Frame)
      BY <1>6, Frames DEF FollowIndexRow, Player, PlayTypeOK
    <2>2. cursor' = 0 /\ UNCHANGED <<focus, landing, playVars, nav>>
      BY <1>6 DEF FollowIndexRow
    <2> QED BY <2>1, <2>2, StaysAPlayer DEF playVars, Player, PlayTypeOK
  <1>14. CASE OpenSource
    <2>1. stack' \in Seq(Frame)
      BY <1>14, Frames DEF OpenSource, Player, PlayTypeOK
    <2>2. cursor' \in Rows /\ UNCHANGED <<focus, landing, playVars, nav>>
      BY <1>14 DEF OpenSource
    <2> QED BY <2>1, <2>2, StaysAPlayer DEF playVars, Player, PlayTypeOK
  <1>7. ASSUME NEW r \in Rows, MoveCursor(r) PROVE Player'
    BY <1>7, StaysAPlayer DEF MoveCursor, playVars, Player, PlayTypeOK
  <1>8. ASSUME NEW to \in {"tree", "pane"}, MoveFocus(to) PROVE Player'
    BY <1>8, StaysAPlayer DEF MoveFocus, playVars, navigatorVars, Player, PlayTypeOK
  <1>9. ASSUME NEW v \in {"structures", "tutorials"}, SwitchView(v) PROVE Player'
    <2>1. CASE ExitTutorial /\ landing' = FALSE
      BY <1>9, <2>1, ExitPlays DEF SwitchView, Player, PlayTypeOK
    <2>2. CASE landing' \in BOOLEAN /\ UNCHANGED <<playVars, navigatorVars>>
      BY <1>9, <2>2, StaysAPlayer
         DEF SwitchView, playVars, navigatorVars, Player, PlayTypeOK
    <2> QED BY <1>9, <2>1, <2>2 DEF SwitchView, Player, PlayTypeOK
  <1>10. ASSUME NEW n \in Nodes, Preview(n) PROVE Player'
    <2>1. CASE OpenEntry(n)
      BY <2>1, OpenEntryPlays
    <2>2. CASE PreviewTutorial
      BY <2>2, StaysAPlayer
         DEF PreviewTutorial, playVars, navigatorVars, Player, PlayTypeOK
    <2>3. CASE UNCHANGED <<focus, stack, landing, playVars, navigatorVars>>
      BY <1>0, <2>3 DEF playerVars
    <2> QED BY <1>10, <2>1, <2>2, <2>3 DEF Preview
  <1>11. CASE Cover \/ Uncover \/ Highlighted \/ \E n \in Nodes : MoveInTree(n)
    BY <1>0, <1>11 DEF Cover, Uncover, Highlighted, MoveInTree, playerVars
  <1>12. CASE Blink \/ Travel
    BY <1>12, BlinkPlays, TravelPlays
  <1> QED BY <1>1, <1>2, <1>3, <1>4, <1>5, <1>6, <1>7, <1>8, <1>9, <1>10, <1>11, <1>12,
             <1>14
          DEF Next, User, Clock

---------------------------------------------------------------------------
(* The table under the travelling cursor *)

OverItsTable == strayed \in BOOLEAN /\ (Travelling => OnItsTable \/ strayed)

\* A step shows its table, and no step of the program puts another one on the
\* screen while the cursor goes on, but for those the history is of.
StepShown(i) == session' = i /\ landing' = FALSE /\ stack' = [s \in 1..i |-> StepFrame(s)]

GoesOnAsBefore == /\ session' = session /\ nav'.path = nav.path
                  /\ Strays \/ UNCHANGED <<stack, landing>>

LEMMA TableKept ==
    ASSUME OverItsTable, Remember,
           nav'.path = <<>> \/ GoesOnAsBefore \/ \E i \in 1..N : StepShown(i)
    PROVE  OverItsTable'
  <1>1. strayed' \in BOOLEAN
    BY DEF Remember
  <1>2. CASE nav'.path = <<>>
    BY <1>1, <1>2 DEF OverItsTable, Travelling
  <1>3. CASE GoesOnAsBefore
    <2>1. CASE Strays
      BY <1>1, <1>3, <2>1 DEF GoesOnAsBefore, Remember, OverItsTable, Travelling
    <2>2. CASE UNCHANGED <<stack, landing>>
      BY <1>1, <1>3, <2>2 DEF GoesOnAsBefore, Remember, OverItsTable, Travelling, OnItsTable
    <2> QED BY <1>3, <2>1, <2>2 DEF GoesOnAsBefore
  <1>4. ASSUME NEW i \in 1..N, StepShown(i) PROVE OverItsTable'
    <2>1. Len(stack') = i /\ stack'[i] = StepFrame(i) /\ i \in Nat /\ i > 0
      BY <1>4, Sizes DEF StepShown
    <2>2. stack' # <<>> /\ Last(stack') = StepFrame(session')
      BY <1>4, <2>1 DEF StepShown, Last
    <2> QED BY <1>1, <1>4, <2>2 DEF StepShown, OverItsTable, OnItsTable
  <1> QED BY <1>2, <1>3, <1>4

LEMMA NextKeepsTable ==
    ASSUME Player, OverItsTable, Next
    PROVE  OverItsTable'
  <1> DEFINE Keeps == nav'.path = <<>> \/ GoesOnAsBefore \/ \E i \in 1..N : StepShown(i)
  <1>18. Remember
    BY DEF Next, User, Clock, PlayerKey, PressEnterOnRow, OpenSource, Back, Escape, SelectNode,
           Cover, Uncover, FollowIndexRow, MoveInTree, MoveCursor, MoveFocus, SwitchView,
           Highlighted, Blink, Travel, Preview
  <1> SUFFICES Keeps
    BY <1>18, TableKept
  <1>1. session \in {NoTutorial} \cup 0..N /\ Still.path = <<>>
    BY StillTyped DEF Player, PlayTypeOK
  <1>2. ASSUME NEW i, ShowStep(i) PROVE StepShown(i)
    BY <1>2 DEF ShowStep, StepShown
  <1>3. ASSUME ExitTutorial PROVE nav'.path = <<>>
    BY <1>1, <1>3 DEF ExitTutorial, Cancel
  <1>4. CASE TutorialNext
    <2>1. CASE InTutorial /\ session < N /\ ShowStep(session + 1)
      <3>1. session + 1 \in 1..N /\ StepShown(session + 1)
        BY <1>1, <1>2, <2>1, Sizes DEF InTutorial
      <3> QED BY <3>1
    <2>2. CASE nav' = Still
      BY <1>1, <2>2
    <2>3. CASE StartAtFirst
      BY <1>2, <2>3, Sizes DEF StartAtFirst
    <2> QED BY <1>4, <2>1, <2>2, <2>3 DEF TutorialNext
  <1>5. CASE TutorialPrev
    <2>1. CASE session = 1
      BY <1>1, <1>5, <2>1 DEF TutorialPrev
    <2>2. CASE session # 1
      <3>1. session - 1 \in 1..N /\ StepShown(session - 1)
        BY <1>1, <1>2, <1>5, <2>2, Sizes DEF TutorialPrev, OnStep, NoTutorial
      <3> QED BY <3>1
    <2> QED BY <2>1, <2>2
  <1>6. CASE ToggleAuto
    <2>1. CASE UNCHANGED <<session, landing, stack, nav>>
      BY <2>1 DEF GoesOnAsBefore
    <2>2. CASE session' = 1 /\ landing' = FALSE /\ stack' = <<StepFrame(1)>>
      <3>1. <<StepFrame(1)>> = [s \in 1..1 |-> StepFrame(s)]
        OBVIOUS
      <3> QED BY <2>2, <3>1, Sizes DEF StepShown
    <2> QED BY <1>6, <2>1, <2>2 DEF ToggleAuto
  <1>7. CASE FollowInTutorial
    <2>1. CASE session = 0 /\ ShowStep(1)
      BY <1>2, <2>1, Sizes
    <2>2. CASE OnStep /\ session < N /\ ShowStep(session + 1)
      <3>1. session + 1 \in 1..N /\ StepShown(session + 1)
        BY <1>1, <1>2, <2>2, Sizes DEF OnStep, NoTutorial
      <3> QED BY <3>1
    <2>3. CASE nav' = Still
      BY <1>1, <2>3
    <2> QED BY <1>7, <2>1, <2>2, <2>3 DEF FollowInTutorial
  <1>8. CASE OpenSource
    BY <1>8 DEF OpenSource, GoesOnAsBefore, playVars, Strays
  <1>9. CASE Back
    <2>1. CASE /\ Len(stack) > 1 /\ stack' = Front(stack)
               /\ UNCHANGED <<playVars, nav>>
      <3>1. stack # <<>>
        BY <2>1, EmptySeq DEF Player, PlayTypeOK
      <3> QED BY <2>1, <3>1 DEF GoesOnAsBefore, playVars, Strays
    <2> QED BY <1>3, <1>5, <1>9, <2>1 DEF Back
  <1>10. CASE SelectNode
    <2>1. CASE OpenEntry(node)
      BY <1>3, <2>1 DEF OpenEntry
    <2>2. CASE OpenTutorial
      <3>1. CASE ShowStep(1)
        BY <1>2, <3>1, Sizes
      <3>2. CASE ShowLanding
        BY <1>1, <3>2 DEF ShowLanding, Cancel
      <3> QED BY <2>2, <3>1, <3>2 DEF OpenTutorial
    <2> QED BY <1>10, <2>1, <2>2 DEF SelectNode
  <1>11. ASSUME NEW v \in {"structures", "tutorials"}, SwitchView(v) PROVE Keeps
    <2>1. CASE InTutorial /\ ExitTutorial
      BY <1>3, <2>1
    <2>2. CASE UNCHANGED <<landing, playVars, navigatorVars, stack>>
      BY <2>2 DEF GoesOnAsBefore, playVars, navigatorVars
    <2>3. CASE ~ InTutorial /\ UNCHANGED <<playVars, navigatorVars>>
      <3>1. nav.path = <<>>
        BY <2>3, <1>1 DEF Player, TravelsToTheRow, Travelling, OnStep, InTutorial, NoTutorial
      <3> QED BY <2>3, <3>1 DEF navigatorVars
    <2> QED BY <1>11, <2>1, <2>2, <2>3 DEF SwitchView
  <1>12. ASSUME NEW n \in Nodes, Preview(n) PROVE Keeps
    <2>1. CASE OpenEntry(n)
      BY <1>3, <2>1 DEF OpenEntry
    <2>2. CASE PreviewTutorial
      <3>1. UNCHANGED <<session, nav, stack>> /\ landing' = TRUE
        BY <2>2 DEF PreviewTutorial, playVars, navigatorVars
      <3>2. landing \in BOOLEAN
        BY DEF Player, PlayTypeOK
      <3> QED BY <3>1, <3>2 DEF GoesOnAsBefore, Strays
    <2>3. CASE UNCHANGED <<focus, stack, landing, playVars, navigatorVars>>
      BY <2>3 DEF GoesOnAsBefore, playVars, navigatorVars
    <2> QED BY <1>12, <2>1, <2>2, <2>3 DEF Preview
  <1>13. ASSUME NEW n \in Nodes, FollowIndexRow(n) PROVE Keeps
    <2>1. nav.path = <<>> /\ nav' = nav
      BY <1>1, <1>13 DEF FollowIndexRow, Player, TravelsToTheRow, Travelling, OnStep,
                         InTutorial, NoTutorial
    <2> QED BY <2>1
  <1>14. CASE Blink
    <2>1. CASE UNCHANGED <<session, landing, stack, nav>>
      BY <2>1 DEF GoesOnAsBefore
    <2>2. CASE OnStep /\ session < N /\ ShowStep(session + 1)
      <3>1. session + 1 \in 1..N /\ StepShown(session + 1)
        BY <1>1, <1>2, <2>2, Sizes DEF OnStep, NoTutorial
      <3> QED BY <3>1
    <2> QED BY <1>14, <2>1, <2>2 DEF Blink, AutoStep
  <1>15. CASE Travel
    <2>1. nav' = Still \/ nav'.path = nav.path
      BY <1>15 DEF Travel, Tick, Player, PlayTypeOK
    <2> QED BY <1>1, <1>15, <2>1 DEF Travel, GoesOnAsBefore
  <1>16. CASE Escape
    BY <1>3, <1>16 DEF Escape
  <1>17. CASE \/ Cover \/ Uncover \/ Highlighted \/ \E n \in Nodes : MoveInTree(n)
              \/ \E r \in Rows : MoveCursor(r)
              \/ \E to \in {"tree", "pane"} : MoveFocus(to)
    <2>1. UNCHANGED <<session, landing, stack, nav>>
      BY <1>17 DEF Cover, Uncover, Highlighted, MoveInTree, MoveCursor, MoveFocus,
                   playVars, navigatorVars
    <2> QED BY <2>1 DEF GoesOnAsBefore
  <1> QED
    BY <1>4, <1>5, <1>6, <1>7, <1>8, <1>9, <1>10, <1>11, <1>12, <1>13, <1>14, <1>15, <1>16,
       <1>17 DEF Next, User, Clock, PlayerKey, PressEnterOnRow

---------------------------------------------------------------------------
(* The tree: the last highlight on its way is that of the tree's cursor *)

TreeTypeOK ==
    /\ view \in {"structures", "tutorials"}
    /\ node \in Nodes \cup {NoNode} /\ synced \in Nodes \cup {NoNode}
    /\ events \in Seq(Nodes) /\ timers \subseteq Nodes
    /\ above \in BOOLEAN /\ browsing \in BOOLEAN

LastEvent == events # <<>> => node = NoNode \/ events[Len(events)] = node

Tree == TreeTypeOK /\ LastEvent /\ PreviewOfCursor

Inv == Player /\ OverItsTable /\ Tree

LEMMA NextKeepsTree ==
    ASSUME Inv, Next
    PROVE  Tree'
  <1> USE DEF Inv
  <1>1. /\ view \in {"structures", "tutorials"} /\ node \in Nodes \cup {NoNode}
        /\ synced \in Nodes \cup {NoNode} /\ events \in Seq(Nodes) /\ timers \subseteq Nodes
        /\ above \in BOOLEAN /\ browsing \in BOOLEAN /\ Len(events) \in Nat
    BY DEF Tree, TreeTypeOK
  <1>2. ASSUME UNCHANGED treeVars, above' \in BOOLEAN, browsing' \in BOOLEAN PROVE Tree'
    BY <1>2 DEF treeVars, Tree, TreeTypeOK, LastEvent, PreviewOfCursor
  \* a highlight that is to come is the cursor's
  <1>3. ASSUME NEW n \in Nodes, events' = Append(events, n)
        PROVE  events' \in Seq(Nodes) /\ events' # <<>> /\ events'[Len(events')] = n
    BY <1>1, <1>3
  <1>4. ASSUME NEW n \in Nodes, FollowIndexRow(n) PROVE Tree'
    <2>1. /\ UNCHANGED <<view, above>> /\ browsing' = FALSE /\ SyncTree(n) /\ timers' = {}
      BY <1>4 DEF FollowIndexRow, KeyInPane, Key, CancelPreview
    <2>2. CASE ~InTree(n)
      BY <1>1, <2>1, <2>2 DEF SyncTree, Tree, TreeTypeOK, LastEvent, PreviewOfCursor
    <2>3. CASE InTree(n) /\ node = n
      BY <1>1, <2>1, <2>3
         DEF SyncTree, Tree, TreeTypeOK, LastEvent, PreviewOfCursor
    <2>4. CASE InTree(n) /\ node # n
      BY <1>1, <1>3, <2>1, <2>4
         DEF SyncTree, Tree, TreeTypeOK, LastEvent, PreviewOfCursor
    <2> QED BY <2>2, <2>3, <2>4
  <1>5. ASSUME NEW n \in Nodes, MoveInTree(n) PROVE Tree'
    BY <1>1, <1>3, <1>5 DEF MoveInTree, Tree, TreeTypeOK, LastEvent, PreviewOfCursor
  <1>6. ASSUME NEW v \in {"structures", "tutorials"}, SwitchView(v) PROVE Tree'
    BY <1>1, <1>6 DEF SwitchView, Key, Tree, TreeTypeOK, LastEvent, PreviewOfCursor
  <1>7. CASE Highlighted
    <2>1. /\ events # <<>> /\ events' = Tail(events)
          /\ UNCHANGED <<view, node, above, browsing>>
          /\ timers' \in {{}, {Head(events)}} /\ synced' \in {NoNode, synced}
      BY <1>7 DEF Highlighted, CancelPreview
    <2>2. /\ Head(events) \in Nodes /\ events' \in Seq(Nodes)
          /\ Len(events') = Len(events) - 1
          /\ \A i \in 1..Len(events') : events'[i] = events[i + 1]
      BY <1>1, <2>1
    <2>3. LastEvent'
      <3> SUFFICES ASSUME events' # <<>>, node # NoNode
                   PROVE  events'[Len(events')] = node
        BY <2>1 DEF LastEvent
      <3>1. Len(events') \in 1..Len(events')
        BY <2>2
      <3> QED BY <1>1, <2>1, <2>2, <3>1 DEF Tree, LastEvent
    <2>4. PreviewOfCursor'
      <3> SUFFICES ASSUME NEW n \in timers', events' = <<>>, node # NoNode
                   PROVE  n = node
        BY <2>1 DEF PreviewOfCursor
      <3>1. Len(events) = 1 /\ n = Head(events)
        BY <1>1, <2>1, <2>2
      <3>2. Head(events) = events[1]
        BY <1>1, <2>1
      <3> QED BY <2>1, <3>1, <3>2 DEF Tree, LastEvent
    <2> QED BY <1>1, <2>1, <2>2, <2>3, <2>4 DEF Tree, TreeTypeOK
  <1>8. ASSUME NEW n \in Nodes, Preview(n) PROVE Tree'
    BY <1>1, <1>8 DEF Preview, Tree, TreeTypeOK, LastEvent, PreviewOfCursor
  <1>9. CASE PlayerKey \/ Back \/ Escape \/ Cover \/ Uncover
    BY <1>1, <1>2, <1>9 DEF PlayerKey, Back, Escape, Cover, Uncover, Key
  <1>13. CASE PressEnterOnRow \/ OpenSource \/ SelectNode
    <2>1. /\ UNCHANGED <<view, node, events, synced, above>> /\ browsing' = FALSE
          /\ timers' \in {{}, timers}
      BY <1>13 DEF PressEnterOnRow, OpenSource, SelectNode, KeyInPane, KeyInTree, Key,
                   CancelPreview
    <2> QED BY <1>1, <2>1 DEF Tree, TreeTypeOK, LastEvent, PreviewOfCursor
  <1>10. ASSUME NEW r \in Rows, MoveCursor(r) PROVE Tree'
    BY <1>1, <1>2, <1>10 DEF MoveCursor, KeyInPane, Key
  <1>11. ASSUME NEW to \in {"tree", "pane"}, MoveFocus(to) PROVE Tree'
    BY <1>1, <1>2, <1>11 DEF MoveFocus, Key
  <1>12. CASE Blink \/ Travel
    BY <1>1, <1>2, <1>12 DEF Blink, Travel
  <1> QED BY <1>4, <1>5, <1>6, <1>7, <1>8, <1>9, <1>10, <1>11, <1>12, <1>13
          DEF Next, User, Clock

---------------------------------------------------------------------------
LEMMA InitInv == Init => Inv
  <1> SUFFICES ASSUME Init PROVE Inv
    OBVIOUS
  <1>1. /\ timers = {} /\ above = FALSE /\ browsing = FALSE /\ strayed = FALSE
        /\ auto = FALSE /\ left = DwellTravel /\ blinking = FALSE
        /\ cursor = 0 /\ nav = Still
    BY DEF Init
  <1>2. /\ view \in {"structures", "tutorials"} /\ focus \in {"tree", "pane"}
        /\ node \in Nodes \cup {NoNode} /\ synced \in Nodes \cup {NoNode}
        /\ events \in Seq(Nodes) /\ LastEvent /\ landing \in BOOLEAN
        /\ session \in {NoTutorial} \cup 0..N /\ stack \in Seq(Frame)
    <2>1. CASE /\ view = "structures" /\ node = NoNode /\ events = <<>> /\ synced = NoNode
               /\ focus = "tree" /\ landing = FALSE /\ session = NoTutorial
               /\ \E n \in Nodes : Kind[n] = "index" /\ stack = <<EntryFrame(n)>>
      <3>1. stack \in Seq(Frame)
        BY <2>1, Frames
      <3>2. events \in Seq(Nodes) /\ LastEvent
        BY <2>1, EmptySeq DEF LastEvent
      <3> QED BY <2>1, <3>1, <3>2
    <2>2. CASE \E n \in Nodes :
               /\ Kind[n] = "tutorial"
               /\ view = "tutorials" /\ node = n /\ events = <<n>> /\ synced = n
               /\ focus = "pane" /\ landing = TRUE /\ session = 0 /\ stack = <<>>
      <3>1. events \in Seq(Nodes) /\ Len(events) = 1 /\ events[1] = node
        BY <2>2
      <3>2. session \in 0..N /\ stack \in Seq(Frame)
        BY <2>2, Sizes
      <3> QED BY <2>2, <3>1, <3>2 DEF LastEvent
    <2> QED BY <2>1, <2>2 DEF Init
  <1>3. Player
    BY <1>1, <1>2, StillTyped, Sizes DEF Player, PlayTypeOK, TravelsToTheRow, Travelling
  <1>4. Tree
    BY <1>1, <1>2 DEF Tree, TreeTypeOK, PreviewOfCursor
  <1>5. OverItsTable
    BY <1>1, StillTyped DEF OverItsTable, Travelling
  <1> QED BY <1>3, <1>4, <1>5 DEF Inv

LEMMA NextInv == Inv /\ [Next]_vars => Inv'
  <1>1. Inv /\ Next => Inv'
    BY NextKeepsPlayer, NextKeepsTable, NextKeepsTree DEF Inv, Tree, TreeTypeOK
  <1>2. Inv /\ UNCHANGED vars => Inv'
    BY DEF vars, treeVars, playVars, navigatorVars, Inv, Player, PlayTypeOK,
           TravelsToTheRow, Travelling, OnStep, OverItsTable, OnItsTable, Tree, TreeTypeOK,
           LastEvent, PreviewOfCursor
  <1> QED BY <1>1, <1>2

\* Every variable of the sidebar and the player has its type: whatever the
\* easing rounds to, the cursor is on a row of the table and the next row of its
\* way is one of the way.
THEOREM SidebarTypeCorrect == Spec => []TypeOK
  <1>1. Inv => TypeOK
    BY DEF Inv, Player, PlayTypeOK, OverItsTable, Tree, TreeTypeOK, TypeOK
  <1> QED BY <1>1, InitInv, NextInv, PTL DEF Spec

\* The cursor travels to the row of the current step, and over the table of that
\* step unless the user has gone back a frame, to the source or to a tutorial's
\* page since (exit_tutorial, _show_tutorial_step, action_back, action_source).
THEOREM TravelsForItsStep == Spec => []TravelsForTheStep
  <1>1. Inv => TravelsForTheStep
    BY DEF Inv, Player, TravelsToTheRow, OverItsTable, TravelsForTheStep
  <1> QED BY <1>1, InitInv, NextInv, PTL DEF Spec

\* An entry the cursor only passed is not previewed, in a tree of any size
\* (on_tree_node_highlighted).
THEOREM OnlyTheLastIsPreviewed == Spec => []PreviewOfCursor
  <1>1. Inv => PreviewOfCursor
    BY DEF Inv, Tree
  <1> QED BY <1>1, InitInv, NextInv, PTL DEF Spec


---------------------------------------------------------------------------
(* The steps of the tutorials *)

\* What a step shows is never a failure, and is read in one of these ways.
Reads == {"task", "threads", "search", "pages", "fd 0", "mm", "areas", "area"}
Plain(shown) == shown.read \in Reads /\ shown.type \notin {"null", "error"}
PlainSteps(steps, n) == Len(steps) = n /\ \A i \in 1..n : Plain(steps[i].shown)

LEMMA ArchitecturePlain == PlainSteps(Architecture, 9)
  <1>1. Len(Architecture) = 9
    BY DEF Architecture
  <1>2. /\ Plain(Architecture[1].shown) /\ Plain(Architecture[2].shown) /\ Plain(Architecture[3].shown)
        /\ Plain(Architecture[4].shown) /\ Plain(Architecture[5].shown) /\ Plain(Architecture[6].shown)
        /\ Plain(Architecture[7].shown) /\ Plain(Architecture[8].shown) /\ Plain(Architecture[9].shown)
    BY DEF Architecture, ArchitectureShows, Step, Shown, Home, Catalog, Kernel, Plain, Reads
  <1> QED BY <1>1, <1>2 DEF PlainSteps

LEMMA LifecyclePlain == PlainSteps(Lifecycle, 9)
  <1>1. Len(Lifecycle) = 9
    BY DEF Lifecycle
  <1>2. /\ Plain(Lifecycle[1].shown) /\ Plain(Lifecycle[2].shown) /\ Plain(Lifecycle[3].shown)
        /\ Plain(Lifecycle[4].shown) /\ Plain(Lifecycle[5].shown) /\ Plain(Lifecycle[6].shown)
        /\ Plain(Lifecycle[7].shown) /\ Plain(Lifecycle[8].shown) /\ Plain(Lifecycle[9].shown)
    BY DEF Lifecycle, LifecycleShows, Step, Shown, Home, Catalog, Kernel, Plain, Reads
  <1> QED BY <1>1, <1>2 DEF PlainSteps

LEMMA UserMemoryPlain == PlainSteps(UserMemory, 10)
  <1>1. Len(UserMemory) = 10
    BY DEF UserMemory
  <1>2. /\ Plain(UserMemory[1].shown) /\ Plain(UserMemory[2].shown) /\ Plain(UserMemory[3].shown)
        /\ Plain(UserMemory[4].shown) /\ Plain(UserMemory[5].shown) /\ Plain(UserMemory[6].shown)
        /\ Plain(UserMemory[7].shown) /\ Plain(UserMemory[8].shown) /\ Plain(UserMemory[9].shown)
        /\ Plain(UserMemory[10].shown)
    BY DEF UserMemory, MemoryShows, Step, Shown, Home, Catalog, Kernel, Plain, Reads
  <1> QED BY <1>1, <1>2 DEF PlainSteps

LEMMA PageTablePlain == PlainSteps(PageTable, 9)
  <1>1. Len(PageTable) = 9
    BY DEF PageTable
  <1>2. /\ Plain(PageTable[1].shown) /\ Plain(PageTable[2].shown) /\ Plain(PageTable[3].shown)
        /\ Plain(PageTable[4].shown) /\ Plain(PageTable[5].shown) /\ Plain(PageTable[6].shown)
        /\ Plain(PageTable[7].shown) /\ Plain(PageTable[8].shown) /\ Plain(PageTable[9].shown)
    BY DEF PageTable, PageShows, Step, Shown, Home, Catalog, Kernel, Plain, Reads
  <1> QED BY <1>1, <1>2 DEF PlainSteps

LEMMA SchedulerPlain == PlainSteps(Scheduler, 9)
  <1>1. Len(Scheduler) = 9
    BY DEF Scheduler
  <1>2. /\ Plain(Scheduler[1].shown) /\ Plain(Scheduler[2].shown) /\ Plain(Scheduler[3].shown)
        /\ Plain(Scheduler[4].shown) /\ Plain(Scheduler[5].shown) /\ Plain(Scheduler[6].shown)
        /\ Plain(Scheduler[7].shown) /\ Plain(Scheduler[8].shown) /\ Plain(Scheduler[9].shown)
    BY DEF Scheduler, SchedulerShows, Step, Shown, Home, Catalog, Kernel, Plain, Reads
  <1> QED BY <1>1, <1>2 DEF PlainSteps

LEMMA AccountingPlain == PlainSteps(Accounting, 11)
  <1>1. Len(Accounting) = 11
    BY DEF Accounting
  <1>2. /\ Plain(Accounting[1].shown) /\ Plain(Accounting[2].shown) /\ Plain(Accounting[3].shown)
        /\ Plain(Accounting[4].shown) /\ Plain(Accounting[5].shown) /\ Plain(Accounting[6].shown)
        /\ Plain(Accounting[7].shown) /\ Plain(Accounting[8].shown) /\ Plain(Accounting[9].shown)
        /\ Plain(Accounting[10].shown) /\ Plain(Accounting[11].shown)
    BY DEF Accounting, AccountingShows, Step, Shown, Home, Catalog, Kernel, Plain, Reads
  <1> QED BY <1>1, <1>2 DEF PlainSteps

LEMMA StepsArePlain ==
    ASSUME NEW t \in DOMAIN Tours
    PROVE  Len(Tours[t]) \in Nat \ {0} /\ PlainSteps(Tours[t], Len(Tours[t]))
  <1>1. DOMAIN Tours = {"process_architecture", "process_lifecycle", "user_memory_types",
                        "page_table_translation", "eevdf_scheduler", "time_accounting"}
    BY DEF Tours
  <1>2. Tours[t] \in {Architecture, Lifecycle, UserMemory, PageTable, Scheduler, Accounting}
    BY <1>1 DEF Tours
  <1>3. PICK n \in {9, 10, 11} : PlainSteps(Tours[t], n)
    BY <1>2, ArchitecturePlain, LifecyclePlain, UserMemoryPlain, PageTablePlain, SchedulerPlain,
       AccountingPlain
  <1> QED BY <1>3 DEF PlainSteps

---------------------------------------------------------------------------
(* A step fails only by a race *)

\* Of the process a resolver has chosen it is known whether it had an address
\* space, and if that has gone since, lost says so.
RaceInv ==
    /\ tour \in DOMAIN Tours /\ step \in 0..Len(Tours[tour])
    /\ mm \in [Procs -> BOOLEAN] /\ mm["init"]
    /\ chosen.set => /\ step # 0
                     /\ chosen.mm => chosen.who \in Procs /\ (mm[chosen.who] \/ lost)
    /\ FailsOnlyByRace

\* A plain step fails only when its process had an address space and has none.
LEMMA ComesToFail ==
    ASSUME NEW shown, Plain(shown), NEW t \in Comes(shown), t \in {"null", "error"}
    PROVE  chosen.mm /\ ~ mm[chosen.who]
  <1>1. CASE shown.read \in {"task", "threads", "search", "pages", "fd 0"}
    BY <1>1 DEF Comes, Plain
  <1>2. CASE shown.read \in {"mm", "areas"}
    BY <1>2 DEF Comes, Plain, ReadMm
  <1>3. CASE shown.read = "area"
    BY <1>3 DEF Comes, Plain, ReadMm
  <1> QED BY <1>1, <1>2, <1>3 DEF Plain, Reads

LEMMA AgainShows ==
    ASSUME NEW t, NEW f \in Again(t)
    PROVE  f.type \in {t, "empty"}
  BY DEF Again

LEMMA RaceInit == ToursInit => RaceInv
  <1> SUFFICES ASSUME ToursInit PROVE RaceInv
    OBVIOUS
  <1>1. "init" \in Procs
    BY DEF Procs
  <1>2. mm \in [Procs -> BOOLEAN] /\ mm["init"]
    <2>1. mm = [p \in Procs |-> threads[p] > 0] /\ threads["init"] > 0
      BY DEF ToursInit
    <2>2. \A p \in Procs : (threads[p] > 0) \in BOOLEAN
      OBVIOUS
    <2>3. mm["init"]
      BY <1>1, <2>1
    <2> QED BY <2>1, <2>2, <2>3, Zenon
  <1>3. ~ chosen.set /\ frame.type = "none"
    BY DEF ToursInit, Nobody, Blank
  <1>4. tour \in DOMAIN Tours /\ step = 0 /\ Len(Tours[tour]) \in Nat
    BY StepsArePlain DEF ToursInit
  <1> QED BY <1>2, <1>3, <1>4 DEF RaceInv, FailsOnlyByRace

LEMMA StartRace ==
    ASSUME RaceInv, NEW t \in DOMAIN Tours, Start(t)
    PROVE  RaceInv'
  BY StepsArePlain DEF Start, RaceInv, FailsOnlyByRace, Nobody, Blank, world

LEMMA LeaveRace ==
    ASSUME RaceInv, Leave
    PROVE  RaceInv'
  BY StepsArePlain DEF Leave, RaceInv, FailsOnlyByRace, Blank, world

LEMMA ChooseRace ==
    ASSUME RaceInv, Choose
    PROVE  RaceInv'
  <1>1. PICK p : chosen' = [who |-> p, mm |-> p \in Procs /\ mm[p], set |-> TRUE]
    BY DEF Choose
  <1>2. Len(Tours[tour]) \in Nat
    BY StepsArePlain DEF RaceInv
  <1>3. step' \in 0..Len(Tours[tour]) /\ step' # 0 /\ UNCHANGED <<mm, tour, frame>>
    BY <1>2 DEF Choose, world
  <1> QED BY <1>1, <1>3 DEF RaceInv, FailsOnlyByRace

LEMMA ReadRace ==
    ASSUME RaceInv, Read
    PROVE  RaceInv'
  <1>1. chosen.set /\ UNCHANGED <<mm, tour, step, lost>> /\ chosen'.set = FALSE
    BY DEF Read, world, Nobody
  <1>2. PICK t \in Comes(Now.shown) : frame' \in Again(t)
    BY DEF Read
  <1>3. Plain(Now.shown)
    <2>1. Len(Tours[tour]) \in Nat /\ PlainSteps(Tours[tour], Len(Tours[tour]))
      BY StepsArePlain DEF RaceInv
    <2>2. step \in 1..Len(Tours[tour])
      BY <1>1, <2>1 DEF RaceInv
    <2> QED BY <2>1, <2>2 DEF PlainSteps, Now
  <1>4. frame'.type \in {"null", "error"} => lost
    BY <1>1, <1>2, <1>3, AgainShows, ComesToFail DEF RaceInv
  <1> QED BY <1>1, <1>4 DEF RaceInv, FailsOnlyByRace

\* Processes start and exit: the frame and the tutorial stay as they are, and the
\* one that matters is the exit of the chosen leader.
LEMMA ProcessRace ==
    ASSUME RaceInv, NEW p \in Procs,
           Fork(p) \/ Clone(p) \/ ThreadEnds(p) \/ LeaderExits(p) \/ Reaped(p)
    PROVE  RaceInv'
  <1>1. UNCHANGED <<tour, step, chosen, frame>>
    BY DEF Fork, Clone, ThreadEnds, LeaderExits, Reaped, Elsewhere
  <1>2. /\ mm' \in [Procs -> BOOLEAN] /\ mm'["init"] /\ (lost => lost')
        /\ chosen.set /\ chosen.who \in Procs /\ mm[chosen.who] => mm'[chosen.who] \/ lost'
    <2>1. CASE Fork(p)
      BY <2>1 DEF Fork, RaceInv
    <2>2. CASE Clone(p) \/ ThreadEnds(p) \/ Reaped(p)
      BY <2>2 DEF Clone, ThreadEnds, Reaped, RaceInv
    <2>3. CASE LeaderExits(p)
      BY <2>3 DEF LeaderExits, Lose, RaceInv
    <2> QED BY <2>1, <2>2, <2>3
  <1> QED BY <1>1, <1>2 DEF RaceInv, FailsOnlyByRace

LEMMA RaceInvariant == ToursSpec => []RaceInv
  <1>1. RaceInv /\ [ToursNext]_toursVars => RaceInv'
    <2> SUFFICES ASSUME RaceInv, [ToursNext]_toursVars PROVE RaceInv'
      OBVIOUS
    <2>1. CASE ToursNext
      BY <2>1, StartRace, LeaveRace, ChooseRace, ReadRace, ProcessRace DEF ToursNext
    <2>2. CASE UNCHANGED toursVars
      BY <2>2 DEF toursVars, world, RaceInv, FailsOnlyByRace
    <2> QED BY <2>1, <2>2
  <1> QED BY <1>1, RaceInit, PTL DEF ToursSpec

\* A step of a tutorial fails or shows a null pointer only if its process exits
\* between the look of its resolver and the reading, whatever starts and exits.
THEOREM OnlyRacesFail == ToursSpec => []FailsOnlyByRace
  <1>1. RaceInv => FailsOnlyByRace
    BY DEF RaceInv
  <1> QED BY <1>1, RaceInvariant, PTL

---------------------------------------------------------------------------
(* The tour of a process keeps its process *)

Several(p) == threads[p] > 1

\* pid 1, if it has several threads or no process has; else the first that has.
FirstOfSeveral(p) ==
    \/ /\ p = "init"
       /\ Several("init") \/ \A i \in DOMAIN Order : ~ Several(Order[i])
    \/ \E i \in DOMAIN Order :
        /\ p = Order[i] /\ Several(p) /\ ~ Several("init")
        /\ \A j \in DOMAIN Order : j < i => ~ Several(Order[j])

LEMMA OrderTyped ==
    /\ DOMAIN Order \in SUBSET Nat /\ "init" \in Procs
    /\ \A i \in DOMAIN Order : Order[i] \in Procs /\ Order[i] # "init"
  <1>1. DOMAIN Order = 1..Len(Order) /\ Len(Order) \in Nat
    BY ToursAssumption
  <1>2. DOMAIN Order \in SUBSET Nat
    BY <1>1
  <1> QED BY <1>2, ToursAssumption DEF Procs

\* The search finds it.
LEMMA SearchFinds == FirstOfSeveral(Multithreaded)
  <1> DEFINE several == {i \in DOMAIN Order : threads[Order[i]] > 1}
  <1>1. several \in SUBSET Nat
    BY OrderTyped
  <1>2. CASE Several("init") \/ several = {}
    <2>1. Multithreaded = "init"
      BY <1>2 DEF Multithreaded, Several
    <2> QED BY <1>2, <2>1 DEF FirstOfSeveral, Several
  <1>3. CASE ~ Several("init") /\ several # {}
    <2>1. Multithreaded = Order[Min(several)]
      BY <1>3 DEF Multithreaded, Several
    <2>2. Min(several) \in several /\ \A j \in several : Min(several) <= j
      <3> HIDE DEF several
      <3> QED BY <1>1, <1>3, MinIsLeast
    <2> DEFINE m == Min(several)
    <2>3. m \in DOMAIN Order /\ Several(Order[m]) /\ \A j \in several : m <= j
      BY <2>2 DEF Several
    <2> HIDE DEF m
    <2>4. \A j \in DOMAIN Order : j < m => ~ Several(Order[j])
      <3> SUFFICES ASSUME NEW j \in DOMAIN Order, j < m, Several(Order[j]) PROVE FALSE
        OBVIOUS
      <3>1. j \in several
        BY DEF Several
      <3> QED BY <2>3, <3>1, OrderTyped
    <2>5. Multithreaded = Order[m]
      BY <2>1 DEF m
    <2> QED BY <1>3, <2>3, <2>4, <2>5 DEF FirstOfSeveral
  <1> QED BY <1>2, <1>3

\* There is only one.
LEMMA OneFirst ==
    ASSUME NEW p, NEW q, FirstOfSeveral(p), FirstOfSeveral(q)
    PROVE  p = q
  <1>1. CASE p = "init" \/ q = "init"
    BY <1>1, OrderTyped DEF FirstOfSeveral
  <1>2. CASE p # "init" /\ q # "init"
    <2>1. PICK i \in DOMAIN Order : /\ p = Order[i] /\ Several(p)
                                    /\ \A j \in DOMAIN Order : j < i => ~ Several(Order[j])
      BY <1>2 DEF FirstOfSeveral
    <2>2. PICK k \in DOMAIN Order : /\ q = Order[k] /\ Several(q)
                                    /\ \A j \in DOMAIN Order : j < k => ~ Several(Order[j])
      BY <1>2 DEF FirstOfSeveral
    <2>3. ~ (k < i) /\ ~ (i < k) /\ i \in Nat /\ k \in Nat
      BY <2>1, <2>2, OrderTyped
    <2>4. i = k
      BY <2>3
    <2> QED BY <2>1, <2>2, <2>4
  <1> QED BY <1>1, <1>2

\* While nothing has moved, the search would find the process that the titles
\* name, and what was found and what is shown is of it.
OfNamed ==
    /\ threads \in [Procs -> 0..2] /\ named \in Procs
    /\ step = 0 => frame.of = "kernel" /\ ~ chosen.set
    /\ step # 0 /\ tour = "process_architecture" /\ ~ moved =>
        /\ FirstOfSeveral(named)
        /\ chosen.set => chosen.who \in {named, "kernel"}
        /\ frame.of \in {named, "kernel"}

LEMMA ArchitectureOwners ==
    ASSUME NEW i \in 1..9
    PROVE  Architecture[i].shown.whose \in {"selected", "kernel"}
  <1> DEFINE Whose(k) == Architecture[k].shown.whose \in {"selected", "kernel"}
  <1>1. Whose(1) /\ Whose(2) /\ Whose(3)
    BY DEF Architecture, ArchitectureShows, Step, Shown, Home, Catalog, Kernel
  <1>2. Whose(4) /\ Whose(5) /\ Whose(6)
    BY DEF Architecture, ArchitectureShows, Step, Shown, Home, Catalog, Kernel
  <1>3. Whose(7) /\ Whose(8) /\ Whose(9)
    BY DEF Architecture, ArchitectureShows, Step, Shown, Home, Catalog, Kernel
  <1>4. i = 1 \/ i = 2 \/ i = 3 \/ i = 4 \/ i = 5 \/ i = 6 \/ i = 7 \/ i = 8 \/ i = 9
    OBVIOUS
  <1> HIDE DEF Whose
  <1>5. Whose(i)
    BY <1>1, <1>2, <1>3, <1>4
  <1> QED BY <1>5 DEF Whose

\* Whoever the search finds for a step of the tour, it is the process named.
LEMMA FoundIsNamed ==
    ASSUME FirstOfSeveral(named), tour = "process_architecture", NEW i \in 1..Len(Tours[tour]),
           NEW p \in Owners(Tours[tour][i].shown.whose)
    PROVE  p \in {named, "kernel"}
  <1>1. Tours[tour] = Architecture /\ Len(Architecture) = 9
    BY DEF Tours, Architecture
  <1>2. Tours[tour][i].shown.whose \in {"selected", "kernel"}
    BY <1>1, ArchitectureOwners
  <1>3. Multithreaded = named
    BY SearchFinds, OneFirst
  <1>4. Owners("selected") = {Multithreaded} /\ Owners("kernel") = {"kernel"}
    BY DEF Owners
  <1> QED BY <1>2, <1>3, <1>4

LEMMA OfNamedInit == ToursInit => OfNamed
  BY OrderTyped DEF ToursInit, OfNamed, Nobody, Blank

LEMMA StartNames ==
    ASSUME OfNamed, NEW t \in DOMAIN Tours, Start(t)
    PROVE  OfNamed'
  <1>1. Multithreaded \in Procs
    BY SearchFinds, OrderTyped DEF FirstOfSeveral
  <1>2. Accounted \in SUBSET Procs
    BY OrderTyped DEF Accounted, Alive
  <1>3. named' \in Procs
    BY <1>1, <1>2, OrderTyped DEF Start, NamedIn, Owners
  <1>4. t = "process_architecture" => named' = Multithreaded
    BY DEF Start, NamedIn
  <1>5. t = "process_architecture" => FirstOfSeveral(named)'
    BY <1>4, SearchFinds DEF Start, world, FirstOfSeveral, Several
  <1>6. /\ threads' = threads /\ step' = 1 /\ tour' = t /\ ~ chosen'.set
        /\ frame'.of = "kernel"
    BY DEF Start, world, Nobody, Blank
  <1> QED BY <1>3, <1>5, <1>6 DEF OfNamed

LEMMA LeaveNames == ASSUME OfNamed, Leave PROVE OfNamed'
  BY OrderTyped DEF Leave, OfNamed, Blank, world

LEMMA ChooseNames ==
    ASSUME RaceInv, OfNamed, Choose
    PROVE  OfNamed'
  <1>1. PICK p \in Owners(Tours[tour][step + 1].shown.whose) :
            chosen' = [who |-> p, mm |-> p \in Procs /\ mm[p], set |-> TRUE]
    BY DEF Choose
  <1>2. /\ step \in 1..(Len(Tours[tour]) - 1) /\ step' = step + 1
        /\ UNCHANGED <<threads, tour, named, moved, frame>>
    BY DEF Choose, world
  <1>3. Len(Tours[tour]) \in Nat
    BY StepsArePlain DEF RaceInv
  <1>4. step + 1 \in 1..Len(Tours[tour]) /\ step # 0 /\ step' # 0
    BY <1>2, <1>3
  <1>5. tour = "process_architecture" /\ ~ moved => chosen'.who \in {named, "kernel"}
    BY <1>1, <1>4, FoundIsNamed DEF OfNamed
  <1>6. FirstOfSeveral(named)' <=> FirstOfSeveral(named)
    BY <1>2 DEF FirstOfSeveral, Several
  <1> QED BY <1>2, <1>4, <1>5, <1>6 DEF OfNamed

LEMMA ReadNames ==
    ASSUME RaceInv, OfNamed, Read
    PROVE  OfNamed'
  <1>1. chosen.set /\ ~ chosen'.set /\ UNCHANGED <<threads, tour, step, named, moved>>
    BY DEF Read, world, Nobody
  <1>2. PICK t \in Comes(Now.shown) : frame' \in Again(t)
    BY DEF Read
  <1>3. step # 0 /\ step \in 1..Len(Tours[tour])
    <2>1. step \in 0..Len(Tours[tour]) /\ step # 0 /\ Len(Tours[tour]) \in Nat
      BY <1>1, StepsArePlain DEF RaceInv
    <2> QED BY <2>1
  <1>4. ASSUME tour = "process_architecture", ~ moved PROVE frame'.of \in {named, "kernel"}
    <2>1. chosen.who \in {named, "kernel"} /\ FirstOfSeveral(named)
      BY <1>1, <1>3, <1>4 DEF OfNamed
    <2>2. \A p \in Owners(Now.shown.whose) : p \in {named, "kernel"}
      BY <1>3, <1>4, <2>1, FoundIsNamed DEF Now
    <2>3. frame'.of \in Owners(Now.shown.whose) \cup {chosen.who, "kernel"}
      BY <1>2 DEF Again
    <2> QED BY <2>1, <2>2, <2>3
  <1>5. FirstOfSeveral(named)' <=> FirstOfSeveral(named)
    BY <1>1 DEF FirstOfSeveral, Several
  <1> QED BY <1>1, <1>3, <1>4, <1>5 DEF OfNamed

\* Threads come and go: what does not move the search leaves it its first.
LEMMA ThreadsName ==
    ASSUME OfNamed, NEW p \in Procs,
           Fork(p) \/ Clone(p) \/ ThreadEnds(p) \/ LeaderExits(p) \/ Reaped(p)
    PROVE  OfNamed'
  <1>1. UNCHANGED <<tour, step, named, chosen, frame>> /\ (~ moved' => ~ moved)
    <2>1. CASE Fork(p) \/ LeaderExits(p) \/ Reaped(p)
      BY <2>1 DEF Fork, LeaderExits, Reaped, Elsewhere, Settled
    <2>2. CASE Clone(p)
      BY <2>2 DEF Clone, Elsewhere
    <2>3. CASE ThreadEnds(p)
      BY <2>3 DEF ThreadEnds, Elsewhere
    <2> QED BY <2>1, <2>2, <2>3
  <1>2. threads' \in [Procs -> 0..2] /\ \A q \in Procs \ {p} : threads'[q] = threads[q]
    BY DEF OfNamed, Fork, Clone, ThreadEnds, LeaderExits, Reaped
  <1>3. ASSUME FirstOfSeveral(named), ~ moved' PROVE FirstOfSeveral(named)'
    <2>1. CASE Fork(p) \/ LeaderExits(p) \/ Reaped(p)
      <3>1. \A q \in Procs : Several(q)' <=> Several(q)
        BY <1>2, <2>1 DEF OfNamed, Several, Fork, LeaderExits, Reaped
      <3> QED BY <1>1, <1>3, <3>1, OrderTyped DEF FirstOfSeveral
    <2>2. CASE ThreadEnds(p)
      <3>1. p # named /\ \A q \in Procs : Several(q)' => Several(q)
        <4>1. p # named
          BY <1>3, <2>2 DEF ThreadEnds
        <4>2. threads'[p] = 1
          BY <2>2 DEF ThreadEnds, OfNamed
        <4>3. ~ Several(p)'
          BY <4>2 DEF Several
        <4>4. \A q \in Procs \ {p} : Several(q)' <=> Several(q)
          BY <1>2 DEF Several
        <4> QED BY <4>1, <4>3, <4>4
      <3>2. Several(named) => Several(named)'
        BY <1>1, <1>2, <3>1 DEF Several, OfNamed
      <3> QED BY <1>1, <1>3, <3>1, <3>2, OrderTyped DEF FirstOfSeveral
    <2>3. CASE Clone(p)
      <3>1. threads[p] = 1 /\ threads[named] = 2 /\ ~ Before(p, named)
        BY <1>3, <2>3 DEF Clone
      <3>2. p # named /\ Several(named) /\ Several(named)'
        BY <1>1, <1>2, <3>1 DEF OfNamed, Several
      <3>3. CASE named = "init"
        BY <1>1, <3>2, <3>3 DEF FirstOfSeveral
      <3>4. CASE named # "init"
        <4>1. p # "init"
          BY <3>1, <3>4 DEF Before
        <4>2. PICK i \in DOMAIN Order : /\ named = Order[i] /\ ~ Several("init")
                                        /\ \A j \in DOMAIN Order : j < i => ~ Several(Order[j])
          BY <1>3, <3>4 DEF FirstOfSeveral
        <4>3. ~ Several("init")'
          BY <1>2, <4>1, <4>2, OrderTyped DEF Several
        <4>4. \A j \in DOMAIN Order : j < i => ~ Several(Order[j])'
          BY <1>2, <3>1, <4>2, OrderTyped DEF Before, Several
        <4> QED BY <1>1, <3>2, <4>2, <4>3, <4>4 DEF FirstOfSeveral
      <3> QED BY <3>3, <3>4
    <2> QED BY <2>1, <2>2, <2>3
  <1> QED BY <1>1, <1>2, <1>3 DEF OfNamed

\* All steps of the tour of a process show the process that their titles name,
\* whatever other processes do, until one of its threads ends or one before it
\* has a second one.
THEOREM TourKeepsItsProcess == ToursSpec => []ShowsWhoItNames
  <1>1. RaceInv /\ OfNamed /\ [ToursNext]_toursVars => OfNamed'
    <2> SUFFICES ASSUME RaceInv, OfNamed, [ToursNext]_toursVars PROVE OfNamed'
      OBVIOUS
    <2>1. CASE ToursNext
      BY <2>1, StartNames, LeaveNames, ChooseNames, ReadNames, ThreadsName DEF ToursNext
    <2>2. CASE UNCHANGED toursVars
      BY <2>2 DEF toursVars, world, OfNamed, FirstOfSeveral, Several
    <2> QED BY <2>1, <2>2
  <1>2. OfNamed => ShowsWhoItNames
    BY DEF OfNamed, ShowsWhoItNames
  <1> QED BY <1>1, <1>2, OfNamedInit, RaceInvariant, PTL DEF ToursSpec

===============================================================================
